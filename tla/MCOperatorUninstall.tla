------------------------ MODULE MCOperatorUninstall -------------------------
(***************************************************************************)
(* Instances of OperatorUninstall for TLC: a CRD the operator owns, and    *)
(* one it requires of another operator.                                    *)
(***************************************************************************)
EXTENDS OperatorUninstall

CONSTANTS owned, required

MCCRDs == {owned, required}
MCOwned == {owned}
=============================================================================
