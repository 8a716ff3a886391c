--------------------------- MODULE MCHelmOperator ---------------------------
(***************************************************************************)
(* Instances of HelmOperator for TLC: two specs, one of which renders an   *)
(* object the other does not; that object is cluster scoped, so the        *)
(* garbage collector never deletes it.                                     *)
(***************************************************************************)
EXTENDS HelmOperator, TLC

CONSTANTS v1, v2, config, extra

MCValues == {v1, v2}
MCResources == {config, extra}
MCRenders == (v1 :> {config}) @@ (v2 :> {config, extra})
MCOwned == {config}
=============================================================================
