---------------------------- MODULE MCScorecard -----------------------------
(***************************************************************************)
(* Instances of Scorecard for TLC: a parallel stage of two tests, one of   *)
(* which keeps output, a stage without selected tests, and a sequential    *)
(* stage of two tests.                                                     *)
(***************************************************************************)
EXTENDS Scorecard

CONSTANTS basic, olm1, olm2, custom

MCTests == {basic, olm1, olm2, custom}
MCStages == << [parallel |-> TRUE,  tests |-> <<basic, custom>>],
               [parallel |-> FALSE, tests |-> <<>>],
               [parallel |-> FALSE, tests |-> <<olm1, olm2>>] >>
MCStorage == {custom}
=============================================================================
