---------------------------- MODULE MCOperations ----------------------------
(* Operations on a small instance: two maps that rotate and are scheduled, *)
(* announcements, and a clock on which an interval passes.                 *)
EXTENDS Operations

CONSTANTS m1, m2, n1

MCTwoMaps == {m1, m2}
MCMessages == {n1}
MCRepeats == {1}
=============================================================================
