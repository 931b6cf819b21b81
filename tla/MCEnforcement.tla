--------------------------- MODULE MCEnforcement ----------------------------
(* One player and two slots.                                               *)
EXTENDS Enforcement

CONSTANTS p1, s1, s2

MCOneId == {p1}
MCSlots == {s1}
MCTwoSlots == {s1, s2}
MCKinds == {"Mute"}
MCDurations == {1}
=============================================================================
