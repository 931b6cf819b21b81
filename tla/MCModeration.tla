---------------------------- MODULE MCModeration ----------------------------
(* Two players, one of them with a long name, against limits of one.       *)
EXTENDS Moderation, TLC

CONSTANTS p1, p2

MCIds == {p1, p2}
MCKinds == {"Mute", "Gag"}
MCLongNames == {p1}
MCDurations == {0, 1}
=============================================================================
