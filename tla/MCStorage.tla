----------------------------- MODULE MCStorage -----------------------------
(* Two administrators, the two documents of the migration, one store that  *)
(* the in-game menu writes to and one that only commands change.           *)
EXTENDS StorageRefinement, TLC

CONSTANTS p1, p2

MCIds == {p1, p2}
MCRest == <<"bans", "operations">>
MCMenuStores == {"bans"}
MCSymmetry == Permutations(MCIds)
=============================================================================
