------------------------------ MODULE AdminList ------------------------------
(***************************************************************************)
(* What the in-game administrators are to those who manage them: one list, *)
(* changed one name at a time and only by a running plugin.  Who has       *)
(* rights in the game is on the list, and once the plugin runs everybody   *)
(* on it has them.  Starts that stop half-way, crashes, and the move of    *)
(* the list from one document to another do not show.                      *)
(*                                                                         *)
(* Storage implements this module: StorageRefinement.                      *)
(***************************************************************************)
CONSTANT Ids

VARIABLES
  admins,          \* the list, wherever it is kept
  rights,          \* who has rights in the game now
  serving          \* the plugin runs

vars == <<admins, rights, serving>>

Init == admins \subseteq Ids /\ rights = {} /\ ~serving

(* A start reads the list, perhaps only a part of it before it fails, and  *)
(* a stop forgets it.                                                      *)
Load ==
  /\ ~serving'
  /\ rights' \subseteq admins
  /\ UNCHANGED admins

Serve ==
  /\ ~serving /\ serving'
  /\ rights' = admins
  /\ UNCHANGED admins

Edit(list) ==
  /\ serving
  /\ admins' = list /\ rights' = list
  /\ UNCHANGED serving

Add(s) == s \notin admins /\ Edit(admins \cup {s})

Delete(s) == s \in admins /\ Edit(admins \ {s})

Next == Load \/ Serve \/ \E s \in Ids : Add(s) \/ Delete(s)

Spec == Init /\ [][Next]_vars
=============================================================================
