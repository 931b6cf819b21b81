-------------------------- MODULE StorageRefinement --------------------------
(***************************************************************************)
(* Storage implements AdminList.  Until the links are cleared the list is  *)
(* spread over two documents, each of which may be a row or still a file;  *)
(* it is what the next start would find of them together.                  *)
(***************************************************************************)
EXTENDS Storage

Listed == Found("accounts") \cup Found("game_admins")

List == INSTANCE AdminList WITH
  admins  <- Listed,
  rights  <- memory["game_admins"],
  serving <- phase = "up"

(* The migration cannot be seen: whatever fails, crashes or is imported,   *)
(* the list changes only when a command adds or deletes an administrator,  *)
(* by that one; nobody off the list has rights in the game, and a plugin   *)
(* that runs knows the whole list.                                         *)
ImplementsAdminList == List!Spec
=============================================================================
