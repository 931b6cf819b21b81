----------------------------- MODULE AccountBook -----------------------------
(***************************************************************************)
(* What neo_admin_accounts.h promises to whoever manages administrators:   *)
(* a book of accounts that changes one account at a time, as a whole or    *)
(* not at all.  It starts empty, is claimed once, and never gets back to   *)
(* a state without an account that can manage the others for good.  The    *)
(* secret of the server is the key of the account it made and of no other. *)
(*                                                                         *)
(* Next constrains the new book and does not enumerate it; Accounts        *)
(* implements this module: AccountsRefinement.                             *)
(***************************************************************************)
CONSTANTS
  Ids,             \* account IDs
  NoAccount,       \* no account has this ID
  Managing,        \* the accounts that manage the others, for good
  ServerKey,       \* the secret of the server
  Roomy            \* the sets of IDs that leave room for one more

VARIABLE
  book             \* what the next start of the server reads

Members == {id \in Ids : book[id] # NoAccount}

Managed == \E id \in Ids : book[id] \in Managing

Init == book = [id \in Ids |-> NoAccount]

Changes(id) == book'[id] # book[id]

Only(id) == book' = [book EXCEPT ![id] = book'[id]]

(* The first account, that of the server's secret or of a claim.           *)
Claim(id) == Members = {} /\ book'[id] \in Managing

Create(id) ==
  /\ Members # {} /\ id \notin Members /\ Members \in Roomy
  /\ book'[id] # NoAccount /\ book'[id].key # ServerKey

Edit(id) ==
  /\ id \in Members
  /\ book'[id] # NoAccount
  /\ book'[id].key = ServerKey => book[id].key = ServerKey

Delete(id) == id \in Members /\ book'[id] = NoAccount

Next ==
  \E id \in Ids :
    /\ Changes(id)
    /\ Claim(id) \/ Create(id) \/ Edit(id) \/ Delete(id)
    /\ Only(id)
    /\ Managed'

Spec == Init /\ [][Next]_book
=============================================================================
