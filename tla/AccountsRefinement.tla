------------------------- MODULE AccountsRefinement -------------------------
(***************************************************************************)
(* Accounts implements AccountBook: the book is the document as the next   *)
(* start would read it, with the capabilities that a start grants by role. *)
(***************************************************************************)
EXTENDS Accounts

ReadBack == IF disk = NoDocument THEN EmptyStore ELSE RegrantedStore(disk)

Book == INSTANCE AccountBook WITH
  book     <- ReadBack,
  Managing <- {a \in Account : PermanentManager(a)},
  Roomy    <- {ids \in SUBSET Ids : Cardinality(ids) < MaxAccounts}

(* Failed saves, crashes, restarts and the passing of time leave the book  *)
(* alone; what a request changes is one account, checked against the book  *)
(* as it is and not against an older one, and somebody can manage it       *)
(* afterwards, so that an installation is claimed only once.               *)
ImplementsAccountBook == Book!Spec
=============================================================================
