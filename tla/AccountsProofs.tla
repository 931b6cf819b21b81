--------------------------- MODULE AccountsProofs ---------------------------
(* Theorems about the administrator accounts of Accounts.                  *)
EXTENDS AccountsRefinement, TLAPS

-----------------------------------------------------------------------------
(* The accounts that requests and loading make are accounts.               *)

LEMMA OwnerIsAccount ==
  ASSUME NEW key \in Keys \cup {ServerKey}
  PROVE  Owner(key) \in Account /\ PermanentManager(Owner(key))
<1>1. "Owner" \in Roles /\ "ManageAccounts" \in Permissions
  BY DEF Roles, Permissions
<1> QED
  BY <1>1 DEF Owner, Account, PermanentManager

LEMMA UpdatedIsAccount ==
  ASSUME NEW r \in Requests, NEW key \in Keys \cup {ServerKey}
  PROVE  /\ Updated(r, key) \in Account
         /\ PermanentManager(Updated(r, key)) <=> PermanentManager(r)
<1>1. r \in Request
  BY RequestsAssumption
<1>2. Updated(r, key) \in Account
  BY <1>1 DEF Request, Account, Updated
<1>3. PermanentManager(Updated(r, key)) <=> PermanentManager(r)
  BY DEF Updated, PermanentManager
<1> QED
  BY <1>2, <1>3

(* Loading touches no field but the permissions, takes none away, does not *)
(* hand out account management, and changes nothing the second time.       *)
LEMMA RegrantedAccount ==
  ASSUME NEW a \in Account
  PROVE  /\ Regranted(a) \in Account
         /\ Regranted(Regranted(a)) = Regranted(a)
         /\ PermanentManager(Regranted(a)) <=> PermanentManager(a)
         /\ Regranted(a).key = a.key
<1> DEFINE G == {p \in DOMAIN GrantedOnLoad : a.role \in GrantedOnLoad[p]}
<1>1. G \subseteq Permissions
  BY DEF Permissions
<1>2. "ManageAccounts" \notin DOMAIN GrantedOnLoad
  BY DEF GrantedOnLoad
<1>3. "ManageAccounts" \notin G
  BY <1>2
<1>4. Regranted(a) = [a EXCEPT !.permissions = a.permissions \cup G]
  BY DEF Regranted, Account
<1> HIDE DEF G
<1>5. /\ Regranted(a).permissions = a.permissions \cup G
      /\ Regranted(a).role = a.role
      /\ Regranted(a).enabled = a.enabled
      /\ Regranted(a).expires = a.expires
      /\ Regranted(a).key = a.key
  BY <1>4 DEF Account
<1>6. Regranted(a) \in Account
  BY <1>1, <1>4 DEF Account
<1>7. Regranted(Regranted(a)) =
        [Regranted(a) EXCEPT !.permissions = Regranted(a).permissions \cup G]
  <2>1. G = {p \in DOMAIN GrantedOnLoad : Regranted(a).role \in GrantedOnLoad[p]}
    BY <1>5 DEF G
  <2> QED
    BY <2>1, <1>6 DEF Regranted, Account
<1>8. Regranted(Regranted(a)) = Regranted(a)
  BY <1>5, <1>6, <1>7 DEF Account
<1>9. PermanentManager(Regranted(a)) <=> PermanentManager(a)
  BY <1>3, <1>5 DEF PermanentManager
<1> QED
  BY <1>5, <1>6, <1>8, <1>9

LEMMA RegrantedStoreKeeps ==
  ASSUME NEW store \in Store
  PROVE  /\ RegrantedStore(store) \in Store
         /\ Members(RegrantedStore(store)) = Members(store)
         /\ Managers(RegrantedStore(store)) = Managers(store)
         /\ RegrantedStore(RegrantedStore(store)) = RegrantedStore(store)
<1> DEFINE S == RegrantedStore(store)
<1>1. ASSUME NEW id \in Ids, store[id] = NoAccount
      PROVE  S[id] = NoAccount
  BY <1>1 DEF RegrantedStore
<1>2. ASSUME NEW id \in Ids, store[id] # NoAccount
      PROVE  /\ store[id] \in Account
             /\ S[id] = Regranted(store[id])
             /\ S[id] \in Account /\ S[id] # NoAccount
             /\ Regranted(S[id]) = S[id]
             /\ PermanentManager(S[id]) <=> PermanentManager(store[id])
  <2>1. store[id] \in Account
    BY <1>2 DEF Store
  <2>2. S[id] = Regranted(store[id])
    BY <1>2 DEF RegrantedStore
  <2> QED
    BY <2>1, <2>2, RegrantedAccount, NoAccountAssumption
<1>3. S \in Store
  BY <1>1, <1>2 DEF Store, RegrantedStore
<1>4. Members(S) = Members(store)
  BY <1>1, <1>2 DEF Members
<1>5. Managers(S) = Managers(store)
  BY <1>2, <1>4 DEF Managers, Members
<1>6. RegrantedStore(S) = S
  <2>1. \A id \in Ids :
          (IF S[id] = NoAccount THEN NoAccount ELSE Regranted(S[id])) = S[id]
    BY <1>1, <1>2
  <2>2. S = [id \in Ids |-> S[id]]
    BY <1>3 DEF Store
  <2> QED
    BY <2>1, <2>2 DEF RegrantedStore
<1> QED
  BY <1>3, <1>4, <1>5, <1>6

LEMMA EmptyStoreFacts ==
  EmptyStore \in Store /\ Members(EmptyStore) = {}
BY DEF EmptyStore, Store, Members

(* Writing one account or removing it changes this account only.           *)
LEMMA StorePut ==
  ASSUME NEW store \in Store, NEW id \in Ids, NEW a \in Account
  PROVE  LET new == [store EXCEPT ![id] = a] IN
         /\ new \in Store
         /\ id \in Members(new)
         /\ PermanentManager(a) => id \in Managers(new)
         /\ \A other \in Managers(store) : other # id => other \in Managers(new)
BY NoAccountAssumption DEF Store, Members, Managers

LEMMA StoreRemove ==
  ASSUME NEW store \in Store, NEW id \in Ids
  PROVE  LET new == [store EXCEPT ![id] = NoAccount] IN
         /\ new \in Store
         /\ Members(new) = Members(store) \ {id}
         /\ Managers(new) = Managers(store) \ {id}
BY DEF Store, Members, Managers

-----------------------------------------------------------------------------
(* How a request may rewrite the accounts: one of them, on the terms of    *)
(* AccountBook, and so that somebody can manage the result.                *)
Terms(old, id, a) ==
  \/ Members(old) = {} /\ PermanentManager(a)
  \/ /\ Members(old) # {} /\ id \notin Members(old)
     /\ Cardinality(Members(old)) < MaxAccounts
     /\ a.key # ServerKey
  \/ id \in Members(old) /\ (a.key = ServerKey => old[id].key = ServerKey)

Rewritten(old, new) ==
  /\ Managers(new) # {}
  /\ \E id \in Ids :
       \/ \E a \in Account : new = [old EXCEPT ![id] = a] /\ Terms(old, id, a)
       \/ id \in Members(old) /\ new = [old EXCEPT ![id] = NoAccount]

LEMMA RewrittenStore ==
  ASSUME NEW old \in Store, NEW new, Rewritten(old, new)
  PROVE  new \in Store
BY DEF Rewritten, Store

(* The accounts of the server secret and of a claim come first.            *)
LEMMA FirstAccount ==
  ASSUME NEW old \in Store, Members(old) = {}, NEW id \in Ids,
         NEW key \in Keys \cup {ServerKey}
  PROVE  Rewritten(old, [old EXCEPT ![id] = Owner(key)])
<1> DEFINE new == [old EXCEPT ![id] = Owner(key)]
<1>1. Owner(key) \in Account /\ PermanentManager(Owner(key))
  BY OwnerIsAccount
<1>2. id \in Managers(new)
  BY <1>1, StorePut
<1>3. Terms(old, id, Owner(key))
  BY <1>1 DEF Terms
<1> QED
  BY <1>1, <1>2, <1>3 DEF Rewritten

LEMMA RequestEffect ==
  ASSUME accounts \in Store, AccountRequest,
         Members(accounts) # {} => Managers(accounts) # {}
  PROVE  \E change \in Store : Save(change) /\ Rewritten(accounts, change)
<1>0. SUFFICES \E change : Save(change) /\ Rewritten(accounts, change)
  BY RewrittenStore
<1>1. CASE \E id \in Ids, key \in Keys : BootstrapOwner(id, key)
  <2>1. PICK id \in Ids, key \in Keys : BootstrapOwner(id, key)
    BY <1>1
  <2> QED
    BY <2>1, FirstAccount DEF BootstrapOwner
<1>2. ASSUME Members(accounts) # {}, NEW acting \in Ids, NEW r \in Requests,
             Upsert(r, acting)
      PROVE  \E change : Save(change) /\ Rewritten(accounts, change)
  <2>0. r.id \in Ids /\ r.key \in Keys \cup {NoKey}
    BY RequestsAssumption DEF Request
  <2>1. PICK m \in Managers(accounts) : TRUE
    BY <1>2
  <2>2. CASE Create(r)
    <3>1. r.key \in Keys
      BY <2>0, <2>2 DEF Create, MayCreate
    <3>2. Updated(r, r.key) \in Account
      BY <3>1, UpdatedIsAccount
    <3>3. m # r.id
      BY <2>1, <2>2 DEF Create, MayCreate, Managers
    <3>4. m \in Managers([accounts EXCEPT ![r.id] = Updated(r, r.key)])
      BY <2>0, <2>1, <3>2, <3>3, StorePut
    <3>5. Terms(accounts, r.id, Updated(r, r.key))
      BY <1>2, <2>2, <3>1, KeysAssumption DEF Create, MayCreate, Terms, Updated
    <3> QED
      BY <2>0, <2>2, <3>2, <3>4, <3>5 DEF Create, Rewritten
  <2>3. CASE Edit(r, acting)
    <3> DEFINE key == IF r.key = NoKey THEN accounts[r.id].key ELSE r.key
    <3>1. accounts[r.id] \in Account /\ r.id \in Members(accounts)
      BY <2>0, <2>3 DEF Edit, MayEdit, Members, Store
    <3>2. key \in Keys \cup {ServerKey}
      BY <2>0, <3>1 DEF Account
    <3>3. Save([accounts EXCEPT ![r.id] = Updated(r, key)])
      BY <2>3 DEF Edit
    <3>4. key = ServerKey => accounts[r.id].key = ServerKey
      BY <2>0, KeysAssumption
    <3> HIDE DEF key
    <3>5. /\ Updated(r, key) \in Account
          /\ PermanentManager(Updated(r, key)) <=> PermanentManager(r)
      BY <3>2, UpdatedIsAccount
    <3>6. Updated(r, key).key = key
      BY DEF Updated
    <3>7. PermanentManager(r) \/ \E other \in Managers(accounts) : other # r.id
      <4>1. CASE PermanentManager(accounts[r.id])
        BY <2>3, <4>1 DEF Edit, MayEdit, HasAnotherEnabledManager
      <4>2. CASE ~PermanentManager(accounts[r.id])
        BY <2>1, <4>2 DEF Managers
      <4> QED
        BY <4>1, <4>2
    <3>8. Managers([accounts EXCEPT ![r.id] = Updated(r, key)]) # {}
      BY <2>0, <3>5, <3>7, StorePut
    <3>9. Terms(accounts, r.id, Updated(r, key))
      BY <3>1, <3>4, <3>6 DEF Terms
    <3> QED
      BY <2>0, <3>3, <3>5, <3>8, <3>9 DEF Rewritten
  <2> QED
    BY <1>2, <2>2, <2>3 DEF Upsert
<1>3. ASSUME Members(accounts) # {}, NEW acting \in Ids, NEW id \in Ids,
             Remove(id, acting)
      PROVE  \E change : Save(change) /\ Rewritten(accounts, change)
  <2>1. id \in Members(accounts) /\ \E other \in Managers(accounts) : other # id
    BY <1>3 DEF Remove, MayRemove, HasAnotherEnabledManager, Managers
  <2>2. Managers([accounts EXCEPT ![id] = NoAccount]) # {}
    BY <2>1, StoreRemove
  <2> QED
    BY <1>3, <2>1, <2>2 DEF Remove, Rewritten
<1> QED
  BY <1>1, <1>2, <1>3 DEF AccountRequest

-----------------------------------------------------------------------------
(* The inductive invariant: all three copies of the accounts have a        *)
(* manager, also the copy a failed save would bring back; once the store   *)
(* is claimed none of them is empty; and the copy that is not being        *)
(* written agrees with the document.                                       *)

Governed(store) == Members(store) # {} => Managers(store) # {}

Manageable ==
  /\ phase # "down" => Governed(accounts)
  /\ phase = "saving" => Governed(previous)
  /\ disk # NoDocument => Governed(disk)

NeverEmptied ==
  Claimed => /\ phase # "starting"
             /\ phase # "down" => Members(accounts) # {}
             /\ phase = "saving" => Members(previous) # {}

Agree(store) == disk # NoDocument /\ RegrantedStore(store) = RegrantedStore(disk)

Mirrored ==
  /\ phase = "ready" => Agree(accounts)
  /\ phase = "saving" => Agree(previous)

Invariant == TypeOK /\ Manageable /\ NeverEmptied /\ Mirrored

LEMMA InitInvariant == AccountsInit => Invariant
<1> SUFFICES ASSUME AccountsInit PROVE Invariant
  OBVIOUS
<1>1. TypeOK
  BY EmptyStoreFacts, MaxTimeAssumption DEF AccountsInit, TypeOK
<1>2. Manageable
  BY DEF AccountsInit, Manageable
<1>3. NeverEmptied
  BY DEF AccountsInit, NeverEmptied, Claimed
<1>4. Mirrored
  BY DEF AccountsInit, Mirrored
<1> QED
  BY <1>1, <1>2, <1>3, <1>4 DEF Invariant

LEMMA StepInvariant == Invariant /\ [AccountsNext]_accountVars => Invariant'
<1> SUFFICES ASSUME Invariant, [AccountsNext]_accountVars PROVE Invariant'
  OBVIOUS
<1> USE DEF Invariant, TypeOK
<1>1. ASSUME NEW configured \in BOOLEAN, LoadNothing(configured)
      PROVE  Invariant'
  <2> DEFINE first == [EmptyStore EXCEPT ![OwnerId] = Owner(ServerKey)]
  <2>1. first \in Store /\ Governed(first)
    BY OwnerIsAccount, OwnerAssumption, EmptyStoreFacts, StorePut DEF Governed
  <2>2. EmptyStore \in Store /\ Governed(EmptyStore)
    BY EmptyStoreFacts DEF Governed
  <2>3. accounts' \in Store /\ Governed(accounts')
    <3>1. accounts' = first \/ accounts' = EmptyStore
      BY <1>1 DEF LoadNothing
    <3> QED
      BY <2>1, <2>2, <3>1
  <2>4. phase' = "starting" /\ disk' = NoDocument /\ UNCHANGED <<previous, clock>>
    BY <1>1 DEF LoadNothing
  <2> QED
    BY <2>3, <2>4 DEF Manageable, NeverEmptied, Claimed, Mirrored, Governed
<1>2. ASSUME NEW configured \in BOOLEAN, LoadDocument(configured)
      PROVE  Invariant'
  <2>1. /\ disk \in Store /\ disk # NoDocument /\ Governed(disk)
        /\ accounts' = RegrantedStore(disk)
        /\ phase' = "ready" /\ UNCHANGED <<previous, disk, clock>>
    BY <1>2 DEF LoadDocument, Loadable, Governed
  <2>2. /\ accounts' \in Store /\ Governed(accounts')
        /\ Members(accounts') = Members(disk)
        /\ RegrantedStore(accounts') = RegrantedStore(disk)
    BY <2>1, RegrantedStoreKeeps DEF Governed
  <2> QED
    BY <2>1, <2>2 DEF Manageable, NeverEmptied, Claimed, Mirrored, Agree, Governed
<1>3. CASE Commit
  <2>1. /\ disk' = accounts /\ phase' = "ready" /\ phase # "down"
        /\ UNCHANGED <<accounts, previous, clock>>
    BY <1>3 DEF Commit
  <2>2. disk' # NoDocument
    BY <2>1, NoDocumentAssumption DEF Store
  <2> QED
    BY <2>1, <2>2 DEF Manageable, NeverEmptied, Claimed, Mirrored, Agree, Governed
<1>4. CASE SaveFails
  BY <1>4 DEF SaveFails, Manageable, NeverEmptied, Claimed, Mirrored, Agree, Governed
<1>5. CASE StartFails
  BY <1>5, EmptyStoreFacts
     DEF StartFails, Manageable, NeverEmptied, Claimed, Mirrored, Agree, Governed
<1>6. CASE Stop
  BY <1>6, EmptyStoreFacts
     DEF Stop, Manageable, NeverEmptied, Claimed, Mirrored, Agree, Governed
<1>7. CASE Crash
  <2>1. /\ accounts' = EmptyStore /\ phase' = "down"
        /\ UNCHANGED <<previous, clock>>
        /\ disk' = disk \/ disk' = accounts
        /\ phase # "down"
    BY <1>7 DEF Crash
  <2>2. disk' # NoDocument => Governed(disk)' /\ disk' \in Store
    BY <2>1 DEF Manageable, Governed
  <2> QED
    BY <2>1, <2>2, EmptyStoreFacts
       DEF Manageable, NeverEmptied, Claimed, Mirrored, Governed
<1>8. CASE Tick
  <2>1. clock' \in 0..MaxTime /\ UNCHANGED <<accounts, previous, phase, disk>>
    BY <1>8, MaxTimeAssumption DEF Tick
  <2> QED
    BY <2>1 DEF Manageable, NeverEmptied, Claimed, Mirrored, Agree, Governed
<1>9. CASE AccountRequest
  <2>0. phase = "ready"
    BY <1>9 DEF AccountRequest, BootstrapOwner, Upsert, Create, Edit, Remove, Save
  <2>1. PICK change \in Store : Save(change) /\ Managers(change) # {}
    BY <1>9, <2>0, RequestEffect DEF Manageable, Governed, Rewritten
  <2>2. /\ accounts' = change /\ previous' = accounts /\ phase' = "saving"
        /\ UNCHANGED <<disk, clock>>
    BY <2>1 DEF Save
  <2>3. Governed(change) /\ Members(change) # {}
    BY <2>1 DEF Governed, Managers
  <2> QED
    BY <2>0, <2>2, <2>3 DEF Manageable, NeverEmptied, Claimed, Mirrored, Agree, Governed
<1>10. CASE UNCHANGED accountVars
  BY <1>10 DEF accountVars, Manageable, NeverEmptied, Claimed, Mirrored, Agree, Governed
<1> QED
  BY <1>1, <1>2, <1>3, <1>4, <1>5, <1>6, <1>7, <1>8, <1>9, <1>10
     DEF AccountsNext, Environment

-----------------------------------------------------------------------------
LEMMA AlwaysInvariant == AccountsSpec => []Invariant
<1> QED
  BY InitInvariant, StepInvariant, PTL DEF AccountsSpec

(* Every variable keeps its type.                                          *)
THEOREM AccountsTypeCorrect == AccountsSpec => []TypeOK
<1>1. Invariant => TypeOK
  BY DEF Invariant
<1> QED
  BY <1>1, AlwaysInvariant, PTL

(* No sequence of edits, deletions, expirations, failed saves and crashes  *)
(* leaves a running server with accounts but without somebody to manage    *)
(* them.                                                                   *)
THEOREM ManagerAlwaysRemains == AccountsSpec => []ManagerRemains
<1>1. Invariant => ManagerRemains
  BY DEF Invariant, Manageable, Governed, ManagerRemains
<1> QED
  BY <1>1, AlwaysInvariant, PTL

(* The document on disk is always one that the next start accepts while    *)
(* the server secret is configured.                                        *)
THEOREM DocumentAlwaysLoads == AccountsSpec => []StoreReloads
<1>1. Invariant => StoreReloads
  BY DEF Invariant, Manageable, Governed, StoreReloads, Loadable
<1> QED
  BY <1>1, AlwaysInvariant, PTL

(* Between requests memory and disk differ in nothing but the capabilities *)
(* loading grants by role.                                                 *)
THEOREM MemoryMirrorsDisk == AccountsSpec => []MirrorsDisk
<1>1. Invariant => MirrorsDisk
  <2> SUFFICES ASSUME Invariant, phase = "ready"
               PROVE  /\ disk # NoDocument
                      /\ RegrantedStore(accounts) = RegrantedStore(disk)
                      /\ Managers(accounts) = Managers(disk)
    BY DEF MirrorsDisk
  <2>1. disk # NoDocument /\ RegrantedStore(accounts) = RegrantedStore(disk)
    BY DEF Invariant, Mirrored, Agree
  <2>2. accounts \in Store /\ disk \in Store
    BY <2>1 DEF Invariant, TypeOK
  <2> QED
    BY <2>1, <2>2, RegrantedStoreKeeps
<1> QED
  BY <1>1, AlwaysInvariant, PTL

LEMMA ClaimedStep ==
  Invariant /\ [AccountsNext]_accountVars /\ Claimed => Claimed'
<1> SUFFICES ASSUME Invariant, [AccountsNext]_accountVars, Claimed PROVE Claimed'
  OBVIOUS
<1>1. CASE UNCHANGED disk
  BY <1>1 DEF Claimed
<1>2. CASE Commit \/ (Crash /\ disk' = accounts)
  <2>1. disk' = accounts /\ phase # "down"
    BY <1>2 DEF Commit, Crash
  <2>2. Members(accounts) # {} /\ accounts # NoDocument
    BY <2>1, NoDocumentAssumption DEF Invariant, TypeOK, NeverEmptied, Store
  <2> QED
    BY <2>1, <2>2 DEF Claimed
<1> QED
  BY <1>1, <1>2
     DEF AccountsNext, Environment, AccountRequest, LoadNothing, LoadDocument,
         SaveFails, StartFails, Stop, Crash, Tick, BootstrapOwner, Upsert,
         Create, Edit, Remove, Save, accountVars

(* The first-owner code is never offered for a store that was claimed.     *)
THEOREM SetupClosesForGood == AccountsSpec => SetupNeverReopens
<1>1. Invariant /\ [AccountsNext]_accountVars => [Claimed => Claimed']_accountVars
  BY ClaimedStep
<1> QED
  BY <1>1, AlwaysInvariant, PTL DEF AccountsSpec, SetupNeverReopens

-----------------------------------------------------------------------------
(* The refinement of AccountBook.  What is being written is a rewriting of *)
(* the accounts that the document has, not of older ones.                  *)
Pending ==
  /\ phase = "saving" => Rewritten(previous, accounts)
  /\ phase = "starting" =>
       disk = NoDocument /\ (accounts = EmptyStore \/ Rewritten(EmptyStore, accounts))

LEMMA PendingStep == Invariant /\ Pending /\ [AccountsNext]_accountVars => Pending'
<1> SUFFICES ASSUME Invariant, Pending, [AccountsNext]_accountVars PROVE Pending'
  OBVIOUS
<1>1. ASSUME NEW configured \in BOOLEAN, LoadNothing(configured) PROVE Pending'
  <2>1. /\ phase' = "starting" /\ disk' = NoDocument
        /\ \/ accounts' = EmptyStore
           \/ accounts' = [EmptyStore EXCEPT ![OwnerId] = Owner(ServerKey)]
    BY <1>1 DEF LoadNothing
  <2>2. Rewritten(EmptyStore, [EmptyStore EXCEPT ![OwnerId] = Owner(ServerKey)])
    BY OwnerAssumption, EmptyStoreFacts, FirstAccount
  <2> QED
    BY <2>1, <2>2 DEF Pending
<1>2. CASE AccountRequest
  <2>0. phase = "ready"
    BY <1>2 DEF AccountRequest, BootstrapOwner, Upsert, Create, Edit, Remove, Save
  <2>1. PICK change \in Store : Save(change) /\ Rewritten(accounts, change)
    BY <1>2, <2>0, RequestEffect DEF Invariant, TypeOK, Manageable, Governed
  <2>2. accounts' = change /\ previous' = accounts /\ phase' = "saving"
    BY <2>1 DEF Save
  <2> QED
    BY <2>1, <2>2 DEF Pending
<1>3. CASE Tick \/ UNCHANGED accountVars
  BY <1>3 DEF Tick, accountVars, Pending
<1>4. ASSUME phase' \in {"ready", "down"} PROVE Pending'
  BY <1>4 DEF Pending
<1> QED
  BY <1>1, <1>2, <1>3, <1>4
     DEF AccountsNext, Environment, LoadDocument, Commit, SaveFails, StartFails, Stop, Crash

(* Reading the book back commutes with rewriting the accounts.             *)
LEMMA RewritingBook ==
  ASSUME NEW old \in Store, NEW new, Rewritten(old, new),
         ReadBack = RegrantedStore(old), ReadBack' = RegrantedStore(new)
  PROVE  Book!Next \/ UNCHANGED ReadBack
<1>1. new \in Store
  BY RewrittenStore
<1>2. /\ ReadBack \in Store /\ ReadBack' \in Store
      /\ Members(ReadBack) = Members(old) /\ Managers(ReadBack') = Managers(new)
  BY <1>1, RegrantedStoreKeeps
<1>3. \A id \in Ids : /\ old[id] = NoAccount => ReadBack[id] = NoAccount
                      /\ old[id] # NoAccount => ReadBack[id] = Regranted(old[id])
                      /\ new[id] = NoAccount => ReadBack'[id] = NoAccount
                      /\ new[id] # NoAccount => ReadBack'[id] = Regranted(new[id])
  BY DEF RegrantedStore
<1>4. Book!Members = Members(old)
  BY <1>2 DEF Book!Members, Members
<1>5. PICK m \in Ids : ReadBack'[m] \in Account /\ PermanentManager(ReadBack'[m])
  BY <1>2 DEF Rewritten, Managers, Members, Store
<1>6. Book!Managed'
  BY <1>5 DEF Book!Managed
<1>7. PICK id \in Ids :
         \/ \E a \in Account : new = [old EXCEPT ![id] = a] /\ Terms(old, id, a)
         \/ id \in Members(old) /\ new = [old EXCEPT ![id] = NoAccount]
  BY DEF Rewritten
<1>8. \A other \in Ids : other # id => ReadBack'[other] = ReadBack[other]
  <2>1. \A other \in Ids : other # id => new[other] = old[other]
    BY <1>7 DEF Store
  <2> QED
    BY <1>3, <2>1
<1>9. Book!Only(id)
  BY <1>2, <1>8 DEF Book!Only, Store
<1>10. Book!Claim(id) \/ Book!Create(id) \/ Book!Edit(id) \/ Book!Delete(id)
  <2>1. CASE id \in Members(old) /\ new = [old EXCEPT ![id] = NoAccount]
    <3>1. ReadBack'[id] = NoAccount
      BY <1>3, <2>1 DEF Store
    <3> QED
      BY <1>4, <2>1, <3>1 DEF Book!Delete
  <2>2. ASSUME NEW a \in Account, new = [old EXCEPT ![id] = a], Terms(old, id, a)
        PROVE  Book!Claim(id) \/ Book!Create(id) \/ Book!Edit(id)
    <3>1. new[id] = a /\ a # NoAccount
      BY <2>2, NoAccountAssumption DEF Store
    <3>2. ReadBack'[id] = Regranted(a)
      BY <1>3, <3>1
    <3>3. /\ ReadBack'[id] \in Account /\ ReadBack'[id] # NoAccount
          /\ ReadBack'[id].key = a.key
          /\ PermanentManager(ReadBack'[id]) <=> PermanentManager(a)
      BY <3>2, RegrantedAccount, NoAccountAssumption
    <3>4. CASE Members(old) = {} /\ PermanentManager(a)
      <4>1. ReadBack'[id] \in {b \in Account : PermanentManager(b)}
        BY <3>3, <3>4
      <4> QED
        BY <1>4, <3>4, <4>1 DEF Book!Claim
    <3>5. CASE /\ Members(old) # {} /\ id \notin Members(old)
               /\ Cardinality(Members(old)) < MaxAccounts
               /\ a.key # ServerKey
      <4>1. Book!Members \in {ids \in SUBSET Ids : Cardinality(ids) < MaxAccounts}
        BY <1>4, <3>5 DEF Members
      <4> QED
        BY <1>4, <3>3, <3>5, <4>1 DEF Book!Create
    <3>6. CASE id \in Members(old) /\ (a.key = ServerKey => old[id].key = ServerKey)
      <4>1. old[id] \in Account /\ ReadBack[id] = Regranted(old[id])
        BY <1>3, <3>6 DEF Members, Store
      <4>2. ReadBack[id].key = old[id].key
        BY <4>1, RegrantedAccount
      <4> QED
        BY <1>4, <3>3, <3>6, <4>2 DEF Book!Edit
    <3> QED
      BY <2>2, <3>4, <3>5, <3>6 DEF Terms
  <2> QED
    BY <1>7, <2>1, <2>2
<1>11. CASE ReadBack'[id] # ReadBack[id]
  BY <1>6, <1>9, <1>10, <1>11 DEF Book!Next, Book!Changes
<1>12. CASE ReadBack'[id] = ReadBack[id]
  BY <1>2, <1>8, <1>12 DEF Store
<1> QED
  BY <1>11, <1>12

(* A document is written by a commit, or by one that a crash follows.      *)
LEMMA WrittenBook ==
  ASSUME Invariant, Pending, phase \in {"starting", "saving"}, disk' = accounts
  PROVE  Book!Next \/ UNCHANGED ReadBack
<1>1. accounts \in Store /\ accounts # NoDocument
  BY NoDocumentAssumption DEF Invariant, TypeOK, Store
<1>2. ReadBack' = RegrantedStore(accounts)
  BY <1>1 DEF ReadBack
<1>3. CASE phase = "saving"
  <2>1. ReadBack = RegrantedStore(previous) /\ previous \in Store
    BY <1>3 DEF ReadBack, Invariant, TypeOK, Mirrored, Agree
  <2> QED
    BY <1>2, <1>3, <2>1, RewritingBook DEF Pending
<1>4. CASE phase = "starting"
  <2>1. ReadBack = EmptyStore /\ EmptyStore = RegrantedStore(EmptyStore)
    BY <1>4 DEF ReadBack, Pending, RegrantedStore, EmptyStore
  <2>2. CASE accounts = EmptyStore
    BY <1>2, <2>1, <2>2
  <2>3. CASE Rewritten(EmptyStore, accounts)
    BY <1>2, <2>1, <2>3, EmptyStoreFacts, RewritingBook
  <2> QED
    BY <1>4, <2>2, <2>3 DEF Pending
<1> QED
  BY <1>3, <1>4

(* Every step of the account store is one change of the book on its terms, *)
(* or invisible.                                                           *)
THEOREM AccountsImplementBook == AccountsSpec => ImplementsAccountBook
<1>1. AccountsInit => Book!Init /\ Pending
  BY DEF AccountsInit, Book!Init, ReadBack, EmptyStore, Pending
<1>2. Invariant /\ Pending /\ [AccountsNext]_accountVars => [Book!Next]_ReadBack
  <2> SUFFICES ASSUME Invariant, Pending, [AccountsNext]_accountVars
               PROVE  Book!Next \/ UNCHANGED ReadBack
    OBVIOUS
  <2>1. CASE UNCHANGED disk
    BY <2>1 DEF ReadBack
  <2>2. CASE Commit \/ (Crash /\ disk' # disk)
    <3>1. phase \in {"starting", "saving"} /\ disk' = accounts
      BY <2>2 DEF Commit, Crash, Invariant, TypeOK
    <3> QED
      BY <3>1, WrittenBook
  <2> QED
    BY <2>1, <2>2
       DEF AccountsNext, Environment, AccountRequest, LoadNothing, LoadDocument,
           SaveFails, StartFails, Stop, Tick, BootstrapOwner, Upsert,
           Create, Edit, Remove, Save, accountVars
<1> QED
  BY <1>1, <1>2, PendingStep, AlwaysInvariant, PTL
     DEF AccountsSpec, ImplementsAccountBook, Book!Spec
=============================================================================
