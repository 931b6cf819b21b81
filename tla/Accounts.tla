------------------------------ MODULE Accounts ------------------------------
(***************************************************************************)
(* The administrator accounts of the NEO ADMIN plugin                      *)
(* (server/src/neo_admin_accounts.cpp) and the document that keeps them    *)
(* (neo_documents of server/src/neo_admin_persistence.cpp).                *)
(*                                                                         *)
(* A request changes the accounts in memory, then writes the whole         *)
(* document in one SQLite transaction, and takes the change back when the  *)
(* transaction fails.  The two halves are separate steps here, so that a   *)
(* crash can fall between them.                                            *)
(***************************************************************************)
EXTENDS Naturals, FiniteSets

CONSTANTS
  Ids,            \* account IDs
  Keys,           \* individual access keys
  ServerKey,      \* the account resolves to VOICEBRIDGE_SECRET
  NoKey,          \* a request that leaves the key alone
  NoAccount,      \* no account has this ID
  NoDocument,     \* the database has no "accounts" document
  OwnerId,        \* "owner", the account of a configured server secret
  Requests,       \* the account requests administrators send
  MaxAccounts,    \* 128
  MaxTime         \* bound of the model: the last value of the clock

Roles == {"Viewer", "Moderator", "Event Admin", "Administrator",
          "Senior Admin", "Owner", "Custom"}

(* The roles that Load grants a capability to, whatever the document says. *)
GrantedOnLoad ==
  LET Administrators == {"Owner", "Senior Admin", "Administrator"}
      Moderators == Administrators \cup {"Moderator"}
  IN [ViewAuditLog |-> Administrators,
      ManageBans |-> Moderators,
      ManageDiscipline |-> Moderators,
      ManageMapRotation |-> Administrators,
      ManageAnnouncements |-> Administrators,
      ManageZombieMode |-> Administrators,
      ManageWorkshopMaps |-> Administrators \cup {"Event Admin"},
      ManageGameAdmins |-> {"Owner", "Senior Admin"},
      RunServerConsole |-> {"Owner"}]

(* The capabilities no role regains; an owner has every permission.        *)
Permissions == DOMAIN GrantedOnLoad \cup
  {"ViewDashboard", "ViewSteamIds", "SendChat", "BroadcastVoice",
   "ModeratePlayers", "ControlBots", "ControlMatch", "ChangeMap",
   "TeleportPlayers", "ManageAccounts", "RestartServer", "DeployPlugin"}

Account == [role : Roles, permissions : SUBSET Permissions, enabled : BOOLEAN,
            expires : Nat, key : Keys \cup {ServerKey}]

Request == [id : Ids, role : Roles, permissions : SUBSET Permissions,
            enabled : BOOLEAN, expires : Nat, key : Keys \cup {NoKey}]

ASSUME OwnerAssumption == OwnerId \in Ids
ASSUME KeysAssumption == ServerKey \notin Keys /\ NoKey \notin Keys
ASSUME RequestsAssumption == Requests \subseteq Request
ASSUME NoAccountAssumption == NoAccount \notin Account
ASSUME NoDocumentAssumption == NoDocument \notin [Ids -> Account \cup {NoAccount}]
ASSUME MaxAccountsAssumption == MaxAccounts \in Nat
ASSUME MaxTimeAssumption == MaxTime \in Nat

VARIABLES
  accounts,       \* accounts_, by ID
  previous,       \* the copy a request keeps to undo itself
  phase,          \* "down", "starting", "ready" or "saving"
  disk,           \* the committed document
  clock           \* std::time

accountVars == <<accounts, previous, phase, disk, clock>>

Store == [Ids -> Account \cup {NoAccount}]
EmptyStore == [id \in Ids |-> NoAccount]

Members(store) == {id \in Ids : store[id] # NoAccount}

(* An enabled account without expiration that may manage accounts.  The    *)
(* formula is evaluated on accounts and on requests alike.                 *)
PermanentManager(a) ==
  a.enabled /\ a.expires = 0 /\ "ManageAccounts" \in a.permissions

Managers(store) == {id \in Members(store) : PermanentManager(store[id])}

Expired(a) == a.expires # 0 /\ a.expires <= clock

Owner(key) == [role |-> "Owner", permissions |-> Permissions,
               enabled |-> TRUE, expires |-> 0, key |-> key]

Regranted(a) ==
  [a EXCEPT !.permissions =
     @ \cup {p \in DOMAIN GrantedOnLoad : a.role \in GrantedOnLoad[p]}]

RegrantedStore(store) ==
  [id \in Ids |-> IF store[id] = NoAccount THEN NoAccount ELSE Regranted(store[id])]

(* What Load accepts: accounts that resolve to the server secret need one, *)
(* and a store that is not empty needs somebody to manage it.              *)
Loadable(store, configured) ==
  /\ configured \/ \A id \in Members(store) : store[id].key # ServerKey
  /\ Members(store) # {} => Managers(store) # {}

AccountsInit ==
  /\ accounts = EmptyStore
  /\ previous = EmptyStore
  /\ phase = "down"
  /\ disk = NoDocument
  /\ clock = 0

-----------------------------------------------------------------------------
(* AccountStore::Load.  Without a document the configured server secret,   *)
(* if there is one, makes the owner, and the new document is written.      *)
LoadNothing(configured) ==
  /\ phase = "down"
  /\ disk = NoDocument
  /\ accounts' = IF configured THEN [EmptyStore EXCEPT ![OwnerId] = Owner(ServerKey)]
                 ELSE EmptyStore
  /\ phase' = "starting"
  /\ UNCHANGED <<previous, disk, clock>>

LoadDocument(configured) ==
  /\ phase = "down"
  /\ disk # NoDocument
  /\ Loadable(disk, configured)
  /\ accounts' = RegrantedStore(disk)
  /\ phase' = "ready"
  /\ UNCHANGED <<previous, disk, clock>>

Save(change) ==
  /\ phase = "ready"
  /\ accounts' = change
  /\ previous' = accounts
  /\ phase' = "saving"
  /\ UNCHANGED <<disk, clock>>

(* The one-time claim of an installation without accounts.                 *)
BootstrapOwner(id, key) ==
  /\ Members(accounts) = {}
  /\ Save([accounts EXCEPT ![id] = Owner(key)])

Updated(r, key) ==
  [role |-> r.role, permissions |-> r.permissions, enabled |-> r.enabled,
   expires |-> r.expires, key |-> key]

InFuture(expires) == expires # 0 => clock < expires

-----------------------------------------------------------------------------
(* Faulty variants of the definitions below: what a plausible slip in the  *)
(* code would do.  No specification uses them; each is put in the place of *)
(* the definition it is named after to show that a property notices.       *)

(* The account that is being demoted counts as another manager.            *)
HasAnotherEnabledManager_CountsItself(id) == Managers(accounts) # {}

(* A new account may leave out its access key.                             *)
MayCreate_WithoutKey(r) ==
  /\ r.id \notin Members(accounts)
  /\ Cardinality(Members(accounts)) < MaxAccounts
  /\ InFuture(r.expires)

(* An edit looks at the switch and the permission, not at the expiration.  *)
MayEdit_Expiring(r, acting) ==
  /\ r.id \in Members(accounts)
  /\ InFuture(r.expires)
  /\ ~(r.enabled /\ "ManageAccounts" \in r.permissions) =>
       r.id # acting /\ \E other \in Managers(accounts) : other # r.id

(* Deleting an account checks only that it is not one's own.               *)
MayRemove_Any(id, acting) ==
  /\ id # acting
  /\ id \in Members(accounts)

(* A failed save leaves the change in memory.                              *)
SaveFails_KeepsChange ==
  /\ phase = "saving"
  /\ phase' = "ready"
  /\ UNCHANGED <<accounts, previous, disk, clock>>

-----------------------------------------------------------------------------
HasAnotherEnabledManager(id) == \E other \in Managers(accounts) : other # id

MayCreate(r) ==
  /\ r.id \notin Members(accounts)
  /\ Cardinality(Members(accounts)) < MaxAccounts
  /\ r.key # NoKey
  /\ InFuture(r.expires)

(* An edit may not take account management from the account that asks for  *)
(* it, nor from the last permanent manager.                                *)
MayEdit(r, acting) ==
  /\ r.id \in Members(accounts)
  /\ InFuture(r.expires)
  /\ r.id = acting => PermanentManager(r)
  /\ PermanentManager(accounts[r.id]) /\ ~PermanentManager(r)
       => HasAnotherEnabledManager(r.id)

MayRemove(id, acting) ==
  /\ id # acting
  /\ id \in Members(accounts)
  /\ PermanentManager(accounts[id]) => HasAnotherEnabledManager(id)

Create(r) ==
  /\ MayCreate(r)
  /\ Save([accounts EXCEPT ![r.id] = Updated(r, r.key)])

(* An edit keeps the access key unless the request brings a new one.       *)
Edit(r, acting) ==
  /\ MayEdit(r, acting)
  /\ Save([accounts EXCEPT ![r.id] =
             Updated(r, IF r.key = NoKey THEN @.key ELSE r.key)])

Upsert(r, acting) == Create(r) \/ Edit(r, acting)

Remove(id, acting) ==
  /\ MayRemove(id, acting)
  /\ Save([accounts EXCEPT ![id] = NoAccount])

(* WriteDatabaseDocument commits ...                                       *)
Commit ==
  /\ phase \in {"starting", "saving"}
  /\ disk' = accounts
  /\ phase' = "ready"
  /\ UNCHANGED <<accounts, previous, clock>>

(* ... or fails, and the request takes its change back.                    *)
SaveFails ==
  /\ phase = "saving"
  /\ accounts' = previous
  /\ phase' = "ready"
  /\ UNCHANGED <<previous, disk, clock>>

(* The first document cannot be written: NeoPtt_Start gives up.            *)
StartFails ==
  /\ phase = "starting"
  /\ accounts' = EmptyStore
  /\ phase' = "down"
  /\ UNCHANGED <<previous, disk, clock>>

(* NeoPtt_Shutdown, or a later part of NeoPtt_Start that fails.  What is   *)
(* left in memory is not read before the next Load clears it.              *)
Stop ==
  /\ phase = "ready"
  /\ accounts' = EmptyStore
  /\ phase' = "down"
  /\ UNCHANGED <<previous, disk, clock>>

(* A crash during the write leaves the old document or the new one.        *)
Crash ==
  /\ phase # "down"
  /\ accounts' = EmptyStore
  /\ phase' = "down"
  /\ disk' \in {disk} \cup (IF phase = "ready" THEN {} ELSE {accounts})
  /\ UNCHANGED <<previous, clock>>

Tick ==
  /\ clock < MaxTime
  /\ clock' = clock + 1
  /\ UNCHANGED <<accounts, previous, phase, disk>>

(* What the accounts meet whoever asks: every step but the requests.       *)
Environment ==
  \/ \E configured \in BOOLEAN : LoadNothing(configured) \/ LoadDocument(configured)
  \/ Commit \/ SaveFails \/ StartFails \/ Stop \/ Crash \/ Tick

(* The acting account is any ID: a queued command carries the ID of the    *)
(* session that sent it, which may have lost its account since.  Before    *)
(* the first account exists there is no session, hence no request.         *)
AccountRequest ==
  \/ \E id \in Ids, key \in Keys : BootstrapOwner(id, key)
  \/ /\ Members(accounts) # {}
     /\ \E acting \in Ids :
          \/ \E r \in Requests : Upsert(r, acting)
          \/ \E id \in Ids : Remove(id, acting)

AccountsNext == Environment \/ AccountRequest

AccountsSpec == AccountsInit /\ [][AccountsNext]_accountVars

-----------------------------------------------------------------------------
(* Every variable keeps its type.                                          *)
TypeOK ==
  /\ accounts \in Store
  /\ previous \in Store
  /\ phase \in {"down", "starting", "ready", "saving"}
  /\ disk \in Store \cup {NoDocument}
  /\ clock \in 0..MaxTime

(* A running server that has accounts has one that can manage them without *)
(* end, whatever mixture of demotions, expirations, deletions, failed      *)
(* saves and stale requests came before (lines 523-531 and 603-609).       *)
ManagerRemains ==
  phase # "down" /\ Members(accounts) # {} => Managers(accounts) # {}

(* What is on disk is a document that the next Load accepts, as long as    *)
(* the server secret stays configured: no sequence of requests, failures   *)
(* and crashes locks the administrators out (lines 244-259).               *)
StoreReloads == disk # NoDocument => Loadable(disk, TRUE)

(* Between requests, memory and disk agree on everything but the           *)
(* capabilities that Load grants by role: a failed save leaves no trace,   *)
(* and a restart changes neither members, keys, expirations nor managers.  *)
MirrorsDisk ==
  phase = "ready" => /\ disk # NoDocument
                     /\ RegrantedStore(accounts) = RegrantedStore(disk)
                     /\ Managers(accounts) = Managers(disk)

(* Once an owner is on disk the store never becomes empty again, so the    *)
(* first-owner code, generated only for an empty store, can never be       *)
(* offered a second time, not even after crashes and failed saves.         *)
Claimed == disk # NoDocument /\ Members(disk) # {}
SetupNeverReopens == [][Claimed => Claimed']_accountVars

(* The comment at neo_admin_accounts.cpp:181-182: loading does not replace *)
(* deliberate per-account permission customizations.  Every document of    *)
(* the model was written by this version of the code, so a capability it   *)
(* lacks was left out on purpose.                                          *)
CustomizationKept == phase = "ready" => accounts = disk

=============================================================================
