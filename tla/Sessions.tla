------------------------------ MODULE Sessions ------------------------------
(***************************************************************************)
(* The administrator sessions of the NEO ADMIN plugin: what NeoPtt_Poll    *)
(* does with the datagrams of the clients (server/src/neo_ptt.cpp), and    *)
(* what the game frame does with the commands it queues                    *)
(* (VoiceBridge_OnServerFrame in server/src/gamesystem.cpp), on top of the *)
(* accounts of module Accounts.                                            *)
(*                                                                         *)
(* One thread does all of it: a frame polls the socket, then drains a few  *)
(* commands, so that a command may wait for several frames while the       *)
(* account, the session and the endpoint it came from change.  Datagrams   *)
(* are lost, repeated and reordered at will: any client may send any       *)
(* datagram at any time.  A datagram that does not authenticate counts as  *)
(* one more that its endpoint sends (ReceiveOther).                        *)
(***************************************************************************)
EXTENDS Accounts, Sequences

CONSTANTS
  Endpoints,      \* addresses and ports of the clients
  NoSession,      \* no session belongs to this endpoint
  Stamps,         \* (sequence, unix_time) pairs of fresh datagrams
  NoStamp,        \* the zeros of a session that sent no action yet
  MaxSessions,    \* kMaxAdminSessions
  MaxPending,     \* kMaxPendingAdminActions
  PerFrame,       \* the actions one frame takes from the queue
  MaxLogins       \* bound of the model: logins between two starts

ASSUME MaxSessionsAssumption == MaxSessions \in Nat \ {0}
ASSUME MaxPendingAssumption == MaxPending \in Nat \ {0}
ASSUME PerFrameAssumption == PerFrame \in Nat \ {0}
ASSUME MaxLoginsAssumption == MaxLogins \in Nat
ASSUME NoStampAssumption == NoStamp \notin Stamps

(* Action codes 101, 102, 100 and, for all the others, kicking a player.   *)
Action == [type : {"save"}, request : Requests]
            \cup [type : {"delete"}, id : Ids]
            \cup [type : {"catalog", "moderate"}]

PermissionForAction(action) ==
  IF action.type = "moderate" THEN "ModeratePlayers" ELSE "ManageAccounts"

SessionId == 1..MaxLogins

Session == [id : SessionId, account : Ids, key : Keys \cup {ServerKey},
            permissions : SUBSET Permissions, last : Stamps \cup {NoStamp}]

(* The endpoint is not part of the code's command; the properties use it.  *)
Command == [session : SessionId, account : Ids, action : Action,
            authorized : BOOLEAN, endpoint : Endpoints]

ASSUME NoSessionAssumption == NoSession \notin Session

(* A reply on its way to the transport, with the command it answers.       *)
Reply == [type : {"result", "catalog"}, endpoint : Endpoints, to : Session,
          command : Command]

(* What a datagram is answered with at once.                               *)
Notice == [type : {"accepted", "refused", "capabilities"}, endpoint : Endpoints]

VARIABLES
  sessions,       \* g_sessions, by endpoint
  recency,        \* <<e, f>>: activity_order of e is below that of f
  nextId,         \* g_next_session_id
  pending,        \* g_pending_admin_actions
  executing,      \* the account command whose save is under way
  drains,         \* commands this frame may still take; 0: it polls
  setupCode,      \* g_first_owner_setup_secret is not empty
  claimed,        \* g_bootstrap_claimed_account_id
  sent,           \* history: the replies and notices of the last step
  ran             \* history: the commands the last step carried out

sessionVars == <<sessions, recency, nextId>>
setupVars == <<setupCode, claimed>>
history == <<sent, ran>>
vars == <<accountVars, sessionVars, pending, executing, drains, setupVars, history>>

Connected == {e \in Endpoints : sessions[e] # NoSession}

(* RefreshSession: the account is there, enabled, not expired, and its     *)
(* access key is still the one of the login.                               *)
Valid(session, store) ==
  LET a == store[session.account]
  IN  a # NoAccount /\ a.enabled /\ ~Expired(a) /\ a.key = session.key

Refreshed(session, store) ==
  [session EXCEPT !.permissions = store[session.account].permissions]

NoSessions == [e \in Endpoints |-> NoSession]

Quiet == sent' = {} /\ ran' = {}

Notify(type, e) == sent' = {[type |-> type, endpoint |-> e]} /\ ran' = {}

(* Polling and draining happen between requests, in one thread.            *)
Polling == phase = "ready" /\ drains = 0
Draining == phase = "ready" /\ drains > 0 /\ pending # <<>>

Init ==
  /\ AccountsInit
  /\ sessions = NoSessions
  /\ recency = {}
  /\ nextId = 1
  /\ pending = <<>>
  /\ executing = {}
  /\ drains = 0
  /\ setupCode = FALSE
  /\ claimed = {}
  /\ sent = {}
  /\ ran = {}

(* g_session_activity_order only grows: whoever is active comes after the  *)
(* others.                                                                 *)
Without(gone) == {p \in recency : p[1] \notin gone /\ p[2] \notin gone}
Active(e, gone) == Without(gone \cup {e}) \cup ((Connected \ (gone \cup {e})) \X {e})

Before(e, f) == <<e, f>> \in recency
Oldest(e) == \A f \in Connected \ {e} : Before(e, f)

RemoveSession(e) ==
  /\ sessions' = [sessions EXCEPT ![e] = NoSession]
  /\ recency' = Without({e})

-----------------------------------------------------------------------------
(* Faulty variants of the definitions below: what a plausible slip in the  *)
(* code would do.  No specification uses them; each is put in the place of *)
(* the definition it is named after to show that a property notices.       *)

(* A re-login continues the session that the endpoint had.                 *)
LoggedInAt_KeepsId(e, id) ==
  [id |-> IF sessions[e] = NoSession THEN nextId ELSE sessions[e].id,
   account |-> id, key |-> accounts[id].key,
   permissions |-> accounts[id].permissions, last |-> NoStamp]

(* The full queue takes one more.                                          *)
Enqueued_NoLimit(c) == Append(pending, c)

(* A login with a full table pushes out the latest session.                *)
Evicted_Latest(e) ==
  IF e \notin Connected /\ Cardinality(Connected) >= MaxSessions
  THEN {f \in Connected : \A g \in Connected \ {f} : Before(g, f)} ELSE {}

(* The reply is signed with the key of the login, whatever became of it.   *)
Deliverable_AnyKey(session, store) ==
  LET a == store[session.account]
  IN  a # NoAccount /\ a.enabled /\ ~Expired(a)

(* The catalog trusts the permission of the queued command.                *)
MayReceive_AsQueued(type, c, store) == c.authorized

(* The first login leaves the setup code in place.                         *)
SetupAfterLogin_Open(id) == UNCHANGED setupVars

(* A delete command goes to the store without the store's own checks.      *)
StartChange_Trusting(c) ==
  \/ c.action.type = "save" /\ Upsert(c.action.request, c.account)
  \/ c.action.type = "delete" /\ Save([accounts EXCEPT ![c.action.id] = NoAccount])

-----------------------------------------------------------------------------
(* UpsertSession: a login replaces the session of its own endpoint, or     *)
(* pushes out the least recently active session when the table is full,    *)
(* and always takes a new ID.                                              *)
LoggedInAt(e, id) ==
  [id |-> nextId, account |-> id, key |-> accounts[id].key,
   permissions |-> accounts[id].permissions, last |-> NoStamp]

Evicted(e) ==
  IF e \notin Connected /\ Cardinality(Connected) >= MaxSessions
  THEN {f \in Connected : Oldest(f)} ELSE {}

(* The first login of the claimed owner ends the setup.                    *)
SetupAfterLogin(id) ==
  IF id \in claimed THEN setupCode' = FALSE /\ claimed' = {}
  ELSE UNCHANGED setupVars

(* TYPE 15.  The datagram names the account by its ID or by the selector of *)
(* its access key, and is signed with the key of the account it names.     *)
Login(e, id) ==
  /\ Polling
  /\ id \in Members(accounts)
  /\ accounts[id].enabled /\ ~Expired(accounts[id])
  /\ nextId <= MaxLogins
  /\ sessions' = [x \in Endpoints |-> CASE x = e -> LoggedInAt(e, id)
                                         [] x \in Evicted(e) \ {e} -> NoSession
                                         [] OTHER -> sessions[x]]
  /\ recency' = Active(e, Evicted(e))
  /\ nextId' = nextId + 1
  /\ SetupAfterLogin(id)
  /\ Notify("accepted", e)
  /\ UNCHANGED <<accountVars, pending, executing, drains>>

(* The session that the endpoint may have stays as it is.                  *)
LoginRefused(e, id) ==
  /\ Polling
  /\ id \in Members(accounts)
  /\ ~accounts[id].enabled \/ Expired(accounts[id])
  /\ Notify("refused", e)
  /\ UNCHANGED <<accountVars, sessionVars, pending, executing, drains, setupVars>>

(* TYPE 18: the claim of the first owner, once per setup code.             *)
Claim(id, key) ==
  /\ Polling
  /\ setupCode
  /\ BootstrapOwner(id, key)
  /\ Quiet
  /\ UNCHANGED <<sessionVars, pending, executing, drains, setupVars>>

FinishClaim ==
  /\ phase = "saving" /\ executing = {}
  /\ \/ /\ Commit /\ claimed' = Members(accounts)
        /\ \E e \in Endpoints : Notify("accepted", e)
     \/ SaveFails /\ UNCHANGED claimed /\ Quiet
  /\ UNCHANGED <<sessionVars, pending, executing, drains, setupCode>>

(* The claim that is repeated after a lost reply is answered again.        *)
ClaimAgain(e) ==
  /\ Polling
  /\ setupCode /\ claimed # {}
  /\ Notify("accepted", e)
  /\ UNCHANGED <<accountVars, sessionVars, pending, executing, drains, setupVars>>

(* Whatever else arrives from an endpoint revalidates its session first;   *)
(* unless its account is gone, the endpoint is told.                       *)
Disconnect(e) ==
  /\ Polling
  /\ e \in Connected
  /\ ~Valid(sessions[e], accounts)
  /\ RemoveSession(e)
  /\ IF accounts[sessions[e].account] = NoAccount THEN Quiet ELSE Notify("refused", e)
  /\ UNCHANGED <<accountVars, nextId, pending, executing, drains, setupVars>>

(* TYPE 11: any action but the one the session sent last.                  *)
AcceptAction(e, stamp) ==
  /\ Polling
  /\ e \in Connected
  /\ Valid(sessions[e], accounts)
  /\ stamp # sessions[e].last
  /\ sessions' = [sessions EXCEPT ![e] = [Refreshed(@, accounts) EXCEPT !.last = stamp]]
  /\ recency' = Active(e, {})
  /\ UNCHANGED <<accountVars, nextId, executing, drains, setupVars>>

(* The request for the capabilities is answered at once.                   *)
RequestCapabilities(e, stamp) ==
  /\ AcceptAction(e, stamp)
  /\ IF "ViewDashboard" \in Refreshed(sessions[e], accounts).permissions
     THEN Notify("capabilities", e) ELSE Quiet
  /\ UNCHANGED pending

(* For all others the permission is checked now and travels with the       *)
(* command; the full queue forgets its oldest command.                     *)
Enqueued(c) == Append(IF Len(pending) >= MaxPending THEN Tail(pending) ELSE pending, c)

Receive(e, stamp, action) ==
  /\ AcceptAction(e, stamp)
  /\ LET s == Refreshed(sessions[e], accounts)
     IN pending' = Enqueued(
          [session |-> s.id, account |-> s.account, action |-> action,
           authorized |-> PermissionForAction(action) \in s.permissions,
           endpoint |-> e])
  /\ Quiet

(* Any other datagram: chat, teleport and voice count as activity, a       *)
(* rejected one does not.                                                  *)
ReceiveOther(e) ==
  /\ Polling
  /\ e \in Connected
  /\ Valid(sessions[e], accounts)
  /\ sessions' = [sessions EXCEPT ![e] = Refreshed(@, accounts)]
  /\ recency' \in {recency, Active(e, {})}
  /\ Quiet
  /\ UNCHANGED <<accountVars, nextId, pending, executing, drains, setupVars>>

(* NeoPtt_SendVoicePacket: a live event goes to every session that is      *)
(* still valid and removes the others.                                     *)
Broadcast ==
  LET stale == {e \in Connected : ~Valid(sessions[e], accounts)}
  IN /\ phase = "ready"
     /\ sessions' = [e \in Endpoints |-> IF e \in Connected \ stale
                                         THEN Refreshed(sessions[e], accounts)
                                         ELSE NoSession]
     /\ recency' = Without(stale)
     /\ Quiet
     /\ UNCHANGED <<accountVars, nextId, pending, executing, drains, setupVars>>

-----------------------------------------------------------------------------
(* NeoPtt_SendVoicePacketTo and FindAuthorizedSession: a reply goes to the *)
(* session that sent the command, if it is still there and still valid,    *)
(* and the account catalog only if it may manage accounts now.             *)
Origin(c) == {e \in Connected : sessions[e].id = c.session}

Deliverable(session, store) == Valid(session, store)

MayReceive(type, c, store) ==
  type = "catalog" => "ManageAccounts" \in store[c.account].permissions

Answer(c, types, store) ==
  \/ /\ Origin(c) = {}
     /\ sent' = {}
     /\ UNCHANGED <<sessions, recency>>
  \/ \E e \in Origin(c) :
       /\ Deliverable(sessions[e], store)
       /\ sessions' = [sessions EXCEPT ![e] = Refreshed(@, store)]
       /\ sent' = [type : {t \in types : MayReceive(t, c, store)}, endpoint : {e},
                   to : {sessions[e]}, command : {c}]
       /\ UNCHANGED recency
  \/ \E e \in Origin(c) :
       /\ ~Deliverable(sessions[e], store)
       /\ RemoveSession(e)
       /\ sent' = {}

BeginDrain ==
  /\ Polling
  /\ pending # <<>>
  /\ drains' = PerFrame
  /\ Quiet
  /\ UNCHANGED <<accountVars, sessionVars, pending, executing, setupVars>>

EndFrame ==
  /\ phase = "ready" /\ drains > 0 /\ pending = <<>>
  /\ drains' = 0
  /\ Quiet
  /\ UNCHANGED <<accountVars, sessionVars, pending, executing, setupVars>>

TakeAdminAction(c) ==
  /\ Draining
  /\ c = Head(pending)
  /\ pending' = Tail(pending)
  /\ drains' = drains - 1
  /\ UNCHANGED <<nextId, setupVars>>

Deny(c) ==
  /\ TakeAdminAction(c)
  /\ ~c.authorized
  /\ Answer(c, {"result"}, accounts)
  /\ ran' = {}
  /\ UNCHANGED <<accountVars, executing>>

Moderate(c) ==
  /\ TakeAdminAction(c)
  /\ c.authorized /\ c.action.type = "moderate"
  /\ Answer(c, {"result"}, accounts)
  /\ ran' = {c}
  /\ UNCHANGED <<accountVars, executing>>

SendAccountCatalog(c) ==
  /\ TakeAdminAction(c)
  /\ c.authorized /\ c.action.type = "catalog"
  /\ Answer(c, {"catalog", "result"}, accounts)
  /\ ran' = {c}
  /\ UNCHANGED <<accountVars, executing>>

Allowed(c) ==
  \/ /\ c.action.type = "save"
     /\ MayCreate(c.action.request) \/ MayEdit(c.action.request, c.account)
  \/ c.action.type = "delete" /\ MayRemove(c.action.id, c.account)

Refuse(c) ==
  /\ TakeAdminAction(c)
  /\ c.authorized /\ c.action.type \in {"save", "delete"}
  /\ ~Allowed(c)
  /\ Answer(c, {"result"}, accounts)
  /\ ran' = {}
  /\ UNCHANGED <<accountVars, executing>>

(* The command carries the ID of its account to the store as it was when   *)
(* the datagram arrived.                                                   *)
StartChange(c) ==
  \/ c.action.type = "save" /\ Upsert(c.action.request, c.account)
  \/ c.action.type = "delete" /\ Remove(c.action.id, c.account)

ChangeAccounts(c) ==
  /\ TakeAdminAction(c)
  /\ c.authorized
  /\ StartChange(c)
  /\ executing' = {c}
  /\ ran' = {c}
  /\ sent' = {}
  /\ UNCHANGED <<sessions, recency>>

FinishSave(c) ==
  /\ \/ Commit /\ Answer(c, {"result", "catalog"}, accounts)
     \/ SaveFails /\ Answer(c, {"result"}, previous)

FinishChange(c) ==
  /\ phase = "saving" /\ c \in executing
  /\ FinishSave(c)
  /\ executing' = {}
  /\ ran' = {}
  /\ UNCHANGED <<nextId, pending, drains, setupVars>>

-----------------------------------------------------------------------------
(* NeoPtt_Start generates a setup code when the store it loaded is empty.  *)
FinishStart ==
  /\ \/ phase = "starting" /\ Commit
     \/ \E configured \in BOOLEAN : LoadDocument(configured)
  /\ setupCode' = (Members(accounts') = {})
  /\ Quiet
  /\ UNCHANGED <<sessionVars, pending, executing, drains, claimed>>

Begin ==
  /\ \E configured \in BOOLEAN : LoadNothing(configured)
  /\ Quiet
  /\ UNCHANGED <<sessionVars, pending, executing, drains, setupVars>>

Shutdown ==
  /\ Stop \/ Crash \/ StartFails
  /\ sessions' = NoSessions
  /\ recency' = {}
  /\ nextId' = 1
  /\ pending' = <<>>
  /\ executing' = {}
  /\ drains' = 0
  /\ setupCode' = FALSE
  /\ claimed' = {}
  /\ Quiet

Time ==
  /\ Tick
  /\ Quiet
  /\ UNCHANGED <<sessionVars, pending, executing, drains, setupVars>>

Poll ==
  \/ \E e \in Endpoints :
       \/ \E id \in Ids : Login(e, id) \/ LoginRefused(e, id)
       \/ ClaimAgain(e) \/ Disconnect(e)
       \/ \E stamp \in Stamps, action \in Action : Receive(e, stamp, action)
       \/ \E stamp \in Stamps : RequestCapabilities(e, stamp)
       \/ ReceiveOther(e)
  \/ \E id \in Ids, key \in Keys : Claim(id, key)
  \/ FinishClaim

Drain ==
  \/ BeginDrain \/ EndFrame
  \/ /\ pending # <<>>
     /\ LET c == Head(pending)
        IN Deny(c) \/ Moderate(c) \/ SendAccountCatalog(c) \/ Refuse(c)
             \/ ChangeAccounts(c)
  \/ \E c \in executing : FinishChange(c)

LifeCycle == Begin \/ FinishStart \/ Shutdown \/ Time

Next == Poll \/ Drain \/ Broadcast \/ LifeCycle

Spec == Init /\ [][Next]_vars

-----------------------------------------------------------------------------
(* No two sessions were last active at once.                               *)
Ordered ==
  /\ recency \subseteq Connected \X Connected
  /\ \A e, f \in Connected : e # f => (Before(e, f) <=> ~Before(f, e))
  /\ \A e \in Connected : ~Before(e, e)
  /\ \A e, f, g \in Connected : Before(e, f) /\ Before(f, g) => Before(e, g)

(* Every variable keeps its type; the queue and the table of sessions keep *)
(* their limits, and the order of activity is one of the connected         *)
(* endpoints.                                                              *)
SessionsTypeOK ==
  /\ TypeOK
  /\ sessions \in [Endpoints -> Session \cup {NoSession}]
  /\ Ordered
  /\ Cardinality(Connected) <= MaxSessions
  /\ nextId \in 1..(MaxLogins + 1)
  /\ pending \in Seq(Command) /\ Len(pending) <= MaxPending
  /\ executing \subseteq Command /\ Cardinality(executing) <= 1
  /\ drains \in 0..PerFrame
  /\ setupCode \in BOOLEAN /\ claimed \subseteq Ids
  /\ sent \subseteq Reply \cup Notice /\ ran \subseteq Command

(* A session ID names one login for ever: a waiting command meets either   *)
(* the session that sent it or none, whatever logins, evictions and        *)
(* disconnections came between (neo_ptt.cpp:374-376).                      *)
Waiting == {pending[i] : i \in DOMAIN pending} \cup executing

SessionIdentity ==
  /\ \A e \in Connected : sessions[e].id < nextId
  /\ \A e, f \in Connected : sessions[e].id = sessions[f].id => e = f
  /\ \A c \in Waiting, e \in Connected :
       sessions[e].id = c.session => e = c.endpoint /\ sessions[e].account = c.account

(* Request replies reach only the session that asked (neo_ptt.h:113-115),  *)
(* and only while its account is in force: none is signed with an access   *)
(* key that has been replaced.                                             *)
RepliesSent == {reply \in sent : reply.type \in {"result", "catalog"}}

RepliesReachTheirSender ==
  \A reply \in RepliesSent :
    /\ reply.endpoint = reply.command.endpoint
    /\ reply.to.account = reply.command.account
    /\ Valid(reply.to, accounts)

(* The catalog of accounts goes only to accounts that may manage accounts  *)
(* now, also when the right was withdrawn while the command waited.        *)
CatalogOnlyToManagers ==
  \A reply \in RepliesSent : reply.type = "catalog" =>
    "ManageAccounts" \in accounts[reply.command.account].permissions

(* While the setup code is accepted nobody but the owner it created has an *)
(* account, and nobody has a session.                                      *)
SetupCodeIsolated ==
  setupCode /\ phase = "ready" => Members(accounts) = claimed /\ Connected = {}

(* An endpoint loses its session only to its own account's revocation, to  *)
(* the limit on sessions when it was the least recently active, or to the  *)
(* end of the server: other administrators are not disturbed               *)
(* (neo_ptt.cpp:1152-1154).                                                *)
LosesSession(e) == sessions[e] # NoSession /\ sessions'[e] = NoSession
NoCollateralDisconnect ==
  [][\A e \in Endpoints : LosesSession(e) =>
       \/ ~Valid(sessions[e], accounts')
       \/ phase' = "down"
       \/ Cardinality(Connected) = MaxSessions /\ Oldest(e)]_vars

(* The sessions and their queue use the accounts as Accounts allows, so    *)
(* what is proved of Accounts holds with stale commands in the queue.      *)
ImplementsAccounts == AccountsSpec

(* The comment at neo_ptt.cpp:1152-1154: disabled, expired, deleted, or    *)
(* re-keyed accounts stop immediately.                                     *)
RevokedAccountsStop ==
  \A c \in ran :
    LET a == accounts[c.account]
    IN  a # NoAccount /\ a.enabled /\ ~Expired(a)

=============================================================================
