--------------------------- MODULE SessionsProofs ---------------------------
(* Theorems about the sessions of Sessions: they use the accounts as       *)
(* Accounts allows, a waiting command never meets a session other than the *)
(* one that sent it, and nobody but the owner gets in through the setup.   *)
EXTENDS Sessions, AccountsProofs, SequenceTheorems, FiniteSetTheorems

SessionTypes ==
  /\ sessions \in [Endpoints -> Session \cup {NoSession}]
  /\ nextId \in 1..(MaxLogins + 1)
  /\ pending \in Seq(Command)
  /\ executing \subseteq Command

(* Nobody is connected and nothing waits before there is an account.       *)
Peopled == Connected # {} \/ pending # <<>> => Claimed

(* The IDs of waiting commands have been given out.                        *)
Past == \A c \in Waiting : c.session < nextId

Identity == SessionIdentity /\ Past

SessionInvariant == Invariant /\ SessionTypes /\ Peopled /\ Identity

-----------------------------------------------------------------------------
(* A login that is refused and a claim that is repeated change nothing.    *)
LEMMA RefusedOrRepeated ==
  ASSUME NEW e \in Endpoints, (\E id \in Ids : LoginRefused(e, id)) \/ ClaimAgain(e)
  PROVE  /\ Polling /\ sent' \subseteq Notice /\ ran' = {}
         /\ UNCHANGED <<accountVars, sessionVars, pending, executing, drains, setupVars>>
<1>1. \A id \in Ids : LoginRefused(e, id) =>
        /\ Polling /\ Notify("refused", e)
        /\ UNCHANGED <<accountVars, sessionVars, pending, executing, drains, setupVars>>
  BY DEF LoginRefused
<1>2. ClaimAgain(e) =>
        /\ Polling /\ Notify("accepted", e)
        /\ UNCHANGED <<accountVars, sessionVars, pending, executing, drains, setupVars>>
  BY DEF ClaimAgain
<1>3. \A type \in {"refused", "accepted"} :
        Notify(type, e) => sent' \subseteq Notice /\ ran' = {}
  BY DEF Notify, Notice
<1> QED
  BY <1>1, <1>2, <1>3

(* What polling sends are notices, and it carries no command out.          *)
LEMMA PollNotices ==
  ASSUME Poll
  PROVE  sent' \subseteq Notice /\ ran' = {}
<1>1. ASSUME NEW e \in Endpoints,
             \E type \in {"accepted", "refused", "capabilities"} : Notify(type, e)
      PROVE  sent' \subseteq Notice /\ ran' = {}
  BY <1>1 DEF Notify, Notice
<1>2. ASSUME Quiet
      PROVE  sent' \subseteq Notice /\ ran' = {}
  BY <1>2 DEF Quiet
<1>3. ASSUME NEW e \in Endpoints, NEW id \in Ids, Login(e, id)
      PROVE  Notify("accepted", e)
  BY <1>3 DEF Login
<1>4. ASSUME NEW e \in Endpoints, Disconnect(e)
      PROVE  Quiet \/ Notify("refused", e)
  BY <1>4 DEF Disconnect
<1>5. ASSUME NEW e \in Endpoints, NEW stamp \in Stamps, RequestCapabilities(e, stamp)
      PROVE  Quiet \/ Notify("capabilities", e)
  BY <1>5 DEF RequestCapabilities
<1>6. ASSUME NEW e \in Endpoints, NEW stamp \in Stamps, NEW action \in Action,
             Receive(e, stamp, action)
      PROVE  Quiet
  BY <1>6 DEF Receive
<1>7. ASSUME NEW e \in Endpoints, ReceiveOther(e)
      PROVE  Quiet
  BY <1>7 DEF ReceiveOther
<1>8. ASSUME NEW id \in Ids, NEW key \in Keys, Claim(id, key)
      PROVE  Quiet
  BY <1>8 DEF Claim
<1>9. ASSUME FinishClaim
      PROVE  Quiet \/ \E e \in Endpoints : Notify("accepted", e)
  BY <1>9 DEF FinishClaim
<1>10. \A e \in Endpoints :
         \/ \E id \in Ids : Login(e, id) \/ LoginRefused(e, id)
         \/ ClaimAgain(e) \/ Disconnect(e) \/ ReceiveOther(e)
         \/ \E stamp \in Stamps, action \in Action : Receive(e, stamp, action)
         \/ \E stamp \in Stamps : RequestCapabilities(e, stamp)
         => sent' \subseteq Notice /\ ran' = {}
  BY <1>1, <1>2, <1>3, <1>4, <1>5, <1>6, <1>7, RefusedOrRepeated
<1> QED
  BY <1>1, <1>2, <1>8, <1>9, <1>10 DEF Poll

-----------------------------------------------------------------------------
(* Every step of the sessions is a step of the accounts or leaves them.    *)
LEMMA HeadIsCommand ==
  ASSUME SessionTypes, pending # <<>>
  PROVE  Head(pending) \in Command
BY HeadTailProperties DEF SessionTypes

LEMMA ChangeAccountsStep ==
  ASSUME SessionInvariant, NEW c, pending # <<>>, c = Head(pending), ChangeAccounts(c)
  PROVE  AccountsNext
<1>1. c \in Command
  BY HeadIsCommand DEF SessionInvariant
<1>2. c.account \in Ids /\ c.action \in Action
  BY <1>1 DEF Command
<1>3. Members(accounts) # {}
  BY DEF ChangeAccounts, TakeAdminAction, Draining, SessionInvariant, Peopled,
         Invariant, NeverEmptied
<1>4. CASE c.action.type = "save" /\ Upsert(c.action.request, c.account)
  <2>1. c.action.request \in Requests
    BY <1>2, <1>4 DEF Action
  <2> QED
    BY <1>2, <1>3, <1>4, <2>1 DEF AccountsNext, AccountRequest
<1>5. CASE c.action.type = "delete" /\ Remove(c.action.id, c.account)
  <2>1. c.action.id \in Ids
    BY <1>2, <1>5 DEF Action
  <2> QED
    BY <1>2, <1>3, <1>5, <2>1 DEF AccountsNext, AccountRequest
<1> QED
  BY <1>4, <1>5 DEF ChangeAccounts, StartChange

LEMMA StepImplementsAccounts ==
  SessionInvariant /\ [Next]_vars => [AccountsNext]_accountVars
<1> SUFFICES ASSUME SessionInvariant, [Next]_vars
             PROVE  AccountsNext \/ UNCHANGED accountVars
  OBVIOUS
<1>1. ASSUME NEW e \in Endpoints, NEW id \in Ids, Login(e, id)
      PROVE  UNCHANGED accountVars
  BY <1>1 DEF Login
<1>2. ASSUME NEW e \in Endpoints, Disconnect(e)
      PROVE  UNCHANGED accountVars
  BY <1>2 DEF Disconnect
<1>3. ASSUME NEW e \in Endpoints, NEW stamp \in Stamps, NEW action \in Action,
             Receive(e, stamp, action)
      PROVE  UNCHANGED accountVars
  BY <1>3 DEF Receive, AcceptAction
<1>4. ASSUME NEW e \in Endpoints, ReceiveOther(e)
      PROVE  UNCHANGED accountVars
  BY <1>4 DEF ReceiveOther
<1>5. ASSUME NEW id \in Ids, NEW key \in Keys, Claim(id, key)
      PROVE  AccountsNext
  BY <1>5 DEF Claim, AccountsNext, AccountRequest
<1>6. CASE FinishClaim
  BY <1>6 DEF FinishClaim, AccountsNext, Environment
<1>7. CASE BeginDrain \/ EndFrame
  BY <1>7 DEF BeginDrain, EndFrame
<1>8. ASSUME NEW c, Deny(c) \/ Moderate(c) \/ SendAccountCatalog(c) \/ Refuse(c)
      PROVE  UNCHANGED accountVars
  BY <1>8 DEF Deny, Moderate, SendAccountCatalog, Refuse
<1>9. ASSUME pending # <<>>, ChangeAccounts(Head(pending))
      PROVE  AccountsNext
  BY <1>9, ChangeAccountsStep
<1>10. ASSUME NEW c \in executing, FinishChange(c)
       PROVE  AccountsNext
  BY <1>10 DEF FinishChange, FinishSave, AccountsNext, Environment
<1>11. CASE Broadcast
  BY <1>11 DEF Broadcast
<1>12. CASE LifeCycle
  BY <1>12 DEF LifeCycle, Begin, FinishStart, Shutdown, Time, AccountsNext, Environment
<1>13. CASE UNCHANGED vars
  BY <1>13 DEF vars
<1>14. ASSUME NEW e \in Endpoints, NEW stamp \in Stamps, RequestCapabilities(e, stamp)
       PROVE  UNCHANGED accountVars
  BY <1>14 DEF RequestCapabilities, AcceptAction
<1>15. Poll => AccountsNext \/ UNCHANGED accountVars
  BY <1>1, <1>2, <1>3, <1>4, <1>5, <1>6, <1>14, RefusedOrRepeated DEF Poll
<1>16. Drain => AccountsNext \/ UNCHANGED accountVars
  BY <1>7, <1>8, <1>9, <1>10 DEF Drain
<1> QED
  BY <1>11, <1>12, <1>13, <1>15, <1>16 DEF Next

-----------------------------------------------------------------------------
(* What a step does to the waiting commands.                               *)
LEMMA RangeOfTail ==
  ASSUME pending \in Seq(Command), pending # <<>>, pending' = Tail(pending),
         executing' \subseteq executing \cup {Head(pending)}
  PROVE  pending' \in Seq(Command) /\ Waiting' \subseteq Waiting
<1>1. /\ Len(pending) \in Nat /\ Len(pending) >= 1
      /\ pending' \in Seq(Command)
      /\ Len(pending') = Len(pending) - 1
      /\ DOMAIN pending = 1..Len(pending) /\ DOMAIN pending' = 1..Len(pending')
      /\ Head(pending) = pending[1]
      /\ \A i \in 1..Len(pending') : pending'[i] = pending[i + 1]
  BY HeadTailProperties, LenProperties, EmptySeq
<1>2. ASSUME NEW i \in DOMAIN pending'
      PROVE  pending'[i] \in Waiting
  <2>1. i + 1 \in DOMAIN pending /\ pending'[i] = pending[i + 1]
    BY <1>1, <1>2
  <2> QED
    BY <2>1 DEF Waiting
<1>3. Head(pending) \in Waiting
  <2>1. 1 \in DOMAIN pending
    BY <1>1
  <2> QED
    BY <1>1, <2>1 DEF Waiting
<1> QED
  BY <1>1, <1>2, <1>3 DEF Waiting

LEMMA RangeOfEnqueued ==
  ASSUME pending \in Seq(Command), NEW c \in Command, pending' = Enqueued(c),
         executing' = executing
  PROVE  pending' \in Seq(Command) /\ Waiting' \subseteq Waiting \cup {c}
<1> DEFINE kept == IF Len(pending) >= MaxPending THEN Tail(pending) ELSE pending
<1>0. Len(pending) \in Nat /\ DOMAIN pending = 1..Len(pending)
  BY LenProperties
<1>1. /\ kept \in Seq(Command)
      /\ \A i \in 1..Len(kept) : \E k \in DOMAIN pending : kept[i] = pending[k]
  <2>1. CASE Len(pending) >= MaxPending
    <3>1. pending # <<>>
      BY <2>1, MaxPendingAssumption, EmptySeq
    <3>2. /\ Tail(pending) \in Seq(Command)
          /\ Len(Tail(pending)) = Len(pending) - 1
          /\ \A i \in 1..Len(Tail(pending)) : Tail(pending)[i] = pending[i + 1]
      BY <3>1, HeadTailProperties
    <3>3. \A i \in 1..Len(Tail(pending)) : i + 1 \in DOMAIN pending
      BY <1>0, <3>2
    <3> QED
      BY <2>1, <3>2, <3>3
  <2>2. CASE ~(Len(pending) >= MaxPending)
    BY <1>0, <2>2
  <2> QED
    BY <2>1, <2>2
<1>2. pending' = Append(kept, c)
  BY DEF Enqueued
<1> HIDE DEF kept
<1>3. /\ pending' \in Seq(Command)
      /\ Len(kept) \in Nat
      /\ DOMAIN pending' = 1..(Len(kept) + 1)
      /\ \A i \in 1..Len(kept) : pending'[i] = kept[i]
      /\ pending'[Len(kept) + 1] = c
  BY <1>1, <1>2, AppendProperties, LenProperties
<1>4. ASSUME NEW i \in DOMAIN pending'
      PROVE  pending'[i] \in Waiting \cup {c}
  <2>1. i \in 1..Len(kept) \/ i = Len(kept) + 1
    BY <1>3
  <2> QED
    BY <1>1, <1>3, <2>1 DEF Waiting
<1> QED
  BY <1>3, <1>4 DEF Waiting

-----------------------------------------------------------------------------
(* What a step does to the sessions.                                       *)

(* A session is removed or goes on under its ID and account.               *)
Kept(e) ==
  \/ sessions'[e] = NoSession
  \/ /\ sessions[e] # NoSession
     /\ sessions'[e].id = sessions[e].id
     /\ sessions'[e].account = sessions[e].account

(* A command that one of the sessions just sent.                           *)
FromSession(c) ==
  /\ c.endpoint \in Connected
  /\ c.session = sessions[c.endpoint].id
  /\ c.account = sessions[c.endpoint].account

LEMMA KeptIdentity ==
  ASSUME Identity, nextId' = nextId, \A e \in Endpoints : Kept(e),
         \A c \in Waiting' : c \in Waiting \/ FromSession(c)
  PROVE  Identity' /\ Connected' \subseteq Connected
<1>1. ASSUME NEW e \in Connected'
      PROVE  /\ e \in Connected
             /\ sessions'[e].id = sessions[e].id
             /\ sessions'[e].account = sessions[e].account
  BY <1>1 DEF Kept, Connected
<1>2. \A e \in Connected' : sessions'[e].id < nextId'
  BY <1>1 DEF Identity, SessionIdentity
<1>3. \A e, f \in Connected' : sessions'[e].id = sessions'[f].id => e = f
  BY <1>1 DEF Identity, SessionIdentity
<1>4. ASSUME NEW c \in Waiting', NEW e \in Connected', sessions'[e].id = c.session
      PROVE  e = c.endpoint /\ sessions'[e].account = c.account
  BY <1>1, <1>4 DEF Identity, SessionIdentity, FromSession
<1>5. Past'
  BY DEF Identity, SessionIdentity, Past, FromSession
<1> QED
  BY <1>1, <1>2, <1>3, <1>4, <1>5 DEF Identity, SessionIdentity

LEMMA RefreshedIsSession ==
  ASSUME NEW session \in Session, NEW store \in Store, Valid(session, store)
  PROVE  /\ Refreshed(session, store) \in Session
         /\ Refreshed(session, store).id = session.id
         /\ Refreshed(session, store).account = session.account
<1>1. store[session.account] \in Account
  BY DEF Valid, Store, Session
<1> QED
  BY <1>1 DEF Refreshed, Session, Account

(* Answering a command refreshes or removes the session it came from.      *)
LEMMA AnswerKeeps ==
  ASSUME SessionTypes, NEW c, NEW types, NEW store \in Store, Answer(c, types, store)
  PROVE  /\ sessions' \in [Endpoints -> Session \cup {NoSession}]
         /\ \A e \in Endpoints : Kept(e)
<1>1. CASE UNCHANGED sessions
  BY <1>1 DEF SessionTypes, Kept
<1>2. ASSUME NEW e \in Origin(c), Deliverable(sessions[e], store),
             sessions' = [sessions EXCEPT ![e] = Refreshed(sessions[e], store)]
      PROVE  /\ sessions' \in [Endpoints -> Session \cup {NoSession}]
             /\ \A f \in Endpoints : Kept(f)
  <2>1. e \in Endpoints /\ sessions[e] \in Session /\ sessions[e] # NoSession
    BY <1>2 DEF Origin, Connected, SessionTypes
  <2>2. /\ Refreshed(sessions[e], store) \in Session
        /\ Refreshed(sessions[e], store).id = sessions[e].id
        /\ Refreshed(sessions[e], store).account = sessions[e].account
    BY <1>2, <2>1, RefreshedIsSession DEF Deliverable
  <2> QED
    BY <1>2, <2>1, <2>2 DEF SessionTypes, Kept
<1>3. ASSUME NEW e \in Origin(c), sessions' = [sessions EXCEPT ![e] = NoSession]
      PROVE  /\ sessions' \in [Endpoints -> Session \cup {NoSession}]
             /\ \A f \in Endpoints : Kept(f)
  BY <1>3 DEF SessionTypes, Kept, Origin, Connected
<1> QED
  BY <1>1, <1>2, <1>3 DEF Answer, RemoveSession

-----------------------------------------------------------------------------
LEMMA InitSessions == Init => SessionInvariant
<1> SUFFICES ASSUME Init PROVE SessionInvariant
  OBVIOUS
<1>1. Connected = {} /\ pending = <<>> /\ executing = {}
  BY DEF Init, NoSessions, Connected
<1>2. Invariant
  BY InitInvariant DEF Init
<1>3. SessionTypes
  BY <1>1, EmptySeq, MaxLoginsAssumption DEF Init, NoSessions, SessionTypes
<1>4. Waiting = {}
  BY <1>1, EmptySeq DEF Waiting
<1> QED
  BY <1>1, <1>2, <1>3, <1>4
     DEF SessionInvariant, Peopled, Identity, SessionIdentity, Past

(* A member of the accounts in memory between requests is on disk, too.    *)
LEMMA MembersAreClaimed ==
  ASSUME Invariant, phase = "ready", Members(accounts) # {}
  PROVE  Claimed
<1>1. /\ disk # NoDocument /\ accounts \in Store /\ disk \in Store
      /\ RegrantedStore(accounts) = RegrantedStore(disk)
  BY DEF Invariant, TypeOK, Mirrored, Agree
<1>2. Members(accounts) = Members(disk)
  BY <1>1, RegrantedStoreKeeps
<1> QED
  BY <1>1, <1>2 DEF Claimed

LEMMA LoggedInIsSession ==
  ASSUME SessionInvariant, NEW e \in Endpoints, NEW id \in Ids, Login(e, id)
  PROVE  /\ LoggedInAt(e, id) \in Session
         /\ LoggedInAt(e, id).id = nextId /\ LoggedInAt(e, id).account = id
<1>1. id \in Members(accounts) /\ nextId \in 1..(MaxLogins + 1) /\ nextId <= MaxLogins
  BY DEF Login, SessionInvariant, SessionTypes
<1>2. accounts[id] \in Account
  BY <1>1 DEF SessionInvariant, Invariant, TypeOK, Store, Members
<1> QED
  BY <1>1, <1>2, MaxLoginsAssumption DEF LoggedInAt, Session, SessionId, Account

LEMMA LoginSessions ==
  ASSUME SessionInvariant, NEW e \in Endpoints, NEW id \in Ids, Login(e, id)
  PROVE  SessionTypes' /\ Identity' /\ Claimed
<1> DEFINE new == LoggedInAt(e, id)
<1>1. /\ phase = "ready" /\ id \in Members(accounts)
      /\ nextId \in 1..(MaxLogins + 1) /\ nextId <= MaxLogins /\ nextId' = nextId + 1
      /\ UNCHANGED <<pending, executing>>
      /\ sessions' = [x \in Endpoints |-> CASE x = e -> new
                                           [] x \in Evicted(e) \ {e} -> NoSession
                                           [] OTHER -> sessions[x]]
  BY DEF Login, Polling, SessionInvariant, SessionTypes
<1>3. new \in Session /\ new.id = nextId /\ new.account = id
  BY LoggedInIsSession
<1> HIDE DEF new
<1>4. SessionTypes'
  BY <1>1, <1>3, MaxLoginsAssumption DEF SessionInvariant, SessionTypes
<1>5. /\ sessions'[e] = new
      /\ \A f \in Connected' \ {e} : f \in Connected /\ sessions'[f] = sessions[f]
  <2>1. sessions'[e] = new
    <3>1. sessions'[e] = CASE e = e -> new
                           [] e \in Evicted(e) \ {e} -> NoSession
                           [] OTHER -> sessions[e]
      BY <1>1
    <3> QED
      BY <3>1
  <2>2. ASSUME NEW f \in Endpoints, f # e
        PROVE  sessions'[f] = NoSession \/ sessions'[f] = sessions[f]
    <3>1. sessions'[f] = CASE f = e -> new
                           [] f \in Evicted(e) \ {e} -> NoSession
                           [] OTHER -> sessions[f]
      BY <1>1
    <3> QED
      BY <2>2, <3>1
  <2> QED
    BY <2>1, <2>2 DEF Connected
<1>6. Waiting' = Waiting /\ Waiting \subseteq Command
  BY <1>1, ElementOfSeq, LenProperties DEF Waiting, SessionInvariant, SessionTypes
<1>7. \A f \in Connected : sessions[f].id < nextId /\ sessions[f].id \in Nat
  BY DEF SessionInvariant, Identity, SessionIdentity, SessionTypes, Connected,
         Session, SessionId
<1>8. \A c \in Waiting : c.session < nextId /\ c.session \in Nat
  BY <1>6 DEF SessionInvariant, Identity, Past, Command, SessionId
<1>9. \A f \in Connected' : sessions'[f].id < nextId'
  BY <1>1, <1>3, <1>5, <1>7
<1>10. \A f, g \in Connected' : sessions'[f].id = sessions'[g].id => f = g
  <2> SUFFICES ASSUME NEW f \in Connected', NEW g \in Connected',
                      sessions'[f].id = sessions'[g].id
               PROVE  f = g
    OBVIOUS
  <2>1. CASE f = e /\ g # e
    BY <1>1, <1>3, <1>5, <1>7, <2>1
  <2>2. CASE f # e /\ g = e
    BY <1>1, <1>3, <1>5, <1>7, <2>2
  <2>3. CASE f # e /\ g # e
    BY <1>5, <2>3 DEF SessionInvariant, Identity, SessionIdentity
  <2> QED
    BY <2>1, <2>2, <2>3
<1>11. \A c \in Waiting', f \in Connected' :
         sessions'[f].id = c.session => f = c.endpoint /\ sessions'[f].account = c.account
  <2> SUFFICES ASSUME NEW c \in Waiting, NEW f \in Connected',
                      sessions'[f].id = c.session
               PROVE  f = c.endpoint /\ sessions'[f].account = c.account
    BY <1>6
  <2>1. f # e
    BY <1>1, <1>3, <1>5, <1>8
  <2> QED
    BY <1>5, <2>1 DEF SessionInvariant, Identity, SessionIdentity
<1>12. Past'
  BY <1>1, <1>6, <1>8 DEF Past
<1>13. Claimed
  BY <1>1, MembersAreClaimed DEF SessionInvariant
<1> QED
  BY <1>4, <1>9, <1>10, <1>11, <1>12, <1>13 DEF Identity, SessionIdentity

(* An accepted action is stamped in its session, which is otherwise kept.  *)
LEMMA AcceptActionKeeps ==
  ASSUME SessionTypes, accounts \in Store, NEW e \in Endpoints, NEW stamp \in Stamps,
         AcceptAction(e, stamp)
  PROVE  /\ e \in Connected /\ Valid(sessions[e], accounts)
         /\ Refreshed(sessions[e], accounts) \in Session
         /\ Refreshed(sessions[e], accounts).id = sessions[e].id
         /\ Refreshed(sessions[e], accounts).account = sessions[e].account
         /\ \E s \in Session : sessions' = [sessions EXCEPT ![e] = s]
         /\ sessions' \in [Endpoints -> Session \cup {NoSession}]
         /\ \A f \in Endpoints : Kept(f)
<1> DEFINE s == Refreshed(sessions[e], accounts)
<1>1. /\ e \in Connected /\ Valid(sessions[e], accounts)
      /\ sessions' = [sessions EXCEPT ![e] = [s EXCEPT !.last = stamp]]
  BY DEF AcceptAction
<1>2. sessions[e] \in Session /\ sessions[e] # NoSession
  BY <1>1 DEF SessionTypes, Connected
<1>3. s \in Session /\ s.id = sessions[e].id /\ s.account = sessions[e].account
  BY <1>1, <1>2, RefreshedIsSession
<1> HIDE DEF s
<1>4. /\ [s EXCEPT !.last = stamp] \in Session
      /\ [s EXCEPT !.last = stamp].id = sessions[e].id
      /\ [s EXCEPT !.last = stamp].account = sessions[e].account
  BY <1>3 DEF Session
<1>5. /\ sessions' \in [Endpoints -> Session \cup {NoSession}]
      /\ \A f \in Endpoints : Kept(f)
  BY <1>1, <1>2, <1>4 DEF SessionTypes, Kept
<1>6. \E x \in Session : sessions' = [sessions EXCEPT ![e] = x]
  BY <1>1, <1>4
<1> QED
  BY <1>1, <1>3, <1>5, <1>6 DEF s

(* Every other step keeps the sessions it does not remove, and lets the    *)
(* commands wait, go, or come from a session that is there.                *)
LEMMA OtherStepSessions ==
  ASSUME SessionInvariant, Next,
         ~ \E e \in Endpoints, id \in Ids : Login(e, id),
         ~ Shutdown
  PROVE  /\ SessionTypes'
         /\ nextId' = nextId
         /\ \A e \in Endpoints : Kept(e)
         /\ \A c \in Waiting' : c \in Waiting \/ FromSession(c)
         /\ pending' # <<>> => pending # <<>> \/ Connected # {}
<1> DEFINE Goal == /\ SessionTypes'
                   /\ nextId' = nextId
                   /\ \A e \in Endpoints : Kept(e)
                   /\ \A c \in Waiting' : c \in Waiting \/ FromSession(c)
                   /\ pending' # <<>> => pending # <<>> \/ Connected # {}
<1>0. SessionTypes /\ accounts \in Store /\ previous \in Store
  BY DEF SessionInvariant, Invariant, TypeOK
<1>1. ASSUME UNCHANGED <<sessions, nextId, pending, executing>>
      PROVE  Goal
  BY <1>0, <1>1 DEF SessionTypes, Kept, Waiting
<1>2. ASSUME NEW e \in Endpoints, Disconnect(e)
      PROVE  Goal
  BY <1>0, <1>2 DEF Disconnect, RemoveSession, SessionTypes, Kept, Waiting
<1>3. ASSUME NEW e \in Endpoints, NEW stamp \in Stamps, NEW action \in Action,
             Receive(e, stamp, action)
      PROVE  Goal
  <2> DEFINE s == Refreshed(sessions[e], accounts)
             c == [session |-> s.id, account |-> s.account, action |-> action,
                   authorized |-> PermissionForAction(action) \in s.permissions,
                   endpoint |-> e]
  <2>1. /\ AcceptAction(e, stamp) /\ pending' = Enqueued(c)
        /\ UNCHANGED <<nextId, executing>>
    BY <1>3 DEF Receive, AcceptAction
  <2>2. /\ e \in Connected /\ s \in Session
        /\ s.id = sessions[e].id /\ s.account = sessions[e].account
        /\ sessions' \in [Endpoints -> Session \cup {NoSession}]
        /\ \A f \in Endpoints : Kept(f)
    BY <1>0, <2>1, AcceptActionKeeps
  <2>3. c \in Command /\ FromSession(c)
    BY <2>2 DEF Command, Session, FromSession
  <2> HIDE DEF c
  <2>4. pending' \in Seq(Command) /\ Waiting' \subseteq Waiting \cup {c}
    BY <1>0, <2>1, <2>3, RangeOfEnqueued DEF SessionTypes
  <2> QED
    BY <1>0, <2>1, <2>2, <2>3, <2>4 DEF SessionTypes
<1>4. ASSUME NEW e \in Endpoints, ReceiveOther(e)
      PROVE  Goal
  <2>1. /\ e \in Connected /\ Valid(sessions[e], accounts)
        /\ sessions' = [sessions EXCEPT ![e] = Refreshed(sessions[e], accounts)]
        /\ UNCHANGED <<nextId, pending, executing>>
    BY <1>4 DEF ReceiveOther
  <2>2. sessions[e] \in Session /\ sessions[e] # NoSession
    BY <1>0, <2>1 DEF SessionTypes, Connected
  <2>3. /\ sessions' \in [Endpoints -> Session \cup {NoSession}]
        /\ \A f \in Endpoints : Kept(f)
    BY <1>0, <2>1, <2>2, RefreshedIsSession DEF SessionTypes, Kept
  <2> QED
    BY <1>0, <2>1, <2>3 DEF SessionTypes, Waiting
<1>5. ASSUME Broadcast
      PROVE  Goal
  <2>1. UNCHANGED <<nextId, pending, executing>>
    BY <1>5 DEF Broadcast
  <2>2. /\ sessions' = [e \in Endpoints |-> sessions'[e]]
        /\ \A e \in Endpoints :
             \/ sessions'[e] = NoSession
             \/ /\ e \in Connected /\ Valid(sessions[e], accounts)
                /\ sessions'[e] = Refreshed(sessions[e], accounts)
    BY <1>5 DEF Broadcast
  <2>3. \A e \in Endpoints : sessions'[e] \in Session \cup {NoSession} /\ Kept(e)
    <3> TAKE e \in Endpoints
    <3>1. CASE sessions'[e] = NoSession
      BY <3>1 DEF Kept
    <3>2. CASE /\ e \in Connected /\ Valid(sessions[e], accounts)
               /\ sessions'[e] = Refreshed(sessions[e], accounts)
      <4>1. sessions[e] \in Session /\ sessions[e] # NoSession
        BY <1>0, <3>2 DEF SessionTypes, Connected
      <4> QED
        BY <1>0, <3>2, <4>1, RefreshedIsSession DEF Kept
    <3> QED
      BY <2>2, <3>1, <3>2
  <2>4. sessions' \in [Endpoints -> Session \cup {NoSession}]
    BY <2>2, <2>3
  <2> QED
    BY <1>0, <2>1, <2>3, <2>4 DEF SessionTypes, Waiting
<1>6. ASSUME NEW c, pending # <<>>, c = Head(pending),
             Deny(c) \/ Moderate(c) \/ SendAccountCatalog(c) \/ Refuse(c)
      PROVE  Goal
  <2>1. /\ pending' = Tail(pending) /\ UNCHANGED <<nextId, executing>>
        /\ \E types : Answer(c, types, accounts)
    BY <1>6 DEF Deny, Moderate, SendAccountCatalog, Refuse, TakeAdminAction
  <2>2. pending' \in Seq(Command) /\ Waiting' \subseteq Waiting
    BY <1>0, <1>6, <2>1, RangeOfTail DEF SessionTypes
  <2>3. /\ sessions' \in [Endpoints -> Session \cup {NoSession}]
        /\ \A e \in Endpoints : Kept(e)
    BY <1>0, <2>1, AnswerKeeps
  <2> QED
    BY <1>0, <1>6, <2>1, <2>2, <2>3 DEF SessionTypes
<1>7. ASSUME NEW c, pending # <<>>, c = Head(pending), ChangeAccounts(c)
      PROVE  Goal
  <2>1. /\ pending' = Tail(pending) /\ executing' = {c} /\ UNCHANGED <<sessions, nextId>>
    BY <1>7 DEF ChangeAccounts, TakeAdminAction
  <2>2. c \in Command
    BY <1>0, <1>7, HeadIsCommand
  <2>3. pending' \in Seq(Command) /\ Waiting' \subseteq Waiting
    BY <1>0, <1>7, <2>1, RangeOfTail DEF SessionTypes
  <2> QED
    BY <1>0, <1>7, <2>1, <2>2, <2>3 DEF SessionTypes, Kept
<1>8. ASSUME NEW c \in executing, FinishChange(c)
      PROVE  Goal
  <2>1. /\ executing' = {} /\ UNCHANGED <<nextId, pending>>
        /\ \/ Answer(c, {"result", "catalog"}, accounts)
           \/ Answer(c, {"result"}, previous)
    BY <1>8 DEF FinishChange, FinishSave
  <2>2. /\ sessions' \in [Endpoints -> Session \cup {NoSession}]
        /\ \A e \in Endpoints : Kept(e)
    BY <1>0, <2>1, AnswerKeeps
  <2> QED
    BY <1>0, <2>1, <2>2 DEF SessionTypes, Waiting
<1>9. ASSUME \/ \E id \in Ids, key \in Keys : Claim(id, key)
             \/ FinishClaim \/ BeginDrain \/ EndFrame \/ Begin \/ FinishStart \/ Time
      PROVE  UNCHANGED <<sessions, nextId, pending, executing>>
  BY <1>9 DEF Claim, FinishClaim, BeginDrain, EndFrame, Begin, FinishStart, Time,
              sessionVars
<1>10. ASSUME NEW e \in Endpoints, NEW stamp \in Stamps, RequestCapabilities(e, stamp)
       PROVE  Goal
  <2>1. AcceptAction(e, stamp) /\ UNCHANGED <<nextId, pending, executing>>
    BY <1>10 DEF RequestCapabilities, AcceptAction
  <2>2. /\ sessions' \in [Endpoints -> Session \cup {NoSession}]
        /\ \A f \in Endpoints : Kept(f)
    BY <1>0, <2>1, AcceptActionKeeps
  <2> QED
    BY <1>0, <2>1, <2>2 DEF SessionTypes, Waiting
<1>11. ASSUME NEW e \in Endpoints, (\E id \in Ids : LoginRefused(e, id)) \/ ClaimAgain(e)
       PROVE  UNCHANGED <<sessions, nextId, pending, executing>>
  BY <1>11, RefusedOrRepeated DEF sessionVars
<1> HIDE DEF Goal
<1>12. Poll => Goal
  BY <1>1, <1>2, <1>3, <1>4, <1>9, <1>10, <1>11 DEF Poll
<1>13. Drain => Goal
  BY <1>1, <1>6, <1>7, <1>8, <1>9 DEF Drain
<1>14. LifeCycle => Goal
  BY <1>1, <1>9 DEF LifeCycle
<1>15. Goal
  BY <1>5, <1>12, <1>13, <1>14 DEF Next
<1> QED
  BY <1>15 DEF Goal

LEMMA ShutdownSessions ==
  ASSUME Shutdown
  PROVE  SessionTypes' /\ Peopled' /\ Identity'
<1>1. /\ sessions' = NoSessions /\ nextId' = 1 /\ pending' = <<>> /\ executing' = {}
  BY DEF Shutdown
<1>2. Connected' = {}
  BY <1>1 DEF NoSessions, Connected
<1>3. Waiting' = {}
  BY <1>1, EmptySeq DEF Waiting
<1>4. SessionTypes'
  BY <1>1, EmptySeq, MaxLoginsAssumption DEF NoSessions, SessionTypes
<1> QED
  BY <1>1, <1>2, <1>3, <1>4 DEF Peopled, Identity, SessionIdentity, Past

LEMMA StepSessions == SessionInvariant /\ [Next]_vars => SessionInvariant'
<1> SUFFICES ASSUME SessionInvariant, [Next]_vars
             PROVE  SessionInvariant'
  OBVIOUS
<1>1. Invariant'
  BY StepImplementsAccounts, StepInvariant DEF SessionInvariant
<1>2. Claimed => Claimed'
  BY StepImplementsAccounts, ClaimedStep DEF SessionInvariant
<1>3. ASSUME NEW e \in Endpoints, NEW id \in Ids, Login(e, id)
      PROVE  SessionTypes' /\ Peopled' /\ Identity'
  BY <1>2, <1>3, LoginSessions DEF Peopled
<1>4. CASE Shutdown
  BY <1>1, <1>4, ShutdownSessions DEF SessionInvariant
<1>5. CASE UNCHANGED vars
  <2>1. UNCHANGED <<sessions, nextId, pending, executing, disk>>
    BY <1>5 DEF vars, accountVars, sessionVars
  <2> QED
    BY <1>1, <2>1 DEF SessionInvariant, SessionTypes, Peopled, Connected, Claimed,
                      Identity, SessionIdentity, Past, Waiting
<1>6. CASE /\ Next
           /\ ~ \E e \in Endpoints, id \in Ids : Login(e, id)
           /\ ~ Shutdown
  <2>1. /\ SessionTypes'
        /\ nextId' = nextId
        /\ \A e \in Endpoints : Kept(e)
        /\ \A c \in Waiting' : c \in Waiting \/ FromSession(c)
        /\ pending' # <<>> => pending # <<>> \/ Connected # {}
    BY <1>6, OtherStepSessions
  <2>2. Identity' /\ Connected' \subseteq Connected
    BY <2>1, KeptIdentity DEF SessionInvariant
  <2>3. Peopled'
    BY <1>2, <2>1, <2>2 DEF Peopled, SessionInvariant
  <2> QED
    BY <1>1, <2>1, <2>2, <2>3 DEF SessionInvariant
<1> QED
  BY <1>1, <1>3, <1>4, <1>5, <1>6 DEF SessionInvariant

-----------------------------------------------------------------------------
LEMMA AlwaysSessionInvariant == Spec => []SessionInvariant
<1> QED
  BY InitSessions, StepSessions, PTL DEF Spec

(* However stale the commands that wait, the sessions use the accounts as  *)
(* Accounts allows: every behaviour of the plugin is one of the account    *)
(* store, so all that is proved of the store holds in the plugin.          *)
THEOREM SessionsImplementAccounts == Spec => ImplementsAccounts
<1>1. Init => AccountsInit
  BY DEF Init
<1>2. SessionInvariant /\ [Next]_vars => [AccountsNext]_accountVars
  BY StepImplementsAccounts
<1> QED
  BY <1>1, <1>2, AlwaysSessionInvariant, PTL DEF Spec, ImplementsAccounts, AccountsSpec

(* A session ID names one login for ever, for any number of endpoints,     *)
(* accounts and waiting commands: a reply cannot reach an administrator    *)
(* who took over the endpoint or the place in the table.                   *)
THEOREM SessionIdsNameOneLogin == Spec => []SessionIdentity
<1>1. SessionInvariant => SessionIdentity
  BY DEF SessionInvariant, Identity
<1> QED
  BY <1>1, AlwaysSessionInvariant, PTL

(* The plugin never loses its last permanent account manager, whatever     *)
(* commands of revoked accounts are still waiting.                         *)
THEOREM PluginKeepsAManager == Spec => []ManagerRemains
<1> QED
  BY SessionsImplementAccounts, ManagerAlwaysRemains, PTL DEF ImplementsAccounts

(* The commands of all sessions together, queued, overtaken and crashed,   *)
(* change the book of accounts one account at a time and on its terms.     *)
THEOREM PluginKeepsTheBook == Spec => ImplementsAccountBook
<1> QED
  BY SessionsImplementAccounts, AccountsImplementBook, PTL DEF ImplementsAccounts

-----------------------------------------------------------------------------
(* What is on its way to the transport after a step.                       *)
Replies == RepliesReachTheirSender /\ CatalogOnlyToManagers

(* Notices are no replies.                                                 *)
LEMMA NoticesOnly ==
  ASSUME sent' \subseteq Notice
  PROVE  Replies'
<1>1. RepliesSent' = {}
  BY DEF RepliesSent, Notice
<1> QED
  BY <1>1 DEF Replies, RepliesReachTheirSender, CatalogOnlyToManagers

LEMMA AnswerReplies ==
  ASSUME SessionInvariant, NEW c \in Waiting, NEW types, NEW store,
         Answer(c, types, store), accounts' = store, clock' = clock
  PROVE  Replies'
<1>1. CASE sent' = {}
  BY <1>1, NoticesOnly
<1>2. ASSUME NEW e \in Origin(c), Deliverable(sessions[e], store),
             sent' = [type : {t \in types : MayReceive(t, c, store)}, endpoint : {e},
                      to : {sessions[e]}, command : {c}]
      PROVE  Replies'
  <2>1. e = c.endpoint /\ sessions[e].account = c.account
    BY <1>2 DEF Origin, SessionInvariant, Identity, SessionIdentity
  <2>2. ASSUME NEW reply \in sent'
        PROVE  /\ reply.endpoint = e /\ reply.to = sessions[e] /\ reply.command = c
               /\ MayReceive(reply.type, c, store)
    BY <1>2, <2>2
  <2>3. RepliesSent' \subseteq sent'
    BY DEF RepliesSent
  <2> QED
    BY <1>2, <2>1, <2>2, <2>3
       DEF Replies, RepliesReachTheirSender, CatalogOnlyToManagers, MayReceive,
           Deliverable, Valid, Expired
<1> QED
  BY <1>1, <1>2 DEF Answer

LEMMA StepReplies ==
  ASSUME SessionInvariant, Replies, [Next]_vars
  PROVE  Replies'
<1>1. CASE sent' = {}
  BY <1>1, NoticesOnly
<1>2. CASE UNCHANGED vars
  BY <1>2 DEF vars, accountVars, history, Replies, RepliesReachTheirSender,
              CatalogOnlyToManagers, RepliesSent, Valid, Expired
<1>3. ASSUME NEW c, pending # <<>>, c = Head(pending),
             Deny(c) \/ Moderate(c) \/ SendAccountCatalog(c) \/ Refuse(c)
      PROVE  Replies'
  <2>1. accounts' = accounts /\ clock' = clock /\ \E types : Answer(c, types, accounts)
    BY <1>3 DEF Deny, Moderate, SendAccountCatalog, Refuse, accountVars
  <2>2. c \in Waiting
    <3>1. 1 \in DOMAIN pending /\ c = pending[1]
      BY <1>3, HeadTailProperties, LenProperties, EmptySeq
         DEF SessionInvariant, SessionTypes
    <3> QED
      BY <3>1 DEF Waiting
  <2> QED
    BY <2>1, <2>2, AnswerReplies
<1>4. ASSUME NEW c \in executing, FinishChange(c)
      PROVE  Replies'
  <2>1. clock' = clock
    BY <1>4 DEF FinishChange, FinishSave, Commit, SaveFails
  <2>2. CASE Commit /\ Answer(c, {"result", "catalog"}, accounts)
    <3>1. accounts' = accounts
      BY <2>2 DEF Commit
    <3> QED
      BY <2>1, <2>2, <3>1, AnswerReplies DEF Waiting
  <2>3. CASE SaveFails /\ Answer(c, {"result"}, previous)
    <3>1. accounts' = previous
      BY <2>3 DEF SaveFails
    <3> QED
      BY <2>1, <2>3, <3>1, AnswerReplies DEF Waiting
  <2> QED
    BY <1>4, <2>2, <2>3 DEF FinishChange, FinishSave
<1>5. Poll => Replies'
  BY PollNotices, NoticesOnly
<1>6. \A c : ChangeAccounts(c) => sent' = {}
  BY DEF ChangeAccounts
<1>7. BeginDrain \/ EndFrame \/ Broadcast \/ LifeCycle => sent' = {}
  BY DEF BeginDrain, EndFrame, Broadcast, LifeCycle, Begin, FinishStart, Shutdown,
         Time, Quiet
<1> QED
  BY <1>1, <1>2, <1>3, <1>4, <1>5, <1>6, <1>7 DEF Next, Drain

LEMMA AlwaysReplies == Spec => []Replies
<1>1. Init => Replies
  BY DEF Init, Replies, RepliesReachTheirSender, CatalogOnlyToManagers, RepliesSent
<1>2. SessionInvariant /\ Replies /\ [Next]_vars => Replies'
  BY StepReplies
<1> QED
  BY <1>1, <1>2, AlwaysSessionInvariant, PTL DEF Spec

(* A reply reaches only the session whose command it answers, and only     *)
(* while the account of that session is in force.                          *)
THEOREM RepliesStayPrivate == Spec => []RepliesReachTheirSender
<1>1. Replies => RepliesReachTheirSender
  BY DEF Replies
<1> QED
  BY <1>1, AlwaysReplies, PTL

(* The catalog of accounts never goes to an account that may not manage    *)
(* accounts at that moment.                                                *)
THEOREM CatalogStaysWithManagers == Spec => []CatalogOnlyToManagers
<1>1. Replies => CatalogOnlyToManagers
  BY DEF Replies
<1> QED
  BY <1>1, AlwaysReplies, PTL

-----------------------------------------------------------------------------
(* The setup: a start that finds no account offers a code, the claim makes *)
(* the owner, his first login ends it.  Until then there is no session,    *)
(* hence no command, so an account that is being saved can only be his.    *)
Offered == Connected = {} /\ pending = <<>> /\ executing = {}

Isolation ==
  /\ phase \in {"down", "starting"} => Offered /\ ~setupCode
  /\ setupCode => Offered
  /\ ~setupCode => claimed = {}
  /\ setupCode /\ phase = "ready" => Members(accounts) = claimed
  /\ setupCode /\ phase = "saving" => Members(previous) = {} /\ claimed = {}
  /\ ~setupCode /\ phase = "saving" => executing # {}

LEMMA NoSessionsOffered ==
  ASSUME UNCHANGED <<pending, executing>>, Offered,
         \A e \in Endpoints : sessions'[e] = NoSession
  PROVE  Offered'
BY DEF Offered, Connected

LEMMA PollIsolation ==
  ASSUME Isolation, Poll PROVE Isolation'
<1>1. ASSUME NEW e \in Endpoints, NEW id \in Ids, Login(e, id)
      PROVE  Isolation'
  <2>1. /\ phase = "ready" /\ phase' = "ready" /\ id \in Members(accounts)
        /\ SetupAfterLogin(id)
    BY <1>1 DEF Login, Polling, accountVars
  <2>2. ~setupCode' /\ claimed' = {}
    BY <2>1 DEF Isolation, SetupAfterLogin, setupVars
  <2> QED
    BY <2>1, <2>2 DEF Isolation
<1>2. ASSUME NEW e \in Connected,
             \/ Disconnect(e) \/ ReceiveOther(e)
             \/ \E stamp \in Stamps : RequestCapabilities(e, stamp)
             \/ \E stamp \in Stamps, action \in Action : Receive(e, stamp, action)
      PROVE  Isolation'
  <2>1. phase = "ready" /\ phase' = "ready" /\ UNCHANGED <<setupCode, claimed>>
    BY <1>2 DEF Disconnect, ReceiveOther, RequestCapabilities, Receive, AcceptAction,
                Polling, accountVars, setupVars
  <2>2. ~setupCode
    BY <1>2 DEF Isolation, Offered
  <2> QED
    BY <2>1, <2>2 DEF Isolation
<1>3. ASSUME NEW id \in Ids, NEW key \in Keys, Claim(id, key)
      PROVE  Isolation'
  <2>1. /\ phase = "ready" /\ setupCode /\ Members(accounts) = {}
        /\ phase' = "saving" /\ previous' = accounts
        /\ UNCHANGED <<sessions, pending, executing, setupCode, claimed>>
    BY <1>3 DEF Claim, Polling, BootstrapOwner, Save, sessionVars, setupVars
  <2>2. Members(previous') = {} /\ claimed = {}
    BY <2>1 DEF Isolation
  <2>3. Offered'
    BY <2>1 DEF Isolation, Offered, Connected
  <2> QED
    BY <2>1, <2>2, <2>3 DEF Isolation, Members
<1>4. CASE FinishClaim
  <2>1. /\ phase = "saving" /\ executing = {} /\ phase' = "ready"
        /\ UNCHANGED <<sessions, pending, executing, setupCode>>
    BY <1>4 DEF FinishClaim, Commit, SaveFails, sessionVars
  <2>2. setupCode /\ Offered /\ Members(previous) = {} /\ claimed = {}
    BY <2>1 DEF Isolation
  <2>3. Offered'
    BY <2>1, <2>2 DEF Offered, Connected
  <2>4. CASE Commit /\ claimed' = Members(accounts)
    <3>1. accounts' = accounts
      BY <2>4 DEF Commit
    <3> QED
      BY <2>1, <2>2, <2>3, <2>4, <3>1 DEF Isolation, Members
  <2>5. CASE SaveFails /\ UNCHANGED claimed
    <3>1. accounts' = previous
      BY <2>5 DEF SaveFails
    <3> QED
      BY <2>1, <2>2, <2>3, <2>5, <3>1 DEF Isolation, Members
  <2> QED
    BY <1>4, <2>4, <2>5 DEF FinishClaim
<1>5. \A e \in Endpoints :
        Disconnect(e) \/ ReceiveOther(e)
          \/ (\E stamp \in Stamps : RequestCapabilities(e, stamp))
          \/ (\E stamp \in Stamps, action \in Action : Receive(e, stamp, action))
        => e \in Connected
  BY DEF Disconnect, ReceiveOther, RequestCapabilities, Receive, AcceptAction
<1>6. ASSUME NEW e \in Endpoints, (\E id \in Ids : LoginRefused(e, id)) \/ ClaimAgain(e)
      PROVE  Isolation'
  <2>1. UNCHANGED <<accounts, previous, phase, sessions, pending, executing,
                    setupCode, claimed>>
    BY <1>6, RefusedOrRepeated DEF accountVars, sessionVars, setupVars
  <2> QED
    BY <2>1 DEF Isolation, Offered, Connected, Members
<1> QED
  BY <1>1, <1>2, <1>3, <1>4, <1>5, <1>6 DEF Poll

LEMMA DrainIsolation ==
  ASSUME Isolation, Drain PROVE Isolation'
<1>1. CASE BeginDrain \/ EndFrame
  <2>1. UNCHANGED <<accounts, previous, phase, sessions, pending, executing,
                    setupCode, claimed>>
    BY <1>1 DEF BeginDrain, EndFrame, accountVars, sessionVars, setupVars
  <2> QED
    BY <2>1 DEF Isolation, Offered, Connected, Members
<1>2. ASSUME NEW c, pending # <<>>,
             Deny(c) \/ Moderate(c) \/ SendAccountCatalog(c) \/ Refuse(c)
      PROVE  Isolation'
  <2>1. phase = "ready" /\ phase' = "ready" /\ UNCHANGED <<setupCode, claimed>>
    BY <1>2 DEF Deny, Moderate, SendAccountCatalog, Refuse, TakeAdminAction, Draining,
                accountVars, setupVars
  <2>2. ~setupCode
    BY <1>2 DEF Isolation, Offered
  <2> QED
    BY <2>1, <2>2 DEF Isolation
<1>3. ASSUME NEW c, pending # <<>>, ChangeAccounts(c)
      PROVE  Isolation'
  <2>1. executing' # {} /\ UNCHANGED <<setupCode, claimed>>
    BY <1>3 DEF ChangeAccounts, TakeAdminAction, setupVars
  <2>2. phase' = "saving"
    BY <1>3 DEF ChangeAccounts, StartChange, Upsert, Create, Edit, Remove, Save
  <2>3. ~setupCode
    BY <1>3 DEF Isolation, Offered
  <2> QED
    BY <2>1, <2>2, <2>3 DEF Isolation
<1>4. ASSUME NEW c \in executing, FinishChange(c)
      PROVE  Isolation'
  <2>1. phase' = "ready" /\ UNCHANGED <<setupCode, claimed>>
    BY <1>4 DEF FinishChange, FinishSave, Commit, SaveFails, setupVars
  <2>2. ~setupCode
    BY <1>4 DEF Isolation, Offered
  <2> QED
    BY <2>1, <2>2 DEF Isolation
<1> QED
  BY <1>1, <1>2, <1>3, <1>4 DEF Drain

LEMMA BroadcastIsolation ==
  ASSUME Isolation, Broadcast PROVE Isolation'
<1>1. /\ phase = "ready" /\ phase' = "ready" /\ accounts' = accounts
      /\ UNCHANGED <<pending, executing, setupCode, claimed>>
  BY DEF Broadcast, accountVars, setupVars
<1>2. CASE setupCode
  <2>1. Connected = {} /\ Offered
    BY <1>2 DEF Isolation, Offered
  <2>2. \A e \in Endpoints : sessions'[e] = NoSession
    BY <2>1 DEF Broadcast
  <2>3. Offered'
    BY <1>1, <2>1, <2>2, NoSessionsOffered
  <2> QED
    BY <1>1, <1>2, <2>3 DEF Isolation, Members
<1>3. CASE ~setupCode
  BY <1>1, <1>3 DEF Isolation
<1> QED
  BY <1>2, <1>3

LEMMA LifeCycleIsolation ==
  ASSUME Isolation, LifeCycle PROVE Isolation'
<1>1. CASE Begin
  <2>1. /\ phase = "down" /\ phase' = "starting"
        /\ UNCHANGED <<sessions, pending, executing, setupCode, claimed>>
    BY <1>1 DEF Begin, LoadNothing, sessionVars, setupVars
  <2> QED
    BY <2>1 DEF Isolation, Offered, Connected
<1>2. CASE FinishStart
  <2>1. /\ phase \in {"down", "starting"} /\ phase' = "ready"
        /\ setupCode' = (Members(accounts') = {})
        /\ UNCHANGED <<sessions, pending, executing, claimed>>
    BY <1>2 DEF FinishStart, Commit, LoadDocument, sessionVars
  <2>2. Offered' /\ claimed' = {}
    BY <2>1 DEF Isolation, Offered, Connected
  <2> QED
    BY <2>1, <2>2 DEF Isolation, Members
<1>3. CASE Shutdown
  <2>1. /\ phase' = "down" /\ ~setupCode' /\ claimed' = {}
        /\ sessions' = NoSessions /\ pending' = <<>> /\ executing' = {}
    BY <1>3 DEF Shutdown, Stop, Crash, StartFails
  <2>2. Offered'
    BY <2>1 DEF Offered, Connected, NoSessions
  <2> QED
    BY <2>1, <2>2 DEF Isolation
<1>4. CASE Time
  <2>1. UNCHANGED <<accounts, previous, phase, sessions, pending, executing,
                    setupCode, claimed>>
    BY <1>4 DEF Time, Tick, sessionVars, setupVars
  <2> QED
    BY <2>1 DEF Isolation, Offered, Connected, Members
<1> QED
  BY <1>1, <1>2, <1>3, <1>4 DEF LifeCycle

(* While the setup code is accepted nobody but the owner it created has an *)
(* account and nobody has a session, whatever claims are repeated, lost,   *)
(* refused by the disk or cut short by a crash (neo_ptt.cpp:1006, :728).   *)
THEOREM SetupStaysIsolated == Spec => []SetupCodeIsolated
<1>1. Init => Isolation
  BY DEF Init, AccountsInit, NoSessions, Isolation, Offered, Connected
<1>2. Isolation /\ [Next]_vars => Isolation'
  <2> SUFFICES ASSUME Isolation, [Next]_vars PROVE Isolation'
    OBVIOUS
  <2>1. CASE UNCHANGED vars
    <3>1. UNCHANGED <<accounts, previous, phase, sessions, pending, executing,
                      setupCode, claimed>>
      BY <2>1 DEF vars, accountVars, sessionVars, setupVars
    <3> QED
      BY <3>1 DEF Isolation, Offered, Connected, Members
  <2> QED
    BY <2>1, PollIsolation, DrainIsolation, BroadcastIsolation, LifeCycleIsolation DEF Next
<1>3. Isolation => SetupCodeIsolated
  BY DEF Isolation, Offered, SetupCodeIsolated
<1> QED
  BY <1>1, <1>2, <1>3, PTL DEF Spec

-----------------------------------------------------------------------------
(* The table of sessions, and what a step may do to it: remove sessions    *)
(* that are no longer valid, let one come or be active, or end with the    *)
(* server.                                                                 *)
Table ==
  /\ Ordered
  /\ IsFiniteSet(Connected) /\ Cardinality(Connected) <= MaxSessions

Shrinks(gone) ==
  /\ Connected' = Connected \ gone /\ recency' = Without(gone)
  /\ \A e \in gone : ~Valid(sessions[e], accounts')

Advances(e) ==
  /\ Connected' = (Connected \ Evicted(e)) \cup {e}
  /\ recency' = Active(e, Evicted(e))

Ends == phase' = "down" /\ Connected' = {} /\ recency' = {}

TableStep ==
  \/ \E gone \in SUBSET Connected : Shrinks(gone)
  \/ \E e \in Endpoints : Advances(e)
  \/ Ends

(* Of finitely many connected endpoints one was least recently active.     *)
LEMMA SomeoneIsOldest ==
  ASSUME Table, Connected # {}
  PROVE  \E e \in Connected : Oldest(e)
<1> DEFINE earlier(e) == {f \in Connected : Before(f, e)}
           T == {earlier(e) : e \in Connected}
           R == StrictSubsetOrdering(Connected)
<1>1. T \subseteq FiniteSubsetsOf(Connected) /\ T # {}
  <2>1. FiniteSubsetsOf(Connected) = SUBSET Connected
    BY FS_FiniteSubsetsOfFinite DEF Table
  <2>2. T \subseteq SUBSET Connected
    OBVIOUS
  <2>3. \A e \in Connected : earlier(e) \in T
    OBVIOUS
  <2> HIDE DEF T
  <2> QED
    BY <2>1, <2>2, <2>3
<1>2. IsWellFoundedOn(R, FiniteSubsetsOf(Connected))
  BY FS_StrictSubsetOrderingWellFounded
<1>3. \A X, Y \in SUBSET Connected : <<X, Y>> \in R <=> X \subseteq Y /\ X # Y
  BY DEF StrictSubsetOrdering
<1> HIDE DEF R
<1>4. \E X \in T : \A Y \in T : ~(<<Y, X>> \in R)
  <2> HIDE DEF T
  <2> QED
    BY <1>1, <1>2, WFMin
<1>5. PICK e \in Connected : \A f \in Connected : ~(<<earlier(f), earlier(e)>> \in R)
  BY <1>4
<1>6. ASSUME NEW g \in Connected \ {e}
      PROVE  Before(e, g)
  <2> SUFFICES ASSUME ~Before(e, g) PROVE FALSE
    OBVIOUS
  <2>1. Before(g, e) /\ ~Before(g, g)
    BY <1>6 DEF Table, Ordered
  <2>2. \A f \in Connected : Before(f, g) => Before(f, e)
    BY <1>6, <2>1 DEF Table, Ordered
  <2>3. /\ earlier(g) \subseteq earlier(e)
        /\ g \in earlier(e) /\ g \notin earlier(g)
    BY <1>6, <2>1, <2>2
  <2>4. <<earlier(g), earlier(e)>> \in R
    <3>1. earlier(g) \in SUBSET Connected /\ earlier(e) \in SUBSET Connected
      OBVIOUS
    <3> HIDE DEF earlier
    <3> QED
      BY <1>3, <2>3, <3>1
  <2> QED
    BY <1>5, <1>6, <2>4
<1> QED
  BY <1>6 DEF Oldest

(* A login displaces nobody, or the one session that is the oldest.        *)
LEMMA EvictedFacts ==
  ASSUME Table, NEW e \in Endpoints
  PROVE  /\ Evicted(e) \subseteq Connected /\ e \notin Evicted(e)
         /\ Evicted(e) # {} => Cardinality(Connected) = MaxSessions
         /\ \A f \in Evicted(e) : Oldest(f)
         /\ IsFiniteSet((Connected \ Evicted(e)) \cup {e})
         /\ Cardinality((Connected \ Evicted(e)) \cup {e}) <= MaxSessions
<1>1. Cardinality(Connected) \in Nat /\ Cardinality(Connected) <= MaxSessions
  BY FS_CardinalityType DEF Table
<1>2. IsFiniteSet(Connected) /\ MaxSessions \in Nat /\ MaxSessions >= 1
  BY MaxSessionsAssumption DEF Table
<1>3. CASE e \notin Connected /\ Cardinality(Connected) >= MaxSessions
  <2>1. Evicted(e) = {f \in Connected : Oldest(f)}
    BY <1>3 DEF Evicted
  <2>2. Connected # {}
    BY <1>2, <1>3, FS_EmptySet
  <2>3. PICK o \in Connected : Oldest(o)
    BY <2>2, SomeoneIsOldest
  <2>4. Evicted(e) = {o}
    BY <2>1, <2>3 DEF Oldest, Table, Ordered
  <2>5. /\ IsFiniteSet(Connected \ {o})
        /\ Cardinality(Connected \ {o}) = Cardinality(Connected) - 1
    BY <1>2, <2>3, FS_RemoveElement
  <2>6. /\ IsFiniteSet((Connected \ {o}) \cup {e})
        /\ Cardinality((Connected \ {o}) \cup {e}) = Cardinality(Connected \ {o}) + 1
    BY <1>3, <2>5, FS_AddElement
  <2>7. Cardinality((Connected \ {o}) \cup {e}) <= MaxSessions
    BY <1>1, <2>5, <2>6
  <2>8. Cardinality(Connected) = MaxSessions
    BY <1>1, <1>2, <1>3
  <2> QED
    BY <1>3, <2>1, <2>4, <2>6, <2>7, <2>8
<1>4. CASE ~(e \notin Connected /\ Cardinality(Connected) >= MaxSessions)
  <2>1. Evicted(e) = {} /\ Connected \ Evicted(e) = Connected
    BY <1>4 DEF Evicted
  <2>2. /\ IsFiniteSet(Connected \cup {e})
        /\ Cardinality(Connected \cup {e}) =
             IF e \in Connected THEN Cardinality(Connected) ELSE Cardinality(Connected) + 1
    BY <1>2, FS_AddElement
  <2>3. Cardinality(Connected \cup {e}) <= MaxSessions
    BY <1>1, <1>2, <1>4, <2>2
  <2> QED
    BY <2>1, <2>2, <2>3
<1> QED
  BY <1>3, <1>4

LEMMA TableKept ==
  ASSUME Table, TableStep
  PROVE  Table'
<1>1. ASSUME NEW gone \in SUBSET Connected, Shrinks(gone)
      PROVE  Table'
  <2>1. Connected' = Connected \ gone
    BY <1>1 DEF Shrinks
  <2>2. /\ recency' \subseteq Connected' \X Connected'
        /\ \A e, f \in Connected' : <<e, f>> \in recency' <=> <<e, f>> \in recency
    BY <1>1, <2>1 DEF Shrinks, Without, Table, Ordered
  <2>3. Ordered'
    BY <2>1, <2>2 DEF Table, Ordered, Before
  <2>4. IsFiniteSet(Connected') /\ Cardinality(Connected') <= Cardinality(Connected)
    <3>1. Connected' \in SUBSET Connected
      BY <2>1
    <3> QED
      BY <3>1, FS_Subset DEF Table
  <2>5. Cardinality(Connected') \in Nat /\ Cardinality(Connected) \in Nat
    BY <2>4, FS_CardinalityType DEF Table
  <2> QED
    BY <2>3, <2>4, <2>5, MaxSessionsAssumption DEF Table
<1>2. ASSUME NEW e \in Endpoints, Advances(e)
      PROVE  Table'
  <2> DEFINE rest == Connected \ (Evicted(e) \cup {e})
  <2>1. Connected' = rest \cup {e} /\ e \notin rest /\ rest \subseteq Connected
    BY <1>2, EvictedFacts DEF Advances
  <2>2. recency' = Without(Evicted(e) \cup {e}) \cup (rest \X {e})
    BY <1>2 DEF Advances, Active
  <2>3. recency' \subseteq Connected' \X Connected'
    BY <2>1, <2>2 DEF Without, Table, Ordered
  <2>4. \A f, g \in rest : <<f, g>> \in recency' <=> <<f, g>> \in recency
    BY <2>1, <2>2 DEF Without, Table, Ordered
  <2>5. \A f \in rest : <<f, e>> \in recency'
    BY <2>2
  <2>6. \A f \in Connected' : <<e, f>> \notin recency'
    BY <2>1, <2>2 DEF Without
  <2> HIDE DEF rest
  <2>7. \A f, g \in Connected' : f # g => (<<f, g>> \in recency' <=> <<g, f>> \notin recency')
    BY <2>1, <2>4, <2>5, <2>6 DEF Table, Ordered, Before
  <2>8. \A f \in Connected' : <<f, f>> \notin recency'
    BY <2>1, <2>4, <2>6 DEF Table, Ordered, Before
  <2>9. ASSUME NEW f \in Connected', NEW g \in Connected', NEW h \in Connected',
               <<f, g>> \in recency', <<g, h>> \in recency'
        PROVE  <<f, h>> \in recency'
    <3>1. f \in rest /\ g \in rest
      BY <2>1, <2>6, <2>9
    <3>2. CASE h = e
      BY <2>5, <3>1, <3>2
    <3>3. CASE h \in rest
      BY <2>1, <2>4, <2>9, <3>1, <3>3 DEF Table, Ordered, Before
    <3> QED
      BY <2>1, <3>2, <3>3
  <2>10. Ordered'
    BY <2>3, <2>7, <2>8, <2>9 DEF Ordered, Before
  <2>11. IsFiniteSet(Connected') /\ Cardinality(Connected') <= MaxSessions
    BY <1>2, EvictedFacts DEF Advances
  <2> QED
    BY <2>10, <2>11 DEF Table
<1>3. CASE Ends
  <2>1. Ordered'
    BY <1>3 DEF Ends, Ordered
  <2>2. IsFiniteSet(Connected') /\ Cardinality(Connected') = 0
    BY <1>3, FS_EmptySet DEF Ends
  <2> QED
    BY <2>1, <2>2, MaxSessionsAssumption DEF Table
<1> QED
  BY <1>1, <1>2, <1>3 DEF TableStep

-----------------------------------------------------------------------------
LEMMA NothingGone ==
  ASSUME Table, Connected' = Connected \/ sessions' = sessions, recency' = recency
  PROVE  TableStep
<1>1. Connected' = Connected \ {}
  BY DEF Connected
<1>2. Without({}) = recency
  BY DEF Without
<1> QED
  BY <1>1, <1>2 DEF Shrinks, TableStep

LEMMA OneGone ==
  ASSUME SessionTypes, NEW e \in Connected, RemoveSession(e),
         ~Valid(sessions[e], accounts')
  PROVE  TableStep
<1>1. Connected' = Connected \ {e} /\ recency' = Without({e})
  BY DEF RemoveSession, Connected, SessionTypes
<1> QED
  BY <1>1 DEF Shrinks, TableStep

LEMMA AnswerTable ==
  ASSUME SessionInvariant, Table, NEW c, NEW types, NEW store \in Store,
         Answer(c, types, store), accounts' = store
  PROVE  TableStep
<1>0. SessionTypes
  BY DEF SessionInvariant
<1>1. CASE UNCHANGED <<sessions, recency>>
  BY <1>1, NothingGone
<1>2. ASSUME NEW e \in Origin(c), Deliverable(sessions[e], store),
             sessions' = [sessions EXCEPT ![e] = Refreshed(sessions[e], store)],
             UNCHANGED recency
      PROVE  TableStep
  <2>1. e \in Connected /\ sessions[e] \in Session
    BY <1>0, <1>2 DEF Origin, SessionTypes, Connected
  <2>2. Refreshed(sessions[e], store) # NoSession
    BY <1>2, <2>1, RefreshedIsSession, NoSessionAssumption DEF Deliverable
  <2>3. Connected' = Connected
    BY <1>0, <1>2, <2>1, <2>2 DEF Connected, SessionTypes
  <2> QED
    BY <1>2, <2>3, NothingGone
<1>3. ASSUME NEW e \in Origin(c), ~Deliverable(sessions[e], store), RemoveSession(e)
      PROVE  TableStep
  <2>1. e \in Connected /\ ~Valid(sessions[e], accounts')
    BY <1>3 DEF Origin, Deliverable
  <2> QED
    BY <1>0, <1>3, <2>1, OneGone
<1> QED
  BY <1>1, <1>2, <1>3 DEF Answer

LEMMA StepTable ==
  ASSUME SessionInvariant, Table, [Next]_vars
  PROVE  TableStep
<1>0. /\ SessionTypes /\ accounts \in Store /\ previous \in Store
  BY DEF SessionInvariant, Invariant, TypeOK
<1>1. ASSUME UNCHANGED <<sessions, recency>>
      PROVE  TableStep
  BY <1>1, NothingGone
<1>2. ASSUME NEW e \in Endpoints, NEW id \in Ids, Login(e, id)
      PROVE  TableStep
  <2>1. LoggedInAt(e, id) # NoSession
    BY <1>2, LoggedInIsSession, NoSessionAssumption
  <2>2. /\ recency' = Active(e, Evicted(e))
        /\ \A x \in Endpoints :
             sessions'[x] = IF x = e THEN LoggedInAt(e, id)
                            ELSE IF x \in Evicted(e) \ {e} THEN NoSession ELSE sessions[x]
    BY <1>2 DEF Login
  <2>3. Evicted(e) \subseteq Connected /\ e \notin Evicted(e)
    BY EvictedFacts
  <2>4. Connected' = (Connected \ Evicted(e)) \cup {e}
    BY <2>1, <2>2, <2>3 DEF Connected
  <2> QED
    BY <2>2, <2>4 DEF Advances, TableStep
<1>3. ASSUME NEW e \in Endpoints, Disconnect(e)
      PROVE  TableStep
  <2>1. e \in Connected /\ RemoveSession(e) /\ ~Valid(sessions[e], accounts')
    BY <1>3 DEF Disconnect, accountVars
  <2> QED
    BY <1>0, <2>1, OneGone
<1>4. ASSUME NEW e \in Connected, NEW s \in Session,
             sessions' = [sessions EXCEPT ![e] = s],
             recency' \in {recency, Active(e, {})}
      PROVE  TableStep
  <2>1. e \in Endpoints /\ s # NoSession
    BY <1>4, NoSessionAssumption DEF Connected
  <2>2. Connected' = Connected
    BY <1>0, <1>4, <2>1 DEF SessionTypes, Connected
  <2>3. Evicted(e) = {} /\ Connected = (Connected \ Evicted(e)) \cup {e}
    BY <1>4 DEF Evicted
  <2>4. CASE recency' = recency
    BY <2>2, <2>4, NothingGone
  <2>5. CASE recency' = Active(e, {})
    BY <2>1, <2>2, <2>3, <2>5 DEF Advances, TableStep
  <2> QED
    BY <1>4, <2>4, <2>5
<1>5. ASSUME NEW e \in Endpoints, NEW stamp \in Stamps, AcceptAction(e, stamp)
      PROVE  TableStep
  <2>1. recency' = Active(e, {})
    BY <1>5 DEF AcceptAction
  <2>2. e \in Connected /\ \E s \in Session : sessions' = [sessions EXCEPT ![e] = s]
    BY <1>0, <1>5, AcceptActionKeeps
  <2> QED
    BY <1>4, <2>1, <2>2
<1>6. ASSUME NEW e \in Endpoints, ReceiveOther(e)
      PROVE  TableStep
  <2>1. /\ e \in Connected /\ Valid(sessions[e], accounts)
        /\ sessions' = [sessions EXCEPT ![e] = Refreshed(sessions[e], accounts)]
        /\ recency' \in {recency, Active(e, {})}
    BY <1>6 DEF ReceiveOther
  <2>2. Refreshed(sessions[e], accounts) \in Session
    <3>1. sessions[e] \in Session
      BY <1>0, <2>1 DEF SessionTypes, Connected
    <3> QED
      BY <1>0, <2>1, <3>1, RefreshedIsSession
  <2> QED
    BY <1>4, <2>1, <2>2
<1>7. CASE Broadcast
  <2> DEFINE stale == {e \in Connected : ~Valid(sessions[e], accounts)}
  <2>1. /\ accounts' = accounts /\ recency' = Without(stale)
        /\ \A e \in Endpoints : sessions'[e] = IF e \in Connected \ stale
                                               THEN Refreshed(sessions[e], accounts)
                                               ELSE NoSession
    BY <1>7 DEF Broadcast, accountVars
  <2>2. ASSUME NEW e \in Connected \ stale
        PROVE  Refreshed(sessions[e], accounts) # NoSession
    <3>1. sessions[e] \in Session /\ Valid(sessions[e], accounts)
      BY <1>0, <2>2 DEF SessionTypes, Connected
    <3> QED
      BY <1>0, <3>1, RefreshedIsSession, NoSessionAssumption
  <2>3. stale \in SUBSET Connected /\ \A e \in stale : ~Valid(sessions[e], accounts')
    BY <2>1
  <2> HIDE DEF stale
  <2>4. Connected' = Connected \ stale
    BY <2>1, <2>2 DEF Connected
  <2> QED
    BY <2>1, <2>3, <2>4 DEF Shrinks, TableStep
<1>8. ASSUME NEW c, Deny(c) \/ Moderate(c) \/ SendAccountCatalog(c) \/ Refuse(c)
      PROVE  TableStep
  <2>1. accounts' = accounts /\ \E types : Answer(c, types, accounts)
    BY <1>8 DEF Deny, Moderate, SendAccountCatalog, Refuse, accountVars
  <2> QED
    BY <1>0, <2>1, AnswerTable
<1>9. ASSUME NEW c \in executing, FinishChange(c)
      PROVE  TableStep
  <2>1. CASE Commit /\ Answer(c, {"result", "catalog"}, accounts)
    <3>1. accounts' = accounts
      BY <2>1 DEF Commit
    <3> QED
      BY <1>0, <2>1, <3>1, AnswerTable
  <2>2. CASE SaveFails /\ Answer(c, {"result"}, previous)
    <3>1. accounts' = previous
      BY <2>2 DEF SaveFails
    <3> QED
      BY <1>0, <2>2, <3>1, AnswerTable
  <2> QED
    BY <1>9, <2>1, <2>2 DEF FinishChange, FinishSave
<1>10. CASE Shutdown
  BY <1>10 DEF Shutdown, Stop, Crash, StartFails, NoSessions, Connected, Ends, TableStep
<1>11. ASSUME \/ \E id \in Ids, key \in Keys : Claim(id, key)
              \/ FinishClaim \/ BeginDrain \/ EndFrame \/ Begin \/ FinishStart \/ Time
              \/ \E c : ChangeAccounts(c)
              \/ UNCHANGED vars
       PROVE  UNCHANGED <<sessions, recency>>
  BY <1>11 DEF Claim, FinishClaim, BeginDrain, EndFrame, Begin, FinishStart, Time,
               ChangeAccounts, sessionVars, vars
<1>12. ASSUME NEW e \in Endpoints, (\E id \in Ids : LoginRefused(e, id)) \/ ClaimAgain(e)
       PROVE  UNCHANGED <<sessions, recency>>
  BY <1>12, RefusedOrRepeated DEF sessionVars
<1>13. ASSUME NEW e \in Endpoints, NEW stamp \in Stamps,
              \/ RequestCapabilities(e, stamp)
              \/ \E action \in Action : Receive(e, stamp, action)
       PROVE  AcceptAction(e, stamp)
  BY <1>13 DEF RequestCapabilities, Receive
<1>14. Poll => TableStep
  BY <1>1, <1>2, <1>3, <1>5, <1>6, <1>11, <1>12, <1>13 DEF Poll
<1>15. Drain => TableStep
  BY <1>1, <1>8, <1>9, <1>11 DEF Drain
<1>16. LifeCycle => TableStep
  BY <1>1, <1>10, <1>11 DEF LifeCycle
<1> QED
  BY <1>1, <1>7, <1>11, <1>14, <1>15, <1>16 DEF Next

LEMMA AlwaysTable == Spec => []Table
<1>1. Init => Table
  <2> SUFFICES ASSUME Init PROVE Table
    OBVIOUS
  <2>1. Connected = {} /\ recency = {}
    BY DEF Init, NoSessions, Connected
  <2>2. Ordered
    BY <2>1 DEF Ordered
  <2>3. IsFiniteSet(Connected) /\ Cardinality(Connected) = 0
    BY <2>1, FS_EmptySet
  <2> QED
    BY <2>2, <2>3, MaxSessionsAssumption DEF Table
<1>2. SessionInvariant /\ Table /\ [Next]_vars => Table'
  BY StepTable, TableKept
<1> QED
  BY <1>1, <1>2, AlwaysSessionInvariant, PTL DEF Spec

(* Whoever logs in, is removed or is revoked, and in whatever order: an    *)
(* endpoint loses its session only to its own account, to the end of the   *)
(* server, or to a full table in which it was the least recently active.   *)
THEOREM OthersStayConnected == Spec => NoCollateralDisconnect
<1>1. ASSUME SessionInvariant, Table, [Next]_vars, NEW e \in Endpoints, LosesSession(e)
      PROVE  \/ ~Valid(sessions[e], accounts')
             \/ phase' = "down"
             \/ Cardinality(Connected) = MaxSessions /\ Oldest(e)
  <2>1. e \in Connected /\ e \notin Connected'
    BY <1>1 DEF LosesSession, Connected
  <2>2. ASSUME NEW gone \in SUBSET Connected, Shrinks(gone)
        PROVE  ~Valid(sessions[e], accounts')
    BY <2>1, <2>2 DEF Shrinks
  <2>3. ASSUME NEW f \in Endpoints, Advances(f)
        PROVE  Cardinality(Connected) = MaxSessions /\ Oldest(e)
    <3>1. e \in Evicted(f)
      BY <2>1, <2>3 DEF Advances
    <3> QED
      BY <1>1, <3>1, EvictedFacts
  <2> QED
    BY <1>1, <2>2, <2>3, StepTable DEF TableStep, Ends
<1>2. SessionInvariant /\ Table /\ [Next]_vars
        => [\A e \in Endpoints : LosesSession(e) =>
              \/ ~Valid(sessions[e], accounts')
              \/ phase' = "down"
              \/ Cardinality(Connected) = MaxSessions /\ Oldest(e)]_vars
  BY <1>1
<1> QED
  BY <1>2, AlwaysSessionInvariant, AlwaysTable, PTL DEF Spec, NoCollateralDisconnect

-----------------------------------------------------------------------------
(* The limits of the queue and of a frame, and the types of the rest.      *)
Queues ==
  /\ Len(pending) <= MaxPending
  /\ executing = {} \/ \E c : executing = {c}
  /\ drains \in 0..PerFrame
  /\ setupCode \in BOOLEAN /\ claimed \subseteq Ids
  /\ sent \subseteq Reply \cup Notice /\ ran \subseteq Command

LEMMA EnqueuedLength ==
  ASSUME pending \in Seq(Command), Len(pending) <= MaxPending, NEW c \in Command
  PROVE  Len(Enqueued(c)) <= MaxPending
<1> DEFINE kept == IF Len(pending) >= MaxPending THEN Tail(pending) ELSE pending
<1>1. Len(pending) \in Nat /\ MaxPending \in Nat /\ MaxPending >= 1
  BY LenProperties, MaxPendingAssumption
<1>2. kept \in Seq(Command) /\ Len(kept) < MaxPending
  <2>1. CASE Len(pending) >= MaxPending
    <3>1. pending # <<>>
      BY <1>1, <2>1, EmptySeq
    <3>2. Tail(pending) \in Seq(Command) /\ Len(Tail(pending)) = Len(pending) - 1
      BY <3>1, HeadTailProperties
    <3> QED
      BY <1>1, <2>1, <3>2
  <2>2. CASE ~(Len(pending) >= MaxPending)
    BY <1>1, <2>2
  <2> QED
    BY <2>1, <2>2
<1>3. Enqueued(c) = Append(kept, c)
  BY DEF Enqueued
<1> HIDE DEF kept
<1>4. Len(Append(kept, c)) = Len(kept) + 1 /\ Len(kept) \in Nat
  BY <1>2, AppendProperties, LenProperties
<1> QED
  BY <1>1, <1>2, <1>3, <1>4

LEMMA AnswerTypes ==
  ASSUME SessionTypes, NEW c \in Command, NEW types \in SUBSET {"result", "catalog"},
         NEW store, Answer(c, types, store)
  PROVE  sent' \subseteq Reply
<1>1. CASE sent' = {}
  BY <1>1
<1>2. ASSUME NEW e \in Origin(c),
             sent' = [type : {t \in types : MayReceive(t, c, store)}, endpoint : {e},
                      to : {sessions[e]}, command : {c}]
      PROVE  sent' \subseteq Reply
  <2>1. e \in Endpoints /\ sessions[e] \in Session
    BY <1>2 DEF Origin, Connected, SessionTypes
  <2> QED
    BY <1>2, <2>1 DEF Reply
<1> QED
  BY <1>1, <1>2 DEF Answer

(* Taking a command shortens the queue and uses up one turn of the frame.  *)
LEMMA TakenTypes ==
  ASSUME SessionTypes, Queues, NEW c, TakeAdminAction(c)
  PROVE  /\ c \in Command
         /\ Len(pending') <= MaxPending /\ drains' \in 0..PerFrame
         /\ UNCHANGED <<setupCode, claimed>>
<1>1. /\ pending # <<>> /\ c = Head(pending) /\ pending' = Tail(pending)
      /\ drains > 0 /\ drains' = drains - 1 /\ UNCHANGED <<setupCode, claimed>>
  BY DEF TakeAdminAction, Draining, setupVars
<1>2. c \in Command
  BY <1>1, HeadIsCommand
<1>3. Len(pending) \in Nat /\ Len(pending') = Len(pending) - 1
  BY <1>1, HeadTailProperties, LenProperties DEF SessionTypes
<1>4. Len(pending') <= MaxPending
  BY <1>3, MaxPendingAssumption DEF Queues
<1>5. drains' \in 0..PerFrame
  BY <1>1, PerFrameAssumption DEF Queues
<1> QED
  BY <1>1, <1>2, <1>4, <1>5

LEMMA PollQueues ==
  ASSUME SessionInvariant, Queues, Poll
  PROVE  Queues'
<1>0. SessionTypes /\ accounts \in Store /\ sent' \subseteq Notice /\ ran' = {}
  BY PollNotices DEF SessionInvariant, Invariant, TypeOK
<1>1. ASSUME NEW e \in Endpoints, NEW id \in Ids, Login(e, id)
      PROVE  Queues'
  <2>1. UNCHANGED <<pending, executing, drains>> /\ SetupAfterLogin(id)
    BY <1>1 DEF Login
  <2> QED
    BY <1>0, <2>1 DEF Queues, SetupAfterLogin, setupVars
<1>2. ASSUME NEW e \in Endpoints, NEW stamp \in Stamps, NEW action \in Action,
             Receive(e, stamp, action)
      PROVE  Queues'
  <2> DEFINE s == Refreshed(sessions[e], accounts)
             c == [session |-> s.id, account |-> s.account, action |-> action,
                   authorized |-> PermissionForAction(action) \in s.permissions,
                   endpoint |-> e]
  <2>1. /\ AcceptAction(e, stamp) /\ pending' = Enqueued(c)
        /\ UNCHANGED <<executing, drains, setupCode, claimed>>
    BY <1>2 DEF Receive, AcceptAction, setupVars
  <2>2. s \in Session /\ s.account = sessions[e].account
    BY <1>0, <2>1, AcceptActionKeeps
  <2>3. c \in Command
    BY <2>2 DEF Command, Session
  <2> HIDE DEF c
  <2>4. Len(pending') <= MaxPending
    BY <1>0, <2>1, <2>3, EnqueuedLength DEF SessionTypes, Queues
  <2> QED
    BY <1>0, <2>1, <2>4 DEF Queues
<1>3. CASE FinishClaim
  <2>1. /\ UNCHANGED <<pending, executing, drains, setupCode>>
        /\ claimed' \in {claimed, Members(accounts)}
    BY <1>3 DEF FinishClaim
  <2> QED
    BY <1>0, <2>1 DEF Queues, Members
<1>4. ASSUME UNCHANGED <<pending, executing, drains, setupCode, claimed>>
      PROVE  Queues'
  BY <1>0, <1>4 DEF Queues
<1>5. ASSUME \/ \E e \in Endpoints : Disconnect(e) \/ ReceiveOther(e)
             \/ \E e \in Endpoints, stamp \in Stamps : RequestCapabilities(e, stamp)
             \/ \E id \in Ids, key \in Keys : Claim(id, key)
      PROVE  UNCHANGED <<pending, executing, drains, setupCode, claimed>>
  BY <1>5 DEF Disconnect, ReceiveOther, RequestCapabilities, AcceptAction, Claim, setupVars
<1>6. ASSUME NEW e \in Endpoints, (\E id \in Ids : LoginRefused(e, id)) \/ ClaimAgain(e)
      PROVE  UNCHANGED <<pending, executing, drains, setupCode, claimed>>
  BY <1>6, RefusedOrRepeated DEF setupVars
<1> QED
  BY <1>1, <1>2, <1>3, <1>4, <1>5, <1>6 DEF Poll

LEMMA DrainQueues ==
  ASSUME SessionInvariant, Queues, Drain
  PROVE  Queues'
<1>0. SessionTypes
  BY DEF SessionInvariant
<1>1. CASE BeginDrain \/ EndFrame
  <2>1. /\ sent' = {} /\ ran' = {} /\ drains' \in {0, PerFrame}
        /\ UNCHANGED <<pending, executing, setupCode, claimed>>
    BY <1>1 DEF BeginDrain, EndFrame, Quiet, setupVars
  <2> QED
    BY <2>1, PerFrameAssumption DEF Queues
<1>2. ASSUME NEW c, Deny(c) \/ Moderate(c) \/ SendAccountCatalog(c) \/ Refuse(c)
      PROVE  Queues'
  <2>1. /\ TakeAdminAction(c) /\ ran' \in {{}, {c}} /\ UNCHANGED executing
        /\ \E types \in SUBSET {"result", "catalog"} : Answer(c, types, accounts)
    BY <1>2 DEF Deny, Moderate, SendAccountCatalog, Refuse
  <2>2. /\ c \in Command
        /\ Len(pending') <= MaxPending /\ drains' \in 0..PerFrame
        /\ UNCHANGED <<setupCode, claimed>>
    BY <1>0, <2>1, TakenTypes
  <2>3. sent' \subseteq Reply
    BY <1>0, <2>1, <2>2, AnswerTypes
  <2> QED
    BY <2>1, <2>2, <2>3 DEF Queues
<1>3. ASSUME NEW c, ChangeAccounts(c)
      PROVE  Queues'
  <2>1. TakeAdminAction(c) /\ ran' = {c} /\ sent' = {} /\ executing' = {c}
    BY <1>3 DEF ChangeAccounts
  <2>2. /\ c \in Command
        /\ Len(pending') <= MaxPending /\ drains' \in 0..PerFrame
        /\ UNCHANGED <<setupCode, claimed>>
    BY <1>0, <2>1, TakenTypes
  <2> QED
    BY <2>1, <2>2 DEF Queues
<1>4. ASSUME NEW c \in executing, FinishChange(c)
      PROVE  Queues'
  <2>1. /\ ran' = {} /\ executing' = {}
        /\ UNCHANGED <<pending, drains, setupCode, claimed>>
        /\ \E types \in SUBSET {"result", "catalog"} : \E store : Answer(c, types, store)
    BY <1>4 DEF FinishChange, FinishSave, setupVars
  <2>2. sent' \subseteq Reply
    BY <1>0, <2>1, AnswerTypes DEF SessionTypes
  <2> QED
    BY <2>1, <2>2 DEF Queues
<1> QED
  BY <1>1, <1>2, <1>3, <1>4 DEF Drain

LEMMA StepQueues ==
  ASSUME SessionInvariant, Queues, [Next]_vars
  PROVE  Queues'
<1>1. CASE Broadcast \/ Begin \/ Time
  <2>1. /\ sent' = {} /\ ran' = {}
        /\ UNCHANGED <<pending, executing, drains, setupCode, claimed>>
    BY <1>1 DEF Broadcast, Begin, Time, Quiet, setupVars
  <2> QED
    BY <2>1 DEF Queues
<1>2. CASE FinishStart
  <2>1. /\ sent' = {} /\ ran' = {} /\ setupCode' \in BOOLEAN
        /\ UNCHANGED <<pending, executing, drains, claimed>>
    BY <1>2 DEF FinishStart, Quiet
  <2> QED
    BY <2>1 DEF Queues
<1>3. CASE Shutdown
  <2>1. /\ sent' = {} /\ ran' = {} /\ pending' = <<>> /\ executing' = {}
        /\ drains' = 0 /\ setupCode' = FALSE /\ claimed' = {}
    BY <1>3 DEF Shutdown, Quiet
  <2>2. Len(pending') <= MaxPending /\ drains' \in 0..PerFrame
    BY <2>1, EmptySeq, MaxPendingAssumption, PerFrameAssumption
  <2> QED
    BY <2>1, <2>2 DEF Queues
<1>4. CASE UNCHANGED vars
  <2>1. UNCHANGED <<pending, executing, drains, setupCode, claimed, sent, ran>>
    BY <1>4 DEF vars, setupVars, history
  <2> QED
    BY <2>1 DEF Queues
<1> QED
  BY <1>1, <1>2, <1>3, <1>4, PollQueues, DrainQueues DEF Next, LifeCycle

LEMMA AlwaysQueues == Spec => []Queues
<1>1. Init => Queues
  <2> SUFFICES ASSUME Init PROVE Queues
    OBVIOUS
  <2>1. Len(pending) <= MaxPending /\ drains \in 0..PerFrame
    BY EmptySeq, MaxPendingAssumption, PerFrameAssumption DEF Init
  <2> QED
    BY <2>1 DEF Init, Queues
<1>2. SessionInvariant /\ Queues /\ [Next]_vars => Queues'
  BY StepQueues
<1> QED
  BY <1>1, <1>2, AlwaysSessionInvariant, PTL DEF Spec

(* Every variable keeps its type, the table and the queue their limits,    *)
(* and the order of activity stays a strict order of the sessions, so that *)
(* the one to be pushed out is always determined.                          *)
THEOREM SessionsTypeCorrect == Spec => []SessionsTypeOK
<1>1. SessionInvariant /\ Table /\ Queues => SessionsTypeOK
  <2> SUFFICES ASSUME SessionInvariant, Table, Queues PROVE SessionsTypeOK
    OBVIOUS
  <2>1. Cardinality(executing) <= 1
    <3>1. CASE executing = {}
      BY <3>1, FS_EmptySet
    <3>2. CASE \E c : executing = {c}
      <4>1. PICK c : executing = {c}
        BY <3>2
      <4>2. Cardinality({c}) = 1
        BY FS_Singleton
      <4> QED
        BY <4>1, <4>2
    <3> QED
      BY <3>1, <3>2 DEF Queues
  <2> QED
    BY <2>1 DEF SessionsTypeOK, SessionInvariant, Invariant, SessionTypes, Table, Queues
<1> QED
  BY <1>1, AlwaysSessionInvariant, AlwaysTable, AlwaysQueues, PTL

-----------------------------------------------------------------------------
(* The commands that wait.  Nothing is checked again when one is carried   *)
(* out, so that it matters what was checked before and how long ago.  An   *)
(* account is in force as RefreshSession sees it.                          *)
InForce(id) ==
  LET a == accounts[id] IN a # NoAccount /\ a.enabled /\ ~Expired(a)

(* A command that enters the queue: its account is in force, and what it   *)
(* carries as its permission is what the account may do now.               *)
EntersNow(c) ==
  /\ Polling
  /\ InForce(c.account)
  /\ c.authorized <=> PermissionForAction(c.action) \in accounts[c.account].permissions

(* The commands move forward together, by a place when the first is taken  *)
(* or, from a full queue, forgotten; a new one comes last.                 *)
MoveForward(places) ==
  /\ \A i \in DOMAIN pending :
       i > places => i - places \in DOMAIN pending' /\ pending'[i - places] = pending[i]
  /\ \A j \in DOMAIN pending' :
       j + places \notin DOMAIN pending => j = Len(pending') /\ EntersNow(pending'[j])
  /\ ran' # {} => places = 1

TakeTurns ==
  /\ \A c \in ran' : pending # <<>> /\ c = Head(pending) /\ c.authorized
  /\ \/ phase' = "down" /\ pending' = <<>>
     \/ MoveForward(0) /\ drains' \in {0, drains, PerFrame}
     \/ MoveForward(1) /\ drains > 0 /\ drains' = drains - 1
     \/ MoveForward(1) /\ Polling /\ Len(pending) = MaxPending

(* What a frame has left to do: a command may be taken and then be saved.  *)
DrainWork == 2 * drains + IF executing = {} THEN 0 ELSE 1

DrainAdvances ==
  DrainWork > 0 => /\ DrainWork' <= DrainWork
                   /\ Drain => DrainWork' < DrainWork
                   /\ ~Poll

DrainIsShort == DrainWork \in 0..(2 * PerFrame)

LEMMA NothingMoves ==
  ASSUME pending \in Seq(Command), pending' = pending, ran' = {}
  PROVE  MoveForward(0)
<1>1. Len(pending) \in Nat /\ DOMAIN pending = 1..Len(pending)
  BY LenProperties
<1>2. \A i \in DOMAIN pending : i - 0 = i /\ i + 0 = i
  BY <1>1
<1> QED
  BY <1>1, <1>2 DEF MoveForward

LEMMA TakenMoves ==
  ASSUME pending \in Seq(Command), pending # <<>>, pending' = Tail(pending)
  PROVE  MoveForward(1)
<1>1. /\ Len(pending) \in Nat /\ DOMAIN pending = 1..Len(pending)
      /\ DOMAIN pending' = 1..(Len(pending) - 1)
      /\ \A i \in 1..(Len(pending) - 1) : pending'[i] = pending[i + 1]
  BY HeadTailProperties, LenProperties
<1>2. ASSUME NEW i \in DOMAIN pending, i > 1
      PROVE  i - 1 \in DOMAIN pending' /\ pending'[i - 1] = pending[i]
  <2>1. i - 1 \in 1..(Len(pending) - 1) /\ (i - 1) + 1 = i
    BY <1>1, <1>2
  <2> QED BY <1>1, <2>1
<1>3. \A j \in DOMAIN pending' : j + 1 \in DOMAIN pending
  BY <1>1
<1> QED
  BY <1>2, <1>3 DEF MoveForward

LEMMA AtMost == \A a, b \in Nat : a <= b => a < b \/ a = b
OBVIOUS

LEMMA EnteredMoves ==
  ASSUME pending \in Seq(Command), Len(pending) <= MaxPending, NEW c \in Command, EntersNow(c),
         pending' = Enqueued(c), ran' = {}
  PROVE  MoveForward(0) \/ (MoveForward(1) /\ Len(pending) = MaxPending)
<1>1. /\ Len(pending) \in Nat /\ DOMAIN pending = 1..Len(pending)
      /\ MaxPending \in Nat /\ MaxPending >= 1
  BY LenProperties, MaxPendingAssumption
<1>2. CASE Len(pending) < MaxPending
  <2>1. pending' = Append(pending, c)
    BY <1>1, <1>2 DEF Enqueued
  <2>2. /\ DOMAIN pending' = 1..(Len(pending) + 1) /\ Len(pending') = Len(pending) + 1
        /\ pending'[Len(pending) + 1] = c
        /\ \A i \in 1..Len(pending) : pending'[i] = pending[i]
    BY <2>1, AppendProperties, LenProperties
  <2>3. \A i \in DOMAIN pending : i - 0 \in DOMAIN pending' /\ pending'[i - 0] = pending[i]
    BY <1>1, <2>2
  <2>4. \A j \in DOMAIN pending' : j + 0 \notin DOMAIN pending => j = Len(pending) + 1
    BY <1>1, <2>2
  <2> QED
    BY <2>2, <2>3, <2>4 DEF MoveForward
<1>3. CASE Len(pending) = MaxPending
  <2> DEFINE kept == Tail(pending)
             n == Len(pending)
  <2>1. pending' = Append(kept, c)
    BY <1>1, <1>3 DEF Enqueued
  <2>2. pending # <<>>
    BY <1>1, <1>3, EmptySeq
  <2>3. /\ kept \in Seq(Command) /\ Len(kept) = n - 1
        /\ \A i \in 1..(n - 1) : kept[i] = pending[i + 1]
    BY <2>2, HeadTailProperties
  <2> HIDE DEF kept
  <2>4. /\ pending' \in Seq(Command) /\ Len(pending') = Len(kept) + 1
        /\ pending'[Len(kept) + 1] = c
        /\ \A i \in 1..Len(kept) : pending'[i] = kept[i]
    BY <2>1, <2>3, AppendProperties
  <2>5. /\ DOMAIN pending' = 1..n /\ Len(pending') = n /\ pending'[n] = c
        /\ \A i \in 1..(n - 1) : pending'[i] = pending[i + 1]
    <3>1. Len(kept) + 1 = n
      BY <1>1, <2>3
    <3> QED BY <2>3, <2>4, <3>1, LenProperties
  <2>6. ASSUME NEW i \in DOMAIN pending, i > 1
        PROVE  i - 1 \in DOMAIN pending' /\ pending'[i - 1] = pending[i]
    <3>1. i - 1 \in 1..(n - 1) /\ (i - 1) + 1 = i
      BY <1>1, <2>6
    <3> QED BY <1>1, <2>5, <3>1
  <2>7. \A j \in DOMAIN pending' : j + 1 \notin DOMAIN pending => j = n
    BY <1>1, <2>5
  <2>8. ASSUME NEW j \in DOMAIN pending', j + 1 \notin DOMAIN pending
        PROVE  j = Len(pending') /\ EntersNow(pending'[j])
    <3>1. j = n /\ pending'[j] = c
      BY <2>5, <2>7, <2>8
    <3> QED BY <2>5, <3>1
  <2>9. \A i \in DOMAIN pending :
          i > 1 => i - 1 \in DOMAIN pending' /\ pending'[i - 1] = pending[i]
    BY <2>6
  <2>10. MoveForward(1)
    BY <2>8, <2>9 DEF MoveForward
  <2> QED
    BY <1>3, <2>10
<1>4. Len(pending) < MaxPending \/ Len(pending) = MaxPending
  BY <1>1, AtMost
<1> QED
  BY <1>2, <1>3, <1>4

LEMMA CommandsMove ==
  ASSUME SessionInvariant, Queues, Next
  PROVE  TakeTurns
<1>0. SessionTypes /\ pending \in Seq(Command) /\ accounts \in Store
  BY DEF SessionInvariant, SessionTypes, Invariant, TypeOK
<1>1. ASSUME pending' = pending, ran' = {}, drains' \in {0, drains, PerFrame}
      PROVE  TakeTurns
  BY <1>0, <1>1, NothingMoves DEF TakeTurns
<1>2. ASSUME NEW c, TakeAdminAction(c), ran' = {} \/ (ran' = {c} /\ c.authorized)
      PROVE  TakeTurns
  <2>1. /\ pending # <<>> /\ c = Head(pending) /\ pending' = Tail(pending)
        /\ drains > 0 /\ drains' = drains - 1
    BY <1>2 DEF TakeAdminAction, Draining
  <2>2. MoveForward(1)
    BY <1>0, <2>1, TakenMoves
  <2> QED
    BY <1>2, <2>1, <2>2 DEF TakeTurns
<1>3. ASSUME NEW e \in Endpoints, NEW stamp \in Stamps, NEW action \in Action,
             Receive(e, stamp, action)
      PROVE  TakeTurns
  <2> DEFINE s == Refreshed(sessions[e], accounts)
             c == [session |-> s.id, account |-> s.account, action |-> action,
                   authorized |-> PermissionForAction(action) \in s.permissions,
                   endpoint |-> e]
  <2>1. /\ AcceptAction(e, stamp) /\ Polling /\ drains' = drains
        /\ pending' = Enqueued(c) /\ ran' = {}
    BY <1>3 DEF Receive, AcceptAction, Quiet
  <2>2. /\ e \in Connected /\ Valid(sessions[e], accounts)
        /\ s \in Session /\ s.account = sessions[e].account
    BY <1>0, <2>1, AcceptActionKeeps
  <2>3. s.permissions = accounts[sessions[e].account].permissions
    <3>1. sessions[e] \in Session
      BY <1>0, <2>2 DEF SessionTypes, Connected
    <3> QED
      BY <3>1 DEF Refreshed, Session
  <2>4. c \in Command
    BY <2>2 DEF Command, Session
  <2>5. EntersNow(c)
    BY <2>1, <2>2, <2>3 DEF EntersNow, InForce, Valid
  <2> HIDE DEF c
  <2>6. MoveForward(0) \/ (MoveForward(1) /\ Len(pending) = MaxPending)
    BY <1>0, <2>1, <2>4, <2>5, EnteredMoves DEF Queues
  <2> QED
    BY <2>1, <2>6 DEF TakeTurns
<1>4. CASE Poll
  <2>1. ran' = {}
    BY <1>4, PollNotices
  <2>2. ASSUME NEW e \in Endpoints, NEW id \in Ids, Login(e, id)
        PROVE  pending' = pending /\ drains' = drains
    BY <2>2 DEF Login
  <2>3. ASSUME \/ \E e \in Endpoints : Disconnect(e) \/ ReceiveOther(e)
               \/ \E e \in Endpoints, stamp \in Stamps : RequestCapabilities(e, stamp)
               \/ \E id \in Ids, key \in Keys : Claim(id, key)
               \/ FinishClaim
        PROVE  pending' = pending /\ drains' = drains
    BY <2>3 DEF Disconnect, ReceiveOther, RequestCapabilities, AcceptAction, Claim,
                FinishClaim
  <2>4. ASSUME NEW e \in Endpoints, (\E id \in Ids : LoginRefused(e, id)) \/ ClaimAgain(e)
        PROVE  pending' = pending /\ drains' = drains
    BY <2>4, RefusedOrRepeated
  <2> QED
    BY <1>1, <1>3, <1>4, <2>1, <2>2, <2>3, <2>4 DEF Poll
<1>5. CASE Drain
  <2>1. CASE BeginDrain \/ EndFrame
    BY <1>1, <2>1 DEF BeginDrain, EndFrame, Quiet
  <2>2. ASSUME NEW c, Deny(c) \/ Moderate(c) \/ SendAccountCatalog(c) \/ Refuse(c)
        PROVE  TakeTurns
    BY <1>2, <2>2 DEF Deny, Moderate, SendAccountCatalog, Refuse
  <2>3. ASSUME NEW c, ChangeAccounts(c)
        PROVE  TakeTurns
    BY <1>2, <2>3 DEF ChangeAccounts
  <2>4. ASSUME NEW c, FinishChange(c)
        PROVE  TakeTurns
    BY <1>1, <2>4 DEF FinishChange
  <2> QED
    BY <1>5, <2>1, <2>2, <2>3, <2>4 DEF Drain
<1>6. CASE Broadcast \/ Begin \/ Time
  BY <1>1, <1>6 DEF Broadcast, Begin, Time, Quiet
<1>7. CASE FinishStart
  BY <1>1, <1>7 DEF FinishStart, Quiet
<1>8. CASE Shutdown
  BY <1>8 DEF Shutdown, Quiet, TakeTurns, Stop, Crash, StartFails
<1> QED
  BY <1>4, <1>5, <1>6, <1>7, <1>8 DEF Next, LifeCycle

(* A command waits behind no more than MaxPending others, and every        *)
(* command that is taken brings it nearer.  What is carried out was sent   *)
(* by an account that was in force with the right to do it when it was     *)
(* queued.  So of an account that is revoked (RevokedAccountsStop) only    *)
(* what waited already is still carried out: no other command of it comes. *)
THEOREM CommandsTakeTurns == Spec => [][TakeTurns]_vars
<1>1. SessionInvariant /\ Queues /\ Next => TakeTurns
  BY CommandsMove
<1> QED
  BY <1>1, AlwaysSessionInvariant, AlwaysQueues, PTL DEF Spec

(* A command is being saved only during a write, a frame writes nothing    *)
(* else, and the command that is saved was one of those it may take.       *)
Busy ==
  /\ executing # {} => phase = "saving" /\ drains < PerFrame
  /\ phase = "saving" /\ executing = {} => drains = 0
  /\ phase \in {"down", "starting"} => drains = 0

LEMMA NothingElseMeanwhile ==
  ASSUME Queues, Busy, DrainWork > 0
  PROVE  ~Poll
<1>1. drains # 0 \/ executing # {}
  BY DEF DrainWork
<1>2. ~Polling /\ ~FinishClaim
  BY <1>1 DEF Busy, Polling, FinishClaim
<1> QED
  BY <1>2 DEF Poll, Login, LoginRefused, ClaimAgain, Disconnect, Receive,
              RequestCapabilities, AcceptAction, ReceiveOther, Claim

LEMMA SavesBegin ==
  ASSUME NEW c, StartChange(c)
  PROVE  phase = "ready" /\ phase' = "saving"
<1>1. ASSUME NEW request, NEW actor, Upsert(request, actor)
      PROVE  phase = "ready" /\ phase' = "saving"
  BY <1>1 DEF Upsert, Create, Edit, Save
<1>2. ASSUME NEW id, NEW actor, Remove(id, actor)
      PROVE  phase = "ready" /\ phase' = "saving"
  BY <1>2 DEF Remove, Save
<1> QED
  BY <1>1, <1>2 DEF StartChange

LEMMA DrainsForward ==
  ASSUME Queues, Busy, Drain
  PROVE  Busy' /\ (DrainWork > 0 => DrainWork' < DrainWork)
<1>0. /\ PerFrame \in Nat /\ PerFrame >= 1
      /\ drains \in Nat /\ drains <= PerFrame
  BY PerFrameAssumption DEF Queues
<1>1. CASE BeginDrain
  <2>1. /\ phase = "ready" /\ phase' = "ready" /\ drains = 0 /\ executing' = executing
    BY <1>1 DEF BeginDrain, Polling, accountVars
  <2>2. executing = {}
    BY <2>1 DEF Busy
  <2> QED
    BY <2>1, <2>2 DEF Busy, DrainWork
<1>2. CASE EndFrame
  <2>1. /\ phase = "ready" /\ phase' = "ready" /\ drains > 0 /\ drains' = 0
        /\ executing' = executing
    BY <1>2 DEF EndFrame, accountVars
  <2>2. executing = {}
    BY <2>1 DEF Busy
  <2> QED
    BY <1>0, <2>1, <2>2 DEF Busy, DrainWork
<1>3. ASSUME NEW c, Deny(c) \/ Moderate(c) \/ SendAccountCatalog(c) \/ Refuse(c)
      PROVE  Busy' /\ (DrainWork > 0 => DrainWork' < DrainWork)
  <2>1. /\ TakeAdminAction(c) /\ phase' = phase /\ executing' = executing
    BY <1>3 DEF Deny, Moderate, SendAccountCatalog, Refuse, accountVars
  <2>2. phase = "ready" /\ drains > 0 /\ drains' = drains - 1
    BY <2>1 DEF TakeAdminAction, Draining
  <2>3. executing = {}
    BY <2>2 DEF Busy
  <2> QED
    BY <1>0, <2>1, <2>2, <2>3 DEF Busy, DrainWork
<1>4. ASSUME NEW c, ChangeAccounts(c)
      PROVE  Busy' /\ (DrainWork > 0 => DrainWork' < DrainWork)
  <2>1. TakeAdminAction(c) /\ StartChange(c) /\ executing' = {c}
    BY <1>4 DEF ChangeAccounts
  <2>2. /\ phase = "ready" /\ drains > 0 /\ drains' = drains - 1
        /\ phase' = "saving"
    BY <2>1, SavesBegin DEF TakeAdminAction, Draining
  <2>3. executing = {} /\ executing' # {}
    BY <2>1, <2>2 DEF Busy
  <2> QED
    BY <1>0, <2>1, <2>2, <2>3 DEF Busy, DrainWork
<1>5. ASSUME NEW c \in executing, FinishChange(c)
      PROVE  Busy' /\ (DrainWork > 0 => DrainWork' < DrainWork)
  <2>1. /\ phase' = "ready" /\ executing # {} /\ executing' = {} /\ drains' = drains
    BY <1>5 DEF FinishChange, FinishSave, Commit, SaveFails
  <2> QED
    BY <1>0, <2>1 DEF Busy, DrainWork
<1> QED
  BY <1>1, <1>2, <1>3, <1>4, <1>5 DEF Drain

LEMMA OthersWait ==
  ASSUME Queues, Busy, [Next]_vars, ~Drain
  PROVE  Busy' /\ (DrainWork > 0 => DrainWork' <= DrainWork)
<1>0. /\ PerFrame \in Nat /\ drains \in Nat /\ DrainWork \in Nat
  BY PerFrameAssumption DEF Queues, DrainWork
<1>1. CASE Poll
  <2>1. ~(DrainWork > 0)
    BY <1>1, NothingElseMeanwhile
  <2>2. drains = 0 /\ executing = {}
    BY <1>0, <2>1 DEF DrainWork
  <2>3. executing' = executing /\ drains' = drains
    <3>1. CASE FinishClaim
      BY <3>1 DEF FinishClaim
    <3>2. CASE ~FinishClaim
      BY <1>1, <3>2 DEF Poll, Login, LoginRefused, ClaimAgain, Disconnect, Receive,
                        RequestCapabilities, AcceptAction, ReceiveOther, Claim
    <3> QED BY <3>1, <3>2
  <2> QED
    BY <2>1, <2>2, <2>3 DEF Busy
<1>2. CASE Broadcast \/ Begin \/ Time \/ FinishStart \/ UNCHANGED vars
  <2>1. executing' = executing /\ drains' = drains
    BY <1>2 DEF Broadcast, Begin, Time, FinishStart, vars
  <2>2. \/ phase' = phase
        \/ phase \in {"down", "starting"} /\ phase' \in {"starting", "ready"}
    <3>1. CASE Broadcast \/ Time \/ UNCHANGED vars
      BY <3>1 DEF Broadcast, Time, Tick, vars, accountVars
    <3>2. CASE Begin \/ FinishStart
      BY <3>2 DEF Begin, FinishStart, LoadNothing, LoadDocument, Commit
    <3> QED BY <1>2, <3>1, <3>2
  <2>3. DrainWork' = DrainWork
    BY <2>1 DEF DrainWork
  <2> QED
    BY <1>0, <2>1, <2>2, <2>3 DEF Busy
<1>3. CASE Shutdown
  <2>1. phase' = "down" /\ executing' = {} /\ drains' = 0
    BY <1>3 DEF Shutdown, Stop, Crash, StartFails
  <2>2. DrainWork' = 0
    BY <2>1 DEF DrainWork
  <2> QED
    BY <1>0, <2>1, <2>2 DEF Busy
<1> QED
  BY <1>1, <1>2, <1>3 DEF Next, LifeCycle

(* A frame that takes commands comes to its end: it has at most PerFrame   *)
(* to take, every step of it does a part of that, also when the save that  *)
(* it waits for fails, and nothing is received meanwhile that could make   *)
(* the frame longer.                                                       *)
THEOREM DrainsEnd == Spec => []DrainIsShort /\ [][DrainAdvances]_vars
<1>1. Init => Busy
  BY DEF Init, AccountsInit, Busy
<1>2. Queues /\ Busy /\ [Next]_vars => Busy'
  BY DrainsForward, OthersWait
<1>3. Queues /\ Queues' /\ Busy /\ Next => DrainAdvances
  <2> SUFFICES ASSUME Queues, Queues', Busy, Next, DrainWork > 0
               PROVE  /\ DrainWork' <= DrainWork
                      /\ Drain => DrainWork' < DrainWork
                      /\ ~Poll
    BY DEF DrainAdvances
  <2>1. ~Poll
    BY NothingElseMeanwhile
  <2>2. Drain => DrainWork' < DrainWork
    BY DrainsForward
  <2>3. ~Drain => DrainWork' <= DrainWork
    BY OthersWait
  <2>4. DrainWork \in Int /\ DrainWork' \in Int
    BY PerFrameAssumption DEF Queues, DrainWork
  <2> QED
    BY <2>1, <2>2, <2>3, <2>4
<1>4. Queues /\ Busy => DrainIsShort
  <2> SUFFICES ASSUME Queues, Busy PROVE DrainIsShort
    OBVIOUS
  <2>1. drains \in Nat /\ drains <= PerFrame /\ PerFrame \in Nat
    BY PerFrameAssumption DEF Queues
  <2>2. CASE executing = {}
    BY <2>1, <2>2 DEF DrainIsShort, DrainWork
  <2>3. CASE executing # {}
    BY <2>1, <2>3 DEF DrainIsShort, DrainWork, Busy
  <2> QED BY <2>2, <2>3
<1> QED
  BY <1>1, <1>2, <1>3, <1>4, AlwaysQueues, PTL DEF Spec

=============================================================================
