-------------------------- MODULE TransportProofs --------------------------
(***************************************************************************)
(* What Transport guarantees for every queue capacity, every set of peers  *)
(* and slots and every number of calls.                                    *)
(***************************************************************************)
EXTENDS TransportRefinement, SequenceLemmas

USE MaxPendingAssumption, MaxSerialAssumption, NoDescriptorAssumption, NoPacketAssumption

-----------------------------------------------------------------------------
(* How each critical section changes the deque, element by element.        *)

LEMMA CoalesceEffect ==
  ASSUME queue \in Seq(Packet), NEW p \in Packet, Coalesce(p)
  PROVE  /\ queue' \in Seq(Packet)
         /\ Len(queue') = Len(queue)
         /\ IsPosition(p)
         /\ \E i \in 1..Len(queue) :
               /\ IsTwin(i, p)
               /\ \A k \in 1..Len(queue) : queue'[k] = IF k = i THEN p ELSE queue[k]
<1>0. DOMAIN queue = 1..Len(queue)
  BY LenProperties
<1>1. PICK i \in 1..Len(queue) : IsTwin(i, p) /\ queue' = [queue EXCEPT ![i] = p]
  BY <1>0 DEF Coalesce, ReplaceAt
<1> QED
  BY <1>1, ExceptSeq DEF Coalesce, HasTwin

LEMMA PushEffect ==
  ASSUME queue \in Seq(Packet), NEW p \in Packet, Push(p)
  PROVE  /\ queue' \in Seq(Packet)
         /\ Len(queue') = Len(queue) + 1
         /\ queue'[Len(queue) + 1] = p
         /\ \A k \in 1..Len(queue) : queue'[k] = queue[k]
<1>1. queue' = Append(queue, p)
  BY DEF Push
<1> QED
  BY <1>1, LenProperties, AppendProperties

LEMMA DisplaceEffect ==
  ASSUME queue \in Seq(Packet), NEW p \in Packet, Displace(p)
  PROVE  /\ queue' \in Seq(Packet)
         /\ Len(queue') = Len(queue)
         /\ \E i \in 1..Len(queue) :
               /\ IsPosition(queue[i])
               /\ \A k \in 1..Len(queue) :
                     queue'[k] = IF k < i THEN queue[k]
                                 ELSE IF k < Len(queue) THEN queue[k + 1] ELSE p
<1>0. Len(queue) \in Nat /\ DOMAIN queue = 1..Len(queue)
  BY LenProperties
<1>1. PICK i \in 1..Len(queue) :
         IsPosition(queue[i]) /\ queue' = Append(RemoveAt(queue, i), p)
  BY <1>0 DEF Displace
<1> DEFINE rest == RemoveAt(queue, i)
<1>2. /\ rest \in Seq(Packet)
      /\ Len(rest) = Len(queue) - 1
      /\ \A k \in 1..(Len(queue) - 1) : rest[k] = IF k < i THEN queue[k] ELSE queue[k + 1]
  BY RemoveAtProperties
<1> HIDE DEF rest
<1> DEFINE new == Append(rest, p)
<1>3. /\ new \in Seq(Packet)
      /\ Len(new) = Len(rest) + 1
      /\ \A k \in 1..Len(rest) : new[k] = rest[k]
      /\ new[Len(rest) + 1] = p
  BY <1>2, AppendProperties
<1>4. queue' = new
  BY <1>1 DEF rest
<1> HIDE DEF new
<1>5. \A k \in 1..Len(queue) :
         new[k] = IF k < i THEN queue[k]
                  ELSE IF k < Len(queue) THEN queue[k + 1] ELSE p
  BY <1>0, <1>2, <1>3
<1>6. Len(new) = Len(queue)
  BY <1>0, <1>2, <1>3
<1> QED
  BY <1>1, <1>3, <1>4, <1>5, <1>6

LEMMA TakeEffect ==
  ASSUME queue \in Seq(Packet), Take
  PROVE  /\ queue' \in Seq(Packet)
         /\ queue # <<>>
         /\ Len(queue) \in Nat \ {0}
         /\ Len(queue') = Len(queue) - 1
         /\ hand' = queue[1] /\ hand' \in Packet
         /\ \A k \in 1..(Len(queue) - 1) : queue'[k] = queue[k + 1]
<1>1. queue # <<>> /\ queue' = Tail(queue) /\ hand' = Head(queue)
  BY DEF Take
<1>2. Head(queue) = queue[1]
  OBVIOUS
<1> QED
  BY <1>1, <1>2, HeadTailProperties, EmptySeq

-----------------------------------------------------------------------------
(* Types and the capacity.                                                 *)

NewPacket(t, e, s) ==
  [type |-> t, endpoint |-> e, slot |-> s, serial |-> serial + 1]

LEMMA NewPacketType ==
  ASSUME TypeOK, serial < MaxSerial,
         NEW t \in Types, NEW e \in Endpoints, NEW s \in Slots
  PROVE  /\ NewPacket(t, e, s) \in Packet
         /\ Target(NewPacket(t, e, s)) \in Endpoints \X Slots
         /\ NewPacket(t, e, s).serial = serial + 1
  BY DEF NewPacket, Packet, TypeOK, Target

(* The deque holds packets and never more than kMaximumPendingPackets of   *)
(* them; the other variables keep their types.                             *)
THEOREM TypeCorrect == Spec => []TypeOK
<1>0. <<>> \in Seq(Packet) /\ Len(<<>>) <= MaxPending
  BY EmptySeq
<1>1. Init => TypeOK
  <2> SUFFICES ASSUME Init PROVE TypeOK
    OBVIOUS
  <2>1. queue \in Seq(Packet) /\ Len(queue) <= MaxPending
    BY <1>0 DEF Init
  <2>2. stats \in [queued : Nat, sent : Nat, dropped : Nat, coalesced : Nat]
    BY DEF Init, Zero
  <2>3. newest \in [Endpoints \X Slots -> 0..MaxSerial]
    BY DEF Init, NothingOffered
  <2>4. stopping \in BOOLEAN
    BY DEF Init
  <2>5. /\ worker \in WorkerStates /\ caller \in CallerStates
        /\ serial \in 0..MaxSerial /\ refused \in Nat
    BY DEF Init, WorkerStates, CallerStates
  <2>6. /\ hand \in Packet \cup {NoPacket}
        /\ socket \in Descriptors \cup {NoDescriptor}
        /\ handSocket \in Descriptors \cup {NoDescriptor}
        /\ listening \in Descriptors \cup {NoDescriptor}
    BY DEF Init
  <2> QED
    BY <2>1, <2>2, <2>3, <2>4, <2>5, <2>6 DEF TypeOK
<1>2. TypeOK /\ [Next]_vars => TypeOK'
  <2> SUFFICES ASSUME TypeOK, [Next]_vars PROVE TypeOK'
    OBVIOUS
  <2>0. queue \in Seq(Packet) /\ Len(queue) \in Nat
    BY LenProperties DEF TypeOK
  <2>1. ASSUME NEW d \in Descriptors, Start(d) PROVE TypeOK'
    <3>1. queue' \in Seq(Packet) /\ Len(queue') <= MaxPending
      BY <1>0, <2>1 DEF Start
    <3>2. stats' \in [queued : Nat, sent : Nat, dropped : Nat, coalesced : Nat]
      BY <2>1 DEF Start, Zero
    <3>3. newest' \in [Endpoints \X Slots -> 0..MaxSerial]
      BY <2>1 DEF Start, NothingOffered
    <3>4. stopping' \in BOOLEAN
      BY <2>1 DEF Start
    <3>5. /\ worker' \in WorkerStates /\ caller' \in CallerStates
          /\ serial' \in 0..MaxSerial /\ refused' \in Nat
      BY <2>1 DEF Start, TypeOK, WorkerStates
    <3>6. /\ hand' \in Packet \cup {NoPacket}
          /\ socket' \in Descriptors \cup {NoDescriptor}
          /\ handSocket' \in Descriptors \cup {NoDescriptor}
          /\ listening' \in Descriptors \cup {NoDescriptor}
      BY <2>1 DEF Start, TypeOK
    <3> QED
      BY <3>1, <3>2, <3>3, <3>4, <3>5, <3>6 DEF TypeOK
  <2>2. ASSUME NEW t \in Types, NEW e \in Endpoints, NEW s \in Slots, Enqueue(t, e, s)
        PROVE  TypeOK'
    <3> DEFINE p == NewPacket(t, e, s)
    <3>1. /\ serial < MaxSerial /\ serial' = serial + 1
          /\ Coalesce(p) \/ Push(p) \/ Displace(p) \/ Refuse(p)
          /\ newest' = IF IsPosition(p) THEN [newest EXCEPT ![Target(p)] = p.serial] ELSE newest
          /\ UNCHANGED <<stopping, socket, worker, hand, handSocket, listening>>
      BY <2>2 DEF Enqueue, NewPacket, workerVars
    <3>2. p \in Packet /\ Target(p) \in Endpoints \X Slots /\ p.serial = serial + 1
      BY <3>1, NewPacketType
    <3> HIDE DEF p
    <3>3. serial' \in 0..MaxSerial /\ newest' \in [Endpoints \X Slots -> 0..MaxSerial]
      BY <3>1, <3>2 DEF TypeOK
    <3>4. CASE Coalesce(p)
      <4>1. queue' \in Seq(Packet) /\ Len(queue') <= MaxPending
        BY <2>0, <3>2, <3>4, CoalesceEffect DEF TypeOK
      <4>2. /\ stats' \in [queued : Nat, sent : Nat, dropped : Nat, coalesced : Nat]
            /\ caller' \in CallerStates /\ refused' \in Nat
        BY <3>4 DEF Coalesce, Bump, TypeOK, CallerStates
      <4> QED
        BY <3>1, <3>3, <4>1, <4>2 DEF TypeOK
    <3>5. CASE Push(p)
      <4>1. queue' \in Seq(Packet) /\ Len(queue') <= MaxPending
        BY <2>0, <3>2, <3>5, PushEffect DEF Push
      <4>2. /\ stats' = [stats EXCEPT !.queued = @ + 1]
            /\ caller' = "notify" /\ refused' = refused
        BY <3>5 DEF Push, Bump
      <4>3. stats' \in [queued : Nat, sent : Nat, dropped : Nat, coalesced : Nat]
        BY <4>2 DEF TypeOK
      <4> QED
        BY <3>1, <3>3, <4>1, <4>2, <4>3 DEF TypeOK, CallerStates
    <3>6. CASE Displace(p)
      <4>1. queue' \in Seq(Packet) /\ Len(queue') <= MaxPending
        BY <2>0, <3>2, <3>6, DisplaceEffect DEF TypeOK
      <4>2. /\ stats' = [stats EXCEPT !.queued = @ + 1, !.dropped = @ + 1]
            /\ caller' = "notify" /\ refused' = refused
        BY <3>6 DEF Displace
      <4>3. stats' \in [queued : Nat, sent : Nat, dropped : Nat, coalesced : Nat]
        <5>1. [stats EXCEPT !.queued = @ + 1]
              \in [queued : Nat, sent : Nat, dropped : Nat, coalesced : Nat]
          <6>1. stats \in [queued : Nat, sent : Nat, dropped : Nat, coalesced : Nat]
            BY DEF TypeOK
          <6>2. \A r \in [queued : Nat, sent : Nat, dropped : Nat, coalesced : Nat] :
                   [r EXCEPT !.queued = @ + 1]
                   \in [queued : Nat, sent : Nat, dropped : Nat, coalesced : Nat]
            OBVIOUS
          <6> QED BY ONLY <6>1, <6>2
        <5>2. \A r \in [queued : Nat, sent : Nat, dropped : Nat, coalesced : Nat] :
                 [r EXCEPT !.dropped = @ + 1]
                 \in [queued : Nat, sent : Nat, dropped : Nat, coalesced : Nat]
          OBVIOUS
        <5> QED
          BY <4>2, <5>1, <5>2
      <4> QED
        BY <3>1, <3>3, <4>1, <4>2, <4>3 DEF TypeOK, CallerStates
    <3>7. CASE Refuse(p)
      BY <3>1, <3>3, <3>7 DEF Refuse, Bump, TypeOK
    <3> QED
      BY <3>1, <3>4, <3>5, <3>6, <3>7
  <2>3. CASE Take
    <3>1. queue' \in Seq(Packet) /\ Len(queue') <= MaxPending /\ hand' \in Packet
      BY <2>0, <2>3, TakeEffect DEF TypeOK
    <3> QED
      BY <2>3, <3>1 DEF Take, TypeOK, WorkerStates, history
  <2>4. ASSUME NEW o \in {"sent", "dropped"}, Send(o) PROVE TypeOK'
    <3>1. stats' \in [queued : Nat, sent : Nat, dropped : Nat, coalesced : Nat]
      BY <2>4 DEF Send, Bump, TypeOK
    <3> QED
      BY <2>4, <3>1 DEF Send, TypeOK, WorkerStates, history, queueVars
  <2>5. CASE FinishStop
    BY <1>0, <2>5 DEF FinishStop, TypeOK, WorkerStates, CallerStates, history
  <2>6. CASE Notify \/ NotifyAll \/ BeginStop \/ CloseSocket
    BY <2>6 DEF Notify, NotifyAll, BeginStop, CloseSocket, Wake, TypeOK,
                WorkerStates, CallerStates, history, queueVars, workerVars
  <2>7. CASE Sleep \/ SpuriousWake \/ Exit
    BY <2>7 DEF Sleep, SpuriousWake, Exit, TypeOK, WorkerStates, history, queueVars
  <2>8. CASE UNCHANGED vars
    BY <2>8 DEF vars, queueVars, workerVars, history, TypeOK
  <2> QED
    BY <2>1, <2>2, <2>3, <2>4, <2>5, <2>6, <2>7, <2>8 DEF Next, GameThreadStep, WorkerStep
<1> QED
  BY <1>1, <1>2, PTL DEF Spec

-----------------------------------------------------------------------------
(* Where the two threads stand, and what follows for the shared state.     *)

Phases ==
  /\ worker = "exited" => stopping /\ queue = <<>>
  /\ worker = "none" => queue = <<>>
  /\ worker = "sending" => hand \in Packet /\ handSocket = socket
  /\ worker # "none" => socket = listening
  /\ caller = "close" => worker = "none"

(* Enqueue runs only while the worker is alive, and leaves the phase alone. *)
LEMMA EnqueuePhase ==
  ASSUME TypeOK, Phases,
         NEW t \in Types, NEW e \in Endpoints, NEW s \in Slots, Enqueue(t, e, s)
  PROVE  /\ worker \notin {"none", "exited"}
         /\ serial < MaxSerial /\ serial' = serial + 1
         /\ NewPacket(t, e, s) \in Packet
         /\ \/ Coalesce(NewPacket(t, e, s)) \/ Push(NewPacket(t, e, s))
            \/ Displace(NewPacket(t, e, s)) \/ Refuse(NewPacket(t, e, s))
         /\ newest' = IF IsPosition(NewPacket(t, e, s))
                      THEN [newest EXCEPT ![Target(NewPacket(t, e, s))] = serial + 1]
                      ELSE newest
         /\ UNCHANGED <<stopping, socket, worker, hand, handSocket, listening>>
         /\ caller' # "close"
<1> DEFINE p == NewPacket(t, e, s)
<1>1. /\ caller = "idle" /\ Joinable /\ ~stopping
      /\ serial < MaxSerial /\ serial' = serial + 1
      /\ Coalesce(p) \/ Push(p) \/ Displace(p) \/ Refuse(p)
      /\ newest' = IF IsPosition(p) THEN [newest EXCEPT ![Target(p)] = p.serial] ELSE newest
      /\ UNCHANGED <<stopping, socket, worker, hand, handSocket, listening>>
  BY DEF Enqueue, NewPacket, workerVars
<1>2. p \in Packet /\ p.serial = serial + 1
  BY <1>1, NewPacketType
<1>3. worker \notin {"none", "exited"}
  BY <1>1 DEF Joinable, Phases
<1> HIDE DEF p
<1>4. caller' # "close"
  <2>1. CASE Coalesce(p)
    BY <1>1, <2>1 DEF Coalesce
  <2>2. CASE Push(p)
    BY <2>2 DEF Push
  <2>3. CASE Displace(p)
    BY <2>3 DEF Displace
  <2>4. CASE Refuse(p)
    BY <1>1, <2>4 DEF Refuse
  <2> QED
    BY <1>1, <2>1, <2>2, <2>3, <2>4
<1> QED
  BY <1>1, <1>2, <1>3, <1>4 DEF p

LEMMA PhasesStep == TypeOK /\ Phases /\ [Next]_vars => Phases'
<1> SUFFICES ASSUME TypeOK, Phases, [Next]_vars PROVE Phases'
  OBVIOUS
<1>1. ASSUME NEW d \in Descriptors, Start(d) PROVE Phases'
  BY <1>1 DEF Start, Phases
<1>2. ASSUME NEW t \in Types, NEW e \in Endpoints, NEW s \in Slots, Enqueue(t, e, s)
      PROVE  Phases'
  BY <1>2, EnqueuePhase DEF Phases
<1>3. CASE Take
  <2>1. hand' \in Packet
    BY <1>3, TakeEffect DEF TypeOK
  <2> QED
    BY <1>3, <2>1 DEF Take, Phases, history
<1>4. ASSUME NEW o \in {"sent", "dropped"}, Send(o) PROVE Phases'
  BY <1>4 DEF Send, Phases, history, queueVars
<1>5. CASE FinishStop
  BY <1>5 DEF FinishStop, Phases
<1>6. CASE Notify \/ NotifyAll
  BY <1>6 DEF Notify, NotifyAll, Wake, Phases, history, queueVars
<1>7. CASE BeginStop
  BY <1>7 DEF BeginStop, Phases, workerVars
<1>8. CASE CloseSocket
  BY <1>8 DEF CloseSocket, Phases, queueVars, workerVars
<1>9. CASE Sleep \/ SpuriousWake \/ Exit
  BY <1>9 DEF Sleep, SpuriousWake, Exit, Phases, history, queueVars
<1>10. CASE UNCHANGED vars
  BY <1>10 DEF vars, queueVars, workerVars, Phases
<1> QED
  BY <1>1, <1>2, <1>3, <1>4, <1>5, <1>6, <1>7, <1>8, <1>9, <1>10
     DEF Next, GameThreadStep, WorkerStep

LEMMA PhasesHold == Spec => []Phases
<1>1. Init => Phases
  BY DEF Init, Phases
<1> QED
  BY <1>1, PhasesStep, TypeCorrect, PTL DEF Spec

(* The worker never writes to a descriptor that is no longer the open one. *)
THEOREM SocketSafety == Spec => []SendsOnOpenSocket
<1>1. Phases => SendsOnOpenSocket
  BY DEF Phases, SendsOnOpenSocket
<1> QED
  BY <1>1, PhasesHold, PTL

-----------------------------------------------------------------------------
(* The counters.                                                           *)

LEMMA AccountingStep == TypeOK /\ Phases /\ Accounting /\ [Next]_vars => Accounting'
<1> SUFFICES ASSUME TypeOK, Phases, Accounting, [Next]_vars PROVE Accounting'
  OBVIOUS
<1>0. /\ queue \in Seq(Packet) /\ Len(queue) \in Nat /\ serial \in Nat /\ refused \in Nat
      /\ stats \in [queued : Nat, sent : Nat, dropped : Nat, coalesced : Nat]
  BY LenProperties DEF TypeOK
<1> DEFINE nq == stats.queued   ns == stats.sent     nd == stats.dropped
           nc == stats.coalesced nl == Len(queue)    nh == InHand
<1>a. /\ nq \in Nat /\ ns \in Nat /\ nd \in Nat /\ nc \in Nat /\ nl \in Nat /\ nh \in Nat
      /\ serial \in Nat /\ refused \in Nat
      /\ serial = nq + nc + refused
      /\ nq + refused = ns + nd + nl + nh
  BY <1>0 DEF Accounting, InHand
<1> HIDE DEF nq, ns, nd, nc, nl, nh
<1>1. ASSUME NEW d \in Descriptors, Start(d) PROVE Accounting'
  <2>1. queue' = <<>> /\ stats' = Zero /\ serial' = 0 /\ refused' = 0 /\ worker' = "ready"
    BY <1>1 DEF Start
  <2>2. Len(queue') = 0
    BY <2>1, EmptySeq
  <2> QED
    BY <2>1, <2>2 DEF Accounting, InHand, Zero
<1>2. ASSUME NEW t \in Types, NEW e \in Endpoints, NEW s \in Slots, Enqueue(t, e, s)
      PROVE  Accounting'
  <2> DEFINE p == NewPacket(t, e, s)
  <2>1. /\ p \in Packet /\ serial' = serial + 1 /\ worker' = worker
        /\ Coalesce(p) \/ Push(p) \/ Displace(p) \/ Refuse(p)
    BY <1>2, EnqueuePhase
  <2> HIDE DEF p
  <2>s. serial' = serial + 1
    BY <2>1
  <2>w. worker' = worker
    BY <2>1
  <2>2. CASE Coalesce(p)
    <3>1. Len(queue') = Len(queue)
      BY <1>0, <2>1, <2>2, CoalesceEffect
    <3>2. stats' = [stats EXCEPT !.coalesced = @ + 1] /\ refused' = refused
      BY <2>2 DEF Coalesce, Bump
    <3> QED
      BY <1>0, <2>1, <3>1, <3>2 DEF Accounting, InHand
  <2>3. CASE Push(p)
    <3>1. Len(queue') = Len(queue) + 1
      BY <1>0, <2>1, <2>3, PushEffect
    <3>2. stats' = [stats EXCEPT !.queued = @ + 1] /\ refused' = refused
      BY <2>3 DEF Push, Bump
    <3>3. /\ stats'.queued = stats.queued + 1 /\ stats'.sent = stats.sent
          /\ stats'.dropped = stats.dropped /\ stats'.coalesced = stats.coalesced
      BY <1>0, <3>2
    <3>4. /\ serial + 1 = (nq + 1) + nc + refused
          /\ (nq + 1) + refused = ns + nd + (nl + 1) + nh
      BY <1>a
    <3>5. refused' = refused
      BY <3>2
    <3> QED
      BY <2>s, <2>w, <3>1, <3>3, <3>4, <3>5 DEF Accounting, InHand, nq, ns, nd, nc, nl, nh
  <2>4. CASE Displace(p)
    <3>1. Len(queue') = Len(queue)
      BY <1>0, <2>1, <2>4, DisplaceEffect
    <3>2. /\ stats' = [stats EXCEPT !.queued = @ + 1, !.dropped = @ + 1]
          /\ refused' = refused
      BY <2>4 DEF Displace
    <3>3. /\ stats'.queued = stats.queued + 1 /\ stats'.sent = stats.sent
          /\ stats'.dropped = stats.dropped + 1 /\ stats'.coalesced = stats.coalesced
      BY <1>0, <3>2
    <3>4. /\ serial + 1 = (nq + 1) + nc + refused
          /\ (nq + 1) + refused = ns + (nd + 1) + nl + nh
      BY <1>a
    <3>5. refused' = refused
      BY <3>2
    <3> QED
      BY <2>s, <2>w, <3>1, <3>3, <3>4, <3>5 DEF Accounting, InHand, nq, ns, nd, nc, nl, nh
  <2>5. CASE Refuse(p)
    <3>1. /\ queue' = queue /\ refused' = refused + 1
          /\ stats' = [stats EXCEPT !.dropped = @ + 1]
      BY <2>5 DEF Refuse, Bump
    <3>2. /\ stats'.queued = stats.queued /\ stats'.sent = stats.sent
          /\ stats'.dropped = stats.dropped + 1 /\ stats'.coalesced = stats.coalesced
      BY <1>0, <3>1
    <3>3. /\ serial + 1 = nq + nc + (refused + 1)
          /\ nq + (refused + 1) = ns + (nd + 1) + nl + nh
      BY <1>a
    <3>4. Len(queue') = Len(queue) /\ refused' = refused + 1
      BY <3>1
    <3> QED
      BY <2>s, <2>w, <3>2, <3>3, <3>4 DEF Accounting, InHand, nq, ns, nd, nc, nl, nh
  <2> QED
    BY <2>1, <2>2, <2>3, <2>4, <2>5
<1>3. CASE Take
  <2>1. Len(queue') = Len(queue) - 1
    BY <1>0, <1>3, TakeEffect
  <2>2. /\ worker = "ready" /\ worker' = "sending"
        /\ UNCHANGED <<stats, serial, refused>>
    BY <1>3 DEF Take, history
  <2> QED
    BY <1>0, <2>1, <2>2 DEF Accounting, InHand
<1>4. ASSUME NEW o \in {"sent", "dropped"}, Send(o) PROVE Accounting'
  <2>1. /\ worker = "sending" /\ worker' = "ready"
        /\ stats' = [stats EXCEPT ![o] = @ + 1]
        /\ UNCHANGED <<queue, serial, refused>>
    BY <1>4 DEF Send, Bump, history, queueVars
  <2>2. CASE o = "sent"
    BY <1>0, <2>1, <2>2 DEF Accounting, InHand
  <2>3. CASE o = "dropped"
    BY <1>0, <2>1, <2>3 DEF Accounting, InHand
  <2> QED
    BY <2>2, <2>3
<1>5. CASE FinishStop
  <2>1. /\ queue' = <<>> /\ queue = <<>> /\ worker = "exited" /\ worker' = "none"
        /\ UNCHANGED <<stats, serial, refused>>
    BY <1>5 DEF FinishStop, Phases, history
  <2> QED
    BY <1>0, <2>1 DEF Accounting, InHand
<1>6. CASE Notify \/ NotifyAll \/ BeginStop \/ CloseSocket
  <2>1. UNCHANGED <<queue, stats, serial, refused>>
    BY <1>6 DEF Notify, NotifyAll, BeginStop, CloseSocket, history, queueVars
  <2>2. worker' = "sending" <=> worker = "sending"
    BY <1>6 DEF Notify, NotifyAll, BeginStop, CloseSocket, Wake, workerVars
  <2> QED
    BY <2>1, <2>2 DEF Accounting, InHand
<1>7. CASE Sleep \/ SpuriousWake \/ Exit
  <2>1. UNCHANGED <<queue, stats, serial, refused>>
    BY <1>7 DEF Sleep, SpuriousWake, Exit, history, queueVars
  <2>2. worker' # "sending" /\ worker # "sending"
    BY <1>7 DEF Sleep, SpuriousWake, Exit
  <2> QED
    BY <2>1, <2>2 DEF Accounting, InHand
<1>8. CASE UNCHANGED vars
  BY <1>8 DEF vars, queueVars, workerVars, history, Accounting, InHand
<1> QED
  BY <1>1, <1>2, <1>3, <1>4, <1>5, <1>6, <1>7, <1>8 DEF Next, GameThreadStep, WorkerStep

(* No packet is counted twice or lost from the books, at any instant.      *)
THEOREM CountersAddUp == Spec => []Accounting
<1>1. Init => Accounting
  <2>1. <<>> \in Seq(Packet) /\ Len(<<>>) = 0
    BY EmptySeq
  <2> QED
    BY <2>1 DEF Init, Accounting, InHand, Zero
<1> QED
  BY <1>1, AccountingStep, PhasesHold, TypeCorrect, PTL DEF Spec

-----------------------------------------------------------------------------
(* The order and the freshness of what waits.                              *)

(* Serials grow with the calls, so nothing that waits or travels is newer  *)
(* than the last call.                                                     *)
Bounded ==
  /\ \A i \in DOMAIN queue : queue[i].serial <= serial
  /\ worker = "sending" => hand.serial <= serial

Order == Bounded /\ OnePositionPerTarget /\ ControlInOrder /\ FreshestPosition

LEMMA CoalesceOrder ==
  ASSUME TypeOK, Order, NEW p \in Packet, p.serial = serial + 1, serial' = serial + 1,
         Coalesce(p), newest' = [newest EXCEPT ![Target(p)] = serial + 1],
         UNCHANGED <<worker, hand>>, worker = "sending" => hand \in Packet
  PROVE  Order'
<1>0. /\ queue \in Seq(Packet) /\ DOMAIN queue = 1..Len(queue) /\ Len(queue) \in Nat
      /\ serial \in Nat /\ \A k \in 1..Len(queue) : queue[k] \in Packet
  BY LenProperties, ElementOfSeq DEF TypeOK
<1>1. /\ queue' \in Seq(Packet) /\ Len(queue') = Len(queue) /\ IsPosition(p)
  BY <1>0, CoalesceEffect
<1>2. PICK i \in 1..Len(queue) :
         /\ IsTwin(i, p)
         /\ \A k \in 1..Len(queue) : queue'[k] = IF k = i THEN p ELSE queue[k]
  BY <1>0, CoalesceEffect
<1>3. DOMAIN queue' = 1..Len(queue)
  BY <1>1, LenProperties
<1>4. IsPosition(queue[i]) /\ Target(queue[i]) = Target(p)
  BY <1>2 DEF IsTwin, SameTarget
<1>5. Bounded'
  BY <1>0, <1>2, <1>3 DEF Order, Bounded, Packet
<1>6. OnePositionPerTarget'
  BY <1>0, <1>1, <1>2, <1>3, <1>4 DEF Order, OnePositionPerTarget, SameTarget
<1>7. ControlInOrder'
  BY <1>0, <1>1, <1>2, <1>3, <1>4 DEF Order, ControlInOrder
<1>8. FreshestPosition'
  <2>1. Target(p) \in Endpoints \X Slots
    BY DEF Target, Packet
  <2>2. ASSUME NEW k \in 1..Len(queue), IsPosition(queue'[k])
        PROVE  queue'[k].serial = newest'[Target(queue'[k])]
    <3>1. CASE k = i
      BY <1>2, <2>1, <3>1 DEF TypeOK
    <3>2. CASE k # i
      <4>1. queue'[k] = queue[k] /\ IsPosition(queue[k])
        BY <1>2, <2>2, <3>2
      <4>2. Target(queue[k]) # Target(p)
        BY <1>0, <1>4, <3>2, <4>1 DEF Order, OnePositionPerTarget, SameTarget
      <4>3. queue[k].serial = newest[Target(queue[k])]
        BY <1>0, <4>1 DEF Order, FreshestPosition
      <4>4. Target(queue[k]) \in Endpoints \X Slots
        BY <1>0 DEF Target, Packet
      <4> QED
        BY <2>1, <4>1, <4>2, <4>3, <4>4 DEF TypeOK
    <3> QED
      BY <3>1, <3>2
  <2>3. ASSUME worker = "sending", IsPosition(hand), NEW k \in 1..Len(queue),
               IsPosition(queue'[k]), Target(queue'[k]) = Target(hand)
        PROVE  hand.serial < queue'[k].serial
    <3>1. CASE k = i
      BY <1>0, <1>2, <2>3, <3>1 DEF Order, Bounded, Packet
    <3>2. CASE k # i
      BY <1>0, <1>2, <2>3, <3>2 DEF Order, FreshestPosition, IsTwin, SameTarget
    <3> QED
      BY <3>1, <3>2
  <2> QED
    BY <1>3, <2>2, <2>3 DEF FreshestPosition, IsTwin, SameTarget
<1> QED
  BY <1>5, <1>6, <1>7, <1>8 DEF Order

(* Push and Displace both keep some packets in their order and append the  *)
(* new one: f names where each kept packet stood.                          *)
LEMMA AppendOrder ==
  ASSUME TypeOK, Order, NEW p \in Packet, p.serial = serial + 1, serial' = serial + 1,
         newest' = IF IsPosition(p) THEN [newest EXCEPT ![Target(p)] = serial + 1]
                                    ELSE newest,
         UNCHANGED <<worker, hand>>, worker = "sending" => hand \in Packet,
         ~HasTwin(p),
         NEW n \in Nat, NEW f \in [1..n -> 1..Len(queue)],
         \A j, k \in 1..n : j < k => f[j] < f[k],
         queue' \in Seq(Packet), Len(queue') = n + 1, queue'[n + 1] = p,
         \A k \in 1..n : queue'[k] = queue[f[k]]
  PROVE  Order'
<1>0. /\ queue \in Seq(Packet) /\ DOMAIN queue = 1..Len(queue) /\ Len(queue) \in Nat
      /\ serial \in Nat /\ \A k \in 1..Len(queue) : queue[k] \in Packet
  BY LenProperties, ElementOfSeq DEF TypeOK
<1>1. DOMAIN queue' = 1..(n + 1)
  BY LenProperties
<1>2. \A k \in 1..n : f[k] \in DOMAIN queue /\ queue'[k] = queue[f[k]]
  BY <1>0
<1>3. \A k \in 1..(n + 1) : k \in 1..n \/ (k = n + 1 /\ queue'[k] = p)
  OBVIOUS
<1>4. \A k \in DOMAIN queue : queue[k].serial <= serial /\ queue[k].serial \in Nat
  BY <1>0 DEF Order, Bounded, Packet
<1>5. IsPosition(p) => \A k \in DOMAIN queue :
         IsPosition(queue[k]) => Target(queue[k]) # Target(p)
  BY DEF HasTwin, IsTwin, SameTarget
<1>6. worker = "sending" => hand.serial <= serial /\ hand.serial \in Nat
  BY DEF Order, Bounded, Packet
<1>7. Bounded'
  BY <1>0, <1>1, <1>2, <1>3, <1>4, <1>6 DEF Bounded
<1>8. OnePositionPerTarget'
  <2> SUFFICES ASSUME NEW i \in 1..(n + 1), NEW k \in 1..(n + 1), i < k,
                      IsPosition(queue'[i]), IsPosition(queue'[k]),
                      Target(queue'[i]) = Target(queue'[k])
               PROVE  FALSE
    <3>1. \A i, k \in 1..(n + 1) : i < k \/ k < i \/ i = k
      OBVIOUS
    <3> QED
      BY <1>1, <3>1 DEF OnePositionPerTarget, SameTarget
  <2>1. i \in 1..n
    OBVIOUS
  <2>2. CASE k \in 1..n
    BY <1>2, <2>1, <2>2 DEF Order, OnePositionPerTarget, SameTarget
  <2>3. CASE k = n + 1
    BY <1>2, <1>5, <2>1, <2>3
  <2> QED
    BY <1>3, <2>2, <2>3
<1>9. ControlInOrder'
  <2>1. ASSUME NEW i \in 1..(n + 1), NEW k \in 1..(n + 1), i < k,
               ~IsPosition(queue'[i]), ~IsPosition(queue'[k])
        PROVE  queue'[i].serial < queue'[k].serial
    <3>1. i \in 1..n
      BY <2>1
    <3>2. CASE k \in 1..n
      BY <1>2, <2>1, <3>1, <3>2 DEF Order, ControlInOrder
    <3>3. CASE k = n + 1
      BY <1>0, <1>2, <1>4, <3>1, <3>3
    <3> QED
      BY <1>3, <3>2, <3>3
  <2>2. ASSUME worker = "sending", ~IsPosition(hand), NEW k \in 1..(n + 1),
               ~IsPosition(queue'[k])
        PROVE  hand.serial < queue'[k].serial
    <3>1. CASE k \in 1..n
      BY <1>2, <2>2, <3>1 DEF Order, ControlInOrder
    <3>2. CASE k = n + 1
      BY <1>0, <1>6, <2>2, <3>2
    <3> QED
      BY <1>3, <3>1, <3>2
  <2> QED
    BY <1>1, <2>1, <2>2 DEF ControlInOrder
<1>10. FreshestPosition'
  <2>1. ASSUME NEW k \in 1..(n + 1), IsPosition(queue'[k])
        PROVE  queue'[k].serial = newest'[Target(queue'[k])]
    <3>0. /\ Target(p) \in Endpoints \X Slots
          /\ \A j \in DOMAIN queue : Target(queue[j]) \in Endpoints \X Slots
          /\ newest \in [Endpoints \X Slots -> 0..MaxSerial]
      BY <1>0 DEF Target, Packet, TypeOK
    <3>1. CASE k \in 1..n
      <4>1. queue[f[k]].serial = newest[Target(queue[f[k]])]
        BY <1>2, <2>1, <3>1 DEF Order, FreshestPosition
      <4>2. newest'[Target(queue[f[k]])] = newest[Target(queue[f[k]])]
        BY <1>2, <1>5, <2>1, <3>0, <3>1
      <4> QED
        BY <1>2, <3>1, <4>1, <4>2
    <3>2. CASE k = n + 1
      BY <2>1, <3>0, <3>2
    <3> QED
      BY <1>3, <3>1, <3>2
  <2>2. ASSUME worker = "sending", IsPosition(hand), NEW k \in 1..(n + 1),
               IsPosition(queue'[k]), Target(queue'[k]) = Target(hand)
        PROVE  hand.serial < queue'[k].serial
    <3>1. CASE k \in 1..n
      BY <1>2, <2>2, <3>1 DEF Order, FreshestPosition, IsTwin, SameTarget
    <3>2. CASE k = n + 1
      BY <1>0, <1>6, <2>2, <3>2
    <3> QED
      BY <1>3, <3>1, <3>2
  <2> QED
    BY <1>1, <2>1, <2>2 DEF FreshestPosition, IsTwin, SameTarget
<1> QED
  BY <1>7, <1>8, <1>9, <1>10 DEF Order

LEMMA TakeOrder ==
  ASSUME TypeOK, Order, Take
  PROVE  Order'
<1>0. /\ queue \in Seq(Packet) /\ DOMAIN queue = 1..Len(queue) /\ Len(queue) \in Nat \ {0}
      /\ \A k \in 1..Len(queue) : queue[k] \in Packet
  BY TakeEffect, LenProperties, ElementOfSeq DEF TypeOK
<1> DEFINE n == Len(queue) - 1
<1>1. /\ queue' \in Seq(Packet) /\ Len(queue') = n /\ n \in Nat
      /\ hand' = queue[1] /\ 1 \in DOMAIN queue
      /\ \A k \in 1..n : k + 1 \in DOMAIN queue /\ queue'[k] = queue[k + 1]
  <2>1. /\ queue' \in Seq(Packet) /\ Len(queue') = n /\ hand' = queue[1]
        /\ \A k \in 1..n : queue'[k] = queue[k + 1]
    BY <1>0, TakeEffect
  <2>2. n \in Nat /\ 1 \in 1..Len(queue) /\ \A k \in 1..n : k + 1 \in 1..Len(queue)
    BY <1>0
  <2> QED
    BY <1>0, <2>1, <2>2
<1> HIDE DEF n
<1>2. DOMAIN queue' = 1..n
  BY <1>1, LenProperties
<1>3. UNCHANGED <<serial, newest>> /\ worker' = "sending"
  BY DEF Take, history
<1>4. Bounded'
  BY <1>1, <1>2, <1>3 DEF Order, Bounded
<1>5. OnePositionPerTarget'
  <2>1. \A i, k \in 1..n : i + 1 = k + 1 => i = k
    OBVIOUS
  <2> QED
    BY <1>1, <1>2, <2>1 DEF Order, OnePositionPerTarget, SameTarget
<1>6. ControlInOrder'
  <2>1. \A i, k \in 1..n : i < k => i + 1 < k + 1
    OBVIOUS
  <2>2. \A k \in 1..n : 1 < k + 1
    OBVIOUS
  <2> QED
    BY <1>1, <1>2, <1>3, <2>1, <2>2 DEF Order, ControlInOrder
<1>7. FreshestPosition'
  <2>1. \A k \in 1..n : IsPosition(queue'[k]) => queue'[k].serial = newest[Target(queue'[k])]
    BY <1>1 DEF Order, FreshestPosition
  <2>2. ASSUME NEW k \in 1..n, IsPosition(hand'), IsPosition(queue'[k]),
               Target(queue'[k]) = Target(hand')
        PROVE  FALSE
    <3>1. k + 1 # 1
      OBVIOUS
    <3> QED
      BY <1>1, <2>2, <3>1 DEF Order, OnePositionPerTarget, SameTarget
  <2> QED
    BY <1>2, <1>3, <2>1, <2>2 DEF FreshestPosition, IsTwin, SameTarget
<1> QED
  BY <1>4, <1>5, <1>6, <1>7 DEF Order

LEMMA EnqueueOrder ==
  ASSUME TypeOK, Phases, Order,
         NEW t \in Types, NEW e \in Endpoints, NEW s \in Slots, Enqueue(t, e, s)
  PROVE  Order'
<1> DEFINE p == NewPacket(t, e, s)
<1>1. /\ p \in Packet /\ p.serial = serial + 1 /\ serial' = serial + 1
      /\ Coalesce(p) \/ Push(p) \/ Displace(p) \/ Refuse(p)
      /\ newest' = IF IsPosition(p) THEN [newest EXCEPT ![Target(p)] = serial + 1]
                                    ELSE newest
      /\ UNCHANGED <<worker, hand>>
      /\ worker = "sending" => hand \in Packet
  BY EnqueuePhase, NewPacketType DEF Phases
<1> HIDE DEF p
<1>2. queue \in Seq(Packet) /\ Len(queue) \in Nat
  BY LenProperties DEF TypeOK
<1>3. CASE Coalesce(p)
  <2>1. IsPosition(p)
    BY <1>3 DEF Coalesce, HasTwin
  <2> QED
    BY <1>1, <1>3, <2>1, CoalesceOrder
<1>4. CASE Push(p)
  <2> DEFINE f == [k \in 1..Len(queue) |-> k]
  <2>1. /\ queue' \in Seq(Packet) /\ Len(queue') = Len(queue) + 1
        /\ queue'[Len(queue) + 1] = p
        /\ \A k \in 1..Len(queue) : queue'[k] = queue[k]
    BY <1>1, <1>2, <1>4, PushEffect
  <2>2. /\ f \in [1..Len(queue) -> 1..Len(queue)]
        /\ \A k \in 1..Len(queue) : f[k] = k
    OBVIOUS
  <2>3. ~HasTwin(p)
    BY <1>4 DEF Push
  <2> HIDE DEF f
  <2>4. \A k \in 1..Len(queue) : queue'[k] = queue[f[k]]
    BY <2>1, <2>2
  <2>5. \A j, k \in 1..Len(queue) : j < k => f[j] < f[k]
    BY <2>2
  <2> QED
    BY <1>1, <1>2, <2>1, <2>2, <2>3, <2>4, <2>5, AppendOrder
<1>5. CASE Displace(p)
  <2>1. queue' \in Seq(Packet) /\ Len(queue') = Len(queue)
    BY <1>1, <1>2, <1>5, DisplaceEffect
  <2>2. PICK i \in 1..Len(queue) :
           \A k \in 1..Len(queue) :
              queue'[k] = IF k < i THEN queue[k]
                          ELSE IF k < Len(queue) THEN queue[k + 1] ELSE p
    BY <1>1, <1>2, <1>5, DisplaceEffect
  <2> DEFINE n == Len(queue) - 1
             f == [k \in 1..n |-> IF k < i THEN k ELSE k + 1]
  <2>3. n \in Nat /\ Len(queue) = n + 1 /\ i \in 1..(n + 1)
    BY <1>2
  <2> HIDE DEF n
  <2>4. /\ f \in [1..n -> 1..Len(queue)]
        /\ \A k \in 1..n : f[k] = IF k < i THEN k ELSE k + 1
    BY <2>3
  <2>5. ~HasTwin(p)
    BY <1>5 DEF Displace
  <2> HIDE DEF f
  <2>6. \A k \in 1..n : queue'[k] = queue[f[k]]
    <3> TAKE k \in 1..n
    <3>1. k \in 1..Len(queue) /\ k < Len(queue)
      BY <2>3
    <3> QED
      BY <2>2, <2>4, <3>1
  <2>7. queue'[n + 1] = p
    <3>1. n + 1 \in 1..Len(queue) /\ ~(n + 1 < i) /\ ~(n + 1 < Len(queue))
      BY <2>3
    <3> QED
      BY <2>2, <3>1
  <2>8. \A j, k \in 1..n : j < k => f[j] < f[k]
    BY <2>3, <2>4
  <2>9. Len(queue') = n + 1
    BY <2>1, <2>3
  <2> QED
    BY <1>1, <2>1, <2>3, <2>4, <2>5, <2>6, <2>7, <2>8, <2>9, AppendOrder
<1>6. CASE Refuse(p)
  <2>1. queue' = queue
    BY <1>6 DEF Refuse
  <2>2. /\ \A k \in DOMAIN queue : ~IsPosition(queue[k])
        /\ \A k \in DOMAIN queue : queue[k] \in Packet
    BY <1>2, <1>6, LenProperties, ElementOfSeq DEF Refuse
  <2>3. Bounded'
    BY <1>1, <2>1, <2>2 DEF Order, Bounded, Packet, TypeOK
  <2>4. OnePositionPerTarget'
    BY <2>1 DEF Order, OnePositionPerTarget, SameTarget
  <2>5. ControlInOrder'
    BY <1>1, <2>1 DEF Order, ControlInOrder
  <2>6. FreshestPosition'
    BY <1>1, <2>1, <2>2 DEF Order, FreshestPosition, IsTwin
  <2> QED
    BY <2>3, <2>4, <2>5, <2>6 DEF Order
<1> QED
  BY <1>1, <1>3, <1>4, <1>5, <1>6

LEMMA OrderStep == TypeOK /\ Phases /\ Order /\ [Next]_vars => Order'
<1> SUFFICES ASSUME TypeOK, Phases, Order, [Next]_vars PROVE Order'
  OBVIOUS
<1>1. ASSUME queue' = <<>>, worker' # "sending" PROVE Order'
  <2>1. DOMAIN queue' = {}
    BY <1>1
  <2> QED
    BY <1>1, <2>1 DEF Order, Bounded, OnePositionPerTarget, ControlInOrder, FreshestPosition
<1>2. ASSUME UNCHANGED <<queue, serial, newest>>,
             worker' = "sending" => UNCHANGED <<worker, hand>>
      PROVE  Order'
  <2>1. Bounded'
    BY <1>2 DEF Order, Bounded
  <2>2. OnePositionPerTarget'
    BY <1>2 DEF Order, OnePositionPerTarget, SameTarget
  <2>3. ControlInOrder'
    BY <1>2 DEF Order, ControlInOrder
  <2>4. FreshestPosition'
    BY <1>2 DEF Order, FreshestPosition, IsTwin, SameTarget
  <2> QED
    BY <2>1, <2>2, <2>3, <2>4 DEF Order
<1>3. ASSUME NEW d \in Descriptors, Start(d) PROVE Order'
  BY <1>1, <1>3 DEF Start
<1>4. ASSUME NEW t \in Types, NEW e \in Endpoints, NEW s \in Slots, Enqueue(t, e, s)
      PROVE  Order'
  BY <1>4, EnqueueOrder
<1>5. CASE Take
  BY <1>5, TakeOrder
<1>6. CASE FinishStop
  BY <1>1, <1>6 DEF FinishStop
<1>7. ASSUME NEW o \in {"sent", "dropped"}, Send(o) PROVE Order'
  BY <1>2, <1>7 DEF Send, queueVars, history
<1>8. CASE Notify \/ NotifyAll \/ BeginStop \/ CloseSocket
  BY <1>2, <1>8 DEF Notify, NotifyAll, BeginStop, CloseSocket, Wake,
                    queueVars, workerVars, history
<1>9. CASE Sleep \/ SpuriousWake \/ Exit
  BY <1>2, <1>9 DEF Sleep, SpuriousWake, Exit, queueVars, history
<1>10. CASE UNCHANGED vars
  BY <1>2, <1>10 DEF vars, queueVars, workerVars, history
<1> QED
  BY <1>3, <1>4, <1>5, <1>6, <1>7, <1>8, <1>9, <1>10 DEF Next, GameThreadStep, WorkerStep

LEMMA OrderHolds == Spec => []Order
<1>1. Init => Order
  <2> SUFFICES ASSUME Init PROVE Order
    OBVIOUS
  <2>1. DOMAIN queue = {} /\ worker # "sending"
    BY DEF Init
  <2> QED
    BY <2>1 DEF Order, Bounded, OnePositionPerTarget, ControlInOrder, FreshestPosition
<1> QED
  BY <1>1, OrderStep, PhasesHold, TypeCorrect, PTL DEF Spec

(* At most one position waits per target, however the queue got there.     *)
THEOREM PositionsAreUnique == Spec => []OnePositionPerTarget
<1>1. Order => OnePositionPerTarget
  BY DEF Order
<1> QED
  BY <1>1, OrderHolds, PTL

(* Packets other than positions are sent in the order of the calls.        *)
THEOREM ControlsKeepTheirOrder == Spec => []ControlInOrder
<1>1. Order => ControlInOrder
  BY DEF Order
<1> QED
  BY <1>1, OrderHolds, PTL

(* The position that waits is the last one offered.                        *)
THEOREM PositionsAreFresh == Spec => []FreshestPosition
<1>1. Order => FreshestPosition
  BY DEF Order
<1> QED
  BY <1>1, OrderHolds, PTL

-----------------------------------------------------------------------------
(* The transport implements its contract.                                  *)

(* No packet waits twice: the deque is as large as the pool it stands for. *)
LEMMA Distinct ==
  ASSUME TypeOK, Order, NEW i \in DOMAIN queue, NEW k \in DOMAIN queue, i # k,
         IsPosition(queue[i]) \/ i < k
  PROVE  queue[i] # queue[k]
<1>1. queue \in Seq(Packet) /\ DOMAIN queue = 1..Len(queue)
  BY LenProperties DEF TypeOK
<1>2. queue[i] \in Packet /\ queue[k] \in Packet
  BY <1>1, ElementOfSeq
<1>3. CASE IsPosition(queue[i])
  BY <1>3 DEF Order, OnePositionPerTarget, SameTarget
<1>4. CASE ~IsPosition(queue[i]) /\ i < k
  BY <1>2, <1>4 DEF Order, ControlInOrder, Packet
<1> QED
  BY <1>3, <1>4

LEMMA EnqueueImplements ==
  ASSUME TypeOK, Phases, Order,
         NEW t \in Types, NEW e \in Endpoints, NEW s \in Slots, Enqueue(t, e, s)
  PROVE  \/ \E p \in Packet : Contract!Refresh(p) \/ Contract!Accept(p)
         \/ UNCHANGED Contract!vars
<1> DEFINE p == NewPacket(t, e, s)
<1>1. /\ p \in Packet /\ p.serial = serial + 1
      /\ Coalesce(p) \/ Push(p) \/ Displace(p) \/ Refuse(p)
      /\ worker' = worker /\ Joinable
  BY EnqueuePhase, NewPacketType DEF Joinable
<1> HIDE DEF p
<1>2. /\ queue \in Seq(Packet) /\ Len(queue) \in Nat /\ DOMAIN queue = 1..Len(queue)
      /\ \A k \in 1..Len(queue) : queue[k] \in Packet
  BY LenProperties, ElementOfSeq DEF TypeOK
<1>3. Contract!Newest(p)
  <2>1. \A k \in DOMAIN queue : queue[k].serial < p.serial
    BY <1>1, <1>2 DEF Order, Bounded, Packet, TypeOK
  <2> QED
    BY <2>1 DEF Contract!Newest, ToSet
<1>4. Joinable' = Joinable
  BY <1>1 DEF Joinable
<1>5. CASE Coalesce(p)
  <2>1. IsPosition(p) /\ DOMAIN queue' = 1..Len(queue)
    BY <1>1, <1>2, <1>5, CoalesceEffect, LenProperties
  <2>2. PICK i \in 1..Len(queue) :
           /\ IsTwin(i, p)
           /\ \A k \in 1..Len(queue) : queue'[k] = IF k = i THEN p ELSE queue[k]
    BY <1>1, <1>2, <1>5, CoalesceEffect
  <2>3. IsPosition(queue[i]) /\ SameTarget(queue[i], p)
    BY <2>2 DEF IsTwin
  <2>4. \A k \in 1..Len(queue) : k # i => queue[k] # queue[i]
    BY <1>2, <2>3, Distinct
  <2>5. ToSet(queue') = (ToSet(queue) \ {queue[i]}) \cup {p}
    BY <1>2, <2>1, <2>2, <2>4 DEF ToSet
  <2>6. queue[i] \in ToSet(queue)
    BY <1>2 DEF ToSet
  <2>7. Contract!Refresh(p)
    BY <1>1, <1>3, <1>4, <2>1, <2>3, <2>5, <2>6
       DEF Contract!Refresh, Contract!IsPosition, Contract!SameTarget,
           IsPosition, SameTarget, Target
  <2> QED
    BY <1>1, <2>7
<1>6. ASSUME ~HasTwin(p),
             \/ ToSet(queue') = ToSet(queue) \cup {p}
             \/ \E q \in ToSet(queue) :
                   IsPosition(q) /\ ToSet(queue') = (ToSet(queue) \ {q}) \cup {p}
      PROVE  Contract!Accept(p)
  <2>1. IsPosition(p) => \A q \in ToSet(queue) : IsPosition(q) => ~SameTarget(q, p)
    BY <1>6 DEF HasTwin, IsTwin, ToSet
  <2>2. Contract!IsPosition(p) => \A q \in ToSet(queue) :
           Contract!IsPosition(q) => ~Contract!SameTarget(p, q)
    BY <2>1 DEF Contract!IsPosition, Contract!SameTarget, IsPosition, SameTarget, Target
  <2> QED
    BY <1>1, <1>3, <1>4, <1>6, <2>2 DEF Contract!Accept, Contract!IsPosition, IsPosition
<1>7. CASE Push(p)
  <2>1. /\ queue' \in Seq(Packet) /\ Len(queue') = Len(queue) + 1
        /\ queue'[Len(queue) + 1] = p
        /\ \A k \in 1..Len(queue) : queue'[k] = queue[k]
    BY <1>1, <1>2, <1>7, PushEffect
  <2>2. DOMAIN queue' = 1..(Len(queue) + 1)
    BY <2>1, LenProperties
  <2>3. ToSet(queue') = ToSet(queue) \cup {p}
    <3>1. \A k \in 1..(Len(queue) + 1) : k \in 1..Len(queue) \/ k = Len(queue) + 1
      BY <1>2
    <3>2. /\ \A k \in 1..Len(queue) : k \in 1..(Len(queue) + 1)
          /\ Len(queue) + 1 \in 1..(Len(queue) + 1)
      BY <1>2
    <3> QED
      BY <1>2, <2>1, <2>2, <3>1, <3>2 DEF ToSet
  <2> QED
    BY <1>1, <1>6, <1>7, <2>3 DEF Push
<1>8. CASE Displace(p)
  <2>1. Len(queue') = Len(queue) /\ DOMAIN queue' = 1..Len(queue)
    BY <1>1, <1>2, <1>8, DisplaceEffect, LenProperties
  <2>2. PICK i \in 1..Len(queue) :
           /\ IsPosition(queue[i])
           /\ \A k \in 1..Len(queue) :
                 queue'[k] = IF k < i THEN queue[k]
                             ELSE IF k < Len(queue) THEN queue[k + 1] ELSE p
    BY <1>1, <1>2, <1>8, DisplaceEffect
  <2>3. \A k \in 1..Len(queue) : k # i => queue[k] # queue[i]
    BY <1>2, <2>2, Distinct
  <2>4. ToSet(queue') = (ToSet(queue) \ {queue[i]}) \cup {p}
    <3>1. ASSUME NEW k \in 1..Len(queue)
          PROVE  queue'[k] \in (ToSet(queue) \ {queue[i]}) \cup {p}
      <4>1. CASE k < i
        BY <1>2, <2>2, <2>3, <4>1 DEF ToSet
      <4>2. CASE ~(k < i) /\ k < Len(queue)
        <5>1. k + 1 \in 1..Len(queue) /\ k + 1 # i
          BY <1>2, <4>2
        <5> QED
          BY <1>2, <2>2, <2>3, <4>2, <5>1 DEF ToSet
      <4>3. CASE ~(k < i) /\ ~(k < Len(queue))
        BY <2>2, <4>3
      <4> QED
        BY <4>1, <4>2, <4>3
    <3>2. ASSUME NEW k \in 1..Len(queue), queue[k] # queue[i]
          PROVE  queue[k] \in ToSet(queue')
      <4>1. CASE k < i
        BY <2>1, <2>2, <4>1 DEF ToSet
      <4>2. CASE k > i
        <5>1. k - 1 \in 1..Len(queue) /\ ~(k - 1 < i) /\ k - 1 < Len(queue)
              /\ (k - 1) + 1 = k
          BY <1>2, <4>2
        <5>2. queue'[k - 1] = queue[k]
          BY <2>2, <5>1
        <5> QED
          BY <2>1, <5>1, <5>2 DEF ToSet
      <4>3. k # i
        BY <3>2
      <4> QED
        BY <1>2, <4>1, <4>2, <4>3
    <3>3. p \in ToSet(queue')
      <4>1. Len(queue) \in 1..Len(queue) /\ ~(Len(queue) < i)
        BY <1>2
      <4>2. queue'[Len(queue)] = p
        BY <1>2, <2>2, <4>1
      <4> QED
        BY <2>1, <4>1, <4>2 DEF ToSet
    <3> QED
      BY <1>2, <2>1, <3>1, <3>2, <3>3 DEF ToSet
  <2>5. queue[i] \in ToSet(queue)
    BY <1>2 DEF ToSet
  <2>6. ~HasTwin(p)
    BY <1>8 DEF Displace
  <2> QED
    BY <1>1, <1>6, <2>2, <2>4, <2>5, <2>6
<1>9. CASE Refuse(p)
  BY <1>4, <1>9 DEF Refuse, Contract!vars
<1> QED
  BY <1>1, <1>5, <1>7, <1>8, <1>9

LEMMA TakeImplements ==
  ASSUME TypeOK, Order, Take
  PROVE  \E p \in Packet : Contract!Take(p)
<1>0. /\ queue \in Seq(Packet) /\ DOMAIN queue = 1..Len(queue) /\ Len(queue) \in Nat \ {0}
      /\ \A k \in 1..Len(queue) : queue[k] \in Packet
  BY TakeEffect, LenProperties, ElementOfSeq DEF TypeOK
<1> DEFINE p == queue[1]
           n == Len(queue) - 1
<1>1. /\ n \in Nat /\ 1 \in 1..Len(queue) /\ \A k \in 1..n : k + 1 \in 1..Len(queue)
      /\ \A k \in 1..Len(queue) : k = 1 \/ (k - 1 \in 1..n /\ (k - 1) + 1 = k /\ 1 < k)
  BY <1>0
<1>2. /\ queue' \in Seq(Packet) /\ DOMAIN queue' = 1..n
      /\ \A k \in 1..n : queue'[k] = queue[k + 1]
  BY <1>0, TakeEffect, LenProperties
<1>3. \A k \in 1..Len(queue) : k # 1 => queue[k] # queue[1]
  BY <1>0, <1>1, Distinct
<1> HIDE DEF n
<1>4. ToSet(queue') = ToSet(queue) \ {queue[1]}
  <2>1. ASSUME NEW k \in 1..n PROVE queue'[k] \in ToSet(queue) \ {queue[1]}
    <3>1. k + 1 \in 1..Len(queue) /\ k + 1 # 1
      BY <1>1
    <3> QED
      BY <1>0, <1>2, <1>3, <3>1 DEF ToSet
  <2>2. ASSUME NEW k \in 1..Len(queue), queue[k] # queue[1]
        PROVE  queue[k] \in ToSet(queue')
    <3>1. k - 1 \in 1..n /\ (k - 1) + 1 = k
      BY <1>1, <2>2
    <3>2. queue'[k - 1] = queue[k]
      BY <1>2, <3>1
    <3> QED
      BY <1>2, <3>1, <3>2 DEF ToSet
  <2> QED
    BY <1>0, <1>2, <2>1, <2>2 DEF ToSet
<1>5. IsPosition(p) \/ \A q \in ToSet(queue) : IsPosition(q) \/ p.serial <= q.serial
  <2>1. ASSUME ~IsPosition(p), NEW k \in 1..Len(queue), ~IsPosition(queue[k])
        PROVE  p.serial <= queue[k].serial
    <3>1. CASE k = 1
      BY <1>0, <3>1 DEF Packet
    <3>2. CASE 1 < k
      BY <1>0, <1>1, <2>1, <3>2 DEF Order, ControlInOrder, Packet
    <3> QED
      BY <1>1, <3>1, <3>2
  <2> QED
    BY <1>0, <2>1 DEF ToSet
<1>6. Joinable' = Joinable
  BY DEF Take, Joinable
<1>7. p \in Packet /\ p \in ToSet(queue)
  BY <1>0, <1>1 DEF ToSet
<1>8. Contract!Take(p)
  BY <1>4, <1>5, <1>6, <1>7 DEF Contract!Take, Contract!IsPosition, IsPosition
<1> QED
  BY <1>7, <1>8

(* Every step of the two threads is a step of the contract, or invisible.  *)
THEOREM Implementation == Spec => ImplementsContract
<1>1. Init => Contract!Init
  BY DEF Init, Contract!Init, Joinable, ToSet
<1>2. TypeOK /\ Phases /\ Order /\ [Next]_vars => [Contract!Next]_(Contract!vars)
  <2> SUFFICES ASSUME TypeOK, Phases, Order, [Next]_vars
               PROVE  Contract!Next \/ UNCHANGED Contract!vars
    OBVIOUS
  <2>0. \A q : q = <<>> => ToSet(q) = {}
    BY DEF ToSet
  <2>1. ASSUME NEW d \in Descriptors, Start(d) PROVE Contract!Open
    <3>1. queue = <<>> /\ queue' = <<>> /\ ~Joinable /\ worker' = "ready"
      BY <2>1 DEF Start, Phases, Joinable
    <3> QED
      BY <2>0, <3>1 DEF Contract!Open, Joinable
  <2>2. CASE FinishStop
    <3>1. queue = <<>> /\ queue' = <<>> /\ worker = "exited" /\ worker' = "none"
      BY <2>2 DEF FinishStop, Phases
    <3>2. Contract!Close
      BY <2>0, <3>1 DEF Contract!Close, Joinable
    <3> QED
      BY <3>2 DEF Contract!Next
  <2>3. CASE Notify \/ NotifyAll \/ BeginStop \/ CloseSocket
    BY <2>3 DEF Notify, NotifyAll, BeginStop, CloseSocket, Wake, queueVars, workerVars,
                Joinable, Contract!vars
  <2>4. CASE Sleep \/ SpuriousWake \/ Exit
    BY <2>4 DEF Sleep, SpuriousWake, Exit, queueVars, Joinable, Contract!vars
  <2>5. ASSUME NEW o \in {"sent", "dropped"}, Send(o) PROVE UNCHANGED Contract!vars
    BY <2>5 DEF Send, queueVars, Joinable, Contract!vars
  <2>6. CASE UNCHANGED vars
    BY <2>6 DEF vars, queueVars, workerVars, Joinable, Contract!vars
  <2> QED
    BY <2>1, <2>2, <2>3, <2>4, <2>5, <2>6, EnqueueImplements, TakeImplements
       DEF Next, GameThreadStep, WorkerStep, Contract!Next
<1> QED
  BY <1>1, <1>2, TypeCorrect, PhasesHold, OrderHolds, PTL
     DEF Spec, ImplementsContract, Contract!Spec

-----------------------------------------------------------------------------
(* What the promptness of the worker and the end of a stop rest on,        *)
(* fairness aside: somebody can always go on, and every step that is made  *)
(* leaves less to do.                                                      *)

(* The worker sleeps while a packet waits only until the notification that *)
(* the call behind the packet owes it, and Stop never joins a worker that  *)
(* sleeps or is gone already: notifications after the unlock get nobody    *)
(* stuck.                                                                  *)
NoWakeupIsLost ==
  /\ worker = "asleep" /\ queue # <<>> => caller = "notify"
  /\ caller = "join" => worker \in {"ready", "sending", "exited"}

InStop == caller \in {"notifyAll", "join", "close"}

WorkerRank ==
  IF worker \in {"none", "exited"} THEN 0 ELSE IF worker = "ready" THEN 1 ELSE 2

CallerRank ==
  IF caller = "notifyAll" THEN 3
  ELSE IF caller = "join" THEN 2
  ELSE IF caller = "close" THEN 1 ELSE 0

WorkLeft == 2 * Len(queue) + WorkerRank + CallerRank

(* From BeginStop on, whatever the two threads do brings the end of        *)
(* NeoPtt_Shutdown nearer, spurious wake-ups included: it takes no more    *)
(* steps than two for each packet of a full queue, and five.               *)
StopCountsDown ==
  [][InStop => WorkLeft' < WorkLeft /\ WorkLeft <= 2 * MaxPending + 5]_vars

(* Steps of the worker until the packet at this place leaves the queue.    *)
Ahead(i) == 2 * i + (IF worker = "ready" THEN 0 ELSE 1)

(* No step puts a waiting packet further back, however positions are       *)
(* refreshed, displaced and erased before it, and every step of the worker *)
(* brings it nearer to the front.                                          *)
PacketsMoveForward ==
  [][\A i \in DOMAIN queue, j \in DOMAIN queue' :
       queue'[j].serial = queue[i].serial =>
         /\ Ahead(j)' <= Ahead(i)
         /\ WorkerStep => Ahead(j)' < Ahead(i)]_vars

(* No notification is owed to a worker that sleeps beside work or a stop,  *)
(* and the flag is up exactly while Stop is at work.                       *)
Awake ==
  /\ worker = "asleep" /\ queue # <<>> => caller = "notify"
  /\ worker = "asleep" /\ stopping => caller = "notifyAll"
  /\ stopping <=> caller \in {"notifyAll", "join"}
  /\ stopping => worker # "none"

LEMMA AwakeStep == TypeOK /\ Phases /\ Awake /\ [Next]_vars => Awake'
<1> SUFFICES ASSUME TypeOK, Phases, Awake, [Next]_vars PROVE Awake'
  OBVIOUS
<1>1. ASSUME NEW d \in Descriptors, Start(d) PROVE Awake'
  BY <1>1 DEF Start, Awake
<1>2. ASSUME NEW t \in Types, NEW e \in Endpoints, NEW s \in Slots, Enqueue(t, e, s)
      PROVE  Awake'
  <2> DEFINE p == NewPacket(t, e, s)
  <2>1. /\ Coalesce(p) \/ Push(p) \/ Displace(p) \/ Refuse(p)
        /\ UNCHANGED <<stopping, worker>>
    BY <1>2, EnqueuePhase
  <2>2. caller = "idle" /\ ~stopping
    BY <1>2 DEF Enqueue
  <2> HIDE DEF p
  <2>3. CASE Coalesce(p)
    <3>1. queue # <<>> /\ caller' = caller
      <4>1. DOMAIN queue # {}
        BY <2>3 DEF Coalesce
      <4> QED
        BY <2>3, <4>1 DEF Coalesce
    <3> QED
      BY <2>1, <2>2, <3>1 DEF Awake
  <2>4. CASE Push(p) \/ Displace(p)
    <3>1. caller' = "notify"
      BY <2>4 DEF Push, Displace
    <3> QED
      BY <2>1, <2>2, <3>1 DEF Awake
  <2>5. CASE Refuse(p)
    BY <2>1, <2>2, <2>5 DEF Refuse, Awake
  <2> QED
    BY <2>1, <2>3, <2>4, <2>5
<1>3. CASE Take
  BY <1>3 DEF Take, Awake
<1>4. ASSUME NEW o \in {"sent", "dropped"}, Send(o) PROVE Awake'
  BY <1>4 DEF Send, Awake, queueVars
<1>5. CASE FinishStop \/ CloseSocket
  BY <1>5 DEF FinishStop, CloseSocket, Awake, queueVars, workerVars
<1>6. CASE Notify \/ NotifyAll
  BY <1>6 DEF Notify, NotifyAll, Wake, Awake, queueVars
<1>7. CASE BeginStop
  BY <1>7 DEF BeginStop, Awake, Joinable, workerVars
<1>8. CASE Sleep \/ SpuriousWake \/ Exit
  BY <1>8 DEF Sleep, SpuriousWake, Exit, Awake, queueVars
<1>9. CASE UNCHANGED vars
  BY <1>9 DEF vars, queueVars, workerVars, Awake
<1> QED
  BY <1>1, <1>2, <1>3, <1>4, <1>5, <1>6, <1>7, <1>8, <1>9
     DEF Next, GameThreadStep, WorkerStep

LEMMA AwakeHolds == Spec => []Awake
<1>1. Init => Awake
  BY DEF Init, Awake
<1> QED
  BY <1>1, AwakeStep, PhasesHold, TypeCorrect, PTL DEF Spec

(* No call leaves the worker asleep beside a packet, and no Stop joins a   *)
(* worker that nobody wakes.                                               *)
THEOREM NoWakeupLost == Spec => []NoWakeupIsLost
<1>1. TypeOK /\ Awake => NoWakeupIsLost
  BY DEF TypeOK, WorkerStates, Awake, NoWakeupIsLost
<1> QED
  BY <1>1, AwakeHolds, TypeCorrect, PTL

LEMMA Ranks ==
  ASSUME TypeOK
  PROVE  /\ WorkerRank \in 0..2 /\ CallerRank \in 0..3
         /\ Len(queue) \in Nat /\ WorkLeft \in Nat /\ WorkLeft <= 2 * MaxPending + 5
<1>1. WorkerRank \in 0..2 /\ CallerRank \in 0..3
  BY DEF WorkerRank, CallerRank
<1>2. Len(queue) \in Nat /\ Len(queue) <= MaxPending
  BY LenProperties DEF TypeOK
<1> QED
  BY <1>1, <1>2 DEF WorkLeft

LEMMA StopStep ==
  ASSUME TypeOK, Phases, Awake, InStop, Next
  PROVE  WorkLeft' < WorkLeft
<1>0. WorkerRank \in 0..2 /\ CallerRank \in 0..3 /\ Len(queue) \in Nat
  BY Ranks
<1>1. caller # "idle" /\ caller # "notify"
  BY DEF InStop
<1>2. CASE NotifyAll
  <2>1. UNCHANGED queue /\ CallerRank = 3 /\ CallerRank' = 2
    BY <1>2 DEF NotifyAll, CallerRank, queueVars
  <2>2. WorkerRank' = WorkerRank \/ (WorkerRank = 2 /\ WorkerRank' = 1)
    BY <1>2 DEF NotifyAll, Wake, WorkerRank
  <2> QED
    BY <1>0, <2>1, <2>2 DEF WorkLeft
<1>3. CASE FinishStop
  <2>1. /\ queue' = <<>> /\ queue = <<>>
        /\ CallerRank = 2 /\ CallerRank' = 1 /\ WorkerRank = 0 /\ WorkerRank' = 0
    BY <1>3 DEF FinishStop, Phases, CallerRank, WorkerRank
  <2> QED
    BY <1>0, <2>1 DEF WorkLeft
<1>4. CASE CloseSocket
  <2>1. UNCHANGED <<queue, WorkerRank>> /\ CallerRank = 1 /\ CallerRank' = 0
    BY <1>4 DEF CloseSocket, CallerRank, WorkerRank, queueVars, workerVars
  <2> QED
    BY <1>0, <2>1 DEF WorkLeft
<1>5. CASE Take
  <2>1. Len(queue') = Len(queue) - 1
    BY <1>5, TakeEffect DEF TypeOK
  <2>2. WorkerRank = 1 /\ WorkerRank' = 2 /\ CallerRank' = CallerRank
    BY <1>5 DEF Take, WorkerRank, CallerRank
  <2> QED
    BY <1>0, <2>1, <2>2 DEF WorkLeft
<1>6. ASSUME NEW o \in {"sent", "dropped"}, Send(o) PROVE WorkLeft' < WorkLeft
  <2>1. UNCHANGED <<queue, CallerRank>> /\ WorkerRank = 2 /\ WorkerRank' = 1
    BY <1>6 DEF Send, CallerRank, WorkerRank, queueVars
  <2> QED
    BY <1>0, <2>1 DEF WorkLeft
<1>7. CASE Exit
  <2>1. UNCHANGED <<queue, CallerRank>> /\ WorkerRank = 1 /\ WorkerRank' = 0
    BY <1>7 DEF Exit, CallerRank, WorkerRank, queueVars
  <2> QED
    BY <1>0, <2>1 DEF WorkLeft
<1>8. CASE SpuriousWake
  <2>1. UNCHANGED <<queue, CallerRank>> /\ WorkerRank = 2 /\ WorkerRank' = 1
    BY <1>8 DEF SpuriousWake, CallerRank, WorkerRank, queueVars
  <2> QED
    BY <1>0, <2>1 DEF WorkLeft
<1>9. ~Sleep
  BY DEF Sleep, InStop, Awake, Phases
<1> QED
  BY <1>1, <1>2, <1>3, <1>4, <1>5, <1>6, <1>7, <1>8, <1>9
     DEF Next, GameThreadStep, WorkerStep, Start, Enqueue, BeginStop, Notify

(* Once a stop has begun every step of either thread brings its end nearer.*)
THEOREM StopIsFinite == Spec => StopCountsDown
<1>1. TypeOK /\ Phases /\ Awake /\ [Next]_vars =>
        [InStop => WorkLeft' < WorkLeft /\ WorkLeft <= 2 * MaxPending + 5]_vars
  BY StopStep, Ranks
<1> QED
  BY <1>1, TypeCorrect, PhasesHold, AwakeHolds, PTL DEF Spec, StopCountsDown

-----------------------------------------------------------------------------
(* The serial tells apart all packets that wait.                           *)
Unique == \A i, k \in DOMAIN queue : queue[i].serial = queue[k].serial => i = k

(* No packet is further back than it was.                                  *)
Forward ==
  \A i \in DOMAIN queue, j \in DOMAIN queue' :
    queue'[j].serial = queue[i].serial => j <= i

(* What every critical section does to the deque: f says where the packet  *)
(* at each place was before, 0 that it is the new one.                     *)
LEMMA ShiftKeeps ==
  ASSUME TypeOK, Order, Unique, queue' \in Seq(Packet),
         NEW f \in [1..Len(queue') -> 0..Len(queue)],
         \A j, k \in 1..Len(queue') : f[j] = f[k] => j = k,
         \A j \in 1..Len(queue') :
           /\ f[j] = 0 => queue'[j].serial = serial + 1
           /\ f[j] # 0 => j <= f[j] /\ queue'[j] = queue[f[j]]
  PROVE  /\ Unique' /\ Forward
         /\ \A i \in DOMAIN queue, j \in DOMAIN queue' :
              queue'[j].serial = queue[i].serial => f[j] = i
<1>1. /\ DOMAIN queue = 1..Len(queue) /\ DOMAIN queue' = 1..Len(queue')
      /\ Len(queue) \in Nat /\ Len(queue') \in Nat /\ serial \in Nat
  BY LenProperties DEF TypeOK
<1>2. \A k \in 1..Len(queue) : queue[k].serial \in Nat /\ queue[k].serial <= serial
  <2>1. \A k \in 1..Len(queue) : queue[k] \in Packet
    BY <1>1, ElementOfSeq DEF TypeOK
  <2>2. \A k \in 1..Len(queue) : queue[k].serial \in 1..MaxSerial
    BY <2>1 DEF Packet
  <2>3. \A k \in 1..Len(queue) : queue[k].serial <= serial
    BY <1>1 DEF Order, Bounded
  <2> QED
    BY <2>2, <2>3
<1>3. \A j \in 1..Len(queue') : f[j] # 0 => f[j] \in 1..Len(queue)
  BY <1>1
<1>4. \A k \in 1..Len(queue) : queue[k].serial # serial + 1
  BY <1>1, <1>2
<1>5. ASSUME NEW i \in 1..Len(queue), NEW j \in 1..Len(queue'),
             queue'[j].serial = queue[i].serial
      PROVE  f[j] = i /\ j <= i
  <2>1. f[j] # 0
    BY <1>4, <1>5
  <2>2. f[j] \in 1..Len(queue) /\ queue'[j] = queue[f[j]] /\ j <= f[j]
    BY <1>3, <2>1
  <2>3. f[j] = i
    BY <1>1, <1>5, <2>2 DEF Unique
  <2> QED
    BY <2>2, <2>3
<1>6. ASSUME NEW j \in 1..Len(queue'), NEW k \in 1..Len(queue'),
             queue'[j].serial = queue'[k].serial
      PROVE  j = k
  <2>1. CASE f[k] # 0
    <3>1. f[k] \in 1..Len(queue) /\ queue'[k] = queue[f[k]]
      BY <1>3, <2>1
    <3>2. f[j] = f[k]
      BY <1>5, <1>6, <3>1
    <3> QED
      BY <3>2
  <2>2. CASE f[k] = 0 /\ f[j] # 0
    <3>1. f[j] \in 1..Len(queue) /\ queue'[j] = queue[f[j]] /\ queue'[k].serial = serial + 1
      BY <1>3, <2>2
    <3> QED
      BY <1>4, <1>6, <3>1
  <2>3. CASE f[k] = 0 /\ f[j] = 0
    BY <2>3
  <2> QED
    BY <2>1, <2>2, <2>3
<1> QED
  BY <1>1, <1>5, <1>6 DEF Unique, Forward

LEMMA EnqueueForward ==
  ASSUME TypeOK, Phases, Order, Unique,
         NEW t \in Types, NEW e \in Endpoints, NEW s \in Slots, Enqueue(t, e, s)
  PROVE  Unique' /\ Forward /\ worker' = worker
<1> DEFINE p == NewPacket(t, e, s)
           n == Len(queue)
<1>1. /\ p \in Packet /\ p.serial = serial + 1 /\ worker' = worker
      /\ Coalesce(p) \/ Push(p) \/ Displace(p) \/ Refuse(p)
  BY EnqueuePhase, NewPacketType
<1> HIDE DEF p
<1>2. queue \in Seq(Packet) /\ n \in Nat
  BY LenProperties DEF TypeOK
<1>3. CASE Coalesce(p)
  <2>1. queue' \in Seq(Packet) /\ Len(queue') = n
    BY <1>1, <1>2, <1>3, CoalesceEffect
  <2>2. PICK i \in 1..n : \A k \in 1..n : queue'[k] = IF k = i THEN p ELSE queue[k]
    BY <1>1, <1>2, <1>3, CoalesceEffect
  <2> DEFINE f == [j \in 1..n |-> IF j = i THEN 0 ELSE j]
  <2>3. /\ f \in [1..Len(queue') -> 0..n]
        /\ \A j, k \in 1..Len(queue') : f[j] = f[k] => j = k
    BY <1>2, <2>1
  <2>4. \A j \in 1..Len(queue') :
          /\ f[j] = 0 => queue'[j].serial = serial + 1
          /\ f[j] # 0 => j <= f[j] /\ queue'[j] = queue[f[j]]
    BY <1>1, <1>2, <2>1, <2>2
  <2> HIDE DEF f
  <2> QED
    BY <1>1, <2>1, <2>3, <2>4, ShiftKeeps
<1>4. CASE Push(p)
  <2>1. /\ queue' \in Seq(Packet) /\ Len(queue') = n + 1 /\ queue'[n + 1] = p
        /\ \A k \in 1..n : queue'[k] = queue[k]
    BY <1>1, <1>2, <1>4, PushEffect
  <2> DEFINE f == [j \in 1..(n + 1) |-> IF j = n + 1 THEN 0 ELSE j]
  <2>2. /\ f \in [1..Len(queue') -> 0..n]
        /\ \A j, k \in 1..Len(queue') : f[j] = f[k] => j = k
        /\ \A j \in 1..Len(queue') :
             /\ f[j] = 0 => queue'[j].serial = serial + 1
             /\ f[j] # 0 => j <= f[j] /\ queue'[j] = queue[f[j]]
    BY <1>1, <1>2, <2>1
  <2> HIDE DEF f
  <2> QED
    BY <1>1, <2>1, <2>2, ShiftKeeps
<1>5. CASE Displace(p)
  <2>1. queue' \in Seq(Packet) /\ Len(queue') = n
    BY <1>1, <1>2, <1>5, DisplaceEffect
  <2>2. PICK i \in 1..n : \A k \in 1..n :
           queue'[k] = IF k < i THEN queue[k] ELSE IF k < n THEN queue[k + 1] ELSE p
    BY <1>1, <1>2, <1>5, DisplaceEffect
  <2> DEFINE f == [j \in 1..n |-> IF j < i THEN j ELSE IF j < n THEN j + 1 ELSE 0]
  <2>3. /\ f \in [1..Len(queue') -> 0..n]
        /\ \A j, k \in 1..Len(queue') : f[j] = f[k] => j = k
    BY <1>2, <2>1
  <2>4. \A j \in 1..Len(queue') :
          /\ f[j] = 0 => queue'[j].serial = serial + 1
          /\ f[j] # 0 => j <= f[j] /\ queue'[j] = queue[f[j]]
    BY <1>1, <1>2, <2>1, <2>2
  <2> HIDE DEF f
  <2> QED
    BY <1>1, <2>1, <2>3, <2>4, ShiftKeeps
<1>6. CASE Refuse(p)
  <2>1. queue' = queue
    BY <1>6 DEF Refuse
  <2>2. DOMAIN queue = 1..n
    BY LenProperties DEF TypeOK
  <2> QED
    BY <1>1, <1>2, <2>1, <2>2 DEF Unique, Forward
<1> QED
  BY <1>1, <1>3, <1>4, <1>5, <1>6

(* The front packet leaves, all others move up by one.                     *)
LEMMA TakeForward ==
  ASSUME TypeOK, Order, Unique, Take
  PROVE  /\ Unique'
         /\ \A i \in DOMAIN queue, j \in DOMAIN queue' :
              queue'[j].serial = queue[i].serial => i = j + 1
<1> DEFINE n == Len(queue) - 1
           f == [j \in 1..n |-> j + 1]
<1>1. /\ queue' \in Seq(Packet) /\ Len(queue) \in Nat \ {0} /\ Len(queue') = n
      /\ \A k \in 1..n : queue'[k] = queue[k + 1]
  BY TakeEffect DEF TypeOK
<1>2. /\ f \in [1..Len(queue') -> 0..Len(queue)]
      /\ \A j, k \in 1..Len(queue') : f[j] = f[k] => j = k
      /\ \A j \in 1..Len(queue') :
           /\ f[j] = 0 => queue'[j].serial = serial + 1
           /\ f[j] # 0 => j <= f[j] /\ queue'[j] = queue[f[j]]
  BY <1>1
<1>3. /\ \A j \in 1..n : f[j] = j + 1
      /\ DOMAIN queue' = 1..n
  BY <1>1, LenProperties
<1> HIDE DEF f, n
<1>4. /\ Unique'
      /\ \A i \in DOMAIN queue, j \in DOMAIN queue' :
           queue'[j].serial = queue[i].serial => f[j] = i
  BY <1>1, <1>2, ShiftKeeps
<1> QED
  BY <1>3, <1>4

(* How far every waiting packet is from its turn, before and after a step. *)
Nearer ==
  \A i \in DOMAIN queue, j \in DOMAIN queue' :
    queue'[j].serial = queue[i].serial =>
      /\ Ahead(j)' <= Ahead(i)
      /\ WorkerStep => Ahead(j)' < Ahead(i)

LEMMA ForwardStep ==
  ASSUME TypeOK, TypeOK', Phases, Order, Unique, [Next]_vars
  PROVE  Unique' /\ Nearer
<1>0. /\ DOMAIN queue \subseteq Nat /\ DOMAIN queue' \subseteq Nat
      /\ DOMAIN <<>> = {}
  BY LenProperties DEF TypeOK
<1>1. CASE WorkerStep
  <2>1. CASE Take
    <3>1. worker = "ready" /\ worker' = "sending"
      BY <2>1 DEF Take
    <3>2. /\ Unique'
          /\ \A i \in DOMAIN queue, j \in DOMAIN queue' :
               queue'[j].serial = queue[i].serial => i = j + 1
      BY <2>1, TakeForward
    <3> QED
      BY <1>0, <3>1, <3>2 DEF Nearer, Ahead
  <2>2. ASSUME NEW o \in {"sent", "dropped"}, Send(o) PROVE Unique' /\ Nearer
    <3>1. worker = "sending" /\ worker' = "ready" /\ queue' = queue
      BY <2>2 DEF Send, queueVars
    <3> QED
      BY <1>0, <3>1 DEF Unique, Nearer, Ahead
  <2>3. CASE Sleep \/ Exit
    <3>1. queue = <<>> /\ queue' = <<>>
      BY <2>3 DEF Sleep, Exit, queueVars
    <3> QED
      BY <1>0, <3>1 DEF Unique, Nearer
  <2> QED
    BY <1>1, <2>1, <2>2, <2>3 DEF WorkerStep
<1>2. CASE ~WorkerStep
  <2>1. ASSUME NEW t \in Types, NEW e \in Endpoints, NEW s \in Slots, Enqueue(t, e, s)
        PROVE  Unique' /\ Nearer
    <3>1. Unique' /\ Forward /\ worker' = worker
      BY <2>1, EnqueueForward
    <3> QED
      BY <1>0, <1>2, <3>1 DEF Forward, Nearer, Ahead
  <2>2. CASE queue' = <<>>
    BY <1>0, <2>2 DEF Unique, Nearer
  <2>3. CASE queue' = queue /\ (worker' = worker \/ worker' = "ready")
    BY <1>0, <1>2, <2>3 DEF Unique, Nearer, Ahead
  <2>4. CASE Notify \/ NotifyAll \/ BeginStop \/ CloseSocket \/ SpuriousWake \/ UNCHANGED vars
    BY <2>3, <2>4 DEF Notify, NotifyAll, BeginStop, CloseSocket, SpuriousWake, Wake, vars,
                      queueVars, workerVars
  <2>5. ASSUME FinishStop \/ \E d \in Descriptors : Start(d) PROVE queue' = <<>>
    BY <2>5 DEF FinishStop, Start
  <2> QED
    BY <1>2, <2>1, <2>2, <2>4, <2>5 DEF Next, GameThreadStep
<1> QED
  BY <1>1, <1>2

(* A waiting packet is never put back, and the worker's steps bring it to  *)
(* its turn.                                                               *)
THEOREM PacketsComeForward == Spec => PacketsMoveForward
<1>1. Init => Unique
  BY EmptySeq DEF Init, Unique
<1>2. TypeOK /\ TypeOK' /\ Phases /\ Order /\ Unique /\ [Next]_vars => Unique' /\ [Nearer]_vars
  BY ForwardStep
<1>3. [Nearer]_vars =>
        [\A i \in DOMAIN queue, j \in DOMAIN queue' :
           queue'[j].serial = queue[i].serial =>
             /\ Ahead(j)' <= Ahead(i)
             /\ WorkerStep => Ahead(j)' < Ahead(i)]_vars
  BY DEF Nearer
<1> QED
  BY <1>1, <1>2, <1>3, TypeCorrect, PhasesHold, OrderHolds, PTL DEF Spec, PacketsMoveForward
=============================================================================
