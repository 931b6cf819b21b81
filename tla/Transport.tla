----------------------------- MODULE Transport -----------------------------
(***************************************************************************)
(* The outbound UDP transport of the NEO ADMIN plugin                      *)
(* (server/src/neo_admin_transport.cpp) with the socket life cycle around  *)
(* it (NeoPtt_Start and NeoPtt_Shutdown in server/src/neo_ptt.cpp).        *)
(*                                                                         *)
(* Two threads.  The game thread starts and stops the transport and hands  *)
(* it packets; the worker signs them and calls sendto.  They share a       *)
(* bounded deque, a stop flag and the descriptor under g_mutex; a          *)
(* condition variable wakes the worker.  Every action below is one         *)
(* critical section of the mutex or one step outside it, so that the       *)
(* notifications, which the code issues after unlocking, interleave with   *)
(* the worker as they do at run time.                                      *)
(***************************************************************************)
EXTENDS Naturals, SequencesExt

CONSTANTS
  Endpoints,      \* peer addresses (sockaddr_storage and its length)
  Slots,          \* player slots a packet can name
  Descriptors,    \* descriptor numbers socket() can return
  NoDescriptor,   \* the -1 of g_socket
  NoPacket,       \* the worker holds no job
  MaxPending,     \* kMaximumPendingPackets
  MaxSerial       \* bound of the model: Enqueue calls per Start

ASSUME MaxPendingAssumption == MaxPending \in Nat \ {0}
ASSUME MaxSerialAssumption == MaxSerial \in Nat

(* Only "is it a player position" matters to the queue; the other message  *)
(* types (voice, admin replies, roster) are "control".  The serial is the  *)
(* number of the Enqueue call: it identifies the packet in the properties. *)
Types == {"position", "control"}

Packet == [type : Types, endpoint : Endpoints, slot : Slots, serial : 1..MaxSerial]

ASSUME NoDescriptorAssumption == NoDescriptor \notin Descriptors
ASSUME NoPacketAssumption == NoPacket \notin Packet

VARIABLES
  queue,          \* g_queue
  stopping,       \* g_stopping
  socket,         \* g_socket of the transport
  stats,          \* the four atomic counters
  worker,         \* where the worker thread stands; "none": not joinable
  hand,           \* the job the worker popped
  handSocket,     \* the descriptor it copied with the job
  caller,         \* where the game thread stands
  listening,      \* g_socket of neo_ptt.cpp: the descriptor that is open
  serial,         \* history: Enqueue calls since Start
  refused,        \* history: calls turned away by a full queue
  newest          \* history: the last position offered for each target

queueVars  == <<queue, stopping, socket>>
workerVars == <<worker, hand, handSocket>>
history == <<serial, refused, newest>>
vars == <<queueVars, stats, workerVars, caller, listening, history>>

IsPosition(p) == p.type = "position"

(* SameEndpoint and the player_slot comparison.                            *)
Target(p) == <<p.endpoint, p.slot>>
SameTarget(p, q) == Target(p) = Target(q)

Joinable == worker # "none"

Zero == [queued |-> 0, sent |-> 0, dropped |-> 0, coalesced |-> 0]

NothingOffered == [t \in Endpoints \X Slots |-> 0]

Bump(field) == stats' = [stats EXCEPT ![field] = @ + 1]

Init ==
  /\ queue = <<>>
  /\ stopping = FALSE
  /\ socket = NoDescriptor
  /\ stats = Zero
  /\ worker = "none"
  /\ hand = NoPacket
  /\ handSocket = NoDescriptor
  /\ caller = "idle"
  /\ listening = NoDescriptor
  /\ serial = 0
  /\ refused = 0
  /\ newest = NothingOffered

IsTwin(i, p) == IsPosition(queue[i]) /\ SameTarget(queue[i], p)

Wake == worker' = IF worker = "asleep" THEN "ready" ELSE worker

-----------------------------------------------------------------------------
(* Faulty variants of the definitions below: what a plausible slip in the  *)
(* code would do.  No specification uses them; each is put in the place of *)
(* the definition it is named after to show that a property notices.       *)

(* A pending position makes the new one redundant instead of obsolete.     *)
Coalesce_KeepsOld(p) ==
  /\ IsPosition(p) /\ \E i \in DOMAIN queue : IsTwin(i, p)
  /\ Bump("coalesced")
  /\ UNCHANGED <<queue, caller, refused>>

(* The capacity test is off by one.                                        *)
Push_OffByOne(p) ==
  /\ ~(IsPosition(p) /\ \E i \in DOMAIN queue : IsTwin(i, p))
  /\ Len(queue) <= MaxPending
  /\ queue' = Append(queue, p)
  /\ Bump("queued")
  /\ caller' = "notify"
  /\ UNCHANGED refused

(* The new packet takes the place of the position it displaces.            *)
Displace_InPlace(p) ==
  /\ Len(queue) >= MaxPending
  /\ \E i \in DOMAIN queue : IsPosition(queue[i]) /\ queue' = ReplaceAt(queue, i, p)
  /\ stats' = [stats EXCEPT !.queued = @ + 1, !.dropped = @ + 1]
  /\ caller' = "notify"
  /\ UNCHANGED refused

(* The displaced position is not counted.                                  *)
Displace_Uncounted(p) ==
  /\ Len(queue) >= MaxPending
  /\ \E i \in DOMAIN queue :
        IsPosition(queue[i]) /\ queue' = Append(RemoveAt(queue, i), p)
  /\ Bump("queued")
  /\ caller' = "notify"
  /\ UNCHANGED refused

(* The notification reaches nobody.                                        *)
Notify_Lost ==
  /\ caller = "notify"
  /\ caller' = "idle"
  /\ UNCHANGED <<queueVars, stats, workerVars, listening, history>>

NotifyAll_Lost ==
  /\ caller = "notifyAll"
  /\ caller' = "join"
  /\ UNCHANGED <<queueVars, stats, workerVars, listening, history>>

(* The worker is detached instead of joined.                               *)
FinishStop_NoJoin ==
  /\ caller = "join"
  /\ caller' = "close"
  /\ UNCHANGED <<queueVars, stats, workerVars, listening, history>>

(* The worker leaves as soon as the flag is raised.                        *)
Exit_Undrained ==
  /\ worker = "ready" /\ stopping
  /\ worker' = "exited"
  /\ UNCHANGED <<queueVars, stats, hand, handSocket, caller, listening, history>>

-----------------------------------------------------------------------------
(* The game thread.                                                        *)

(* NeoPtt_Start: an open socket is handed to transport::Start, which       *)
(* clears what an earlier run left and creates the worker.  Start's other  *)
(* branches (a negative descriptor, a worker that already runs) are not    *)
(* reachable from here: NeoPtt_Start returns early while it listens.       *)
Start(d) ==
  /\ caller = "idle" /\ listening = NoDescriptor /\ ~Joinable
  /\ listening' = d
  /\ socket' = d
  /\ stopping' = FALSE
  /\ queue' = <<>>
  /\ stats' = Zero
  /\ worker' = "ready"
  /\ serial' = 0
  /\ refused' = 0
  /\ newest' = NothingOffered
  /\ UNCHANGED <<hand, handSocket, caller>>

HasTwin(p) == IsPosition(p) /\ \E i \in DOMAIN queue : IsTwin(i, p)

(* A pending position of the same target is overwritten where it stands;   *)
(* the search runs from the back.  Nobody is notified.                     *)
Coalesce(p) ==
  /\ HasTwin(p)
  /\ \E i \in DOMAIN queue :
        /\ IsTwin(i, p)
        /\ \A k \in DOMAIN queue : k > i => ~IsTwin(k, p)
        /\ queue' = ReplaceAt(queue, i, p)
  /\ Bump("coalesced")
  /\ UNCHANGED <<caller, refused>>

Push(p) ==
  /\ ~HasTwin(p)
  /\ Len(queue) < MaxPending
  /\ queue' = Append(queue, p)
  /\ Bump("queued")
  /\ caller' = "notify"
  /\ UNCHANGED refused

(* A full queue gives up its oldest position, of any target.               *)
Displace(p) ==
  /\ ~HasTwin(p)
  /\ Len(queue) >= MaxPending
  /\ \E i \in DOMAIN queue :
        /\ IsPosition(queue[i])
        /\ \A k \in DOMAIN queue : k < i => ~IsPosition(queue[k])
        /\ queue' = Append(RemoveAt(queue, i), p)
  /\ stats' = [stats EXCEPT !.queued = @ + 1, !.dropped = @ + 1]
  /\ caller' = "notify"
  /\ UNCHANGED refused

(* ... and if it holds none, the new packet is the one dropped.            *)
Refuse(p) ==
  /\ ~HasTwin(p)
  /\ Len(queue) >= MaxPending
  /\ \A i \in DOMAIN queue : ~IsPosition(queue[i])
  /\ Bump("dropped")
  /\ refused' = refused + 1
  /\ UNCHANGED <<queue, caller>>

(* Enqueue's critical section.  QueuePacketTo only calls it on an open     *)
(* socket with a non-empty secret; a stopping transport returns false.     *)
Enqueue(t, e, s) ==
  /\ caller = "idle" /\ listening # NoDescriptor
  /\ Joinable /\ ~stopping
  /\ serial < MaxSerial
  /\ serial' = serial + 1
  /\ LET p == [type |-> t, endpoint |-> e, slot |-> s, serial |-> serial + 1]
     IN  /\ Coalesce(p) \/ Push(p) \/ Displace(p) \/ Refuse(p)
         /\ newest' = IF IsPosition(p) THEN [newest EXCEPT ![Target(p)] = p.serial] ELSE newest
  /\ UNCHANGED <<stopping, socket, workerVars, listening>>

(* notify_one, after the lock is released.                                 *)
Notify ==
  /\ caller = "notify"
  /\ caller' = "idle"
  /\ Wake
  /\ UNCHANGED <<queueVars, stats, hand, handSocket, listening, history>>

(* Stop raises the flag under the lock, then notifies, then joins.         *)
BeginStop ==
  /\ caller = "idle" /\ listening # NoDescriptor /\ Joinable
  /\ stopping' = TRUE
  /\ caller' = "notifyAll"
  /\ UNCHANGED <<queue, socket, stats, workerVars, listening, history>>

NotifyAll ==
  /\ caller = "notifyAll"
  /\ caller' = "join"
  /\ Wake
  /\ UNCHANGED <<queueVars, stats, hand, handSocket, listening, history>>

(* join returns once the worker has left Run.                              *)
FinishStop ==
  /\ caller = "join" /\ worker = "exited"
  /\ queue' = <<>>
  /\ socket' = NoDescriptor
  /\ stopping' = FALSE
  /\ worker' = "none"
  /\ caller' = "close"
  /\ UNCHANGED <<stats, hand, handSocket, listening, history>>

(* NeoPtt_Shutdown closes the descriptor after Stop has returned.          *)
CloseSocket ==
  /\ caller = "close"
  /\ listening' = NoDescriptor
  /\ caller' = "idle"
  /\ UNCHANGED <<queueVars, stats, workerVars, history>>

-----------------------------------------------------------------------------
(* The worker: Run.                                                        *)

Sleep ==
  /\ worker = "ready" /\ ~stopping /\ queue = <<>>
  /\ worker' = "asleep"
  /\ UNCHANGED <<queueVars, stats, hand, handSocket, caller, listening, history>>

(* wait re-evaluates its predicate after a wake-up nobody asked for.       *)
SpuriousWake ==
  /\ worker = "asleep"
  /\ worker' = "ready"
  /\ UNCHANGED <<queueVars, stats, hand, handSocket, caller, listening, history>>

Take ==
  /\ worker = "ready" /\ queue # <<>>
  /\ hand' = Head(queue)
  /\ queue' = Tail(queue)
  /\ handSocket' = socket
  /\ worker' = "sending"
  /\ UNCHANGED <<stopping, socket, stats, caller, listening, history>>

Exit ==
  /\ worker = "ready" /\ stopping /\ queue = <<>>
  /\ worker' = "exited"
  /\ UNCHANGED <<queueVars, stats, hand, handSocket, caller, listening, history>>

(* Outside the lock: the packet is built and sendto either takes all of it *)
(* or not; a packet that cannot be built counts as dropped too.            *)
Send(outcome) ==
  /\ worker = "sending"
  /\ Bump(outcome)
  /\ hand' = NoPacket
  /\ handSocket' = NoDescriptor
  /\ worker' = "ready"
  /\ UNCHANGED <<queueVars, caller, listening, history>>

-----------------------------------------------------------------------------
GameThreadStep == Notify \/ NotifyAll \/ FinishStop \/ CloseSocket

WorkerStep == Sleep \/ Take \/ Exit \/ \E o \in {"sent", "dropped"} : Send(o)

Next ==
  \/ \E d \in Descriptors : Start(d)
  \/ \E t \in Types, e \in Endpoints, s \in Slots : Enqueue(t, e, s)
  \/ BeginStop
  \/ GameThreadStep
  \/ WorkerStep
  \/ SpuriousWake

Spec == Init /\ [][Next]_vars

(* Both threads are scheduled, neither call blocks (sendto is called with  *)
(* MSG_DONTWAIT), and a call that was begun is finished.  Nothing obliges  *)
(* the game to enqueue or to stop.                                         *)
FairSpec == Spec /\ WF_vars(WorkerStep) /\ WF_vars(GameThreadStep)

-----------------------------------------------------------------------------
(* Properties.                                                             *)

WorkerStates == {"none", "ready", "asleep", "sending", "exited"}
CallerStates == {"idle", "notify", "notifyAll", "join", "close"}

(* The variables hold values of their types, and the deque never outgrows  *)
(* kMaximumPendingPackets (neo_admin_transport.cpp:22,257).                *)
TypeOK ==
  /\ queue \in Seq(Packet) /\ Len(queue) <= MaxPending
  /\ stopping \in BOOLEAN
  /\ socket \in Descriptors \cup {NoDescriptor}
  /\ stats \in [queued : Nat, sent : Nat, dropped : Nat, coalesced : Nat]
  /\ worker \in WorkerStates
  /\ hand \in Packet \cup {NoPacket}
  /\ handSocket \in Descriptors \cup {NoDescriptor}
  /\ caller \in CallerStates
  /\ listening \in Descriptors \cup {NoDescriptor}
  /\ serial \in 0..MaxSerial
  /\ refused \in Nat
  /\ newest \in [Endpoints \X Slots -> 0..MaxSerial]

InHand == IF worker = "sending" THEN 1 ELSE 0

(* The counters reported to administrators in the server-health reply add  *)
(* up at every instant, although two threads bump them and only one holds  *)
(* the lock: every call is queued, coalesced or refused, and every queued  *)
(* packet is sent, dropped, pending or in the worker's hand.               *)
Accounting ==
  /\ serial = stats.queued + stats.coalesced + refused
  /\ stats.queued + refused = stats.sent + stats.dropped + Len(queue) + InHand

(* Coalescing leaves at most one pending position per target, whatever     *)
(* mix of refreshes, displacements and sends came before.                  *)
OnePositionPerTarget ==
  \A i, k \in DOMAIN queue :
     /\ IsPosition(queue[i]) /\ IsPosition(queue[k])
     /\ SameTarget(queue[i], queue[k])
     => i = k

(* Replacing positions in place and erasing them from the middle never     *)
(* reorders the other packets: controls reach sendto in the order of the   *)
(* calls, the one in the worker's hand first.  The mobile client discards  *)
(* voice that arrives behind a newer sequence (MobileVoiceAudio.cs:132).   *)
ControlInOrder ==
  /\ \A i, k \in DOMAIN queue :
        i < k /\ ~IsPosition(queue[i]) /\ ~IsPosition(queue[k])
        => queue[i].serial < queue[k].serial
  /\ worker = "sending" /\ ~IsPosition(hand) =>
        \A i \in DOMAIN queue : ~IsPosition(queue[i]) => hand.serial < queue[i].serial

(* However refreshes, displacements and sends interleave, the position     *)
(* that waits for a target is the last one offered, and one the worker is  *)
(* already sending is older: the peer never sees a player jump back.       *)
FreshestPosition ==
  /\ \A i \in DOMAIN queue : IsPosition(queue[i]) =>
        queue[i].serial = newest[Target(queue[i])]
  /\ worker = "sending" /\ IsPosition(hand) =>
        \A i \in DOMAIN queue : IsTwin(i, hand) => hand.serial < queue[i].serial

(* While the worker is inside sendto its copy of the descriptor is the one *)
(* that is open: Stop joins before NeoPtt_Shutdown closes, so a reused     *)
(* descriptor number is never written to by a worker of an earlier run.    *)
SendsOnOpenSocket == worker = "sending" => handSocket = listening

Pending(n) == \E i \in DOMAIN queue : queue[i].serial = n

(* Every pending packet is eventually taken or superseded: no wake-up is   *)
(* lost between the predicate of wait and a notify issued after unlocking. *)
EveryPacketLeaves == \A n \in 1..MaxSerial : Pending(n) ~> ~Pending(n)

(* Unloading the plugin terminates: Stop's join returns and the socket is  *)
(* closed, however the stop interleaves with the worker.                   *)
StopTerminates == caller = "notifyAll" ~> listening = NoDescriptor
=============================================================================
