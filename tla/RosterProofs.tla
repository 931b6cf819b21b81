---------------------------- MODULE RosterProofs ----------------------------
(***************************************************************************)
(* The list and the map of the Windows client agree in every reachable     *)
(* state, for all players, slots, maps and times, and whatever the network *)
(* does: nothing is assumed of the packets that arrive.                    *)
(*                                                                         *)
(* The invariant says beside ViewConsistent only that a row is a record    *)
(* of its five fields, so that a change of one leaves the others.          *)
(* The types of the whole composition follow in a section of their own,    *)
(* and on them rest the last two: what a step may do to the map and to the *)
(* list when the server tells the truth about them.                        *)
(***************************************************************************)
EXTENDS Roster, SequenceLemmas

IsRow(r) == r = [who |-> r.who, slot |-> r.slot, age |-> r.age,
                 pending |-> r.pending, seen |-> r.seen]

Distinct(entries) ==
  \A q, r \in entries : q.slot = r.slot \/ Key(q) = Key(r) => q = r

RowsOK(entries) == Distinct(entries) /\ \A r \in entries : IsRow(r)

Consistent(entries, marked) == RowsOK(entries) /\ marked \subseteq Keys(entries)

IInv == Consistent(rows, markers)

(* Rows that change without changing player or slot (RemovePlayer,         *)
(* BeginRosterTransition, the passing of time) stay distinct and keep      *)
(* their keys.                                                             *)
LEMMA Touched ==
  ASSUME NEW old, RowsOK(old), NEW touch,
         \A r \in old : /\ IsRow(touch[r])
                        /\ touch[r].who = r.who /\ touch[r].slot = r.slot
  PROVE  LET new == {touch[r] : r \in old}
         IN RowsOK(new) /\ Keys(new) = Keys(old)
<1> DEFINE new == {touch[r] : r \in old}
<1>1. \A r \in old : Key(touch[r]) = Key(r)
  BY DEF Key
<1>2. ASSUME NEW m \in new, NEW n \in new, m.slot = n.slot \/ Key(m) = Key(n)
      PROVE  m = n
  <2>1. PICK q \in old : m = touch[q]
    OBVIOUS
  <2>2. PICK r \in old : n = touch[r]
    OBVIOUS
  <2>3. q = r
    BY <1>1, <1>2, <2>1, <2>2 DEF RowsOK, Distinct
  <2> QED
    BY <2>1, <2>2, <2>3
<1>3. Distinct(new)
  BY <1>2 DEF Distinct
<1>4. Keys(new) = Keys(old)
  BY <1>1 DEF Keys
<1> QED
  BY <1>3, <1>4 DEF RowsOK

(* RemovePlayerState takes the marker with the row.                        *)
LEMMA DropKeeps ==
  ASSUME IInv, NEW gone, Drop(gone)
  PROVE  Consistent(rows', markers')
<1>1. rows' = rows \ gone /\ markers' = markers \ Keys(gone)
  BY DEF Drop
<1>2. RowsOK(rows')
  BY <1>1 DEF IInv, Consistent, RowsOK, Distinct
<1>3. markers' \subseteq Keys(rows')
  BY <1>1 DEF IInv, Consistent, Keys
<1> QED
  BY <1>2, <1>3 DEF Consistent

(* UpsertPlayer: the only other row of the slot is the one that goes.      *)
LEMMA UpsertKeeps ==
  ASSUME IInv, NEW packet, NEW marking, Upsert(packet, marking)
  PROVE  Consistent(rows', markers')
<1> DEFINE fresh == Fresh(packet)
<1>1. PICK gone \in FirstOf(SlotOwners(packet)) :
        /\ rows' = {r \in rows \ gone : Key(r) # Key(packet)} \cup {fresh}
        /\ markers' = (markers \ Keys(gone)) \cup (IF marking THEN {Key(packet)} ELSE {})
  BY DEF Upsert
<1>2. fresh.slot = packet.slot /\ Key(fresh) = Key(packet) /\ IsRow(fresh)
  BY DEF Fresh, Key, IsRow
<1>3. gone = SlotOwners(packet)
  BY DEF IInv, Consistent, RowsOK, Distinct, FirstOf, SlotOwners, InSlot
<1>4. \A r \in rows \ gone : Key(r) # Key(packet) => r.slot # fresh.slot
  BY <1>2, <1>3 DEF SlotOwners, InSlot
<1> HIDE DEF fresh
<1>5. RowsOK(rows')
  BY <1>1, <1>2, <1>4 DEF IInv, Consistent, RowsOK, Distinct
<1>6. markers' \subseteq Keys(rows')
  <2> SUFFICES ASSUME NEW key \in markers'
               PROVE  \E r \in rows' : key = Key(r)
    BY DEF Keys
  <2>1. CASE key = Key(packet)
    BY <1>1, <1>2, <2>1
  <2>2. CASE key # Key(packet)
    <3>1. key \in markers /\ key \notin Keys(gone)
      BY <1>1, <2>2
    <3>2. PICK r \in rows : key = Key(r)
      BY <3>1 DEF IInv, Consistent, Keys
    <3>3. r \in rows'
      BY <1>1, <2>2, <3>1, <3>2 DEF Keys
    <3> QED
      BY <3>2, <3>3
  <2> QED
    BY <2>1, <2>2
<1> QED
  BY <1>5, <1>6 DEF Consistent

(* A changed field leaves the others.                                      *)
LEMMA Amended ==
  ASSUME NEW r, IsRow(r), NEW pending, NEW age, NEW seen
  PROVE  /\ [r EXCEPT !.pending = pending] =
              [who |-> r.who, slot |-> r.slot, age |-> r.age, pending |-> pending, seen |-> r.seen]
         /\ [r EXCEPT !.age = age] =
              [who |-> r.who, slot |-> r.slot, age |-> age, pending |-> r.pending, seen |-> r.seen]
         /\ [r EXCEPT !.seen = seen] =
              [who |-> r.who, slot |-> r.slot, age |-> r.age, pending |-> r.pending, seen |-> seen]
<1> DEFINE who == r.who  slot == r.slot  was == r.age  flag == r.pending  saw == r.seen
           row == [who |-> who, slot |-> slot, age |-> was, pending |-> flag, seen |-> saw]
<1>1. r = row
  BY DEF IsRow
<1> HIDE DEF who, slot, was, flag, saw
<1>2. [row EXCEPT !.pending = pending] =
        [who |-> who, slot |-> slot, age |-> was, pending |-> pending, seen |-> saw]
  OBVIOUS
<1>3. [row EXCEPT !.age = age] =
        [who |-> who, slot |-> slot, age |-> age, pending |-> flag, seen |-> saw]
  OBVIOUS
<1>4. [row EXCEPT !.seen = seen] =
        [who |-> who, slot |-> slot, age |-> was, pending |-> flag, seen |-> seen]
  OBVIOUS
<1> HIDE DEF row
<1> QED
  BY <1>1, <1>2, <1>3, <1>4 DEF who, slot, was, flag, saw

(* RemovePlayer, at once or, during a map change, by a mark on the row.    *)
LEMMA RemovePlayerKeeps ==
  ASSUME IInv, NEW packet, RemovePlayer(packet)
  PROVE  Consistent(rows', markers')
<1>1. PICK target \in Targets(packet) :
        LET gone == {r \in target : r.who # SourceTv}
        IN IF hold > 0
           THEN /\ rows' = (rows \ gone) \cup {[r EXCEPT !.pending = TRUE] : r \in gone}
                /\ UNCHANGED markers
           ELSE Drop(gone)
  BY DEF RemovePlayer
<1> DEFINE gone == {r \in target : r.who # SourceTv}
           touch == [r \in rows |-> IF r \in gone THEN [r EXCEPT !.pending = TRUE] ELSE r]
<1>2. CASE hold > 0
  <2>1. gone \subseteq rows
    BY DEF Targets, FirstOf, InSlot
  <2>2. rows' = {touch[r] : r \in rows}
    BY <1>1, <1>2, <2>1
  <2>3. \A r \in rows : /\ IsRow(touch[r])
                        /\ touch[r].who = r.who /\ touch[r].slot = r.slot
    BY Amended DEF IInv, Consistent, RowsOK, IsRow
  <2> HIDE DEF touch
  <2>4. RowsOK(rows') /\ Keys(rows') = Keys(rows)
    BY <2>2, <2>3, Touched DEF IInv, Consistent
  <2> QED
    BY <1>1, <1>2, <2>4 DEF IInv, Consistent
<1>3. CASE ~(hold > 0)
  BY <1>1, <1>3, DropKeeps
<1> QED
  BY <1>2, <1>3

(* BeginRosterTransition makes the rows young again.                       *)
LEMMA BeginTransitionKeeps ==
  ASSUME IInv, NEW time, NEW tracking, BeginTransition(time, tracking)
  PROVE  RowsOK(rows') /\ Keys(rows') = Keys(rows)
<1> DEFINE touch == [r \in rows |->
             IF tracking THEN [Young(r) EXCEPT !.seen = (r.who = SourceTv)] ELSE Young(r)]
<1>1. rows' = {touch[r] : r \in rows}
  BY DEF BeginTransition
<1>2. ASSUME NEW r \in rows
      PROVE  /\ IsRow(touch[r])
             /\ touch[r].who = r.who /\ touch[r].slot = r.slot
  <2>1. /\ IsRow(Young(r))
        /\ Young(r).who = r.who /\ Young(r).slot = r.slot
    BY Amended DEF IInv, Consistent, RowsOK, IsRow, Young
  <2>2. LET marked == [Young(r) EXCEPT !.seen = (r.who = SourceTv)]
        IN /\ IsRow(marked)
           /\ marked.who = Young(r).who /\ marked.slot = Young(r).slot
    BY <2>1, Amended DEF IsRow
  <2> QED
    BY <2>1, <2>2
<1> HIDE DEF touch
<1> QED
  BY <1>1, <1>2, Touched DEF IInv, Consistent

(* Whatever packet arrives.                                                *)
LEMMA ReceiveKeeps ==
  ASSUME IInv, NEW packet, Receive(packet)
  PROVE  Consistent(rows', markers')
<1>1. ASSUME UNCHANGED <<rows, markers>>
      PROVE  Consistent(rows', markers')
  BY <1>1 DEF IInv
<1>2. CASE packet.type = "MapChanged"
  <2>1. MapChanged(packet.map)
    BY <1>2 DEF Receive
  <2>2. markers' \subseteq markers
    BY <2>1 DEF MapChanged
  <2>3. RowsOK(rows') /\ Keys(rows') = Keys(rows)
    BY <2>1, BeginTransitionKeeps DEF MapChanged, IInv, Consistent
  <2> QED
    BY <2>2, <2>3 DEF IInv, Consistent
<1>3. CASE packet.type = "Position"
  BY <1>3, UpsertKeeps DEF Receive
<1>4. CASE packet.type = "Disconnected"
  BY <1>4, RemovePlayerKeeps DEF Receive
<1>5. CASE packet.type = "Connected"
  BY <1>1, <1>5, UpsertKeeps DEF Receive, client
<1> QED
  BY <1>2, <1>3, <1>4, <1>5 DEF Receive

(* Every step of the server, the network and the client.                   *)
LEMMA StepKeeps ==
  ASSUME IInv, [RosterNext]_rosterVars
  PROVE  IInv'
<1> SUFFICES Consistent(rows', markers')
  BY DEF IInv
<1>1. ASSUME UNCHANGED client
      PROVE  Consistent(rows', markers')
  BY <1>1 DEF client, IInv
<1>2. CASE ServerNext
  BY <1>1, <1>2 DEF ServerNext
<1>3. CASE Deliver
  BY <1>3, ReceiveKeeps DEF Deliver
<1>4. CASE Duplicate
  BY <1>4, ReceiveKeeps DEF Duplicate
<1>5. CASE Arrive
  BY <1>5, ReceiveKeeps DEF Arrive
<1>6. CASE Prune
  BY <1>6, DropKeeps DEF Prune
<1>7. CASE RequestMap
  BY <1>7, BeginTransitionKeeps DEF RequestMap, IInv, Consistent
<1>8. CASE Reconnect
  BY <1>8, DropKeeps DEF Reconnect
<1>9. CASE Tick
  <2> DEFINE touch == [r \in rows |->
               [r EXCEPT !.age = IF @ > StaleTimeout THEN @ ELSE @ + 1]]
  <2>1. rows' = {touch[r] : r \in rows} /\ markers' = markers
    BY <1>9 DEF Tick
  <2>2. \A r \in rows : /\ IsRow(touch[r])
                        /\ touch[r].who = r.who /\ touch[r].slot = r.slot
    BY DEF IInv, Consistent, RowsOK, IsRow
  <2> HIDE DEF touch
  <2> QED
    BY <2>1, <2>2, Touched DEF IInv, Consistent
<1>10. CASE UNCHANGED rosterVars
  BY <1>1, <1>10 DEF rosterVars
<1> QED
  BY <1>2, <1>3, <1>4, <1>5, <1>6, <1>7, <1>8, <1>9, <1>10 DEF RosterNext

(* The invariant holds from the start.                                     *)
THEOREM InvariantHolds == RosterSpec => []IInv
<1>1. RosterInit => IInv
  BY DEF RosterInit, IInv, Consistent, RowsOK, Distinct, Keys
<1>2. IInv /\ [RosterNext]_rosterVars => IInv'
  BY StepKeeps
<1> QED
  BY <1>1, <1>2, PTL DEF RosterSpec

(* Whatever is lost, repeated or reordered, and whatever the administrator *)
(* does: no slot and no player has two rows, and no marker is without one. *)
THEOREM ViewStaysConsistent == RosterSpec => []ViewConsistent
<1>1. IInv => ViewConsistent
  BY DEF IInv, Consistent, RowsOK, Distinct, ViewConsistent
<1> QED
  BY <1>1, InvariantHolds, PTL

-----------------------------------------------------------------------------
(* Types.  The queue is a sequence of packets, of which RosterTypeOK says  *)
(* only what is in it.                                                     *)
Packet == PlayerPacket \cup MapPacket
Seats == [Slots -> Occupants \cup {NoOne}]
Reported == [Slots -> Humans \cup {Bot, NoOne}]

EngineTypes == slots \in Seats /\ map \in Maps /\ simulating \in BOOLEAN
BridgeTypes ==
  players \in Seats /\ known \in Reported /\ due \subseteq Slots /\ broadcast \in BOOLEAN
NetworkTypes == queue \in Seq(Packet) /\ air \subseteq Packet
ServerTypes == EngineTypes /\ BridgeTypes /\ NetworkTypes
ClientTypes ==
  rows \subseteq Row /\ hold \in Nat /\ settling \in BOOLEAN /\ awaiting \in BOOLEAN

LEMMA PacketTypes ==
  /\ \A type \in {"Connected", "Disconnected", "Position"}, who \in Occupants, s \in Slots :
       About(type, who, s) \in Packet
  /\ \A m \in Maps : MapState(m) \in Packet
BY DEF About, MapState, Packet, PlayerPacket, MapPacket

LEMMA EnqueuedTypes ==
  ASSUME queue \in Seq(Packet), NEW packet \in Packet
  PROVE  Enqueued(packet) \in Seq(Packet)
<1> DEFINE Replaces == packet.type = "Position"
                       /\ \E i \in DOMAIN queue : IsPositionOf(packet.slot, queue[i])
           changed == [i \in DOMAIN queue |->
                         IF IsPositionOf(packet.slot, queue[i]) THEN packet ELSE queue[i]]
<1>1. Len(queue) \in Nat /\ DOMAIN queue = 1..Len(queue) /\ \A i \in 1..Len(queue) : queue[i] \in Packet
  BY LenProperties, ElementOfSeq
<1>2. changed \in [1..Len(queue) -> Packet]
  BY <1>1
<1>3. changed \in Seq(Packet)
  <2> HIDE DEF changed
  <2> QED BY <1>1, <1>2, SeqDef
<1>4. Append(queue, packet) \in Seq(Packet)
  BY AppendProperties
<1>5. Enqueued(packet) = IF Replaces THEN changed ELSE Append(queue, packet)
  BY DEF Enqueued
<1> HIDE DEF Replaces, changed
<1> QED
  BY <1>3, <1>4, <1>5

(* What TickPresence puts into the queue: the map and those present, by    *)
(* slot.                                                                   *)
LEMMA AnnouncedTypes ==
  ASSUME ServerTypes, NEW present, present = Ascending({s \in Slots : players[s] # NoOne})
  PROVE  /\ [i \in DOMAIN present |-> Announcement(present[i])] \in Seq(Packet)
         /\ \A i \in DOMAIN present : present[i] \in Slots
<1> DEFINE there == {s \in Slots : players[s] # NoOne}
           packets == [i \in DOMAIN present |-> Announcement(present[i])]
<1>1. there \in SUBSET Nat /\ IsFiniteSet(there)
  <2>1. there \in SUBSET Slots
    OBVIOUS
  <2> HIDE DEF there
  <2> QED BY <2>1, SlotsAssumption, FS_Subset
<1>2. \A s \in there : Announcement(s) \in Packet
  BY PacketTypes DEF Announcement, ServerTypes, BridgeTypes, Seats
<1>3. present = Ascending(there)
  OBVIOUS
<1> HIDE DEF there
<1>4. /\ Cardinality(there) \in Nat
      /\ \A n \in 1..Cardinality(there) : Nth(there, n) \in there
  BY <1>1, NthFacts
<1>5. /\ DOMAIN present = 1..Cardinality(there)
      /\ \A n \in 1..Cardinality(there) : present[n] \in there
  BY <1>3, <1>4 DEF Ascending
<1>6. packets \in [1..Cardinality(there) -> Packet]
  BY <1>2, <1>5
<1> HIDE DEF packets
<1>7. packets \in Seq(Packet)
  BY <1>4, <1>6, SeqDef
<1> QED
  BY <1>5, <1>7 DEF packets, there

LEMMA SetCurrentMapTypes ==
  ASSUME ServerTypes, NEW m \in Maps, SetCurrentMap(m)
  PROVE  /\ players' \in Seats /\ known' \in Reported /\ due' \subseteq Slots
         /\ queue' \in Seq(Packet)
<1>1. queue' \in Seq(Packet)
  BY PacketTypes, EnqueuedTypes DEF SetCurrentMap, ServerTypes, NetworkTypes
<1> QED
  BY <1>1 DEF SetCurrentMap, Cached, Nobody, Seats, Reported, Occupants

LEMMA EngineStep ==
  ASSUME ServerTypes, EngineNext
  PROVE  ServerTypes'
<1>1. ASSUME NEW s \in Slots, NEW who \in Occupants, Join(s, who)
      PROVE  ServerTypes'
  <2>1. queue' \in Seq(Packet)
    BY <1>1, PacketTypes, EnqueuedTypes DEF Join, ServerTypes, NetworkTypes
  <2>2. slots' \in Seats /\ players' \in Seats
    BY <1>1 DEF Join, Enter, ServerTypes, EngineTypes, BridgeTypes, Seats
  <2>3. UNCHANGED <<map, simulating, known, due, broadcast, air>>
    BY <1>1 DEF Join
  <2> QED
    BY <2>1, <2>2, <2>3 DEF ServerTypes, EngineTypes, BridgeTypes, NetworkTypes
<1>2. ASSUME NEW s \in Slots, Leave(s)
      PROVE  ServerTypes'
  <2>1. slots[s] \in Occupants /\ Bot \in Occupants
    BY <1>2 DEF Leave, ServerTypes, EngineTypes, Seats, Occupants
  <2>2. queue' \in Seq(Packet)
    BY <1>2, <2>1, PacketTypes, EnqueuedTypes DEF Leave, ServerTypes, NetworkTypes
  <2>3. slots' \in Seats /\ players' \in Seats /\ known' \in Reported /\ due' \subseteq Slots
    BY <1>2 DEF Leave, ServerTypes, EngineTypes, BridgeTypes, Seats, Reported
  <2>4. UNCHANGED <<map, simulating, broadcast, air>>
    BY <1>2 DEF Leave
  <2> QED
    BY <2>2, <2>3, <2>4 DEF ServerTypes, EngineTypes, BridgeTypes, NetworkTypes
<1>3. ASSUME NEW s \in Slots, Vanish(s)
      PROVE  ServerTypes'
  <2>1. slots' \in Seats
    BY <1>3 DEF Vanish, ServerTypes, EngineTypes, Seats
  <2>2. UNCHANGED <<map, simulating, bridge, network>>
    BY <1>3 DEF Vanish
  <2> QED
    BY <2>1, <2>2 DEF ServerTypes, EngineTypes, BridgeTypes, NetworkTypes, bridge, network
<1>4. ASSUME NEW m \in Maps, ChangeMap(m)
      PROVE  ServerTypes'
  <2>1. /\ players' \in Seats /\ known' \in Reported /\ due' \subseteq Slots
        /\ queue' \in Seq(Packet)
    BY <1>4, SetCurrentMapTypes DEF ChangeMap
  <2>2. map' = m /\ simulating' = FALSE /\ UNCHANGED <<slots, broadcast, air>>
    BY <1>4 DEF ChangeMap
  <2> QED
    BY <2>1, <2>2 DEF ServerTypes, EngineTypes, BridgeTypes, NetworkTypes
<1>5. ASSUME Resume
      PROVE  ServerTypes'
  BY <1>5 DEF Resume, ServerTypes, EngineTypes, BridgeTypes, NetworkTypes, bridge, network
<1>6. ASSUME NEW s \in Slots, JoinAsTv(s)
      PROVE  ServerTypes'
  <2>1. slots' \in Seats
    BY <1>6 DEF JoinAsTv, Enter, ServerTypes, EngineTypes, Seats, Occupants
  <2>2. UNCHANGED <<map, simulating, bridge, network>>
    BY <1>6 DEF JoinAsTv
  <2> QED
    BY <2>1, <2>2 DEF ServerTypes, EngineTypes, BridgeTypes, NetworkTypes, bridge, network
<1> QED
  BY <1>1, <1>2, <1>3, <1>4, <1>5, <1>6 DEF EngineNext

LEMMA BridgeStep ==
  ASSUME ServerTypes, BridgeNext
  PROVE  ServerTypes'
<1>1. ASSUME NEW s \in Slots, SendPosition(s)
      PROVE  ServerTypes'
  <2>1. slots[s] \in Humans \cup {Bot} /\ slots[s] \in Occupants
    BY <1>1 DEF SendPosition, InGame, ServerTypes, EngineTypes, Seats, Occupants
  <2>2. queue' \in Seq(Packet)
    BY <1>1, <2>1, PacketTypes, EnqueuedTypes DEF SendPosition, ServerTypes, NetworkTypes
  <2>3. players' \in Seats /\ known' \in Reported /\ due' \subseteq Slots
    BY <1>1, <2>1 DEF SendPosition, ServerTypes, BridgeTypes, Seats, Reported
  <2>4. UNCHANGED <<engine, broadcast, air>>
    BY <1>1 DEF SendPosition
  <2> QED
    BY <2>2, <2>3, <2>4 DEF ServerTypes, EngineTypes, BridgeTypes, NetworkTypes, engine
<1>2. ASSUME Broadcast
      PROVE  ServerTypes'
  <2> DEFINE present == Ascending({s \in Slots : players[s] # NoOne})
             packets == [i \in DOMAIN present |-> Announcement(present[i])]
  <2>1. packets \in Seq(Packet)
    <3> HIDE DEF present
    <3>1. present = Ascending({s \in Slots : players[s] # NoOne})
      BY DEF present
    <3> QED BY <3>1, AnnouncedTypes
  <2>2. /\ queue' = queue \o <<MapState(map)>> \o packets
        /\ broadcast' = FALSE
        /\ UNCHANGED <<engine, players, known, due, air>>
    BY <1>2 DEF Broadcast
  <2> HIDE DEF packets
  <2>3. MapState(map) \in Packet
    BY PacketTypes DEF ServerTypes, EngineTypes
  <2>4. <<MapState(map)>> \in Seq(Packet) /\ queue \in Seq(Packet)
    BY <2>3 DEF ServerTypes, NetworkTypes
  <2>5. queue \o <<MapState(map)>> \in Seq(Packet)
    BY <2>4, ConcatProperties
  <2>6. queue' \in Seq(Packet)
    BY <2>1, <2>2, <2>5, ConcatProperties
  <2> QED
    BY <2>2, <2>6 DEF ServerTypes, EngineTypes, BridgeTypes, NetworkTypes, engine
<1> QED
  BY <1>1, <1>2 DEF BridgeNext, Heartbeat, Move

(* Whoever takes the front packet finds a packet there.                    *)
LEMMA SentTypes ==
  ASSUME ServerTypes, NEW packet, Delivered(packet) \/ Repeated(packet)
  PROVE  packet \in Packet /\ ServerTypes'
<1>1. Sent(packet) /\ (air' = air \/ air' = air \cup {packet})
  BY DEF Delivered, Repeated
<1>2. queue \in Seq(Packet) /\ queue # <<>> /\ packet = Head(queue) /\ queue' = Tail(queue)
  BY <1>1 DEF Sent, ServerTypes, NetworkTypes
<1>3. packet \in Packet /\ queue' \in Seq(Packet)
  BY <1>2, HeadTailProperties
<1>4. UNCHANGED <<engine, bridge>>
  BY <1>1 DEF Sent
<1> QED
  BY <1>1, <1>3, <1>4 DEF ServerTypes, EngineTypes, BridgeTypes, NetworkTypes, engine, bridge

LEMMA ServerStep ==
  ASSUME ServerTypes, EngineNext \/ BridgeNext \/ Withheld
  PROVE  ServerTypes'
BY EngineStep, BridgeStep, SentTypes DEF Withheld

-----------------------------------------------------------------------------
(* The rows.                                                               *)
LEMMA RowFields ==
  ASSUME NEW r \in Row, NEW age \in 0..StaleTimeout + 1, NEW flag \in BOOLEAN
  PROVE  /\ [r EXCEPT !.age = age] \in Row
         /\ [r EXCEPT !.pending = flag] \in Row
         /\ [r EXCEPT !.seen = flag] \in Row
BY DEF Row

LEMMA TransitionTypes ==
  ASSUME ClientTypes, NEW time \in Nat, NEW tracking \in BOOLEAN,
         BeginTransition(time, tracking)
  PROVE  rows' \subseteq Row /\ hold' \in Nat /\ settling' \in BOOLEAN
<1>1. \A r \in Row : Young(r) \in Row
  <2>1. 0 \in 0..StaleTimeout + 1
    BY TimesAssumption
  <2> QED BY <2>1, RowFields DEF Young
<1>2. \A r \in Row : [Young(r) EXCEPT !.seen = (r.who = SourceTv)] \in Row
  <2> TAKE r \in Row
  <2>1. (r.who = SourceTv) \in BOOLEAN
    OBVIOUS
  <2>2. Young(r) \in Row
    BY <1>1
  <2>3. \A q \in Row, flag \in BOOLEAN : [q EXCEPT !.seen = flag] \in Row
    BY DEF Row
  <2> QED BY <2>1, <2>2, <2>3
<1> QED
  BY <1>1, <1>2 DEF BeginTransition, ClientTypes

LEMMA ReceiveTypes ==
  ASSUME ClientTypes, NEW packet \in Packet, Receive(packet)
  PROVE  ClientTypes'
<1>1. packet.type # "MapChanged" => packet.who \in Occupants /\ packet.slot \in Slots
  BY DEF Packet, PlayerPacket, MapPacket
<1>2. ASSUME packet.type # "MapChanged", NEW marking, Upsert(packet, marking)
      PROVE  ClientTypes'
  <2>1. Fresh(packet) \in Row
    <3>1. 0 \in 0..StaleTimeout + 1
      BY TimesAssumption
    <3> QED BY <1>1, <1>2, <3>1 DEF Fresh, Row
  <2>2. rows' \subseteq Row
    BY <1>2, <2>1 DEF Upsert, ClientTypes
  <2>3. UNCHANGED <<hold, settling, awaiting>>
    BY <1>2 DEF Upsert
  <2> QED
    BY <2>2, <2>3 DEF ClientTypes
<1>3. ASSUME RemovePlayer(packet)
      PROVE  ClientTypes'
  <2>1. \A r \in Row : [r EXCEPT !.pending = TRUE] \in Row
    BY DEF Row
  <2>2. \A target \in Targets(packet) : target \subseteq rows
    BY DEF Targets, FirstOf, InSlot
  <2>3. rows' \subseteq Row
    BY <1>3, <2>1, <2>2 DEF RemovePlayer, Drop, ClientTypes
  <2>4. UNCHANGED <<hold, settling, awaiting>>
    BY <1>3 DEF RemovePlayer
  <2> QED
    BY <2>3, <2>4 DEF ClientTypes
<1>4. ASSUME MapChanged(packet.map)
      PROVE  ClientTypes'
  <2>1. CASE BeginTransition(SettlingTime, TRUE) /\ awaiting' = FALSE
    BY <2>1, TransitionTypes, TimesAssumption DEF ClientTypes
  <2>2. CASE UNCHANGED <<rows, hold, settling, awaiting>>
    BY <2>2 DEF ClientTypes
  <2> QED
    BY <1>4, <2>1, <2>2 DEF MapChanged
<1>5. ASSUME UNCHANGED client
      PROVE  ClientTypes'
  BY <1>5 DEF ClientTypes, client
<1> QED
  BY <1>2, <1>3, <1>4, <1>5 DEF Receive

LEMMA TypesStep ==
  ASSUME ServerTypes, ClientTypes, [RosterNext]_rosterVars
  PROVE  ServerTypes' /\ ClientTypes'
<1>1. ASSUME UNCHANGED client
      PROVE  ClientTypes'
  BY <1>1 DEF ClientTypes, client
<1>2. ASSUME NEW gone, Drop(gone)
      PROVE  rows' \subseteq Row
  BY <1>2 DEF Drop, ClientTypes
<1>3. ASSUME UNCHANGED presenceVars
      PROVE  ServerTypes'
  BY <1>3 DEF presenceVars, engine, bridge, network, ServerTypes, EngineTypes,
              BridgeTypes, NetworkTypes
<1>4. CASE ServerNext
  BY <1>1, <1>4, ServerStep DEF ServerNext
<1>5. CASE Deliver \/ Duplicate
  BY <1>5, SentTypes, ReceiveTypes DEF Deliver, Duplicate
<1>6. CASE Arrive
  <2>1. PICK packet \in air : Arrives(packet) /\ Receive(packet)
    BY <1>6 DEF Arrive
  <2>2. packet \in Packet
    BY DEF ServerTypes, NetworkTypes
  <2>3. ServerTypes'
    BY <2>1 DEF Arrives, engine, bridge, ServerTypes, EngineTypes, BridgeTypes, NetworkTypes
  <2> QED
    BY <2>1, <2>2, <2>3, ReceiveTypes
<1>7. CASE Prune
  <2>1. rows' \subseteq Row
    BY <1>2, <1>7 DEF Prune
  <2>2. settling' = FALSE /\ UNCHANGED <<presenceVars, hold, awaiting>>
    BY <1>7 DEF Prune
  <2> QED
    BY <1>3, <2>1, <2>2 DEF ClientTypes
<1>8. CASE RequestMap
  <2>1. /\ awaiting' = TRUE /\ BeginTransition(CommandHold, FALSE)
        /\ UNCHANGED <<engine, bridge, network>>
    BY <1>8 DEF RequestMap
  <2>2. ServerTypes'
    BY <2>1 DEF engine, bridge, network, ServerTypes, EngineTypes, BridgeTypes, NetworkTypes
  <2> QED
    BY <2>1, <2>2, TransitionTypes, TimesAssumption DEF ClientTypes
<1>9. CASE Reconnect
  <2>1. /\ Drop(rows) /\ hold' = 0 /\ settling' = FALSE /\ awaiting' = FALSE
        /\ SetCurrentMap(map) \/ UNCHANGED <<players, known, due, queue>>
        /\ UNCHANGED <<engine, broadcast, air>>
    BY <1>9 DEF Reconnect
  <2>2. map \in Maps
    BY DEF ServerTypes, EngineTypes
  <2>3. /\ players' \in Seats /\ known' \in Reported /\ due' \subseteq Slots
        /\ queue' \in Seq(Packet)
    BY <2>1, <2>2, SetCurrentMapTypes DEF ServerTypes, BridgeTypes, NetworkTypes
  <2>4. ServerTypes'
    BY <2>1, <2>3 DEF engine, ServerTypes, EngineTypes, BridgeTypes, NetworkTypes
  <2> QED
    BY <1>2, <2>1, <2>4 DEF ClientTypes
<1>10. CASE Tick
  <2>1. /\ ServerTick
        /\ hold' = IF hold = 0 THEN 0 ELSE hold - 1
        /\ rows' = {[r EXCEPT !.age = IF r.age > StaleTimeout THEN r.age ELSE r.age + 1] : r \in rows}
        /\ UNCHANGED <<settling, awaiting>>
    BY <1>10 DEF Tick
  <2>2. hold' \in Nat
    BY <2>1 DEF ClientTypes
  <2>3. \A r \in Row : (IF r.age > StaleTimeout THEN r.age ELSE r.age + 1) \in 0..StaleTimeout + 1
    BY TimesAssumption DEF Row
  <2>4. ASSUME NEW r \in rows
        PROVE  [r EXCEPT !.age = IF r.age > StaleTimeout THEN r.age ELSE r.age + 1] \in Row
    <3> DEFINE age == IF r.age > StaleTimeout THEN r.age ELSE r.age + 1
    <3>1. r \in Row
      BY DEF ClientTypes
    <3>2. age \in 0..StaleTimeout + 1
      BY <2>3, <3>1
    <3> HIDE DEF age
    <3>3. [r EXCEPT !.age = age] \in Row
      BY <3>1, <3>2, RowFields
    <3> QED
      BY <3>3 DEF age
  <2>5. rows' \subseteq Row
    BY <2>1, <2>4
  <2>6. ServerTypes'
    BY <2>1 DEF ServerTick, engine, network, ServerTypes, EngineTypes, BridgeTypes, NetworkTypes
  <2> QED
    BY <2>1, <2>2, <2>5, <2>6 DEF ClientTypes
<1>11. CASE UNCHANGED rosterVars
  BY <1>1, <1>3, <1>11 DEF rosterVars
<1> QED
  BY <1>4, <1>5, <1>6, <1>7, <1>8, <1>9, <1>10, <1>11 DEF RosterNext

LEMMA TypesHold == RosterSpec => [](ServerTypes /\ ClientTypes)
<1>1. RosterInit => ServerTypes /\ ClientTypes
  <2> SUFFICES ASSUME RosterInit PROVE ServerTypes /\ ClientTypes
    OBVIOUS
  <2>1. queue \in Seq(Packet) /\ air \subseteq Packet
    BY EmptySeq DEF RosterInit, PresenceInit
  <2>2. EngineTypes /\ BridgeTypes
    BY DEF RosterInit, PresenceInit, EngineTypes, BridgeTypes, Cached, Nobody, Seats,
           Reported, Occupants
  <2>3. ClientTypes
    BY DEF RosterInit, ClientTypes
  <2> QED
    BY <2>1, <2>2, <2>3 DEF ServerTypes, NetworkTypes
<1>2. ServerTypes /\ ClientTypes /\ [RosterNext]_rosterVars => ServerTypes' /\ ClientTypes'
  BY TypesStep
<1> QED
  BY <1>1, <1>2, PTL DEF RosterSpec

(* Only packets of players and maps are ever queued or in the network, and *)
(* a row is never without an owner, a slot or an age within its limit,     *)
(* whatever arrives and in whatever order.                                 *)
THEOREM RosterTypeCorrect == RosterSpec => []RosterTypeOK
<1>1. ServerTypes /\ ClientTypes => RosterTypeOK
  <2> SUFFICES ASSUME ServerTypes, ClientTypes PROVE RosterTypeOK
    OBVIOUS
  <2>1. ToSet(queue) \subseteq Packet
    <3>1. queue \in Seq(Packet)
      BY DEF ServerTypes, NetworkTypes
    <3>2. \A i \in DOMAIN queue : queue[i] \in Packet
      BY <3>1, LenProperties, ElementOfSeq
    <3> QED BY <3>2 DEF ToSet
  <2> QED
    BY <2>1 DEF RosterTypeOK, ServerTypes, ClientTypes, EngineTypes, BridgeTypes,
                NetworkTypes, Packet, Seats, Reported
<1> QED
  BY <1>1, TypesHold, PTL

-----------------------------------------------------------------------------
(* The safety half of MapConverges.  Whatever was lost or came late, a     *)
(* broadcast of TickPresence tells the truth again: the newest             *)
(* announcement in the queue is of the level that runs, and when none is   *)
(* left in the queue the map shows that level.                             *)
AnnouncesMap(packet) == packet.type = "MapChanged"

Newest(sent, i) ==
  /\ AnnouncesMap(sent[i])
  /\ \A j \in DOMAIN sent : j > i => ~AnnouncesMap(sent[j])

Tells(sent, shown, m) ==
  /\ \A i \in DOMAIN sent : Newest(sent, i) => sent[i].map = m
  /\ (\A i \in DOMAIN sent : ~AnnouncesMap(sent[i])) => shown = m

MapTold == Tells(queue, shownMap, map)

(* Of all that can happen, only the loss of an announcement and an old one *)
(* that arrives late undo it.                                              *)
MapStaysTold ==
  /\ Broadcast /\ UNCHANGED client => MapTold'
  /\ MapTold => \/ MapTold'
                \/ Withheld /\ AnnouncesMap(Head(queue))
                \/ \E packet \in air : Arrives(packet) /\ AnnouncesMap(packet)
  /\ Tick /\ MapTold => shownMap = map

LEMMA QueueFacts ==
  ASSUME NEW sent \in Seq(Packet)
  PROVE  /\ Len(sent) \in Nat /\ DOMAIN sent = 1..Len(sent)
         /\ \A i \in 1..Len(sent) : sent[i] \in Packet
         /\ \A packet : packet \in ToSet(sent) <=> \E i \in 1..Len(sent) : packet = sent[i]
<1>1. Len(sent) \in Nat /\ DOMAIN sent = 1..Len(sent)
      /\ \A i \in 1..Len(sent) : sent[i] \in Packet
  BY LenProperties, ElementOfSeq
<1> QED
  BY <1>1 DEF ToSet

LEMMA TailFacts ==
  ASSUME NEW sent \in Seq(Packet), sent # <<>>
  PROVE  /\ Tail(sent) \in Seq(Packet) /\ Len(sent) \in Nat \ {0} /\ Head(sent) = sent[1]
         /\ DOMAIN Tail(sent) = 1..(Len(sent) - 1)
         /\ \A i \in 1..(Len(sent) - 1) : Tail(sent)[i] = sent[i + 1]
<1>1. /\ Tail(sent) \in Seq(Packet) /\ Len(Tail(sent)) = Len(sent) - 1
      /\ \A i \in 1..Len(Tail(sent)) : Tail(sent)[i] = sent[i + 1]
  BY HeadTailProperties
<1>2. Head(sent) = sent[1]
  BY HeadTailProperties
<1>3. Len(sent) \in Nat /\ Len(Tail(sent)) \in Nat
  BY <1>1, LenProperties
<1>4. Len(sent) \in Nat \ {0}
  BY <1>1, <1>3
<1>5. DOMAIN Tail(sent) = 1..Len(Tail(sent))
  BY <1>1, LenProperties
<1> QED
  BY <1>1, <1>2, <1>4, <1>5

(* Enqueue, by what it leaves in the queue.                                *)
LEMMA EnqueuedTells ==
  ASSUME queue \in Seq(Packet), NEW packet \in Packet, NEW shown, NEW m
  PROVE  /\ AnnouncesMap(packet) /\ packet.map = m => Tells(Enqueued(packet), shown, m)
         /\ ~AnnouncesMap(packet) /\ Tells(queue, shown, m) => Tells(Enqueued(packet), shown, m)
<1> DEFINE new == Enqueued(packet)
           longer == Append(queue, packet)
           changed == [i \in DOMAIN queue |->
                         IF IsPositionOf(packet.slot, queue[i]) THEN packet ELSE queue[i]]
<1>1. /\ new = IF packet.type = "Position"
                  /\ \E i \in DOMAIN queue : IsPositionOf(packet.slot, queue[i])
               THEN changed ELSE longer
  BY DEF Enqueued
<1>2. Len(queue) \in Nat /\ DOMAIN queue = 1..Len(queue)
  BY QueueFacts
<1>3. /\ DOMAIN longer = 1..(Len(queue) + 1) /\ longer[Len(queue) + 1] = packet
      /\ \A i \in 1..Len(queue) : longer[i] = queue[i]
  BY <1>2, AppendProperties
<1>4. /\ DOMAIN changed = DOMAIN queue
      /\ \A i \in DOMAIN queue :
           changed[i] = queue[i] \/ (changed[i] = packet /\ queue[i].type = "Position")
  <2>1. \A i \in DOMAIN queue :
          changed[i] = IF IsPositionOf(packet.slot, queue[i]) THEN packet ELSE queue[i]
    OBVIOUS
  <2> HIDE DEF changed
  <2>2. DOMAIN changed = DOMAIN queue
    BY DEF changed
  <2> QED BY <2>1, <2>2 DEF IsPositionOf
<1> HIDE DEF new, changed, longer
<1>5. ASSUME AnnouncesMap(packet), packet.map = m
      PROVE  Tells(new, shown, m)
  <2>1. new = longer
    BY <1>1, <1>5 DEF AnnouncesMap
  <2>2. \A i \in 1..(Len(queue) + 1) : Newest(new, i) => i = Len(queue) + 1
    BY <1>2, <1>3, <1>5, <2>1 DEF Newest
  <2> QED
    BY <1>2, <1>3, <1>5, <2>1, <2>2 DEF Tells
<1>6. ASSUME ~AnnouncesMap(packet), Tells(queue, shown, m), new = longer
      PROVE  Tells(new, shown, m)
  <2>1. \A i \in 1..(Len(queue) + 1) : Newest(new, i) => i \in 1..Len(queue) /\ Newest(queue, i)
    BY <1>2, <1>3, <1>6 DEF Newest
  <2> QED
    BY <1>2, <1>3, <1>6, <2>1 DEF Tells
<1>7. ASSUME ~AnnouncesMap(packet), Tells(queue, shown, m), new = changed
      PROVE  Tells(new, shown, m)
  <2>1. \A i \in DOMAIN queue : AnnouncesMap(new[i]) <=> AnnouncesMap(queue[i])
    BY <1>4, <1>7 DEF AnnouncesMap
  <2>2. \A i \in DOMAIN queue : AnnouncesMap(new[i]) => new[i] = queue[i]
    BY <1>4, <1>7
  <2>3. \A i \in DOMAIN queue : Newest(new, i) => Newest(queue, i)
    BY <1>4, <1>7, <2>1 DEF Newest
  <2>4. \A i \in DOMAIN queue : Newest(new, i) => new[i].map = m
    BY <1>7, <2>2, <2>3 DEF Tells, Newest
  <2> QED
    BY <1>4, <1>7, <2>1, <2>4 DEF Tells
<1> QED
  BY <1>1, <1>5, <1>6, <1>7 DEF new

(* The broadcast ends in players, after the map.                           *)
LEMMA BroadcastTells ==
  ASSUME ServerTypes, Broadcast, NEW shown
  PROVE  Tells(queue', shown, map)
<1> DEFINE there == {s \in Slots : players[s] # NoOne}
           present == Ascending(there)
           packets == [i \in DOMAIN present |-> Announcement(present[i])]
           first == queue \o <<MapState(map)>>
           n == Len(queue) + 1
<1>1. queue' = first \o packets
  BY DEF Broadcast
<1>2. packets \in Seq(Packet)
  <2> HIDE DEF present
  <2>1. present = Ascending({s \in Slots : players[s] # NoOne})
    BY DEF present
  <2> QED BY <2>1, AnnouncedTypes
<1>3. \A i \in DOMAIN packets : ~AnnouncesMap(packets[i])
  <2> HIDE DEF present
  <2> QED BY DEF Announcement, About, AnnouncesMap
<1> HIDE DEF packets
<1>4. MapState(map) \in Packet /\ MapState(map).map = map /\ AnnouncesMap(MapState(map))
  BY PacketTypes DEF ServerTypes, EngineTypes, MapState, AnnouncesMap
<1>5. <<MapState(map)>> \in Seq(Packet) /\ queue \in Seq(Packet) /\ Len(queue) \in Nat
  BY <1>4, QueueFacts DEF ServerTypes, NetworkTypes
<1>6. /\ first \in Seq(Packet) /\ Len(first) = n /\ first[n] = MapState(map)
      /\ n \in Nat
  BY <1>5, ConcatProperties
<1> HIDE DEF first, n
<1>7. /\ Len(packets) \in Nat /\ DOMAIN packets = 1..Len(packets)
  BY <1>2, QueueFacts
<1>8. /\ first \o packets \in Seq(Packet)
      /\ Len(first \o packets) = n + Len(packets)
      /\ \A i \in 1..(n + Len(packets)) :
           (first \o packets)[i] = IF i <= n THEN first[i] ELSE packets[i - n]
  BY <1>2, <1>6, ConcatProperties
<1>9. DOMAIN queue' = 1..(n + Len(packets))
  BY <1>1, <1>8, QueueFacts
<1>10. n \in 1..(n + Len(packets)) /\ queue'[n] = MapState(map)
  <2>1. n >= 1
    BY <1>5 DEF n
  <2> QED BY <1>1, <1>6, <1>7, <1>8, <2>1
<1>11. ASSUME NEW i \in 1..(n + Len(packets)), i > n
       PROVE  ~AnnouncesMap(queue'[i])
  <2>1. i - n \in DOMAIN packets /\ queue'[i] = packets[i - n]
    BY <1>1, <1>6, <1>7, <1>8, <1>11
  <2> QED BY <1>3, <2>1
<1>12. \A i \in DOMAIN queue' : Newest(queue', i) => i = n
  BY <1>4, <1>6, <1>7, <1>9, <1>10, <1>11 DEF Newest
<1> QED
  BY <1>4, <1>9, <1>10, <1>12 DEF Tells

(* The front packet goes, with what it said or without.                    *)
LEMMA SentTells ==
  ASSUME ServerTypes, MapTold, NEW packet, Sent(packet)
  PROVE  /\ AnnouncesMap(packet) => Tells(queue', packet.map, map)
         /\ ~AnnouncesMap(packet) => Tells(queue', shownMap, map)
<1>1. queue \in Seq(Packet) /\ queue # <<>> /\ packet = Head(queue) /\ queue' = Tail(queue)
  BY DEF Sent, ServerTypes, NetworkTypes
<1>2. /\ Len(queue) \in Nat \ {0} /\ packet = queue[1]
      /\ DOMAIN queue' = 1..(Len(queue) - 1)
      /\ \A i \in 1..(Len(queue) - 1) : queue'[i] = queue[i + 1]
  BY <1>1, TailFacts
<1>3. DOMAIN queue = 1..Len(queue)
  BY <1>1, QueueFacts
<1>4. \A j \in 2..Len(queue) : j - 1 \in 1..(Len(queue) - 1) /\ queue'[j - 1] = queue[j]
  BY <1>2
<1>5. ASSUME NEW i \in DOMAIN queue', Newest(queue', i)
      PROVE  queue'[i].map = map
  <2>1. i + 1 \in DOMAIN queue /\ queue'[i] = queue[i + 1]
    BY <1>2, <1>3
  <2>2. ASSUME NEW j \in DOMAIN queue, j > i + 1
        PROVE  ~AnnouncesMap(queue[j])
    <3>1. j \in 2..Len(queue) /\ j - 1 > i /\ j - 1 \in DOMAIN queue'
      BY <1>2, <1>3, <2>2
    <3> QED BY <1>4, <1>5, <3>1 DEF Newest
  <2>3. Newest(queue, i + 1)
    BY <1>5, <2>1, <2>2 DEF Newest
  <2> QED BY <2>1, <2>3 DEF MapTold, Tells
<1>6. ASSUME \A i \in DOMAIN queue' : ~AnnouncesMap(queue'[i])
      PROVE  \A j \in 2..Len(queue) : ~AnnouncesMap(queue[j])
  BY <1>2, <1>4, <1>6
<1>7. ASSUME AnnouncesMap(packet), \A i \in DOMAIN queue' : ~AnnouncesMap(queue'[i])
      PROVE  packet.map = map
  <2>1. 1 \in DOMAIN queue /\ \A j \in DOMAIN queue : j > 1 => j \in 2..Len(queue)
    BY <1>2, <1>3
  <2>2. Newest(queue, 1)
    BY <1>2, <1>6, <1>7, <2>1 DEF Newest
  <2> QED BY <1>2, <2>1, <2>2 DEF MapTold, Tells
<1>8. ASSUME ~AnnouncesMap(packet), \A i \in DOMAIN queue' : ~AnnouncesMap(queue'[i])
      PROVE  shownMap = map
  <2>1. \A j \in DOMAIN queue : j = 1 \/ j \in 2..Len(queue)
    BY <1>2, <1>3
  <2> QED BY <1>2, <1>6, <1>8, <2>1 DEF MapTold, Tells
<1> QED
  BY <1>5, <1>7, <1>8 DEF Tells

(* What the client does with a packet concerns the map if it is a map.     *)
LEMMA ReceivedMap ==
  ASSUME NEW packet, Receive(packet)
  PROVE  shownMap' = IF AnnouncesMap(packet) THEN packet.map ELSE shownMap
BY DEF Receive, AnnouncesMap, MapChanged, Upsert, RemovePlayer, client

(* In every execution: the map is wrong only from a loss or a late arrival *)
(* to the next broadcast and the delivery of what it queued.               *)
THEOREM MapIsRetold == RosterSpec => [][MapStaysTold]_rosterVars
<1>1. ASSUME ServerTypes, Broadcast, shownMap' = shownMap
      PROVE  MapTold'
  BY <1>1, BroadcastTells DEF MapTold, Broadcast, engine
<1>2. ASSUME ServerTypes, MapTold, [RosterNext]_rosterVars
      PROVE  \/ MapTold'
             \/ Withheld /\ AnnouncesMap(Head(queue))
             \/ \E packet \in air : Arrives(packet) /\ AnnouncesMap(packet)
  <2>1. queue \in Seq(Packet) /\ map \in Maps /\ Tells(queue, shownMap, map)
    BY <1>2 DEF ServerTypes, NetworkTypes, EngineTypes, MapTold
  <2>2. ASSUME UNCHANGED <<queue, map, shownMap>>
        PROVE  MapTold'
    BY <2>1, <2>2 DEF MapTold
  <2>3. ASSUME NEW packet \in Packet, ~AnnouncesMap(packet), queue' = Enqueued(packet),
               UNCHANGED <<map, shownMap>>
        PROVE  MapTold'
    BY <2>1, <2>3, EnqueuedTells DEF MapTold
  <2>4. ASSUME NEW m \in Maps, queue' = Enqueued(MapState(m)), map' = m
        PROVE  MapTold'
    <3>1. MapState(m) \in Packet /\ AnnouncesMap(MapState(m)) /\ MapState(m).map = m
      BY PacketTypes DEF AnnouncesMap, MapState
    <3> QED
      BY <2>1, <2>4, <3>1, EnqueuedTells DEF MapTold
  <2>5. ASSUME NEW type \in {"Connected", "Disconnected", "Position"}, NEW who \in Occupants,
               NEW s \in Slots, queue' = Enqueued(About(type, who, s)),
               UNCHANGED <<map, shownMap>>
        PROVE  MapTold'
    <3>1. About(type, who, s) \in Packet /\ ~AnnouncesMap(About(type, who, s))
      BY PacketTypes DEF AnnouncesMap, About
    <3> QED
      BY <2>3, <2>5, <3>1
  <2>6. CASE EngineNext /\ UNCHANGED client
    <3>1. ASSUME NEW s \in Slots, NEW who \in Occupants, Join(s, who)
          PROVE  MapTold'
      BY <2>5, <2>6, <3>1 DEF Join, client
    <3>2. ASSUME NEW s \in Slots, Leave(s)
          PROVE  MapTold'
      <4>1. PICK reported \in {slots[s], Bot} : queue' = Enqueued(About("Disconnected", reported, s))
        BY <3>2 DEF Leave
      <4>2. reported \in Occupants
        BY <1>2, <3>2, <4>1 DEF Leave, ServerTypes, EngineTypes, Seats, Occupants
      <4> QED
        BY <2>5, <2>6, <3>2, <4>1, <4>2 DEF Leave, client
    <3>3. ASSUME NEW m \in Maps, ChangeMap(m)
          PROVE  MapTold'
      BY <2>4, <3>3 DEF ChangeMap, SetCurrentMap
    <3>4. CASE Resume \/ \E s \in Slots : JoinAsTv(s) \/ Vanish(s)
      BY <2>2, <2>6, <3>4 DEF Resume, JoinAsTv, Vanish, network, client
    <3> QED
      BY <2>6, <3>1, <3>2, <3>3, <3>4 DEF EngineNext
  <2>7. CASE Broadcast /\ UNCHANGED client
    BY <1>1, <1>2, <2>7 DEF client
  <2>8. ASSUME NEW s \in Slots, SendPosition(s), UNCHANGED client
        PROVE  MapTold'
    <3>1. slots[s] \in Occupants
      BY <1>2, <2>8 DEF SendPosition, InGame, ServerTypes, EngineTypes, Seats
    <3> QED
      BY <2>5, <2>8, <3>1 DEF SendPosition, engine, client
  <2>9. CASE Withheld /\ UNCHANGED client
    <3>1. PICK packet : Sent(packet)
      BY <2>9 DEF Withheld, Repeated
    <3> QED
      BY <1>2, <2>9, <3>1, SentTells DEF Sent, engine, client, MapTold
  <2>10. CASE Deliver \/ Duplicate
    <3>1. PICK packet : Sent(packet) /\ Receive(packet)
      BY <2>10 DEF Deliver, Duplicate, Delivered, Repeated
    <3> QED
      BY <1>2, <3>1, SentTells, ReceivedMap DEF Sent, engine, MapTold
  <2>11. CASE Arrive
    <3>1. PICK packet \in air : Arrives(packet) /\ Receive(packet)
      BY <2>11 DEF Arrive
    <3>2. CASE ~AnnouncesMap(packet)
      BY <2>2, <3>1, <3>2, ReceivedMap DEF Arrives, engine
    <3> QED
      BY <3>1, <3>2
  <2>12. CASE Prune \/ RequestMap \/ Tick
    BY <2>2, <2>12 DEF Prune, RequestMap, Tick, ServerTick, presenceVars, engine, network
  <2>13. CASE Reconnect
    BY <2>1, <2>2, <2>4, <2>13 DEF Reconnect, SetCurrentMap, engine
  <2>14. CASE UNCHANGED rosterVars
    BY <2>2, <2>14 DEF rosterVars, presenceVars, engine, network, client
  <2> QED
    BY <1>2, <2>6, <2>7, <2>8, <2>9, <2>10, <2>11, <2>12, <2>13, <2>14
    DEF RosterNext, ServerNext, BridgeNext, Heartbeat, Move
<1>3. ASSUME MapTold, Tick
      PROVE  shownMap = map
  <2>1. queue = <<>>
    BY <1>3 DEF Tick, ServerTick
  <2> QED
    BY <1>3, <2>1 DEF MapTold, Tells
<1>4. ASSUME ServerTypes, [RosterNext]_rosterVars
      PROVE  MapStaysTold
  BY <1>1, <1>2, <1>3, <1>4 DEF MapStaysTold, client
<1> QED
  BY <1>4, TypesHold, PTL DEF RosterSpec

-----------------------------------------------------------------------------
(* The safety half of RosterConverges.  A server at rest: the level runs   *)
(* and is shown, nothing in the queue is out of date, and the client is    *)
(* not in the middle of a map change.                                      *)
TruePacket(packet) ==
  /\ packet.type # "Disconnected"
  /\ packet.type = "MapChanged" => packet.map = map
  /\ packet.type = "Position" => InGame(packet.slot) /\ slots[packet.slot] = packet.who
  /\ packet.type = "Connected" /\ packet.who = SourceTv => slots[packet.slot] = SourceTv

Quiet ==
  /\ simulating /\ shownMap = map
  /\ \A packet \in ToSet(queue) : TruePacket(packet)
  /\ hold = 0 /\ ~settling /\ \A r \in rows : ~r.pending

(* What goes on while nobody joins, leaves or asks for a map and nothing   *)
(* is lost: players move, the plugin repeats what it said, packets arrive, *)
(* some of them twice, and time passes.                                    *)
Undisturbed == (BridgeNext /\ UNCHANGED client) \/ Deliver \/ Duplicate \/ Prune \/ Tick

RowOf(s, age) == \E r \in rows : r.who = slots[s] /\ r.slot = s /\ r.age <= age

PositionQueued(s) == \E packet \in ToSet(queue) : IsPositionOf(s, packet)

(* The client has heard of the player since the last Tick, or will before  *)
(* the next one.                                                           *)
Told(s) == Unsent(s) \/ PositionQueued(s) \/ RowOf(s, 0)
Listed(s) == RowOf(s, 1)

IsGhost(r) == r.who # SourceTv /\ ~(InGame(r.slot) /\ slots[r.slot] = r.who)
Ghosts == {r \in rows : IsGhost(r)}

Settled ==
  /\ Quiet /\ Ghosts = {}
  /\ \A s \in Slots : InGame(s) => Told(s) /\ Listed(s)

(* Rest is kept.  In the first period everyone who plays is told of, from  *)
(* the second on he is listed, and once listed he stays.                   *)
RestIsKept ==
  /\ Quiet'
  /\ \A s \in Slots : InGame(s) =>
       /\ Told(s) \/ Tick => Told(s)'
       /\ Told(s) /\ (Listed(s) \/ Tick) => Listed(s)'

(* A row of somebody who is not there is never added or made young again,  *)
(* every period makes it older, and the timer removes it when it is too    *)
(* old.                                                                    *)
GhostsFade ==
  \A r \in Ghosts' :
    /\ \E q \in Ghosts : /\ q.who = r.who /\ q.slot = r.slot /\ q.age <= r.age
                         /\ Tick => q.age < r.age \/ StaleTimeout < r.age
    /\ Prune => r.age <= StaleTimeout

ComesToRest == Quiet /\ Undisturbed => RestIsKept /\ GhostsFade
StaysRight == Settled /\ Undisturbed => Settled'

(* No player sits in two slots, and the cache of the plugin, which may     *)
(* name players that are gone, never does so for SourceTV.                 *)
Seated ==
  /\ \A s, t \in Slots : slots[s] = slots[t] => s = t \/ slots[s] \in {Bot, NoOne}
  /\ \A s \in Slots : players[s] = SourceTv => slots[s] = SourceTv

LEMMA SeatedHolds == RosterSpec => []Seated
<1>1. RosterInit => Seated
  BY OccupantsAssumption DEF RosterInit, PresenceInit, Seated, Cached, Nobody
<1>2. ASSUME ServerTypes, Seated, [RosterNext]_rosterVars
      PROVE  Seated'
  <2>1. ASSUME UNCHANGED <<slots, players>>
        PROVE  Seated'
    BY <1>2, <2>1 DEF Seated
  <2>2. ASSUME UNCHANGED slots, NEW m, SetCurrentMap(m)
        PROVE  Seated'
    BY <1>2, <2>2, OccupantsAssumption DEF SetCurrentMap, Cached, Seated
  <2>3. slots \in Seats /\ players \in Seats
    BY <1>2 DEF ServerTypes, EngineTypes, BridgeTypes
  <2>4. CASE EngineNext
    <3>1. ASSUME NEW s \in Slots, NEW who \in Occupants, Join(s, who)
          PROVE  Seated'
      <4>1. /\ slots' = [slots EXCEPT ![s] = who] /\ players' = [players EXCEPT ![s] = who]
            /\ who = Bot \/ \A t \in Slots : slots[t] # who
        BY <3>1 DEF Join, Enter
      <4> QED BY <1>2, <2>3, <4>1 DEF Seated, Seats
    <3>2. ASSUME NEW s \in Slots, Leave(s)
          PROVE  Seated'
      <4>1. slots' = [slots EXCEPT ![s] = NoOne] /\ players' = [players EXCEPT ![s] = NoOne]
        BY <3>2 DEF Leave
      <4> QED BY <1>2, <2>3, <4>1, OccupantsAssumption DEF Seated, Seats
    <3>3. ASSUME NEW s \in Slots, Vanish(s)
          PROVE  Seated'
      <4>1. slots' = [slots EXCEPT ![s] = NoOne] /\ players' = players /\ slots[s] = Bot
        BY <3>3 DEF Vanish, bridge
      <4> QED BY <1>2, <2>3, <4>1, OccupantsAssumption DEF Seated, Seats
    <3>4. ASSUME NEW m \in Maps, ChangeMap(m)
          PROVE  Seated'
      BY <2>2, <3>4 DEF ChangeMap
    <3>5. CASE Resume
      BY <2>1, <3>5 DEF Resume, bridge
    <3>6. ASSUME NEW s \in Slots, JoinAsTv(s)
          PROVE  Seated'
      <4>1. /\ slots' = [slots EXCEPT ![s] = SourceTv] /\ players' = players
            /\ slots[s] = NoOne /\ \A t \in Slots : slots[t] # SourceTv
        BY <3>6, OccupantsAssumption DEF JoinAsTv, Enter, bridge
      <4> QED BY <1>2, <2>3, <4>1 DEF Seated, Seats
    <3> QED BY <2>4, <3>1, <3>2, <3>3, <3>4, <3>5, <3>6 DEF EngineNext
  <2>5. ASSUME NEW s \in Slots, SendPosition(s)
        PROVE  Seated'
    <3>1. slots' = slots /\ players' = [players EXCEPT ![s] = slots[s]]
      BY <2>5 DEF SendPosition, engine
    <3> QED BY <1>2, <2>3, <3>1 DEF Seated, Seats
  <2>6. CASE Broadcast
    BY <2>1, <2>6 DEF Broadcast, engine
  <2>7. ASSUME NEW packet, Sent(packet) \/ Arrives(packet)
        PROVE  Seated'
    BY <2>1, <2>7 DEF Sent, Arrives, engine, bridge
  <2>8. CASE Withheld \/ Deliver \/ Duplicate \/ Arrive
    BY <2>7, <2>8 DEF Withheld, Deliver, Duplicate, Arrive, Delivered, Repeated
  <2>9. CASE Prune \/ RequestMap \/ Tick \/ UNCHANGED rosterVars
    BY <2>1, <2>9 DEF Prune, RequestMap, Tick, ServerTick, rosterVars, presenceVars, engine, bridge
  <2>10. CASE Reconnect
    BY <2>1, <2>2, <2>10 DEF Reconnect, engine
  <2> QED
    BY <1>2, <2>4, <2>5, <2>6, <2>8, <2>9, <2>10
    DEF RosterNext, ServerNext, BridgeNext, Heartbeat, Move
<1> QED
  BY <1>1, <1>2, TypesHold, PTL DEF RosterSpec

(* What the two ends of the queue do to the packets in it.                 *)
LEMMA EnqueuedPackets ==
  ASSUME queue \in Seq(Packet), NEW packet \in Packet
  PROVE  LET new == Enqueued(packet)
         IN /\ packet \in ToSet(new)
            /\ \A q \in ToSet(new) : q \in ToSet(queue) \/ q = packet
            /\ \A q \in ToSet(queue) :
                 q \in ToSet(new) \/ (packet.type = "Position" /\ IsPositionOf(packet.slot, q))
<1> DEFINE new == Enqueued(packet)
           longer == Append(queue, packet)
           changed == [i \in DOMAIN queue |->
                         IF IsPositionOf(packet.slot, queue[i]) THEN packet ELSE queue[i]]
           Replaces == packet.type = "Position"
                       /\ \E i \in DOMAIN queue : IsPositionOf(packet.slot, queue[i])
<1>1. new = IF Replaces THEN changed ELSE longer
  BY DEF Enqueued
<1>2. Len(queue) \in Nat /\ DOMAIN queue = 1..Len(queue)
  BY QueueFacts
<1>3. /\ DOMAIN longer = 1..(Len(queue) + 1) /\ longer[Len(queue) + 1] = packet
      /\ \A i \in 1..Len(queue) : longer[i] = queue[i]
  BY <1>2, AppendProperties
<1>4. /\ DOMAIN changed = DOMAIN queue
      /\ \A i \in DOMAIN queue :
           changed[i] = IF IsPositionOf(packet.slot, queue[i]) THEN packet ELSE queue[i]
  OBVIOUS
<1> HIDE DEF new, changed, longer
<1>5. \A f, q : q \in ToSet(f) <=> \E i \in DOMAIN f : q = f[i]
  BY DEF ToSet
<1>6. CASE Replaces
  <2>1. new = changed
    BY <1>1, <1>6
  <2>2. packet \in ToSet(new)
    BY <1>4, <1>5, <1>6, <2>1
  <2>3. \A q \in ToSet(new) : q \in ToSet(queue) \/ q = packet
    BY <1>4, <1>5, <2>1
  <2>4. \A q \in ToSet(queue) : q \in ToSet(new) \/ IsPositionOf(packet.slot, q)
    BY <1>4, <1>5, <2>1
  <2> QED BY <1>6, <2>2, <2>3, <2>4 DEF new
<1>7. CASE ~Replaces
  <2>1. new = longer
    BY <1>1, <1>7
  <2> HIDE DEF Replaces
  <2>2. Len(queue) + 1 \in DOMAIN new /\ \A i \in DOMAIN queue : i \in DOMAIN new
    BY <1>2, <1>3, <2>1
  <2>3. packet \in ToSet(new) /\ \A q \in ToSet(queue) : q \in ToSet(new)
    BY <1>2, <1>3, <1>5, <2>1, <2>2
  <2>4. \A q \in ToSet(new) : q \in ToSet(queue) \/ q = packet
    BY <1>2, <1>3, <1>5, <2>1
  <2> QED BY <2>3, <2>4 DEF new
<1> QED
  BY <1>6, <1>7

LEMMA BroadcastPackets ==
  ASSUME ServerTypes, Broadcast
  PROVE  /\ ToSet(queue) \subseteq ToSet(queue')
         /\ \A q \in ToSet(queue') :
              q \in ToSet(queue) \/ q = MapState(map) \/ \E s \in Slots : q = Announcement(s)
<1> DEFINE present == Ascending({s \in Slots : players[s] # NoOne})
           packets == [i \in DOMAIN present |-> Announcement(present[i])]
           first == queue \o <<MapState(map)>>
<1>1. queue' = first \o packets
  BY DEF Broadcast
<1>2. packets \in Seq(Packet) /\ \A i \in DOMAIN present : present[i] \in Slots
  <2> HIDE DEF present
  <2>1. present = Ascending({s \in Slots : players[s] # NoOne})
    BY DEF present
  <2> QED BY <2>1, AnnouncedTypes
<1>3. \A i \in DOMAIN packets : \E s \in Slots : packets[i] = Announcement(s)
  <2> HIDE DEF present
  <2> QED BY <1>2
<1> HIDE DEF packets, present
<1>4. /\ queue \in Seq(Packet) /\ <<MapState(map)>> \in Seq(Packet)
      /\ Len(queue) \in Nat /\ DOMAIN queue = 1..Len(queue)
  BY PacketTypes, QueueFacts DEF ServerTypes, NetworkTypes, EngineTypes
<1>5. /\ first \in Seq(Packet) /\ Len(first) = Len(queue) + 1
      /\ first[Len(queue) + 1] = MapState(map)
      /\ \A i \in 1..Len(queue) : first[i] = queue[i]
  BY <1>4, ConcatProperties
<1> HIDE DEF first
<1>6. Len(packets) \in Nat /\ DOMAIN packets = 1..Len(packets)
  BY <1>2, QueueFacts
<1>7. /\ DOMAIN queue' = 1..(Len(queue) + 1 + Len(packets))
      /\ \A i \in 1..(Len(queue) + 1 + Len(packets)) :
           queue'[i] = IF i <= Len(queue) + 1 THEN first[i] ELSE packets[i - (Len(queue) + 1)]
  <2>1. /\ queue' \in Seq(Packet) /\ Len(queue') = Len(first) + Len(packets)
        /\ \A i \in 1..(Len(first) + Len(packets)) :
             queue'[i] = IF i <= Len(first) THEN first[i] ELSE packets[i - Len(first)]
    BY <1>1, <1>2, <1>5, ConcatProperties
  <2> QED BY <1>5, <2>1, QueueFacts
<1>8. \A f, q : q \in ToSet(f) <=> \E i \in DOMAIN f : q = f[i]
  BY DEF ToSet
<1>9. \A i \in 1..Len(queue) : i \in DOMAIN queue' /\ queue'[i] = queue[i]
  BY <1>4, <1>5, <1>6, <1>7
<1>10. ASSUME NEW i \in DOMAIN queue'
       PROVE  queue'[i] \in ToSet(queue) \/ queue'[i] = MapState(map)
              \/ \E s \in Slots : queue'[i] = Announcement(s)
  <2>1. CASE i <= Len(queue)
    <3>1. i \in 1..Len(queue)
      BY <1>4, <1>6, <1>7, <2>1
    <3> QED BY <1>4, <1>8, <1>9, <3>1
  <2>2. CASE i = Len(queue) + 1
    BY <1>4, <1>5, <1>7, <2>2
  <2>3. CASE i > Len(queue) + 1
    <3>1. i - (Len(queue) + 1) \in DOMAIN packets /\ queue'[i] = packets[i - (Len(queue) + 1)]
      BY <1>4, <1>6, <1>7, <2>3
    <3> QED BY <1>3, <3>1
  <2> QED BY <1>4, <1>6, <1>7, <2>1, <2>2, <2>3
<1> QED
  BY <1>4, <1>8, <1>9, <1>10

LEMMA SentPackets ==
  ASSUME ServerTypes, NEW packet, Sent(packet)
  PROVE  /\ packet \in ToSet(queue) /\ packet \in Packet
         /\ ToSet(queue') \subseteq ToSet(queue)
         /\ \A q \in ToSet(queue) : q \in ToSet(queue') \/ q = packet
<1>1. queue \in Seq(Packet) /\ queue # <<>> /\ packet = Head(queue) /\ queue' = Tail(queue)
  BY DEF Sent, ServerTypes, NetworkTypes
<1>2. /\ Len(queue) \in Nat \ {0} /\ packet = queue[1]
      /\ DOMAIN queue' = 1..(Len(queue) - 1)
      /\ \A i \in 1..(Len(queue) - 1) : queue'[i] = queue[i + 1]
  BY <1>1, TailFacts
<1>3. DOMAIN queue = 1..Len(queue) /\ \A i \in 1..Len(queue) : queue[i] \in Packet
  BY <1>1, QueueFacts
<1>4. \A f, q : q \in ToSet(f) <=> \E i \in DOMAIN f : q = f[i]
  BY DEF ToSet
<1>5. 1 \in DOMAIN queue /\ packet \in Packet
  BY <1>2, <1>3
<1>6. \A i \in DOMAIN queue' : i + 1 \in DOMAIN queue /\ queue'[i] = queue[i + 1]
  BY <1>2, <1>3
<1>7. \A j \in DOMAIN queue : j = 1 \/ (j - 1 \in DOMAIN queue' /\ queue'[j - 1] = queue[j])
  BY <1>2, <1>3
<1>8. packet \in ToSet(queue)
  BY <1>2, <1>4, <1>5
<1>9. ToSet(queue') \subseteq ToSet(queue)
  BY <1>4, <1>6
<1>10. ASSUME NEW q \in ToSet(queue)
       PROVE  q \in ToSet(queue') \/ q = packet
  <2>1. PICK j \in DOMAIN queue : q = queue[j]
    BY <1>4
  <2> QED BY <1>2, <1>4, <1>7, <2>1
<1> QED
  BY <1>5, <1>8, <1>9, <1>10

-----------------------------------------------------------------------------
(* A row for a player who sits where the packet says.                      *)
LEMMA UpsertTrue ==
  ASSUME IInv, Seated, ServerTypes, ClientTypes, NEW packet \in Packet,
         packet.type # "MapChanged", packet.who = slots[packet.slot],
         NEW marking, Upsert(packet, marking), UNCHANGED slots
  PROVE  /\ Fresh(packet) \in rows' /\ \A r \in rows' : r \in rows \/ r = Fresh(packet)
         /\ \A s \in Slots, age \in Nat : InGame(s) /\ RowOf(s, age) => RowOf(s, age)'
<1> DEFINE fresh == Fresh(packet)
<1>1. PICK gone \in FirstOf(SlotOwners(packet)) :
        rows' = {r \in rows \ gone : Key(r) # Key(packet)} \cup {fresh}
  BY DEF Upsert
<1>2. /\ fresh.who = packet.who /\ fresh.slot = packet.slot /\ fresh.age = 0
      /\ packet.who \in Occupants /\ packet.slot \in Slots
  BY DEF Fresh, Packet, PlayerPacket, MapPacket
<1>3. \A r \in gone : r.slot = packet.slot /\ Key(r) # Key(packet)
  BY DEF FirstOf, SlotOwners, InSlot
<1> HIDE DEF fresh
<1>4. ASSUME NEW s \in Slots, NEW age \in Nat, InGame(s), RowOf(s, age)
      PROVE  RowOf(s, age)'
  <2>1. PICK r \in rows : r.who = slots[s] /\ r.slot = s /\ r.age <= age
    BY <1>4 DEF RowOf
  <2>2. CASE r \in rows'
    BY <2>1, <2>2 DEF RowOf
  <2>3. CASE Key(r) = Key(packet)
    <3>1. s = packet.slot
      <4>1. CASE r.who \in Humans /\ packet.who \in Humans
        <5>1. r.who = packet.who
          BY <2>3, <4>1 DEF Key, PlayerKey
        <5> QED BY <1>2, <2>1, <4>1, <5>1, OccupantsAssumption DEF Seated
      <4>2. CASE r.who \notin Humans /\ packet.who \notin Humans
        BY <2>1, <2>3, <4>2 DEF Key, PlayerKey
      <4>3. CASE ~(r.who \in Humans <=> packet.who \in Humans)
        BY <2>3, <4>3 DEF Key, PlayerKey
      <4> QED BY <4>1, <4>2, <4>3
    <3>2. fresh \in rows' /\ fresh.who = slots[s] /\ fresh.slot = s /\ fresh.age <= age
      BY <1>1, <1>2, <3>1
    <3> QED BY <3>2 DEF RowOf
  <2>4. CASE r \in gone
    <3>1. r.who = packet.who /\ r.slot = packet.slot
      BY <1>3, <2>1, <2>4
    <3>2. Key(r) = Key(packet)
      BY <3>1 DEF Key
    <3> QED BY <1>3, <2>4, <3>2
  <2> QED BY <1>1, <2>2, <2>3, <2>4
<1> QED
  BY <1>1, <1>4 DEF fresh

(* The packets of a server at rest leave the client at rest.               *)
Unrefreshed ==
  \A r \in Ghosts' : \E q \in Ghosts : q.who = r.who /\ q.slot = r.slot /\ q.age <= r.age

LEMMA SeatsOnly ==
  ASSUME UNCHANGED slots
  PROVE  /\ \A s : InGame(s)' <=> InGame(s)
         /\ \A r : IsGhost(r)' <=> IsGhost(r)
BY DEF InGame, IsGhost

LEMMA RowsRest ==
  ASSUME UNCHANGED <<slots, rows>>, ClientTypes
  PROVE  /\ \A s, age : RowOf(s, age)' <=> RowOf(s, age)
         /\ Unrefreshed
<1>1. \A r \in rows : r.age \in Nat
  BY DEF ClientTypes, Row
<1>2. Ghosts' = Ghosts
  BY DEF Ghosts, IsGhost, InGame
<1> QED
  BY <1>1, <1>2 DEF Unrefreshed, RowOf, Ghosts

LEMMA ReceiveAtRest ==
  ASSUME IInv, Seated, ServerTypes, ClientTypes, Quiet, ~Tick,
         NEW packet, Sent(packet), Receive(packet)
  PROVE  RestIsKept /\ Unrefreshed
<1>1. /\ packet \in ToSet(queue) /\ packet \in Packet /\ TruePacket(packet)
      /\ ToSet(queue') \subseteq ToSet(queue)
      /\ \A q \in ToSet(queue) : q \in ToSet(queue') \/ q = packet
  BY SentPackets DEF Quiet
<1>2. UNCHANGED <<slots, map, simulating, known, due>>
  BY DEF Sent, engine, bridge
<1>3. /\ \A s : InGame(s)' <=> InGame(s)
      /\ \A s : Unsent(s)' <=> Unsent(s)
      /\ \A r : IsGhost(r)' <=> IsGhost(r)
      /\ \A q : TruePacket(q)' <=> TruePacket(q)
  BY <1>2 DEF InGame, Unsent, IsGhost, TruePacket
<1>4. \A q \in ToSet(queue') : TruePacket(q)'
  BY <1>1, <1>3 DEF Quiet
<1>5. CASE packet.type = "MapChanged" \/ (packet.type = "Connected" /\ packet.who # SourceTv)
  <2>1. UNCHANGED <<rows, hold, settling, shownMap>>
    <3>1. CASE packet.type = "MapChanged"
      <4>1. MapChanged(packet.map) /\ packet.map = map /\ shownMap = map
        BY <1>1, <3>1 DEF Receive, TruePacket, Quiet
      <4>2. ~(shownMap # packet.map \/ (awaiting /\ \E r \in rows : r.pending))
        BY <4>1 DEF Quiet
      <4> QED BY <4>1, <4>2 DEF MapChanged
    <3>2. CASE packet.type = "Connected" /\ packet.who # SourceTv
      BY <3>2 DEF Receive, client
    <3> QED BY <1>5, <3>1, <3>2
  <2>2. Quiet'
    BY <1>2, <1>4, <2>1 DEF Quiet
  <2>3. \A s : PositionQueued(s) => PositionQueued(s)'
    BY <1>1, <1>5 DEF PositionQueued, IsPositionOf
  <2> QED
    BY <1>2, <1>3, <2>1, <2>2, <2>3, RowsRest DEF RestIsKept, Told, Listed
<1>6. CASE packet.type = "Position" \/ (packet.type = "Connected" /\ packet.who = SourceTv)
  <2>1. /\ packet.type # "MapChanged" /\ packet.who = slots[packet.slot]
        /\ packet.type = "Position" => InGame(packet.slot)
    BY <1>1, <1>6 DEF TruePacket
  <2>2. PICK marking : Upsert(packet, marking)
    BY <1>6 DEF Receive
  <2>3. /\ Fresh(packet) \in rows' /\ \A r \in rows' : r \in rows \/ r = Fresh(packet)
        /\ \A s \in Slots, age \in Nat : InGame(s) /\ RowOf(s, age) => RowOf(s, age)'
    BY <1>1, <1>2, <2>1, <2>2, UpsertTrue
  <2>4. UNCHANGED <<shownMap, hold, settling>>
    BY <2>2 DEF Upsert
  <2>5. /\ Fresh(packet).who = packet.who /\ Fresh(packet).slot = packet.slot
        /\ Fresh(packet).age = 0 /\ ~Fresh(packet).pending
    BY DEF Fresh
  <2>6. Quiet'
    BY <1>2, <1>4, <2>3, <2>4, <2>5 DEF Quiet
  <2>7. ASSUME NEW s \in Slots, InGame(s), Told(s)
        PROVE  Told(s)'
    <3>1. CASE Unsent(s)
      BY <1>3, <3>1 DEF Told
    <3>2. CASE PositionQueued(s)'
      BY <3>2 DEF Told
    <3>3. CASE RowOf(s, 0)
      BY <2>3, <2>7, <3>3 DEF Told
    <3>4. CASE IsPositionOf(s, packet)
      <4>1. RowOf(s, 0)'
        BY <1>2, <2>1, <2>3, <2>5, <3>4 DEF IsPositionOf, RowOf
      <4> QED BY <4>1 DEF Told
    <3> QED
      BY <1>1, <2>7, <3>1, <3>2, <3>3, <3>4 DEF Told, PositionQueued
  <2>8. RestIsKept
    BY <2>3, <2>6, <2>7 DEF RestIsKept, Listed
  <2>9. ASSUME NEW r \in Ghosts'
        PROVE  r \in Ghosts
    <3>1. r \in rows' /\ IsGhost(r)
      BY <1>3 DEF Ghosts
    <3>2. r # Fresh(packet)
      BY <1>6, <2>1, <2>5, <3>1 DEF IsGhost
    <3> QED BY <2>3, <3>1, <3>2 DEF Ghosts
  <2>10. \A r \in Ghosts : r.age \in Nat
    BY DEF Ghosts, ClientTypes, Row
  <2> QED
    BY <2>8, <2>9, <2>10 DEF Unrefreshed
<1> QED
  BY <1>1, <1>5, <1>6 DEF Packet, PlayerPacket, MapPacket, TruePacket

(* The plugin repeats what it said, and tells where a player is.           *)
LEMMA SpeakAtRest ==
  ASSUME Seated, ServerTypes, ClientTypes, Quiet, ~Tick, BridgeNext, UNCHANGED client
  PROVE  RestIsKept /\ Unrefreshed
<1>1. UNCHANGED <<rows, hold, settling, shownMap>>
  BY DEF client
<1>2. /\ UNCHANGED <<slots, map, simulating>>
      /\ \A q \in ToSet(queue') : TruePacket(q)
      /\ \A s \in Slots : InGame(s) /\ Told(s) => Told(s)'
  <2>1. CASE Broadcast
    <3>1. /\ ToSet(queue) \subseteq ToSet(queue')
          /\ \A q \in ToSet(queue') :
               q \in ToSet(queue) \/ q = MapState(map) \/ \E s \in Slots : q = Announcement(s)
      BY <2>1, BroadcastPackets
    <3>2. UNCHANGED <<slots, map, simulating, known, due>>
      BY <2>1 DEF Broadcast, engine
    <3>3. TruePacket(MapState(map)) /\ \A s \in Slots : TruePacket(Announcement(s))
      BY DEF Seated, TruePacket, MapState, Announcement, About
    <3>4. \A q \in ToSet(queue') : TruePacket(q)
      BY <3>1, <3>3 DEF Quiet
    <3>5. \A s : Told(s) => Told(s)'
      BY <1>1, <3>1, <3>2 DEF Told, Unsent, PositionQueued, RowOf
    <3> QED BY <3>2, <3>4, <3>5
  <2>2. ASSUME NEW s \in Slots, SendPosition(s)
        PROVE  /\ UNCHANGED <<slots, map, simulating>>
               /\ \A q \in ToSet(queue') : TruePacket(q)
               /\ \A t \in Slots : InGame(t) /\ Told(t) => Told(t)'
    <3> DEFINE packet == About("Position", slots[s], s)
    <3>1. /\ InGame(s) /\ queue' = Enqueued(packet) /\ UNCHANGED <<slots, map, simulating>>
          /\ known' = [known EXCEPT ![s] = slots[s]] /\ due' = due \ {s}
      BY <2>2 DEF SendPosition, engine
    <3>2. slots[s] \in Occupants
      BY <3>1 DEF InGame, ServerTypes, EngineTypes, Seats
    <3>3. packet \in Packet /\ queue \in Seq(Packet)
      BY <3>2, PacketTypes DEF ServerTypes, NetworkTypes
    <3>4. TruePacket(packet) /\ packet.type = "Position" /\ packet.slot = s
      BY <3>1 DEF TruePacket, About
    <3> HIDE DEF packet
    <3>5. /\ packet \in ToSet(queue')
          /\ \A q \in ToSet(queue') : q \in ToSet(queue) \/ q = packet
          /\ \A q \in ToSet(queue) : q \in ToSet(queue') \/ IsPositionOf(s, q)
      BY <3>1, <3>3, <3>4, EnqueuedPackets
    <3>6. \A q \in ToSet(queue') : TruePacket(q)
      BY <3>4, <3>5 DEF Quiet
    <3>7. Told(s)'
      BY <3>4, <3>5 DEF Told, PositionQueued, IsPositionOf
    <3>8. ASSUME NEW t \in Slots, t # s, Told(t)
          PROVE  Told(t)'
      <4>1. Unsent(t) => Unsent(t)'
        BY <3>1, <3>8 DEF Unsent, ServerTypes, BridgeTypes, Reported
      <4>2. PositionQueued(t) => PositionQueued(t)'
        BY <3>5, <3>8 DEF PositionQueued, IsPositionOf
      <4>3. RowOf(t, 0) => RowOf(t, 0)'
        BY <1>1, <3>1 DEF RowOf
      <4> QED BY <3>8, <4>1, <4>2, <4>3 DEF Told
    <3> QED BY <3>1, <3>6, <3>7, <3>8
  <2> QED BY <2>1, <2>2 DEF BridgeNext, Heartbeat, Move
<1>3. Quiet'
  BY <1>1, <1>2 DEF Quiet, TruePacket, InGame
<1> QED
  BY <1>1, <1>2, <1>3, RowsRest DEF RestIsKept, Listed

(* The timer of the form.                                                  *)
LEMMA PruneAtRest ==
  ASSUME ClientTypes, Quiet, StaleTimeout >= 1, ~Tick, Prune
  PROVE  RestIsKept /\ Unrefreshed
<1>1. /\ UNCHANGED <<slots, map, simulating, known, due, queue, shownMap, hold>>
      /\ settling' = FALSE /\ rows' = rows \ Prunable
  BY DEF Prune, Drop, presenceVars, engine, bridge, network
<1>2. \A r \in rows : r.age \in Nat
  BY DEF ClientTypes, Row
<1>3. StaleTimeout \in Nat
  BY TimesAssumption
<1>4. \A r \in rows : r.age <= StaleTimeout => r \in rows'
  BY <1>1, <1>2, <1>3 DEF Prunable, Unseen, Stale, Quiet
<1>5. \A s, age : age \in {0, 1} /\ RowOf(s, age) => RowOf(s, age)'
  BY <1>1, <1>2, <1>3, <1>4 DEF RowOf
<1>6. Quiet'
  BY <1>1 DEF Quiet, TruePacket, InGame
<1>7. \A s : Told(s) => Told(s)'
  BY <1>1, <1>5 DEF Told, Unsent, PositionQueued
<1>8. \A r \in Ghosts' : r \in Ghosts /\ r.age <= r.age
  BY <1>1, <1>2 DEF Ghosts, IsGhost, InGame
<1> QED
  BY <1>5, <1>6, <1>7, <1>8 DEF RestIsKept, Unrefreshed, Listed

LEMMA PruneRemoves ==
  ASSUME ClientTypes, Prune, NEW r \in Ghosts'
  PROVE  r.age <= StaleTimeout
<1>1. UNCHANGED slots /\ rows' = rows \ Prunable
  BY DEF Prune, Drop, presenceVars, engine
<1>2. r \in rows /\ r \notin Prunable /\ r.who # SourceTv
  BY <1>1 DEF Ghosts, IsGhost
<1>3. r.age \in Nat /\ StaleTimeout \in Nat
  BY <1>2, TimesAssumption DEF ClientTypes, Row
<1> QED
  BY <1>2, <1>3 DEF Prunable, Stale

(* Time passes only when everything due was sent and has arrived.          *)
LEMMA TickAtRest ==
  ASSUME IInv, ServerTypes, ClientTypes, Quiet, Tick
  PROVE  RestIsKept /\ GhostsFade
<1>1. /\ UNCHANGED <<slots, map, simulating, known, queue, shownMap, settling>>
      /\ hold' = 0 /\ queue = <<>>
      /\ \A s \in Slots : InGame(s) => ~Unsent(s)
      /\ due' = {s \in Slots : known[s] # NoOne}
      /\ rows' = {[r EXCEPT !.age = IF r.age > StaleTimeout THEN r.age ELSE r.age + 1] : r \in rows}
  BY DEF Tick, ServerTick, Quiet, engine, network
<1> DEFINE later == [r \in rows |->
                       [r EXCEPT !.age = IF r.age > StaleTimeout THEN r.age ELSE r.age + 1]]
<1>2. ASSUME NEW r \in rows
      PROVE  /\ later[r].who = r.who /\ later[r].slot = r.slot /\ later[r].pending = r.pending
             /\ later[r].age = IF r.age > StaleTimeout THEN r.age ELSE r.age + 1
  <2> DEFINE age == IF r.age > StaleTimeout THEN r.age ELSE r.age + 1
  <2>1. later[r] = [r EXCEPT !.age = age] /\ IsRow(r)
    BY DEF IInv, Consistent, RowsOK
  <2> HIDE DEF age, later
  <2>2. later[r] = [who |-> r.who, slot |-> r.slot, age |-> age, pending |-> r.pending,
                    seen |-> r.seen]
    BY <2>1, Amended
  <2> QED BY <2>2 DEF age
<1>3. rows' = {later[r] : r \in rows}
  BY <1>1
<1> HIDE DEF later
<1>4. \A r \in rows : r.age \in Nat
  BY DEF ClientTypes, Row
<1>5. StaleTimeout \in Nat
  BY TimesAssumption
<1>6. Quiet'
  <2>1. ToSet(queue') = {}
    BY <1>1 DEF ToSet
  <2>2. \A r \in rows' : ~r.pending
    BY <1>2, <1>3 DEF Quiet
  <2> QED BY <1>1, <2>1, <2>2 DEF Quiet
<1>7. ASSUME NEW s \in Slots, InGame(s)
      PROVE  Told(s)' /\ (Told(s) => Listed(s)')
  <2>1. ~Unsent(s) /\ known[s] # NoOne
    BY <1>1, <1>7 DEF Unsent, InGame
  <2>2. Told(s)'
    BY <1>1, <2>1 DEF Told, Unsent
  <2>3. ASSUME Told(s)
        PROVE  Listed(s)'
    <3>1. ~PositionQueued(s)
      BY <1>1 DEF PositionQueued, ToSet
    <3>2. PICK r \in rows : r.who = slots[s] /\ r.slot = s /\ r.age <= 0
      BY <2>1, <2>3, <3>1 DEF Told, RowOf
    <3>3. later[r] \in rows' /\ later[r].who = slots[s] /\ later[r].slot = s
          /\ later[r].age <= 1
      BY <1>2, <1>3, <1>4, <1>5, <3>2
    <3> QED BY <1>1, <3>3 DEF Listed, RowOf
  <2> QED BY <2>2, <2>3
<1>8. RestIsKept
  BY <1>6, <1>7 DEF RestIsKept
<1>9. ASSUME NEW n \in Ghosts'
      PROVE  \E r \in Ghosts : /\ r.who = n.who /\ r.slot = n.slot /\ r.age <= n.age
                               /\ r.age < n.age \/ StaleTimeout < n.age
  <2>1. PICK r \in rows : n = later[r]
    BY <1>3 DEF Ghosts
  <2>2. r.who = n.who /\ r.slot = n.slot /\ r.age <= n.age
        /\ (r.age < n.age \/ StaleTimeout < n.age)
    BY <1>2, <1>4, <1>5, <2>1
  <2>3. r \in Ghosts
    BY <1>1, <2>2 DEF Ghosts, IsGhost, InGame
  <2> QED BY <2>2, <2>3
<1>10. \A r \in Ghosts' : Prune => r.age <= StaleTimeout
  BY PruneRemoves
<1> QED
  BY <1>8, <1>9, <1>10 DEF GhostsFade

(* In every execution, as long as a row outlives a Tick in which nothing   *)
(* was heard (PlayerStaleTimeout is 5 seconds, a Tick 2).                  *)
THEOREM RestComes ==
  ASSUME StaleTimeout >= 1
  PROVE  RosterSpec => [][ComesToRest]_rosterVars
<1>1. ASSUME IInv, Seated, ServerTypes, ClientTypes
      PROVE  ComesToRest
  <2> SUFFICES ASSUME Quiet, Undisturbed
               PROVE  RestIsKept /\ GhostsFade
    BY DEF ComesToRest
  <2>1. CASE Tick
    BY <1>1, <2>1, TickAtRest
  <2>2. CASE ~Tick
    <3>1. RestIsKept /\ Unrefreshed
      <4>1. CASE BridgeNext /\ UNCHANGED client
        BY <1>1, <2>2, <4>1, SpeakAtRest
      <4>2. CASE Deliver \/ Duplicate
        BY <1>1, <2>2, <4>2, ReceiveAtRest DEF Deliver, Duplicate, Delivered, Repeated
      <4>3. CASE Prune
        BY <1>1, <2>2, <4>3, PruneAtRest
      <4> QED BY <2>2, <4>1, <4>2, <4>3 DEF Undisturbed
    <3>2. \A r \in Ghosts' : Prune => r.age <= StaleTimeout
      BY <1>1, PruneRemoves
    <3> QED BY <2>2, <3>1, <3>2 DEF Unrefreshed, GhostsFade
  <2> QED BY <2>1, <2>2
<1> QED
  BY <1>1, InvariantHolds, SeatedHolds, TypesHold, PTL

(* What is right stays right: with every player told of and listed and no  *)
(* ghost, the list shows exactly those who play, and goes on to do so      *)
(* until somebody joins or leaves, a map is changed, or a packet is lost   *)
(* or comes late.                                                          *)
LEMMA SettledIsRight ==
  ASSUME ServerTypes, ClientTypes, Settled
  PROVE  Shown = Playing
<1>1. ASSUME NEW r \in rows, r.who # SourceTv
      PROVE  <<r.who, r.slot>> \in Playing
  <2>1. InGame(r.slot) /\ slots[r.slot] = r.who /\ r.slot \in Slots
    BY <1>1 DEF Settled, Ghosts, IsGhost, ClientTypes, Row
  <2> QED BY <2>1 DEF Playing
<1>2. ASSUME NEW s \in Slots, InGame(s)
      PROVE  <<slots[s], s>> \in Shown
  <2>1. PICK r \in rows : r.who = slots[s] /\ r.slot = s
    BY <1>2 DEF Settled, Listed, RowOf
  <2> QED BY <1>2, <2>1 DEF InGame, Shown
<1>3. Shown \subseteq Playing
  BY <1>1 DEF Shown
<1>4. Playing \subseteq Shown
  BY <1>2 DEF Playing
<1> QED
  BY <1>3, <1>4

(* The goal of RosterConverges: where everybody listed is who the server   *)
(* has, the client shows the players there are, and no step of the frame,  *)
(* the network or the timer spoils it while nobody moves.                  *)
THEOREM WhatIsRightStaysRight ==
  ASSUME StaleTimeout >= 1
  PROVE  RosterSpec => /\ [](Settled => Shown = Playing)
                       /\ [][StaysRight]_rosterVars
<1>1. ServerTypes /\ ClientTypes => (Settled => Shown = Playing)
  BY SettledIsRight
<1>2. ASSUME ComesToRest
      PROVE  StaysRight
  <2> SUFFICES ASSUME Settled, Undisturbed
               PROVE  Settled'
    BY DEF StaysRight
  <2>1. RestIsKept /\ GhostsFade
    BY <1>2 DEF ComesToRest, Settled
  <2>2. Ghosts' = {}
    BY <2>1 DEF GhostsFade, Settled
  <2>3. UNCHANGED slots
    BY DEF Undisturbed, BridgeNext, Broadcast, Heartbeat, Move, SendPosition, Deliver, Duplicate,
           Delivered, Repeated, Sent, Prune, Tick, ServerTick, presenceVars, engine
  <2>4. \A s \in Slots : InGame(s)' => Told(s)' /\ Listed(s)'
    BY <2>1, <2>3 DEF RestIsKept, Settled, InGame
  <2> QED BY <2>1, <2>2, <2>4 DEF Settled, RestIsKept
<1>3. ComesToRest => StaysRight
  BY <1>2
<1>4. RosterSpec => [][ComesToRest]_rosterVars
  BY RestComes
<1> QED
  BY <1>1, <1>3, <1>4, TypesHold, PTL

=============================================================================
