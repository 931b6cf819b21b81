------------------------------ MODULE Presence ------------------------------
(***************************************************************************)
(* What the plugin tells its clients about who is on the server: the       *)
(* presence and position part of voicebridge.cpp, driven by the engine     *)
(* callbacks of cs2fixes.cpp and the frame of gamesystem.cpp, the outbound *)
(* queue as its callers see it, and the network.                           *)
(*                                                                         *)
(* A player is announced when he joins and leaves; while he is in the game *)
(* his position is sent when it changed and at least every second.  None   *)
(* of it is acknowledged or repeated.  The pending position of a slot is   *)
(* overwritten in its place of the queue, so that a newer position may     *)
(* overtake what was queued between.                                       *)
(*                                                                         *)
(* A client's side of it is in the modules that extend this one.           *)
(***************************************************************************)
EXTENDS SequencesExt, Ascending

CONSTANTS
  Slots,            \* of players, numbers
  Humans,           \* players with a Steam ID
  Bot, SourceTv,    \* and without one
  NoOne,
  Maps,
  MaxEvents         \* bound of the model: steps of the engine and of the
                    \* administrator, and packets not just passed on

ASSUME SlotsAssumption == Slots \subseteq Nat /\ IsFiniteSet(Slots)
ASSUME OccupantsAssumption ==
  /\ \A who \in Humans \cup {Bot, SourceTv} : who # NoOne
  /\ Bot # SourceTv /\ Bot \notin Humans /\ SourceTv \notin Humans
ASSUME EventsAssumption == MaxEvents \in Nat

Occupants == Humans \cup {Bot, SourceTv}

PlayerPacket ==
  [type : {"Connected", "Disconnected", "Position"}, who : Occupants, slot : Slots]
MapPacket == [type : {"MapChanged"}, map : Maps]

VARIABLES
  slots,            \* the engine: who is in each slot,
  map,              \* the level,
  simulating,       \* and whether it runs (m_bInSimulation)
  players,          \* players_: the presence cache, by slot
  known,            \* player_positions_: whose position was sent last
  due,              \* the slots whose last position is a second old
  broadcast,        \* TickPresence is due
  queue,            \* the outbound queue
  air,              \* what the network has withheld
  events            \* counter

engine == <<slots, map, simulating>>
bridge == <<players, known, due, broadcast>>
network == <<queue, air>>
presenceVars == <<engine, bridge, network, events>>

Nobody == [s \in Slots |-> NoOne]

(* SetCurrentMap keeps SourceTV alone.                                     *)
Cached(present) == [s \in Slots |-> IF present[s] = SourceTv THEN SourceTv ELSE NoOne]

(* The first client connects: SetCurrentMap has just been called.  SourceTV *)
(* is in the cache only if it was announced.                               *)
PresenceInit ==
  /\ slots \in [Slots -> Occupants \cup {NoOne}]
  /\ \A s, t \in Slots : slots[s] = slots[t] => s = t \/ slots[s] \in {Bot, NoOne}
  /\ map \in Maps
  /\ simulating = TRUE
  /\ players \in {Cached(slots), Nobody} /\ known = Nobody
  /\ due = {} /\ broadcast = TRUE
  /\ queue = <<>> /\ air = {}
  /\ events \in 0..MaxEvents

-----------------------------------------------------------------------------
About(type, who, slot) == [type |-> type, who |-> who, slot |-> slot]
MapState(m) == [type |-> "MapChanged", map |-> m]

IsPositionOf(slot, packet) == packet.type = "Position" /\ packet.slot = slot

(* Enqueue of neo_admin_transport.cpp.                                     *)
Enqueued(packet) ==
  IF packet.type = "Position" /\ \E i \in DOMAIN queue : IsPositionOf(packet.slot, queue[i])
  THEN [i \in DOMAIN queue |->
         IF IsPositionOf(packet.slot, queue[i]) THEN packet ELSE queue[i]]
  ELSE Append(queue, packet)

(* A faulty variant: a position of every client, SourceTV among them.      *)
InGame_Everyone(s) == slots[s] # NoOne

InGame(s) == slots[s] \notin {NoOne, SourceTv}

Event == events < MaxEvents /\ events' = events + 1

Enter(s, who) ==
  /\ Event
  /\ slots[s] = NoOne
  /\ who = Bot \/ \A t \in Slots : slots[t] # who
  /\ slots' = [slots EXCEPT ![s] = who]

(* Hook_ClientPutInServer of a client that has a ZEPlayer.                 *)
Join(s, who) ==
  /\ Enter(s, who)
  /\ players' = [players EXCEPT ![s] = who]
  /\ queue' = Enqueued(About("Connected", who, s))
  /\ UNCHANGED <<map, simulating, known, due, broadcast, air>>

(* A fake client under the name of tv_name has none (Hook_OnClientConnected) *)
(* and is not announced.  SourceTV has one if the plugin was loaded after  *)
(* it came, or tv_name is another.                                         *)
JoinAsTv(s) ==
  /\ Enter(s, SourceTv)
  /\ UNCHANGED <<map, simulating, bridge, network>>

(* Hook_ClientDisconnect; the Steam ID that it reports may be zero.        *)
Leave(s) ==
  /\ Event
  /\ slots[s] # NoOne
  /\ slots' = [slots EXCEPT ![s] = NoOne]
  /\ \E reported \in {slots[s], Bot} :
       queue' = Enqueued(About("Disconnected", reported, s))
  /\ players' = [players EXCEPT ![s] = NoOne]
  /\ known' = [known EXCEPT ![s] = NoOne] /\ due' = due \ {s}
  /\ UNCHANGED <<map, simulating, broadcast, air>>

SetCurrentMap(m) ==
  /\ players' = Cached(players)
  /\ known' = Nobody /\ due' = {}
  /\ queue' = Enqueued(MapState(m))

(* Hook_StartupServer.                                                     *)
ChangeMap(m) ==
  /\ Event
  /\ map' = m
  /\ simulating' = FALSE
  /\ SetCurrentMap(m)
  /\ UNCHANGED <<slots, broadcast, air>>

(* A bot is replaced during a level load without a callback.               *)
Vanish(s) ==
  /\ Event
  /\ ~simulating
  /\ slots[s] = Bot
  /\ slots' = [slots EXCEPT ![s] = NoOne]
  /\ UNCHANGED <<map, simulating, bridge, network>>

Resume ==
  /\ ~simulating
  /\ simulating' = TRUE
  /\ UNCHANGED <<slots, map, bridge, network, events>>

-----------------------------------------------------------------------------
(* SendPlayerPosition, for a player with a pawn: of one who moved, of one  *)
(* who is new, and of one whose last position is a second old.             *)
SendPosition(s) ==
  /\ simulating /\ InGame(s)
  /\ queue' = Enqueued(About("Position", slots[s], s))
  /\ players' = [players EXCEPT ![s] = slots[s]]
  /\ known' = [known EXCEPT ![s] = slots[s]]
  /\ due' = due \ {s}
  /\ UNCHANGED <<engine, broadcast, air>>

Unsent(s) == s \in due \/ known[s] # slots[s]

Heartbeat(s) == Unsent(s) /\ SendPosition(s) /\ UNCHANGED events
Move(s) == Event /\ ~Unsent(s) /\ SendPosition(s)

(* TickPresence: the map, then everyone in the cache.                      *)
Announcement(s) == About("Connected", players[s], s)

(* A faulty variant: the map is announced when it changes and not again.   *)
Broadcast_PlayersOnly ==
  /\ broadcast
  /\ LET present == Ascending({s \in Slots : players[s] # NoOne})
     IN queue' = queue \o [i \in DOMAIN present |-> Announcement(present[i])]
  /\ broadcast' = FALSE
  /\ UNCHANGED <<engine, players, known, due, air, events>>

Broadcast ==
  /\ broadcast
  /\ LET present == Ascending({s \in Slots : players[s] # NoOne})
     IN queue' = queue \o <<MapState(map)>>
                       \o [i \in DOMAIN present |-> Announcement(present[i])]
  /\ broadcast' = FALSE
  /\ UNCHANGED <<engine, players, known, due, air, events>>

-----------------------------------------------------------------------------
(* The worker sends the front packet.  It arrives at once, or it stays in  *)
(* the network, for ever if it is lost, or both.                           *)
Sent(packet) ==
  /\ queue # <<>>
  /\ packet = Head(queue)
  /\ queue' = Tail(queue)
  /\ UNCHANGED <<engine, bridge>>

Delivered(packet) == Sent(packet) /\ UNCHANGED <<air, events>>
Repeated(packet) == Sent(packet) /\ Event /\ air' = air \cup {packet}

Withheld == \E packet \in ToSet(queue) : Repeated(packet)

Arrives(packet) ==
  /\ packet \in air
  /\ air' = air \ {packet}
  /\ UNCHANGED <<engine, bridge, queue, events>>

(* Two seconds pass, the period of TickPresence.  By then what is queued   *)
(* has been sent, and a running level has sent a position of every player. *)
ServerTick ==
  /\ queue = <<>> /\ ~broadcast
  /\ simulating => \A s \in Slots : InGame(s) => ~Unsent(s)
  /\ due' = {s \in Slots : known[s] # NoOne}
  /\ broadcast' = TRUE
  /\ UNCHANGED <<engine, players, known, network, events>>

EngineNext ==
  \/ \E s \in Slots, who \in Occupants : Join(s, who)
  \/ \E s \in Slots : JoinAsTv(s) \/ Leave(s) \/ Vanish(s)
  \/ \E m \in Maps : ChangeMap(m)
  \/ Resume

BridgeNext == Broadcast \/ \E s \in Slots : Heartbeat(s) \/ Move(s)
=============================================================================
