------------------------------- MODULE Roster -------------------------------
(***************************************************************************)
(* The players that the Windows client shows: MainForm.cs, the list and    *)
(* the markers on the map (MapOverviewControl.cs), composed with Presence. *)
(*                                                                         *)
(* The client learns of a player from his positions alone and drops him on *)
(* a disconnect packet, or when nothing was heard of him for a while.      *)
(* After a map change it holds the list for a time and then keeps those    *)
(* that it has heard of since.                                             *)
(*                                                                         *)
(* A row is filed under the Steam ID of its player, or under the slot if   *)
(* he has none.  Voice packets touch the rows as positions do and are left *)
(* out.  Times are in ticks of Presence.                                   *)
(***************************************************************************)
EXTENDS Presence

CONSTANTS
  StaleTimeout,     \* PlayerStaleTimeout
  CommandHold,      \* RosterCommandHoldTime
  SettlingTime      \* RosterSettlingTime

ASSUME TimesAssumption ==
  StaleTimeout \in Nat /\ CommandHold \in Nat /\ SettlingTime \in Nat

VARIABLES
  rows,             \* _players
  markers,          \* the keys of the players on the map
  shownMap,         \* CurrentMapName of the map
  hold,             \* ticks until _rosterTransitionUntilUtc
  settling,         \* _rosterSettling
  awaiting          \* _rosterAwaitingMapStart

client == <<rows, markers, shownMap, hold, settling, awaiting>>
rosterVars == <<presenceVars, client>>

(* age is the time since LastActivityUtc, pending whether there is a       *)
(* DisconnectPendingSinceUtc, seen is SeenDuringTransition.                *)
Row == [who : Occupants, slot : Slots, age : 0..StaleTimeout + 1,
        pending : BOOLEAN, seen : BOOLEAN]

NoMap == "no map"

RosterInit ==
  /\ PresenceInit
  /\ rows = {} /\ markers = {}
  /\ shownMap = NoMap
  /\ hold = 0 /\ settling = FALSE /\ awaiting = FALSE

-----------------------------------------------------------------------------
(* GetPlayerKey.                                                           *)
PlayerKey(who, slot) == IF who \in Humans THEN <<"steam", who>> ELSE <<"slot", slot>>
Key(entry) == PlayerKey(entry.who, entry.slot)
Keys(entries) == {Key(r) : r \in entries}

InSlot(s) == {r \in rows : r.slot = s}

(* The first that is found, if any.                                        *)
FirstOf(entries) == IF entries = {} THEN {{}} ELSE {{r} : r \in entries}

Fresh(packet) ==
  [who |-> packet.who, slot |-> packet.slot, age |-> 0, pending |-> FALSE, seen |-> TRUE]

SlotOwners(packet) == {r \in InSlot(packet.slot) : Key(r) # Key(packet)}

(* Faulty variants of the definitions below: what a plausible slip in the  *)
(* code would do.  No specification uses them; each is put in the place of *)
(* the definition it is named after to show that a property notices.       *)
Upsert_KeepsOwner(packet, marking) ==
  LET others == IF Key(packet) \in Keys(rows) THEN {} ELSE SlotOwners(packet)
  IN \E gone \in FirstOf(others) :
       /\ rows' = {r \in rows \ gone : Key(r) # Key(packet)} \cup {Fresh(packet)}
       /\ markers' = (markers \ Keys(gone)) \cup (IF marking THEN {Key(packet)} ELSE {})
       /\ UNCHANGED <<shownMap, hold, settling, awaiting>>

(* UpsertPlayer.  A row of another key in the slot goes: it is renamed, or *)
(* removed if the key has a row already.                                   *)
Upsert(packet, marking) ==
  \E gone \in FirstOf(SlotOwners(packet)) :
    /\ rows' = {r \in rows \ gone : Key(r) # Key(packet)} \cup {Fresh(packet)}
    /\ markers' = (markers \ Keys(gone)) \cup (IF marking THEN {Key(packet)} ELSE {})
    /\ UNCHANGED <<shownMap, hold, settling, awaiting>>

(* RemovePlayerState.                                                      *)
Drop(gone) == rows' = rows \ gone /\ markers' = markers \ Keys(gone)

(* RemovePlayer: the row of the player, or else the one in his slot.       *)
Targets(packet) ==
  LET own == {r \in rows : Key(r) = Key(packet)}
  IN FirstOf(IF own # {} THEN own ELSE InSlot(packet.slot))

RemovePlayer(packet) ==
  /\ \E target \in Targets(packet) :
       LET gone == {r \in target : r.who # SourceTv}
       IN IF hold > 0
          THEN /\ rows' = (rows \ gone) \cup {[r EXCEPT !.pending = TRUE] : r \in gone}
               /\ UNCHANGED markers
          ELSE Drop(gone)
  /\ UNCHANGED <<shownMap, hold, settling, awaiting>>

Young(r) == [r EXCEPT !.age = 0]

(* BeginRosterTransition.                                                  *)
BeginTransition(time, tracking) ==
  /\ hold' = time
  /\ settling' = tracking
  /\ rows' = {IF tracking THEN [Young(r) EXCEPT !.seen = (r.who = SourceTv)] ELSE Young(r) :
                r \in rows}

(* The announcement of the map is repeated; only another map, or the map   *)
(* that was asked for, begins a transition.                                *)
MapChanged(m) ==
  /\ shownMap' = m
  /\ markers' = IF shownMap = m THEN markers ELSE {}
  /\ IF shownMap # m \/ (awaiting /\ \E r \in rows : r.pending)
     THEN awaiting' = FALSE /\ BeginTransition(SettlingTime, TRUE)
     ELSE UNCHANGED <<rows, hold, settling, awaiting>>

(* A faulty variant: the presence announcements taken for news.            *)
Receive_TrustsPresence(packet) ==
  \/ packet.type = "MapChanged" /\ MapChanged(packet.map)
  \/ packet.type \in {"Connected", "Position"} /\ Upsert(packet, packet.type = "Position")
  \/ packet.type = "Disconnected" /\ RemovePlayer(packet)

(* OnPacketReceived: of those that are announced SourceTV alone is listed. *)
Receive(packet) ==
  \/ packet.type = "MapChanged" /\ MapChanged(packet.map)
  \/ packet.type = "Position" /\ Upsert(packet, TRUE)
  \/ packet.type = "Disconnected" /\ RemovePlayer(packet)
  \/ packet.type = "Connected" /\ packet.who = SourceTv /\ Upsert(packet, FALSE)
  \/ packet.type = "Connected" /\ packet.who # SourceTv /\ UNCHANGED client

-----------------------------------------------------------------------------
Deliver == \E packet \in ToSet(queue) : Delivered(packet) /\ Receive(packet)
Duplicate == \E packet \in ToSet(queue) : Repeated(packet) /\ Receive(packet)
Arrive == \E packet \in air : Arrives(packet) /\ Receive(packet)

(* PruneStalePlayers, ten times a second.                                  *)
Unseen == IF settling THEN {r \in rows : ~r.seen} ELSE {}
Stale == {r \in rows : r.pending \/ r.age > StaleTimeout}
Prunable == {r \in Unseen \cup Stale : r.who # SourceTv}

Prune ==
  /\ hold = 0 /\ rows # {}
  /\ settling \/ Prunable # {}
  /\ Drop(Prunable)
  /\ settling' = FALSE
  /\ UNCHANGED <<presenceVars, shownMap, hold, awaiting>>

(* The administrator asks for a map; the server may do it or refuse.       *)
RequestMap ==
  /\ Event
  /\ awaiting' = TRUE
  /\ BeginTransition(CommandHold, FALSE)
  /\ UNCHANGED <<engine, bridge, network, markers, shownMap>>

(* ClearPlayerRoster; the map keeps its name.  For its only client the     *)
(* server begins again (neo_admin_had_peer).                               *)
Reconnect ==
  /\ Event
  /\ Drop(rows)
  /\ hold' = 0 /\ settling' = FALSE /\ awaiting' = FALSE
  /\ \/ SetCurrentMap(map)
     \/ UNCHANGED <<players, known, due, queue>>
  /\ UNCHANGED <<engine, broadcast, air, shownMap>>

Tick ==
  /\ ServerTick
  /\ hold' = IF hold = 0 THEN 0 ELSE hold - 1
  /\ rows' = {[r EXCEPT !.age = IF @ > StaleTimeout THEN @ ELSE @ + 1] : r \in rows}
  /\ UNCHANGED <<markers, shownMap, settling, awaiting>>

ServerNext == (EngineNext \/ BridgeNext \/ Withheld) /\ UNCHANGED client

RosterNext ==
  ServerNext \/ Deliver \/ Duplicate \/ Arrive \/ Prune \/ RequestMap \/ Reconnect \/ Tick

RosterSpec == RosterInit /\ [][RosterNext]_rosterVars

(* The frames go on, levels load, the worker sends, time passes, and the   *)
(* timer of the form runs.  Nothing is assumed of players, administrators  *)
(* and faults.                                                             *)
RosterFairness ==
  /\ WF_rosterVars(Resume /\ UNCHANGED client)
  /\ WF_rosterVars(Broadcast /\ UNCHANGED client)
  /\ \A s \in Slots : WF_rosterVars(Heartbeat(s) /\ UNCHANGED client)
  /\ WF_rosterVars(Deliver)
  /\ WF_rosterVars(Prune)
  /\ WF_rosterVars(Tick)

FairRoster == RosterSpec /\ RosterFairness

-----------------------------------------------------------------------------
(* Types of the server's view, the packets and the rows.                   *)
RosterTypeOK ==
  /\ slots \in [Slots -> Occupants \cup {NoOne}] /\ map \in Maps /\ simulating \in BOOLEAN
  /\ players \in [Slots -> Occupants \cup {NoOne}]
  /\ known \in [Slots -> Humans \cup {Bot, NoOne}]
  /\ due \subseteq Slots /\ broadcast \in BOOLEAN
  /\ ToSet(queue) \subseteq PlayerPacket \cup MapPacket
  /\ air \subseteq PlayerPacket \cup MapPacket
  /\ rows \subseteq Row
  /\ hold \in Nat /\ settling \in BOOLEAN /\ awaiting \in BOOLEAN

(* However packets are lost, repeated and reordered: no two rows are in    *)
(* one slot or of one player, and every marker on the map has its row, so  *)
(* that a drag or a command meets the player that is shown.                *)
ViewConsistent ==
  /\ \A q, r \in rows : q.slot = r.slot \/ Key(q) = Key(r) => q = r
  /\ markers \subseteq Keys(rows)

Shown == {<<r.who, r.slot>> : r \in {q \in rows : q.who # SourceTv}}
Playing == {<<slots[s], s>> : s \in {t \in Slots : InGame(t)}}

(* Once players, maps and network come to rest, the list shows exactly the *)
(* players that are in the game, each in his slot, though no packet about  *)
(* them is acknowledged and the server's cache may be out of date.         *)
RosterConverges == <>[](Shown = Playing)

(* And the map overview is that of the level which runs: an announcement   *)
(* that was lost is repeated, and an old one that arrives late is          *)
(* corrected.                                                              *)
MapConverges == <>[](shownMap = map)
=============================================================================
