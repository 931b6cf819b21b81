---------------------------- MODULE Enforcement -----------------------------
(***************************************************************************)
(* How bans, mutes and gags reach the players: Moderation composed with    *)
(* the infractions of server/src/adminsystem.cpp and the players of        *)
(* server/src/playermanager.cpp, by the commands 111 to 115 of             *)
(* server/src/gamesystem.cpp, the in-game menu (neo_admin_menu.cpp) and    *)
(* the chat commands.                                                      *)
(*                                                                         *)
(* A mute is kept three times: as a restriction that administrators see,   *)
(* as an infraction with a file of its own, and as a flag of the player    *)
(* who is connected, which is what silences him.  A command changes the    *)
(* first, then the other two.                                              *)
(***************************************************************************)
EXTENDS Moderation, Ascending

CONSTANTS
  Slots,        \* slots of the server
  NoSlot,       \* a command that names no slot
  NoPlayer      \* an empty slot

ASSUME NoSlotAssumption == NoSlot \notin Slots

Infraction == [id : Ids, kind : Topics, until : Nat]
Player == [id : Ids, auth : BOOLEAN, flags : SUBSET Kinds]

ASSUME NoPlayerAssumption == NoPlayer \notin Player

VARIABLES
  infractions,  \* m_vecInfractions
  file,         \* infractions.txt
  players,      \* m_vecPlayers
  order         \* the command whose store is written and that goes on

enforcement == <<infractions, file, players>>
allVars == <<vars, enforcement, order>>

Order == [do : {"restrict", "lift", "menu lift", "kick"}, id : Ids, kind : Topics,
          duration : Nat, slot : Slots \cup {NoSlot}, stored : BOOLEAN]

NoOne == [slot \in Slots |-> NoPlayer]

EnforcementInit ==
  /\ Init
  /\ infractions = <<>> /\ file = <<>>
  /\ players = NoOne
  /\ order = {}

-----------------------------------------------------------------------------
(* Nothing else happens on the game thread while a command is handled,     *)
(* except that time passes or the server stops.                            *)
Idle == Handling /\ order = {}

Present(slot) == slot \in Slots /\ players[slot] # NoPlayer

(* The player is still in the slot that the command names.                 *)
Names(slot, id) == Present(slot) /\ players[slot].id = id

(* FindAndRemoveInfraction(SteamId64): the last one that matches.          *)
Matching(list, id, kind) ==
  {i \in DOMAIN list : list[i].id = id /\ list[i].kind = kind}

Without(list, id, kind) ==
  IF Matching(list, id, kind) = {}
  THEN list ELSE RemoveAt(list, Max(Matching(list, id, kind)))

(* Faulty variant of With, which no specification uses: the older          *)
(* infraction stays.                                                       *)
With_Twice(list, id, kind, duration) ==
  Append(list, [id |-> id, kind |-> kind, until |-> Until(duration)])

With(list, id, kind, duration) ==
  Append(Without(list, id, kind), [id |-> id, kind |-> kind, until |-> Until(duration)])

(* SaveInfractions leaves out what has expired.  The write may fail, and   *)
(* may leave an empty file.                                                *)
SaveInfractions(list) ==
  LET lasting == {k \in DOMAIN list : list[k].until = 0 \/ list[k].until >= clock}
  IN file' \in {Remaining(list, lasting), file, <<>>}

-----------------------------------------------------------------------------
(* ApplyInfractions goes from the last infraction to the first.  Each one  *)
(* of the player is undone; one that has expired is dropped, another one   *)
(* is applied again.  So the first one of a kind has the last word.        *)
FlagsAfter(list, player) ==
  {kind \in Kinds :
     LET mine == Matching(list, player.id, kind)
     IN IF mine = {} THEN kind \in player.flags ELSE InForce(list[Min(mine)])}

Expiring(list, ids) ==
  Remaining(list, {k \in DOMAIN list : list[k].id \notin ids \/ InForce(list[k])})

BansInForce(list, id) == {i \in Matching(list, id, "Ban") : InForce(list[i])}

(* A player who connects with a ban is turned away at once, before the     *)
(* infractions that stand in front of the ban are looked at.               *)
TurnedAway(list, id) ==
  LET last == Max(BansInForce(list, id))
  IN Remaining(list, {k \in DOMAIN list :
                        k <= last \/ list[k].id # id \/ InForce(list[k])})

(* A player who is connected is disconnected by a ban.                     *)
Checked(list, player) ==
  IF player = NoPlayer \/ BansInForce(list, player.id) # {}
  THEN NoPlayer
  ELSE [player EXCEPT !.flags = FlagsAfter(list, player)]

Online == {players[slot].id : slot \in {s \in Slots : players[s] # NoPlayer}}

(* Faulty variant of CheckAll, which no specification uses: players whom   *)
(* Steam has not authenticated are passed over.                            *)
CheckAll_Authenticated(list) ==
  /\ players' = [slot \in Slots |->
       IF Present(slot) /\ players[slot].auth THEN Checked(list, players[slot])
                                              ELSE players[slot]]
  /\ infractions' = Expiring(list, Online)

(* All players in turn (no player is in two slots).                        *)
CheckAll(list) ==
  /\ players' = [slot \in Slots |-> Checked(list, players[slot])]
  /\ infractions' = Expiring(list, Online)

-----------------------------------------------------------------------------
(* OnClientConnected.  The engine admits a Steam ID once.  Steam may have  *)
(* authenticated the player already, and the infractions are then applied  *)
(* twice, with the same result.                                            *)
Connect(slot, id, auth) ==
  /\ Idle
  /\ players[slot] = NoPlayer /\ id \notin Online
  /\ \A b \in bans : b.id = id => ~InForce(b)
  /\ IF BansInForce(infractions, id) # {}
     THEN /\ infractions' = TurnedAway(infractions, id)
          /\ UNCHANGED players
     ELSE /\ infractions' = Expiring(infractions, {id})
          /\ players' = [players EXCEPT ![slot] =
               [id |-> id, auth |-> auth,
                flags |-> FlagsAfter(infractions, [id |-> id, flags |-> {}])]]
  /\ UNCHANGED <<vars, file, order>>

(* OnValidateAuthTicket with a good answer: OnAuthenticated.               *)
Authenticate(slot) ==
  /\ Idle
  /\ Present(slot) /\ ~players[slot].auth
  /\ players' = [players EXCEPT
       ![slot] = Checked(infractions, [players[slot] EXCEPT !.auth = TRUE])]
  /\ infractions' = Expiring(infractions, {players[slot].id})
  /\ UNCHANGED <<vars, file, order>>

Disconnect(slot) ==
  /\ Idle
  /\ Present(slot)
  /\ players' = [players EXCEPT ![slot] = NoPlayer]
  /\ UNCHANGED <<vars, infractions, file, order>>

(* The timer that looks for expired infractions, every 30 seconds.         *)
CheckInfractions ==
  /\ Idle
  /\ CheckAll(infractions)
  /\ SaveInfractions(infractions')
  /\ UNCHANGED <<vars, order>>

(* c_reload_infractions                                                    *)
Reload ==
  /\ Idle
  /\ CheckAll(file)
  /\ UNCHANGED <<vars, file, order>>

-----------------------------------------------------------------------------
(* ParseInfraction, for one player whom Steam has authenticated.           *)
ChatRestrict(slot, kind, duration) ==
  /\ Idle
  /\ Present(slot) /\ players[slot].auth
  /\ infractions' = With(infractions, players[slot].id, kind, duration)
  /\ players' = [players EXCEPT ![slot] =
       IF kind = "Ban" THEN NoPlayer
       ELSE [players[slot] EXCEPT !.flags = @ \cup {kind}]]
  /\ SaveInfractions(infractions')
  /\ UNCHANGED <<vars, order>>

ChatLift(slot, kind) ==
  /\ Idle
  /\ Present(slot) /\ players[slot].auth
  /\ infractions' = Without(infractions, players[slot].id, kind)
  /\ players' = [players EXCEPT ![slot].flags =
       IF Matching(infractions, players[slot].id, kind) = {} THEN @ ELSE @ \ {kind}]
  /\ SaveInfractions(infractions')
  /\ UNCHANGED <<vars, order>>

ChatUnban(id) ==
  /\ Idle
  /\ Matching(infractions, id, "Ban") # {}
  /\ infractions' = Without(infractions, id, "Ban")
  /\ SaveInfractions(infractions')
  /\ UNCHANGED <<vars, players, order>>

-----------------------------------------------------------------------------
(* What remains of a command when its store was written, or, for the menu, *)
(* could not be.                                                           *)
GoOn(do, id, kind, duration, slot, stored) ==
  order' = {[do |-> do, id |-> id, kind |-> kind, duration |-> duration,
             slot |-> slot, stored |-> stored]}

(* Commands 111 and 112; the menu bans a player who is in the slot.        *)
BanCommand(id, duration, slot, written) ==
  /\ order = {}
  /\ SaveBan(id, duration, written)
  /\ IF written THEN GoOn("kick", id, "Ban", duration, slot, TRUE) ELSE order' = {}
  /\ UNCHANGED enforcement

UnbanCommand(id, written) ==
  /\ order = {}
  /\ DeleteBan(id, written)
  /\ UNCHANGED <<enforcement, order>>

Kick ==
  /\ up /\ note = {}
  /\ \E o \in order :
       /\ o.do = "kick"
       /\ players' = [slot \in Slots |->
            IF slot = o.slot /\ Names(slot, o.id) THEN NoPlayer ELSE players[slot]]
  /\ order' = {}
  /\ UNCHANGED <<vars, infractions, file>>

(* Commands 114 and 115, and the first half of ExecutePunishment.          *)
RestrictCommand(id, kind, duration, slot, written) ==
  /\ order = {}
  /\ UpsertRestriction(id, kind, duration, written)
  /\ IF MayRestrict(id, kind) /\ written
     THEN GoOn("restrict", id, kind, duration, slot, TRUE) ELSE order' = {}
  /\ UNCHANGED enforcement

LiftCommand(id, kind, slot, written) ==
  /\ order = {}
  /\ RemoveRestriction(id, kind, written)
  /\ IF written THEN GoOn("lift", id, kind, 0, slot, TRUE) ELSE order' = {}
  /\ UNCHANGED enforcement

(* ExecuteRemoveRestriction goes on even if nothing is stored, or if the   *)
(* removal could not be written.                                           *)
MenuLift(id, kind, slot, written) ==
  /\ Idle
  /\ Names(slot, id)
  /\ IF Found(id, kind) # {} THEN RemoveRestriction(id, kind, written)
                             ELSE UNCHANGED vars
  /\ GoOn("menu lift", id, kind, 0, slot, Found(id, kind) # {} /\ written)
  /\ UNCHANGED enforcement

(* The second half: the infraction takes the place of an older one, and    *)
(* the player is silenced if the slot is still his.  Its expiry is counted *)
(* from now, not from when the restriction was stored.                     *)
Silence ==
  /\ up
  /\ \E o \in order :
       /\ o.do = "restrict"
       /\ infractions' = With(infractions, o.id, o.kind, o.duration)
       /\ players' = [slot \in Slots |->
            IF slot = o.slot /\ Names(slot, o.id)
            THEN [players[slot] EXCEPT !.flags = @ \cup {o.kind}] ELSE players[slot]]
       /\ SaveInfractions(infractions')
  /\ order' = {}
  /\ UNCHANGED vars

(* FindAndRemoveInfraction compares with the Steam ID of the player, which *)
(* is a null pointer until Steam has authenticated him.                    *)
Dereferences(o) ==
  /\ o.do \in {"lift", "menu lift"}
  /\ Names(o.slot, o.id) /\ ~players[o.slot].auth
  /\ infractions # <<>>

(* The second half: the infraction goes.  Only a player who is in the slot *)
(* that the command names has his flag taken, too; the Windows client      *)
(* never names one (AdminDisciplineForm.cs:150).                           *)
Release ==
  /\ up
  /\ \E o \in order :
       /\ o.do \in {"lift", "menu lift"}
       /\ ~Dereferences(o)
       /\ LET gone == Matching(infractions, o.id, o.kind) # {}
          IN /\ infractions' = Without(infractions, o.id, o.kind)
             /\ players' = [slot \in Slots |->
                  IF slot = o.slot /\ Names(slot, o.id) /\ gone
                  THEN [players[slot] EXCEPT !.flags = @ \ {o.kind}] ELSE players[slot]]
             /\ IF gone \/ o.do = "lift" THEN SaveInfractions(infractions')
                                         ELSE UNCHANGED file
             /\ IF gone /\ ~o.stored
                THEN \E written \in BOOLEAN : RecordLift(o.id, o.kind, written)
                ELSE UNCHANGED vars
  /\ order' = {}

-----------------------------------------------------------------------------
(* The infractions are loaded with the plugin, before the stores.          *)
Boot ==
  /\ Start
  /\ infractions' = file
  /\ UNCHANGED <<file, players, order>>

(* The server stops or crashes, with everybody on it.                      *)
Crash ==
  /\ Halt
  /\ infractions' = <<>>
  /\ players' = NoOne
  /\ order' = {}
  /\ UNCHANGED file

Fault == (\E o \in order : Dereferences(o)) /\ Crash

Note(written) == RecordNote(written) /\ UNCHANGED <<enforcement, order>>
Pass == Tick /\ UNCHANGED <<enforcement, order>>

AnySlot == Slots \cup {NoSlot}

Command ==
  \E id \in Ids, slot \in AnySlot, written \in BOOLEAN :
    \/ UnbanCommand(id, written)
    \/ \E duration \in Durations :
         \/ BanCommand(id, duration, slot, written)
         \/ \E kind \in Kinds : RestrictCommand(id, kind, duration, slot, written)
    \/ \E kind \in Kinds :
         LiftCommand(id, kind, slot, written) \/ MenuLift(id, kind, slot, written)

Chat ==
  \/ \E slot \in Slots, kind \in Kinds : ChatLift(slot, kind)
  \/ \E slot \in Slots, kind \in Topics, duration \in Durations :
       ChatRestrict(slot, kind, duration)
  \/ \E id \in Ids : ChatUnban(id)

Client ==
  \E slot \in Slots :
    \/ \E id \in Ids, auth \in BOOLEAN : Connect(slot, id, auth)
    \/ Authenticate(slot)
    \/ Disconnect(slot)

Finish == Kick \/ Silence \/ Release \/ Fault \/ \E written \in BOOLEAN : Note(written)

EnforcementNext ==
  \/ Command \/ Chat \/ Client \/ Finish
  \/ CheckInfractions \/ Reload
  \/ Boot \/ Crash \/ Pass

EnforcementSpec == EnforcementInit /\ [][EnforcementNext]_allVars

(* A command that was begun is finished, and the timer runs: between the   *)
(* commands of two frames at the latest.                                   *)
FairEnforcement ==
  EnforcementSpec /\ WF_allVars(Finish) /\ SF_allVars(CheckInfractions)

-----------------------------------------------------------------------------
(* Every variable keeps its type, and of a player there is one infraction  *)
(* of a kind, in memory and in the file, however commands, chat, expiry,   *)
(* reloads and restarts alternate.  ApplyInfractions depends on it: an     *)
(* older one that expires would end a newer one, too.                      *)
OnePerKind(list) ==
  \A i, j \in DOMAIN list :
    list[i].id = list[j].id /\ list[i].kind = list[j].kind => i = j

EnforcementTypeOK ==
  /\ infractions \in Seq(Infraction) /\ file \in Seq(Infraction)
  /\ OnePerKind(infractions) /\ OnePerKind(file)
  /\ players \in [Slots -> Player \cup {NoPlayer}]
  /\ order \subseteq Order /\ Cardinality(order) <= 1

(* A mute or gag that is in force reaches the player, also one who had     *)
(* left the slot that the command named, or whom Steam had not             *)
(* authenticated yet (gamesystem.cpp:2544-2556, playermanager.cpp:945).    *)
Escapes(id, kind) ==
  /\ \E i \in Matching(infractions, id, kind) : InForce(infractions[i])
  /\ \E slot \in Slots : Names(slot, id) /\ kind \notin players[slot].flags

RestrictionsTakeHold ==
  \A id \in Ids, kind \in Kinds : Escapes(id, kind) ~> ~Escapes(id, kind)

(* When the removal of a mute or gag is answered with "Player unmuted."    *)
(* (neo_admin_discipline.cpp:310), the player is not silenced any more.    *)
Silenced(id, kind) ==
  \E slot \in Slots : Names(slot, id) /\ kind \in players[slot].flags

LiftedMeansHeard ==
  [][\A o \in order :
       o.do = "lift" /\ order' = {} /\ up' => ~Silenced(o.id, o.kind)']_allVars

=============================================================================
