----------------------------- MODULE Moderation -----------------------------
(***************************************************************************)
(* The bans and the discipline of the server: neo_admin_bans.cpp,          *)
(* neo_admin_discipline.cpp and the operations of neo_ptt.cpp that use     *)
(* both (NeoPtt_SaveBan, NeoPtt_DeleteBan, NeoPtt_RecordDiscipline).       *)
(*                                                                         *)
(* There are two documents.  A restriction and its line of history are in  *)
(* the same one and are written together; a ban is written first and its   *)
(* line of history afterwards, by a second write that may fail, may be     *)
(* refused, or may never come because the server crashes in between.       *)
(***************************************************************************)
EXTENDS Naturals, FiniteSets, SequencesExt

CONSTANTS
  Ids,              \* Steam IDs
  Kinds,            \* of restrictions
  LongNames,        \* those of players whose name has more than 44 bytes
  Durations,        \* of bans and restrictions; 0 is for ever
  MaxBans,          \* kMaximumActiveBans
  MaxRestrictions,  \* kMaximumRestrictions
  MaxHistory,       \* kMaximumHistory
  MaxTime           \* bound of the model: the clock

ASSUME KindsAssumption == Kinds \subseteq {"Mute", "Gag"}
ASSUME LongNamesAssumption == LongNames \subseteq Ids
ASSUME DurationsAssumption == Durations \subseteq Nat
ASSUME MaximaAssumption ==
  MaxBans \in Nat /\ MaxRestrictions \in Nat /\ MaxHistory \in Nat /\ MaxTime \in Nat

Topics == Kinds \cup {"Ban"}

(* A time of expiry; 0 is never.                                           *)
Ban == [id : Ids, until : Nat]
Restriction == [id : Ids, kind : Kinds, until : Nat]

(* A line of history: "Ban", "Mute", "Gag" or their opposite.  Kicks and   *)
(* slays are recorded too; no store is behind them and they are left out.  *)
Line == [id : Ids, topic : Topics, on : BOOLEAN, until : Nat]

Subject == [id : Ids, topic : Topics]

VARIABLES
  bans,             \* bans_
  restrictions,     \* restrictions_
  history,          \* history_
  banDoc,           \* the document "bans"
  disciplineDoc,    \* the document "discipline"
  note,             \* the line of history that is due for a stored ban
  up,               \* the server runs
  clock,            \* std::time
  disputed          \* history: whose last line of history is lost or wrong

stores == <<bans, restrictions, history>>
documents == <<banDoc, disciplineDoc>>
vars == <<stores, documents, note, up, clock, disputed>>

(* A document that does not exist yet reads as an empty one.               *)
Init ==
  /\ bans = {} /\ restrictions = {} /\ history = <<>>
  /\ banDoc = {}
  /\ disciplineDoc = [restrictions |-> {}, history |-> <<>>]
  /\ note = {}
  /\ up = FALSE
  /\ clock = 0
  /\ disputed = {}

-----------------------------------------------------------------------------
InForce(r) == r.until = 0 \/ r.until > clock
Live(records) == {r \in records : InForce(r)}

Until(duration) == IF duration = 0 THEN 0 ELSE clock + duration

About(line) == [id |-> line.id, topic |-> line.topic]

(* The history keeps its latest MaxHistory lines.                          *)
Lengthened(line) ==
  LET all == Append(history, line)
  IN IF Len(all) > MaxHistory
     THEN SubSeq(all, Len(all) - MaxHistory + 1, Len(all)) ELSE all

(* A request is handled while no line of history is due.                   *)
Handling == up /\ note = {}

-----------------------------------------------------------------------------
(* Faulty variants of the definitions below: what a plausible slip in the  *)
(* code would do.  No specification uses them; each is put in the place of *)
(* the definition it is named after to show that a property notices.       *)

(* A ban that could not be written leaves the pruned list behind.          *)
SaveBans_KeepsPruned(new, line, written) ==
  IF written
  THEN bans' = new /\ banDoc' = new /\ note' = {line}
  ELSE bans' = bans \cap new /\ UNCHANGED <<banDoc, note>>

(* One record more than the limit.                                         *)
HasRoom_OffByOne(records, others, max) ==
  others # records \/ Cardinality(records) <= max

(* A restriction is found by its player alone.                             *)
Found_AnyKind(id, kind) == {r \in restrictions : r.id = id}

-----------------------------------------------------------------------------
(* BanStore::Save: when the write fails, the old list comes back and       *)
(* nothing is recorded.                                                    *)
SaveBans(new, line, written) ==
  IF written
  THEN bans' = new /\ banDoc' = new /\ note' = {line}
  ELSE UNCHANGED <<bans, banDoc, note>>

(* DisciplineStore::Save: the line is appended and written with the        *)
(* restrictions, or both come back as they were.                           *)
SaveDiscipline(new, undone, line, written) ==
  IF written
  THEN /\ restrictions' = new
       /\ history' = Lengthened(line)
       /\ disciplineDoc' = [restrictions |-> new, history |-> Lengthened(line)]
  ELSE restrictions' = undone /\ UNCHANGED <<history, disciplineDoc>>

(* What the line says of its subject is right from now on.                 *)
Settle(line, written) ==
  disputed' = IF written THEN disputed \ {About(line)} ELSE disputed

(* An update is always possible, a new record below the limit.             *)
HasRoom(records, others, max) ==
  others # records \/ Cardinality(records) < max

OtherBans(id) == {b \in Live(bans) : b.id # id}
MayBan(id) == HasRoom(Live(bans), OtherBans(id), MaxBans)

(* NeoPtt_SaveBan: BanStore::Upsert drops what has expired and adds or     *)
(* replaces the ban; then its line of history is due.                      *)
SaveBan(id, duration, written) ==
  /\ Handling
  /\ MayBan(id)
  /\ SaveBans(OtherBans(id) \cup {[id |-> id, until |-> Until(duration)]},
              [id |-> id, topic |-> "Ban", on |-> TRUE, until |-> Until(duration)],
              written)
  /\ disputed' = disputed \cup {About(line) : line \in note'}
  /\ UNCHANGED <<restrictions, history, disciplineDoc, up, clock>>

(* NeoPtt_DeleteBan: an expired ban can still be removed.                  *)
DeleteBan(id, written) ==
  /\ Handling
  /\ \E b \in bans :
       /\ b.id = id
       /\ SaveBans(bans \ {b}, [id |-> id, topic |-> "Ban", on |-> FALSE, until |-> 0],
                   written)
  /\ disputed' = disputed \cup {About(line) : line \in note'}
  /\ UNCHANGED <<restrictions, history, disciplineDoc, up, clock>>

(* DisciplineStore::Record refuses a name of more than 64 bytes, and the   *)
(* name that the removal of a ban passes is followed by the Steam ID.      *)
Recordable(line) == line.on \/ line.topic # "Ban" \/ line.id \notin LongNames

(* The second half of NeoPtt_SaveBan and NeoPtt_DeleteBan; its outcome is  *)
(* ignored.                                                                *)
RecordNote(written) ==
  /\ up
  /\ \E line \in note :
       LET recorded == Recordable(line) /\ written
       IN /\ SaveDiscipline(restrictions, restrictions, line, recorded)
          /\ Settle(line, recorded)
  /\ note' = {}
  /\ UNCHANGED <<bans, banDoc, up, clock>>

-----------------------------------------------------------------------------
OtherRestrictions(id, kind) ==
  {r \in Live(restrictions) : r.id # id \/ r.kind # kind}
MayRestrict(id, kind) ==
  HasRoom(Live(restrictions), OtherRestrictions(id, kind), MaxRestrictions)

(* DisciplineStore::UpsertRestriction: what has expired is dropped for     *)
(* good, whether or not the request succeeds.                              *)
UpsertRestriction(id, kind, duration, written) ==
  /\ Handling
  /\ LET stored == MayRestrict(id, kind) /\ written
         line == [id |-> id, topic |-> kind, on |-> TRUE, until |-> Until(duration)]
     IN /\ SaveDiscipline(OtherRestrictions(id, kind)
                            \cup {[id |-> id, kind |-> kind, until |-> Until(duration)]},
                          Live(restrictions), line, stored)
        /\ Settle(line, stored)
  /\ UNCHANGED <<bans, banDoc, note, up, clock>>

Found(id, kind) == {r \in restrictions : r.id = id /\ r.kind = kind}
LiftLine(id, kind) == [id |-> id, topic |-> kind, on |-> FALSE, until |-> 0]

(* DisciplineStore::RemoveRestriction: an expired one can be removed, too. *)
RemoveRestriction(id, kind, written) ==
  /\ Handling
  /\ Found(id, kind) # {}
  /\ SaveDiscipline(restrictions \ Found(id, kind), restrictions, LiftLine(id, kind), written)
  /\ Settle(LiftLine(id, kind), written)
  /\ UNCHANGED <<bans, banDoc, note, up, clock>>

(* The in-game menu lifts a mute or gag that is in force although no       *)
(* restriction is stored, or although its removal could not be written,    *)
(* and records that by NeoPtt_RecordDiscipline.                            *)
RecordLift(id, kind, written) ==
  /\ Handling
  /\ SaveDiscipline(restrictions, restrictions, LiftLine(id, kind), written)
  /\ IF Found(id, kind) = {} \/ ~written
     THEN Settle(LiftLine(id, kind), written)
     ELSE disputed' = disputed \cup {About(LiftLine(id, kind))}
  /\ UNCHANGED <<bans, banDoc, note, up, clock>>

-----------------------------------------------------------------------------
(* BanStore::Load keeps expired bans, DisciplineStore::Load drops expired  *)
(* restrictions.                                                           *)
Start ==
  /\ ~up
  /\ up' = TRUE
  /\ bans' = banDoc
  /\ restrictions' = Live(disciplineDoc.restrictions)
  /\ history' = disciplineDoc.history
  /\ UNCHANGED <<documents, note, clock, disputed>>

(* The server stops or crashes; a line of history that is due is lost.     *)
Halt ==
  /\ up
  /\ up' = FALSE
  /\ bans' = {} /\ restrictions' = {} /\ history' = <<>>
  /\ note' = {}
  /\ UNCHANGED <<documents, clock, disputed>>

Tick ==
  /\ clock < MaxTime
  /\ clock' = clock + 1
  /\ UNCHANGED <<stores, documents, note, up, disputed>>

Request ==
  \E id \in Ids, written \in BOOLEAN :
    \/ \E duration \in Durations :
         \/ SaveBan(id, duration, written)
         \/ \E kind \in Kinds : UpsertRestriction(id, kind, duration, written)
    \/ DeleteBan(id, written)
    \/ \E kind \in Kinds :
         RemoveRestriction(id, kind, written) \/ RecordLift(id, kind, written)

Next ==
  \/ Request
  \/ \E written \in BOOLEAN : RecordNote(written)
  \/ Start \/ Halt \/ Tick

Spec == Init /\ [][Next]_vars

-----------------------------------------------------------------------------
(* Every variable keeps its type.  In memory and on disk there is one      *)
(* record of a subject, which Load of the bans insists on, and no list     *)
(* passes its limit, however requests, expiry, failed writes and restarts  *)
(* alternate.                                                              *)
TypeOK ==
  /\ bans \subseteq Ban /\ restrictions \subseteq Restriction
  /\ banDoc \subseteq Ban
  /\ disciplineDoc.restrictions \subseteq Restriction
  /\ history \in Seq(Line) /\ disciplineDoc.history \in Seq(Line)
  /\ \A b, c \in banDoc : b.id = c.id => b = c
  /\ \A r, s \in disciplineDoc.restrictions : r.id = s.id /\ r.kind = s.kind => r = s
  /\ Cardinality(banDoc) <= MaxBans
  /\ Cardinality(disciplineDoc.restrictions) <= MaxRestrictions
  /\ Len(disciplineDoc.history) <= MaxHistory
  /\ note \subseteq Line /\ Cardinality(note) <= 1
  /\ up \in BOOLEAN /\ clock \in 0..MaxTime
  /\ disputed \subseteq Subject

(* While the server runs, memory is what is on disk, except for            *)
(* restrictions that have expired: a request that failed leaves nothing    *)
(* behind in either (bans.cpp:212-229, discipline.cpp:232-259 and          *)
(* 287-308).                                                               *)
StoresMirrorDisk ==
  up => /\ bans = banDoc
        /\ history = disciplineDoc.history
        /\ restrictions \subseteq disciplineDoc.restrictions
        /\ \A r \in disciplineDoc.restrictions \ restrictions : ~InForce(r)

(* What the stores hold about a subject.                                   *)
Holds(line) ==
  IF line.topic = "Ban"
  THEN \E b \in bans : b.id = line.id /\ b.until = line.until
  ELSE \E r \in restrictions : r.id = line.id /\ r.kind = line.topic /\ r.until = line.until

HoldsNothing(line) ==
  IF line.topic = "Ban"
  THEN \A b \in bans : b.id # line.id
  ELSE Found(line.id, line.topic) = {}

(* The last line of history about a subject tells what the stores hold: an *)
(* action that has not expired is in force with the same expiry, a removed *)
(* one is gone.  The exceptions are known ones: a line that was never      *)
(* written after a ban changed, and a removal recorded by the menu that    *)
(* could not be written (neo_ptt.cpp:1789-1825).                           *)
HistoryAgrees ==
  up => \A i \in DOMAIN history :
    LET line == history[i]
        last == \A j \in DOMAIN history : j > i => About(history[j]) # About(line)
    IN last /\ About(line) \notin disputed =>
         IF line.on THEN Holds(line) \/ ~InForce(line) ELSE HoldsNothing(line)

=============================================================================
