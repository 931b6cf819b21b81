----------------------------- MODULE Operations -----------------------------
(***************************************************************************)
(* Map rotation, scheduled map changes and announcements                   *)
(* (server/src/neo_admin_operations.cpp), with the part of the game frame  *)
(* that carries out what is due (VoiceBridge_OnServerFrame in              *)
(* server/src/gamesystem.cpp).                                             *)
(*                                                                         *)
(* The store is one document.  A command changes it in memory, writes it,  *)
(* and takes the change back by hand when the write fails.  Work that is   *)
(* due is taken out first and carried out afterwards, whether or not the   *)
(* write succeeded.  The server may crash between any two steps; a crash   *)
(* during a write is a write that failed or succeeded and a crash.         *)
(***************************************************************************)
EXTENDS Naturals, SequencesExt

CONSTANTS
  Maps,           \* the maps of the server's catalog
  Messages,       \* texts of announcements
  Repeats,        \* intervals of repeating announcements
  NoDocument,     \* nothing on disk yet
  MaxRotation,    \* kMaximumRotationMaps
  MaxEntries,     \* kMaximumSchedules
  PerFrame,       \* announcements that one frame sends
  Grace,          \* the 5 seconds by which a time may lie in the past
  Future,         \* kMaximumFutureSeconds
  MaxTime,        \* bound of the model: the clock
  MaxId           \* bound of the model: entries ever created

ASSUME RepeatsAssumption == Repeats \subseteq Nat \ {0}
ASSUME LimitsAssumption == MaxRotation \in Nat /\ MaxEntries \in Nat
ASSUME TimesAssumption == Grace \in Nat /\ Future \in Nat /\ MaxTime \in Nat
ASSUME PerFrameAssumption == PerFrame \in Nat \ {0}
ASSUME MaxIdAssumption == MaxId \in Nat

(* Scheduled maps never repeat; otherwise the two lists are treated alike. *)
Lists == {"maps", "announcements"}
Contents(list) == IF list = "maps" THEN Maps ELSE Messages
Intervals(list) == IF list = "maps" THEN {0} ELSE Repeats \cup {0}

Entry(list) == [id : Nat \ {0}, what : Contents(list), when : Nat,
                repeat : Intervals(list)]

(* rotation_enabled_ is stored and shown, but nothing depends on it.       *)
Document == [rotation : Seq(Maps), index : Nat, maps : Seq(Entry("maps")),
             announcements : Seq(Entry("announcements")), nextId : Nat \ {0}]

Empty == [rotation |-> <<>>, index |-> 0, maps |-> <<>>, announcements |-> <<>>,
          nextId |-> 1]

(* One turn of an entry: a repeating announcement has many.                *)
Turn == [list : Lists, id : Nat \ {0}, when : Nat]

ASSUME NoDocumentAssumption == NoDocument \notin Document

VARIABLES
  ops,            \* the members of the store
  disk,           \* the document "operations"
  step,           \* where the frame stands; "down": no server
  budget,         \* what this part of the frame may still take
  due,            \* the turn that was taken and is not carried out yet
  clock,          \* std::time
  lagging,        \* history: a taken turn is not on disk yet
  done,           \* history: the turns carried out
  excused,        \* history: the turns whose removal could not be written
  issued          \* history: which entry an ID was given to

storeVars == <<ops, disk>>
frameVars == <<step, budget, due>>
history == <<lagging, done, excused, issued>>
vars == <<storeVars, frameVars, clock, history>>

Entries(doc, list) == ToSet(doc[list])

Init ==
  /\ ops = Empty
  /\ disk = NoDocument
  /\ step = "down"
  /\ budget = 0
  /\ due = {}
  /\ clock = 0
  /\ lagging = FALSE
  /\ done = {}
  /\ excused = {}
  /\ issued = {}

-----------------------------------------------------------------------------
(* Save writes the document; when that fails, the operation takes back by  *)
(* hand what it did in memory.                                             *)
Save(new, undone) ==
  \/ /\ ops' = new
     /\ disk' = new
     /\ lagging' = FALSE
  \/ /\ ops' = undone
     /\ UNCHANGED <<disk, lagging>>

Commands == step = "commands"

Position(list, id) == SelectInSeq(ops[list], LAMBDA e : e.id = id)

(* std::min_element: the first of the entries with the earliest time.      *)
Earliest(list) ==
  SelectInSeq(ops[list], LAMBDA e : \A f \in Entries(ops, list) : e.when <= f.when)

IsDue(list) == \E e \in Entries(ops, list) : e.when <= clock

-----------------------------------------------------------------------------
(* Faulty variants of the definitions below: what a plausible slip in the  *)
(* code would do.  No specification uses them; each is put in the place of *)
(* the definition it is named after to show that a property notices.       *)

(* A failed save leaves the new entry in the list.                         *)
UndoAdd_KeepsEntry(list, new) == [new EXCEPT !.nextId = @ - 1]

(* A failed save brings the removed entry back at the end.                 *)
UndoDelete_AtEnd(list, new, i, e) == [new EXCEPT ![list] = Append(@, e)]

(* A rotation is added to the one before.                                  *)
Rotated_Appended(maps) == [ops EXCEPT !.rotation = @ \o maps]

(* A shorter rotation keeps the old index.                                 *)
Rotated_Unclamped(maps) == [ops EXCEPT !.rotation = maps]

(* The interval is added to a copy of the entry.                           *)
Taken_Copy(list, i) ==
  IF ops[list][i].repeat = 0 THEN [ops EXCEPT ![list] = RemoveAt(@, i)] ELSE ops

(* What is due is written before it is taken out.                          *)
SaveTaken_TooEarly(new) == ops' = new /\ disk' \in {ops, disk} /\ lagging' = (disk' # ops)

(* The next ID is computed from the entries that are left.                 *)
Loaded_FromEntries(doc) ==
  [doc EXCEPT
     !.index = IF doc.rotation = <<>> \/ @ >= Len(doc.rotation) THEN 0 ELSE @,
     !.nextId = Max({e.id : e \in Entries(doc, "maps") \cup Entries(doc, "announcements")}
                      \cup {0}) + 1]

-----------------------------------------------------------------------------
(* SaveScheduledMap and SaveAnnouncement.                                  *)
MayAdd(list, when) ==
  /\ when + Grace >= clock /\ when <= clock + Future
  /\ Len(ops[list]) < MaxEntries

Added(list, e) == [ops EXCEPT ![list] = Append(@, e), !.nextId = @ + 1]

UndoAdd(list, new) == [new EXCEPT ![list] = Front(@), !.nextId = @ - 1]

Add(list, what, when, repeat) ==
  /\ Commands
  /\ MayAdd(list, when)
  /\ ops.nextId <= MaxId
  /\ LET e == [id |-> ops.nextId, what |-> what, when |-> when, repeat |-> repeat]
         new == Added(list, e)
     IN \/ /\ Save(new, UndoAdd(list, new)) /\ ops' = new
           /\ issued' = issued \cup {[list |-> list, id |-> e.id, what |-> what]}
        \/ /\ Save(new, UndoAdd(list, new)) /\ ops' # new
           /\ UNCHANGED issued
  /\ UNCHANGED <<frameVars, clock, done, excused>>

(* DeleteScheduledMap and DeleteAnnouncement: an administrator names the   *)
(* entry by its ID, as a catalog showed it, perhaps long ago.              *)
UndoDelete(list, new, i, e) == [new EXCEPT ![list] = InsertAt(@, i, e)]

Delete(list, id) ==
  /\ Commands
  /\ Position(list, id) # 0
  /\ LET i == Position(list, id)
         new == [ops EXCEPT ![list] = RemoveAt(@, i)]
     IN Save(new, UndoDelete(list, new, i, ops[list][i]))
  /\ UNCHANGED <<frameVars, clock, done, excused, issued>>

(* SaveRotation drops repeated maps and keeps the index in the new list.   *)
Rotated(maps) ==
  [ops EXCEPT !.rotation = maps,
              !.index = IF maps = <<>> THEN 0 ELSE Min({@, Len(maps) - 1})]

SaveRotation(maps) ==
  /\ Commands
  /\ LET new == Rotated(maps)
     IN Save(new, [new EXCEPT !.rotation = ops.rotation, !.index = ops.index])
  /\ UNCHANGED <<frameVars, clock, done, excused, issued>>

(* RunNextMap hands out the map at the index and advances the index; that  *)
(* the frame may then find this map gone or reserved is not represented.   *)
UndoAdvance(new) ==
  [new EXCEPT !.index = IF @ = 0 THEN Len(new.rotation) - 1 ELSE @ - 1]

RunNextMap ==
  /\ Commands
  /\ ops.rotation # <<>>
  /\ LET new == [ops EXCEPT !.index = (@ + 1) % Len(ops.rotation)]
     IN Save(new, UndoAdvance(new))
  /\ UNCHANGED <<frameVars, clock, done, excused, issued>>

-----------------------------------------------------------------------------
(* After the commands of a frame: up to PerFrame announcements, one map.   *)
BeginPart(part, limit) ==
  /\ step' = part
  /\ budget' = limit
  /\ UNCHANGED <<storeVars, due, clock, history>>

BeginAnnouncements == Commands /\ BeginPart("announcements", PerFrame)

BeginMaps ==
  /\ step = "announcements" /\ due = {}
  /\ budget = 0 \/ ~IsDue("announcements")
  /\ BeginPart("maps", 1)

EndFrame ==
  /\ step = "maps" /\ due = {}
  /\ budget = 0 \/ ~IsDue("maps")
  /\ BeginPart("commands", 0)

(* The first time after now on the grid of the interval: the loop of       *)
(* TakeDueAnnouncement, entered with a time that has come.                 *)
NextTime(e) == e.when + ((clock - e.when) \div e.repeat + 1) * e.repeat

Taken(list, i) ==
  IF ops[list][i].repeat = 0
  THEN [ops EXCEPT ![list] = RemoveAt(@, i)]
  ELSE [ops EXCEPT ![list][i].when = NextTime(ops[list][i])]

(* The outcome of this Save is ignored.                                    *)
SaveTaken(new) ==
  /\ ops' = new
  /\ \/ disk' = new /\ lagging' = FALSE
     \/ UNCHANGED disk /\ lagging' = TRUE

(* TakeDueAnnouncement and TakeDueMap.                                     *)
TakeDue(list) ==
  /\ step = list /\ due = {} /\ budget > 0
  /\ IsDue(list)
  /\ LET i == Earliest(list)
     IN /\ SaveTaken(Taken(list, i))
        /\ due' = {[list |-> list, id |-> ops[list][i].id, when |-> ops[list][i].when]}
  /\ excused' = IF lagging' THEN excused \cup due' ELSE excused
  /\ budget' = budget - 1
  /\ UNCHANGED <<step, clock, done, issued>>

(* The announcement is broadcast; the map is changed, unless it has gone.  *)
CarryOut ==
  /\ due # {}
  /\ done' = done \cup due
  /\ due' = {}
  /\ UNCHANGED <<storeVars, step, budget, clock, lagging, excused, issued>>

-----------------------------------------------------------------------------
(* Load: a missing document is created, which may fail; a stored one is    *)
(* accepted within the limits and normalised.                              *)
Loadable(doc) == Len(doc.rotation) <= MaxRotation
                   /\ \A list \in Lists : Len(doc[list]) <= MaxEntries

Loaded(doc) ==
  [doc EXCEPT
     !.index = IF doc.rotation = <<>> \/ @ >= Len(doc.rotation) THEN 0 ELSE @,
     !.nextId = Max({e.id + 1 : e \in Entries(doc, "maps") \cup Entries(doc, "announcements")}
                      \cup {@})]

Start ==
  /\ step = "down"
  /\ \/ disk = NoDocument /\ ops' = Empty /\ disk' = Empty
     \/ /\ disk # NoDocument /\ Loadable(disk)
        /\ ops' = Loaded(disk) /\ UNCHANGED disk
  /\ step' = "commands"
  /\ UNCHANGED <<budget, due, clock, history>>

(* The plugin is unloaded or crashes: what it took and did not carry out   *)
(* is gone.                                                                *)
Halt ==
  /\ step # "down"
  /\ ops' = Empty
  /\ step' = "down"
  /\ budget' = 0
  /\ due' = {}
  /\ lagging' = FALSE
  /\ UNCHANGED <<disk, clock, done, excused, issued>>

Tick ==
  /\ clock < MaxTime
  /\ clock' = clock + 1
  /\ UNCHANGED <<storeVars, frameVars, history>>

Rotations == {maps \in SeqOf(Maps, MaxRotation) : IsInjective(maps)}

Command ==
  \/ \E list \in Lists :
       \/ \E what \in Contents(list), when \in 0..(MaxTime + Future),
             repeat \in Intervals(list) : Add(list, what, when, repeat)
       \/ \E id \in 1..MaxId : Delete(list, id)
  \/ \E maps \in Rotations : SaveRotation(maps)
  \/ RunNextMap

Frame ==
  \/ BeginAnnouncements \/ BeginMaps \/ EndFrame
  \/ \E list \in Lists : TakeDue(list)
  \/ CarryOut

Next == Command \/ Frame \/ Start \/ Halt \/ Tick

Spec == Init /\ [][Next]_vars

(* The engine runs one frame after another, and a frame comes to its end.  *)
FairSpec == Spec /\ WF_vars(Frame)

-----------------------------------------------------------------------------
(* Every variable keeps its type, and both lists, in memory and on disk,   *)
(* the limits that the next Load insists on.                               *)
TypeOK ==
  /\ ops \in Document /\ Loadable(ops)
  /\ disk \in Document \cup {NoDocument}
  /\ disk # NoDocument => Loadable(disk)
  /\ step \in Lists \cup {"commands", "down"}
  /\ budget \in 0..Max({PerFrame, 1})
  /\ due \subseteq Turn /\ Cardinality(due) <= 1
  /\ clock \in 0..MaxTime
  /\ lagging \in BOOLEAN
  /\ done \subseteq Turn /\ excused \subseteq Turn
  /\ issued \subseteq [list : Lists, id : Nat \ {0}, what : Maps \cup Messages]

(* RunNextMap never reads past the rotation, which may have become shorter *)
(* since the index was stored (neo_admin_operations.cpp:297).              *)
IndexInRange == ops.rotation # <<>> => ops.index < Len(ops.rotation)

Identities(doc, list) ==
  {[list |-> list, id |-> e.id, what |-> e.what] : e \in Entries(doc, list)}

AllEntries(doc) == UNION {Identities(doc, list) : list \in Lists}

(* An ID names one entry for ever, across failed saves, deletions and      *)
(* restarts: a removal that was composed from an old catalog removes what  *)
(* its sender saw or nothing (lines 261-288 and 361-388).                  *)
IdsNameOneEntry ==
  /\ \A a, b \in issued : a.id = b.id => a = b
  /\ AllEntries(ops) \subseteq issued
  /\ disk # NoDocument => AllEntries(disk) \subseteq issued

(* Unless a due turn could not be written, memory and disk are the same    *)
(* document, the order of its entries included: no failed request leaves a *)
(* trace, and a later save writes what earlier ones could not.             *)
MirrorsDisk == step # "down" /\ ~lagging => ops = disk

(* Whatever saves failed, what waits in memory also waits on disk, at the  *)
(* same time or an earlier one: a crash never loses work that is not due.  *)
NothingForgotten ==
  step # "down" => \A list \in Lists : \A e \in Entries(ops, list) :
    \E d \in Entries(disk, list) : d.id = e.id /\ d.when <= e.when

(* A turn is carried out once.  Only a turn whose removal could not be     *)
(* written may come back after a restart (lines 310-323 and 390-409).      *)
NothingTwice == due \cap done \subseteq excused

(* What is due is taken while the server runs, however often it repeats    *)
(* and whatever else is due: no entry starves behind the others.           *)
Overdue(list, id) ==
  step # "down" /\ \E e \in Entries(ops, list) : e.id = id /\ e.when <= clock

EveryTurnComes ==
  \A list \in Lists, id \in 1..MaxId : Overdue(list, id) ~> ~Overdue(list, id)

=============================================================================
