-------------------------- MODULE ModerationProofs --------------------------
(***************************************************************************)
(* Proofs about Moderation and Enforcement, for any number of players,     *)
(* any durations and any limits.                                           *)
(*                                                                         *)
(* HistoryAgrees is not inductive: after a restart it must hold of what    *)
(* was on disk.  The invariant states the agreement of the two documents   *)
(* instead, which holds also while the server is down; it carries over to  *)
(* memory because memory differs only by restrictions that have expired.   *)
(***************************************************************************)
EXTENDS Enforcement, SequenceLemmas

InForceAt(r, now) == r.until = 0 \/ r.until > now

(* A line tells what these stores hold at this time.                       *)
Right(line, bs, rs, now) ==
  IF line.on
  THEN \/ ~InForceAt(line, now)
       \/ line.topic = "Ban" /\ \E b \in bs : b.id = line.id /\ b.until = line.until
       \/ line.topic # "Ban" /\ \E r \in rs :
            r.id = line.id /\ r.kind = line.topic /\ r.until = line.until
  ELSE /\ line.topic = "Ban" => \A b \in bs : b.id # line.id
       /\ line.topic # "Ban" => \A r \in rs : ~(r.id = line.id /\ r.kind = line.topic)

IsLast(lines, i) ==
  \A j \in DOMAIN lines : j > i => About(lines[j]) # About(lines[i])

Agree(lines, bs, rs, now, exceptions) ==
  \A i \in DOMAIN lines :
    IsLast(lines, i) /\ About(lines[i]) \notin exceptions => Right(lines[i], bs, rs, now)

(* The line that is due tells what became of the ban.                      *)
NoteRight ==
  \A line \in note : line.topic = "Ban" /\ Right(line, bans, {}, clock)

IInv ==
  /\ TypeOK /\ StoresMirrorDisk
  /\ IsFiniteSet(banDoc) /\ IsFiniteSet(disciplineDoc.restrictions)
  /\ Agree(disciplineDoc.history, banDoc, disciplineDoc.restrictions, clock, disputed)
  /\ up => NoteRight
  /\ ~up => note = {}

-----------------------------------------------------------------------------
(* The history after a new line: some of the first lines may be gone.      *)
LEMMA LengthenedShape ==
  ASSUME history \in Seq(Line), NEW line \in Line
  PROVE  \E k \in Nat :
           /\ k <= Len(history) + 1
           /\ Lengthened(line) \in Seq(Line)
           /\ Len(Lengthened(line)) = Len(history) + 1 - k
           /\ Len(Lengthened(line)) <= MaxHistory
           /\ \A j \in 1..Len(Lengthened(line)) :
                Lengthened(line)[j] =
                  IF k + j = Len(history) + 1 THEN line ELSE history[k + j]
<1> DEFINE all == Append(history, line)
           n == Len(history) + 1
<1>1. all \in Seq(Line) /\ Len(all) = n /\ n \in Nat
  OBVIOUS
<1>2. \A i \in 1..n : all[i] = IF i = n THEN line ELSE history[i]
  OBVIOUS
<1>3. CASE n > MaxHistory
  <2>1. Lengthened(line) = SubSeq(all, n - MaxHistory + 1, n)
    BY <1>1, <1>3 DEF Lengthened
  <2> HIDE DEF all
  <2>2. /\ SubSeq(all, n - MaxHistory + 1, n) \in Seq(Line)
        /\ Len(SubSeq(all, n - MaxHistory + 1, n)) = MaxHistory
        /\ \A j \in 1..MaxHistory :
             SubSeq(all, n - MaxHistory + 1, n)[j] = all[n - MaxHistory + j]
    BY <1>1, <1>3, MaximaAssumption
  <2> HIDE DEF n
  <2>3. n - MaxHistory \in Nat /\ n - MaxHistory <= n
    BY <1>1, <1>3, MaximaAssumption
  <2>4. \A j \in 1..MaxHistory : (n - MaxHistory) + j \in 1..n
    BY <1>1, <1>3, MaximaAssumption
  <2>5. \A j \in 1..MaxHistory :
          Lengthened(line)[j] =
            IF (n - MaxHistory) + j = n THEN line ELSE history[(n - MaxHistory) + j]
    BY <1>2, <2>1, <2>2, <2>4
  <2>6. Len(Lengthened(line)) = n - (n - MaxHistory)
    BY <1>1, <2>1, <2>2, MaximaAssumption
  <2>7. Lengthened(line) \in Seq(Line) /\ Len(Lengthened(line)) = MaxHistory
    BY <2>1, <2>2
  <2> DEFINE k == n - MaxHistory
  <2>8. /\ k \in Nat /\ k <= n /\ Len(Lengthened(line)) = n - k
        /\ \A j \in 1..Len(Lengthened(line)) :
             Lengthened(line)[j] = IF k + j = n THEN line ELSE history[k + j]
    BY <2>3, <2>5, <2>6, <2>7
  <2> HIDE DEF k
  <2>9. MaxHistory <= MaxHistory
    BY MaximaAssumption
  <2> QED
    BY <2>7, <2>8, <2>9 DEF n
<1>4. CASE ~(n > MaxHistory)
  <2>1. Lengthened(line) = all
    BY <1>1, <1>4 DEF Lengthened
  <2>2. \A j \in 1..n : 0 + j = j
    BY <1>1
  <2> QED
    BY <1>1, <1>2, <1>4, <2>1, <2>2, MaximaAssumption
<1> QED
  BY <1>3, <1>4

(* A new line settles its subject, and what was right of the others stays  *)
(* right.                                                                  *)
LEMMA LengthenedAgrees ==
  ASSUME history \in Seq(Line), NEW line \in Line,
         NEW bs, NEW rs, NEW bs2, NEW rs2, NEW now, NEW d, NEW d2,
         Agree(history, bs, rs, now, d),
         About(line) \in d2 \/ Right(line, bs2, rs2, now),
         \A l \in Line : About(l) # About(line) /\ About(l) \notin d2
           => About(l) \notin d /\ (Right(l, bs, rs, now) => Right(l, bs2, rs2, now))
  PROVE  Agree(Lengthened(line), bs2, rs2, now, d2)
<1> DEFINE h == Lengthened(line)
           n == Len(history) + 1
<1>1. PICK k \in Nat :
        /\ k <= n /\ h \in Seq(Line) /\ Len(h) = n - k
        /\ \A j \in 1..Len(h) : h[j] = IF k + j = n THEN line ELSE history[k + j]
  BY LengthenedShape
<1> n \in Nat
  OBVIOUS
<1> HIDE DEF h
<1> SUFFICES ASSUME NEW i \in DOMAIN h, IsLast(h, i), About(h[i]) \notin d2
             PROVE  Right(h[i], bs2, rs2, now)
  BY DEF Agree, h
<1>2. DOMAIN h = 1..(n - k) /\ i \in 1..(n - k)
  BY <1>1
<1>3. CASE k + i = n
  BY <1>1, <1>2, <1>3
<1>4. CASE k + i # n
  <2>1. h[i] = history[k + i] /\ k + i \in DOMAIN history /\ history[k + i] \in Line
    <3>1. i \in 1..Len(h) /\ k + i \in 1..Len(history)
      BY <1>1, <1>2, <1>4
    <3> QED
      BY <1>1, <1>4, <3>1
  <2>2. n - k \in DOMAIN h /\ n - k > i /\ h[n - k] = line
    BY <1>1, <1>2, <1>4
  <2>3. About(h[i]) # About(line)
    BY <2>2 DEF IsLast
  <2>4. IsLast(history, k + i)
    <3> SUFFICES ASSUME NEW j \in DOMAIN history, j > k + i
                 PROVE  About(history[j]) # About(history[k + i])
      BY DEF IsLast
    <3>1. j - k \in DOMAIN h /\ j - k > i /\ k + (j - k) = j /\ j # n
      BY <1>2
    <3>2. h[j - k] = history[j]
      BY <1>1, <3>1
    <3> QED
      BY <2>1, <3>1, <3>2 DEF IsLast
  <2>5. About(h[i]) \notin d /\ (Right(h[i], bs, rs, now) => Right(h[i], bs2, rs2, now))
    BY <2>1, <2>3
  <2> QED
    BY <2>1, <2>4, <2>5 DEF Agree
<1> QED
  BY <1>3, <1>4

-----------------------------------------------------------------------------
(* The subject of a restriction.                                           *)
Concerns(r, line) == r.id = line.id /\ r.kind = line.topic

(* A ban of one player is written: the bans of the others stay, unless     *)
(* they have expired.                                                      *)
LEMMA BansWritten ==
  ASSUME IInv, up, NEW new \in SUBSET Ban, IsFiniteSet(new), Cardinality(new) <= MaxBans,
         \A b, c \in new : b.id = c.id => b = c,
         NEW line \in Line, line.topic = "Ban", Right(line, new, {}, clock),
         \A b \in bans : b.id # line.id => b \in new \/ ~InForceAt(b, clock),
         \A b \in new : b.id # line.id => b \in bans,
         bans' = new, banDoc' = new, note' = {line},
         disputed' = disputed \cup {About(l) : l \in note'},
         UNCHANGED <<restrictions, history, disciplineDoc, up, clock>>
  PROVE  IInv'
<1>1. About(line) \in Subject /\ disputed' = disputed \cup {About(line)}
  BY DEF About, Line, Subject
<1>2. IsFiniteSet({line}) /\ Cardinality({line}) = 1
  BY FS_Singleton
<1>3. TypeOK'
  BY <1>1, <1>2 DEF IInv, TypeOK
<1>4. StoresMirrorDisk'
  BY DEF IInv, StoresMirrorDisk, InForce
<1>5. NoteRight'
  BY DEF NoteRight
<1>6. Agree(disciplineDoc.history, banDoc, disciplineDoc.restrictions, clock, disputed)'
  <2> DEFINE h == disciplineDoc.history
             rs == disciplineDoc.restrictions
  <2> SUFFICES ASSUME NEW i \in DOMAIN h, IsLast(h, i), About(h[i]) \notin disputed'
               PROVE  Right(h[i], new, rs, clock)
    BY DEF Agree
  <2>1. h[i] \in Line /\ bans = banDoc
    BY DEF IInv, TypeOK, StoresMirrorDisk
  <2>2. Right(h[i], banDoc, rs, clock)
    BY <1>1 DEF IInv, Agree
  <2>3. About(h[i]) # About(line)
    BY <1>1
  <2>4. h[i].topic = "Ban" => h[i].id # line.id
    BY <2>3 DEF About
  <2> HIDE DEF h, rs
  <2> QED
    BY <2>1, <2>2, <2>4 DEF Right, InForceAt
<1> QED
  BY <1>3, <1>4, <1>5, <1>6 DEF IInv

(* A line of history is written with the restrictions: those of other      *)
(* subjects stay, unless they have expired.                                *)
LEMMA DisciplineWritten ==
  ASSUME IInv, up, NEW new \in SUBSET Restriction, IsFiniteSet(new),
         Cardinality(new) <= MaxRestrictions,
         \A r, s \in new : r.id = s.id /\ r.kind = s.kind => r = s,
         NEW line \in Line,
         \A r \in restrictions :
           ~Concerns(r, line) => r \in new \/ ~InForceAt(r, clock),
         \A r \in new : ~Concerns(r, line) => r \in restrictions,
         restrictions' = new, history' = Lengthened(line),
         disciplineDoc' = [restrictions |-> new, history |-> Lengthened(line)],
         disputed' \subseteq Subject, disputed \subseteq disputed' \cup {About(line)},
         About(line) \in disputed' \/ Right(line, banDoc, new, clock),
         note' = note \/ note' = {},
         UNCHANGED <<bans, banDoc, up, clock>>
  PROVE  IInv'
<1>1. history = disciplineDoc.history /\ history \in Seq(Line) /\ bans = banDoc
  BY DEF IInv, TypeOK, StoresMirrorDisk
<1>2. Lengthened(line) \in Seq(Line) /\ Len(Lengthened(line)) <= MaxHistory
  BY <1>1, LengthenedShape
<1>3. IsFiniteSet({}) /\ Cardinality({}) = 0
  BY FS_EmptySet
<1>0. note' \subseteq Line /\ Cardinality(note') <= 1
  <2>1. CASE note' = note
    BY <2>1 DEF IInv, TypeOK
  <2>2. CASE note' = {}
    BY <1>3, <2>2
  <2> QED
    BY <2>1, <2>2
<1>4. TypeOK'
  BY <1>0, <1>2 DEF IInv, TypeOK
<1>5. StoresMirrorDisk'
  BY <1>1 DEF StoresMirrorDisk
<1>6. up' => NoteRight'
  BY DEF IInv, NoteRight
<1>7. Agree(Lengthened(line), banDoc, new, clock, disputed')
  <2> DEFINE rs == disciplineDoc.restrictions
  <2>1. Agree(history, banDoc, rs, clock, disputed)
    BY <1>1 DEF IInv
  <2>2. /\ restrictions \subseteq rs
        /\ \A r \in rs \ restrictions : ~InForceAt(r, clock)
    BY DEF IInv, StoresMirrorDisk, InForce, InForceAt
  <2> HIDE DEF rs
  <2>3. ASSUME NEW l \in Line, About(l) # About(line), About(l) \notin disputed'
        PROVE  About(l) \notin disputed /\ (Right(l, banDoc, rs, clock) => Right(l, banDoc, new, clock))
    <3>1. ~(l.id = line.id /\ l.topic = line.topic)
      BY <2>3 DEF About
    <3>2. \A r \in rs : Concerns(r, l) => r \in new \/ ~InForceAt(r, clock)
      BY <2>2, <3>1 DEF Concerns
    <3>3. \A r \in new : Concerns(r, l) => r \in rs
      BY <2>2, <3>1 DEF Concerns
    <3>4. About(l) \notin disputed
      BY <2>3
    <3>5. ASSUME Right(l, banDoc, rs, clock) PROVE Right(l, banDoc, new, clock)
      BY <3>2, <3>3, <3>5 DEF Right, Concerns, InForceAt
    <3> QED
      BY <3>4, <3>5
  <2> QED
    BY <1>1, <2>1, <2>3, LengthenedAgrees
<1>8. note = {} => note' = {}
  OBVIOUS
<1> QED
  BY <1>4, <1>5, <1>6, <1>7, <1>8 DEF IInv

(* What has expired may be dropped from memory, and a note may be dropped. *)
LEMMA DisciplinePruned ==
  ASSUME IInv, up, restrictions' = restrictions \/ restrictions' = Live(restrictions),
         note' = note \/ note' = {},
         UNCHANGED <<bans, banDoc, history, disciplineDoc, up, clock, disputed>>
  PROVE  IInv'
<1>1. IsFiniteSet({}) /\ Cardinality({}) = 0
  BY FS_EmptySet
<1>0. note' \subseteq Line /\ Cardinality(note') <= 1
  <2>1. CASE note' = note
    BY <2>1 DEF IInv, TypeOK
  <2>2. CASE note' = {}
    BY <1>1, <2>2
  <2> QED
    BY <2>1, <2>2
<1>2. TypeOK'
  BY <1>0 DEF IInv, TypeOK, Live
<1>3. StoresMirrorDisk'
  BY DEF IInv, StoresMirrorDisk, Live, InForce
<1>4. up' => NoteRight'
  BY DEF IInv, NoteRight
<1> QED
  BY <1>2, <1>3, <1>4 DEF IInv

(* A list that has room for a record stays within its limit.               *)
LEMMA RoomIsEnough ==
  ASSUME NEW records, NEW others \in SUBSET records, NEW max \in Nat, NEW x,
         IsFiniteSet(records), Cardinality(records) <= max,
         HasRoom(records, others, max)
  PROVE  IsFiniteSet(others \cup {x}) /\ Cardinality(others \cup {x}) <= max
<1>1. /\ IsFiniteSet(others) /\ Cardinality(others) <= Cardinality(records)
      /\ (Cardinality(others) = Cardinality(records) => others = records)
  BY FS_Subset
<1>2. Cardinality(others) \in Nat /\ Cardinality(records) \in Nat
  BY <1>1, FS_CardinalityType
<1>3. Cardinality(others) + 1 <= max
  BY <1>1, <1>2 DEF HasRoom
<1>4. IsFiniteSet(others \cup {x})
      /\ (Cardinality(others \cup {x}) = Cardinality(others)
          \/ Cardinality(others \cup {x}) = Cardinality(others) + 1)
  BY <1>1, FS_AddElement
<1> QED
  BY <1>2, <1>3, <1>4

(* What memory holds is finite and within the limits.                      *)
LEMMA MemoryIsBounded ==
  ASSUME IInv, up
  PROVE  /\ IsFiniteSet(Live(bans)) /\ Cardinality(Live(bans)) <= MaxBans
         /\ IsFiniteSet(restrictions) /\ IsFiniteSet(Live(restrictions))
         /\ Cardinality(restrictions) <= MaxRestrictions
         /\ Cardinality(Live(restrictions)) <= MaxRestrictions
<1>1. /\ Live(bans) \subseteq banDoc /\ IsFiniteSet(banDoc)
      /\ restrictions \subseteq disciplineDoc.restrictions
      /\ Live(restrictions) \subseteq disciplineDoc.restrictions
      /\ IsFiniteSet(disciplineDoc.restrictions)
  BY DEF IInv, StoresMirrorDisk, Live
<1>2. /\ Cardinality(banDoc) <= MaxBans
      /\ Cardinality(disciplineDoc.restrictions) <= MaxRestrictions
  BY DEF IInv, TypeOK
<1>3. /\ IsFiniteSet(Live(bans)) /\ Cardinality(Live(bans)) <= Cardinality(banDoc)
  BY <1>1, FS_Subset
<1>4. /\ IsFiniteSet(restrictions)
      /\ Cardinality(restrictions) <= Cardinality(disciplineDoc.restrictions)
  BY <1>1, FS_Subset
<1>5. /\ IsFiniteSet(Live(restrictions))
      /\ Cardinality(Live(restrictions)) <= Cardinality(disciplineDoc.restrictions)
  BY <1>1, FS_Subset
<1>6. /\ Cardinality(Live(bans)) \in Nat /\ Cardinality(banDoc) \in Nat
      /\ Cardinality(restrictions) \in Nat /\ Cardinality(Live(restrictions)) \in Nat
      /\ Cardinality(disciplineDoc.restrictions) \in Nat
  BY <1>1, <1>3, <1>4, <1>5, FS_CardinalityType
<1> QED
  BY <1>2, <1>3, <1>4, <1>5, <1>6, MaximaAssumption

LEMMA UntilType ==
  ASSUME TypeOK, NEW duration \in Durations
  PROVE  Until(duration) \in Nat
<1>1. clock \in Nat /\ duration \in Nat
  BY DurationsAssumption DEF TypeOK
<1> QED
  BY <1>1 DEF Until

LEMMA SaveBanKeepsIInv ==
  ASSUME IInv, NEW id \in Ids, NEW duration \in Durations, NEW written \in BOOLEAN,
         SaveBan(id, duration, written)
  PROVE  IInv'
<1> DEFINE ban == [id |-> id, until |-> Until(duration)]
           new == OtherBans(id) \cup {ban}
           line == [id |-> id, topic |-> "Ban", on |-> TRUE, until |-> Until(duration)]
<1>1. up /\ note = {} /\ HasRoom(Live(bans), OtherBans(id), MaxBans)
  BY DEF SaveBan, Handling, MayBan
<1>2. CASE written
  <2>1. Until(duration) \in Nat
    BY UntilType DEF IInv
  <2>2. ban \in Ban /\ line \in Line
    BY <2>1 DEF Ban, Line, Topics
  <2>3. bans = banDoc /\ bans \subseteq Ban /\ \A b, c \in bans : b.id = c.id => b = c
    BY <1>1 DEF IInv, TypeOK, StoresMirrorDisk
  <2>4. OtherBans(id) \subseteq Live(bans) /\ MaxBans \in Nat
    BY MaximaAssumption DEF OtherBans
  <2>5. IsFiniteSet(new) /\ Cardinality(new) <= MaxBans
    <3>1. IsFiniteSet(Live(bans)) /\ Cardinality(Live(bans)) <= MaxBans
      BY <1>1, MemoryIsBounded
    <3> QED
      BY <1>1, <2>4, <3>1, RoomIsEnough
  <2>6. new \in SUBSET Ban /\ \A b, c \in new : b.id = c.id => b = c
    BY <2>2, <2>3 DEF OtherBans, Live
  <2>7. Right(line, new, {}, clock)
    <3>1. /\ ban \in new /\ ban.id = line.id /\ ban.until = line.until
          /\ line.on /\ line.topic = "Ban"
      OBVIOUS
    <3> HIDE DEF new, ban, line
    <3> QED
      BY <3>1 DEF Right
  <2>8. \A b \in bans : b.id # line.id => b \in new \/ ~InForceAt(b, clock)
    BY DEF OtherBans, Live, InForce, InForceAt
  <2>9. \A b \in new : b.id # line.id => b \in bans
    BY DEF OtherBans, Live
  <2>10. /\ bans' = new /\ banDoc' = new /\ note' = {line}
         /\ disputed' = disputed \cup {About(l) : l \in note'}
         /\ UNCHANGED <<restrictions, history, disciplineDoc, up, clock>>
    BY <1>2 DEF SaveBan, SaveBans
  <2>11. line.topic = "Ban"
    OBVIOUS
  <2> HIDE DEF new, line, ban
  <2> QED
    BY <1>1, <2>2, <2>5, <2>6, <2>7, <2>8, <2>9, <2>10, <2>11, BansWritten
<1>3. CASE ~written
  <2>1. UNCHANGED <<bans, banDoc, note, restrictions, history, disciplineDoc, up, clock>>
    BY <1>3 DEF SaveBan, SaveBans
  <2>2. disputed' = disputed
    BY <1>1, <2>1 DEF SaveBan
  <2> QED
    BY <1>1, <2>1, <2>2, DisciplinePruned
<1> QED
  BY <1>2, <1>3

LEMMA DeleteBanKeepsIInv ==
  ASSUME IInv, NEW id \in Ids, NEW written \in BOOLEAN, DeleteBan(id, written)
  PROVE  IInv'
<1> DEFINE line == [id |-> id, topic |-> "Ban", on |-> FALSE, until |-> 0]
<1>1. up /\ note = {}
  BY DEF DeleteBan, Handling
<1>2. PICK b \in bans : b.id = id /\ SaveBans(bans \ {b}, line, written)
  BY DEF DeleteBan
<1>3. CASE written
  <2> DEFINE new == bans \ {b}
  <2>1. line \in Line /\ line.topic = "Ban"
    BY DEF Line, Topics
  <2>2. bans = banDoc /\ bans \subseteq Ban /\ \A c, d \in bans : c.id = d.id => c = d
    BY <1>1 DEF IInv, TypeOK, StoresMirrorDisk
  <2>3. new \in SUBSET Ban /\ \A c, d \in new : c.id = d.id => c = d
    BY <2>2
  <2>4. IsFiniteSet(new) /\ Cardinality(new) <= MaxBans
    <3>1. IsFiniteSet(banDoc) /\ Cardinality(banDoc) <= MaxBans /\ new \subseteq banDoc
      BY <2>2 DEF IInv, TypeOK
    <3>2. IsFiniteSet(new) /\ Cardinality(new) <= Cardinality(banDoc)
      BY <3>1, FS_Subset
    <3>3. Cardinality(new) \in Nat /\ Cardinality(banDoc) \in Nat
      BY <3>1, <3>2, FS_CardinalityType
    <3> QED
      BY <3>1, <3>2, <3>3, MaximaAssumption
  <2>5. Right(line, new, {}, clock)
    BY <1>2, <2>2 DEF Right
  <2>6. /\ \A c \in bans : c.id # line.id => c \in new \/ ~InForceAt(c, clock)
        /\ \A c \in new : c.id # line.id => c \in bans
    BY <1>2
  <2>7. /\ bans' = new /\ banDoc' = new /\ note' = {line}
        /\ disputed' = disputed \cup {About(l) : l \in note'}
        /\ UNCHANGED <<restrictions, history, disciplineDoc, up, clock>>
    BY <1>2, <1>3 DEF DeleteBan, SaveBans
  <2> HIDE DEF new, line
  <2> QED
    BY <1>1, <2>1, <2>3, <2>4, <2>5, <2>6, <2>7, BansWritten
<1>4. CASE ~written
  <2>1. UNCHANGED <<bans, banDoc, note, restrictions, history, disciplineDoc, up, clock>>
    BY <1>2, <1>4 DEF DeleteBan, SaveBans
  <2>2. disputed' = disputed
    BY <1>1, <2>1 DEF DeleteBan
  <2> QED
    BY <1>1, <2>1, <2>2, DisciplinePruned
<1> QED
  BY <1>3, <1>4

(* The line of history of a ban is recorded, refused or lost.              *)
LEMMA RecordNoteKeepsIInv ==
  ASSUME IInv, NEW written \in BOOLEAN, RecordNote(written)
  PROVE  IInv'
<1>1. /\ up /\ note' = {} /\ UNCHANGED <<bans, banDoc, up, clock>>
  BY DEF RecordNote
<1>2. PICK line \in note :
        LET recorded == Recordable(line) /\ written
        IN /\ SaveDiscipline(restrictions, restrictions, line, recorded)
           /\ Settle(line, recorded)
  BY DEF RecordNote
<1>3. line \in Line /\ line.topic = "Ban" /\ Right(line, bans, {}, clock) /\ bans = banDoc
  BY <1>1 DEF IInv, TypeOK, NoteRight, StoresMirrorDisk
<1>4. CASE Recordable(line) /\ written
  <2>1. /\ restrictions' = restrictions /\ history' = Lengthened(line)
        /\ disciplineDoc' = [restrictions |-> restrictions, history |-> Lengthened(line)]
        /\ disputed' = disputed \ {About(line)}
    BY <1>2, <1>4 DEF SaveDiscipline, Settle
  <2>2. /\ restrictions \in SUBSET Restriction
        /\ \A r, s \in restrictions : r.id = s.id /\ r.kind = s.kind => r = s
        /\ disputed \subseteq Subject
    BY <1>1 DEF IInv, TypeOK, StoresMirrorDisk
  <2>3. IsFiniteSet(restrictions) /\ Cardinality(restrictions) <= MaxRestrictions
    BY <1>1, MemoryIsBounded
  <2>4. Right(line, banDoc, restrictions, clock)
    BY <1>3 DEF Right
  <2>5. disputed' \subseteq Subject /\ disputed \subseteq disputed' \cup {About(line)}
    BY <2>1, <2>2
  <2> QED
    BY <1>1, <1>3, <2>1, <2>2, <2>3, <2>4, <2>5, DisciplineWritten
<1>5. CASE ~(Recordable(line) /\ written)
  <2>1. UNCHANGED <<restrictions, history, disciplineDoc, disputed>>
    BY <1>2, <1>5 DEF SaveDiscipline, Settle
  <2> QED
    BY <1>1, <2>1, DisciplinePruned
<1> QED
  BY <1>4, <1>5

LEMMA UpsertRestrictionKeepsIInv ==
  ASSUME IInv, NEW id \in Ids, NEW kind \in Kinds, NEW duration \in Durations,
         NEW written \in BOOLEAN, UpsertRestriction(id, kind, duration, written)
  PROVE  IInv'
<1> DEFINE record == [id |-> id, kind |-> kind, until |-> Until(duration)]
           new == OtherRestrictions(id, kind) \cup {record}
           line == [id |-> id, topic |-> kind, on |-> TRUE, until |-> Until(duration)]
           stored == MayRestrict(id, kind) /\ written
<1>1. up /\ UNCHANGED <<bans, banDoc, note, up, clock>>
  BY DEF UpsertRestriction, Handling
<1>2. SaveDiscipline(new, Live(restrictions), line, stored) /\ Settle(line, stored)
  BY DEF UpsertRestriction
<1>3. CASE stored
  <2>1. Until(duration) \in Nat /\ kind # "Ban"
    BY UntilType, KindsAssumption DEF IInv
  <2>2. record \in Restriction /\ line \in Line
    BY <2>1 DEF Restriction, Line, Topics
  <2>3. /\ restrictions \subseteq Restriction /\ disputed \subseteq Subject
        /\ \A r, s \in restrictions : r.id = s.id /\ r.kind = s.kind => r = s
    BY <1>1 DEF IInv, TypeOK, StoresMirrorDisk
  <2>4. OtherRestrictions(id, kind) \subseteq Live(restrictions) /\ MaxRestrictions \in Nat
    BY MaximaAssumption DEF OtherRestrictions
  <2>5. IsFiniteSet(new) /\ Cardinality(new) <= MaxRestrictions
    <3>1. IsFiniteSet(Live(restrictions)) /\ Cardinality(Live(restrictions)) <= MaxRestrictions
      BY <1>1, MemoryIsBounded
    <3> QED
      BY <1>3, <2>4, <3>1, RoomIsEnough DEF MayRestrict
  <2>6. /\ new \in SUBSET Restriction
        /\ \A r, s \in new : r.id = s.id /\ r.kind = s.kind => r = s
    BY <2>2, <2>3 DEF OtherRestrictions, Live
  <2>7. Right(line, banDoc, new, clock)
    <3>1. /\ record \in new /\ record.id = line.id /\ record.kind = line.topic
          /\ record.until = line.until /\ line.on /\ line.topic # "Ban"
      BY <2>1
    <3> HIDE DEF new, record, line
    <3> QED
      BY <3>1 DEF Right
  <2>8. \A r \in restrictions : ~Concerns(r, line) => r \in new \/ ~InForceAt(r, clock)
    BY DEF OtherRestrictions, Live, InForce, InForceAt, Concerns
  <2>9. \A r \in new : ~Concerns(r, line) => r \in restrictions
    BY DEF OtherRestrictions, Live, Concerns
  <2>10. /\ restrictions' = new /\ history' = Lengthened(line)
         /\ disciplineDoc' = [restrictions |-> new, history |-> Lengthened(line)]
         /\ disputed' = disputed \ {About(line)}
    BY <1>2, <1>3 DEF SaveDiscipline, Settle
  <2> HIDE DEF new, line, record
  <2>11. disputed' \subseteq Subject /\ disputed \subseteq disputed' \cup {About(line)}
    BY <2>3, <2>10
  <2> QED
    BY <1>1, <2>2, <2>5, <2>6, <2>7, <2>8, <2>9, <2>10, <2>11, DisciplineWritten
<1>4. CASE ~stored
  <2>1. restrictions' = Live(restrictions) /\ UNCHANGED <<history, disciplineDoc, disputed>>
    BY <1>2, <1>4 DEF SaveDiscipline, Settle
  <2> QED
    BY <1>1, <2>1, DisciplinePruned
<1> QED
  BY <1>3, <1>4

(* A line that says a restriction is gone is written with a set of         *)
(* restrictions that lost nothing else.                                    *)
LEMMA LiftWritten ==
  ASSUME IInv, up, NEW id \in Ids, NEW kind \in Kinds, NEW new \in SUBSET restrictions,
         \A r \in restrictions : r \in new \/ r \in Found(id, kind),
         SaveDiscipline(new, restrictions, LiftLine(id, kind), TRUE),
         disputed' \subseteq Subject,
         disputed \subseteq disputed' \cup {About(LiftLine(id, kind))},
         About(LiftLine(id, kind)) \in disputed' \/ new \cap Found(id, kind) = {},
         UNCHANGED <<bans, banDoc, note, up, clock>>
  PROVE  IInv'
<1> DEFINE line == LiftLine(id, kind)
<1>1. /\ line \in Line /\ line.topic # "Ban" /\ ~line.on
      /\ line.id = id /\ line.topic = kind
  BY KindsAssumption DEF LiftLine, Line, Topics
<1>2. /\ restrictions \subseteq Restriction
      /\ \A r, s \in restrictions : r.id = s.id /\ r.kind = s.kind => r = s
  BY DEF IInv, TypeOK, StoresMirrorDisk
<1>3. IsFiniteSet(new) /\ Cardinality(new) <= MaxRestrictions
  <2>1. IsFiniteSet(restrictions) /\ Cardinality(restrictions) <= MaxRestrictions
    BY MemoryIsBounded
  <2>2. IsFiniteSet(new) /\ Cardinality(new) <= Cardinality(restrictions)
    BY <2>1, FS_Subset
  <2>3. Cardinality(new) \in Nat /\ Cardinality(restrictions) \in Nat
    BY <2>1, <2>2, FS_CardinalityType
  <2> QED
    BY <2>1, <2>2, <2>3, MaximaAssumption
<1>4. /\ restrictions' = new /\ history' = Lengthened(line)
      /\ disciplineDoc' = [restrictions |-> new, history |-> Lengthened(line)]
  BY DEF SaveDiscipline
<1>5. \A r \in restrictions : ~Concerns(r, line) => r \in new \/ ~InForceAt(r, clock)
  BY <1>1 DEF Found, Concerns
<1>6. About(line) \in disputed' \/ Right(line, banDoc, new, clock)
  <2>1. ASSUME new \cap Found(id, kind) = {}
        PROVE  \A r \in new : ~(r.id = line.id /\ r.kind = line.topic)
    BY <1>1, <2>1 DEF Found
  <2> QED
    BY <1>1, <2>1 DEF Right
<1>7. new \in SUBSET Restriction /\ \A r, s \in new : r.id = s.id /\ r.kind = s.kind => r = s
  BY <1>2
<1> HIDE DEF line
<1> QED
  BY <1>1, <1>3, <1>4, <1>5, <1>6, <1>7, DisciplineWritten DEF line

LEMMA RemoveRestrictionKeepsIInv ==
  ASSUME IInv, NEW id \in Ids, NEW kind \in Kinds, NEW written \in BOOLEAN,
         RemoveRestriction(id, kind, written)
  PROVE  IInv'
<1>1. up /\ UNCHANGED <<bans, banDoc, note, up, clock>>
  BY DEF RemoveRestriction, Handling
<1>2. /\ SaveDiscipline(restrictions \ Found(id, kind), restrictions, LiftLine(id, kind), written)
      /\ Settle(LiftLine(id, kind), written)
  BY DEF RemoveRestriction
<1>3. CASE written
  <2>1. disputed' = disputed \ {About(LiftLine(id, kind))} /\ disputed \subseteq Subject
    BY <1>2, <1>3 DEF Settle, IInv, TypeOK
  <2>2. SaveDiscipline(restrictions \ Found(id, kind), restrictions, LiftLine(id, kind), TRUE)
    BY <1>2, <1>3 DEF SaveDiscipline
  <2> DEFINE new == restrictions \ Found(id, kind)
  <2>3. /\ new \in SUBSET restrictions /\ new \cap Found(id, kind) = {}
        /\ \A r \in restrictions : r \in new \/ r \in Found(id, kind)
    OBVIOUS
  <2>4. /\ disputed' \subseteq Subject
        /\ disputed \subseteq disputed' \cup {About(LiftLine(id, kind))}
    BY <2>1
  <2> HIDE DEF new
  <2> QED
    BY <1>1, <2>2, <2>3, <2>4, LiftWritten DEF new
<1>4. CASE ~written
  <2>1. UNCHANGED <<restrictions, history, disciplineDoc, disputed>>
    BY <1>2, <1>4 DEF SaveDiscipline, Settle
  <2> QED
    BY <1>1, <2>1, DisciplinePruned
<1> QED
  BY <1>3, <1>4

LEMMA RecordLiftKeepsIInv ==
  ASSUME IInv, NEW id \in Ids, NEW kind \in Kinds, NEW written \in BOOLEAN,
         RecordLift(id, kind, written)
  PROVE  IInv'
<1> DEFINE subject == About(LiftLine(id, kind))
<1>1. up /\ UNCHANGED <<bans, banDoc, note, up, clock>>
  BY DEF RecordLift, Handling
<1>2. SaveDiscipline(restrictions, restrictions, LiftLine(id, kind), written)
  BY DEF RecordLift
<1>3. subject \in Subject /\ disputed \subseteq Subject
  BY DEF About, LiftLine, Subject, Topics, IInv, TypeOK
<1>4. CASE written
  <2>1. SaveDiscipline(restrictions, restrictions, LiftLine(id, kind), TRUE)
    BY <1>2, <1>4 DEF SaveDiscipline
  <2>2. CASE Found(id, kind) = {}
    <3>1. disputed' = disputed \ {subject}
      BY <1>4, <2>2 DEF RecordLift, Settle
    <3>2. restrictions \in SUBSET restrictions /\ restrictions \cap Found(id, kind) = {}
      BY <2>2
    <3>3. disputed' \subseteq Subject /\ disputed \subseteq disputed' \cup {subject}
      BY <1>3, <3>1
    <3> QED
      BY <1>1, <2>1, <3>2, <3>3, LiftWritten
  <2>3. CASE Found(id, kind) # {}
    <3>1. disputed' = disputed \cup {subject}
      BY <1>4, <2>3 DEF RecordLift
    <3>2. /\ disputed' \subseteq Subject /\ disputed \subseteq disputed' \cup {subject}
          /\ subject \in disputed'
      BY <1>3, <3>1
    <3> QED
      BY <1>1, <2>1, <3>2, LiftWritten
  <2> QED
    BY <2>2, <2>3
<1>5. CASE ~written
  <2>1. UNCHANGED <<restrictions, history, disciplineDoc, disputed>>
    BY <1>2, <1>5 DEF SaveDiscipline, Settle, RecordLift
  <2> QED
    BY <1>1, <2>1, DisciplinePruned
<1> QED
  BY <1>4, <1>5

-----------------------------------------------------------------------------
(* A restart brings back what was on disk.                                 *)
LEMMA StartKeepsIInv ==
  ASSUME IInv, Start
  PROVE  IInv'
<1>1. /\ ~up /\ up' = TRUE /\ note = {} /\ note' = {}
      /\ bans' = banDoc /\ history' = disciplineDoc.history
      /\ restrictions' = Live(disciplineDoc.restrictions)
      /\ UNCHANGED <<banDoc, disciplineDoc, clock, disputed>>
  BY DEF Start, documents, IInv
<1>2. TypeOK'
  BY <1>1 DEF IInv, TypeOK, Live
<1>3. StoresMirrorDisk'
  BY <1>1 DEF StoresMirrorDisk, Live, InForce
<1>4. NoteRight'
  BY <1>1 DEF NoteRight
<1> QED
  BY <1>1, <1>2, <1>3, <1>4 DEF IInv

LEMMA HaltKeepsIInv ==
  ASSUME IInv, Halt
  PROVE  IInv'
<1>1. /\ up' = FALSE /\ note' = {}
      /\ bans' = {} /\ restrictions' = {} /\ history' = <<>>
      /\ UNCHANGED <<banDoc, disciplineDoc, clock, disputed>>
  BY DEF Halt, documents
<1>2. IsFiniteSet({}) /\ Cardinality({}) = 0
  BY FS_EmptySet
<1>0. <<>> \in Seq(Line)
  OBVIOUS
<1>3. TypeOK'
  <2>1. note' \subseteq Line /\ Cardinality(note') <= 1
    BY <1>1, <1>2
  <2>2. history' \in Seq(Line)
    BY <1>0, <1>1
  <2>3. up' \in BOOLEAN /\ bans' \subseteq Ban /\ restrictions' \subseteq Restriction
    BY <1>1
  <2> QED
    BY <1>1, <2>1, <2>2, <2>3 DEF IInv, TypeOK
<1>4. StoresMirrorDisk'
  BY <1>1 DEF StoresMirrorDisk
<1> QED
  BY <1>1, <1>3, <1>4 DEF IInv

(* What was right stays right: what has expired stays expired.             *)
LEMMA TickKeepsIInv ==
  ASSUME IInv, Tick
  PROVE  IInv'
<1>1. /\ clock \in Nat /\ clock' = clock + 1 /\ clock' \in 0..MaxTime
      /\ UNCHANGED <<bans, restrictions, history, banDoc, disciplineDoc, note, up, disputed>>
  BY MaximaAssumption DEF Tick, stores, documents, IInv, TypeOK
<1>2. TypeOK'
  BY <1>1 DEF IInv, TypeOK
<1>3. StoresMirrorDisk'
  BY <1>1 DEF IInv, TypeOK, StoresMirrorDisk, InForce, Restriction
<1>4. ASSUME NEW l \in Line, NEW bs, NEW rs, Right(l, bs, rs, clock)
      PROVE  Right(l, bs, rs, clock')
  <2>1. ~InForceAt(l, clock) => ~InForceAt(l, clock')
    BY <1>1 DEF InForceAt, Line
  <2> QED
    BY <1>4, <2>1 DEF Right
<1>5. Agree(disciplineDoc.history, banDoc, disciplineDoc.restrictions, clock, disputed)'
  <2> DEFINE h == disciplineDoc.history
  <2>1. h \in Seq(Line) /\ h' = h
    BY <1>1 DEF IInv, TypeOK
  <2>2. Agree(h, banDoc, disciplineDoc.restrictions, clock, disputed)
    BY DEF IInv
  <2> HIDE DEF h
  <2>3. Agree(h, banDoc, disciplineDoc.restrictions, clock', disputed)
    BY <1>4, <2>1, <2>2 DEF Agree
  <2> QED
    BY <1>1, <2>3 DEF h
<1>6. up' => NoteRight'
  <2> SUFFICES ASSUME up', NEW line \in note'
               PROVE  line.topic = "Ban" /\ Right(line, bans, {}, clock')
    BY <1>1 DEF NoteRight
  <2>1. line \in Line /\ line.topic = "Ban" /\ Right(line, bans, {}, clock)
    BY <1>1 DEF IInv, TypeOK, NoteRight
  <2> QED
    BY <1>4, <2>1
<1> QED
  BY <1>1, <1>2, <1>3, <1>5, <1>6 DEF IInv

LEMMA InitImpliesIInv == Init => IInv
<1> SUFFICES ASSUME Init PROVE IInv
  OBVIOUS
<1>1. IsFiniteSet({}) /\ Cardinality({}) = 0
  BY FS_EmptySet
<1>2. TypeOK
  <2>1. <<>> \in Seq(Line) /\ Len(<<>>) = 0
    OBVIOUS
  <2>2. history \in Seq(Line) /\ disciplineDoc.history \in Seq(Line)
        /\ Len(disciplineDoc.history) <= MaxHistory
    BY <2>1, MaximaAssumption DEF Init
  <2>3. Cardinality(banDoc) <= MaxBans /\ Cardinality(note) <= 1
        /\ Cardinality(disciplineDoc.restrictions) <= MaxRestrictions
    BY <1>1, MaximaAssumption DEF Init
  <2>4. clock \in 0..MaxTime
    BY MaximaAssumption DEF Init
  <2> QED
    BY <2>2, <2>3, <2>4 DEF Init, TypeOK
<1> QED
  BY <1>1, <1>2 DEF Init, IInv, StoresMirrorDisk, Agree

LEMMA NextKeepsIInv == IInv /\ [Next]_vars => IInv'
<1> SUFFICES ASSUME IInv, [Next]_vars PROVE IInv'
  OBVIOUS
<1>1. CASE Request
  <2>1. PICK id \in Ids, written \in BOOLEAN :
          \/ \E duration \in Durations :
               \/ SaveBan(id, duration, written)
               \/ \E kind \in Kinds : UpsertRestriction(id, kind, duration, written)
          \/ DeleteBan(id, written)
          \/ \E kind \in Kinds :
               RemoveRestriction(id, kind, written) \/ RecordLift(id, kind, written)
    BY <1>1 DEF Request
  <2> QED
    BY <2>1, SaveBanKeepsIInv, DeleteBanKeepsIInv, UpsertRestrictionKeepsIInv,
       RemoveRestrictionKeepsIInv, RecordLiftKeepsIInv
<1>2. CASE \E written \in BOOLEAN : RecordNote(written)
  BY <1>2, RecordNoteKeepsIInv
<1>3. CASE Start
  BY <1>3, StartKeepsIInv
<1>4. CASE Halt
  BY <1>4, HaltKeepsIInv
<1>5. CASE Tick
  BY <1>5, TickKeepsIInv
<1>6. CASE UNCHANGED vars
  BY <1>6 DEF vars, stores, documents, IInv, TypeOK, StoresMirrorDisk, InForce, Agree, NoteRight
<1> QED
  BY <1>1, <1>2, <1>3, <1>4, <1>5, <1>6 DEF Next

-----------------------------------------------------------------------------
(* The stores and the documents keep their types and their limits, and no  *)
(* subject has two records (neo_admin_bans.cpp, neo_admin_discipline.cpp). *)
THEOREM ModerationTypeCorrect == Spec => []TypeOK
<1>1. IInv => TypeOK
  BY DEF IInv
<1> QED
  BY InitImpliesIInv, NextKeepsIInv, <1>1, PTL DEF Spec

(* A request that fails leaves nothing behind, in memory or on disk        *)
(* (bans.cpp:212-229, discipline.cpp:232-259 and 287-308).                 *)
THEOREM StoresAlwaysMirrorDisk == Spec => []StoresMirrorDisk
<1>1. IInv => StoresMirrorDisk
  BY DEF IInv
<1> QED
  BY InitImpliesIInv, NextKeepsIInv, <1>1, PTL DEF Spec

(* The last line of history about a subject tells what the stores hold,    *)
(* through failed writes, expiry, lost lines and restarts                  *)
(* (neo_ptt.cpp:1789-1863).                                                *)
THEOREM HistoryTellsTheTruth == Spec => []HistoryAgrees
<1>1. IInv => HistoryAgrees
  <2> SUFFICES ASSUME IInv, up, NEW i \in DOMAIN history,
                      \A j \in DOMAIN history : j > i => About(history[j]) # About(history[i]),
                      About(history[i]) \notin disputed
               PROVE  IF history[i].on THEN Holds(history[i]) \/ ~InForce(history[i])
                                       ELSE HoldsNothing(history[i])
    BY DEF HistoryAgrees
  <2> DEFINE line == history[i]
             rs == disciplineDoc.restrictions
  <2>1. /\ bans = banDoc /\ history = disciplineDoc.history /\ restrictions \subseteq rs
        /\ \A r \in rs \ restrictions : ~InForce(r)
    BY DEF IInv, StoresMirrorDisk
  <2>2. Right(line, bans, rs, clock)
    BY <2>1 DEF IInv, Agree, IsLast
  <2> HIDE DEF line, rs
  <2>3. IF line.on THEN Holds(line) \/ ~InForce(line) ELSE HoldsNothing(line)
    BY <2>1, <2>2 DEF Right, InForceAt, InForce, Holds, HoldsNothing, Found
  <2> QED
    BY <2>3 DEF line
<1> QED
  BY InitImpliesIInv, NextKeepsIInv, <1>1, PTL DEF Spec

-----------------------------------------------------------------------------
(* A command that goes on is about a player and, unless it is a ban, about *)
(* a restriction.                                                          *)
OrderSound ==
  \A o \in order : o.id \in Ids /\ (o.do # "kick" => o.kind \in Kinds)

LEMMA OrderStaysSound ==
  OrderSound /\ [EnforcementNext]_allVars => OrderSound'
<1> SUFFICES ASSUME OrderSound, [EnforcementNext]_allVars PROVE OrderSound'
  OBVIOUS
<1>1. ASSUME NEW do, NEW id \in Ids, NEW kind, NEW duration, NEW slot, NEW stored,
             do = "kick" \/ kind \in Kinds, GoOn(do, id, kind, duration, slot, stored)
      PROVE  OrderSound'
  BY <1>1 DEF GoOn, OrderSound
<1>2. ASSUME order' = {} PROVE OrderSound'
  BY <1>2 DEF OrderSound
<1>3. ASSUME order' = order PROVE OrderSound'
  BY <1>3 DEF OrderSound
<1>4. CASE Command
  <2>1. PICK id \in Ids, slot \in AnySlot, written \in BOOLEAN :
          \/ UnbanCommand(id, written)
          \/ \E duration \in Durations :
               \/ BanCommand(id, duration, slot, written)
               \/ \E kind \in Kinds : RestrictCommand(id, kind, duration, slot, written)
          \/ \E kind \in Kinds :
               LiftCommand(id, kind, slot, written) \/ MenuLift(id, kind, slot, written)
    BY <1>4 DEF Command
  <2>2. CASE UnbanCommand(id, written)
    BY <1>3, <2>2 DEF UnbanCommand
  <2>3. ASSUME NEW duration \in Durations, BanCommand(id, duration, slot, written)
        PROVE  OrderSound'
    BY <1>1, <1>2, <2>3 DEF BanCommand
  <2>4. ASSUME NEW duration \in Durations, NEW kind \in Kinds,
               RestrictCommand(id, kind, duration, slot, written)
        PROVE  OrderSound'
    BY <1>1, <1>2, <2>4 DEF RestrictCommand
  <2>5. ASSUME NEW kind \in Kinds, LiftCommand(id, kind, slot, written)
        PROVE  OrderSound'
    BY <1>1, <1>2, <2>5 DEF LiftCommand
  <2>6. ASSUME NEW kind \in Kinds, MenuLift(id, kind, slot, written)
        PROVE  OrderSound'
    BY <1>1, <2>6 DEF MenuLift
  <2> QED
    BY <2>1, <2>2, <2>3, <2>4, <2>5, <2>6
<1>5. CASE Chat
  BY <1>3, <1>5 DEF Chat, ChatLift, ChatRestrict, ChatUnban
<1>6. CASE Client
  BY <1>3, <1>6 DEF Client, Connect, Authenticate, Disconnect
<1>7. CASE Finish
  BY <1>2, <1>3, <1>7 DEF Finish, Kick, Silence, Release, Fault, Crash, Note
<1>8. CASE CheckInfractions \/ Reload \/ Boot \/ Crash \/ Pass
  BY <1>2, <1>3, <1>8 DEF CheckInfractions, Reload, Boot, Crash, Pass
<1>9. CASE UNCHANGED allVars
  BY <1>3, <1>9 DEF allVars
<1> QED
  BY <1>4, <1>5, <1>6, <1>7, <1>8, <1>9 DEF EnforcementNext

(* Every step of the composition is a step of the stores or leaves them    *)
(* alone.                                                                  *)
LEMMA StepOfTheStores ==
  OrderSound /\ [EnforcementNext]_allVars => [Next]_vars
<1> SUFFICES ASSUME OrderSound, [EnforcementNext]_allVars PROVE [Next]_vars
  OBVIOUS
<1>1. CASE Command
  <2>1. PICK id \in Ids, slot \in AnySlot, written \in BOOLEAN :
          \/ UnbanCommand(id, written)
          \/ \E duration \in Durations :
               \/ BanCommand(id, duration, slot, written)
               \/ \E kind \in Kinds : RestrictCommand(id, kind, duration, slot, written)
          \/ \E kind \in Kinds :
               LiftCommand(id, kind, slot, written) \/ MenuLift(id, kind, slot, written)
    BY <1>1 DEF Command
  <2>2. CASE UnbanCommand(id, written)
    BY <2>2 DEF UnbanCommand, Next, Request
  <2>3. ASSUME NEW duration \in Durations, BanCommand(id, duration, slot, written)
        PROVE  Next
    BY <2>3 DEF BanCommand, Next, Request
  <2>4. ASSUME NEW duration \in Durations, NEW kind \in Kinds,
               RestrictCommand(id, kind, duration, slot, written)
        PROVE  Next
    BY <2>4 DEF RestrictCommand, Next, Request
  <2>5. ASSUME NEW kind \in Kinds, LiftCommand(id, kind, slot, written)
        PROVE  Next
    BY <2>5 DEF LiftCommand, Next, Request
  <2>6. ASSUME NEW kind \in Kinds, MenuLift(id, kind, slot, written)
        PROVE  [Next]_vars
    BY <2>6 DEF MenuLift, Next, Request
  <2> QED
    BY <2>1, <2>2, <2>3, <2>4, <2>5, <2>6
<1>2. CASE Chat
  BY <1>2 DEF Chat, ChatLift, ChatRestrict, ChatUnban
<1>3. CASE Client
  BY <1>3 DEF Client, Connect, Authenticate, Disconnect
<1>4. CASE Kick \/ Silence
  BY <1>4 DEF Kick, Silence
<1>5. CASE Release
  <2>1. PICK o \in order :
          /\ o.do \in {"lift", "menu lift"}
          /\ \/ \E written \in BOOLEAN : RecordLift(o.id, o.kind, written)
             \/ UNCHANGED vars
    BY <1>5 DEF Release
  <2>2. o.id \in Ids /\ o.kind \in Kinds
    BY <2>1 DEF OrderSound
  <2> QED
    BY <2>1, <2>2 DEF Next, Request
<1>6. CASE Fault \/ Crash
  BY <1>6 DEF Fault, Crash, Next
<1>7. CASE \E written \in BOOLEAN : Note(written)
  BY <1>7 DEF Note, Next
<1>8. CASE CheckInfractions \/ Reload
  BY <1>8 DEF CheckInfractions, Reload
<1>9. CASE Boot
  BY <1>9 DEF Boot, Next
<1>10. CASE Pass
  BY <1>10 DEF Pass, Next
<1>11. CASE UNCHANGED allVars
  BY <1>11 DEF allVars
<1> QED
  BY <1>1, <1>2, <1>3, <1>4, <1>5, <1>6, <1>7, <1>8, <1>9, <1>10, <1>11
     DEF EnforcementNext, Finish

(* The composition implements the specification of the stores: commands,   *)
(* the menu, chat commands, timers, faults and crashes change them only as *)
(* Moderation says (gamesystem.cpp:2445-2603, neo_admin_menu.cpp:648-755). *)
THEOREM EnforcementKeepsModeration == EnforcementSpec => Spec
<1>1. EnforcementInit => Init /\ OrderSound
  BY DEF EnforcementInit, OrderSound
<1> QED
  BY <1>1, OrderStaysSound, StepOfTheStores, PTL DEF EnforcementSpec, Spec

(* So the history is right of everything that the commands do.             *)
THEOREM HistoryTellsTheTruthOfCommands ==
  EnforcementSpec => [](StoresMirrorDisk /\ HistoryAgrees)
BY EnforcementKeepsModeration, StoresAlwaysMirrorDisk, HistoryTellsTheTruth, PTL

-----------------------------------------------------------------------------
(* The lists of infractions.                                               *)
SoundList(list) == list \in Seq(Infraction) /\ OnePerKind(list)

LEMMA RemainingSound ==
  ASSUME NEW list, SoundList(list), NEW places \in SUBSET DOMAIN list
  PROVE  SoundList(Remaining(list, places))
<1> DEFINE t == Remaining(list, places)
<1>1. /\ t \in Seq(Infraction)
      /\ \A n \in DOMAIN t : Nth(places, n) \in DOMAIN list /\ t[n] = list[Nth(places, n)]
      /\ \A m, n \in DOMAIN t : Nth(places, m) = Nth(places, n) => m = n
  <2>1. list \in Seq(Infraction)
    BY DEF SoundList
  <2> QED
    BY <2>1, PlacesKept
<1> HIDE DEF t
<1>2. OnePerKind(t)
  BY <1>1 DEF SoundList, OnePerKind
<1> QED
  BY <1>1, <1>2 DEF SoundList, t

LEMMA ThinnedSound ==
  ASSUME NEW list, SoundList(list), NEW ids, NEW id
  PROVE  SoundList(Expiring(list, ids)) /\ SoundList(TurnedAway(list, id))
BY RemainingSound DEF Expiring, TurnedAway

LEMMA WithoutSound ==
  ASSUME NEW list, SoundList(list), NEW id, NEW kind
  PROVE  /\ SoundList(Without(list, id, kind))
         /\ Matching(Without(list, id, kind), id, kind) = {}
         /\ \A j \in DOMAIN Without(list, id, kind) : \E k \in DOMAIN list :
              Without(list, id, kind)[j] = list[k]
<1>1. CASE Matching(list, id, kind) = {}
  BY <1>1 DEF Without
<1>2. ASSUME NEW i \in Matching(list, id, kind)
      PROVE  /\ SoundList(Without(list, id, kind))
             /\ Matching(Without(list, id, kind), id, kind) = {}
             /\ \A j \in DOMAIN Without(list, id, kind) : \E k \in DOMAIN list :
                  Without(list, id, kind)[j] = list[k]
  <2> DEFINE rest == RemoveAt(list, i)
  <2>1. Len(list) \in Nat /\ DOMAIN list = 1..Len(list) /\ i \in 1..Len(list)
    BY <1>2, LenProperties DEF SoundList, Matching
  <2>2. Matching(list, id, kind) = {i}
    BY <1>2 DEF SoundList, OnePerKind, Matching
  <2>3. Max(Matching(list, id, kind)) = i
    BY <2>1, <2>2 DEF Max
  <2>4. Without(list, id, kind) = rest
    BY <2>2, <2>3 DEF Without
  <2>5. /\ rest \in Seq(Infraction)
        /\ Len(rest) = Len(list) - 1
        /\ \A k \in 1..(Len(list) - 1) :
             rest[k] = IF k < i THEN list[k] ELSE list[k + 1]
    BY <2>1, RemoveAtProperties DEF SoundList
  <2> HIDE DEF rest
  <2>6. DOMAIN rest = 1..(Len(list) - 1)
    BY <2>5, LenProperties
  <2>7. ASSUME NEW j \in DOMAIN rest
        PROVE  \E k \in DOMAIN list \ {i} :
                 rest[j] = list[k] /\ k = IF j < i THEN j ELSE j + 1
    <3>1. (IF j < i THEN j ELSE j + 1) \in DOMAIN list \ {i}
      BY <2>1, <2>6, <2>7
    <3> QED
      BY <2>5, <2>6, <2>7, <3>1
  <2>8. OnePerKind(rest)
    <3> SUFFICES ASSUME NEW m \in DOMAIN rest, NEW n \in DOMAIN rest,
                        rest[m].id = rest[n].id, rest[m].kind = rest[n].kind
                 PROVE  m = n
      BY DEF OnePerKind
    <3>1. PICK k \in DOMAIN list \ {i} :
            rest[m] = list[k] /\ k = IF m < i THEN m ELSE m + 1
      BY <2>7
    <3>2. PICK l \in DOMAIN list \ {i} :
            rest[n] = list[l] /\ l = IF n < i THEN n ELSE n + 1
      BY <2>7
    <3>3. k = l
      BY <3>1, <3>2 DEF SoundList, OnePerKind
    <3> QED
      BY <2>1, <2>6, <3>1, <3>2, <3>3
  <2>9. Matching(rest, id, kind) = {}
    <3> SUFFICES ASSUME NEW j \in DOMAIN rest, rest[j].id = id, rest[j].kind = kind
                 PROVE  FALSE
      BY DEF Matching
    <3>1. PICK k \in DOMAIN list \ {i} : rest[j] = list[k]
      BY <2>7
    <3>2. k \in Matching(list, id, kind)
      BY <3>1 DEF Matching
    <3> QED
      BY <2>2, <3>2
  <2> QED
    BY <2>4, <2>5, <2>7, <2>8, <2>9 DEF SoundList
<1> QED
  BY <1>1, <1>2

LEMMA WithSound ==
  ASSUME TypeOK, NEW list, SoundList(list), NEW id \in Ids, NEW kind \in Topics,
         NEW duration \in Nat
  PROVE  /\ SoundList(With(list, id, kind, duration))
         /\ \A n \in DOMAIN With(list, id, kind, duration) :
              \/ \E k \in DOMAIN list : With(list, id, kind, duration)[n] = list[k]
              \/ /\ With(list, id, kind, duration)[n].id = id
                 /\ With(list, id, kind, duration)[n].kind = kind
<1> DEFINE rest == Without(list, id, kind)
           new == [id |-> id, kind |-> kind, until |-> Until(duration)]
<1>1. /\ SoundList(rest) /\ Matching(rest, id, kind) = {}
      /\ \A j \in DOMAIN rest : \E k \in DOMAIN list : rest[j] = list[k]
  BY WithoutSound
<1>2. Until(duration) \in Nat
  BY MaximaAssumption DEF TypeOK, Until
<1>3. new \in Infraction /\ new.id = id /\ new.kind = kind
  BY <1>2 DEF Infraction
<1>4. With(list, id, kind, duration) = Append(rest, new)
  BY DEF With
<1> HIDE DEF rest, new
<1>5. Len(rest) \in Nat /\ DOMAIN rest = 1..Len(rest)
  BY <1>1, LenProperties DEF SoundList
<1>6. /\ Append(rest, new) \in Seq(Infraction)
      /\ Len(Append(rest, new)) = Len(rest) + 1
      /\ \A k \in 1..Len(rest) : Append(rest, new)[k] = rest[k]
      /\ Append(rest, new)[Len(rest) + 1] = new
  BY <1>1, <1>3, AppendProperties DEF SoundList
<1>7. DOMAIN Append(rest, new) = 1..(Len(rest) + 1)
  BY <1>6, LenProperties
<1>8. \A k \in DOMAIN rest : ~(rest[k].id = id /\ rest[k].kind = kind)
  BY <1>1 DEF Matching
<1>9. OnePerKind(Append(rest, new))
  <2> SUFFICES ASSUME NEW m \in 1..(Len(rest) + 1), NEW n \in 1..(Len(rest) + 1),
                      Append(rest, new)[m].id = Append(rest, new)[n].id,
                      Append(rest, new)[m].kind = Append(rest, new)[n].kind
               PROVE  m = n
    BY <1>7 DEF OnePerKind
  <2>1. (m \in 1..Len(rest) \/ m = Len(rest) + 1) /\ (n \in 1..Len(rest) \/ n = Len(rest) + 1)
    BY <1>5
  <2>2. CASE m \in 1..Len(rest) /\ n \in 1..Len(rest)
    BY <1>1, <1>5, <1>6, <2>2 DEF SoundList, OnePerKind
  <2>3. ~(m \in 1..Len(rest) /\ n = Len(rest) + 1)
    BY <1>3, <1>5, <1>6, <1>8
  <2>4. ~(n \in 1..Len(rest) /\ m = Len(rest) + 1)
    BY <1>3, <1>5, <1>6, <1>8
  <2> QED
    BY <2>1, <2>2, <2>3, <2>4
<1>10. ASSUME NEW n \in 1..(Len(rest) + 1)
       PROVE  \/ \E k \in DOMAIN list : Append(rest, new)[n] = list[k]
              \/ Append(rest, new)[n] = new
  <2>1. n \in 1..Len(rest) \/ n = Len(rest) + 1
    BY <1>5
  <2> QED
    BY <1>1, <1>5, <1>6, <2>1
<1> QED
  BY <1>3, <1>4, <1>6, <1>7, <1>9, <1>10 DEF SoundList

LEMMA SavedSound ==
  ASSUME NEW list, SoundList(list), SoundList(file), SaveInfractions(list)
  PROVE  SoundList(file')
<1>1. SoundList(<<>>)
  BY EmptySeq DEF SoundList, OnePerKind
<1>2. \A places \in SUBSET DOMAIN list : SoundList(Remaining(list, places))
  BY RemainingSound
<1> QED
  BY <1>1, <1>2 DEF SaveInfractions

-----------------------------------------------------------------------------
(* The types of Enforcement, without the limit on the command.             *)
Seats == [Slots -> Player \cup {NoPlayer}]

Enforced ==
  /\ SoundList(infractions) /\ SoundList(file)
  /\ players \in Seats
  /\ order \subseteq Order
  /\ order = {} \/ \E o : order = {o}

LEMMA CheckedPlayer ==
  ASSUME NEW list, NEW player \in Player \cup {NoPlayer}
  PROVE  Checked(list, player) \in Player \cup {NoPlayer}
<1>1. CASE player = NoPlayer
  BY <1>1 DEF Checked
<1>2. CASE player \in Player
  <2>1. FlagsAfter(list, player) \in SUBSET Kinds
    BY DEF FlagsAfter
  <2>2. [player EXCEPT !.flags = FlagsAfter(list, player)] \in Player
    BY <1>2, <2>1 DEF Player
  <2> QED
    BY <2>2 DEF Checked
<1> QED
  BY <1>1, <1>2

(* Adding a flag to a player or taking one away.                           *)
LEMMA FlaggedPlayer ==
  ASSUME NEW player \in Player, NEW flags \in SUBSET Kinds
  PROVE  [player EXCEPT !.flags = flags] \in Player /\ player.flags \in SUBSET Kinds
BY DEF Player

LEMMA OrdersMade ==
  ASSUME NEW do \in {"restrict", "lift", "menu lift", "kick"}, NEW id \in Ids,
         NEW kind \in Topics, NEW duration \in Nat, NEW slot \in AnySlot,
         NEW stored \in BOOLEAN,
         Enforced, UNCHANGED enforcement,
         GoOn(do, id, kind, duration, slot, stored) \/ order' = {} \/ order' = order
  PROVE  Enforced'
<1>1. UNCHANGED <<infractions, file, players>>
  BY DEF enforcement
<1>2. CASE GoOn(do, id, kind, duration, slot, stored)
  <2> DEFINE o == [do |-> do, id |-> id, kind |-> kind, duration |-> duration,
                   slot |-> slot, stored |-> stored]
  <2>1. o \in Order
    BY DEF Order, AnySlot
  <2>2. order' = {o}
    BY <1>2 DEF GoOn
  <2> HIDE DEF o
  <2> QED
    BY <1>1, <2>1, <2>2 DEF Enforced, SoundList
<1>3. CASE order' = {} \/ order' = order
  BY <1>1, <1>3 DEF Enforced, SoundList
<1> QED
  BY <1>2, <1>3

LEMMA CommandTypes ==
  ASSUME Enforced, Command
  PROVE  Enforced'
<1>1. PICK id \in Ids, slot \in AnySlot, written \in BOOLEAN :
        \/ UnbanCommand(id, written)
        \/ \E duration \in Durations :
             \/ BanCommand(id, duration, slot, written)
             \/ \E kind \in Kinds : RestrictCommand(id, kind, duration, slot, written)
        \/ \E kind \in Kinds :
             LiftCommand(id, kind, slot, written) \/ MenuLift(id, kind, slot, written)
  BY DEF Command
<1>2. Durations \subseteq Nat /\ Kinds \subseteq Topics /\ "Ban" \in Topics
  BY DurationsAssumption DEF Topics
<1>3. CASE UnbanCommand(id, written)
  BY <1>3 DEF UnbanCommand, enforcement, Enforced, SoundList
<1>4. ASSUME NEW duration \in Durations, BanCommand(id, duration, slot, written)
      PROVE  Enforced'
  BY <1>2, <1>4, OrdersMade DEF BanCommand
<1>5. ASSUME NEW duration \in Durations, NEW kind \in Kinds,
             RestrictCommand(id, kind, duration, slot, written)
      PROVE  Enforced'
  BY <1>2, <1>5, OrdersMade DEF RestrictCommand
<1>6. ASSUME NEW kind \in Kinds, LiftCommand(id, kind, slot, written)
      PROVE  Enforced'
  BY <1>2, <1>6, OrdersMade DEF LiftCommand
<1>7. ASSUME NEW kind \in Kinds, MenuLift(id, kind, slot, written)
      PROVE  Enforced'
  <2>1. (Found(id, kind) # {} /\ written) \in BOOLEAN
    OBVIOUS
  <2>2. /\ GoOn("menu lift", id, kind, 0, slot, Found(id, kind) # {} /\ written)
        /\ UNCHANGED enforcement
    BY <1>7 DEF MenuLift
  <2> QED
    BY <1>2, <2>1, <2>2, OrdersMade
<1> QED
  BY <1>1, <1>3, <1>4, <1>5, <1>6, <1>7

LEMMA ChatTypes ==
  ASSUME TypeOK, Enforced, Chat
  PROVE  Enforced'
<1>1. ASSUME NEW slot \in Slots, NEW kind \in Kinds, ChatLift(slot, kind)
      PROVE  Enforced'
  <2>1. players[slot] \in Player /\ players[slot].flags \in SUBSET Kinds
    BY <1>1, FlaggedPlayer DEF ChatLift, Present, Enforced, Seats
  <2> DEFINE flags == IF Matching(infractions, players[slot].id, kind) = {}
                      THEN players[slot].flags ELSE players[slot].flags \ {kind}
  <2>2. players' = [players EXCEPT ![slot] = [players[slot] EXCEPT !.flags = flags]]
    BY <1>1 DEF ChatLift
  <2>3. flags \in SUBSET Kinds
    BY <2>1
  <2> HIDE DEF flags
  <2>4. players' \in Seats
    BY <2>1, <2>2, <2>3, FlaggedPlayer DEF Enforced, Seats
  <2>5. SoundList(infractions') /\ SoundList(file')
    BY <1>1, WithoutSound, SavedSound DEF ChatLift, Enforced
  <2>6. order' = order
    BY <1>1 DEF ChatLift
  <2> QED
    BY <2>4, <2>5, <2>6 DEF Enforced, SoundList
<1>2. ASSUME NEW slot \in Slots, NEW kind \in Topics, NEW duration \in Durations,
             ChatRestrict(slot, kind, duration)
      PROVE  Enforced'
  <2>1. /\ players[slot] \in Player /\ players[slot].flags \in SUBSET Kinds
        /\ players[slot].id \in Ids
    BY <1>2, FlaggedPlayer DEF ChatRestrict, Present, Enforced, Seats, Player
  <2>2. /\ infractions' = With(infractions, players[slot].id, kind, duration)
        /\ SaveInfractions(infractions') /\ order' = order
    BY <1>2 DEF ChatRestrict
  <2>3. kind # "Ban" => players[slot].flags \cup {kind} \in SUBSET Kinds
    BY <2>1 DEF Topics
  <2>4. players' \in Seats
    <3>1. CASE kind = "Ban"
      <4>1. players' = [players EXCEPT ![slot] = NoPlayer]
        BY <1>2, <3>1 DEF ChatRestrict
      <4> QED
        BY <4>1 DEF Enforced, Seats
    <3>2. CASE kind # "Ban"
      <4>1. players' = [players EXCEPT ![slot] =
              [players[slot] EXCEPT !.flags = players[slot].flags \cup {kind}]]
        BY <1>2, <3>2 DEF ChatRestrict
      <4> QED
        BY <2>1, <2>3, <3>2, <4>1, FlaggedPlayer DEF Enforced, Seats
    <3> QED
      BY <3>1, <3>2
  <2>5. SoundList(infractions') /\ SoundList(file')
    BY <2>1, <2>2, WithSound, SavedSound, DurationsAssumption DEF Enforced
  <2> QED
    BY <2>2, <2>4, <2>5 DEF Enforced, SoundList
<1>3. ASSUME NEW id \in Ids, ChatUnban(id)
      PROVE  Enforced'
  <2>1. SoundList(infractions') /\ SoundList(file')
    BY <1>3, WithoutSound, SavedSound DEF ChatUnban, Enforced
  <2>2. UNCHANGED <<players, order>>
    BY <1>3 DEF ChatUnban
  <2> QED
    BY <2>1, <2>2 DEF Enforced, SoundList
<1> QED
  BY <1>1, <1>2, <1>3 DEF Chat

LEMMA ClientTypes ==
  ASSUME Enforced, Client
  PROVE  Enforced'
<1>1. ASSUME NEW slot \in Slots, NEW id \in Ids, NEW auth \in BOOLEAN,
             Connect(slot, id, auth)
      PROVE  Enforced'
  <2> DEFINE flags == FlagsAfter(infractions, [id |-> id, flags |-> {}])
             new == [id |-> id, auth |-> auth, flags |-> flags]
  <2>1. flags \in SUBSET Kinds
    BY DEF FlagsAfter
  <2> HIDE DEF flags
  <2>2. new \in Player
    BY <2>1 DEF Player
  <2>3. players' = players \/ players' = [players EXCEPT ![slot] = new]
    BY <1>1 DEF Connect, flags
  <2> HIDE DEF new
  <2>4. players' \in Seats
    BY <2>2, <2>3 DEF Enforced, Seats
  <2>5. SoundList(infractions') /\ UNCHANGED <<file, order>>
    BY <1>1, ThinnedSound DEF Connect, Enforced
  <2> QED
    BY <2>4, <2>5 DEF Enforced, SoundList
<1>2. ASSUME NEW slot \in Slots, Authenticate(slot)
      PROVE  Enforced'
  <2>1. players[slot] \in Player
    BY <1>2 DEF Authenticate, Present, Enforced, Seats
  <2>2. [players[slot] EXCEPT !.auth = TRUE] \in Player
    BY <2>1 DEF Player
  <2>3. players' \in Seats
    BY <1>2, <2>2, CheckedPlayer DEF Authenticate, Enforced, Seats
  <2>4. SoundList(infractions') /\ UNCHANGED <<file, order>>
    BY <1>2, ThinnedSound DEF Authenticate, Enforced
  <2> QED
    BY <2>3, <2>4 DEF Enforced, SoundList
<1>3. ASSUME NEW slot \in Slots, Disconnect(slot)
      PROVE  Enforced'
  BY <1>3 DEF Disconnect, Enforced, Seats, SoundList
<1> QED
  BY <1>1, <1>2, <1>3 DEF Client

LEMMA CheckTypes ==
  ASSUME Enforced, CheckInfractions \/ Reload
  PROVE  Enforced'
<1>1. ASSUME NEW list, SoundList(list), CheckAll(list)
      PROVE  SoundList(infractions') /\ players' \in Seats
  <2>1. players' = [slot \in Slots |-> Checked(list, players[slot])]
    BY <1>1 DEF CheckAll
  <2>2. \A slot \in Slots : Checked(list, players[slot]) \in Player \cup {NoPlayer}
    BY CheckedPlayer DEF Enforced, Seats
  <2> QED
    BY <1>1, <2>1, <2>2, ThinnedSound DEF CheckAll, Seats
<1>2. CASE CheckInfractions
  <2>1. SoundList(infractions') /\ players' \in Seats
    BY <1>1, <1>2 DEF CheckInfractions, Enforced
  <2>2. SoundList(file') /\ order' = order
    BY <1>2, <2>1, SavedSound DEF CheckInfractions, Enforced
  <2> QED
    BY <2>1, <2>2 DEF Enforced, SoundList
<1>3. CASE Reload
  <2>1. SoundList(infractions') /\ players' \in Seats
    BY <1>1, <1>3 DEF Reload, Enforced
  <2> QED
    BY <1>3, <2>1 DEF Reload, Enforced, SoundList
<1> QED
  BY <1>2, <1>3

LEMMA FinishTypes ==
  ASSUME TypeOK, OrderSound, Enforced, Kick \/ Silence \/ Release
  PROVE  Enforced'
<1>0. \A o \in order : o.id \in Ids /\ o.kind \in Topics /\ o.duration \in Nat
  BY DEF Enforced, Order
<1>1. CASE Kick
  BY <1>1 DEF Kick, Enforced, Seats, SoundList
<1>2. ASSUME NEW o \in order, o.do # "kick",
             NEW silenced \in BOOLEAN, NEW released \in BOOLEAN,
             players' = [slot \in Slots |->
               IF slot = o.slot /\ Names(slot, o.id) /\ silenced
               THEN [players[slot] EXCEPT !.flags = players[slot].flags \cup {o.kind}]
               ELSE IF slot = o.slot /\ Names(slot, o.id) /\ released
               THEN [players[slot] EXCEPT !.flags = players[slot].flags \ {o.kind}]
               ELSE players[slot]]
      PROVE  players' \in Seats
  <2>1. o.kind \in Kinds
    BY <1>2 DEF OrderSound
  <2>2. ASSUME NEW slot \in Slots, Names(slot, o.id)
        PROVE  /\ [players[slot] EXCEPT !.flags = players[slot].flags \cup {o.kind}] \in Player
               /\ [players[slot] EXCEPT !.flags = players[slot].flags \ {o.kind}] \in Player
    <3>1. players[slot] \in Player
      BY <2>2 DEF Names, Present, Enforced, Seats
    <3>2. players[slot].flags \in SUBSET Kinds
      BY <3>1, FlaggedPlayer
    <3> QED
      BY <2>1, <3>1, <3>2, FlaggedPlayer
  <2> QED
    BY <1>2, <2>2 DEF Enforced, Seats
<1>3. CASE Silence
  <2>1. PICK o \in order :
          /\ o.do = "restrict"
          /\ infractions' = With(infractions, o.id, o.kind, o.duration)
          /\ players' = [slot \in Slots |->
               IF slot = o.slot /\ Names(slot, o.id)
               THEN [players[slot] EXCEPT !.flags = players[slot].flags \cup {o.kind}]
               ELSE players[slot]]
          /\ SaveInfractions(infractions')
    BY <1>3 DEF Silence
  <2>2. players' \in Seats
    <3>1. players' = [slot \in Slots |->
            IF slot = o.slot /\ Names(slot, o.id) /\ TRUE
            THEN [players[slot] EXCEPT !.flags = players[slot].flags \cup {o.kind}]
            ELSE IF slot = o.slot /\ Names(slot, o.id) /\ FALSE
            THEN [players[slot] EXCEPT !.flags = players[slot].flags \ {o.kind}]
            ELSE players[slot]]
      BY <2>1
    <3> QED
      BY <1>2, <2>1, <3>1
  <2>3. SoundList(infractions') /\ SoundList(file')
    BY <1>0, <2>1, WithSound, SavedSound DEF Enforced
  <2>4. order' = {}
    BY <1>3 DEF Silence
  <2> QED
    BY <2>2, <2>3, <2>4 DEF Enforced
<1>4. CASE Release
  <2> DEFINE Gone(o) == Matching(infractions, o.id, o.kind) # {}
  <2>1. PICK o \in order :
          /\ o.do \in {"lift", "menu lift"}
          /\ infractions' = Without(infractions, o.id, o.kind)
          /\ players' = [slot \in Slots |->
               IF slot = o.slot /\ Names(slot, o.id) /\ Gone(o)
               THEN [players[slot] EXCEPT !.flags = players[slot].flags \ {o.kind}]
               ELSE players[slot]]
          /\ SaveInfractions(infractions') \/ UNCHANGED file
    BY <1>4 DEF Release
  <2>2. players' \in Seats
    <3>1. Gone(o) \in BOOLEAN
      OBVIOUS
    <3> HIDE DEF Gone
    <3>2. players' = [slot \in Slots |->
            IF slot = o.slot /\ Names(slot, o.id) /\ FALSE
            THEN [players[slot] EXCEPT !.flags = players[slot].flags \cup {o.kind}]
            ELSE IF slot = o.slot /\ Names(slot, o.id) /\ Gone(o)
            THEN [players[slot] EXCEPT !.flags = players[slot].flags \ {o.kind}]
            ELSE players[slot]]
      BY <2>1
    <3> QED
      BY <1>2, <2>1, <3>1, <3>2
  <2>3. SoundList(infractions')
    BY <2>1, WithoutSound DEF Enforced
  <2>4. SoundList(file')
    BY <2>1, <2>3, SavedSound DEF Enforced, SoundList
  <2>5. order' = {}
    BY <1>4 DEF Release
  <2> QED
    BY <2>2, <2>3, <2>4, <2>5 DEF Enforced
<1> QED
  BY <1>1, <1>3, <1>4

LEMMA EnforcedStep ==
  ASSUME TypeOK, OrderSound, Enforced, [EnforcementNext]_allVars
  PROVE  Enforced'
<1>1. ASSUME UNCHANGED <<enforcement, order>>
      PROVE  Enforced'
  BY <1>1 DEF enforcement, Enforced, SoundList
<1>2. CASE Boot
  BY <1>2 DEF Boot, Enforced, SoundList
<1>3. CASE Crash
  BY <1>3, EmptySeq DEF Crash, NoOne, Enforced, Seats, SoundList, OnePerKind
<1>4. CASE Finish
  BY <1>1, <1>3, <1>4, FinishTypes DEF Finish, Fault, Note
<1>5. CASE Pass \/ UNCHANGED allVars
  BY <1>1, <1>5 DEF Pass, allVars
<1> QED
  BY <1>2, <1>3, <1>4, <1>5, CommandTypes, ChatTypes, ClientTypes, CheckTypes
     DEF EnforcementNext

(* However commands, chat, the timer, expiry, reloads, failed writes of    *)
(* the file and restarts alternate, of a player there is one infraction of *)
(* a kind, in memory and in the file: ApplyInfractions may go through them *)
(* in any order (adminsystem.cpp:1540-1600).                               *)
THEOREM OneInfractionOfAKind == EnforcementSpec => []EnforcementTypeOK
<1>1. EnforcementInit => Enforced /\ OrderSound
  BY EmptySeq DEF EnforcementInit, NoOne, Enforced, Seats, SoundList, OnePerKind, OrderSound
<1>2. TypeOK /\ OrderSound /\ Enforced /\ [EnforcementNext]_allVars => Enforced'
  BY EnforcedStep
<1>3. Enforced => EnforcementTypeOK
  <2> SUFFICES ASSUME Enforced PROVE EnforcementTypeOK
    OBVIOUS
  <2>1. Cardinality(order) <= 1
    <3>1. CASE order = {}
      BY <3>1, FS_EmptySet
    <3>2. ASSUME NEW o, order = {o} PROVE Cardinality(order) = 1
      BY <3>2, FS_Singleton
    <3> QED
      BY <3>1, <3>2 DEF Enforced
  <2> QED
    BY <2>1 DEF Enforced, EnforcementTypeOK, SoundList, Seats
<1>4. EnforcementSpec => []TypeOK
  BY EnforcementKeepsModeration, ModerationTypeCorrect, PTL
<1> QED
  BY <1>1, <1>2, <1>3, <1>4, OrderStaysSound, PTL DEF EnforcementSpec

-----------------------------------------------------------------------------
(* What thinning out the infractions drops and what it keeps.              *)
LEMMA ExpiringKeeps ==
  ASSUME NEW list, SoundList(list), NEW ids
  PROVE  /\ \A n \in DOMAIN Expiring(list, ids) : \E k \in DOMAIN list :
              /\ Expiring(list, ids)[n] = list[k]
              /\ list[k].id \notin ids \/ InForce(list[k])
         /\ \A k \in DOMAIN list : list[k].id \notin ids \/ InForce(list[k])
              => \E n \in DOMAIN Expiring(list, ids) : Expiring(list, ids)[n] = list[k]
<1> DEFINE kept == {k \in DOMAIN list : list[k].id \notin ids \/ InForce(list[k])}
<1>1. Expiring(list, ids) = Remaining(list, kept)
  BY DEF Expiring
<1>2. list \in Seq(Infraction) /\ kept \in SUBSET DOMAIN list
  BY DEF SoundList
<1>3. \A k : k \in kept <=> k \in DOMAIN list /\ (list[k].id \notin ids \/ InForce(list[k]))
  OBVIOUS
<1> HIDE DEF kept
<1>4. \A n \in DOMAIN Remaining(list, kept) :
        Remaining(list, kept)[n] = list[Nth(kept, n)]
  BY <1>2, PlacesKept
<1>5. /\ \A n \in DOMAIN Remaining(list, kept) : Nth(kept, n) \in kept
      /\ \A k \in kept : \E n \in DOMAIN Remaining(list, kept) : Nth(kept, n) = k
  BY <1>2, EveryPlaceKept
<1> QED
  BY <1>1, <1>3, <1>4, <1>5

LEMMA TurnedAwayKeeps ==
  ASSUME NEW list, SoundList(list), NEW id
  PROVE  \A n \in DOMAIN TurnedAway(list, id) : \E k \in DOMAIN list :
           TurnedAway(list, id)[n] = list[k]
<1> DEFINE kept == {k \in DOMAIN list : \/ k <= Max(BansInForce(list, id))
                                        \/ list[k].id # id \/ InForce(list[k])}
<1>1. TurnedAway(list, id) = Remaining(list, kept)
  BY DEF TurnedAway
<1>2. list \in Seq(Infraction) /\ kept \in SUBSET DOMAIN list
  BY DEF SoundList
<1> HIDE DEF kept
<1> QED
  BY <1>1, <1>2, PlacesKept

(* There is one infraction of a kind, so that none has to have the last    *)
(* word.                                                                   *)
LEMMA FlagsTold ==
  ASSUME NEW list, SoundList(list), NEW player, NEW kind \in Kinds
  PROVE  kind \in FlagsAfter(list, player) <=>
           IF Matching(list, player.id, kind) = {} THEN kind \in player.flags
           ELSE \E i \in Matching(list, player.id, kind) : InForce(list[i])
<1> DEFINE mine == Matching(list, player.id, kind)
<1>1. kind \in FlagsAfter(list, player) <=>
        IF mine = {} THEN kind \in player.flags ELSE InForce(list[Min(mine)])
  BY DEF FlagsAfter
<1>2. ASSUME NEW i \in mine PROVE mine = {i} /\ Min(mine) = i
  <2>1. mine = {i}
    BY <1>2 DEF SoundList, OnePerKind, Matching
  <2>2. i \in Nat
    BY <1>2, LenProperties DEF SoundList, Matching
  <2> QED
    BY <2>1, <2>2 DEF Min
<1> QED
  BY <1>1, <1>2

(* What a player who is still there was before all infractions were        *)
(* checked.                                                                *)
LEMMA StillThere ==
  ASSUME NEW list, players \in Seats, CheckAll(list), NEW slot, Present(slot)'
  PROVE  /\ Present(slot) /\ players[slot] \in Player
         /\ players'[slot].id = players[slot].id
         /\ players'[slot].flags = FlagsAfter(list, players[slot])
         /\ players[slot].id \in Online
         /\ BansInForce(list, players[slot].id) = {}
<1>1. slot \in Slots /\ players'[slot] # NoPlayer
  BY DEF Present
<1>2. players'[slot] = Checked(list, players[slot])
  BY <1>1 DEF CheckAll
<1>3. /\ players[slot] # NoPlayer /\ BansInForce(list, players[slot].id) = {}
      /\ players'[slot] = [players[slot] EXCEPT !.flags = FlagsAfter(list, players[slot])]
  BY <1>1, <1>2 DEF Checked
<1>4. players[slot] \in Player
  BY <1>1, <1>3 DEF Seats
<1>5. players'[slot].id = players[slot].id
      /\ players'[slot].flags = FlagsAfter(list, players[slot])
  BY <1>3, <1>4 DEF Player
<1> QED
  BY <1>1, <1>3, <1>4, <1>5 DEF Present, Online

-----------------------------------------------------------------------------
(* Every infraction that is in force has reached its player, no player is  *)
(* there with a ban, and of those who are there no expired infraction is   *)
(* left.                                                                   *)
AllEnforced ==
  /\ \A id \in Ids, kind \in Kinds : ~Escapes(id, kind)
  /\ \A slot \in Slots : Present(slot) =>
       /\ BansInForce(infractions, players[slot].id) = {}
       /\ \A i \in DOMAIN infractions :
            infractions[i].id = players[slot].id => InForce(infractions[i])

LEMMA CheckAllEnforces ==
  ASSUME NEW list, SoundList(list), players \in Seats, CheckAll(list), clock' = clock
  PROVE  AllEnforced'
<1>1. infractions' = Expiring(list, Online)
  BY DEF CheckAll
<1>2. ASSUME NEW n \in DOMAIN infractions'
      PROVE  \E k \in DOMAIN list : /\ infractions'[n] = list[k]
                                    /\ list[k].id \notin Online \/ InForce(list[k])
  BY <1>1, <1>2, ExpiringKeeps
<1>3. ASSUME NEW id \in Ids, NEW kind \in Kinds, Escapes(id, kind)'
      PROVE  FALSE
  <2>1. PICK n \in DOMAIN infractions' :
          infractions'[n].id = id /\ infractions'[n].kind = kind /\ InForce(infractions'[n])
    BY <1>3 DEF Escapes, Matching, InForce
  <2>2. PICK slot : Present(slot)' /\ players'[slot].id = id /\ kind \notin players'[slot].flags
    BY <1>3 DEF Escapes, Names
  <2>3. players[slot].id = id /\ kind \notin FlagsAfter(list, players[slot])
    BY <2>2, StillThere
  <2>4. PICK k \in DOMAIN list : list[k] = infractions'[n]
    BY <1>2
  <2>5. k \in Matching(list, players[slot].id, kind) /\ InForce(list[k])
    BY <2>1, <2>3, <2>4 DEF Matching
  <2> QED
    BY <2>3, <2>5, FlagsTold
<1>4. ASSUME NEW slot, Present(slot)'
      PROVE  /\ BansInForce(infractions, players[slot].id)' = {}
             /\ \A i \in DOMAIN infractions' :
                  infractions'[i].id = players'[slot].id => InForce(infractions'[i])
  <2>1. /\ players'[slot].id = players[slot].id /\ players[slot].id \in Online
        /\ BansInForce(list, players[slot].id) = {}
    BY <1>4, StillThere
  <2>2. ASSUME NEW n \in DOMAIN infractions', infractions'[n].id = players'[slot].id
        PROVE  InForce(infractions'[n]) /\ infractions'[n].kind # "Ban"
    <3>1. PICK k \in DOMAIN list :
            infractions'[n] = list[k] /\ (list[k].id \notin Online \/ InForce(list[k]))
      BY <1>2
    <3>2. InForce(list[k])
      BY <2>1, <2>2, <3>1
    <3>3. list[k].kind # "Ban"
      BY <2>1, <2>2, <3>1, <3>2 DEF BansInForce, Matching
    <3> QED
      BY <3>1, <3>2, <3>3
  <2> QED
    BY <2>2 DEF BansInForce, Matching
<1>5. \A id \in Ids, kind \in Kinds : ~Escapes(id, kind)'
  BY <1>3
<1>6. \A r : InForce(r)' <=> InForce(r)
  BY DEF InForce
<1>7. \A i \in DOMAIN infractions' : InForce(infractions[i])' <=> InForce(infractions'[i])
  BY DEF InForce
<1> QED
  BY <1>4, <1>5, <1>7 DEF AllEnforced

(* One pass of the timer, or one reload, is enough: whatever commands,     *)
(* absences and failures came before, afterwards no mute, gag or ban in    *)
(* force has missed a player who is there (adminsystem.cpp:1540-1600).     *)
(* The pass of the timer loses none that is in force and none of a player  *)
(* who is away.                                                            *)
PassEnforces ==
  /\ CheckInfractions \/ Reload => AllEnforced'
  /\ CheckInfractions => \A k \in DOMAIN infractions :
       InForce(infractions[k]) \/ infractions[k].id \notin Online
         => \E n \in DOMAIN infractions' : infractions'[n] = infractions[k]

(* So it is in every execution: the safety half of RestrictionsTakeHold.   *)
THEOREM OnePassEnforces == EnforcementSpec => [][PassEnforces]_allVars
<1>1. ASSUME EnforcementTypeOK, CheckInfractions \/ Reload
      PROVE  AllEnforced'
  <2>1. SoundList(infractions) /\ SoundList(file) /\ players \in Seats
    BY <1>1 DEF EnforcementTypeOK, SoundList, Seats
  <2>2. clock' = clock /\ (CheckAll(infractions) \/ CheckAll(file))
    BY <1>1 DEF CheckInfractions, Reload, vars
  <2> QED
    BY <2>1, <2>2, CheckAllEnforces
<1>2. ASSUME EnforcementTypeOK, CheckInfractions, NEW k \in DOMAIN infractions,
             InForce(infractions[k]) \/ infractions[k].id \notin Online
      PROVE  \E n \in DOMAIN infractions' : infractions'[n] = infractions[k]
  <2>1. SoundList(infractions) /\ infractions' = Expiring(infractions, Online)
    BY <1>2 DEF EnforcementTypeOK, SoundList, CheckInfractions, CheckAll
  <2> QED
    BY <1>2, <2>1, ExpiringKeeps
<1>3. EnforcementTypeOK => PassEnforces
  BY <1>1, <1>2 DEF PassEnforces
<1> QED
  BY <1>3, OneInfractionOfAKind, PTL

-----------------------------------------------------------------------------
(* No player is in two slots, and nobody is on a server that is down.      *)
OneSeat ==
  /\ \A s, t \in Slots :
       Present(s) /\ Present(t) /\ players[s].id = players[t].id => s = t
  /\ ~up => players = NoOne

(* Players only leave.                                                     *)
LEMMA LeavingKeepsSeats ==
  ASSUME OneSeat, up,
         \A slot \in Slots : \/ players'[slot] = NoPlayer
                             \/ Present(slot) /\ players'[slot].id = players[slot].id,
         up' = up
  PROVE  OneSeat'
BY DEF OneSeat, Present

(* Some flags of a player change.                                          *)
LEMMA FlagsKeepTheId ==
  ASSUME NEW player \in Player, NEW flags
  PROVE  /\ [player EXCEPT !.flags = flags].id = player.id
         /\ [player EXCEPT !.flags = flags].flags = flags
BY DEF Player

LEMMA CheckedKeepsTheId ==
  ASSUME NEW list, NEW player \in Player
  PROVE  \/ Checked(list, player) = NoPlayer
         \/ /\ Checked(list, player).id = player.id
            /\ Checked(list, player).flags = FlagsAfter(list, player)
BY FlagsKeepTheId DEF Checked

(* What the actions do to the player in a slot.                            *)
LEMMA OneReflagged ==
  ASSUME NEW slot \in Slots, NEW flags, players \in Seats, players[slot] \in Player,
         players' = [players EXCEPT ![slot] = [players[slot] EXCEPT !.flags = flags]]
  PROVE  /\ players'[slot].id = players[slot].id /\ players'[slot].flags = flags
         /\ \A t \in Slots \ {slot} : players'[t] = players[t]
<1> DEFINE new == [players[slot] EXCEPT !.flags = flags]
<1>1. new.id = players[slot].id /\ new.flags = flags
  BY FlagsKeepTheId
<1>2. players' = [players EXCEPT ![slot] = new]
  OBVIOUS
<1> HIDE DEF new
<1>3. players'[slot] = new /\ \A t \in Slots \ {slot} : players'[t] = players[t]
  BY <1>2 DEF Seats
<1> QED
  BY <1>1, <1>3

LEMMA ChatLiftEffect ==
  ASSUME Enforced, NEW slot \in Slots, NEW kind, ChatLift(slot, kind)
  PROVE  /\ Present(slot) /\ players[slot] \in Player
         /\ players'[slot].id = players[slot].id
         /\ \/ players'[slot].flags = players[slot].flags
            \/ players'[slot].flags = players[slot].flags \ {kind}
         /\ \A t \in Slots \ {slot} : players'[t] = players[t]
<1> DEFINE flags == IF Matching(infractions, players[slot].id, kind) = {}
                    THEN players[slot].flags ELSE players[slot].flags \ {kind}
<1>1. Present(slot) /\ players[slot] \in Player /\ players \in Seats
  BY DEF ChatLift, Present, Enforced, Seats
<1>2. players' = [players EXCEPT ![slot] = [players[slot] EXCEPT !.flags = flags]]
  BY DEF ChatLift
<1>3. flags = players[slot].flags \/ flags = players[slot].flags \ {kind}
  OBVIOUS
<1> HIDE DEF flags
<1> QED
  BY <1>1, <1>2, <1>3, OneReflagged

LEMMA ChatRestrictEffect ==
  ASSUME Enforced, NEW slot \in Slots, NEW kind, NEW duration,
         ChatRestrict(slot, kind, duration)
  PROVE  /\ Present(slot) /\ players[slot] \in Player
         /\ \/ players'[slot] = NoPlayer
            \/ /\ players'[slot].id = players[slot].id
               /\ players'[slot].flags = players[slot].flags \cup {kind}
         /\ \A t \in Slots \ {slot} : players'[t] = players[t]
<1>1. Present(slot) /\ players[slot] \in Player /\ players \in Seats
  BY DEF ChatRestrict, Present, Enforced, Seats
<1>2. CASE kind = "Ban"
  <2>1. players' = [players EXCEPT ![slot] = NoPlayer]
    BY <1>2 DEF ChatRestrict
  <2> QED
    BY <1>1, <2>1 DEF Seats
<1>3. CASE kind # "Ban"
  <2>1. players' = [players EXCEPT ![slot] =
          [players[slot] EXCEPT !.flags = players[slot].flags \cup {kind}]]
    BY <1>3 DEF ChatRestrict
  <2> QED
    BY <1>1, <2>1, OneReflagged
<1> QED
  BY <1>2, <1>3

LEMMA AuthenticateEffect ==
  ASSUME Enforced, NEW slot \in Slots, Authenticate(slot)
  PROVE  /\ Present(slot) /\ players[slot] \in Player
         /\ \/ players'[slot] = NoPlayer
            \/ /\ players'[slot].id = players[slot].id
               /\ players'[slot].flags =
                    FlagsAfter(infractions, [players[slot] EXCEPT !.auth = TRUE])
         /\ \A t \in Slots \ {slot} : players'[t] = players[t]
         /\ [players[slot] EXCEPT !.auth = TRUE].id = players[slot].id
<1> DEFINE player == [players[slot] EXCEPT !.auth = TRUE]
<1>1. Present(slot) /\ players[slot] \in Player
  BY DEF Authenticate, Present, Enforced, Seats
<1>2. player \in Player /\ player.id = players[slot].id
  BY <1>1 DEF Player
<1>3. players' = [players EXCEPT ![slot] = Checked(infractions, player)]
  BY DEF Authenticate
<1> HIDE DEF player
<1>4. players'[slot] = Checked(infractions, player)
      /\ \A t \in Slots \ {slot} : players'[t] = players[t]
  BY <1>3 DEF Enforced, Seats
<1>5. \/ players'[slot] = NoPlayer
      \/ /\ players'[slot].id = players[slot].id
         /\ players'[slot].flags = FlagsAfter(infractions, player)
  BY <1>2, <1>4, CheckedKeepsTheId
<1> QED
  BY <1>1, <1>2, <1>4, <1>5 DEF player

(* The second half of a command changes the flags of the player whom it    *)
(* names.                                                                  *)
LEMMA SilenceEffect ==
  ASSUME Enforced, NEW o \in order, NEW t \in Slots,
         players' = [slot \in Slots |->
           IF slot = o.slot /\ Names(slot, o.id)
           THEN [players[slot] EXCEPT !.flags = players[slot].flags \cup {o.kind}]
           ELSE players[slot]]
  PROVE  IF t = o.slot /\ Names(t, o.id)
         THEN /\ Present(t) /\ players'[t].id = players[t].id
              /\ players'[t].flags = players[t].flags \cup {o.kind}
         ELSE players'[t] = players[t]
<1>1. CASE t = o.slot /\ Names(t, o.id)
  <2>1. Present(t) /\ players[t] \in Player
    BY <1>1 DEF Names, Present, Enforced, Seats
  <2>2. players'[t] = [players[t] EXCEPT !.flags = players[t].flags \cup {o.kind}]
    BY <1>1
  <2> QED
    BY <1>1, <2>1, <2>2, FlagsKeepTheId
<1>2. CASE ~(t = o.slot /\ Names(t, o.id))
  BY <1>2
<1> QED
  BY <1>1, <1>2

LEMMA ReleaseEffect ==
  ASSUME Enforced, NEW o \in order, NEW t \in Slots, NEW gone \in BOOLEAN,
         players' = [slot \in Slots |->
           IF slot = o.slot /\ Names(slot, o.id) /\ gone
           THEN [players[slot] EXCEPT !.flags = players[slot].flags \ {o.kind}]
           ELSE players[slot]]
  PROVE  \/ players'[t] = players[t]
         \/ /\ Names(t, o.id) /\ players'[t].id = players[t].id
            /\ players'[t].flags = players[t].flags \ {o.kind}
<1>1. CASE t = o.slot /\ Names(t, o.id) /\ gone
  <2>1. players[t] \in Player
    BY <1>1 DEF Names, Present, Enforced, Seats
  <2>2. players'[t] = [players[t] EXCEPT !.flags = players[t].flags \ {o.kind}]
    BY <1>1
  <2> QED
    BY <1>1, <2>1, <2>2, FlagsKeepTheId
<1>2. CASE ~(t = o.slot /\ Names(t, o.id) /\ gone)
  BY <1>2
<1> QED
  BY <1>1, <1>2

LEMMA CommandLeaves ==
  ASSUME Command
  PROVE  UNCHANGED <<enforcement, up, clock>>
<1>1. PICK id \in Ids, slot \in AnySlot, written \in BOOLEAN :
        \/ UnbanCommand(id, written)
        \/ \E duration \in Durations :
             \/ BanCommand(id, duration, slot, written)
             \/ \E kind \in Kinds : RestrictCommand(id, kind, duration, slot, written)
        \/ \E kind \in Kinds :
             LiftCommand(id, kind, slot, written) \/ MenuLift(id, kind, slot, written)
  BY DEF Command
<1>2. CASE UnbanCommand(id, written)
  BY <1>2 DEF UnbanCommand, DeleteBan
<1>3. ASSUME NEW duration \in Durations, BanCommand(id, duration, slot, written)
      PROVE  UNCHANGED <<enforcement, up, clock>>
  BY <1>3 DEF BanCommand, SaveBan
<1>4. ASSUME NEW duration \in Durations, NEW kind \in Kinds,
             RestrictCommand(id, kind, duration, slot, written)
      PROVE  UNCHANGED <<enforcement, up, clock>>
  BY <1>4 DEF RestrictCommand, UpsertRestriction
<1>5. ASSUME NEW kind \in Kinds, LiftCommand(id, kind, slot, written)
      PROVE  UNCHANGED <<enforcement, up, clock>>
  BY <1>5 DEF LiftCommand, RemoveRestriction
<1>6. ASSUME NEW kind \in Kinds, MenuLift(id, kind, slot, written)
      PROVE  UNCHANGED <<enforcement, up, clock>>
  <2>1. UNCHANGED enforcement /\ (RemoveRestriction(id, kind, written) \/ UNCHANGED vars)
    BY <1>6 DEF MenuLift
  <2> QED
    BY <2>1 DEF RemoveRestriction, vars
<1> QED
  BY <1>1, <1>2, <1>3, <1>4, <1>5, <1>6

LEMMA OneSeatStep ==
  ASSUME Enforced, OneSeat, [EnforcementNext]_allVars
  PROVE  OneSeat'
<1>1. ASSUME players' = players, up' = up
      PROVE  OneSeat'
  BY <1>1 DEF OneSeat, Present, NoOne
<1>2. CASE Command
  BY <1>1, <1>2, CommandLeaves DEF enforcement
<1>3. CASE Chat
  <2>1. up /\ up' = up
    BY <1>3 DEF Chat, ChatLift, ChatRestrict, ChatUnban, Idle, Handling, vars
  <2>2. ASSUME NEW slot \in Slots, NEW kind \in Kinds, ChatLift(slot, kind)
        PROVE  OneSeat'
    <3>1. \A t \in Slots : \/ players'[t] = NoPlayer
                           \/ Present(t) /\ players'[t].id = players[t].id
      BY <2>2, ChatLiftEffect DEF Present
    <3> QED
      BY <2>1, <3>1, LeavingKeepsSeats
  <2>3. ASSUME NEW slot \in Slots, NEW kind \in Topics, NEW duration \in Durations,
               ChatRestrict(slot, kind, duration)
        PROVE  OneSeat'
    <3>1. \A t \in Slots : \/ players'[t] = NoPlayer
                           \/ Present(t) /\ players'[t].id = players[t].id
      BY <2>3, ChatRestrictEffect DEF Present
    <3> QED
      BY <2>1, <3>1, LeavingKeepsSeats
  <2>4. ASSUME NEW id \in Ids, ChatUnban(id)
        PROVE  OneSeat'
    BY <1>1, <2>1, <2>4 DEF ChatUnban
  <2> QED
    BY <1>3, <2>2, <2>3, <2>4 DEF Chat
<1>4. CASE Client
  <2>1. up /\ up' = up
    BY <1>4 DEF Client, Connect, Authenticate, Disconnect, Idle, Handling, vars
  <2>2. ASSUME NEW slot \in Slots, NEW id \in Ids, NEW auth \in BOOLEAN,
               Connect(slot, id, auth), players' # players
        PROVE  OneSeat'
    <3>1. players' = [players EXCEPT ![slot] =
            [id |-> id, auth |-> auth,
             flags |-> FlagsAfter(infractions, [id |-> id, flags |-> {}])]]
      BY <2>2 DEF Connect
    <3>2. players'[slot].id = id /\ \A t \in Slots \ {slot} : players'[t] = players[t]
      BY <3>1 DEF Enforced, Seats
    <3>3. \A t \in Slots : Present(t) => players[t].id # id
      BY <2>2 DEF Connect, Online, Present
    <3> QED
      BY <2>1, <3>2, <3>3 DEF OneSeat, Present
  <2>3. ASSUME NEW slot \in Slots, Authenticate(slot)
        PROVE  OneSeat'
    <3>1. \A t \in Slots : \/ players'[t] = NoPlayer
                           \/ Present(t) /\ players'[t].id = players[t].id
      BY <2>3, AuthenticateEffect DEF Present
    <3> QED
      BY <2>1, <3>1, LeavingKeepsSeats
  <2>4. ASSUME NEW slot \in Slots, Disconnect(slot)
        PROVE  OneSeat'
    <3>1. \A t \in Slots : \/ players'[t] = NoPlayer
                           \/ Present(t) /\ players'[t].id = players[t].id
      BY <2>4 DEF Disconnect, Present, Enforced, Seats
    <3> QED
      BY <2>1, <3>1, LeavingKeepsSeats
  <2> QED
    BY <1>1, <1>4, <2>1, <2>2, <2>3, <2>4 DEF Client
<1>5. CASE CheckInfractions \/ Reload
  <2>1. up /\ up' = up
    BY <1>5 DEF CheckInfractions, Reload, Idle, Handling, vars
  <2>2. PICK list : CheckAll(list)
    BY <1>5 DEF CheckInfractions, Reload
  <2>3. players \in Seats
    BY DEF Enforced
  <2>4. \A t \in Slots : Present(t)' => Present(t) /\ players'[t].id = players[t].id
    BY <2>2, <2>3, StillThere
  <2>5. \A t \in Slots : \/ players'[t] = NoPlayer
                         \/ Present(t) /\ players'[t].id = players[t].id
    BY <2>4 DEF Present
  <2> QED
    BY <2>1, <2>5, LeavingKeepsSeats
<1>6. CASE Kick
  <2>1. up /\ up' = up
    BY <1>6 DEF Kick, vars
  <2>2. \A t \in Slots : players'[t] = players[t] \/ players'[t] = NoPlayer
    BY <1>6 DEF Kick
  <2>3. \A t \in Slots : \/ players'[t] = NoPlayer
                         \/ Present(t) /\ players'[t].id = players[t].id
    BY <2>2 DEF Present
  <2> QED
    BY <2>1, <2>3, LeavingKeepsSeats
<1>7. CASE Silence \/ Release
  <2>1. up /\ up' = up
    BY <1>7 DEF Silence, Release, RecordLift, vars
  <2>2. \A t \in Slots : \/ players'[t] = players[t]
                         \/ Present(t) /\ players'[t].id = players[t].id
    <3>1. CASE Silence
      BY <3>1, SilenceEffect DEF Silence
    <3>2. CASE Release
      <4>1. PICK o \in order : players' = [slot \in Slots |->
              IF slot = o.slot /\ Names(slot, o.id)
                 /\ Matching(infractions, o.id, o.kind) # {}
              THEN [players[slot] EXCEPT !.flags = players[slot].flags \ {o.kind}]
              ELSE players[slot]]
        BY <3>2 DEF Release
      <4> QED
        BY <4>1, ReleaseEffect DEF Names
    <3> QED
      BY <1>7, <3>1, <3>2
  <2>3. \A t \in Slots : \/ players'[t] = NoPlayer
                         \/ Present(t) /\ players'[t].id = players[t].id
    BY <2>2 DEF Present
  <2> QED
    BY <2>1, <2>3, LeavingKeepsSeats
<1>8. CASE Crash \/ Fault
  BY <1>8 DEF Crash, Fault, NoOne, OneSeat, Present
<1>9. CASE Boot
  BY <1>9 DEF Boot, Start, OneSeat, Present
<1>10. CASE (\E written \in BOOLEAN : Note(written)) \/ Pass \/ UNCHANGED allVars
  <2>1. UNCHANGED <<players, up>>
    BY <1>10 DEF Note, RecordNote, Pass, Tick, enforcement, allVars, vars
  <2> QED
    BY <1>1, <2>1
<1> QED
  BY <1>2, <1>3, <1>4, <1>5, <1>6, <1>7, <1>8, <1>9, <1>10 DEF EnforcementNext, Finish

-----------------------------------------------------------------------------
(* The second half of a command that names no slot, or one that the player *)
(* has left.                                                               *)
PastTheSlot(id, kind) ==
  /\ Silence
  /\ \E o \in order : o.id = id /\ o.kind = kind /\ ~Names(o.slot, id)

(* It is the only step after which a mute or gag that is in force has      *)
(* missed its player: not one of chat, of players who come, leave or are   *)
(* authenticated, of a timer, a reload, a restart or the passing of time   *)
(* (gamesystem.cpp:2544-2556, playermanager.cpp:945).                      *)
EscapesOnlyPastTheSlot ==
  \A id \in Ids, kind \in Kinds :
    Escapes(id, kind)' => Escapes(id, kind) \/ PastTheSlot(id, kind)

(* No new infraction, no flag less and nobody new: nothing escapes that    *)
(* did not.                                                                *)
LEMMA NothingNewEscapes ==
  ASSUME NEW id, NEW kind,
         \A n \in DOMAIN infractions' :
           infractions'[n].id = id /\ infractions'[n].kind = kind
             => \E k \in DOMAIN infractions : infractions'[n] = infractions[k],
         \A slot \in Slots : Names(slot, id)' =>
           Names(slot, id) /\ (kind \in players[slot].flags => kind \in players'[slot].flags),
         clock \in Nat, clock' \in Nat, clock <= clock',
         \A k \in DOMAIN infractions : infractions[k].until \in Nat,
         Escapes(id, kind)'
  PROVE  Escapes(id, kind)
<1>1. PICK n \in DOMAIN infractions' :
        /\ infractions'[n].id = id /\ infractions'[n].kind = kind
        /\ infractions'[n].until = 0 \/ infractions'[n].until > clock'
  BY DEF Escapes, Matching, InForce
<1>2. PICK k \in DOMAIN infractions : infractions'[n] = infractions[k]
  BY <1>1
<1>3. k \in Matching(infractions, id, kind) /\ InForce(infractions[k])
  <2>1. infractions[k].until \in Nat
    OBVIOUS
  <2> QED
    BY <1>1, <1>2, <2>1 DEF Matching, InForce
<1>4. PICK slot \in Slots : Names(slot, id)' /\ kind \notin players'[slot].flags
  BY DEF Escapes
<1> QED
  BY <1>3, <1>4 DEF Escapes

(* Nothing escapes of a player whose flags were just set by the list.      *)
LEMMA NothingEscapesAfterFlags ==
  ASSUME SoundList(infractions), NEW id, NEW kind \in Kinds, NEW player, player.id = id,
         \A n \in DOMAIN infractions' :
           \E k \in DOMAIN infractions : infractions'[n] = infractions[k],
         \A slot \in Slots : Names(slot, id)' =>
           players'[slot].flags = FlagsAfter(infractions, player),
         clock' = clock
  PROVE  ~Escapes(id, kind)'
<1> SUFFICES ASSUME Escapes(id, kind)' PROVE FALSE
  OBVIOUS
<1>1. PICK n \in DOMAIN infractions' :
        infractions'[n].id = id /\ infractions'[n].kind = kind /\ InForce(infractions'[n])
  BY DEF Escapes, Matching, InForce
<1>2. PICK k \in DOMAIN infractions : infractions'[n] = infractions[k]
  OBVIOUS
<1>3. k \in Matching(infractions, player.id, kind) /\ InForce(infractions[k])
  BY <1>1, <1>2 DEF Matching
<1>4. kind \in FlagsAfter(infractions, player)
  BY <1>3, FlagsTold
<1> QED
  BY <1>4 DEF Escapes

LEMMA EscapeStep ==
  ASSUME TypeOK, TypeOK', OrderSound, Enforced, OneSeat, [EnforcementNext]_allVars
  PROVE  EscapesOnlyPastTheSlot
<1> SUFFICES ASSUME NEW id \in Ids, NEW kind \in Kinds, Escapes(id, kind)'
             PROVE  Escapes(id, kind) \/ PastTheSlot(id, kind)
  BY DEF EscapesOnlyPastTheSlot
<1> DEFINE Entries == \A n \in DOMAIN infractions' :
             infractions'[n].id = id /\ infractions'[n].kind = kind
               => \E k \in DOMAIN infractions : infractions'[n] = infractions[k]
           Flags == \A slot \in Slots : Names(slot, id)' =>
             Names(slot, id) /\ (kind \in players[slot].flags => kind \in players'[slot].flags)
<1>0. /\ SoundList(infractions) /\ SoundList(file) /\ players \in Seats
      /\ kind \in Topics
  BY DEF Enforced, Topics
<1>1. \A k \in DOMAIN infractions : infractions[k].until \in Nat
  <2>1. infractions \in Seq(Infraction)
    BY <1>0 DEF SoundList
  <2>2. \A k \in DOMAIN infractions : infractions[k] \in Infraction
    BY <2>1, ElementOfSeq, LenProperties
  <2> QED
    BY <2>2 DEF Infraction
<1>2. clock \in Nat /\ clock' \in Nat
  BY MaximaAssumption DEF TypeOK
<1>3. ASSUME Entries, Flags, clock <= clock'
      PROVE  Escapes(id, kind)
  BY <1>1, <1>2, <1>3, NothingNewEscapes
<1>4. ASSUME infractions' = infractions, Flags, clock' = clock \/ clock' = clock + 1
      PROVE  Escapes(id, kind)
  BY <1>2, <1>3, <1>4
<1>5. players' = players => Flags
  BY DEF Names, Present
<1>6. infractions' = infractions => Entries
  OBVIOUS
<1>7. clock' = clock => clock <= clock'
  BY <1>2
<1>8. Matching(infractions, id, kind)' # {}
  BY DEF Escapes
<1>9. PICK seat \in Slots : Names(seat, id)' /\ kind \notin players'[seat].flags
  BY DEF Escapes
<1> HIDE DEF Entries
<1>10. CASE Command
  BY <1>4, <1>5, <1>10, CommandLeaves DEF enforcement
<1>11. CASE Chat
  <2>1. clock' = clock
    BY <1>11 DEF Chat, ChatLift, ChatRestrict, ChatUnban, vars
  <2>2. ASSUME NEW slot \in Slots, NEW what \in Kinds, ChatLift(slot, what)
        PROVE  Escapes(id, kind)
    <3>1. /\ infractions' = Without(infractions, players[slot].id, what)
          /\ Matching(infractions', players[slot].id, what) = {}
          /\ \A j \in DOMAIN infractions' : \E k \in DOMAIN infractions :
               infractions'[j] = infractions[k]
      BY <1>0, <2>2, WithoutSound DEF ChatLift
    <3>2. players[slot].id # id \/ what # kind
      BY <1>8, <3>1 DEF Matching
    <3>3. Flags
      BY <2>2, <3>2, ChatLiftEffect DEF Names, Present
    <3> QED
      BY <1>3, <1>7, <2>1, <3>1, <3>3 DEF Entries
  <2>3. ASSUME NEW slot \in Slots, NEW what \in Topics, NEW duration \in Durations,
               ChatRestrict(slot, what, duration)
        PROVE  Escapes(id, kind)
    <3>1. /\ Present(slot) /\ players[slot].id \in Ids /\ duration \in Nat
          /\ infractions' = With(infractions, players[slot].id, what, duration)
      <4>1. players[slot] \in Player
        BY <2>3, ChatRestrictEffect
      <4> QED
        BY <2>3, <4>1, DurationsAssumption DEF ChatRestrict, Player
    <3>2. \A n \in DOMAIN infractions' :
            \/ \E k \in DOMAIN infractions : infractions'[n] = infractions[k]
            \/ infractions'[n].id = players[slot].id /\ infractions'[n].kind = what
      BY <1>0, <3>1, WithSound
    <3>3. Flags
      BY <2>3, ChatRestrictEffect DEF Names, Present
    <3>4. players[slot].id # id \/ what # kind
      <4> SUFFICES ASSUME players[slot].id = id, what = kind PROVE FALSE
        OBVIOUS
      <4>1. Names(seat, id)
        BY <1>9, <3>3
      <4>2. seat = slot
        BY <3>1, <4>1 DEF OneSeat, Names
      <4> QED
        BY <1>9, <2>3, <4>2, ChatRestrictEffect DEF Names, Present
    <3>5. Entries
      BY <3>2, <3>4 DEF Entries
    <3> QED
      BY <1>3, <1>7, <2>1, <3>3, <3>5
  <2>4. ASSUME NEW who \in Ids, ChatUnban(who)
        PROVE  Escapes(id, kind)
    <3>1. \A j \in DOMAIN infractions' : \E k \in DOMAIN infractions :
            infractions'[j] = infractions[k]
      BY <1>0, <2>4, WithoutSound DEF ChatUnban
    <3> QED
      BY <1>3, <1>5, <1>7, <2>1, <2>4, <3>1 DEF ChatUnban, Entries
  <2> QED
    BY <1>11, <2>2, <2>3, <2>4 DEF Chat
<1>12. CASE Client
  <2>1. clock' = clock
    BY <1>12 DEF Client, Connect, Authenticate, Disconnect, vars
  <2>2. ASSUME NEW slot \in Slots, NEW who \in Ids, NEW auth \in BOOLEAN,
               Connect(slot, who, auth)
        PROVE  Escapes(id, kind)
    <3> DEFINE player == [id |-> who, flags |-> {}]
               new == [id |-> who, auth |-> auth, flags |-> FlagsAfter(infractions, player)]
    <3>1. \A n \in DOMAIN infractions' : \E k \in DOMAIN infractions :
            infractions'[n] = infractions[k]
      <4>1. \/ infractions' = TurnedAway(infractions, who)
            \/ infractions' = Expiring(infractions, {who})
        BY <2>2 DEF Connect
      <4> QED
        BY <1>0, <4>1, TurnedAwayKeeps, ExpiringKeeps
    <3>2. players' = players \/ players' = [players EXCEPT ![slot] = new]
      BY <2>2 DEF Connect
    <3>3. CASE players' = players
      BY <1>3, <1>5, <1>7, <2>1, <3>1, <3>3 DEF Entries
    <3>4. CASE players' = [players EXCEPT ![slot] = new]
      <4>1. new.id = who /\ new.flags = FlagsAfter(infractions, player) /\ player.id = who
        OBVIOUS
      <4> HIDE DEF new, player
      <4>2. players'[slot] = new /\ \A t \in Slots \ {slot} : players'[t] = players[t]
        BY <1>0, <3>4 DEF Seats
      <4>3. CASE who = id
        <5>1. \A t \in Slots : Present(t) => players[t].id # who
          BY <2>2 DEF Connect, Online, Present
        <5>2. \A t \in Slots : Names(t, id)' =>
                players'[t].flags = FlagsAfter(infractions, player)
          BY <4>1, <4>2, <4>3, <5>1 DEF Names, Present
        <5>3. ~Escapes(id, kind)'
          BY <1>0, <2>1, <3>1, <4>1, <4>3, <5>2, NothingEscapesAfterFlags
        <5> QED
          BY <5>3
      <4>4. CASE who # id
        <5>1. Flags
          BY <4>1, <4>2, <4>4 DEF Names, Present
        <5> QED
          BY <1>3, <1>7, <2>1, <3>1, <5>1 DEF Entries
      <4> QED
        BY <4>3, <4>4
    <3> QED
      BY <3>2, <3>3, <3>4
  <2>3. ASSUME NEW slot \in Slots, Authenticate(slot)
        PROVE  Escapes(id, kind)
    <3> DEFINE player == [players[slot] EXCEPT !.auth = TRUE]
    <3>1. \A n \in DOMAIN infractions' : \E k \in DOMAIN infractions :
            infractions'[n] = infractions[k]
      BY <1>0, <2>3, ExpiringKeeps DEF Authenticate
    <3>2. /\ Present(slot) /\ player.id = players[slot].id
          /\ \/ players'[slot] = NoPlayer
             \/ /\ players'[slot].id = players[slot].id
                /\ players'[slot].flags = FlagsAfter(infractions, player)
          /\ \A t \in Slots \ {slot} : players'[t] = players[t]
      BY <2>3, AuthenticateEffect
    <3> HIDE DEF player
    <3>3. CASE players[slot].id = id
      <4>1. \A t \in Slots : Names(t, id)' =>
              players'[t].flags = FlagsAfter(infractions, player)
        <5> SUFFICES ASSUME NEW t \in Slots, Names(t, id)'
                     PROVE  players'[t].flags = FlagsAfter(infractions, player)
          OBVIOUS
        <5>1. t = slot
          BY <3>2, <3>3 DEF Names, Present, OneSeat
        <5> QED
          BY <3>2, <5>1 DEF Names, Present
      <4>2. ~Escapes(id, kind)'
        BY <1>0, <2>1, <3>1, <3>2, <3>3, <4>1, NothingEscapesAfterFlags
      <4> QED
        BY <4>2
    <3>4. CASE players[slot].id # id
      <4>1. Flags
        BY <3>2, <3>4 DEF Names, Present
      <4> QED
        BY <1>3, <1>7, <2>1, <3>1, <4>1 DEF Entries
    <3> QED
      BY <3>3, <3>4
  <2>4. ASSUME NEW slot \in Slots, Disconnect(slot)
        PROVE  Escapes(id, kind)
    <3>1. infractions' = infractions /\ Flags
      BY <1>0, <2>4 DEF Disconnect, Names, Present, Seats
    <3> QED
      BY <1>4, <2>1, <3>1
  <2> QED
    BY <1>12, <2>2, <2>3, <2>4 DEF Client
<1>13. CASE CheckInfractions \/ Reload
  <2>1. clock' = clock /\ (CheckAll(infractions) \/ CheckAll(file))
    BY <1>13 DEF CheckInfractions, Reload, vars
  <2>2. AllEnforced'
    BY <1>0, <2>1, CheckAllEnforces
  <2> QED
    BY <2>2 DEF AllEnforced
<1>14. CASE Kick
  <2>1. infractions' = infractions /\ clock' = clock
    BY <1>14 DEF Kick, vars
  <2>2. \A t \in Slots : players'[t] = players[t] \/ players'[t] = NoPlayer
    BY <1>14 DEF Kick
  <2>3. Flags
    BY <2>2 DEF Names, Present
  <2> QED
    BY <1>4, <2>1, <2>3
<1>15. CASE Silence
  <2>1. PICK o \in order :
          /\ infractions' = With(infractions, o.id, o.kind, o.duration)
          /\ players' = [slot \in Slots |->
               IF slot = o.slot /\ Names(slot, o.id)
               THEN [players[slot] EXCEPT !.flags = players[slot].flags \cup {o.kind}]
               ELSE players[slot]]
    BY <1>15 DEF Silence
  <2>2. clock' = clock
    BY <1>15 DEF Silence, vars
  <2>3. o.id \in Ids /\ o.kind \in Topics /\ o.duration \in Nat
    BY DEF Enforced, Order
  <2>4. \A n \in DOMAIN infractions' :
          \/ \E k \in DOMAIN infractions : infractions'[n] = infractions[k]
          \/ infractions'[n].id = o.id /\ infractions'[n].kind = o.kind
    BY <1>0, <2>1, <2>3, WithSound
  <2>5. \A t \in Slots :
          IF t = o.slot /\ Names(t, o.id)
          THEN /\ Present(t) /\ players'[t].id = players[t].id
               /\ players'[t].flags = players[t].flags \cup {o.kind}
          ELSE players'[t] = players[t]
    BY <2>1, SilenceEffect
  <2>6. Flags
    BY <2>5 DEF Names, Present
  <2>7. CASE o.id = id /\ o.kind = kind
    <3>1. CASE Names(o.slot, id)
      <4>1. seat = o.slot
        BY <1>9, <2>6, <3>1 DEF OneSeat, Names, Present
      <4>2. FALSE
        BY <1>9, <2>5, <2>7, <3>1, <4>1
      <4> QED
        BY <4>2
    <3>2. CASE ~Names(o.slot, id)
      BY <1>15, <2>7, <3>2 DEF PastTheSlot
    <3> QED
      BY <3>1, <3>2
  <2>8. CASE ~(o.id = id /\ o.kind = kind)
    <3>1. Entries
      BY <2>4, <2>8 DEF Entries
    <3> QED
      BY <1>3, <1>7, <2>2, <2>6, <3>1
  <2> QED
    BY <2>7, <2>8
<1>16. CASE Release
  <2>1. PICK o \in order :
          /\ infractions' = Without(infractions, o.id, o.kind)
          /\ players' = [slot \in Slots |->
               IF slot = o.slot /\ Names(slot, o.id) /\ Matching(infractions, o.id, o.kind) # {}
               THEN [players[slot] EXCEPT !.flags = players[slot].flags \ {o.kind}]
               ELSE players[slot]]
    BY <1>16 DEF Release
  <2>2. clock' = clock
    BY <1>16 DEF Release, RecordLift, vars
  <2>3. /\ Matching(infractions', o.id, o.kind) = {}
        /\ \A j \in DOMAIN infractions' : \E k \in DOMAIN infractions :
             infractions'[j] = infractions[k]
    BY <1>0, <2>1, WithoutSound
  <2>4. o.id # id \/ o.kind # kind
    BY <1>8, <2>3 DEF Matching
  <2>5. \A t \in Slots :
          \/ players'[t] = players[t]
          \/ /\ Names(t, o.id) /\ players'[t].id = players[t].id
             /\ players'[t].flags = players[t].flags \ {o.kind}
    BY <2>1, ReleaseEffect
  <2>6. Flags
    BY <2>4, <2>5 DEF Names, Present
  <2> QED
    BY <1>3, <1>7, <2>2, <2>3, <2>6 DEF Entries
<1>17. CASE Crash \/ Fault
  BY <1>9, <1>17 DEF Crash, Fault, NoOne, Names, Present
<1>18. CASE Boot
  <2>1. players' = NoOne
    BY <1>18 DEF Boot, Start, OneSeat
  <2> QED
    BY <1>9, <2>1 DEF NoOne, Names, Present
<1>19. CASE (\E written \in BOOLEAN : Note(written)) \/ Pass \/ UNCHANGED allVars
  <2>1. UNCHANGED enforcement /\ (clock' = clock \/ clock' = clock + 1)
    BY <1>19 DEF Note, RecordNote, Pass, Tick, enforcement, allVars, vars
  <2> QED
    BY <1>4, <1>5, <2>1 DEF enforcement
<1> QED
  BY <1>10, <1>11, <1>12, <1>13, <1>14, <1>15, <1>16, <1>17, <1>18, <1>19
     DEF EnforcementNext, Finish

LEMMA SeatsAndTypes == EnforcementSpec => [](Enforced /\ OneSeat /\ OrderSound /\ TypeOK)
<1>1. EnforcementInit => Enforced /\ OrderSound /\ OneSeat
  BY EmptySeq DEF EnforcementInit, NoOne, Enforced, Seats, SoundList, OnePerKind, OrderSound,
                  OneSeat, Present
<1>2. TypeOK /\ OrderSound /\ Enforced /\ [EnforcementNext]_allVars => Enforced'
  BY EnforcedStep
<1>3. Enforced /\ OneSeat /\ [EnforcementNext]_allVars => OneSeat'
  BY OneSeatStep
<1>4. EnforcementSpec => []TypeOK
  BY EnforcementKeepsModeration, ModerationTypeCorrect, PTL
<1> QED
  BY <1>1, <1>2, <1>3, <1>4, OrderStaysSound, PTL DEF EnforcementSpec

(* So in every execution.  Together with OnePassEnforces: a player is      *)
(* missed from the end of such a command to the next pass of the timer at  *)
(* the latest.                                                             *)
THEOREM OnlyAbsenceEscapes == EnforcementSpec => [][EscapesOnlyPastTheSlot]_allVars
<1>1. /\ Enforced /\ OneSeat /\ OrderSound /\ TypeOK /\ TypeOK' /\ [EnforcementNext]_allVars
      => EscapesOnlyPastTheSlot
  BY EscapeStep
<1> QED
  BY <1>1, SeatsAndTypes, PTL DEF EnforcementSpec

-----------------------------------------------------------------------------
(* What is in force ends before its time only by a request that names it,  *)
(* and nothing is in force that no request asked for: not by the writes    *)
(* for other players, which drop what has expired, not by a write that     *)
(* failed, a full list, a restart or the line of history that is written   *)
(* after a ban.  It depends on memory being what is on disk, since every   *)
(* write replaces the whole document (bans.cpp:173-229, discipline.cpp:    *)
(* 211-308).                                                               *)
EndsByRequest ==
  /\ \A b \in banDoc : InForce(b) /\ b \notin banDoc' =>
       \/ \E duration \in Durations : SaveBan(b.id, duration, TRUE)
       \/ DeleteBan(b.id, TRUE)
  /\ \A r \in disciplineDoc.restrictions : InForce(r) /\ r \notin disciplineDoc'.restrictions =>
       \/ \E duration \in Durations : UpsertRestriction(r.id, r.kind, duration, TRUE)
       \/ RemoveRestriction(r.id, r.kind, TRUE)

BeginsByRequest ==
  /\ \A b \in banDoc' \ banDoc : \E duration \in Durations :
       SaveBan(b.id, duration, TRUE) /\ b.until = Until(duration)
  /\ \A r \in disciplineDoc'.restrictions \ disciplineDoc.restrictions :
       \E duration \in Durations :
         UpsertRestriction(r.id, r.kind, duration, TRUE) /\ r.until = Until(duration)

(* The four requests that write a document.                                *)
LEMMA BansChangedByRequest ==
  ASSUME IInv, NEW id \in Ids, NEW written \in BOOLEAN,
         \/ \E duration \in Durations : SaveBan(id, duration, written)
         \/ DeleteBan(id, written)
  PROVE  EndsByRequest /\ BeginsByRequest
<1>1. up /\ bans = banDoc /\ disciplineDoc' = disciplineDoc
  BY DEF IInv, StoresMirrorDisk, SaveBan, DeleteBan, Handling
<1>2. CASE ~written
  BY <1>1, <1>2 DEF SaveBan, DeleteBan, SaveBans, EndsByRequest, BeginsByRequest
<1>3. CASE written
  <2>1. written = TRUE
    BY <1>3
  <2>2. ASSUME NEW duration \in Durations, SaveBan(id, duration, TRUE)
        PROVE  EndsByRequest /\ BeginsByRequest
    <3> DEFINE ban == [id |-> id, until |-> Until(duration)]
    <3>1. banDoc' = OtherBans(id) \cup {ban}
      BY <2>2 DEF SaveBan, SaveBans
    <3>2. ban.id = id /\ ban.until = Until(duration)
      OBVIOUS
    <3> HIDE DEF ban
    <3>3. \A b \in banDoc : InForce(b) /\ b \notin banDoc' => b.id = id
      BY <1>1, <3>1 DEF OtherBans, Live
    <3>4. \A b \in banDoc' \ banDoc : b = ban
      BY <1>1, <3>1 DEF OtherBans, Live
    <3> QED
      BY <1>1, <2>2, <3>2, <3>3, <3>4 DEF EndsByRequest, BeginsByRequest
  <2>3. ASSUME DeleteBan(id, TRUE)
        PROVE  EndsByRequest /\ BeginsByRequest
    <3>1. PICK b \in bans : b.id = id /\ banDoc' = bans \ {b}
      BY <2>3 DEF DeleteBan, SaveBans
    <3> QED
      BY <1>1, <2>3, <3>1 DEF EndsByRequest, BeginsByRequest
  <2> QED
    BY <2>1, <2>2, <2>3
<1> QED
  BY <1>2, <1>3

LEMMA RestrictionsChangedByRequest ==
  ASSUME IInv, NEW id \in Ids, NEW kind \in Kinds, NEW written \in BOOLEAN,
         \/ \E duration \in Durations : UpsertRestriction(id, kind, duration, written)
         \/ RemoveRestriction(id, kind, written)
  PROVE  EndsByRequest /\ BeginsByRequest
<1>1. /\ banDoc' = banDoc
      /\ restrictions \subseteq disciplineDoc.restrictions
      /\ \A r \in disciplineDoc.restrictions : InForce(r) => r \in restrictions
  BY DEF IInv, StoresMirrorDisk, UpsertRestriction, RemoveRestriction, Handling
<1>2. CASE disciplineDoc' = disciplineDoc
  BY <1>1, <1>2 DEF EndsByRequest, BeginsByRequest
<1>3. ASSUME NEW duration \in Durations, UpsertRestriction(id, kind, duration, written),
             disciplineDoc' # disciplineDoc
      PROVE  EndsByRequest /\ BeginsByRequest
  <2> DEFINE new == [id |-> id, kind |-> kind, until |-> Until(duration)]
             line == [id |-> id, topic |-> kind, on |-> TRUE, until |-> Until(duration)]
  <2>1. /\ MayRestrict(id, kind) /\ written
        /\ disciplineDoc' = [restrictions |-> OtherRestrictions(id, kind) \cup {new},
                             history |-> Lengthened(line)]
    BY <1>3 DEF UpsertRestriction, SaveDiscipline
  <2>2. disciplineDoc'.restrictions = OtherRestrictions(id, kind) \cup {new}
    BY <2>1
  <2>3. new.id = id /\ new.kind = kind /\ new.until = Until(duration) /\ written = TRUE
    BY <2>1
  <2> HIDE DEF new, line
  <2>4. \A r \in disciplineDoc.restrictions :
          InForce(r) /\ r \notin disciplineDoc'.restrictions => r.id = id /\ r.kind = kind
    BY <1>1, <2>2 DEF OtherRestrictions, Live
  <2>5. \A r \in disciplineDoc'.restrictions \ disciplineDoc.restrictions : r = new
    BY <1>1, <2>2 DEF OtherRestrictions, Live
  <2> QED
    BY <1>1, <1>3, <2>3, <2>4, <2>5 DEF EndsByRequest, BeginsByRequest
<1>4. ASSUME RemoveRestriction(id, kind, written), disciplineDoc' # disciplineDoc
      PROVE  EndsByRequest /\ BeginsByRequest
  <2>1. /\ written
        /\ disciplineDoc' = [restrictions |-> restrictions \ Found(id, kind),
                             history |-> Lengthened(LiftLine(id, kind))]
    BY <1>4 DEF RemoveRestriction, SaveDiscipline
  <2>2. disciplineDoc'.restrictions = restrictions \ Found(id, kind) /\ written = TRUE
    BY <2>1
  <2>3. \A r \in disciplineDoc.restrictions :
          InForce(r) /\ r \notin disciplineDoc'.restrictions => r.id = id /\ r.kind = kind
    BY <1>1, <2>2 DEF Found
  <2>4. disciplineDoc'.restrictions \subseteq disciplineDoc.restrictions
    BY <1>1, <2>2
  <2> QED
    BY <1>1, <1>4, <2>2, <2>3, <2>4 DEF EndsByRequest, BeginsByRequest
<1> QED
  BY <1>2, <1>3, <1>4

(* A line of history is written with the restrictions as they are.         *)
LEMMA HistoryChangesNothing ==
  ASSUME IInv, up, NEW line, NEW written,
         SaveDiscipline(restrictions, restrictions, line, written), banDoc' = banDoc
  PROVE  EndsByRequest /\ BeginsByRequest
<1>1. /\ restrictions \subseteq disciplineDoc.restrictions
      /\ \A r \in disciplineDoc.restrictions : InForce(r) => r \in restrictions
  BY DEF IInv, StoresMirrorDisk
<1>2. \/ disciplineDoc' = disciplineDoc
      \/ disciplineDoc' = [restrictions |-> restrictions, history |-> Lengthened(line)]
  BY DEF SaveDiscipline
<1>3. disciplineDoc' = disciplineDoc \/ disciplineDoc'.restrictions = restrictions
  BY <1>2
<1> QED
  BY <1>1, <1>3 DEF EndsByRequest, BeginsByRequest

(* So it is in every execution of the stores.                              *)
THEOREM NoCollateralLift == Spec => [][EndsByRequest /\ BeginsByRequest]_vars
<1>1. ASSUME IInv, [Next]_vars
      PROVE  EndsByRequest /\ BeginsByRequest
  <2>1. ASSUME UNCHANGED documents
        PROVE  EndsByRequest /\ BeginsByRequest
    BY <2>1 DEF documents, EndsByRequest, BeginsByRequest
  <2>2. CASE Request
    <3>1. PICK id \in Ids, written \in BOOLEAN :
            \/ \E duration \in Durations :
                 \/ SaveBan(id, duration, written)
                 \/ \E kind \in Kinds : UpsertRestriction(id, kind, duration, written)
            \/ DeleteBan(id, written)
            \/ \E kind \in Kinds :
                 RemoveRestriction(id, kind, written) \/ RecordLift(id, kind, written)
      BY <2>2 DEF Request
    <3>2. ASSUME NEW kind \in Kinds, RecordLift(id, kind, written)
          PROVE  EndsByRequest /\ BeginsByRequest
      <4>1. /\ up /\ banDoc' = banDoc
            /\ SaveDiscipline(restrictions, restrictions, LiftLine(id, kind), written)
        BY <3>2 DEF RecordLift, Handling
      <4> QED
        BY <1>1, <4>1, HistoryChangesNothing
    <3> QED
      BY <1>1, <3>1, <3>2, BansChangedByRequest, RestrictionsChangedByRequest
  <2>3. ASSUME NEW written \in BOOLEAN, RecordNote(written)
        PROVE  EndsByRequest /\ BeginsByRequest
    <3>1. PICK line \in note :
            SaveDiscipline(restrictions, restrictions, line, Recordable(line) /\ written)
      BY <2>3 DEF RecordNote
    <3>2. up /\ banDoc' = banDoc
      BY <2>3 DEF RecordNote
    <3> QED
      BY <1>1, <3>1, <3>2, HistoryChangesNothing
  <2>4. CASE Start \/ Halt \/ Tick \/ UNCHANGED vars
    BY <2>1, <2>4 DEF Start, Halt, Tick, vars
  <2> QED
    BY <1>1, <2>2, <2>3, <2>4 DEF Next
<1> QED
  BY <1>1, InitImpliesIInv, NextKeepsIInv, PTL DEF Spec

(* And in every execution of the server: neither the menu, nor a command   *)
(* from far, nor chat, nor the timer lifts a ban or a restriction by the   *)
(* way.                                                                    *)
THEOREM NoCollateralLiftByCommands ==
  EnforcementSpec => [][EndsByRequest /\ BeginsByRequest]_vars
BY EnforcementKeepsModeration, NoCollateralLift, PTL

=============================================================================
