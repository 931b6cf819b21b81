-------------------------- MODULE OperationsProofs --------------------------
(***************************************************************************)
(* What the operations store guarantees for every set of maps and texts,   *)
(* every limit, interval and grace period, and any number of entries.      *)
(***************************************************************************)
EXTENDS Operations, SequenceLemmas, FiniteSetTheorems,
        WellFoundedInduction

-----------------------------------------------------------------------------
(* The inductive invariant.                                                *)

(* A document that Load would neither refuse nor change: the index lies in *)
(* the rotation, and the IDs of each list are distinct and all below the   *)
(* next one.                                                               *)
Sound(doc) ==
  /\ doc \in Document
  /\ Loadable(doc)
  /\ IF doc.rotation = <<>> THEN doc.index = 0 ELSE doc.index < Len(doc.rotation)
  /\ \A list \in Lists : \A i, j \in 1..Len(doc[list]) :
       /\ doc[list][i].id < doc.nextId
       /\ doc[list][i].id = doc[list][j].id => i = j

(* Every entry of new is one of old, perhaps moved to a later time.        *)
Later(new, old) ==
  \A list \in Lists : \A e \in Entries(new, list) :
    \E d \in Entries(old, list) : d.id = e.id /\ d.what = e.what /\ d.when <= e.when

(* The turns that must not come again.                                     *)
Spent == (done \cup due) \ excused

(* The document agrees with the history: its entries are what their IDs    *)
(* were given to, later entries get IDs of their own, and no spent turn    *)
(* can be taken from it.                                                   *)
Recorded(doc, given, spent) ==
  /\ Sound(doc)
  /\ AllEntries(doc) \subseteq given
  /\ \A a \in given : a.id < doc.nextId
  /\ \A t \in spent :
       /\ t.id < doc.nextId
       /\ \A e \in Entries(doc, t.list) : e.id = t.id => t.when < e.when

DocumentsAgree ==
  /\ disk = NoDocument => issued = {} /\ done = {} /\ due = {}
  /\ disk # NoDocument => Recorded(disk, issued, Spent)
  /\ step = "down" => ops = Empty
  /\ step # "down" => /\ disk # NoDocument
                      /\ Sound(ops)
                      /\ ops.nextId = disk.nextId
                      /\ Later(ops, disk)
                      /\ lagging \/ ops = disk

IInv ==
  /\ TypeOK
  /\ DocumentsAgree
  /\ \A a, b \in issued : a.id = b.id => a = b
  /\ NothingTwice

-----------------------------------------------------------------------------
(* Facts about documents and their lists.                                  *)

LEMMA ListTypes ==
  ASSUME NEW doc \in Document, NEW list \in Lists
  PROVE  /\ doc[list] \in Seq(Entry(list))
         /\ Len(doc[list]) \in Nat
         /\ DOMAIN doc[list] = 1..Len(doc[list])
         /\ \A i \in 1..Len(doc[list]) :
              doc[list][i] \in Entry(list) /\ doc[list][i] \in Entries(doc, list)
         /\ \A e \in Entries(doc, list) : \E i \in 1..Len(doc[list]) : e = doc[list][i]
         /\ \A e \in Entries(doc, list) : e \in Entry(list)
<1>1. doc[list] \in Seq(Entry(list))
  <2>1. CASE list = "maps"
    BY <2>1 DEF Document
  <2>2. CASE list = "announcements"
    BY <2>2 DEF Document
  <2> QED BY <2>1, <2>2 DEF Lists
<1>2. Len(doc[list]) \in Nat /\ DOMAIN doc[list] = 1..Len(doc[list])
  BY <1>1, LenProperties
<1>3. \A i \in 1..Len(doc[list]) : doc[list][i] \in Entry(list)
  BY <1>1, ElementOfSeq
<1> QED
  BY <1>1, <1>2, <1>3 DEF Entries, ToSet

(* The effect of an operation on one of the lists and the next ID.         *)
Put(doc, list, s, n) == [doc EXCEPT ![list] = s, !.nextId = n]

LEMMA PutFacts ==
  ASSUME NEW doc \in Document, NEW list \in Lists, NEW s \in Seq(Entry(list)),
         NEW n \in Nat \ {0}
  PROVE  /\ Put(doc, list, s, n) \in Document
         /\ Put(doc, list, s, n)[list] = s
         /\ \A other \in Lists : other # list => Put(doc, list, s, n)[other] = doc[other]
         /\ Put(doc, list, s, n).rotation = doc.rotation
         /\ Put(doc, list, s, n).index = doc.index
         /\ Put(doc, list, s, n).nextId = n
<1>1. CASE list = "maps"
  BY <1>1 DEF Put, Document, Lists
<1>2. CASE list = "announcements"
  BY <1>2 DEF Put, Document, Lists
<1> QED
  BY <1>1, <1>2 DEF Lists

(* Taking back what Put did.                                               *)
LEMMA PutBack ==
  ASSUME NEW doc \in Document, NEW list \in Lists, NEW s, NEW n
  PROVE  /\ Put(Put(doc, list, s, n), list, doc[list], doc.nextId) = doc
         /\ Put(doc, list, doc[list], doc.nextId) = doc
<1>1. CASE list = "maps"
  BY <1>1 DEF Put, Document
<1>2. CASE list = "announcements"
  BY <1>2 DEF Put, Document
<1> QED
  BY <1>1, <1>2 DEF Lists

LEMMA SoundEmpty ==
  Sound(Empty) /\ AllEntries(Empty) = {} /\ \A list \in Lists : Entries(Empty, list) = {}
<1>1. Empty \in Document
  BY EmptySeq DEF Empty, Document
<1>2. \A list \in Lists : Empty[list] = <<>>
  BY DEF Empty, Lists
<1>3. Len(<<>>) = 0 /\ Empty.rotation = <<>> /\ Empty.index = 0
  BY EmptySeq DEF Empty
<1>4. Loadable(Empty)
  BY <1>2, <1>3, LimitsAssumption DEF Loadable
<1>5. \A list \in Lists : 1..Len(Empty[list]) = {}
  BY <1>2, <1>3
<1>6. Sound(Empty)
  BY <1>1, <1>3, <1>4, <1>5 DEF Sound
<1>7. \A list \in Lists : Entries(Empty, list) = {}
  BY <1>1, <1>5, ListTypes
<1> QED
  BY <1>6, <1>7 DEF AllEntries, Identities

(* Later is a preorder.                                                    *)
LEMMA LaterReflexive ==
  ASSUME NEW doc \in Document
  PROVE  Later(doc, doc)
<1>1. ASSUME NEW list \in Lists, NEW e \in Entries(doc, list)
      PROVE  e.when <= e.when
  <2>1. e \in Entry(list)
    BY ListTypes
  <2> QED BY <2>1 DEF Entry
<1> QED
  BY <1>1 DEF Later

LEMMA LaterTransitive ==
  ASSUME NEW a \in Document, NEW b \in Document, NEW c \in Document,
         Later(a, b), Later(b, c)
  PROVE  Later(a, c)
<1> SUFFICES ASSUME NEW list \in Lists, NEW e \in Entries(a, list)
             PROVE  \E d \in Entries(c, list) :
                      d.id = e.id /\ d.what = e.what /\ d.when <= e.when
  BY DEF Later
<1>1. PICK f \in Entries(b, list) : f.id = e.id /\ f.what = e.what /\ f.when <= e.when
  BY DEF Later
<1>2. PICK d \in Entries(c, list) : d.id = f.id /\ d.what = f.what /\ d.when <= f.when
  BY DEF Later
<1>3. e.when \in Nat /\ f.when \in Nat /\ d.when \in Nat
  <2>1. e \in Entry(list) /\ f \in Entry(list) /\ d \in Entry(list)
    BY ListTypes
  <2> QED BY <2>1 DEF Entry
<1> QED
  BY <1>1, <1>2, <1>3

(* A later version of a recorded document is recorded.                     *)
LEMMA RecordedLater ==
  ASSUME NEW old, NEW new, NEW given, NEW spent \in SUBSET Turn,
         Recorded(old, given, spent), Sound(new), Later(new, old), new.nextId = old.nextId
  PROVE  Recorded(new, given, spent)
<1>0. old \in Document /\ new \in Document
  BY DEF Recorded, Sound
<1>1. ASSUME NEW x \in AllEntries(new) PROVE x \in AllEntries(old)
  <2>0. PICK list \in Lists : x \in Identities(new, list)
    BY DEF AllEntries
  <2>A. PICK e \in Entries(new, list) : x = [list |-> list, id |-> e.id, what |-> e.what]
    BY <2>0 DEF Identities
  <2>1. PICK d \in Entries(old, list) : d.id = e.id /\ d.what = e.what
    BY DEF Later
  <2>2. x \in Identities(old, list)
    BY <2>A, <2>1 DEF Identities
  <2> QED BY <2>2 DEF AllEntries
<1>2. ASSUME NEW t \in spent, NEW e \in Entries(new, t.list), e.id = t.id
      PROVE  t.when < e.when
  <2>1. t.list \in Lists /\ t.when \in Nat
    BY DEF Turn
  <2>2. PICK d \in Entries(old, t.list) : d.id = e.id /\ d.when <= e.when
    BY <2>1 DEF Later
  <2>3. t.when < d.when
    BY <1>2, <2>2 DEF Recorded
  <2>4. d.when \in Nat /\ e.when \in Nat
    <3>1. d \in Entry(t.list) /\ e \in Entry(t.list)
      BY <1>0, <2>1, ListTypes
    <3> QED BY <3>1 DEF Entry
  <2> QED BY <2>1, <2>2, <2>3, <2>4
<1> QED
  BY <1>1, <1>2 DEF Recorded

(* Less to remember is remembered too.                                     *)
LEMMA RecordedFewer ==
  ASSUME NEW doc, NEW given, NEW spent, NEW fewer \in SUBSET spent,
         Recorded(doc, given, spent)
  PROVE  Recorded(doc, given, fewer)
  BY DEF Recorded

(* Load changes nothing in a sound document.                               *)
LEMMA LoadedSound ==
  ASSUME NEW doc, Sound(doc)
  PROVE  Loaded(doc) = doc
<1> DEFINE N == {e.id + 1 : e \in Entries(doc, "maps") \cup Entries(doc, "announcements")}
                  \cup {doc.nextId}
           I == IF doc.rotation = <<>> \/ doc.index >= Len(doc.rotation) THEN 0 ELSE doc.index
<1>0. doc \in Document /\ "maps" \in Lists /\ "announcements" \in Lists
  BY DEF Sound, Lists
<1>1. doc.nextId \in Nat /\ doc.index \in Nat /\ Len(doc.rotation) \in Nat
  <2>1. doc.rotation \in Seq(Maps) /\ doc.nextId \in Nat /\ doc.index \in Nat
    BY <1>0 DEF Document
  <2> QED BY <2>1, LenProperties
<1>2. ASSUME NEW list \in Lists, NEW e \in Entries(doc, list)
      PROVE  e.id + 1 <= doc.nextId /\ e.id \in Nat
  <2>1. PICK i \in 1..Len(doc[list]) : e = doc[list][i]
    BY <1>0, ListTypes
  <2>2. e.id < doc.nextId
    BY <2>1 DEF Sound
  <2>3. e.id \in Nat
    <3>1. e \in Entry(list)
      BY <1>0, ListTypes
    <3> QED BY <3>1 DEF Entry
  <2> QED BY <1>1, <2>2, <2>3
<1>3. doc.nextId \in N /\ \A n \in N : n \in Nat /\ n <= doc.nextId
  BY <1>0, <1>1, <1>2
<1>4. Max(N) = doc.nextId
  <2> HIDE DEF N
  <2>1. Max(N) \in N /\ \A n \in N : Max(N) >= n
    BY <1>1, <1>3 DEF Max
  <2> QED BY <1>1, <1>3, <2>1
<1>5. I = doc.index
  BY <1>1 DEF Sound
<1>6. Loaded(doc) = [doc EXCEPT !.index = I, !.nextId = Max(N)]
  BY DEF Loaded
<1> HIDE DEF N, I
<1> QED
  BY <1>0, <1>4, <1>5, <1>6 DEF Document

-----------------------------------------------------------------------------
(* What each operation makes of a sound document.                          *)

(* An edit of a list that adds no entry and moves none to an earlier time. *)
LEMMA ListEdit ==
  ASSUME NEW doc, Sound(doc), NEW list \in Lists, NEW s \in Seq(Entry(list)),
         Len(s) <= Len(doc[list]),
         \A k \in 1..Len(s) : \E i \in 1..Len(doc[list]) :
           s[k].id = doc[list][i].id /\ s[k].what = doc[list][i].what
             /\ doc[list][i].when <= s[k].when,
         \A j, k \in 1..Len(s) : s[j].id = s[k].id => j = k
  PROVE  LET new == Put(doc, list, s, doc.nextId)
         IN Sound(new) /\ Later(new, doc) /\ new.nextId = doc.nextId
<1> DEFINE new == Put(doc, list, s, doc.nextId)
<1>0. doc \in Document /\ doc.nextId \in Nat \ {0}
  BY DEF Sound, Document
<1>1. /\ new \in Document /\ new[list] = s
      /\ \A other \in Lists : other # list => new[other] = doc[other]
      /\ new.rotation = doc.rotation /\ new.index = doc.index /\ new.nextId = doc.nextId
  BY <1>0, PutFacts
<1> HIDE DEF new
<1>2. Loadable(new)
  <2>1. Loadable(doc) /\ Len(doc.rotation) <= MaxRotation
    BY DEF Sound, Loadable
  <2>2. ASSUME NEW other \in Lists PROVE Len(new[other]) <= MaxEntries
    <3>1. CASE other = list
      <4>1. Len(doc[list]) <= MaxEntries
        BY <2>1 DEF Loadable
      <4>2. Len(s) \in Nat /\ Len(doc[list]) \in Nat
        BY <1>0, ListTypes, LenProperties
      <4> QED BY <1>1, <3>1, <4>1, <4>2, LimitsAssumption
    <3>2. CASE other # list
      BY <1>1, <2>1, <3>2 DEF Loadable
    <3> QED BY <3>1, <3>2
  <2> QED BY <1>1, <2>1, <2>2 DEF Loadable
<1>3. ASSUME NEW other \in Lists, NEW j \in 1..Len(new[other]), NEW k \in 1..Len(new[other])
      PROVE  /\ new[other][j].id < new.nextId
             /\ new[other][j].id = new[other][k].id => j = k
  <2>1. CASE other = list
    <3>1. PICK i \in 1..Len(doc[list]) : s[j].id = doc[list][i].id
      BY <1>1, <2>1
    <3>2. doc[list][i].id < doc.nextId
      BY DEF Sound
    <3> QED BY <1>1, <2>1, <3>1, <3>2
  <2>2. CASE other # list
    BY <1>1, <2>2 DEF Sound
  <2> QED BY <2>1, <2>2
<1>4. Sound(new)
  <2>1. IF new.rotation = <<>> THEN new.index = 0 ELSE new.index < Len(new.rotation)
    BY <1>1 DEF Sound
  <2> QED BY <1>1, <1>2, <1>3, <2>1 DEF Sound
<1>5. ASSUME NEW other \in Lists, NEW e \in Entries(new, other)
      PROVE  \E d \in Entries(doc, other) : d.id = e.id /\ d.what = e.what /\ d.when <= e.when
  <2>1. CASE other = list
    <3>1. PICK k \in 1..Len(s) : e = s[k]
      BY <1>1, <2>1, ListTypes
    <3>2. PICK i \in 1..Len(doc[list]) :
            s[k].id = doc[list][i].id /\ s[k].what = doc[list][i].what
              /\ doc[list][i].when <= s[k].when
      OBVIOUS
    <3>3. doc[list][i] \in Entries(doc, list)
      BY <1>0, ListTypes
    <3> QED BY <2>1, <3>1, <3>2, <3>3
  <2>2. CASE other # list
    <3>1. Entries(new, other) = Entries(doc, other)
      BY <1>1, <2>2 DEF Entries
    <3>2. Later(doc, doc)
      BY <1>0, LaterReflexive
    <3> QED BY <3>1, <3>2 DEF Later
  <2> QED BY <2>1, <2>2
<1> QED
  BY <1>1, <1>4, <1>5 DEF Later, new

(* Removing an entry leaves no other entry of its ID.                      *)
LEMMA Removal ==
  ASSUME NEW doc, Sound(doc), NEW list \in Lists, NEW i \in 1..Len(doc[list])
  PROVE  LET new == Put(doc, list, RemoveAt(doc[list], i), doc.nextId)
         IN /\ Sound(new) /\ Later(new, doc) /\ new.nextId = doc.nextId
            /\ \A e \in Entries(new, list) : e.id # doc[list][i].id
<1> DEFINE l == doc[list]
           s == RemoveAt(l, i)
           new == Put(doc, list, s, doc.nextId)
<1>0. doc \in Document /\ doc.nextId \in Nat \ {0}
  BY DEF Sound, Document
<1>1. l \in Seq(Entry(list)) /\ Len(l) \in Nat
      /\ \A k \in 1..Len(l) : l[k] \in Entry(list)
  BY <1>0, ListTypes
<1>2. \A j, k \in 1..Len(l) : l[j].id = l[k].id => j = k
  BY DEF Sound
<1> HIDE DEF l
<1>3. i \in 1..Len(l)
  BY DEF l
<1>4. /\ s \in Seq(Entry(list)) /\ Len(s) = Len(l) - 1
      /\ \A k \in 1..(Len(l) - 1) : s[k] = IF k < i THEN l[k] ELSE l[k + 1]
  BY <1>1, <1>3, RemoveAtProperties
<1> HIDE DEF s
<1>5. ASSUME NEW k \in 1..Len(s)
      PROVE  \E m \in 1..Len(l) : m # i /\ s[k] = l[m] /\ m = IF k < i THEN k ELSE k + 1
  <2>1. (IF k < i THEN k ELSE k + 1) \in 1..Len(l) /\ (IF k < i THEN k ELSE k + 1) # i
    BY <1>1, <1>3, <1>4
  <2> QED BY <1>4, <2>1
<1>6. \A k \in 1..Len(s) : \E m \in 1..Len(l) :
         s[k].id = l[m].id /\ s[k].what = l[m].what /\ l[m].when <= s[k].when
  <2> TAKE k \in 1..Len(s)
  <2>1. PICK m \in 1..Len(l) : s[k] = l[m]
    BY <1>5
  <2>2. l[m].when \in Nat
    BY <1>1 DEF Entry
  <2> QED BY <2>1, <2>2
<1>7. ASSUME NEW j \in 1..Len(s), NEW k \in 1..Len(s), s[j].id = s[k].id
      PROVE  j = k
  <2>1. PICK m \in 1..Len(l) : s[j] = l[m] /\ m = IF j < i THEN j ELSE j + 1
    BY <1>5
  <2>2. PICK n \in 1..Len(l) : s[k] = l[n] /\ n = IF k < i THEN k ELSE k + 1
    BY <1>5
  <2>3. m = n
    BY <1>2, <1>7, <2>1, <2>2
  <2> QED BY <1>1, <1>3, <1>4, <2>1, <2>2, <2>3
<1>8. Len(s) <= Len(l)
  BY <1>1, <1>4
<1>9. Sound(new) /\ Later(new, doc) /\ new.nextId = doc.nextId
  <2>1. Len(s) <= Len(doc[list])
    BY <1>8 DEF l
  <2>2. \A k \in 1..Len(s) : \E m \in 1..Len(doc[list]) :
           s[k].id = doc[list][m].id /\ s[k].what = doc[list][m].what
             /\ doc[list][m].when <= s[k].when
    BY <1>6 DEF l
  <2>3. \A j, k \in 1..Len(s) : s[j].id = s[k].id => j = k
    BY <1>7
  <2> QED BY <1>4, <2>1, <2>2, <2>3, ListEdit
<1>10. ASSUME NEW e \in Entries(new, list) PROVE e.id # l[i].id
  <2>1. new \in Document /\ new[list] = s
    BY <1>0, <1>4, PutFacts
  <2>2. PICK k \in 1..Len(s) : e = s[k]
    BY <2>1, ListTypes
  <2>3. PICK m \in 1..Len(l) : m # i /\ s[k] = l[m]
    BY <1>5
  <2> QED BY <1>2, <1>3, <2>2, <2>3
<1> QED
  BY <1>9, <1>10 DEF l, s

(* Moving an entry leaves it as the only one of its ID, at the later time. *)
LEMMA Move ==
  ASSUME NEW doc, Sound(doc), NEW list \in Lists, NEW i \in 1..Len(doc[list]),
         NEW when \in Nat, doc[list][i].when < when
  PROVE  LET moved == [doc[list][i] EXCEPT !.when = when]
             new == Put(doc, list, [doc[list] EXCEPT ![i] = moved], doc.nextId)
         IN /\ Sound(new) /\ Later(new, doc) /\ new.nextId = doc.nextId
            /\ \A e \in Entries(new, list) : e.id = doc[list][i].id => e.when = when
<1> DEFINE l == doc[list]
           moved == [l[i] EXCEPT !.when = when]
           s == [l EXCEPT ![i] = moved]
           new == Put(doc, list, s, doc.nextId)
<1>0. doc \in Document /\ doc.nextId \in Nat \ {0}
  BY DEF Sound, Document
<1>1. l \in Seq(Entry(list)) /\ Len(l) \in Nat
      /\ \A k \in 1..Len(l) : l[k] \in Entry(list)
  BY <1>0, ListTypes
<1>2. \A j, k \in 1..Len(l) : l[j].id = l[k].id => j = k
  BY DEF Sound
<1>3. i \in 1..Len(l) /\ l[i].when < when
  OBVIOUS
<1> HIDE DEF l
<1>4. /\ moved \in Entry(list) /\ moved.id = l[i].id /\ moved.what = l[i].what
      /\ moved.when = when
  <2>1. l[i] \in Entry(list)
    BY <1>1, <1>3
  <2> QED BY <2>1 DEF Entry
<1> HIDE DEF moved
<1>5. /\ s \in Seq(Entry(list)) /\ Len(s) = Len(l)
      /\ \A k \in 1..Len(l) : s[k] = IF k = i THEN moved ELSE l[k]
  BY <1>1, <1>3, <1>4, ExceptSeq
<1> HIDE DEF s
<1>6. ASSUME NEW k \in 1..Len(l)
      PROVE  s[k].id = l[k].id /\ s[k].what = l[k].what /\ l[k].when <= s[k].when
  <2>1. l[k].when \in Nat
    <3>1. l[k] \in Entry(list)
      BY <1>1
    <3> QED BY <3>1 DEF Entry
  <2>2. CASE k = i
    BY <1>3, <1>4, <1>5, <2>1, <2>2
  <2>3. CASE k # i
    BY <1>5, <2>1, <2>3
  <2> QED BY <2>2, <2>3
<1>7. Sound(new) /\ Later(new, doc) /\ new.nextId = doc.nextId
  <2>1. Len(s) <= Len(doc[list])
    BY <1>1, <1>5 DEF l
  <2>2. \A k \in 1..Len(s) : \E m \in 1..Len(doc[list]) :
           s[k].id = doc[list][m].id /\ s[k].what = doc[list][m].what
             /\ doc[list][m].when <= s[k].when
    BY <1>5, <1>6 DEF l
  <2>3. \A j, k \in 1..Len(s) : s[j].id = s[k].id => j = k
    BY <1>2, <1>5, <1>6
  <2> QED BY <1>5, <2>1, <2>2, <2>3, ListEdit
<1>8. ASSUME NEW e \in Entries(new, list), e.id = l[i].id PROVE e.when = when
  <2>1. new \in Document /\ new[list] = s
    BY <1>0, <1>5, PutFacts
  <2>2. PICK k \in 1..Len(s) : e = s[k]
    BY <2>1, ListTypes
  <2>3. k = i
    BY <1>2, <1>3, <1>5, <1>6, <1>8, <2>2
  <2> QED BY <1>4, <1>5, <2>2, <2>3
<1> QED
  BY <1>7, <1>8 DEF l, s, moved

(* An addition takes the next ID, and a failed one is taken back.          *)
LEMMA Addition ==
  ASSUME Sound(ops), NEW list \in Lists, NEW e \in Entry(list), e.id = ops.nextId,
         Len(ops[list]) < MaxEntries
  PROVE  LET new == Added(list, e)
         IN /\ Sound(new)
            /\ new.nextId = ops.nextId + 1
            /\ UndoAdd(list, new) = ops
            /\ \A other \in Lists : \A x \in Entries(new, other) :
                 x \in Entries(ops, other) \/ (other = list /\ x = e)
            /\ \A other \in Lists : Entries(ops, other) \subseteq Entries(new, other)
<1> DEFINE l == ops[list]
           s == Append(l, e)
           new == Put(ops, list, s, ops.nextId + 1)
<1>0. ops \in Document /\ ops.nextId \in Nat \ {0}
  BY DEF Sound, Document
<1>1. l \in Seq(Entry(list)) /\ Len(l) \in Nat
  BY <1>0, ListTypes
<1>2. Added(list, e) = new
  <2>1. CASE list = "maps"
    BY <1>0, <2>1 DEF Added, Put, Document
  <2>2. CASE list = "announcements"
    BY <1>0, <2>2 DEF Added, Put, Document
  <2> QED BY <2>1, <2>2 DEF Lists
<1>3. /\ s \in Seq(Entry(list)) /\ Len(s) = Len(l) + 1 /\ s[Len(l) + 1] = e
      /\ \A k \in 1..Len(l) : s[k] = l[k]
  BY <1>1, AppendProperties
<1>4. Front(s) = l
  BY <1>1, FrontUndoesAppend
<1> HIDE DEF s
<1>5. /\ new \in Document /\ new[list] = s
      /\ \A other \in Lists : other # list => new[other] = ops[other]
      /\ new.rotation = ops.rotation /\ new.index = ops.index
      /\ new.nextId = ops.nextId + 1
  BY <1>0, <1>3, PutFacts
<1>6. UndoAdd(list, new) = ops
  <2>1. UndoAdd(list, new) = Put(new, list, Front(new[list]), new.nextId - 1)
    <3> HIDE DEF new
    <3>1. CASE list = "maps"
      BY <1>5, <3>1 DEF UndoAdd, Put, Document
    <3>2. CASE list = "announcements"
      BY <1>5, <3>2 DEF UndoAdd, Put, Document
    <3> QED BY <3>1, <3>2 DEF Lists
  <2>2. new.nextId - 1 = ops.nextId
    BY <1>0, <1>5
  <2>3. UndoAdd(list, new) = Put(new, list, ops[list], ops.nextId)
    BY <1>4, <1>5, <2>1, <2>2
  <2> QED BY <1>0, <2>3, PutBack
<1> HIDE DEF new
<1>7. Loadable(new)
  <2>1. Loadable(ops) /\ Len(ops.rotation) <= MaxRotation
    BY DEF Sound, Loadable
  <2>2. ASSUME NEW other \in Lists PROVE Len(new[other]) <= MaxEntries
    <3>1. CASE other = list
      BY <1>1, <1>3, <1>5, <3>1, LimitsAssumption
    <3>2. CASE other # list
      BY <1>5, <2>1, <3>2 DEF Loadable
    <3> QED BY <3>1, <3>2
  <2> QED BY <1>5, <2>1, <2>2 DEF Loadable
<1>8. ASSUME NEW other \in Lists, NEW k \in 1..Len(new[other])
      PROVE  \/ k \in 1..Len(ops[other]) /\ new[other][k] = ops[other][k]
             \/ other = list /\ k = Len(ops[other]) + 1 /\ new[other][k] = e
  <2>1. CASE other = list
    <3>1. k \in 1..(Len(l) + 1)
      BY <1>3, <1>5, <2>1
    <3>2. k \in 1..Len(l) \/ k = Len(l) + 1
      BY <1>1, <3>1
    <3> QED BY <1>3, <1>5, <2>1, <3>2
  <2>2. CASE other # list
    BY <1>5, <2>2
  <2> QED BY <2>1, <2>2
<1>9. ASSUME NEW other \in Lists, NEW k \in 1..Len(ops[other])
      PROVE  ops[other][k].id \in Nat /\ ops[other][k].id < ops.nextId
  <2>1. ops[other][k] \in Entry(other)
    BY <1>0, ListTypes
  <2> QED BY <2>1 DEF Sound, Entry
<1>10. ASSUME NEW other \in Lists, NEW j \in 1..Len(new[other]), NEW k \in 1..Len(new[other])
       PROVE  /\ new[other][j].id < new.nextId
              /\ new[other][j].id = new[other][k].id => j = k
  <2>1. CASE j \in 1..Len(ops[other]) /\ new[other][j] = ops[other][j]
    <3>1. ops[other][j].id \in Nat /\ ops[other][j].id < ops.nextId
      BY <1>9, <2>1
    <3>2. CASE k \in 1..Len(ops[other]) /\ new[other][k] = ops[other][k]
      <4>1. ops[other][j].id = ops[other][k].id => j = k
        BY <2>1, <3>2 DEF Sound
      <4> QED BY <1>0, <1>5, <2>1, <3>1, <3>2, <4>1
    <3>3. CASE other = list /\ k = Len(ops[other]) + 1 /\ new[other][k] = e
      BY <1>0, <1>5, <2>1, <3>1, <3>3
    <3> QED BY <1>8, <3>2, <3>3
  <2>2. CASE other = list /\ j = Len(ops[other]) + 1 /\ new[other][j] = e
    <3>1. CASE k \in 1..Len(ops[other]) /\ new[other][k] = ops[other][k]
      <4>1. new[other][k].id < ops.nextId /\ new[other][k].id \in Nat
        BY <1>9, <3>1
      <4>2. new[other][j].id = ops.nextId /\ new.nextId = ops.nextId + 1
        BY <1>5, <2>2
      <4> QED BY <1>0, <4>1, <4>2
    <3>2. CASE other = list /\ k = Len(ops[other]) + 1 /\ new[other][k] = e
      BY <1>0, <1>5, <2>2, <3>2
    <3> QED BY <1>8, <3>1, <3>2
  <2> QED BY <1>8, <2>1, <2>2
<1>11. Sound(new)
  <2>1. IF new.rotation = <<>> THEN new.index = 0 ELSE new.index < Len(new.rotation)
    BY <1>5 DEF Sound
  <2> QED BY <1>5, <1>7, <1>10, <2>1 DEF Sound
<1>12. ASSUME NEW other \in Lists, NEW x \in Entries(new, other)
       PROVE  x \in Entries(ops, other) \/ (other = list /\ x = e)
  <2>1. PICK k \in 1..Len(new[other]) : x = new[other][k]
    BY <1>5, ListTypes
  <2> QED BY <1>0, <1>8, <2>1, ListTypes
<1>13. ASSUME NEW other \in Lists, NEW x \in Entries(ops, other)
       PROVE  x \in Entries(new, other)
  <2>1. PICK k \in 1..Len(ops[other]) : x = ops[other][k]
    BY <1>0, ListTypes
  <2>2. k \in 1..Len(new[other]) /\ new[other][k] = x
    <3>1. CASE other = list
      <4>1. k \in 1..Len(l) /\ k \in 1..(Len(l) + 1) /\ x = l[k]
        BY <1>1, <2>1, <3>1 DEF l
      <4> QED BY <1>3, <1>5, <3>1, <4>1
    <3>2. CASE other # list
      BY <1>5, <2>1, <3>2
    <3> QED BY <3>1, <3>2
  <2> QED BY <1>5, <2>2, ListTypes
<1> QED
  BY <1>2, <1>5, <1>6, <1>11, <1>12, <1>13

(* A failed removal puts the entry back where it was.                      *)
LEMMA RemovalUndone ==
  ASSUME Sound(ops), NEW list \in Lists, NEW i \in 1..Len(ops[list])
  PROVE  LET new == [ops EXCEPT ![list] = RemoveAt(@, i)]
         IN /\ new = Put(ops, list, RemoveAt(ops[list], i), ops.nextId)
            /\ UndoDelete(list, new, i, ops[list][i]) = ops
<1> DEFINE s == RemoveAt(ops[list], i)
           new == Put(ops, list, s, ops.nextId)
<1>0. ops \in Document /\ ops.nextId \in Nat \ {0} /\ ops[list] \in Seq(Entry(list))
  BY ListTypes DEF Sound, Document
<1>1. [ops EXCEPT ![list] = RemoveAt(@, i)] = new
  <2>1. CASE list = "maps"
    BY <1>0, <2>1 DEF Put, Document
  <2>2. CASE list = "announcements"
    BY <1>0, <2>2 DEF Put, Document
  <2> QED BY <2>1, <2>2 DEF Lists
<1>2. s \in Seq(Entry(list))
  BY <1>0, RemoveAtProperties
<1>3. InsertAt(s, i, ops[list][i]) = ops[list]
  BY <1>0, InsertAtUndoesRemoveAt
<1> HIDE DEF s
<1>4. new \in Document /\ new[list] = s /\ new.nextId = ops.nextId
  BY <1>0, <1>2, PutFacts
<1>5. UndoDelete(list, new, i, ops[list][i])
        = Put(new, list, InsertAt(new[list], i, ops[list][i]), new.nextId)
  <2> HIDE DEF new
  <2>1. CASE list = "maps"
    BY <1>4, <2>1 DEF UndoDelete, Put, Document
  <2>2. CASE list = "announcements"
    BY <1>4, <2>2 DEF UndoDelete, Put, Document
  <2> QED BY <2>1, <2>2 DEF Lists
<1>6. UndoDelete(list, new, i, ops[list][i]) = Put(new, list, ops[list], ops.nextId)
  BY <1>3, <1>4, <1>5
<1>7. UndoDelete(list, new, i, ops[list][i]) = ops
  BY <1>0, <1>6, PutBack
<1> QED
  BY <1>1, <1>7 DEF s

(* Changes of the rotation leave the lists alone.                          *)
LEMMA RotationEdit ==
  ASSUME NEW doc, Sound(doc), NEW new \in Document,
         new.maps = doc.maps, new.announcements = doc.announcements,
         new.nextId = doc.nextId, Len(new.rotation) <= MaxRotation,
         IF new.rotation = <<>> THEN new.index = 0 ELSE new.index < Len(new.rotation)
  PROVE  Sound(new) /\ Later(new, doc)
<1>1. \A list \in Lists : new[list] = doc[list]
  BY DEF Lists
<1>2. Sound(new)
  BY <1>1 DEF Sound, Loadable
<1>3. \A list \in Lists : Entries(new, list) = Entries(doc, list)
  BY <1>1 DEF Entries
<1>4. Later(doc, doc)
  BY LaterReflexive DEF Sound
<1> QED
  BY <1>2, <1>3, <1>4 DEF Later

LEMMA RotatedFacts ==
  ASSUME Sound(ops), NEW maps \in Rotations
  PROVE  LET new == Rotated(maps)
         IN /\ Sound(new) /\ Later(new, ops) /\ new.nextId = ops.nextId
            /\ [new EXCEPT !.rotation = ops.rotation, !.index = ops.index] = ops
<1> DEFINE i == IF maps = <<>> THEN 0 ELSE Min({ops.index, Len(maps) - 1})
           new == [ops EXCEPT !.rotation = maps, !.index = i]
<1>0. ops \in Document /\ ops.index \in Nat
  BY DEF Sound, Document
<1>1. maps \in Seq(Maps) /\ Len(maps) \in Nat /\ Len(maps) <= MaxRotation
  <2>1. PICK n \in 0..MaxRotation : maps \in [1..n -> Maps]
    BY DEF Rotations, SeqOf
  <2>2. n \in Nat
    BY LimitsAssumption
  <2>3. maps \in Seq(Maps)
    BY <2>1, <2>2, SeqDef
  <2>4. Len(maps) = n
    <3>1. DOMAIN maps = 1..n /\ DOMAIN maps = 1..Len(maps) /\ Len(maps) \in Nat
      BY <2>1, <2>3, LenProperties
    <3> QED BY <2>2, <3>1
  <2> QED BY <2>2, <2>3, <2>4, LimitsAssumption
<1>2. IF maps = <<>> THEN i = 0 ELSE i \in Nat /\ i < Len(maps)
  <2>1. CASE maps = <<>>
    BY <2>1
  <2>2. CASE maps # <<>>
    <3>1. Len(maps) \in Nat \ {0}
      BY <1>1, <2>2, EmptySeq
    <3> DEFINE M == {ops.index, Len(maps) - 1}
    <3>2. \E m \in M : \A y \in M : m <= y
      BY <1>0, <3>1
    <3>3. Min(M) \in M /\ \A y \in M : Min(M) <= y
      <4> HIDE DEF M
      <4> QED BY <3>2 DEF Min
    <3>4. Min(M) \in Nat /\ Min(M) <= Len(maps) - 1
      BY <1>0, <3>1, <3>3
    <3>5. i = Min(M)
      BY <2>2
    <3> HIDE DEF M, i
    <3> QED BY <2>2, <3>1, <3>4, <3>5
  <2> QED BY <2>1, <2>2
<1>3. Rotated(maps) = new
  BY DEF Rotated
<1>4. i \in Nat
  BY <1>2
<1> HIDE DEF i
<1>5. /\ new \in Document /\ new.maps = ops.maps /\ new.announcements = ops.announcements
      /\ new.nextId = ops.nextId /\ new.rotation = maps /\ new.index = i
      /\ [new EXCEPT !.rotation = ops.rotation, !.index = ops.index] = ops
  BY <1>0, <1>1, <1>4 DEF Document
<1> HIDE DEF new
<1>6. Sound(new) /\ Later(new, ops)
  BY <1>1, <1>2, <1>5, RotationEdit
<1> QED
  BY <1>3, <1>5, <1>6

LEMMA AdvancedFacts ==
  ASSUME Sound(ops), ops.rotation # <<>>
  PROVE  LET new == [ops EXCEPT !.index = (@ + 1) % Len(ops.rotation)]
         IN /\ Sound(new) /\ Later(new, ops) /\ new.nextId = ops.nextId
            /\ UndoAdvance(new) = ops
<1> DEFINE L == Len(ops.rotation)
           i == (ops.index + 1) % L
           new == [ops EXCEPT !.index = i]
<1>0. ops \in Document /\ ops.index \in Nat /\ ops.rotation \in Seq(Maps)
  BY DEF Sound, Document
<1>1. L \in Nat /\ ops.index < L /\ L <= MaxRotation
  BY <1>0, LenProperties DEF Sound, Loadable
<1>2. i = IF ops.index + 1 = L THEN 0 ELSE ops.index + 1
  <2> HIDE DEF L
  <2> QED BY <1>0, <1>1
<1>3. i \in Nat /\ i < L
  <2> HIDE DEF L, i
  <2> QED BY <1>0, <1>1, <1>2
<1>4. (IF i = 0 THEN L - 1 ELSE i - 1) = ops.index
  <2> HIDE DEF L, i
  <2> QED BY <1>0, <1>1, <1>2
<1> HIDE DEF i
<1>5. /\ new \in Document /\ new.maps = ops.maps /\ new.announcements = ops.announcements
      /\ new.nextId = ops.nextId /\ new.rotation = ops.rotation /\ new.index = i
      /\ [new EXCEPT !.index = ops.index] = ops
  BY <1>0, <1>3 DEF Document
<1>6. UndoAdvance(new) = [new EXCEPT !.index = ops.index]
  <2> HIDE DEF new
  <2> QED BY <1>4, <1>5 DEF UndoAdvance
<1>7. Sound(new) /\ Later(new, ops)
  <2> HIDE DEF new
  <2> QED BY <1>1, <1>3, <1>5, RotationEdit
<1> QED
  BY <1>5, <1>6, <1>7 DEF i

-----------------------------------------------------------------------------
(* Finding an entry in a list.                                             *)

LEMMA PositionFacts ==
  ASSUME Sound(ops), NEW list \in Lists, NEW id, Position(list, id) # 0
  PROVE  /\ Position(list, id) \in 1..Len(ops[list])
         /\ ops[list][Position(list, id)].id = id
<1> DEFINE I == {k \in 1..Len(ops[list]) : ops[list][k].id = id}
<1>1. Position(list, id) = IF I # {} THEN Min(I) ELSE 0
  BY DEF Position, SelectInSeq
<1>2. I \subseteq Nat /\ \A k \in I : k \in 1..Len(ops[list]) /\ ops[list][k].id = id
  OBVIOUS
<1> HIDE DEF I
<1>3. I # {} /\ Position(list, id) = Min(I)
  BY <1>1
<1>4. Min(I) \in I
  BY <1>2, <1>3, LeastNatural
<1> QED
  BY <1>2, <1>3, <1>4

(* When something is due, the earliest entry is.                           *)
LEMMA EarliestFacts ==
  ASSUME Sound(ops), clock \in Nat, NEW list \in Lists, IsDue(list)
  PROVE  /\ Earliest(list) \in 1..Len(ops[list])
         /\ ops[list][Earliest(list)].when <= clock
         /\ \A f \in Entries(ops, list) : ops[list][Earliest(list)].when <= f.when
<1> DEFINE l == ops[list]
           T == {l[k].when : k \in 1..Len(l)}
           I == {k \in 1..Len(l) : \A f \in Entries(ops, list) : l[k].when <= f.when}
<1>0. ops \in Document
  BY DEF Sound
<1>1. \A k \in 1..Len(l) : l[k].when \in Nat
  <2> TAKE k \in 1..Len(l)
  <2>1. l[k] \in Entry(list)
    BY <1>0, ListTypes
  <2> QED BY <2>1 DEF Entry
<1>2. PICK e \in Entries(ops, list) : e.when <= clock
  BY DEF IsDue
<1>3. PICK m \in 1..Len(l) : e = l[m]
  BY <1>0, ListTypes
<1>4. \A f \in Entries(ops, list) : \E k \in 1..Len(l) : f = l[k]
  BY <1>0, ListTypes
<1>5. Earliest(list) = IF I # {} THEN Min(I) ELSE 0
  BY DEF Earliest, SelectInSeq
<1>6. e \in Entries(ops, list)
  OBVIOUS
<1> HIDE DEF l
<1>7. PICK t \in T : \A u \in T : t <= u
  <2>1. T \in SUBSET Nat /\ T # {}
    BY <1>1, <1>3
  <2> HIDE DEF T
  <2> QED BY <2>1, LeastNatural
<1>8. PICK k \in 1..Len(l) : t = l[k].when
  OBVIOUS
<1>9. ASSUME NEW f \in Entries(ops, list) PROVE l[k].when <= f.when
  <2>1. PICK j \in 1..Len(l) : f = l[j]
    BY <1>4
  <2>2. l[j].when \in T
    OBVIOUS
  <2> QED BY <1>7, <1>8, <2>1, <2>2
<1>10. I # {} /\ I \in SUBSET Nat
  BY <1>9
<1>11. Earliest(list) \in I
  <2> HIDE DEF I
  <2> QED BY <1>5, <1>10, LeastNatural
<1>12. /\ Earliest(list) \in 1..Len(l) /\ l[Earliest(list)].when <= e.when
       /\ \A f \in Entries(ops, list) : l[Earliest(list)].when <= f.when
  BY <1>6, <1>11
<1>13. l[Earliest(list)].when \in Nat /\ e.when \in Nat
  BY <1>1, <1>3, <1>12
<1> QED
  BY <1>2, <1>12, <1>13 DEF l

(* A repeating announcement moves past the present.                        *)
LEMMA NextTimeFacts ==
  ASSUME NEW e, e.when \in Nat, e.repeat \in Nat \ {0}, clock \in Nat, e.when <= clock
  PROVE  NextTime(e) \in Nat /\ e.when < NextTime(e)
<1> DEFINE q == (clock - e.when) \div e.repeat
<1>1. clock - e.when \in Nat
  OBVIOUS
<1>2. q \in Nat
  <2>1. \A a \in Nat, b \in Nat \ {0} : a \div b \in Nat
    OBVIOUS
  <2> QED BY <1>1, <2>1
<1>3. NextTime(e) = e.when + (q + 1) * e.repeat
  BY DEF NextTime
<1> HIDE DEF q
<1>4. (q + 1) * e.repeat \in Nat \ {0}
  <2>1. \A a, b \in Nat \ {0} : a * b \in Nat \ {0}
    OBVIOUS
  <2>2. q + 1 \in Nat \ {0}
    BY <1>2
  <2> QED BY <2>1, <2>2
<1> QED
  BY <1>3, <1>4

(* Taking an entry removes it or moves it.                                 *)
LEMMA TakenShape ==
  ASSUME Sound(ops), NEW list \in Lists, NEW i \in 1..Len(ops[list])
  PROVE  Taken(list, i) =
           IF ops[list][i].repeat = 0
           THEN Put(ops, list, RemoveAt(ops[list], i), ops.nextId)
           ELSE Put(ops, list,
                    [ops[list] EXCEPT ![i] =
                       [ops[list][i] EXCEPT !.when = NextTime(ops[list][i])]], ops.nextId)
<1> DEFINE old == ops[list][i]
           when == NextTime(old)
           moved == [old EXCEPT !.when = when]
           new == Taken(list, i)
<1>0. ops \in Document /\ ops[list] \in Seq(Entry(list)) /\ old \in Entry(list)
  BY ListTypes DEF Sound
<1>1. CASE old.repeat = 0
  BY <1>1, RemovalUndone DEF Taken
<1>2. CASE old.repeat # 0
  <2>1. new = [ops EXCEPT ![list] = [ops[list] EXCEPT ![i] = moved]]
    <3>1. new = [ops EXCEPT ![list][i].when = when]
      BY <1>2 DEF Taken
    <3> HIDE DEF new, when
    <3>2. CASE list = "maps"
      BY <1>0, <3>1, <3>2 DEF Document
    <3>3. CASE list = "announcements"
      BY <1>0, <3>1, <3>3 DEF Document
    <3> QED BY <3>2, <3>3 DEF Lists
  <2> HIDE DEF new, when
  <2>2. [ops EXCEPT ![list] = [ops[list] EXCEPT ![i] = moved]]
          = Put(ops, list, [ops[list] EXCEPT ![i] = moved], ops.nextId)
    <3>1. CASE list = "maps"
      BY <1>0, <3>1 DEF Document, Put
    <3>2. CASE list = "announcements"
      BY <1>0, <3>2 DEF Document, Put
    <3> QED BY <3>1, <3>2 DEF Lists
  <2>3. new = Put(ops, list, [ops[list] EXCEPT ![i] = [ops[list][i] EXCEPT !.when = when]],
                  ops.nextId)
    BY <2>1, <2>2
  <2> QED BY <1>2, <2>3 DEF new, when
<1> QED
  BY <1>1, <1>2

(* Taking what is due leaves a sound document in which that turn, and any  *)
(* earlier one of the entry, can not be taken again.                       *)
LEMMA TakenFacts ==
  ASSUME Sound(ops), clock \in Nat, NEW list \in Lists, IsDue(list)
  PROVE  LET i == Earliest(list)
             new == Taken(list, i)
         IN /\ i \in 1..Len(ops[list])
            /\ Sound(new) /\ Later(new, ops) /\ new.nextId = ops.nextId
            /\ \A e \in Entries(new, list) :
                 e.id = ops[list][i].id => ops[list][i].when < e.when
<1> DEFINE i == Earliest(list)
           old == ops[list][i]
           new == Taken(list, i)
<1>1. i \in 1..Len(ops[list]) /\ old.when <= clock
  BY EarliestFacts
<1> HIDE DEF i
<1>0. ops \in Document /\ ops[list] \in Seq(Entry(list)) /\ old \in Entry(list)
  BY <1>1, ListTypes DEF Sound
<1>2. old.when \in Nat /\ old.repeat \in Nat
  <2>1. Intervals(list) \subseteq Nat
    BY RepeatsAssumption DEF Intervals
  <2> QED BY <1>0, <2>1 DEF Entry
<1>3. CASE old.repeat = 0
  <2>1. new = Put(ops, list, RemoveAt(ops[list], i), ops.nextId)
    BY <1>1, <1>3, TakenShape
  <2> HIDE DEF new
  <2>2. /\ Sound(new) /\ Later(new, ops) /\ new.nextId = ops.nextId
        /\ \A e \in Entries(new, list) : e.id # old.id
    BY <1>1, <2>1, Removal
  <2> QED BY <1>1, <2>2 DEF i, new
<1>4. CASE old.repeat # 0
  <2> DEFINE when == NextTime(old)
  <2>1. when \in Nat /\ old.when < when
    BY <1>1, <1>2, <1>4, NextTimeFacts
  <2>2. new = Put(ops, list, [ops[list] EXCEPT ![i] = [ops[list][i] EXCEPT !.when = when]],
                  ops.nextId)
    BY <1>1, <1>4, TakenShape
  <2> HIDE DEF when, new
  <2>3. /\ Sound(new) /\ Later(new, ops) /\ new.nextId = ops.nextId
        /\ \A e \in Entries(new, list) : e.id = old.id => e.when = when
    BY <1>1, <2>1, <2>2, Move
  <2> QED BY <1>1, <2>1, <2>3 DEF i, new
<1> QED
  BY <1>3, <1>4

-----------------------------------------------------------------------------
(* The invariant is preserved: first what several actions have in common.  *)

LEMMA Running ==
  ASSUME IInv, step # "down"
  PROVE  /\ ops \in Document /\ disk \in Document /\ disk # NoDocument
         /\ Recorded(ops, issued, Spent) /\ Recorded(disk, issued, Spent)
         /\ Sound(ops) /\ Spent \in SUBSET Turn
<1>1. /\ disk # NoDocument /\ Recorded(disk, issued, Spent) /\ Sound(ops)
      /\ ops.nextId = disk.nextId /\ Later(ops, disk)
  BY DEF IInv, DocumentsAgree
<1>2. Spent \in SUBSET Turn
  BY DEF IInv, TypeOK, Spent
<1>3. Recorded(ops, issued, Spent)
  BY <1>1, <1>2, RecordedLater
<1>4. ops \in Document /\ disk \in Document
  BY <1>1 DEF Recorded, Sound
<1> QED
  BY <1>1, <1>2, <1>3, <1>4

(* A command that adds no entry, saved or taken back.                      *)
LEMMA EditKeepsInv ==
  ASSUME IInv, step # "down",
         NEW new, Sound(new), Later(new, ops), new.nextId = ops.nextId, Save(new, ops),
         UNCHANGED <<frameVars, clock, done, excused, issued>>
  PROVE  IInv'
<1>1. /\ Recorded(ops, issued, Spent) /\ Spent \in SUBSET Turn
      /\ step' = step /\ budget' = budget /\ due' = due /\ clock' = clock
      /\ done' = done /\ excused' = excused /\ issued' = issued
  BY Running DEF frameVars
<1>2. Spent' = Spent
  BY <1>1 DEF Spent
<1>3. CASE ops' = new /\ disk' = new /\ lagging' = FALSE
  <2>1. new \in Document /\ Loadable(new) /\ new # NoDocument
    BY NoDocumentAssumption DEF Sound
  <2>2. TypeOK'
    BY <1>1, <1>3, <2>1 DEF IInv, TypeOK, Loadable
  <2>3. Recorded(new, issued, Spent)
    BY <1>1, RecordedLater
  <2>4. Recorded(disk', issued', Spent')
    BY <1>1, <1>2, <1>3, <2>3
  <2>5. Later(ops', disk')
    BY <1>3, <2>1, LaterReflexive
  <2>6. DocumentsAgree'
    BY <1>1, <1>3, <2>1, <2>4, <2>5 DEF DocumentsAgree
  <2> QED BY <1>1, <2>2, <2>6 DEF IInv, NothingTwice
<1>4. CASE ops' = ops /\ disk' = disk /\ lagging' = lagging
  <2>1. TypeOK'
    BY <1>1, <1>4 DEF IInv, TypeOK, Loadable
  <2>2. DocumentsAgree'
    BY <1>1, <1>2, <1>4 DEF IInv, DocumentsAgree
  <2> QED BY <1>1, <2>1, <2>2 DEF IInv, NothingTwice
<1> QED
  BY <1>3, <1>4 DEF Save

(* Steps that leave the store and the history alone.                       *)
LEMMA FrameKeepsInv ==
  ASSUME IInv, TypeOK', UNCHANGED <<storeVars, due, history>>,
         step' = "down" <=> step = "down"
  PROVE  IInv'
<1>1. /\ ops' = ops /\ disk' = disk /\ due' = due /\ lagging' = lagging
      /\ done' = done /\ excused' = excused /\ issued' = issued
  BY DEF storeVars, history
<1>2. Spent' = Spent
  BY <1>1 DEF Spent
<1>3. DocumentsAgree'
  BY <1>1, <1>2 DEF IInv, DocumentsAgree
<1> QED
  BY <1>1, <1>3 DEF IInv, NothingTwice

LEMMA LargestBudget ==
  LET m == Max({PerFrame, 1}) IN m \in Nat /\ PerFrame <= m /\ 1 <= m
<1> DEFINE S == {PerFrame, 1}
<1>1. S \subseteq Nat /\ \E m \in S : \A n \in S : m >= n
  BY PerFrameAssumption
<1>2. PerFrame \in S /\ 1 \in S
  OBVIOUS
<1> HIDE DEF S
<1>3. Max(S) \in S /\ \A n \in S : Max(S) >= n
  BY <1>1 DEF Max
<1>4. Max(S) \in Nat /\ PerFrame <= Max(S) /\ 1 <= Max(S)
  BY <1>1, <1>2, <1>3
<1> QED
  BY <1>4 DEF S

LEMMA InitInv == Init => IInv
<1> SUFFICES ASSUME Init PROVE IInv
  OBVIOUS
<1>1. /\ ops = Empty /\ disk = NoDocument /\ step = "down" /\ budget = 0 /\ due = {}
      /\ clock = 0 /\ lagging = FALSE /\ done = {} /\ excused = {} /\ issued = {}
  BY DEF Init
<1>2. Empty \in Document /\ Loadable(Empty)
  BY SoundEmpty DEF Sound
<1>3. budget \in 0..Max({PerFrame, 1}) /\ clock \in 0..MaxTime
  BY <1>1, LargestBudget, TimesAssumption
<1>4. Cardinality({}) = 0
  BY FS_EmptySet
<1>5. TypeOK
  <2>1. disk \in Document \cup {NoDocument} /\ (disk # NoDocument => Loadable(disk))
    BY <1>1
  <2>2. step \in Lists \cup {"commands", "down"} /\ lagging \in BOOLEAN
    BY <1>1
  <2>3. /\ due \subseteq Turn /\ done \subseteq Turn /\ excused \subseteq Turn
        /\ issued \subseteq [list : Lists, id : Nat \ {0}, what : Maps \cup Messages]
        /\ Cardinality(due) <= 1
    BY <1>1, <1>4
  <2> QED BY <1>1, <1>2, <1>3, <2>1, <2>2, <2>3 DEF TypeOK
<1> QED
  BY <1>1, <1>5 DEF IInv, DocumentsAgree, NothingTwice

-----------------------------------------------------------------------------
(* The commands.                                                           *)

LEMMA AddKeepsInv ==
  ASSUME IInv, NEW list \in Lists, NEW what \in Contents(list),
         NEW when \in 0..(MaxTime + Future), NEW repeat \in Intervals(list),
         Add(list, what, when, repeat)
  PROVE  IInv'
<1> DEFINE e == [id |-> ops.nextId, what |-> what, when |-> when, repeat |-> repeat]
           r == [list |-> list, id |-> ops.nextId, what |-> what]
           new == Added(list, e)
<1>1. /\ step = "commands" /\ Len(ops[list]) < MaxEntries
      /\ Save(new, UndoAdd(list, new))
      /\ \/ ops' = new /\ issued' = issued \cup {r}
         \/ ops' # new /\ issued' = issued
      /\ step' = step /\ budget' = budget /\ due' = due /\ clock' = clock
      /\ done' = done /\ excused' = excused
  BY DEF Add, Commands, MayAdd, frameVars
<1>2. /\ ops \in Document /\ Recorded(ops, issued, Spent) /\ Sound(ops)
      /\ Spent \in SUBSET Turn /\ step # "down"
  BY <1>1, Running
<1>3. ops.nextId \in Nat \ {0}
  BY <1>2 DEF Document
<1>4. e \in Entry(list) /\ e.id = ops.nextId /\ e.what = what
  <2>1. when \in Nat
    BY TimesAssumption
  <2> QED BY <1>3, <2>1 DEF Entry
<1> HIDE DEF e
<1>5. /\ Sound(new) /\ new.nextId = ops.nextId + 1 /\ UndoAdd(list, new) = ops
      /\ \A other \in Lists : \A x \in Entries(new, other) :
           x \in Entries(ops, other) \/ (other = list /\ x = e)
  BY <1>1, <1>2, <1>4, Addition
<1> HIDE DEF new
<1>6. new # ops /\ new \in Document /\ Loadable(new) /\ new # NoDocument
  BY <1>3, <1>5, NoDocumentAssumption DEF Sound
<1>7. Spent' = Spent
  BY <1>1 DEF Spent
<1>8. CASE ops' = new /\ issued' = issued \cup {r}
  <2>1. disk' = new /\ lagging' = FALSE
    BY <1>1, <1>5, <1>6, <1>8 DEF Save
  <2>2. r \in [list : Lists, id : Nat \ {0}, what : Maps \cup Messages]
    <3>1. Contents(list) \subseteq Maps \cup Messages
      BY DEF Contents
    <3> QED BY <1>3, <3>1
  <2>3. TypeOK'
    BY <1>1, <1>6, <1>8, <2>1, <2>2 DEF IInv, TypeOK, Loadable
  <2>4. \A a \in issued : a.id \in Nat /\ a.id < ops.nextId
    BY <1>2 DEF Recorded, IInv, TypeOK
  <2>5. \A a, b \in issued' : a.id = b.id => a = b
    BY <1>3, <1>8, <2>4 DEF IInv
  <2>6. Recorded(new, issued', Spent)
    <3>1. ASSUME NEW x \in AllEntries(new) PROVE x \in issued'
      <4>1. PICK other \in Lists : x \in Identities(new, other)
        BY DEF AllEntries
      <4>2. PICK f \in Entries(new, other) :
              x = [list |-> other, id |-> f.id, what |-> f.what]
        BY <4>1 DEF Identities
      <4>3. CASE f \in Entries(ops, other)
        <5>1. x \in Identities(ops, other)
          BY <4>2, <4>3 DEF Identities
        <5>2. x \in AllEntries(ops)
          BY <5>1 DEF AllEntries
        <5> QED BY <1>2, <1>8, <5>2 DEF Recorded
      <4>4. CASE other = list /\ f = e
        BY <1>4, <1>8, <4>2, <4>4
      <4> QED BY <1>5, <4>3, <4>4
    <3>2. \A a \in issued' : a.id < new.nextId
      BY <1>3, <1>5, <1>8, <2>4
    <3>3. ASSUME NEW t \in Spent
          PROVE  /\ t.id < new.nextId
                 /\ \A x \in Entries(new, t.list) : x.id = t.id => t.when < x.when
      <4>1. t \in Turn /\ t.list \in Lists /\ t.id \in Nat /\ t.id < ops.nextId
        BY <1>2 DEF Recorded, Turn
      <4>2. ASSUME NEW x \in Entries(new, t.list), x.id = t.id PROVE t.when < x.when
        <5>1. x # e
          BY <1>3, <1>4, <4>1, <4>2
        <5>2. x \in Entries(ops, t.list)
          BY <1>5, <4>1, <5>1
        <5> QED BY <1>2, <4>2, <5>2 DEF Recorded
      <4> QED BY <1>3, <1>5, <4>1, <4>2
    <3> QED BY <1>5, <3>1, <3>2, <3>3 DEF Recorded
  <2>7. Later(new, new)
    BY <1>6, LaterReflexive
  <2>8. DocumentsAgree'
    BY <1>1, <1>2, <1>5, <1>6, <1>7, <1>8, <2>1, <2>6, <2>7 DEF DocumentsAgree
  <2>9. NothingTwice'
    BY <1>1 DEF IInv, NothingTwice
  <2> QED BY <2>3, <2>5, <2>8, <2>9 DEF IInv
<1>9. CASE ops' # new /\ issued' = issued
  <2>1. ops' = ops /\ disk' = disk /\ lagging' = lagging
    BY <1>1, <1>5, <1>9 DEF Save
  <2>2. TypeOK'
    BY <1>1, <1>9, <2>1 DEF IInv, TypeOK, Loadable
  <2> QED BY <1>1, <1>9, <2>1, <2>2, FrameKeepsInv DEF storeVars, history
<1> QED
  BY <1>1, <1>8, <1>9

LEMMA DeleteKeepsInv ==
  ASSUME IInv, NEW list \in Lists, NEW id, Delete(list, id)
  PROVE  IInv'
<1> DEFINE i == Position(list, id)
           new == [ops EXCEPT ![list] = RemoveAt(@, i)]
<1>1. /\ step = "commands" /\ i # 0
      /\ Save(new, UndoDelete(list, new, i, ops[list][i]))
      /\ UNCHANGED <<frameVars, clock, done, excused, issued>>
  BY DEF Delete, Commands
<1>2. Sound(ops) /\ step # "down"
  BY <1>1, Running
<1>3. i \in 1..Len(ops[list])
  BY <1>1, <1>2, PositionFacts
<1> HIDE DEF i
<1>4. /\ new = Put(ops, list, RemoveAt(ops[list], i), ops.nextId)
      /\ UndoDelete(list, new, i, ops[list][i]) = ops
  BY <1>2, <1>3, RemovalUndone
<1> HIDE DEF new
<1>5. Sound(new) /\ Later(new, ops) /\ new.nextId = ops.nextId
  BY <1>2, <1>3, <1>4, Removal
<1> QED
  BY <1>1, <1>2, <1>4, <1>5, EditKeepsInv

LEMMA SaveRotationKeepsInv ==
  ASSUME IInv, NEW maps \in Rotations, SaveRotation(maps)
  PROVE  IInv'
<1> DEFINE new == Rotated(maps)
<1>1. /\ step = "commands"
      /\ Save(new, [new EXCEPT !.rotation = ops.rotation, !.index = ops.index])
      /\ UNCHANGED <<frameVars, clock, done, excused, issued>>
  BY DEF SaveRotation, Commands
<1>2. Sound(ops) /\ step # "down"
  BY <1>1, Running
<1>3. /\ Sound(new) /\ Later(new, ops) /\ new.nextId = ops.nextId
      /\ [new EXCEPT !.rotation = ops.rotation, !.index = ops.index] = ops
  BY <1>2, RotatedFacts
<1> HIDE DEF new
<1>4. Save(new, ops)
  BY <1>1, <1>3
<1> QED
  BY <1>1, <1>2, <1>3, <1>4, EditKeepsInv

LEMMA RunNextMapKeepsInv ==
  ASSUME IInv, RunNextMap
  PROVE  IInv'
<1> DEFINE new == [ops EXCEPT !.index = (@ + 1) % Len(ops.rotation)]
<1>1. /\ step = "commands" /\ ops.rotation # <<>>
      /\ Save(new, UndoAdvance(new))
      /\ UNCHANGED <<frameVars, clock, done, excused, issued>>
  BY DEF RunNextMap, Commands
<1>2. Sound(ops) /\ step # "down"
  BY <1>1, Running
<1>3. /\ Sound(new) /\ Later(new, ops) /\ new.nextId = ops.nextId
      /\ UndoAdvance(new) = ops
  BY <1>1, <1>2, AdvancedFacts
<1> HIDE DEF new
<1>4. Save(new, ops)
  BY <1>1, <1>3
<1> QED
  BY <1>1, <1>2, <1>3, <1>4, EditKeepsInv

-----------------------------------------------------------------------------
(* The frame.                                                              *)

LEMMA TakeDueKeepsInv ==
  ASSUME IInv, NEW list \in Lists, TakeDue(list)
  PROVE  IInv'
<1> DEFINE i == Earliest(list)
           t == [list |-> list, id |-> ops[list][i].id, when |-> ops[list][i].when]
           new == Taken(list, i)
<1>1. /\ step = list /\ due = {} /\ budget > 0 /\ IsDue(list)
      /\ SaveTaken(new) /\ due' = {t}
      /\ excused' = IF lagging' THEN excused \cup due' ELSE excused
      /\ budget' = budget - 1
      /\ step' = step /\ clock' = clock /\ done' = done /\ issued' = issued
  BY DEF TakeDue
<1>2. step # "down"
  BY <1>1 DEF Lists
<1>3. /\ ops \in Document /\ disk \in Document /\ disk # NoDocument /\ Sound(ops)
      /\ Recorded(ops, issued, Spent) /\ Recorded(disk, issued, Spent)
      /\ Spent \in SUBSET Turn /\ ops.nextId = disk.nextId /\ Later(ops, disk)
  BY <1>2, Running DEF IInv, DocumentsAgree
<1>4. clock \in Nat
  BY TimesAssumption DEF IInv, TypeOK
<1>5. /\ i \in 1..Len(ops[list])
      /\ Sound(new) /\ Later(new, ops) /\ new.nextId = ops.nextId
      /\ \A e \in Entries(new, list) : e.id = ops[list][i].id => ops[list][i].when < e.when
  BY <1>1, <1>3, <1>4, TakenFacts
<1> HIDE DEF i, new
<1>6. /\ ops[list][i] \in Entry(list) /\ ops[list][i] \in Entries(ops, list)
      /\ ops[list][i].id < ops.nextId
  BY <1>3, <1>5, ListTypes DEF Sound
<1>7. t \in Turn /\ t.when \in Nat
  BY <1>6 DEF Entry, Turn
<1>8. new \in Document /\ Loadable(new) /\ new # NoDocument
  BY <1>5, NoDocumentAssumption DEF Sound
<1>9. /\ ops' = new
      /\ \/ disk' = new /\ lagging' = FALSE
         \/ disk' = disk /\ lagging' = TRUE
  BY <1>1 DEF SaveTaken
<1>10. t \notin Spent
  <2> SUFFICES ASSUME t \in Spent PROVE FALSE
    OBVIOUS
  <2>1. t.when < ops[list][i].when
    BY <1>3, <1>6 DEF Recorded
  <2> QED BY <1>7, <2>1
<1>11. TypeOK'
  <2>1. budget' \in 0..Max({PerFrame, 1})
    <3>1. budget \in 0..Max({PerFrame, 1}) /\ Max({PerFrame, 1}) \in Nat
      BY LargestBudget DEF IInv, TypeOK
    <3> HIDE DEF t
    <3> QED BY <1>1, <3>1
  <2>2. due' \subseteq Turn /\ Cardinality(due') <= 1 /\ excused' \subseteq Turn
    <3>1. Cardinality({t}) = 1
      BY FS_Singleton
    <3>2. due' \subseteq Turn /\ excused \subseteq Turn
      BY <1>1, <1>7 DEF IInv, TypeOK
    <3> HIDE DEF t
    <3> QED BY <1>1, <3>1, <3>2
  <2>3. /\ ops' \in Document /\ Loadable(ops') /\ disk' \in Document /\ Loadable(disk')
        /\ lagging' \in BOOLEAN
    BY <1>3, <1>8, <1>9 DEF Recorded, Sound
  <2>4. /\ step' \in Lists \cup {"commands", "down"} /\ clock' \in 0..MaxTime
        /\ done' \subseteq Turn
        /\ issued' \subseteq [list : Lists, id : Nat \ {0}, what : Maps \cup Messages]
    BY <1>1 DEF IInv, TypeOK
  <2> QED BY <2>1, <2>2, <2>3, <2>4 DEF TypeOK, Loadable
<1>12. CASE disk' = new /\ lagging' = FALSE
  <2>1. Spent' \subseteq Spent \cup {t} /\ excused' = excused
    BY <1>1, <1>12 DEF Spent
  <2>2. Recorded(new, issued, Spent)
    BY <1>3, <1>5, RecordedLater
  <2>3. Recorded(new, issued, Spent')
    <3>1. t.id < new.nextId /\ \A e \in Entries(new, t.list) : e.id = t.id => t.when < e.when
      BY <1>5, <1>6
    <3> HIDE DEF t
    <3> QED BY <2>1, <2>2, <3>1 DEF Recorded
  <2>4. Later(new, new)
    BY <1>8, LaterReflexive
  <2>5. DocumentsAgree'
    BY <1>1, <1>2, <1>5, <1>8, <1>9, <1>12, <2>3, <2>4 DEF DocumentsAgree
  <2>6. NothingTwice'
    <3>1. t \in done => t \in excused
      BY <1>10 DEF Spent
    <3> HIDE DEF t
    <3> QED BY <1>1, <2>1, <3>1 DEF NothingTwice
  <2> QED BY <1>1, <1>11, <2>5, <2>6 DEF IInv
<1>13. CASE disk' = disk /\ lagging' = TRUE
  <2>1. excused' = excused \cup due'
    BY <1>1, <1>13
  <2>2. Spent' \in SUBSET Spent
    BY <1>1, <2>1 DEF Spent
  <2>3. Recorded(disk, issued, Spent')
    BY <1>3, <2>2, RecordedFewer
  <2>4. Later(new, disk)
    BY <1>3, <1>5, <1>8, LaterTransitive
  <2>5. DocumentsAgree'
    BY <1>1, <1>2, <1>3, <1>5, <1>9, <1>13, <2>3, <2>4 DEF DocumentsAgree
  <2>6. NothingTwice'
    BY <2>1 DEF NothingTwice
  <2> QED BY <1>1, <1>11, <2>5, <2>6 DEF IInv
<1> QED
  BY <1>9, <1>12, <1>13

LEMMA CarryOutKeepsInv ==
  ASSUME IInv, CarryOut
  PROVE  IInv'
<1>1. /\ done' = done \cup due /\ due' = {}
      /\ ops' = ops /\ disk' = disk /\ step' = step /\ budget' = budget /\ clock' = clock
      /\ lagging' = lagging /\ excused' = excused /\ issued' = issued /\ due # {}
  BY DEF CarryOut, storeVars
<1>2. Spent' = Spent
  BY <1>1 DEF Spent
<1>3. Cardinality(due') <= 1
  BY <1>1, FS_EmptySet
<1>4. TypeOK'
  BY <1>1, <1>3 DEF IInv, TypeOK, Loadable
<1>5. DocumentsAgree'
  BY <1>1, <1>2 DEF IInv, DocumentsAgree
<1> QED
  BY <1>1, <1>4, <1>5 DEF IInv, NothingTwice

LEMMA BeginPartKeepsInv ==
  ASSUME IInv, step # "down", NEW part \in Lists \cup {"commands"},
         NEW limit \in {0, 1, PerFrame}, BeginPart(part, limit)
  PROVE  IInv'
<1>1. /\ step' = part /\ budget' = limit
      /\ UNCHANGED <<storeVars, due, history>> /\ clock' = clock
  BY DEF BeginPart
<1>2. limit \in 0..Max({PerFrame, 1})
  BY LargestBudget, PerFrameAssumption
<1>3. step' # "down"
  BY <1>1 DEF Lists
<1>4. TypeOK'
  BY <1>1, <1>2 DEF IInv, TypeOK, Loadable, storeVars, history
<1> QED
  BY <1>1, <1>3, <1>4, FrameKeepsInv

LEMMA StartKeepsInv ==
  ASSUME IInv, Start
  PROVE  IInv'
<1>1. /\ step = "down" /\ step' = "commands" /\ budget' = budget /\ due' = due
      /\ clock' = clock /\ lagging' = lagging /\ done' = done /\ excused' = excused
      /\ issued' = issued
  BY DEF Start, history
<1>2. Spent' = Spent
  BY <1>1 DEF Spent
<1>3. PICK doc : /\ Recorded(doc, issued, Spent) /\ ops' = doc /\ disk' = doc
  <2>1. CASE disk = NoDocument /\ ops' = Empty /\ disk' = Empty
    <3>1. issued = {} /\ Spent = {}
      BY <2>1 DEF IInv, DocumentsAgree, Spent
    <3>2. Recorded(Empty, issued, Spent)
      BY <3>1, SoundEmpty DEF Recorded
    <3> QED BY <2>1, <3>2
  <2>2. CASE disk # NoDocument /\ ops' = Loaded(disk) /\ disk' = disk
    <3>1. Recorded(disk, issued, Spent)
      BY <2>2 DEF IInv, DocumentsAgree
    <3>2. Loaded(disk) = disk
      BY <3>1, LoadedSound DEF Recorded
    <3> QED BY <2>2, <3>1, <3>2
  <2> QED BY <2>1, <2>2 DEF Start
<1>4. Sound(doc) /\ doc \in Document /\ Loadable(doc) /\ doc # NoDocument
  BY <1>3, NoDocumentAssumption DEF Recorded, Sound
<1>5. Later(doc, doc)
  BY <1>4, LaterReflexive
<1>6. TypeOK'
  BY <1>1, <1>3, <1>4 DEF IInv, TypeOK, Loadable
<1>7. DocumentsAgree'
  BY <1>1, <1>2, <1>3, <1>4, <1>5 DEF DocumentsAgree
<1> QED
  BY <1>1, <1>6, <1>7 DEF IInv, NothingTwice

LEMMA HaltKeepsInv ==
  ASSUME IInv, Halt
  PROVE  IInv'
<1>1. /\ ops' = Empty /\ step' = "down" /\ budget' = 0 /\ due' = {} /\ lagging' = FALSE
      /\ disk' = disk /\ clock' = clock /\ done' = done /\ excused' = excused
      /\ issued' = issued /\ step # "down"
  BY DEF Halt
<1>2. Spent' \in SUBSET Spent
  BY <1>1 DEF Spent
<1>3. disk # NoDocument /\ Recorded(disk, issued, Spent)
  BY <1>1, Running
<1>4. Recorded(disk, issued, Spent')
  BY <1>2, <1>3, RecordedFewer
<1>5. Empty \in Document /\ Loadable(Empty)
  BY SoundEmpty DEF Sound
<1>6. budget' \in 0..Max({PerFrame, 1}) /\ Cardinality(due') <= 1
  BY <1>1, LargestBudget, FS_EmptySet
<1>7. TypeOK'
  BY <1>1, <1>5, <1>6 DEF IInv, TypeOK, Loadable
<1>8. DocumentsAgree'
  BY <1>1, <1>3, <1>4 DEF DocumentsAgree
<1>9. NothingTwice'
  BY <1>1 DEF NothingTwice
<1> QED
  BY <1>1, <1>7, <1>8, <1>9 DEF IInv

LEMMA TickKeepsInv ==
  ASSUME IInv, Tick
  PROVE  IInv'
<1>1. clock' \in 0..MaxTime
  BY TimesAssumption DEF IInv, TypeOK, Tick
<1>2. UNCHANGED <<storeVars, frameVars, history>>
  BY DEF Tick
<1>3. TypeOK'
  BY <1>1, <1>2 DEF IInv, TypeOK, Loadable, storeVars, frameVars, history
<1> QED
  BY <1>2, <1>3, FrameKeepsInv DEF frameVars

LEMMA StepInv == IInv /\ [Next]_vars => IInv'
<1> SUFFICES ASSUME IInv, [Next]_vars PROVE IInv'
  OBVIOUS
<1>1. CASE Command
  <2>1. ASSUME NEW list \in Lists, NEW what \in Contents(list),
               NEW when \in 0..(MaxTime + Future), NEW repeat \in Intervals(list),
               Add(list, what, when, repeat)
        PROVE  IInv'
    BY <2>1, AddKeepsInv
  <2>2. ASSUME NEW list \in Lists, NEW id \in 1..MaxId, Delete(list, id)
        PROVE  IInv'
    BY <2>2, DeleteKeepsInv
  <2>3. ASSUME NEW maps \in Rotations, SaveRotation(maps)
        PROVE  IInv'
    BY <2>3, SaveRotationKeepsInv
  <2>4. CASE RunNextMap
    BY <2>4, RunNextMapKeepsInv
  <2> QED BY <1>1, <2>1, <2>2, <2>3, <2>4 DEF Command
<1>2. CASE Frame
  <2>1. CASE BeginAnnouncements
    BY <2>1, BeginPartKeepsInv DEF BeginAnnouncements, Commands, Lists
  <2>2. CASE BeginMaps
    BY <2>2, BeginPartKeepsInv DEF BeginMaps, Lists
  <2>3. CASE EndFrame
    BY <2>3, BeginPartKeepsInv DEF EndFrame
  <2>4. ASSUME NEW list \in Lists, TakeDue(list) PROVE IInv'
    BY <2>4, TakeDueKeepsInv
  <2>5. CASE CarryOut
    BY <2>5, CarryOutKeepsInv
  <2> QED BY <1>2, <2>1, <2>2, <2>3, <2>4, <2>5 DEF Frame
<1>3. CASE Start
  BY <1>3, StartKeepsInv
<1>4. CASE Halt
  BY <1>4, HaltKeepsInv
<1>5. CASE Tick
  BY <1>5, TickKeepsInv
<1>6. CASE UNCHANGED vars
  <2>1. UNCHANGED <<storeVars, frameVars, clock, history>>
    BY <1>6 DEF vars
  <2>2. TypeOK'
    BY <2>1 DEF IInv, TypeOK, Loadable, storeVars, frameVars, history
  <2> QED BY <2>1, <2>2, FrameKeepsInv DEF frameVars
<1> QED
  BY <1>1, <1>2, <1>3, <1>4, <1>5, <1>6 DEF Next

LEMMA Inductive == Spec => []IInv
  BY InitInv, StepInv, PTL DEF Spec

-----------------------------------------------------------------------------
(* The theorems.                                                           *)

(* The store, its document and the history keep their types, and the lists *)
(* the limits of Load, for every limit.                                    *)
THEOREM OperationsTypeCorrect == Spec => []TypeOK
<1>1. IInv => TypeOK
  BY DEF IInv
<1> QED
  BY <1>1, Inductive, PTL

(* RunNextMap finds a map wherever the index points                        *)
(* (neo_admin_operations.cpp:297).                                         *)
THEOREM RotationIndexInRange == Spec => []IndexInRange
<1>1. IInv => IndexInRange
  <2> SUFFICES ASSUME IInv PROVE IndexInRange
    OBVIOUS
  <2>1. CASE step = "down"
    <3>1. ops.rotation = <<>>
      BY <2>1 DEF IInv, DocumentsAgree, Empty
    <3> QED BY <3>1 DEF IndexInRange
  <2>2. CASE step # "down"
    BY <2>2 DEF IInv, DocumentsAgree, Sound, IndexInRange
  <2> QED BY <2>1, <2>2
<1> QED
  BY <1>1, Inductive, PTL

(* An ID that was given to an entry never names another one                *)
(* (neo_admin_operations.cpp:248, :253, :120 and :150).                    *)
THEOREM IdsNameOneEntryForEver == Spec => []IdsNameOneEntry
<1>1. IInv => IdsNameOneEntry
  <2> SUFFICES ASSUME IInv PROVE IdsNameOneEntry
    OBVIOUS
  <2>1. \A a, b \in issued : a.id = b.id => a = b
    BY DEF IInv
  <2>2. disk # NoDocument => AllEntries(disk) \subseteq issued
    BY DEF IInv, DocumentsAgree, Recorded
  <2>3. AllEntries(ops) \subseteq issued
    <3>1. CASE step = "down"
      BY <3>1, SoundEmpty DEF IInv, DocumentsAgree
    <3>2. CASE step # "down"
      BY <3>2, Running DEF Recorded
    <3> QED BY <3>1, <3>2
  <2> QED BY <2>1, <2>2, <2>3 DEF IdsNameOneEntry
<1> QED
  BY <1>1, Inductive, PTL

(* Every operation takes back exactly what it did when its save fails.     *)
THEOREM OperationsMirrorDisk == Spec => []MirrorsDisk
<1>1. IInv => MirrorsDisk
  BY DEF IInv, DocumentsAgree, MirrorsDisk
<1> QED
  BY <1>1, Inductive, PTL

(* What waits in memory waits on disk, whatever saves failed.              *)
THEOREM NothingIsForgotten == Spec => []NothingForgotten
<1>1. IInv => NothingForgotten
  BY DEF IInv, DocumentsAgree, Later, NothingForgotten
<1> QED
  BY <1>1, Inductive, PTL

(* A turn whose removal was written is carried out once.                   *)
THEOREM NothingComesTwice == Spec => []NothingTwice
<1>1. IInv => NothingTwice
  BY DEF IInv
<1> QED
  BY <1>1, Inductive, PTL

-----------------------------------------------------------------------------
(* Turns come in order, and one at a time: what is taken is due, nothing   *)
(* in its list has waited longer, and everything else stays as it is.  An  *)
(* entry that repeats comes back once, at the next time of its grid after  *)
(* now, however many it has missed (lines 310-323 and 390-409).            *)
Successor(e, f) ==
  /\ f.id = e.id /\ f.what = e.what /\ f.repeat = e.repeat /\ e.repeat # 0
  /\ clock < f.when /\ f.when <= clock + e.repeat
  /\ \E missed \in Nat : f.when = e.when + (missed + 1) * e.repeat

TakesTheNextTurn(list, e) ==
  /\ e.when <= clock /\ \A f \in Entries(ops, list) : e.when <= f.when
  /\ due' = {[list |-> list, id |-> e.id, when |-> e.when]}
  /\ Entries(ops, list) \ {e} \subseteq Entries(ops', list)
  /\ \A f \in Entries(ops', list) : f \in Entries(ops, list) \ {e} \/ Successor(e, f)
  /\ e.repeat # 0 => \E f \in Entries(ops', list) : Successor(e, f)
  /\ \A other \in Lists : other # list => ops'[other] = ops[other]

TurnsInOrder ==
  \A list \in Lists : TakeDue(list) => \E e \in Entries(ops, list) : TakesTheNextTurn(list, e)

(* An entry leaves the list by its turn, by an administrator who names it, *)
(* or with the server: not by the commands for others, a save that failed  *)
(* and is taken back by hand, or a change of the rotation.                 *)
LeavesByTurn ==
  \A list \in Lists : \A e \in Entries(ops, list) :
    e \notin Entries(ops', list) =>
      \/ TakeDue(list) /\ TakesTheNextTurn(list, e)
      \/ Delete(list, e.id)
      \/ Halt

(* What a frame has left to do: a turn is two steps, taken and carried     *)
(* out, and each part has an end.                                          *)
FrameWork ==
  LET turns == 2 * budget + IF due = {} THEN 0 ELSE 1
  IN IF step = "announcements" THEN turns + 4
     ELSE IF step = "maps" THEN turns + 1 ELSE 0

FramesAreShort == FrameWork \in 0..(2 * PerFrame + 4)

FrameAdvances ==
  ~Commands => /\ Frame => FrameWork' < FrameWork
               /\ FrameWork' <= FrameWork

(* What the two edits of a list leave in it.                               *)
LEMMA EntriesAfterRemoval ==
  ASSUME NEW doc, Sound(doc), NEW list \in Lists, NEW i \in 1..Len(doc[list])
  PROVE  LET new == Put(doc, list, RemoveAt(doc[list], i), doc.nextId)
         IN /\ Entries(new, list) = Entries(doc, list) \ {doc[list][i]}
            /\ \A other \in Lists : other # list => new[other] = doc[other]
<1> DEFINE l == doc[list]
           s == RemoveAt(l, i)
           new == Put(doc, list, s, doc.nextId)
<1>0. doc \in Document /\ doc.nextId \in Nat \ {0}
  BY DEF Sound, Document
<1>1. l \in Seq(Entry(list)) /\ Len(l) \in Nat
      /\ \A e : e \in Entries(doc, list) <=> \E k \in 1..Len(l) : e = l[k]
  BY <1>0, ListTypes
<1>2. \A j, k \in 1..Len(l) : l[j].id = l[k].id => j = k
  BY DEF Sound
<1> HIDE DEF l
<1>3. i \in 1..Len(l)
  BY DEF l
<1>4. /\ s \in Seq(Entry(list)) /\ Len(s) = Len(l) - 1
      /\ \A k \in 1..(Len(l) - 1) : s[k] = IF k < i THEN l[k] ELSE l[k + 1]
  BY <1>1, <1>3, RemoveAtProperties
<1> HIDE DEF s
<1>5. /\ new \in Document /\ new[list] = s
      /\ \A other \in Lists : other # list => new[other] = doc[other]
  BY <1>0, <1>4, PutFacts
<1>6. \A e : e \in Entries(new, list) <=> \E k \in 1..Len(s) : e = s[k]
  <2> HIDE DEF new
  <2> QED BY <1>5, ListTypes
<1> HIDE DEF new
<1>7. ASSUME NEW k \in 1..Len(s)
      PROVE  \E m \in 1..Len(l) : m # i /\ s[k] = l[m]
  <2>1. (IF k < i THEN k ELSE k + 1) \in 1..Len(l) /\ (IF k < i THEN k ELSE k + 1) # i
    BY <1>1, <1>3, <1>4
  <2> QED BY <1>4, <2>1
<1>8. ASSUME NEW m \in 1..Len(l), m # i
      PROVE  \E k \in 1..Len(s) : s[k] = l[m]
  <2>1. CASE m < i
    <3>1. m \in 1..(Len(l) - 1)
      BY <1>1, <1>3, <2>1
    <3> QED BY <1>4, <2>1, <3>1
  <2>2. CASE ~(m < i)
    <3>1. m - 1 \in 1..(Len(l) - 1) /\ ~(m - 1 < i) /\ (m - 1) + 1 = m
      BY <1>1, <1>3, <1>8, <2>2
    <3> QED BY <1>4, <3>1
  <2> QED BY <2>1, <2>2
<1>9. \A m \in 1..Len(l) : m # i <=> l[m] # l[i]
  BY <1>2, <1>3
<1>10. ASSUME NEW e
       PROVE  e \in Entries(new, list) <=> e \in Entries(doc, list) \ {l[i]}
  <2>1. ASSUME NEW k \in 1..Len(s), e = s[k]
        PROVE  e \in Entries(doc, list) \ {l[i]}
    <3>1. PICK m \in 1..Len(l) : m # i /\ s[k] = l[m]
      BY <1>7
    <3>2. e = l[m] /\ l[m] # l[i]
      BY <1>9, <2>1, <3>1
    <3> QED BY <1>1, <3>2
  <2>2. ASSUME e \in Entries(doc, list) \ {l[i]}
        PROVE  \E k \in 1..Len(s) : e = s[k]
    <3>1. PICK m \in 1..Len(l) : e = l[m]
      BY <1>1, <2>2
    <3>2. m # i
      BY <2>2, <3>1
    <3> QED BY <1>8, <3>1, <3>2
  <2> QED BY <1>6, <2>1, <2>2
<1>11. Entries(new, list) = Entries(doc, list) \ {l[i]}
  BY <1>10
<1> QED
  BY <1>5, <1>11 DEF l, s, new

LEMMA EntriesAfterMove ==
  ASSUME NEW doc, Sound(doc), NEW list \in Lists, NEW i \in 1..Len(doc[list]),
         NEW moved \in Entry(list)
  PROVE  LET new == Put(doc, list, [doc[list] EXCEPT ![i] = moved], doc.nextId)
         IN /\ Entries(new, list) = (Entries(doc, list) \ {doc[list][i]}) \cup {moved}
            /\ \A other \in Lists : other # list => new[other] = doc[other]
<1> DEFINE l == doc[list]
           s == [l EXCEPT ![i] = moved]
           new == Put(doc, list, s, doc.nextId)
<1>0. doc \in Document /\ doc.nextId \in Nat \ {0}
  BY DEF Sound, Document
<1>1. l \in Seq(Entry(list)) /\ Len(l) \in Nat
      /\ \A e : e \in Entries(doc, list) <=> \E k \in 1..Len(l) : e = l[k]
  BY <1>0, ListTypes
<1>2. \A j, k \in 1..Len(l) : l[j].id = l[k].id => j = k
  BY DEF Sound
<1> HIDE DEF l
<1>3. i \in 1..Len(l)
  BY DEF l
<1>4. /\ s \in Seq(Entry(list)) /\ Len(s) = Len(l)
      /\ \A k \in 1..Len(l) : s[k] = IF k = i THEN moved ELSE l[k]
  BY <1>1, <1>3, ExceptSeq
<1> HIDE DEF s
<1>5. /\ new \in Document /\ new[list] = s
      /\ \A other \in Lists : other # list => new[other] = doc[other]
  BY <1>0, <1>4, PutFacts
<1>6. \A e : e \in Entries(new, list) <=> \E k \in 1..Len(s) : e = s[k]
  <2> HIDE DEF new
  <2> QED BY <1>5, ListTypes
<1> HIDE DEF new
<1>7. \A m \in 1..Len(l) : m # i <=> l[m] # l[i]
  BY <1>2, <1>3
<1>8. ASSUME NEW e
      PROVE  e \in Entries(new, list) <=> e \in (Entries(doc, list) \ {l[i]}) \cup {moved}
  <2>1. ASSUME NEW k \in 1..Len(l), e = s[k]
        PROVE  e \in (Entries(doc, list) \ {l[i]}) \cup {moved}
    <3>1. CASE k = i
      BY <1>4, <2>1, <3>1
    <3>2. CASE k # i
      <4>1. e = l[k] /\ l[k] # l[i]
        BY <1>4, <1>7, <2>1, <3>2
      <4> QED BY <1>1, <4>1
    <3> QED BY <3>1, <3>2
  <2>2. ASSUME NEW k \in 1..Len(l), k # i, e = l[k]
        PROVE  e = s[k]
    BY <1>4, <2>2
  <2>3. moved = s[i]
    BY <1>3, <1>4
  <2> QED BY <1>1, <1>3, <1>4, <1>6, <1>7, <2>1, <2>2, <2>3
<1>9. Entries(new, list) = (Entries(doc, list) \ {l[i]}) \cup {moved}
  BY <1>8
<1> QED
  BY <1>5, <1>9 DEF l, s, new

LEMMA Division ==
  ASSUME NEW a \in Nat, NEW b \in Nat \ {0}
  PROVE  /\ a \div b \in Nat
         /\ (a \div b) * b <= a /\ a < (a \div b + 1) * b
         /\ (a \div b + 1) * b <= a + b
<1>1. \A m \in Nat, n \in Nat \ {0} : m \div n \in Nat
  OBVIOUS
<1>2. \A m \in Nat, n \in Nat \ {0} : n * (m \div n) <= m
  OBVIOUS
<1>3. \A m \in Nat, n \in Nat : n > 0 => m < n * (m \div n) + n
  OBVIOUS
<1>4. \A q, n \in Nat : n * q \in Nat /\ q * n = n * q /\ (q + 1) * n = n * q + n
  OBVIOUS
<1> DEFINE q == a \div b
<1>5. q \in Nat /\ b \in Nat /\ b > 0 /\ b * q <= a /\ a < b * q + b
  BY <1>1, <1>2, <1>3
<1> HIDE DEF q
<1>6. b * q \in Nat /\ q * b = b * q /\ (q + 1) * b = b * q + b
  BY <1>4, <1>5
<1>7. q * b <= a /\ a < (q + 1) * b /\ (q + 1) * b <= a + b
  BY <1>5, <1>6
<1> QED
  BY <1>5, <1>7 DEF q

(* A repeating announcement comes back at the next time of its grid.       *)
LEMMA NextTimeIsNext ==
  ASSUME NEW e, e.when \in Nat, e.repeat \in Nat \ {0}, clock \in Nat, e.when <= clock
  PROVE  /\ clock < NextTime(e) /\ NextTime(e) <= clock + e.repeat
         /\ \E missed \in Nat : NextTime(e) = e.when + (missed + 1) * e.repeat
<1> DEFINE q == (clock - e.when) \div e.repeat
<1>1. clock - e.when \in Nat
  OBVIOUS
<1>2. /\ q \in Nat
      /\ q * e.repeat <= clock - e.when /\ clock - e.when < (q + 1) * e.repeat
      /\ (q + 1) * e.repeat <= (clock - e.when) + e.repeat
  BY <1>1, Division
<1>3. NextTime(e) = e.when + (q + 1) * e.repeat
  BY DEF NextTime
<1> HIDE DEF q
<1>4. (q + 1) * e.repeat \in Nat
  <2>1. \A m, n \in Nat : (m + 1) * n \in Nat
    OBVIOUS
  <2> QED BY <1>2, <2>1
<1> QED
  BY <1>2, <1>3, <1>4

LEMMA TakenEntries ==
  ASSUME Sound(ops), clock \in Nat, NEW list \in Lists, IsDue(list)
  PROVE  LET e == ops[list][Earliest(list)]
             new == Taken(list, Earliest(list))
         IN /\ e \in Entries(ops, list) /\ e.when <= clock
            /\ \A f \in Entries(ops, list) : e.when <= f.when
            /\ \A other \in Lists : other # list => new[other] = ops[other]
            /\ \/ e.repeat = 0 /\ Entries(new, list) = Entries(ops, list) \ {e}
               \/ /\ e.repeat # 0
                  /\ \E f : /\ Successor(e, f)
                            /\ Entries(new, list) = (Entries(ops, list) \ {e}) \cup {f}
<1> DEFINE i == Earliest(list)
           e == ops[list][i]
           new == Taken(list, i)
<1>1. /\ i \in 1..Len(ops[list]) /\ e.when <= clock
      /\ \A f \in Entries(ops, list) : e.when <= f.when
  BY EarliestFacts
<1> HIDE DEF i
<1>2. e \in Entry(list) /\ e \in Entries(ops, list)
  BY <1>1, ListTypes DEF Sound
<1>3. e.when \in Nat /\ e.repeat \in Nat /\ e.repeat \in Intervals(list)
  <2>1. Intervals(list) \subseteq Nat
    BY RepeatsAssumption DEF Intervals
  <2> QED BY <1>2, <2>1 DEF Entry
<1>4. CASE e.repeat = 0
  <2>1. new = Put(ops, list, RemoveAt(ops[list], i), ops.nextId)
    BY <1>1, <1>4, TakenShape
  <2> HIDE DEF new
  <2>2. /\ Entries(new, list) = Entries(ops, list) \ {e}
        /\ \A other \in Lists : other # list => new[other] = ops[other]
    BY <1>1, <2>1, EntriesAfterRemoval
  <2> QED BY <1>1, <1>2, <1>4, <2>2 DEF i, new
<1>5. CASE e.repeat # 0
  <2> DEFINE when == NextTime(e)
             f == [e EXCEPT !.when = when]
  <2>1. when \in Nat
    BY <1>1, <1>3, <1>5, NextTimeFacts
  <2>2. /\ clock < when /\ when <= clock + e.repeat
        /\ \E missed \in Nat : when = e.when + (missed + 1) * e.repeat
    BY <1>1, <1>3, <1>5, NextTimeIsNext
  <2>3. new = Put(ops, list, [ops[list] EXCEPT ![i] = f], ops.nextId)
    BY <1>1, <1>5, TakenShape
  <2> HIDE DEF when, new
  <2>4. /\ f \in Entry(list)
        /\ f.id = e.id /\ f.what = e.what /\ f.repeat = e.repeat /\ f.when = when
    BY <1>2, <2>1 DEF Entry
  <2> HIDE DEF f
  <2>5. /\ Entries(new, list) = (Entries(ops, list) \ {e}) \cup {f}
        /\ \A other \in Lists : other # list => new[other] = ops[other]
    BY <1>1, <2>3, <2>4, EntriesAfterMove
  <2>6. Successor(e, f)
    BY <1>5, <2>2, <2>4 DEF Successor
  <2> QED BY <1>1, <1>2, <1>5, <2>5, <2>6 DEF i, new
<1> QED
  BY <1>4, <1>5

LEMMA TakeDueIsTheNextTurn ==
  ASSUME IInv, NEW list \in Lists, TakeDue(list)
  PROVE  LET e == ops[list][Earliest(list)]
         IN /\ TakesTheNextTurn(list, e) /\ e \in Entries(ops, list)
            /\ Entries(ops, list) \ {e} \subseteq Entries(ops', list)
<1> DEFINE e == ops[list][Earliest(list)]
           new == Taken(list, Earliest(list))
<1>1. /\ step = list /\ IsDue(list) /\ ops' = new
      /\ due' = {[list |-> list, id |-> e.id, when |-> e.when]}
  BY DEF TakeDue, SaveTaken
<1>2. Sound(ops) /\ clock \in Nat
  BY <1>1, Running, TimesAssumption DEF IInv, TypeOK, Lists
<1>3. /\ e \in Entries(ops, list) /\ e.when <= clock
      /\ \A f \in Entries(ops, list) : e.when <= f.when
      /\ \A other \in Lists : other # list => new[other] = ops[other]
      /\ \/ e.repeat = 0 /\ Entries(new, list) = Entries(ops, list) \ {e}
         \/ /\ e.repeat # 0
            /\ \E f : /\ Successor(e, f)
                      /\ Entries(new, list) = (Entries(ops, list) \ {e}) \cup {f}
  BY <1>1, <1>2, TakenEntries
<1> HIDE DEF e, new
<1>4. TakesTheNextTurn(list, e)
  BY <1>1, <1>3 DEF TakesTheNextTurn
<1> QED
  BY <1>1, <1>3, <1>4 DEF e

(* Commands run between frames.                                            *)
LEMMA CommandsBetweenFrames == Command => Commands /\ UNCHANGED frameVars
<1>1. ASSUME NEW list, NEW what, NEW when, NEW repeat, Add(list, what, when, repeat)
      PROVE  Commands /\ UNCHANGED frameVars
  BY <1>1 DEF Add
<1>2. ASSUME NEW list, NEW id, Delete(list, id)
      PROVE  Commands /\ UNCHANGED frameVars
  BY <1>2 DEF Delete
<1>3. ASSUME NEW maps, SaveRotation(maps)
      PROVE  Commands /\ UNCHANGED frameVars
  BY <1>3 DEF SaveRotation
<1>4. RunNextMap => Commands /\ UNCHANGED frameVars
  BY DEF RunNextMap
<1> QED
  BY <1>1, <1>2, <1>3, <1>4 DEF Command

(* A command adds an entry, removes the one it names or edits the          *)
(* rotation; a save that fails puts everything back.                       *)
LEMMA CommandsLeaveEntries ==
  ASSUME IInv, Command, NEW list \in Lists, NEW e \in Entries(ops, list),
         e \notin Entries(ops', list)
  PROVE  Delete(list, e.id)
<1>1. Sound(ops) /\ ops \in Document
  <2>1. step = "commands"
    BY CommandsBetweenFrames DEF Commands
  <2> QED BY <2>1, Running
<1>2. ops' # ops
  OBVIOUS
<1>3. ASSUME NEW which \in Lists, NEW what \in Contents(which), NEW when \in Nat,
             NEW repeat \in Intervals(which), Add(which, what, when, repeat)
      PROVE  FALSE
  <2> DEFINE x == [id |-> ops.nextId, what |-> what, when |-> when, repeat |-> repeat]
             new == Added(which, x)
  <2>1. ops' = new \/ ops' = UndoAdd(which, new)
    BY <1>3 DEF Add, Save
  <2>2. /\ x \in Entry(which) /\ x.id = ops.nextId /\ Len(ops[which]) < MaxEntries
    BY <1>1, <1>3 DEF Add, MayAdd, Document, Entry
  <2> HIDE DEF x
  <2>3. UndoAdd(which, new) = ops /\ Entries(ops, list) \subseteq Entries(new, list)
    BY <1>1, <2>2, Addition
  <2> QED BY <1>2, <2>1, <2>3
<1>4. ASSUME NEW which \in Lists, NEW id, Delete(which, id)
      PROVE  which = list /\ id = e.id
  <2> DEFINE i == Position(which, id)
             new == [ops EXCEPT ![which] = RemoveAt(ops[which], i)]
  <2>1. /\ i # 0
        /\ ops' = new \/ ops' = UndoDelete(which, new, i, ops[which][i])
    BY <1>4 DEF Delete, Save
  <2>2. i \in 1..Len(ops[which]) /\ ops[which][i].id = id
    BY <1>1, <2>1, PositionFacts
  <2> HIDE DEF i
  <2>3. /\ new = Put(ops, which, RemoveAt(ops[which], i), ops.nextId)
        /\ UndoDelete(which, new, i, ops[which][i]) = ops
    BY <1>1, <2>2, RemovalUndone
  <2> HIDE DEF new
  <2>4. /\ Entries(new, which) = Entries(ops, which) \ {ops[which][i]}
        /\ \A other \in Lists : other # which => new[other] = ops[other]
    BY <1>1, <2>2, <2>3, EntriesAfterRemoval
  <2>5. ops' = new
    BY <1>2, <2>1, <2>3
  <2>6. which = list
    BY <2>4, <2>5 DEF Entries
  <2> QED BY <2>2, <2>4, <2>5, <2>6
<1>5. ASSUME ops'.maps = ops.maps, ops'.announcements = ops.announcements
      PROVE  FALSE
  BY <1>5 DEF Entries, Lists
<1>6. ASSUME NEW maps \in Rotations, SaveRotation(maps)
      PROVE  FALSE
  BY <1>1, <1>5, <1>6 DEF SaveRotation, Save, Rotated, Document
<1>7. ASSUME RunNextMap
      PROVE  FALSE
  BY <1>1, <1>5, <1>7 DEF RunNextMap, Save, UndoAdvance, Document
<1>8. 0..(MaxTime + Future) \subseteq Nat
  BY TimesAssumption
<1> QED
  BY <1>3, <1>4, <1>6, <1>7, <1>8 DEF Command

(* In every execution, for any intervals, limits and number of entries.    *)
(* Together with the two theorems below these are the safety half of       *)
(* EveryTurnComes: what waits is ordered by its time, stays until it is    *)
(* its turn, and each frame comes to its end.                              *)
THEOREM TurnsComeInOrder == Spec => [][TurnsInOrder]_vars
<1>1. ASSUME IInv
      PROVE  TurnsInOrder
  BY <1>1, TakeDueIsTheNextTurn DEF TurnsInOrder
<1> QED
  BY <1>1, Inductive, PTL

(* Whatever saves fail and whatever is removed meanwhile, an entry that     *)
(* was accepted is there until its own turn or its own removal.            *)
THEOREM NothingIsDropped == Spec => [][LeavesByTurn]_vars
<1>1. ASSUME IInv, [Next]_vars
      PROVE  LeavesByTurn
  <2> SUFFICES ASSUME NEW list \in Lists, NEW e \in Entries(ops, list),
                      e \notin Entries(ops', list)
               PROVE  \/ TakeDue(list) /\ TakesTheNextTurn(list, e)
                      \/ Delete(list, e.id)
                      \/ Halt
    BY DEF LeavesByTurn
  <2>1. ops' # ops
    OBVIOUS
  <2>2. CASE Command
    BY <1>1, <2>2, CommandsLeaveEntries
  <2>3. ASSUME NEW which \in Lists, TakeDue(which)
        PROVE  TakeDue(list) /\ TakesTheNextTurn(list, e)
    <3> DEFINE taken == ops[which][Earliest(which)]
    <3>1. /\ TakesTheNextTurn(which, taken)
          /\ Entries(ops, which) \ {taken} \subseteq Entries(ops', which)
      BY <1>1, <2>3, TakeDueIsTheNextTurn
    <3>2. \A other \in Lists : other # which => ops'[other] = ops[other]
      BY <3>1 DEF TakesTheNextTurn
    <3> HIDE DEF taken
    <3>3. which = list
      BY <3>2 DEF Entries
    <3>4. e = taken
      BY <3>1, <3>3
    <3> QED BY <2>3, <3>1, <3>3, <3>4
  <2>4. CASE BeginAnnouncements \/ BeginMaps \/ EndFrame \/ CarryOut
    BY <2>1, <2>4 DEF BeginAnnouncements, BeginMaps, EndFrame, BeginPart, CarryOut, storeVars
  <2>5. CASE Start
    <3>1. ops = Empty
      BY <1>1, <2>5 DEF Start, IInv, DocumentsAgree
    <3> QED BY <3>1, SoundEmpty
  <2>6. CASE Tick \/ UNCHANGED vars
    BY <2>1, <2>6 DEF Tick, vars, storeVars
  <2> QED
    BY <1>1, <2>2, <2>3, <2>4, <2>5, <2>6 DEF Next, Frame
<1> QED
  BY <1>1, Inductive, PTL DEF Spec

(* What a frame may still take, which its work is counted from.            *)
Budgeted ==
  /\ budget \in Nat
  /\ step = "announcements" => budget <= PerFrame /\ (due # {} => budget < PerFrame)
  /\ step = "maps" => budget <= 1 /\ (due # {} => budget < 1)
  /\ step \notin Lists => due = {}

LEMMA BudgetedStep ==
  ASSUME Budgeted, [Next]_vars
  PROVE  Budgeted' /\ FrameAdvances
<1>0. PerFrame \in Nat /\ PerFrame >= 1
  BY PerFrameAssumption
<1>1. CASE Command
  <2>1. step = "commands" /\ UNCHANGED frameVars
    BY <1>1, CommandsBetweenFrames DEF Commands
  <2> QED
    BY <2>1 DEF Budgeted, frameVars, FrameAdvances, Commands
<1>2. CASE BeginAnnouncements
  BY <1>0, <1>2 DEF BeginAnnouncements, BeginPart, Budgeted, FrameAdvances, Commands, Lists
<1>3. CASE BeginMaps
  <2>1. /\ step = "announcements" /\ due = {} /\ step' = "maps" /\ budget' = 1 /\ due' = due
    BY <1>3 DEF BeginMaps, BeginPart
  <2> QED
    BY <1>0, <2>1 DEF Budgeted, FrameAdvances, FrameWork, Lists
<1>4. CASE EndFrame
  <2>1. /\ step = "maps" /\ due = {} /\ step' = "commands" /\ budget' = 0 /\ due' = due
    BY <1>4 DEF EndFrame, BeginPart
  <2> QED
    BY <1>0, <2>1 DEF Budgeted, FrameAdvances, FrameWork, Lists
<1>5. ASSUME NEW list \in Lists, TakeDue(list)
      PROVE  Budgeted' /\ FrameAdvances
  <2>1. /\ step = list /\ due = {} /\ budget > 0 /\ due' # {}
        /\ step' = step /\ budget' = budget - 1
    BY <1>5 DEF TakeDue
  <2> QED
    BY <1>0, <2>1 DEF Budgeted, FrameAdvances, FrameWork, Lists
<1>6. CASE CarryOut
  <2>1. due # {} /\ due' = {} /\ step' = step /\ budget' = budget
    BY <1>6 DEF CarryOut
  <2>2. step \in Lists
    BY <2>1 DEF Budgeted
  <2> QED
    BY <1>0, <2>1, <2>2 DEF Budgeted, FrameAdvances, FrameWork, Lists
<1>7. CASE Start
  <2>1. step = "down" /\ step' = "commands" /\ UNCHANGED <<budget, due>>
    BY <1>7 DEF Start
  <2>2. ~BeginAnnouncements /\ ~BeginMaps /\ ~EndFrame
    BY <2>1 DEF BeginAnnouncements, BeginMaps, EndFrame, Commands
  <2>3. ASSUME NEW list \in Lists, TakeDue(list)
        PROVE  FALSE
    BY <2>1, <2>3 DEF TakeDue, Lists
  <2>4. ~CarryOut
    BY <2>1 DEF CarryOut, Budgeted, Lists
  <2>5. ~Frame
    BY <2>2, <2>3, <2>4 DEF Frame
  <2> QED
    BY <2>1, <2>5 DEF Budgeted, FrameAdvances, FrameWork, Lists
<1>8. CASE Halt
  <2>1. step' = "down" /\ budget' = 0 /\ due' = {}
    BY <1>8 DEF Halt
  <2>2. FrameWork \in Nat
    BY DEF Budgeted, FrameWork
  <2>3. FrameWork' = 0
    BY <2>1 DEF FrameWork
  <2>4. ASSUME Frame
        PROVE  step' # "down"
    <3>1. ASSUME NEW list \in Lists, TakeDue(list)
          PROVE  step' # "down"
      BY <3>1 DEF TakeDue, Lists
    <3>2. BeginAnnouncements \/ BeginMaps \/ EndFrame => step' # "down"
      BY DEF BeginAnnouncements, BeginMaps, EndFrame, BeginPart
    <3>3. CarryOut => step' # "down"
      BY DEF CarryOut, Budgeted, Lists
    <3> QED BY <2>4, <3>1, <3>2, <3>3 DEF Frame
  <2>5. ~Frame
    BY <2>1, <2>4
  <2> QED
    BY <1>0, <2>1, <2>2, <2>3, <2>5 DEF Budgeted, FrameAdvances, Lists
<1>9. CASE (Tick \/ UNCHANGED vars) /\ ~Frame
  <2>1. UNCHANGED <<step, budget, due>>
    BY <1>9 DEF Tick, vars, frameVars
  <2>2. FrameWork \in Nat /\ FrameWork' = FrameWork /\ Budgeted'
    BY <2>1 DEF Budgeted, FrameWork
  <2> QED
    BY <1>9, <2>1, <2>2 DEF FrameAdvances
<1> QED
  BY <1>1, <1>2, <1>3, <1>4, <1>5, <1>6, <1>7, <1>8, <1>9 DEF Next, Frame

LEMMA BudgetedFrames == Budgeted => FramesAreShort
<1> SUFFICES ASSUME Budgeted
             PROVE  FramesAreShort
  OBVIOUS
<1>1. PerFrame \in Nat /\ PerFrame >= 1 /\ budget \in Nat
  BY PerFrameAssumption DEF Budgeted
<1>2. CASE step = "announcements"
  BY <1>1, <1>2 DEF Budgeted, FramesAreShort, FrameWork
<1>3. CASE step = "maps"
  BY <1>1, <1>3 DEF Budgeted, FramesAreShort, FrameWork
<1>4. CASE step \notin Lists
  BY <1>1, <1>4 DEF FramesAreShort, FrameWork, Lists
<1> QED
  BY <1>2, <1>3, <1>4 DEF Lists

(* However much is due, a frame is at most 2 * PerFrame + 4 steps: every   *)
(* step of it leaves less to do, and neither the clock nor anything else   *)
(* that happens meanwhile leaves more.                                     *)
THEOREM FramesEnd == Spec => []FramesAreShort /\ [][FrameAdvances]_vars
<1>1. Init => Budgeted
  BY DEF Init, Budgeted, Lists
<1>2. Budgeted /\ [Next]_vars => Budgeted'
  BY BudgetedStep
<1>3. ASSUME Budgeted, [Next]_vars
      PROVE  FrameAdvances
  BY <1>3, BudgetedStep
<1> QED
  BY <1>1, <1>2, <1>3, BudgetedFrames, PTL DEF Spec

=============================================================================
