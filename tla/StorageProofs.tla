---------------------------- MODULE StorageProofs ----------------------------
(***************************************************************************)
(* Proofs about Storage, for any set of Steam IDs and any documents.       *)
(*                                                                         *)
(* The migration is safe because of what is known at each of its steps:    *)
(* before the links are cleared they are in the row of the administrators, *)
(* and nobody can be deleted before they are cleared, because that takes a *)
(* running plugin.  Once cleared, the row of the accounts stays so.        *)
(***************************************************************************)
EXTENDS StorageRefinement, FunctionTheorems, TLAPS

(* The links are gone for good once someone could be deleted.              *)
Cleared == database["accounts"] = {} /\ database["game_admins"] # NoDocument

(* What the start has done when it is at each of its steps.                *)
Progress ==
  /\ phase \notin {"rest", "up", "failed"} => loaded \cap Others = {}
  /\ phase = "game_admins" => database["accounts"] = memory["accounts"]
  /\ phase = "links" =>
       /\ database["accounts"] = memory["accounts"]
       /\ database["game_admins"] = memory["game_admins"]
       /\ memory["accounts"] \subseteq memory["game_admins"]
  /\ phase \in {"rest", "up"} =>
       /\ Cleared
       /\ database["game_admins"] = memory["game_admins"]
  /\ phase = "up" => Others \subseteq loaded

(* A deleted administrator is in neither document.                         *)
RemovedGone ==
  /\ removed # {} => Cleared
  /\ database["game_admins"] # NoDocument => removed \cap database["game_admins"] = {}
  /\ removed \cap memory["game_admins"] = {}

(* A loaded store mirrors its row until the database is closed.            *)
Mirror ==
  phase \in {"rest", "up"} => \A d \in loaded \cap Others : memory[d] = database[d]

Standing == \A d \in durable : database[d] = accepted[d] /\ database[d] # NoDocument

IInv ==
  /\ StorageTypeOK
  /\ Progress
  /\ LinksKept
  /\ RemovedGone
  /\ Mirror
  /\ Standing
-----------------------------------------------------------------------------
LEMMA DocumentFacts ==
  /\ "accounts" \in Documents /\ "game_admins" \in Documents
  /\ Others \subseteq Documents
  /\ "accounts" \notin Others /\ "game_admins" \notin Others
  /\ MenuStores \subseteq Others
BY RestAssumption, MenuAssumption DEF Documents

LEMMA ContentIsPresent == \A content \in Content : content # NoDocument
BY NoDocumentAssumption DEF Content

LEMMA EmptyIsPresent == {} \in Content /\ {} # NoDocument
BY ContentIsPresent DEF Content

LEMMA RowIsContent ==
  ASSUME StorageTypeOK, NEW d \in Documents
  PROVE  /\ Row(d) \in Content
         /\ File(d) \in Content
         /\ database[d] # NoDocument => Row(d) = database[d]
BY DEF StorageTypeOK, Row, File, Stored, Content

LEMMA HoldingType ==
  ASSUME StorageTypeOK, NEW d \in Documents, NEW content \in Content, Holding(d, content)
  PROVE  /\ memory' \in [Documents -> Stored]
         /\ \A e \in Documents : memory'[e] = IF e = d THEN content ELSE memory[e]
         /\ \A e \in Documents : memory'[e] # NoDocument
         /\ loaded' \subseteq Documents
BY ContentIsPresent DEF StorageTypeOK, Holding, Stored

LEMMA WritingType ==
  ASSUME StorageTypeOK, NEW d \in Documents, NEW content \in Content, Writing(d, content)
  PROVE  /\ database' \in [Documents -> Stored]
         /\ \A e \in Documents : database'[e] = IF e = d THEN content ELSE database[e]
BY DEF StorageTypeOK, Writing, Stored

LEMMA InitInv == Init => IInv
<1> SUFFICES ASSUME Init PROVE IInv
  OBVIOUS
<1>1. /\ File("accounts") \in Content
      /\ memory \in [Documents -> Stored] /\ database \in [Documents -> Stored]
      /\ \A d \in Documents : memory[d] = {} /\ database[d] = NoDocument
      /\ {} # NoDocument
  BY DocumentFacts, ContentIsPresent DEF Init, Empty, Stored, Content, File
<1>2. StorageTypeOK
  BY <1>1, DocumentFacts DEF StorageTypeOK, Init, Stored, Content
<1>3. LinksKept
  BY <1>1, DocumentFacts DEF LinksKept, Found, Init
<1>4. Progress /\ RemovedGone /\ Mirror /\ Standing
  BY <1>1, DocumentFacts DEF Progress, RemovedGone, Mirror, Standing, Init
<1> QED
  BY <1>2, <1>3, <1>4 DEF IInv

-----------------------------------------------------------------------------
LEMMA ConfigureInv == ASSUME IInv, Configure PROVE IInv'
BY DEF IInv, Configure, StorageTypeOK, Progress, LinksKept, Found, File, RemovedGone, Cleared,
  Mirror, Standing, places, histories

LEMMA ImportInv == ASSUME IInv, NEW d \in Documents, Import(d) PROVE IInv'
<1> USE DocumentFacts
<1>1. files[d] \in Content /\ database[d] = NoDocument /\ d \notin durable
  BY DEF IInv, Import, Importable, StorageTypeOK, Stored, Standing
<1>2. /\ database' \in [Documents -> Stored]
      /\ \A e \in Documents : database'[e] = IF e = d THEN files[d] ELSE database[e]
  BY <1>1, WritingType DEF IInv, Import
<1>3. /\ files' \in [Documents -> Stored]
      /\ \A e \in Documents : e # d => files'[e] = files[e]
  BY <1>1 DEF IInv, Import, StorageTypeOK, Stored
<1>4. UNCHANGED <<memory, loaded, phase, linked, removed, accepted, durable>>
  BY DEF Import, histories
<1>5. files[d] # NoDocument
  BY DEF Import, Importable
<1>6. InTurn(d)
  BY DEF Import
<1>7. StorageTypeOK'
  BY <1>2, <1>3, <1>4 DEF IInv, StorageTypeOK
<1>8. \A e \in Documents : Found(e)' = Found(e)
  BY <1>1, <1>2, <1>3, <1>5 DEF Found, File
<1>9. LinksKept'
  BY <1>4, <1>8 DEF IInv, LinksKept
<1>10. Progress'
  BY <1>1, <1>2, <1>4, <1>6, ContentIsPresent DEF IInv, Progress, InTurn, Cleared, StorageTypeOK
<1>11. RemovedGone'
  <2>1. Cleared => Cleared' /\ d \notin {"accounts", "game_admins"}
    BY <1>1, <1>2, EmptyIsPresent DEF Cleared
  <2> QED
    BY <1>2, <1>4, <2>1 DEF IInv, RemovedGone, Cleared
<1>12. Mirror'
  BY <1>2, <1>4, <1>6 DEF IInv, Mirror, InTurn
<1>13. Standing'
  BY <1>1, <1>2, <1>4 DEF IInv, Standing, StorageTypeOK
<1> QED
  BY <1>7, <1>9, <1>10, <1>11, <1>12, <1>13 DEF IInv
LEMMA LoadAccountsInv == ASSUME IInv, LoadAccounts PROVE IInv'
<1> USE DocumentFacts, EmptyIsPresent
<1> DEFINE content == Row("accounts")
<1>1. content \in Content
  BY RowIsContent DEF IInv
<1>2. /\ memory' \in [Documents -> Stored] /\ loaded' \subseteq Documents
      /\ \A e \in Documents : memory'[e] # NoDocument
      /\ \A e \in Documents : memory'[e] = IF e = "accounts" THEN content ELSE memory[e]
  BY <1>1, HoldingType DEF IInv, LoadAccounts
<1>3. /\ database' \in [Documents -> Stored]
      /\ \A e \in Documents : database'[e] = IF e = "accounts" THEN content ELSE database[e]
  BY <1>1, WritingType DEF IInv, LoadAccounts
<1>4. /\ phase = "accounts" /\ phase' = "game_admins" /\ loaded' = loaded \cup {"accounts"}
      /\ UNCHANGED <<files, linked, removed, accepted, durable>>
      /\ database["accounts"] = NoDocument => files["accounts"] = NoDocument
  BY DEF LoadAccounts, Ready, InTurn, Importable, Holding, histories
<1>5. content # NoDocument /\ Found("accounts") = content
  BY <1>1, <1>4, ContentIsPresent DEF Found, File, Row
<1>6. StorageTypeOK'
  BY <1>2, <1>3, <1>4 DEF IInv, StorageTypeOK
<1>7. Found("accounts")' = Found("accounts") /\ Found("game_admins")' = Found("game_admins")
  BY <1>3, <1>4, <1>5 DEF Found, File
<1>8. LinksKept'
  BY <1>4, <1>7 DEF IInv, LinksKept
<1>9. Cleared => Cleared'
  BY <1>3 DEF Cleared, Row
<1> HIDE DEF content
<1>10. Progress'
  BY <1>2, <1>3, <1>4 DEF IInv, Progress
<1>11. RemovedGone'
  BY <1>2, <1>3, <1>4, <1>9 DEF IInv, RemovedGone
<1>12. Mirror' /\ Standing'
  BY <1>3, <1>4 DEF IInv, Mirror, Standing, StorageTypeOK
<1> QED
  BY <1>6, <1>8, <1>10, <1>11, <1>12 DEF IInv

LEMMA LoadGameAdminsInv == ASSUME IInv, LoadGameAdmins PROVE IInv'
<1> USE DocumentFacts, EmptyIsPresent
<1> DEFINE content == Merged
<1>1. content \in Content
  BY RowIsContent DEF IInv, Merged, StorageTypeOK, Stored, Content
<1>2. /\ memory' \in [Documents -> Stored] /\ loaded' \subseteq Documents
      /\ \A e \in Documents : memory'[e] # NoDocument
      /\ \A e \in Documents : memory'[e] = IF e = "game_admins" THEN content ELSE memory[e]
  BY <1>1, HoldingType DEF IInv, LoadGameAdmins
<1>3. /\ database' \in [Documents -> Stored]
      /\ \A e \in Documents : database'[e] = IF e = "game_admins" THEN content ELSE database[e]
  BY <1>1, WritingType DEF IInv, LoadGameAdmins
<1>4. /\ phase = "game_admins" /\ phase' = "links"
      /\ loaded' = loaded \cup {"game_admins"}
      /\ UNCHANGED <<files, linked, removed, accepted, durable>>
      /\ database["game_admins"] = NoDocument => files["game_admins"] = NoDocument
  BY DEF LoadGameAdmins, Ready, InTurn, Importable, Holding, histories
<1>5. /\ content # NoDocument /\ Found("game_admins") \subseteq content
      /\ memory["accounts"] \subseteq content
      /\ content = Row("game_admins") \cup memory["accounts"]
  BY <1>1, <1>4, ContentIsPresent DEF Found, File, Row, Merged
<1>6. removed # {} => content = Row("game_admins") /\ Row("game_admins") = database["game_admins"]
  BY <1>4, <1>5 DEF IInv, RemovedGone, Progress, Cleared, Row
<1> HIDE DEF content
<1>7. StorageTypeOK'
  BY <1>2, <1>3, <1>4 DEF IInv, StorageTypeOK
<1>8. Found("accounts")' = Found("accounts") /\ Found("game_admins")' = content
  BY <1>3, <1>4, <1>5 DEF Found, File
<1>9. LinksKept'
  BY <1>4, <1>5, <1>8 DEF IInv, LinksKept
<1>10. Progress'
  BY <1>2, <1>3, <1>4, <1>5 DEF IInv, Progress
<1>11. RemovedGone'
  BY <1>2, <1>3, <1>4, <1>5, <1>6 DEF IInv, RemovedGone, Cleared
<1>12. Mirror' /\ Standing'
  BY <1>3, <1>4 DEF IInv, Mirror, Standing, StorageTypeOK
<1> QED
  BY <1>7, <1>9, <1>10, <1>11, <1>12 DEF IInv

LEMMA ClearLinksInv == ASSUME IInv, ClearLinks PROVE IInv'
<1> USE DocumentFacts, EmptyIsPresent
<1>1. /\ phase = "links" /\ phase' = "rest"
      /\ UNCHANGED <<files, loaded, linked, removed, accepted, durable>>
  BY DEF ClearLinks, histories
<1>2. /\ database["accounts"] = memory["accounts"]
      /\ database["game_admins"] = memory["game_admins"]
      /\ memory["accounts"] \subseteq memory["game_admins"]
      /\ loaded \cap Others = {}
      /\ memory["accounts"] # NoDocument /\ memory["game_admins"] # NoDocument
  BY <1>1 DEF IInv, Progress, StorageTypeOK
<1>3. /\ memory' \in [Documents -> Stored]
      /\ \A e \in Documents : memory'[e] = IF e = "accounts" THEN {} ELSE memory[e]
  BY DEF IInv, StorageTypeOK, ClearLinks, Stored
<1>4. Writing("accounts", {})
  BY <1>2 DEF ClearLinks, Writing
<1>5. /\ database' \in [Documents -> Stored]
      /\ \A e \in Documents : database'[e] = IF e = "accounts" THEN {} ELSE database[e]
  BY <1>4, WritingType DEF IInv
<1>6. StorageTypeOK'
  BY <1>1, <1>3, <1>5 DEF IInv, StorageTypeOK
<1>7. Found("accounts") \subseteq Found("game_admins")' /\ Found("game_admins")' = Found("game_admins")
  BY <1>1, <1>2, <1>5 DEF Found, File
<1>8. LinksKept'
  BY <1>1, <1>7 DEF IInv, LinksKept
<1>9. Progress' /\ RemovedGone'
  BY <1>1, <1>2, <1>3, <1>5 DEF IInv, Progress, RemovedGone, Cleared
<1>10. Mirror' /\ Standing'
  BY <1>1, <1>2, <1>5 DEF IInv, Mirror, Standing, StorageTypeOK
<1> QED
  BY <1>6, <1>8, <1>9, <1>10 DEF IInv
LEMMA LoadRestInv == ASSUME IInv, NEW d \in Documents, LoadRest(d) PROVE IInv'
<1> USE DocumentFacts, EmptyIsPresent
<1> DEFINE content == Row(d)
<1>1. content \in Content
  BY RowIsContent DEF IInv
<1>2. /\ memory' \in [Documents -> Stored] /\ loaded' \subseteq Documents
      /\ \A e \in Documents : memory'[e] # NoDocument
      /\ \A e \in Documents : memory'[e] = IF e = d THEN content ELSE memory[e]
  BY <1>1, HoldingType DEF IInv, LoadRest
<1>3. /\ database' \in [Documents -> Stored]
      /\ \A e \in Documents : database'[e] = IF e = d THEN content ELSE database[e]
  BY <1>1, WritingType DEF IInv, LoadRest
<1>4. /\ phase = "rest" /\ d \in Others \ loaded /\ loaded' = loaded \cup {d}
      /\ UNCHANGED <<files, phase, linked, removed, accepted, durable>>
  BY DEF LoadRest, Ready, InTurn, Holding, histories
<1>5. database[d] # NoDocument => content = database[d]
  BY DEF Row
<1> HIDE DEF content
<1>6. StorageTypeOK'
  BY <1>2, <1>3, <1>4 DEF IInv, StorageTypeOK
<1>7. Found("accounts")' = Found("accounts") /\ Found("game_admins")' = Found("game_admins")
  BY <1>3, <1>4 DEF Found, File
<1>8. LinksKept'
  BY <1>4, <1>7 DEF IInv, LinksKept
<1>9. Progress' /\ RemovedGone'
  BY <1>2, <1>3, <1>4 DEF IInv, Progress, RemovedGone, Cleared
<1>10. Mirror' /\ Standing'
  BY <1>2, <1>3, <1>4, <1>5 DEF IInv, Mirror, Standing, StorageTypeOK
<1> QED
  BY <1>6, <1>8, <1>9, <1>10 DEF IInv

LEMMA OpenSocketInv == ASSUME IInv, OpenSocket PROVE IInv'
BY DEF IInv, OpenSocket, AllLoaded, StorageTypeOK, Progress, LinksKept, Found, File, RemovedGone,
  Cleared, Mirror, Standing, places, histories

-----------------------------------------------------------------------------
(* A start that fails: what the stores hold may be anything without the    *)
(* deleted administrators.                                                 *)
LEMMA FailedInv ==
  ASSUME IInv, CloseDatabase,
         memory' \in [Documents -> Stored], \A d \in Documents : memory'[d] # NoDocument,
         loaded' \subseteq Documents, removed \cap memory'["game_admins"] = {}
  PROVE  IInv'
BY DEF IInv, CloseDatabase, StorageTypeOK, Progress, LinksKept, Found, File, RemovedGone, Cleared,
  Mirror, Standing, places, histories

LEMMA FailingInv == ASSUME IInv, Failing PROVE IInv'
<1> USE DocumentFacts, EmptyIsPresent
<1>1. ASSUME CloseDatabase, UNCHANGED <<memory, loaded>> PROVE IInv'
  BY <1>1, FailedInv DEF IInv, StorageTypeOK, RemovedGone
<1>2. CASE ConfigureFails \/ ClearLinksFails \/ OpenSocketFails
  BY <1>1, <1>2 DEF ConfigureFails, ClearLinksFails, OpenSocketFails
<1>3. CASE SaveGameAdminsFails
  <2>1. Merged \in Content
    BY RowIsContent DEF IInv, Merged, StorageTypeOK, Stored, Content
  <2>2. Holding("game_admins", Merged) /\ CloseDatabase /\ phase = "game_admins"
    BY <1>3 DEF SaveGameAdminsFails, Ready, InTurn
  <2>3. removed \cap Merged = {}
    BY <2>2 DEF IInv, RemovedGone, Progress, Cleared, Merged, Row
  <2> QED
    BY <2>1, <2>2, <2>3, HoldingType, FailedInv DEF IInv
<1>4. ASSUME NEW d \in Documents, LoadFails(d) PROVE IInv'
  <2>1. Holding(d, {}) /\ CloseDatabase
    BY <1>4 DEF LoadFails
  <2> QED
    BY <2>1, HoldingType, FailedInv DEF IInv, RemovedGone
<1> QED
  BY <1>2, <1>3, <1>4 DEF Failing

-----------------------------------------------------------------------------
(* In-game administrators change only while the plugin runs, when the      *)
(* links have been cleared.                                                *)
LEMMA SaveGameAdminsInv ==
  ASSUME IInv, phase = "up", NEW admins \in Content, SaveGameAdmins(admins),
         removed' \subseteq Ids, removed' \cap admins = {},
         (linked \cap memory["game_admins"]) \ removed' \subseteq admins,
         removed \ removed' \subseteq admins
  PROVE  IInv'
<1> USE DocumentFacts, EmptyIsPresent
<1>1. /\ memory' \in [Documents -> Stored]
      /\ \A e \in Documents : memory'[e] = IF e = "game_admins" THEN admins ELSE memory[e]
      /\ admins # NoDocument
  BY ContentIsPresent DEF IInv, StorageTypeOK, SaveGameAdmins, Stored
<1>2. /\ database' \in [Documents -> Stored]
      /\ \A e \in Documents : database'[e] = IF e = "game_admins" THEN admins ELSE database[e]
  BY WritingType DEF IInv, SaveGameAdmins
<1>3. UNCHANGED <<files, loaded, phase, linked, accepted, durable>>
  BY DEF SaveGameAdmins
<1>4. /\ Cleared /\ database["game_admins"] = memory["game_admins"]
      /\ Found("accounts") = {} /\ Found("game_admins") = memory["game_admins"]
  BY DEF IInv, Progress, Cleared, Found
<1>5. Found("accounts")' = {} /\ Found("game_admins")' = admins
  BY <1>1, <1>2, <1>4 DEF Found, Cleared
<1>6. StorageTypeOK'
  BY <1>1, <1>2, <1>3 DEF IInv, StorageTypeOK
<1>7. LinksKept'
  BY <1>3, <1>4, <1>5 DEF IInv, LinksKept
<1>8. Progress' /\ RemovedGone'
  BY <1>1, <1>2, <1>3, <1>4 DEF IInv, Progress, RemovedGone, Cleared
<1>9. Mirror' /\ Standing'
  BY <1>1, <1>2, <1>3 DEF IInv, Mirror, Standing, StorageTypeOK
<1> QED
  BY <1>6, <1>7, <1>8, <1>9 DEF IInv

LEMMA UpsertInv == ASSUME IInv, NEW s \in Ids, Upsert(s) PROVE IInv'
<1>1. memory["game_admins"] \cup {s} \in Content
  BY DocumentFacts DEF IInv, StorageTypeOK, Stored, Content
<1> QED
  BY <1>1, SaveGameAdminsInv DEF Upsert, IInv, StorageTypeOK, RemovedGone

LEMMA RemoveInv == ASSUME IInv, NEW s \in Ids, Remove(s) PROVE IInv'
<1>1. memory["game_admins"] \ {s} \in Content
  BY DocumentFacts DEF IInv, StorageTypeOK, Stored, Content
<1> QED
  BY <1>1, SaveGameAdminsInv DEF Remove, IInv, StorageTypeOK, RemovedGone

LEMMA ChangeInv ==
  ASSUME IInv, NEW d \in Others, NEW content \in Content, Change(d, content) PROVE IInv'
<1> USE DocumentFacts, EmptyIsPresent
<1>1. /\ memory' \in [Documents -> Stored]
      /\ \A e \in Documents : memory'[e] = IF e = d THEN content ELSE memory[e]
      /\ content # NoDocument
  BY ContentIsPresent DEF IInv, StorageTypeOK, Change, Stored
<1>2. /\ database' \in [Documents -> Stored]
      /\ \A e \in Documents : database'[e] = IF e = d THEN content ELSE database[e]
  BY WritingType DEF IInv, Change
<1>3. /\ accepted' \in [Documents -> Stored]
      /\ \A e \in Documents : accepted'[e] = IF e = d THEN content ELSE accepted[e]
  BY DEF IInv, StorageTypeOK, Change, Stored
<1>4. durable' = durable \cup {d} /\ UNCHANGED <<files, loaded, phase, linked, removed>>
  BY DEF Change
<1>5. StorageTypeOK'
  BY <1>1, <1>2, <1>3, <1>4 DEF IInv, StorageTypeOK
<1>6. Found("accounts")' = Found("accounts") /\ Found("game_admins")' = Found("game_admins")
  BY <1>2, <1>4 DEF Found, File
<1>7. LinksKept'
  BY <1>4, <1>6 DEF IInv, LinksKept
<1>8. Progress' /\ RemovedGone'
  BY <1>1, <1>2, <1>4 DEF IInv, Progress, RemovedGone, Cleared
<1>9. Mirror' /\ Standing'
  BY <1>1, <1>2, <1>3, <1>4 DEF IInv, Mirror, Standing, StorageTypeOK
<1> QED
  BY <1>5, <1>7, <1>8, <1>9 DEF IInv

LEMMA MenuChangeInv ==
  ASSUME IInv, NEW d \in Others, NEW content \in Content, MenuChange(d, content) PROVE IInv'
<1> USE DocumentFacts, EmptyIsPresent
<1>1. /\ memory' \in [Documents -> Stored] /\ files' \in [Documents -> Stored]
      /\ accepted' \in [Documents -> Stored]
      /\ \A e \in Documents \ {d} :
           memory'[e] = memory[e] /\ files'[e] = files[e] /\ accepted'[e] = accepted[e]
      /\ memory'[d] = content /\ content # NoDocument
  BY ContentIsPresent DEF IInv, StorageTypeOK, MenuChange, Stored
<1>2. /\ phase = "failed" /\ durable' = durable \ {d}
      /\ UNCHANGED <<database, loaded, phase, linked, removed>>
  BY DEF MenuChange
<1>3. StorageTypeOK'
  BY <1>1, <1>2 DEF IInv, StorageTypeOK
<1>4. Found("accounts")' = Found("accounts") /\ Found("game_admins")' = Found("game_admins")
  BY <1>1, <1>2 DEF Found, File
<1>5. LinksKept'
  BY <1>2, <1>4 DEF IInv, LinksKept
<1>6. Progress' /\ RemovedGone' /\ Mirror'
  BY <1>1, <1>2 DEF IInv, Progress, RemovedGone, Cleared, Mirror
<1>7. Standing'
  BY <1>1, <1>2 DEF IInv, Standing, StorageTypeOK
<1> QED
  BY <1>3, <1>5, <1>6, <1>7 DEF IInv

LEMMA HaltInv == ASSUME IInv, Halt PROVE IInv'
<1>1. /\ memory' \in [Documents -> Stored]
      /\ \A e \in Documents : memory'[e] = {}
      /\ {} # NoDocument /\ "game_admins" \in Documents
  BY DocumentFacts, EmptyIsPresent DEF Halt, Empty, Stored
<1> QED
  BY <1>1 DEF IInv, Halt, StorageTypeOK, Progress, LinksKept, Found, File, RemovedGone, Cleared,
    Mirror, Standing, places, histories

-----------------------------------------------------------------------------
LEMMA NextInv == IInv /\ [Next]_vars => IInv'
<1> SUFFICES ASSUME IInv, [Next]_vars PROVE IInv'
  OBVIOUS
<1>1. CASE UNCHANGED vars
  BY <1>1 DEF vars, places, histories, IInv, StorageTypeOK, Progress, LinksKept, Found, File,
    RemovedGone, Cleared, Mirror, Standing
<1>2. CASE Starting
  BY <1>2, ConfigureInv, LoadAccountsInv, LoadGameAdminsInv, ClearLinksInv, OpenSocketInv,
    ImportInv, LoadRestInv DEF Starting
<1>3. CASE Failing
  BY <1>3, FailingInv
<1>4. CASE Running
  BY <1>4, UpsertInv, RemoveInv, ChangeInv, MenuChangeInv DEF Running
<1>5. CASE Halt
  BY <1>5, HaltInv
<1> QED
  BY <1>1, <1>2, <1>3, <1>4, <1>5 DEF Next

(* The inductive invariant holds throughout.                               *)
THEOREM InvariantHolds == Spec => []IInv
BY InitInv, NextInv, PTL DEF Spec

(* Documents, stores and the start keep their types.                       *)
THEOREM StorageTypes == Spec => []StorageTypeOK
<1>1. IInv => StorageTypeOK
  BY DEF IInv
<1> QED
  BY <1>1, InvariantHolds, PTL

(* The migration of links over two documents loses no administrator, at    *)
(* whichever of its steps it fails or the server crashes.                  *)
THEOREM MigrationKeepsLinks == Spec => []LinksKept
<1>1. IInv => LinksKept
  BY DEF IInv
<1> QED
  BY <1>1, InvariantHolds, PTL

(* A deleted in-game administrator does not return with a later start.     *)
THEOREM MigrationRevivesNobody == Spec => []NobodyResurrected
<1>1. IInv => NobodyResurrected
  BY DEF IInv, RemovedGone, NobodyResurrected
<1> QED
  BY <1>1, InvariantHolds, PTL

(* What the database accepted outlives restarts and left-over files.       *)
THEOREM DatabaseIsDurable == Spec => []DatabaseChangesStand
<1>1. IInv => DatabaseChangesStand
  BY DEF IInv, StorageTypeOK, Progress, Mirror, Standing, DatabaseChangesStand
<1> QED
  BY <1>1, InvariantHolds, PTL
-----------------------------------------------------------------------------
(* The refinement of AdminList, one lemma per kind of step.                *)

LEMMA ListedFacts ==
  ASSUME StorageTypeOK
  PROVE  Listed \in Content /\ memory["game_admins"] \in Content
BY DocumentFacts, RowIsContent
   DEF StorageTypeOK, Listed, Found, File, Stored, Content

(* Once the links are cleared the list is the row of the administrators.   *)
LEMMA ListWhenCleared ==
  ASSUME IInv, phase \in {"rest", "up"}
  PROVE  Listed = memory["game_admins"] /\ Found("accounts") = {}
BY EmptyIsPresent DEF IInv, Progress, Cleared, Listed, Found

(* A step that leaves both documents and the rights alone is not seen,     *)
(* unless it is the one with which the plugin starts or stops to run.      *)
LEMMA Unseen ==
  ASSUME Found("accounts")' = Found("accounts"), Found("game_admins")' = Found("game_admins"),
         memory'["game_admins"] = memory["game_admins"], (phase' = "up") <=> (phase = "up")
  PROVE  UNCHANGED List!vars
BY DEF List!vars, Listed

LEMMA ImportUnseen ==
  ASSUME IInv, NEW d \in Documents, Import(d) PROVE UNCHANGED List!vars
<1>1. files[d] \in Content /\ files[d] # NoDocument /\ database[d] = NoDocument
  BY DEF IInv, Import, Importable, StorageTypeOK, Stored
<1>2. \A e \in Documents : database'[e] = IF e = d THEN files[d] ELSE database[e]
  BY <1>1, WritingType DEF IInv, Import
<1>3. \A e \in Documents : e # d => files'[e] = files[e]
  BY <1>1 DEF IInv, Import, StorageTypeOK, Stored
<1>4. \A e \in Documents : Found(e)' = Found(e)
  BY <1>1, <1>2, <1>3 DEF Found, File
<1> QED
  BY <1>4, Unseen, DocumentFacts DEF Import

LEMMA LoadAccountsUnseen == ASSUME IInv, LoadAccounts PROVE UNCHANGED List!vars
<1>1. Row("accounts") \in Content
  BY DocumentFacts, RowIsContent DEF IInv
<1>2. \A e \in Documents : database'[e] = IF e = "accounts" THEN Row("accounts") ELSE database[e]
  BY <1>1, DocumentFacts, WritingType DEF IInv, LoadAccounts
<1>3. \A e \in Documents : memory'[e] = IF e = "accounts" THEN Row("accounts") ELSE memory[e]
  BY <1>1, DocumentFacts, HoldingType DEF IInv, LoadAccounts
<1>4. /\ phase = "accounts" /\ phase' = "game_admins" /\ UNCHANGED files
      /\ database["accounts"] = NoDocument => files["accounts"] = NoDocument
  BY DocumentFacts DEF LoadAccounts, Ready, InTurn, Importable
<1>5. Found("accounts")' = Found("accounts") /\ Found("game_admins")' = Found("game_admins")
  <2>1. Row("accounts") # NoDocument /\ Found("accounts") = Row("accounts")
    BY <1>1, <1>4, ContentIsPresent DEF Found, File, Row
  <2> QED
    BY <1>2, <1>4, <2>1, DocumentFacts DEF Found, File
<1> QED
  BY <1>3, <1>4, <1>5, Unseen, DocumentFacts

(* The links join the administrators: they were on the list already.       *)
LEMMA MergedIsListed ==
  ASSUME IInv, Ready("game_admins")
  PROVE  /\ Merged = Listed
         /\ Found("accounts") = memory["accounts"]
<1>1. /\ phase = "game_admins"
      /\ database["game_admins"] = NoDocument => files["game_admins"] = NoDocument
  BY DocumentFacts DEF Ready, InTurn, Importable
<1>2. database["accounts"] = memory["accounts"] /\ memory["accounts"] # NoDocument
  BY <1>1, DocumentFacts DEF IInv, Progress, StorageTypeOK
<1>3. Found("game_admins") = Row("game_admins")
  BY <1>1 DEF Found, File, Row
<1> QED
  BY <1>2, <1>3 DEF Merged, Listed, Found

LEMMA LoadGameAdminsLoads == ASSUME IInv, LoadGameAdmins PROVE List!Load
<1>1. Merged \in Content /\ Merged = Listed /\ Found("accounts") = memory["accounts"]
  BY MergedIsListed, ListedFacts DEF IInv, LoadGameAdmins
<1>2. /\ \A e \in Documents : database'[e] = IF e = "game_admins" THEN Merged ELSE database[e]
      /\ UNCHANGED files /\ phase' = "links"
  BY <1>1, DocumentFacts, WritingType DEF IInv, LoadGameAdmins
<1>3. \A e \in Documents : memory'[e] = IF e = "game_admins" THEN Merged ELSE memory[e]
  BY <1>1, DocumentFacts, HoldingType DEF IInv, LoadGameAdmins
<1>4. Found("accounts")' = Found("accounts") /\ Found("game_admins")' = Merged
  BY <1>1, <1>2, DocumentFacts, ContentIsPresent DEF Found, File
<1>5. Found("accounts") \subseteq Merged
  BY <1>1 DEF Listed
<1> QED
  BY <1>1, <1>2, <1>3, <1>4, <1>5, DocumentFacts DEF List!Load, Listed

(* Clearing takes from the accounts what the administrators have.          *)
LEMMA ClearLinksUnseen == ASSUME IInv, ClearLinks PROVE UNCHANGED List!vars
<1> USE DocumentFacts, EmptyIsPresent
<1>1. /\ database["accounts"] = memory["accounts"]
      /\ database["game_admins"] = memory["game_admins"]
      /\ memory["accounts"] \subseteq memory["game_admins"]
      /\ memory["accounts"] # NoDocument /\ memory["game_admins"] # NoDocument
      /\ phase = "links" /\ phase' = "rest" /\ UNCHANGED files
  BY DEF ClearLinks, IInv, Progress, StorageTypeOK
<1>2. Writing("accounts", {})
  BY <1>1 DEF ClearLinks, Writing
<1>3. \A e \in Documents : database'[e] = IF e = "accounts" THEN {} ELSE database[e]
  BY <1>2, WritingType DEF IInv
<1>4. Listed = memory["game_admins"] /\ Listed' = memory["game_admins"]
  BY <1>1, <1>3 DEF Listed, Found
<1>5. memory'["game_admins"] = memory["game_admins"]
  BY DEF ClearLinks, IInv, StorageTypeOK
<1> QED
  BY <1>1, <1>4, <1>5 DEF List!vars

LEMMA LoadRestUnseen ==
  ASSUME IInv, NEW d \in Documents, LoadRest(d) PROVE UNCHANGED List!vars
<1>1. Row(d) \in Content
  BY RowIsContent DEF IInv
<1>2. \A e \in Documents : database'[e] = IF e = d THEN Row(d) ELSE database[e]
  BY <1>1, WritingType DEF IInv, LoadRest
<1>3. \A e \in Documents : memory'[e] = IF e = d THEN Row(d) ELSE memory[e]
  BY <1>1, HoldingType DEF IInv, LoadRest
<1>4. d \in Others /\ UNCHANGED <<files, phase>>
  BY DEF LoadRest
<1>5. Found("accounts")' = Found("accounts") /\ Found("game_admins")' = Found("game_admins")
  BY <1>2, <1>4, DocumentFacts DEF Found, File
<1> QED
  BY <1>3, <1>4, <1>5, Unseen, DocumentFacts

LEMMA StartingListed ==
  ASSUME IInv, Starting PROVE List!Next \/ UNCHANGED List!vars
<1>1. CASE Configure
  BY <1>1, Unseen DEF Configure, places, Found, File
<1>2. CASE OpenSocket
  <2>1. /\ phase = "rest" /\ phase' = "up"
        /\ UNCHANGED <<database, files, memory>>
    BY <1>2 DEF OpenSocket, AllLoaded, places
  <2>2. Listed' = Listed /\ memory["game_admins"] = Listed
    BY <2>1, ListWhenCleared DEF Listed, Found, File
  <2> QED
    BY <2>1, <2>2 DEF List!Next, List!Serve
<1> QED
  BY <1>1, <1>2, ImportUnseen, LoadAccountsUnseen, LoadGameAdminsLoads, ClearLinksUnseen,
     LoadRestUnseen
     DEF Starting, List!Next

(* A start that fails leaves rights to some of the list, or to nobody.     *)
LEMMA FailingListed ==
  ASSUME IInv, Failing PROVE List!Next \/ UNCHANGED List!vars
<1>1. ASSUME CloseDatabase
      PROVE  /\ phase' = "failed" /\ Listed' = Listed
             /\ Found("accounts")' = Found("accounts")
             /\ Found("game_admins")' = Found("game_admins")
  BY <1>1 DEF CloseDatabase, places, Found, File, Listed
<1>2. CASE ConfigureFails \/ ClearLinksFails \/ OpenSocketFails
  <2>1. CloseDatabase /\ phase # "up" /\ memory' = memory
    BY <1>2 DEF ConfigureFails, ClearLinksFails, OpenSocketFails, AllLoaded
  <2> QED
    BY <1>1, <2>1, Unseen
<1>3. CASE SaveGameAdminsFails
  <2>1. /\ Holding("game_admins", Merged) /\ CloseDatabase
        /\ Merged = Listed /\ Merged \in Content
    BY <1>3, MergedIsListed, ListedFacts DEF SaveGameAdminsFails, IInv
  <2>2. memory'["game_admins"] = Merged
    BY <2>1, DocumentFacts, HoldingType DEF IInv
  <2> QED
    BY <1>1, <2>1, <2>2 DEF List!Next, List!Load
<1>4. ASSUME NEW d \in Documents, LoadFails(d) PROVE List!Next \/ UNCHANGED List!vars
  <2>1. Holding(d, {}) /\ CloseDatabase /\ phase # "up"
    BY <1>4 DEF LoadFails, InTurn
  <2>2. \A e \in Documents : memory'[e] = IF e = d THEN {} ELSE memory[e]
    BY <2>1, EmptyIsPresent, HoldingType DEF IInv
  <2>3. CASE d = "game_admins"
    BY <1>1, <2>1, <2>2, <2>3, DocumentFacts DEF List!Next, List!Load
  <2>4. CASE d # "game_admins"
    BY <1>1, <2>1, <2>2, <2>4, DocumentFacts, Unseen
  <2> QED
    BY <2>3, <2>4
<1> QED
  BY <1>2, <1>3, <1>4 DEF Failing

(* A command changes the list by the administrator it names.               *)
LEMMA EditLemma ==
  ASSUME IInv, phase = "up", NEW list \in Content, SaveGameAdmins(list)
  PROVE  List!Edit(list)
<1>1. \A e \in Documents : database'[e] = IF e = "game_admins" THEN list ELSE database[e]
  BY DocumentFacts, WritingType DEF IInv, SaveGameAdmins
<1>2. memory'["game_admins"] = list /\ UNCHANGED <<files, phase>>
  BY DocumentFacts DEF IInv, StorageTypeOK, SaveGameAdmins
<1>3. Found("accounts")' = {} /\ Found("game_admins")' = list
  BY <1>1, <1>2, DocumentFacts, ContentIsPresent, EmptyIsPresent
     DEF Found, IInv, Progress, Cleared
<1> QED
  BY <1>2, <1>3 DEF List!Edit, Listed

LEMMA RunningListed ==
  ASSUME IInv, Running PROVE List!Next \/ UNCHANGED List!vars
<1>0. memory["game_admins"] \in Content
  BY ListedFacts DEF IInv
<1>1. ASSUME NEW s \in Ids, Upsert(s) PROVE List!Add(s)
  <2>1. memory["game_admins"] \cup {s} \in Content
    BY <1>0 DEF Content
  <2>2. phase = "up" /\ SaveGameAdmins(memory["game_admins"] \cup {s}) /\ s \notin memory["game_admins"]
    BY <1>1 DEF Upsert
  <2> QED
    BY <2>1, <2>2, EditLemma, ListWhenCleared DEF List!Add
<1>2. ASSUME NEW s \in Ids, Remove(s) PROVE List!Delete(s)
  <2>1. memory["game_admins"] \ {s} \in Content
    BY <1>0 DEF Content
  <2>2. phase = "up" /\ SaveGameAdmins(memory["game_admins"] \ {s}) /\ s \in memory["game_admins"]
    BY <1>2 DEF Remove
  <2> QED
    BY <2>1, <2>2, EditLemma, ListWhenCleared DEF List!Delete
<1>3. ASSUME NEW d \in Others, NEW content \in Content, Change(d, content)
      PROVE  UNCHANGED List!vars
  <2>1. \A e \in Documents : database'[e] = IF e = d THEN content ELSE database[e]
    BY <1>3, DocumentFacts, WritingType DEF IInv, Change
  <2>2. memory'["game_admins"] = memory["game_admins"] /\ UNCHANGED <<files, phase>>
    BY <1>3, DocumentFacts DEF Change, IInv, StorageTypeOK
  <2> QED
    BY <2>1, <2>2, DocumentFacts, Unseen DEF Found, File
<1>4. ASSUME NEW d \in Others, NEW content \in Content, MenuChange(d, content)
      PROVE  UNCHANGED List!vars
  <2>1. /\ memory'["game_admins"] = memory["game_admins"] /\ UNCHANGED <<database, phase>>
        /\ \A e \in Documents : e # d => files'[e] = files[e]
    BY <1>4, DocumentFacts DEF MenuChange, IInv, StorageTypeOK
  <2> QED
    BY <2>1, DocumentFacts, Unseen DEF Found, File
<1> QED
  BY <1>1, <1>2, <1>3, <1>4 DEF Running, List!Next

LEMMA HaltListed == ASSUME IInv, Halt PROVE List!Load
BY DocumentFacts DEF Halt, places, Empty, List!Load, Listed, Found, File

(* Every step of the plugin, of its starts, failures and crashes, is a     *)
(* step of the list or invisible.                                          *)
THEOREM Implementation == Spec => ImplementsAdminList
<1>1. Init => List!Init
  BY DocumentFacts, InitInv, ListedFacts
     DEF Init, Empty, List!Init, IInv, Content
<1>2. IInv /\ [Next]_vars => [List!Next]_(List!vars)
  <2> SUFFICES ASSUME IInv, [Next]_vars PROVE List!Next \/ UNCHANGED List!vars
    OBVIOUS
  <2>1. CASE UNCHANGED vars
    BY <2>1, Unseen DEF vars, places, Found, File
  <2> QED
    BY <2>1, StartingListed, FailingListed, RunningListed, HaltListed DEF Next, List!Next
<1> QED
  BY <1>1, <1>2, InvariantHolds, PTL DEF Spec, ImplementsAdminList, List!Spec
=============================================================================
