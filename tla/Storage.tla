------------------------------- MODULE Storage -------------------------------
(***************************************************************************)
(* Where the stores of the plugin keep their documents, how they are       *)
(* loaded, and how Steam links move from the accounts to the in-game       *)
(* administrators: NeoPtt_Start and NeoPtt_Shutdown of neo_ptt.cpp,        *)
(* neo_admin_persistence.cpp, neo_admin_game_admins.cpp and the legacy     *)
(* links of neo_admin_accounts.cpp.                                        *)
(*                                                                         *)
(* A document is a row of the SQLite database.  One that has no row yet is *)
(* taken from the JSON file of an older version.  A start that fails       *)
(* closes the database, but the plugin stays loaded, the stores loaded so  *)
(* far keep what they hold, and from then on they write the JSON files.    *)
(*                                                                         *)
(* A document is reduced to the Steam IDs it is about.  An account without *)
(* a link does not show, and neither does what an entry says of its ID.    *)
(***************************************************************************)
EXTENDS Naturals, FiniteSets, Sequences, Functions

CONSTANTS
  Ids,              \* Steam IDs
  Rest,             \* the documents loaded last, in this order
  MenuStores,       \* those that the in-game menu writes to
  NoDocument,
  MaxAdmins         \* the limit of GameAdminStore::Upsert

Others == Range(Rest)
Documents == {"accounts", "game_admins"} \cup Others

ASSUME RestAssumption ==
  Rest \in Seq(STRING) /\ Others \cap {"accounts", "game_admins"} = {}
ASSUME MenuAssumption == MenuStores \subseteq Others
ASSUME NoDocumentAssumption == \A content \in SUBSET Ids : NoDocument # content
ASSUME MaxAdminsAssumption == MaxAdmins \in Nat

Content == SUBSET Ids
Stored == {NoDocument} \cup Content

VARIABLES
  database,         \* neo_documents: the rows
  files,            \* the JSON files at the paths of the stores
  memory,           \* what each store holds
  loaded,           \* the stores whose Load was called, which have a path
  phase,            \* of NeoPtt_Start, or "up", "failed", "down"
  linked,           \* history: the links of the old installation
  removed,          \* history: the in-game administrators that were deleted
  accepted,         \* history: the last change of each document reported as saved
  durable           \* history: the documents whose last change went into the database

places == <<database, files>>
histories == <<linked, removed, accepted, durable>>
vars == <<places, memory, loaded, phase, histories>>

Empty == [d \in Documents |-> {}]

(* A document that is in neither place reads as an empty one.              *)
Row(d) == IF database[d] = NoDocument THEN {} ELSE database[d]

File(d) == IF files[d] = NoDocument THEN {} ELSE files[d]

(* An installation of the versions that had files only, or a new one.      *)
Init ==
  /\ database = [d \in Documents |-> NoDocument]
  /\ files \in [Documents -> Stored]
  /\ memory = Empty
  /\ loaded = {}
  /\ phase = "down"
  /\ linked = File("accounts")
  /\ removed = {}
  /\ accepted = [d \in Documents |-> NoDocument]
  /\ durable = {}

-----------------------------------------------------------------------------
Earlier(d) == {Rest[i] : i \in {j \in DOMAIN Rest : \A k \in 1..j : Rest[k] # d}}

InTurn(d) ==
  \/ d \in {"accounts", "game_admins"} /\ phase = d
  \/ d \in Others \ loaded /\ phase = "rest" /\ Earlier(d) \subseteq loaded

(* ReadJsonDocument: a file is imported only for want of a row.            *)
Importable(d) == database[d] = NoDocument /\ files[d] # NoDocument

Ready(d) == InTurn(d) /\ ~Importable(d)

(* LegacySteamLinks, joined to the stored administrators by Load.          *)
Merged == Row("game_admins") \cup memory["accounts"]

Holding(d, content) ==
  /\ memory' = [memory EXCEPT ![d] = content]
  /\ loaded' = loaded \cup {d}

Writing(d, content) == database' = [database EXCEPT ![d] = content]

-----------------------------------------------------------------------------
(* Faulty variants of the definitions below: what a plausible slip in the  *)
(* code would do.  No specification uses them; each is put in the place of *)
(* the definition it is named after to show that a property notices.       *)

(* The result of the import is not treated as a document.                  *)
LoadAccounts_AsRead ==
  /\ Ready("accounts")
  /\ Holding("accounts", database["accounts"])
  /\ UNCHANGED database
  /\ phase' = "game_admins"
  /\ UNCHANGED <<files, histories>>

(* Load saves only the document it creates, not the links it added.        *)
LoadGameAdmins_SavesNew ==
  /\ Ready("game_admins")
  /\ Holding("game_admins", Merged)
  /\ Writing("game_admins",
       IF database["game_admins"] = NoDocument THEN Merged ELSE database["game_admins"])
  /\ phase' = "links"
  /\ UNCHANGED <<files, histories>>

(* The start goes on though the links could not be cleared.                *)
ClearLinksFails_GoesOn ==
  /\ phase = "links" /\ memory["accounts"] # {}
  /\ phase' = "rest"
  /\ UNCHANGED <<places, memory, loaded, histories>>

(* A file is preferred to the row as long as it is there.                  *)
Import_PrefersFile(d) ==
  /\ InTurn(d) /\ files[d] # NoDocument
  /\ Writing(d, files[d])
  /\ \E left \in {files[d], NoDocument} : files' = [files EXCEPT ![d] = left]
  /\ UNCHANGED <<memory, loaded, phase, histories>>

-----------------------------------------------------------------------------
(* NeoPtt_Start, in its order: ConfigureDatabase, the stores, the socket.  *)

Configure ==
  /\ phase = "down"
  /\ phase' = "accounts"
  /\ UNCHANGED <<places, memory, loaded, histories>>

(* The row is committed before RetainLegacyBackup renames the file, which  *)
(* may fail without notice, or never happen.                               *)
Import(d) ==
  /\ InTurn(d) /\ Importable(d)
  /\ Writing(d, files[d])
  /\ \E left \in {files[d], NoDocument} : files' = [files EXCEPT ![d] = left]
  /\ UNCHANGED <<memory, loaded, phase, histories>>

LoadAccounts ==
  /\ Ready("accounts")
  /\ Holding("accounts", Row("accounts"))
  /\ Writing("accounts", Row("accounts"))
  /\ phase' = "game_admins"
  /\ UNCHANGED <<files, histories>>

(* GameAdminStore::Load saves when there was no row or a link was added.   *)
LoadGameAdmins ==
  /\ Ready("game_admins")
  /\ Holding("game_admins", Merged)
  /\ Writing("game_admins", Merged)
  /\ phase' = "links"
  /\ UNCHANGED <<files, histories>>

(* ClearLegacySteamLinks; AccountStore::Save writes no links.              *)
ClearLinks ==
  /\ phase = "links"
  /\ memory' = [memory EXCEPT !["accounts"] = {}]
  /\ Writing("accounts", IF memory["accounts"] = {} THEN database["accounts"] ELSE {})
  /\ phase' = "rest"
  /\ UNCHANGED <<files, loaded, histories>>

LoadRest(d) ==
  /\ d \in Others
  /\ Ready(d)
  /\ Holding(d, Row(d))
  /\ Writing(d, Row(d))
  /\ UNCHANGED <<files, phase, histories>>

AllLoaded == phase = "rest" /\ Others \subseteq loaded

OpenSocket ==
  /\ AllLoaded
  /\ phase' = "up"
  /\ UNCHANGED <<places, memory, loaded, histories>>

-----------------------------------------------------------------------------
(* A start that fails closes the database and leaves the stores as they    *)
(* are.  Every step of it can fail.                                        *)

CloseDatabase ==
  /\ phase' = "failed"
  /\ UNCHANGED <<places, histories>>

ConfigureFails ==
  /\ phase = "down"
  /\ CloseDatabase
  /\ UNCHANGED <<memory, loaded>>

(* A document that cannot be read, parsed or created.                      *)
LoadFails(d) ==
  /\ InTurn(d)
  /\ Holding(d, {})
  /\ CloseDatabase

(* The links are in memory when the write of them fails.                   *)
SaveGameAdminsFails ==
  /\ Ready("game_admins")
  /\ Merged # database["game_admins"]
  /\ Holding("game_admins", Merged)
  /\ CloseDatabase

ClearLinksFails ==
  /\ phase = "links" /\ memory["accounts"] # {}
  /\ CloseDatabase
  /\ UNCHANGED <<memory, loaded>>

(* No secret, no setup code, no socket, no worker.                         *)
OpenSocketFails ==
  /\ AllLoaded
  /\ CloseDatabase
  /\ UNCHANGED <<memory, loaded>>

-----------------------------------------------------------------------------
(* The running plugin.  A save that fails restores the memory: no step.    *)

SaveGameAdmins(admins) ==
  /\ memory' = [memory EXCEPT !["game_admins"] = admins]
  /\ Writing("game_admins", admins)
  /\ UNCHANGED <<files, loaded, phase, linked, accepted, durable>>

(* Load does not apply the limit: the migration may exceed it.             *)
Upsert(s) ==
  /\ phase = "up"
  /\ s \notin memory["game_admins"] /\ Cardinality(memory["game_admins"]) < MaxAdmins
  /\ SaveGameAdmins(memory["game_admins"] \cup {s})
  /\ removed' = removed \ {s}

Remove(s) ==
  /\ phase = "up"
  /\ s \in memory["game_admins"]
  /\ SaveGameAdmins(memory["game_admins"] \ {s})
  /\ removed' = removed \cup {s}

(* A command or the in-game menu changes another store.                    *)
Change(d, content) ==
  /\ phase = "up" /\ d \in Others
  /\ memory' = [memory EXCEPT ![d] = content]
  /\ Writing(d, content)
  /\ accepted' = [accepted EXCEPT ![d] = content]
  /\ durable' = durable \cup {d}
  /\ UNCHANGED <<files, loaded, phase, linked, removed>>

(* The menu works without the socket.  WriteJsonDocument finds no database *)
(* and writes the file, unless the store has no path yet.                  *)
MenuChange(d, content) ==
  /\ phase = "failed" /\ d \in MenuStores \cap loaded
  /\ memory' = [memory EXCEPT ![d] = content]
  /\ files' = [files EXCEPT ![d] = content]
  /\ accepted' = [accepted EXCEPT ![d] = content]
  /\ durable' = durable \ {d}
  /\ UNCHANGED <<database, loaded, phase, linked, removed>>

(* NeoPtt_Shutdown, or a crash at any point between two transactions.      *)
Halt ==
  /\ phase # "down"
  /\ phase' = "down"
  /\ memory' = Empty
  /\ loaded' = {}
  /\ UNCHANGED <<places, histories>>

Starting ==
  \/ Configure \/ LoadAccounts \/ LoadGameAdmins \/ ClearLinks \/ OpenSocket
  \/ \E d \in Documents : Import(d) \/ LoadRest(d)

Failing ==
  \/ ConfigureFails \/ SaveGameAdminsFails \/ ClearLinksFails \/ OpenSocketFails
  \/ \E d \in Documents : LoadFails(d)

Running ==
  \/ \E s \in Ids : Upsert(s) \/ Remove(s)
  \/ \E d \in Others, content \in Content : Change(d, content) \/ MenuChange(d, content)

Next == Starting \/ Failing \/ Running \/ Halt

Spec == Init /\ [][Next]_vars
-----------------------------------------------------------------------------
(* Every document is absent or a set of IDs, wherever it is; a store never *)
(* holds an absent one.  The start is at one of its steps.                 *)
StorageTypeOK ==
  /\ database \in [Documents -> Stored] /\ files \in [Documents -> Stored]
  /\ memory \in [Documents -> Stored] /\ loaded \subseteq Documents
  /\ \A d \in Documents : memory[d] # NoDocument
  /\ phase \in {"down", "accounts", "game_admins", "links", "rest", "up", "failed"}
  /\ linked \subseteq Ids /\ removed \subseteq Ids
  /\ accepted \in [Documents -> Stored] /\ durable \subseteq Others

(* What the next start will find of a document.                            *)
Found(d) == IF database[d] = NoDocument THEN File(d) ELSE database[d]

(* The migration loses nobody: whoever was linked to an account and was    *)
(* not deleted since can be read back from one of the two documents, no    *)
(* matter where a start failed or the server crashed.                      *)
LinksKept == linked \ removed \subseteq Found("accounts") \cup Found("game_admins")

(* The migration brings nobody back: an in-game administrator that was     *)
(* deleted has no rights in the game afterwards, though his account was    *)
(* linked once and starts are repeated.                                    *)
NobodyResurrected == removed \cap memory["game_admins"] = {}

(* A change of a store that went into the database is what the database    *)
(* holds and what the running plugin works with after any restart, though  *)
(* an imported file may still lie beside it (RetainLegacyBackup).          *)
DatabaseChangesStand ==
  \A d \in durable :
    /\ database[d] = accepted[d]
    /\ phase = "up" => memory[d] = accepted[d]

(* docs/SQLITE_STORAGE.md says that the plugin stores its data in the      *)
(* database: a change reported as saved is there when the plugin runs      *)
(* again.  One accepted after a failed start went into a file that is not  *)
(* read any more.                                                          *)
AcceptedChangesStand ==
  phase = "up" => \A d \in Others : accepted[d] # NoDocument => memory[d] = accepted[d]

=============================================================================
