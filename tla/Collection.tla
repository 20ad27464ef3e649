----------------------------- MODULE Collection -----------------------------
(***************************************************************************)
(* src/fingerprint/Collection.cpp: the identifiers of fingerprints in the  *)
(* SQLite file collection.db, which every process of the user opens.  Each *)
(* statement is a transaction of its own: a process may die between two of *)
(* them, two processes may run theirs in turn, and a statement that fails, *)
(* SELECTs included, is logged and passed over.                            *)
(***************************************************************************)
EXTENDS Integers, Sequences, FiniteSets

CONSTANTS
  Procs,           \* processes that use the library
  Files,           \* audio files on the disk
  Ids,             \* identifiers that the service may answer, uint
  OldId,           \* what a version before 1.4.2 stored
  IntLimit,        \* 2^31: int is -IntLimit .. IntLimit - 1, uint twice as much
  MaxCrashes,      \* bound: processes that die
  MaxSqlFailures,  \* bound: statements that fail
  NoId             \* NULL in the column fpId

(* What was stored before can be told from an answer, from 0 and from NULL. *)
ASSUME IdsAreUnsigned ==
  /\ IntLimit \in Nat \ {0} /\ Ids \subseteq 0 .. 2 * IntLimit - 1
  /\ OldId \in 1 .. IntLimit - 1 /\ OldId \notin Ids /\ NoId \notin Int

VARIABLES
  at,          \* where the constructor of each process's s_instance is
  hasFiles,    \* the tables exist
  hasIndex,    \* files_uri_idx exists: uri is unique
  hasMetadata, \* the table metadata exists
  version,     \* its row 'version'; 0 for none
  rows,        \* fpId in the rows of each file in the table files, oldest first
  behind,      \* history: the processes that found no version and have yet to
               \* wipe, though one is written by now or was there to be read
  crashes, failures

dbVars  == <<hasFiles, hasIndex, hasMetadata, version, rows>>
cntVars == <<crashes, failures>>
colVars == <<at, dbVars, behind, cntVars>>

(* A file written by this version exists or not yet, or an old one does.   *)
CollectionInit ==
  /\ at = [p \in Procs |-> "down"]
  /\ hasFiles \in BOOLEAN /\ hasIndex = hasFiles
  /\ hasMetadata = FALSE /\ version = 0
  /\ \E f \in Files :
       rows = [g \in Files |-> IF hasFiles /\ g = f THEN <<OldId>> ELSE <<>>]
  /\ behind = {} /\ crashes = 0 /\ failures = 0

(* The statement is executed with this effect, or fails without any.       *)
Fails == failures < MaxSqlFailures /\ failures' = failures + 1
Executed(effect) == \/ effect /\ UNCHANGED failures
                    \/ Fails /\ UNCHANGED dbVars
Goes(p, to) == at' = [at EXCEPT ![p] = to] /\ UNCHANGED crashes

(* instance() of the first Fingerprint of a process.  Where the file cannot *)
(* be opened every later query fails; where tables() does, it lists none.  *)
Open(p) ==
  /\ at[p] = "down"
  /\ \/ Goes(p, IF hasFiles THEN "version" ELSE "tables") /\ UNCHANGED failures
     \/ Goes(p, "shut") /\ Fails
     \/ Goes(p, "tables") /\ Fails
  /\ UNCHANGED <<dbVars, behind>>

CreateTables(p) ==
  /\ at[p] = "tables" /\ Goes(p, "index") /\ UNCHANGED behind
  /\ Executed(hasFiles' = TRUE
              /\ UNCHANGED <<hasIndex, hasMetadata, version, rows>>)

UniqueUris == \A f \in Files : Len(rows[f]) <= 1
CreateIndex(p) ==
  /\ at[p] = "index" /\ Goes(p, "version") /\ UNCHANGED behind
  /\ Executed(hasIndex' = (hasIndex \/ (hasFiles /\ UniqueUris))
              /\ UNCHANGED <<hasFiles, hasMetadata, version, rows>>)

(* Seeded bug: v <= k_collectionDbVersion. *)
ReadVersionAtMost(p) ==
  at[p] = "version" /\ Goes(p, "wipe") /\ UNCHANGED <<dbVars, behind, failures>>

(* version(): 0 where the SELECT fails, too.                               *)
ReadVersion(p) ==
  /\ at[p] = "version"
  /\ \/ /\ Goes(p, IF version < 1 THEN "wipe" ELSE "up")
        /\ UNCHANGED <<behind, failures>>
     \/ /\ Goes(p, "wipe") /\ Fails
        /\ behind' = IF version = 1 THEN behind \cup {p} ELSE behind
  /\ UNCHANGED dbVars

(* Seeded bug: the wipe matches no row. *)
WipeNothing(p) == /\ at[p] = "wipe" /\ Goes(p, "metadata") /\ behind' = behind \ {p}
                  /\ Executed(UNCHANGED dbVars)
Wipe(p) ==
  /\ at[p] = "wipe" /\ Goes(p, "metadata") /\ behind' = behind \ {p}
  /\ Executed(rows' = [f \in Files |-> [i \in DOMAIN rows[f] |-> NoId]]
              /\ UNCHANGED <<hasFiles, hasIndex, hasMetadata, version>>)

CreateMetadata(p) ==
  /\ at[p] = "metadata" /\ Goes(p, "insert") /\ UNCHANGED behind
  /\ Executed(hasMetadata' = TRUE
              /\ UNCHANGED <<hasFiles, hasIndex, version, rows>>)

(* The processes that are about to wipe fall behind.                       *)
InsertVersion(p) ==
  /\ at[p] = "insert" /\ Goes(p, "update")
  /\ Executed(version' = (IF hasMetadata THEN 1 ELSE 0)
              /\ UNCHANGED <<hasFiles, hasIndex, hasMetadata, rows>>)
  /\ behind' = IF version # version' THEN {q \in Procs : at[q] = "wipe"} ELSE behind

(* It updates the row that is there: version 1 again.                      *)
UpdateVersion(p) == /\ at[p] = "update" /\ Goes(p, "up") /\ UNCHANGED behind
                    /\ Executed(UNCHANGED dbVars)

Construct(p) == \/ Open(p) \/ CreateTables(p) \/ CreateIndex(p) \/ ReadVersion(p)
                \/ Wipe(p) \/ CreateMetadata(p) \/ InsertVersion(p)
                \/ UpdateVersion(p)

(* getFingerprintId(): the first row of the file; "" where the query fails. *)
GetFingerprintId(f) == IF rows[f] = <<>> THEN NoId ELSE Head(rows[f])

Fits(id) == id < IntLimit

(* Seeded bug: the number is stored as it was sent. *)
ToIntUnsigned(id) == id

(* QString::toInt() fails on what does not fit, and gives 0.               *)
ToInt(id) == IF Fits(id) THEN id ELSE 0

(* Seeded bug: INSERT in place of REPLACE. *)
ReplacedNever(f, id) ==
  [rows EXCEPT ![f] = IF hasIndex /\ @ # <<>> THEN @ ELSE Append(@, ToInt(id))]

(* Seeded bug: the index on the column track is unique, too. *)
ReplacedByTrack(f, id) ==
  [g \in Files |-> IF g = f THEN <<ToInt(id)>> ELSE IF hasIndex THEN <<>> ELSE rows[g]]

(* setFingerprintId(): REPLACE drops the row with that uri only where the  *)
(* index says that uri is unique.                                          *)
Replaced(f, id) ==
  [rows EXCEPT ![f] = IF hasIndex THEN <<ToInt(id)>> ELSE Append(@, ToInt(id))]
SetFingerprintId(f, id) ==
  Executed(rows' = (IF hasFiles THEN Replaced(f, id) ELSE rows)
           /\ UNCHANGED <<hasFiles, hasIndex, hasMetadata, version>>)
=============================================================================
