-------------------------- MODULE FingerprintProofs --------------------------
(* Collection and FingerprintSession for every value of their constants: any  *)
(* number of processes with one collection, of files and of Fingerprints, of  *)
(* crashes and, but where a theorem says so, of statements that fail.         *)
EXTENDS FingerprintSession, TLAPS

\* Where the constructor of Collection may be before the wipe, and behind it.
BeforeWipe == {"down", "tables", "index", "version", "wipe"}
BehindWipe == {"metadata", "insert", "update", "up", "shut"}

Typed ==
    /\ TypeOK
    /\ at \in [Procs -> BeforeWipe \cup BehindWipe]
    /\ hasFiles \in BOOLEAN /\ hasIndex \in BOOLEAN /\ hasMetadata \in BOOLEAN
    /\ failures \in Nat
    /\ latest \in [Files -> Ids \cup {NoId}] /\ moves \subseteq Files
    /\ proc \in [Objects -> Procs \cup {Nobody}]
    /\ url \in [Objects -> Files \cup {Nobody}]
    /\ m_data \in [Objects -> Files \cup {Nobody}]
    /\ reply \in [Objects -> Files \cup {Nobody}]

\* A table that is not there has no rows.
NoTableNoRows == ~hasFiles => \A f \in Files : rows[f] = <<>>

\* The youngest row of a file is the answer that was stored last.
YoungestIsLatest ==
    \A f \in Files : rows[f] # <<>> /\ latest[f] # NoId =>
        rows[f][Len(rows[f])] \in {NoId, ToInt(latest[f])}

\* As long as an old identifier is in the table nobody is behind the wipe, unless a
\* statement failed.
OldIsBeforeWipe ==
    failures = 0 =>
        \A f \in Files : \A i \in DOMAIN rows[f] :
            rows[f][i] = OldId => version = 0 /\ \A p \in Procs : at[p] \in BeforeWipe

\* What an object holds or has posted is of its file, or its track was moved there.
SamplesAreOfFile ==
    \A o \in Objects :
        IF proc[o] = Nobody THEN m_data[o] = Nobody /\ reply[o] = Nobody
        ELSE /\ url[o] \in Files
             /\ url[o] \in moves \/ (m_data[o] \in {Nobody, url[o]} /\ reply[o] \in {Nobody, url[o]})

IInv ==
    /\ Typed
    /\ NoTableNoRows /\ YoungestIsLatest
    /\ OldIsBeforeWipe /\ OldIdsAreWiped
    /\ SamplesAreOfFile /\ IdBelongsToFile

-----------------------------------------------------------------------------
(* Identifiers *)

Stored == 0 .. IntLimit - 1 \cup {NoId}

\* What is stored and what an object keeps of an answer fits an int, is not NULL,
\* and is no identifier of an old version.
LEMMA AnswerFits ==
    ASSUME NEW id \in Ids
    PROVE  /\ ToInt(id) \in 0 .. IntLimit - 1 /\ ToInt(id) # NoId /\ ToInt(id) # OldId
           /\ AsInt(id) \in -IntLimit .. IntLimit - 1 /\ AsInt(id) # OldId
           /\ Fits(id) => ToInt(id) = id
<1>1. /\ IntLimit \in Nat \ {0} /\ id \in 0 .. 2 * IntLimit - 1
      /\ OldId \in 1 .. IntLimit - 1 /\ OldId # id /\ NoId \notin Int
  BY IdsAreUnsigned
<1>2. CASE Fits(id)
  BY <1>1, <1>2 DEF Fits, ToInt, AsInt
<1>3. CASE ~Fits(id)
  BY <1>1, <1>3 DEF Fits, ToInt, AsInt
<1> QED
  BY <1>2, <1>3

\* getFingerprintId() finds the identifier of a row or none.
LEMMA FoundIsStored ==
    ASSUME Typed, NEW f \in Files
    PROVE  /\ GetFingerprintId(f) \in Stored
           /\ GetFingerprintId(f) # NoId => /\ 1 \in DOMAIN rows[f]
                                            /\ GetFingerprintId(f) = rows[f][1]
<1>1. rows[f] \in Seq(Stored)
  BY DEF Typed, TypeOK, Stored
<1>2. CASE rows[f] = <<>>
  BY <1>2 DEF GetFingerprintId, Stored
<1>3. CASE rows[f] # <<>>
  <2>1. 1 \in DOMAIN rows[f] /\ Head(rows[f]) = rows[f][1] /\ rows[f][1] \in Stored
    BY <1>1, <1>3
  <2> QED
    BY <1>3, <2>1 DEF GetFingerprintId
<1> QED
  BY <1>2, <1>3

\* setFingerprintId(): what is put in the row of f is its youngest, the rows
\* before it, if they stay, are as they were, and the other files' are.
LEMMA ReplacedRows ==
    ASSUME Typed, NEW f \in Files, NEW id \in Ids
    PROVE  LET r == Replaced(f, id)
           IN  /\ r \in [Files -> Seq(Stored)]
               /\ \A g \in Files : g # f => r[g] = rows[g]
               /\ r[f] # <<>> /\ r[f][Len(r[f])] = ToInt(id)
               /\ \A i \in DOMAIN r[f] :
                    r[f][i] = ToInt(id) \/ (i \in DOMAIN rows[f] /\ r[f][i] = rows[f][i])
               /\ hasIndex => Len(r[f]) = 1
<1> DEFINE new == IF hasIndex THEN <<ToInt(id)>> ELSE Append(rows[f], ToInt(id))
           r   == Replaced(f, id)
<1>1. /\ rows \in [Files -> Seq(Stored)] /\ rows[f] \in Seq(Stored)
      /\ ToInt(id) \in Stored
  BY AnswerFits DEF Typed, TypeOK, Stored
<1>2. r = [rows EXCEPT ![f] = new]
  BY DEF Replaced
<1>3. /\ new \in Seq(Stored) /\ new # <<>> /\ new[Len(new)] = ToInt(id)
      /\ \A i \in DOMAIN new :
           new[i] = ToInt(id) \/ (i \in DOMAIN rows[f] /\ new[i] = rows[f][i])
      /\ hasIndex => Len(new) = 1
  <2>1. CASE hasIndex
    BY <1>1, <2>1
  <2>2. CASE ~hasIndex
    BY <1>1, <2>2
  <2> QED
    BY <2>1, <2>2
<1> HIDE DEF new
<1>4. /\ r \in [Files -> Seq(Stored)] /\ r[f] = new
      /\ \A g \in Files : g # f => r[g] = rows[g]
  BY <1>1, <1>2, <1>3
<1> QED
  BY <1>3, <1>4

-----------------------------------------------------------------------------
(* Steps that leave the table as it is *)

\* A step of the objects or of a constructor that stores nothing.
LEMMA RowsStay ==
    ASSUME IInv, Typed', UNCHANGED <<rows, latest>>, hasFiles => hasFiles',
           moves \subseteq moves'
    PROVE  NoTableNoRows' /\ YoungestIsLatest' /\ IdBelongsToFile'
BY DEF IInv, NoTableNoRows, YoungestIsLatest, IdBelongsToFile

\* As long as nobody goes behind the wipe, and no version is written.
LEMMA StillBeforeWipe ==
    ASSUME IInv, UNCHANGED <<rows, version>>, failures' = 0 => failures = 0,
           \A p \in Procs : at[p] \in BeforeWipe => at'[p] \in BeforeWipe
    PROVE  OldIsBeforeWipe'
BY DEF IInv, OldIsBeforeWipe

LEMMA InitInv == Init => IInv
<1> SUFFICES ASSUME Init PROVE IInv
  OBVIOUS
<1>1. PICK f \in Files :
        rows = [g \in Files |-> IF hasFiles /\ g = f THEN <<OldId>> ELSE <<>>]
  BY DEF Init, CollectionInit
<1>2. /\ OldId \in 1 .. IntLimit - 1 /\ IntLimit \in Nat \ {0} /\ NoId \notin Int
  BY IdsAreUnsigned
<1>3. OldId \in Stored
  BY <1>2 DEF Stored
<1>4. <<OldId>> \in Seq(Stored) /\ <<>> \in Seq(Stored)
  BY <1>3
<1>5. rows \in [Files -> Seq(Stored)]
  BY <1>1, <1>4
<1>6. /\ at = [p \in Procs |-> "down"] /\ hasFiles \in BOOLEAN /\ hasIndex = hasFiles
      /\ hasMetadata = FALSE /\ version = 0 /\ failures = 0
  BY DEF Init, CollectionInit
<1>7. \A g \in Files : Len(rows[g]) <= 1
  BY <1>1
<1>8. -1 \in -IntLimit .. IntLimit - 1 /\ -1 # OldId
  BY <1>2
<1>9. TypeOK
  <2>1. m_id \in [Objects -> -IntLimit .. IntLimit - 1]
    BY <1>8 DEF Init
  <2> QED
    BY <1>5, <1>6, <1>7, <2>1 DEF TypeOK, UniqueUris, Stored
<1>10. Typed
  BY <1>6, <1>9 DEF Init, Typed, BeforeWipe, BehindWipe
<1>11. NoTableNoRows /\ YoungestIsLatest /\ OldIsBeforeWipe
  BY <1>1, <1>6 DEF Init, NoTableNoRows, YoungestIsLatest, OldIsBeforeWipe, BeforeWipe
<1>12. OldIdsAreWiped /\ SamplesAreOfFile
  BY <1>8 DEF Init, OldIdsAreWiped, SamplesAreOfFile
<1>13. IdBelongsToFile
  BY <1>1 DEF IdBelongsToFile
<1> QED
  BY <1>10, <1>11, <1>12, <1>13 DEF IInv

-----------------------------------------------------------------------------
(* The constructor of Collection *)

\* A statement that leaves the table files as it is.
LEMMA StatementInv ==
    ASSUME IInv, NEW p \in Procs, NEW to \in BeforeWipe \cup BehindWipe, Goes(p, to),
           UNCHANGED <<rows, objVars>>,
           hasFiles' \in BOOLEAN, hasIndex' \in BOOLEAN, hasMetadata' \in BOOLEAN,
           version' \in {0, 1}, version' = 1 => hasMetadata',
           hasFiles => hasFiles', hasIndex' => hasFiles' /\ UniqueUris,
           failures' \in Nat, failures' = 0 => failures = 0,
           OldIsBeforeWipe'
    PROVE  IInv'
<1>1. at' \in [Procs -> BeforeWipe \cup BehindWipe]
  BY DEF Goes, IInv, Typed
<1>2. UniqueUris' = UniqueUris
  BY DEF UniqueUris
<1>3. Typed'
  BY <1>1, <1>2 DEF IInv, Typed, TypeOK, objVars
<1>4. NoTableNoRows' /\ YoungestIsLatest' /\ IdBelongsToFile'
  BY <1>3, RowsStay DEF objVars
<1>5. OldIdsAreWiped'
  BY DEF IInv, OldIdsAreWiped, objVars
<1>6. SamplesAreOfFile'
  BY DEF IInv, SamplesAreOfFile, objVars
<1> QED
  BY <1>3, <1>4, <1>5, <1>6 DEF IInv

\* Before the wipe a constructor goes on before the wipe.
LEMMA StillBefore ==
    ASSUME IInv, NEW p \in Procs, NEW to \in BeforeWipe, Goes(p, to),
           UNCHANGED <<rows, version>>, failures' = 0 => failures = 0
    PROVE  OldIsBeforeWipe'
<1>1. \A q \in Procs : at[q] \in BeforeWipe => at'[q] \in BeforeWipe
  BY DEF Goes, IInv, Typed
<1> QED
  BY <1>1, StillBeforeWipe

\* Behind the wipe no old identifier is left, whoever wiped.
LEMMA BehindIsWiped ==
    ASSUME IInv, NEW p \in Procs, at[p] \in BehindWipe \/ version # 0, UNCHANGED rows,
           failures' = 0 => failures = 0
    PROVE  OldIsBeforeWipe'
<1>1. BeforeWipe \cap BehindWipe = {}
  BY DEF BeforeWipe, BehindWipe
<1>2. failures = 0 => \A f \in Files : \A i \in DOMAIN rows[f] : rows[f][i] # OldId
  BY <1>1 DEF IInv, OldIsBeforeWipe
<1> QED
  BY <1>2 DEF OldIsBeforeWipe

\* A statement that fails changes nothing, wherever its constructor goes on.
LEMMA FailedInv ==
    ASSUME IInv, NEW p \in Procs, NEW to \in BeforeWipe \cup BehindWipe, Goes(p, to),
           Fails, UNCHANGED <<dbVars, objVars>>
    PROVE  IInv'
<1>1. failures' \in Nat /\ failures' # 0
  BY DEF Fails, IInv, Typed
<1>2. OldIsBeforeWipe'
  BY <1>1 DEF OldIsBeforeWipe
<1> QED
  BY <1>1, <1>2, StatementInv DEF dbVars, IInv, Typed, TypeOK

LEMMA OpenInv ==
    ASSUME IInv, NEW p \in Procs, Open(p), UNCHANGED objVars
    PROVE  IInv'
<1>1. CASE Goes(p, IF hasFiles THEN "version" ELSE "tables") /\ UNCHANGED failures
  <2> DEFINE to == IF hasFiles THEN "version" ELSE "tables"
  <2>1. to \in BeforeWipe /\ Goes(p, to) /\ UNCHANGED <<dbVars, failures>>
    BY <1>1 DEF Open, BeforeWipe
  <2> HIDE DEF to
  <2>2. OldIsBeforeWipe'
    BY <2>1, StillBefore DEF dbVars
  <2> QED
    BY <2>1, <2>2, StatementInv DEF dbVars, IInv, Typed, TypeOK
<1>2. ASSUME NEW to \in {"shut", "tables"}, Goes(p, to), Fails
      PROVE  IInv'
  <2>1. to \in BeforeWipe \cup BehindWipe
    BY DEF BeforeWipe, BehindWipe
  <2> QED
    BY <1>2, <2>1, FailedInv DEF Open
<1> QED
  BY <1>1, <1>2 DEF Open

LEMMA CreateTablesInv ==
    ASSUME IInv, NEW p \in Procs, CreateTables(p), UNCHANGED objVars
    PROVE  IInv'
<1>1. "index" \in BeforeWipe /\ Goes(p, "index")
  BY DEF CreateTables, BeforeWipe
<1>2. /\ UNCHANGED <<hasIndex, hasMetadata, version, rows>>
      /\ hasFiles' = TRUE \/ hasFiles' = hasFiles
      /\ failures' = failures \/ failures' = failures + 1
  BY DEF CreateTables, Executed, Fails, dbVars
<1>3. failures' \in Nat /\ (failures' = 0 => failures = 0)
  BY <1>2 DEF IInv, Typed
<1>4. /\ hasFiles' \in BOOLEAN /\ (hasFiles => hasFiles')
      /\ (hasIndex' => hasFiles' /\ UniqueUris)
  <2>1. hasFiles \in BOOLEAN /\ (hasIndex => hasFiles /\ UniqueUris)
    BY DEF IInv, Typed, TypeOK
  <2> QED
    BY <1>2, <2>1
<1>5. OldIsBeforeWipe'
  BY <1>1, <1>2, <1>3, StillBefore
<1> QED
  BY <1>1, <1>2, <1>3, <1>4, <1>5, StatementInv DEF IInv, Typed, TypeOK

\* The index is made where uri is unique.
LEMMA CreateIndexInv ==
    ASSUME IInv, NEW p \in Procs, CreateIndex(p), UNCHANGED objVars
    PROVE  IInv'
<1>1. "version" \in BeforeWipe /\ Goes(p, "version")
  BY DEF CreateIndex, BeforeWipe
<1>2. /\ UNCHANGED <<hasFiles, hasMetadata, version, rows>>
      /\ hasIndex' \in {hasIndex, hasIndex \/ (hasFiles /\ UniqueUris)}
      /\ failures' \in Nat /\ (failures' = 0 => failures = 0)
  BY DEF CreateIndex, Executed, Fails, dbVars, IInv, Typed
<1>3. OldIsBeforeWipe'
  BY <1>1, <1>2, StillBefore
<1>4. hasIndex' \in BOOLEAN /\ (hasIndex' => hasFiles' /\ UniqueUris)
  <2>1. hasIndex \in BOOLEAN /\ (hasIndex => hasFiles /\ UniqueUris)
    BY DEF IInv, Typed, TypeOK
  <2> QED
    BY <1>2, <2>1
<1> QED
  BY <1>1, <1>2, <1>3, <1>4, StatementInv DEF IInv, Typed, TypeOK

\* version(): who reads a version that was written finds no old identifier.
LEMMA ReadVersionInv ==
    ASSUME IInv, NEW p \in Procs, ReadVersion(p), UNCHANGED objVars
    PROVE  IInv'
<1>1. CASE Goes(p, IF version < 1 THEN "wipe" ELSE "up") /\ UNCHANGED failures
  <2> DEFINE to == IF version < 1 THEN "wipe" ELSE "up"
  <2>1. /\ to \in BeforeWipe \cup BehindWipe /\ Goes(p, to)
        /\ UNCHANGED <<dbVars, failures>>
    BY <1>1 DEF ReadVersion, BeforeWipe, BehindWipe
  <2>2. version \in {0, 1}
    BY DEF IInv, Typed, TypeOK
  <2>3. OldIsBeforeWipe'
    <3>1. CASE version = 0
      <4>1. to \in BeforeWipe
        BY <3>1 DEF BeforeWipe
      <4> HIDE DEF to
      <4> QED
        BY <2>1, <4>1, StillBefore DEF dbVars
    <3>2. CASE version # 0
      BY <2>1, <3>2, BehindIsWiped DEF dbVars
    <3> QED
      BY <3>1, <3>2
  <2> HIDE DEF to
  <2> QED
    BY <2>1, <2>3, StatementInv DEF dbVars, IInv, Typed, TypeOK
<1>2. CASE Goes(p, "wipe") /\ Fails
  <2>1. "wipe" \in BeforeWipe \cup BehindWipe
    BY DEF BeforeWipe
  <2> QED
    BY <1>2, <2>1, FailedInv DEF ReadVersion
<1> QED
  BY <1>1, <1>2 DEF ReadVersion

\* The wipe leaves no identifier, of whichever version.
LEMMA WipeInv ==
    ASSUME IInv, NEW p \in Procs, Wipe(p), UNCHANGED objVars
    PROVE  IInv'
<1>1. "metadata" \in BehindWipe /\ Goes(p, "metadata") /\ Typed
  BY DEF Wipe, BehindWipe, IInv
<1>2. CASE failures' # 0 /\ failures' \in Nat /\ UNCHANGED dbVars
  <2>1. OldIsBeforeWipe'
    BY <1>2 DEF OldIsBeforeWipe
  <2> QED
    BY <1>1, <1>2, <2>1, StatementInv DEF dbVars, IInv, Typed, TypeOK
<1>3. CASE /\ rows' = [f \in Files |-> [i \in DOMAIN rows[f] |-> NoId]]
           /\ UNCHANGED <<hasFiles, hasIndex, hasMetadata, version, failures>>
  <2>1. rows \in [Files -> Seq(Stored)]
    BY DEF IInv, Typed, TypeOK, Stored
  <2>2. /\ rows' \in [Files -> Seq(Stored)]
        /\ \A f \in Files : /\ Len(rows'[f]) = Len(rows[f])
                            /\ rows[f] = <<>> => rows'[f] = <<>>
                            /\ \A i \in DOMAIN rows'[f] : rows'[f][i] = NoId
    <3>1. ASSUME NEW f \in Files
          PROVE  LET new == [i \in DOMAIN rows[f] |-> NoId]
                 IN  /\ new \in Seq(Stored) /\ Len(new) = Len(rows[f])
                     /\ rows[f] = <<>> => new = <<>>
                     /\ \A i \in DOMAIN new : new[i] = NoId
      <4> DEFINE n == Len(rows[f])
      <4>1. n \in Nat /\ DOMAIN rows[f] = 1 .. n /\ (rows[f] = <<>> => n = 0)
        BY <2>1
      <4>2. NoId \in Stored
        BY DEF Stored
      <4> HIDE DEF n
      <4>3. /\ [i \in 1 .. n |-> NoId] \in Seq(Stored)
            /\ Len([i \in 1 .. n |-> NoId]) = n
        BY <4>1, <4>2
      <4>4. n = 0 => [i \in 1 .. n |-> NoId] = <<>>
        BY <4>1
      <4> QED
        BY <4>1, <4>3, <4>4 DEF n
    <3> QED
      BY <1>3, <3>1
  <2>3. UniqueUris' = UniqueUris
    BY <2>2 DEF UniqueUris
  <2>4. at' \in [Procs -> BeforeWipe \cup BehindWipe]
    BY <1>1 DEF Goes, Typed
  <2>5. Typed'
    BY <1>1, <1>3, <2>2, <2>3, <2>4 DEF Typed, TypeOK, objVars, Stored
  <2>6. NoTableNoRows'
    BY <1>3, <2>2 DEF IInv, NoTableNoRows
  <2>7. YoungestIsLatest'
    <3> SUFFICES ASSUME NEW f \in Files, rows'[f] # <<>>
                 PROVE  rows'[f][Len(rows'[f])] = NoId
      BY DEF YoungestIsLatest
    <3>1. rows'[f] \in Seq(Stored)
      BY <2>2
    <3>2. Len(rows'[f]) \in DOMAIN rows'[f]
      BY <3>1
    <3> QED
      BY <2>2, <3>2
  <2>8. OldIsBeforeWipe'
    BY <2>2, IdsAreUnsigned DEF OldIsBeforeWipe
  <2>9. OldIdsAreWiped' /\ SamplesAreOfFile'
    BY <1>3 DEF IInv, OldIdsAreWiped, SamplesAreOfFile, objVars
  <2>10. IdBelongsToFile'
    BY <2>2 DEF IdBelongsToFile
  <2> QED
    BY <2>5, <2>6, <2>7, <2>8, <2>9, <2>10 DEF IInv
<1> QED
  BY <1>1, <1>2, <1>3 DEF Wipe, Executed, Fails, Typed

\* CREATE TABLE metadata and UPDATE: the version stays.
LEMMA CreateMetadataInv ==
    ASSUME IInv, NEW p \in Procs, CreateMetadata(p), UNCHANGED objVars
    PROVE  IInv'
<1>1. "insert" \in BehindWipe /\ Goes(p, "insert") /\ at[p] \in BehindWipe
  BY DEF CreateMetadata, BehindWipe
<1>2. /\ UNCHANGED <<hasFiles, hasIndex, version, rows>>
      /\ hasMetadata' = TRUE \/ hasMetadata' = hasMetadata
      /\ failures' = failures \/ failures' = failures + 1
  BY DEF CreateMetadata, Executed, Fails, dbVars
<1>3. failures' \in Nat /\ (failures' = 0 => failures = 0)
  BY <1>2 DEF IInv, Typed
<1>4. hasMetadata' \in BOOLEAN /\ (version' = 1 => hasMetadata')
  <2>1. hasMetadata \in BOOLEAN /\ (version = 1 => hasMetadata)
    BY DEF IInv, Typed, TypeOK
  <2> QED
    BY <1>2, <2>1
<1>5. OldIsBeforeWipe'
  BY <1>1, <1>2, <1>3, BehindIsWiped
<1> QED
  BY <1>1, <1>2, <1>3, <1>4, <1>5, StatementInv DEF IInv, Typed, TypeOK

LEMMA InsertVersionInv ==
    ASSUME IInv, NEW p \in Procs, InsertVersion(p), UNCHANGED objVars
    PROVE  IInv'
<1>1. "update" \in BehindWipe /\ Goes(p, "update") /\ at[p] \in BehindWipe
  BY DEF InsertVersion, BehindWipe
<1>2. /\ UNCHANGED <<hasFiles, hasIndex, hasMetadata, rows>>
      /\ version' = (IF hasMetadata THEN 1 ELSE 0) \/ version' = version
      /\ failures' = failures \/ failures' = failures + 1
  BY DEF InsertVersion, Executed, Fails, dbVars
<1>3. failures' \in Nat /\ (failures' = 0 => failures = 0)
  BY <1>2 DEF IInv, Typed
<1>4. version' \in {0, 1} /\ (version' = 1 => hasMetadata')
  BY <1>2 DEF IInv, Typed, TypeOK
<1>5. OldIsBeforeWipe'
  BY <1>1, <1>2, <1>3, BehindIsWiped
<1> QED
  BY <1>1, <1>2, <1>3, <1>4, <1>5, StatementInv DEF IInv, Typed, TypeOK

LEMMA UpdateVersionInv ==
    ASSUME IInv, NEW p \in Procs, UpdateVersion(p), UNCHANGED objVars
    PROVE  IInv'
<1>1. "up" \in BehindWipe /\ Goes(p, "up") /\ at[p] \in BehindWipe
  BY DEF UpdateVersion, BehindWipe
<1>2. /\ UNCHANGED <<hasFiles, hasIndex, hasMetadata, version, rows>>
      /\ failures' = failures \/ failures' = failures + 1
  BY DEF UpdateVersion, Executed, Fails, dbVars
<1>3. failures' \in Nat /\ (failures' = 0 => failures = 0)
  BY <1>2 DEF IInv, Typed
<1>4. OldIsBeforeWipe'
  BY <1>1, <1>2, <1>3, BehindIsWiped
<1> QED
  BY <1>1, <1>2, <1>3, <1>4, StatementInv DEF IInv, Typed, TypeOK

-----------------------------------------------------------------------------
(* The objects *)

\* A step that leaves the collection alone.
LEMMA ObjectsInv ==
    ASSUME IInv, UNCHANGED <<dbVars, latest>>, moves \subseteq moves',
           failures' = 0 => failures = 0,
           Typed', \A p \in Procs : at[p] \in BeforeWipe => at'[p] \in BeforeWipe,
           OldIdsAreWiped', SamplesAreOfFile'
    PROVE  IInv'
<1>1. NoTableNoRows' /\ YoungestIsLatest' /\ IdBelongsToFile'
  BY RowsStay DEF dbVars
<1>2. OldIsBeforeWipe'
  BY StillBeforeWipe DEF dbVars
<1> QED
  BY <1>1, <1>2 DEF IInv

\* The constructor of a Fingerprint, in a process whose collection is ready: what
\* it finds was not stored by an old version.
LEMMA NewInv ==
    ASSUME IInv, NEW o \in Objects, NEW p \in Procs, NEW f \in Files, New(o, p, f)
    PROVE  IInv'
<1> DEFINE id == IF GetFingerprintId(f) = NoId THEN -1 ELSE GetFingerprintId(f)
<1>1. /\ proc[o] = Nobody /\ at[p] \in {"up", "shut"}
      /\ proc' = [proc EXCEPT ![o] = p] /\ url' = [url EXCEPT ![o] = f]
      /\ m_id' = [m_id EXCEPT ![o] = -1] \/ m_id' = [m_id EXCEPT ![o] = id]
      /\ failures' = failures \/ failures' = failures + 1
      /\ UNCHANGED <<at, dbVars, m_data, reply, latest, moves>>
  BY DEF New, Fails
<1>2. Typed
  BY DEF IInv
<1>3. id \in -IntLimit .. IntLimit - 1 /\ -1 \in -IntLimit .. IntLimit - 1
  <2>1. IntLimit \in Nat \ {0}
    BY IdsAreUnsigned
  <2>2. GetFingerprintId(f) \in Stored
    BY <1>2, FoundIsStored
  <2> QED
    BY <2>1, <2>2 DEF Stored
<1>4. OldId # -1 /\ (failures = 0 => id # OldId)
  <2>1. OldId # -1
    BY IdsAreUnsigned
  <2>2. at[p] \notin BeforeWipe
    BY <1>1 DEF BeforeWipe
  <2>3. failures = 0 => \A i \in DOMAIN rows[f] : rows[f][i] # OldId
    BY <2>2 DEF IInv, OldIsBeforeWipe
  <2> QED
    BY <1>2, <2>1, <2>3, FoundIsStored
<1> HIDE DEF id
<1>5. /\ UNCHANGED <<at, dbVars, rows, hasFiles, hasIndex, hasMetadata, version>>
      /\ failures' \in Nat /\ (failures' = 0 => failures = 0)
  BY <1>1, <1>2 DEF dbVars, Typed
<1>6. Typed'
  <2>1. m_id' \in [Objects -> -IntLimit .. IntLimit - 1]
    BY <1>1, <1>2, <1>3 DEF Typed, TypeOK
  <2>2. UniqueUris' = UniqueUris
    BY <1>5 DEF UniqueUris
  <2> QED
    BY <1>1, <1>2, <1>5, <2>1, <2>2 DEF Typed, TypeOK
<1>7. OldIdsAreWiped'
  BY <1>1, <1>4, <1>5 DEF IInv, Typed, TypeOK, OldIdsAreWiped
<1>8. SamplesAreOfFile'
  BY <1>1 DEF IInv, Typed, SamplesAreOfFile
<1> QED
  BY <1>1, <1>5, <1>6, <1>7, <1>8, ObjectsInv

\* generate(): the samples are of the file that the track is now.
LEMMA GenerateInv ==
    ASSUME IInv, NEW o \in Objects, Generate(o)
    PROVE  IInv'
<1>1. /\ proc[o] # Nobody /\ m_data' = [m_data EXCEPT ![o] = url[o]]
      /\ UNCHANGED <<at, dbVars, failures, rows, hasFiles, hasIndex, hasMetadata,
                     version, proc, url, m_id, reply, latest, moves>>
  BY DEF Generate, colVars, dbVars, cntVars
<1>2. Typed'
  BY <1>1 DEF IInv, Typed, TypeOK, UniqueUris
<1>3. OldIdsAreWiped'
  BY <1>1 DEF IInv, OldIdsAreWiped
<1>4. SamplesAreOfFile'
  BY <1>1 DEF IInv, Typed, SamplesAreOfFile
<1> QED
  BY <1>1, <1>2, <1>3, <1>4, ObjectsInv

LEMMA SubmitInv ==
    ASSUME IInv, NEW o \in Objects, Submit(o)
    PROVE  IInv'
<1>1. /\ proc[o] # Nobody /\ reply' = [reply EXCEPT ![o] = m_data[o]]
      /\ UNCHANGED <<at, dbVars, failures, rows, hasFiles, hasIndex, hasMetadata,
                     version, proc, url, m_id, m_data, latest, moves>>
  BY DEF Submit, colVars, dbVars, cntVars
<1>2. Typed'
  BY <1>1 DEF IInv, Typed, TypeOK, UniqueUris
<1>3. OldIdsAreWiped'
  BY <1>1 DEF IInv, OldIdsAreWiped
<1>4. SamplesAreOfFile'
  BY <1>1 DEF IInv, Typed, SamplesAreOfFile
<1> QED
  BY <1>1, <1>2, <1>3, <1>4, ObjectsInv

\* setUrl() by the player: the file is one that a track was moved to.
LEMMA SetUrlInv ==
    ASSUME IInv, NEW o \in Objects, NEW f \in Files, SetUrl(o, f)
    PROVE  IInv'
<1>1. /\ proc[o] # Nobody /\ url' = [url EXCEPT ![o] = f] /\ moves' = moves \cup {f}
      /\ UNCHANGED <<at, dbVars, failures, rows, hasFiles, hasIndex, hasMetadata,
                     version, proc, m_id, m_data, reply, latest>>
  BY DEF SetUrl, colVars, dbVars, cntVars
<1>2. Typed'
  BY <1>1 DEF IInv, Typed, TypeOK, UniqueUris
<1>3. OldIdsAreWiped'
  BY <1>1 DEF IInv, OldIdsAreWiped
<1>4. SamplesAreOfFile'
  BY <1>1 DEF IInv, Typed, SamplesAreOfFile
<1> QED
  BY <1>1, <1>2, <1>3, <1>4, ObjectsInv

\* Objects that are destructed leave nothing, wherever their process was.
LEMMA ForgottenInv ==
    ASSUME IInv, NEW S, Forgotten(S), UNCHANGED <<dbVars, failures>>,
           at' \in [Procs -> BeforeWipe \cup BehindWipe],
           \A p \in Procs : at[p] \in BeforeWipe => at'[p] \in BeforeWipe
    PROVE  IInv'
<1>1. /\ proc'   = [o \in Objects |-> IF o \in S THEN Nobody ELSE proc[o]]
      /\ m_id'   = [o \in Objects |-> IF o \in S THEN -1 ELSE m_id[o]]
      /\ m_data' = [o \in Objects |-> IF o \in S THEN Nobody ELSE m_data[o]]
      /\ reply'  = [o \in Objects |-> IF o \in S THEN Nobody ELSE reply[o]]
      /\ url'    = [o \in Objects |-> IF o \in S THEN Nobody ELSE url[o]]
      /\ UNCHANGED <<latest, moves>>
      /\ UNCHANGED <<rows, hasFiles, hasIndex, hasMetadata, version, failures>>
  BY DEF Forgotten, Gone, dbVars
<1>2. -1 \in -IntLimit .. IntLimit - 1 /\ -1 # OldId
  BY IdsAreUnsigned
<1>3. Typed'
  BY <1>1, <1>2 DEF IInv, Typed, TypeOK, UniqueUris
<1>4. OldIdsAreWiped'
  BY <1>1, <1>2 DEF IInv, OldIdsAreWiped
<1>5. SamplesAreOfFile'
  BY <1>1 DEF IInv, SamplesAreOfFile
<1> QED
  BY <1>1, <1>3, <1>4, <1>5, ObjectsInv

LEMMA DestroyInv ==
    ASSUME IInv, NEW o \in Objects, Destroy(o)
    PROVE  IInv'
<1>1. Forgotten({o}) /\ UNCHANGED <<dbVars, failures, at>>
  BY DEF Destroy, colVars, cntVars
<1> QED
  BY <1>1, ForgottenInv DEF IInv, Typed

LEMMA CrashInv ==
    ASSUME IInv, NEW p \in Procs, Crash(p)
    PROVE  IInv'
<1>1. /\ Forgotten({o \in Objects : proc[o] = p}) /\ UNCHANGED <<dbVars, failures>>
      /\ at' = [at EXCEPT ![p] = "down"]
  BY DEF Crash
<1>2. /\ at' \in [Procs -> BeforeWipe \cup BehindWipe]
      /\ \A q \in Procs : at[q] \in BeforeWipe => at'[q] \in BeforeWipe
  BY <1>1 DEF IInv, Typed, BeforeWipe
<1> QED
  BY <1>1, <1>2, ForgottenInv

\* What decode() does with a good answer.
Stores(o, id) ==
    /\ SetFingerprintId(url[o], id)
    /\ latest' = IF failures' = failures THEN [latest EXCEPT ![url[o]] = id] ELSE latest
    /\ m_id' = [m_id EXCEPT ![o] = AsInt(id)]

LEMMA DecodeStores ==
    ASSUME Typed, NEW o \in Objects, Decode(o)
    PROVE  \/ UNCHANGED <<m_id, latest, dbVars, failures>>
           \/ \E id \in ServiceId[reply[o]] :
                \/ Stores(o, id)
                \/ /\ m_id' = [m_id EXCEPT ![o] = AsInt(id)]
                   /\ UNCHANGED <<latest, dbVars, failures>>
<1>1. PICK answer \in Answers(o) :
        IF ~answer.good
        THEN UNCHANGED <<m_id, requested, latest, dbVars, failures>>
        ELSE \/ Stores(o, answer.id)
             \/ /\ m_id' = [m_id EXCEPT ![o] = AsInt(answer.id)]
                /\ UNCHANGED <<latest, dbVars, failures>>
  BY DEF Decode, Stores
<1>2. CASE answer \in [good : {TRUE}, id : ServiceId[reply[o]], new : BOOLEAN]
  <2>1. answer.good /\ answer.id \in ServiceId[reply[o]]
    BY <1>2
  <2> QED
    BY <1>1, <2>1
<1>3. CASE answer = [good |-> FALSE, id |-> 0, new |-> FALSE]
  BY <1>1, <1>3
<1> QED
  BY <1>2, <1>3 DEF Answers

\* decode(): the youngest row of the track's file is the answer, which is of that
\* file's samples unless a track was moved there.
LEMMA DecodeInv ==
    ASSUME IInv, NEW o \in Objects, Decode(o)
    PROVE  IInv'
<1> DEFINE f == url[o]
<1>1. /\ proc[o] # Nobody /\ reply[o] # Nobody
      /\ reply' = [reply EXCEPT ![o] = Nobody]
      /\ UNCHANGED <<at, proc, url, m_data, moves>>
  BY DEF Decode
<1>2. Typed /\ f \in Files /\ (f \in moves \/ reply[o] = f)
  BY <1>1 DEF IInv, SamplesAreOfFile
<1>3. SamplesAreOfFile'
  BY <1>1 DEF IInv, Typed, SamplesAreOfFile
<1>4. reply' \in [Objects -> Files \cup {Nobody}]
  BY <1>1 DEF IInv, Typed
<1>5. CASE UNCHANGED <<m_id, latest, dbVars, failures>>
  <2>1. Typed'
    BY <1>1, <1>4, <1>5 DEF IInv, Typed, TypeOK, UniqueUris, dbVars
  <2>2. OldIdsAreWiped'
    BY <1>5 DEF IInv, OldIdsAreWiped
  <2> QED
    BY <1>1, <1>3, <1>5, <2>1, <2>2, ObjectsInv
<1>6. ASSUME NEW id \in Ids, reply[o] = f => id \in ServiceId[f],
             SetFingerprintId(f, id),
             latest' = IF failures' = failures THEN [latest EXCEPT ![f] = id] ELSE latest,
             m_id' = [m_id EXCEPT ![o] = AsInt(id)]
      PROVE  IInv'
  <2>1. m_id' \in [Objects -> -IntLimit .. IntLimit - 1] /\ m_id'[o] = AsInt(id)
        /\ \A q \in Objects : q # o => m_id'[q] = m_id[q]
    BY <1>6, AnswerFits DEF IInv, Typed, TypeOK
  <2>2. /\ failures \in Nat /\ failures' \in Nat /\ (failures' = 0 => failures = 0)
        /\ latest \in [Files -> Ids \cup {NoId}]
        /\ failures + 1 # failures
    BY <1>6 DEF SetFingerprintId, Executed, Fails, IInv, Typed
  <2>3. OldIdsAreWiped'
    BY <2>1, <2>2, AnswerFits DEF IInv, OldIdsAreWiped
  <2>4. CASE failures' = failures + 1 /\ UNCHANGED dbVars
    <3>1. latest' = latest
      BY <1>6, <2>2, <2>4
    <3>2. Typed'
      BY <1>1, <1>4, <2>1, <2>2, <2>4, <3>1 DEF IInv, Typed, TypeOK, UniqueUris, dbVars
    <3>3. NoTableNoRows' /\ YoungestIsLatest' /\ IdBelongsToFile'
      BY <1>1, <2>4, <3>1, <3>2, RowsStay DEF dbVars
    <3>4. OldIsBeforeWipe'
      BY <2>2, <2>4 DEF OldIsBeforeWipe
    <3> QED
      BY <1>3, <2>3, <3>2, <3>3, <3>4 DEF IInv
  <2>5. CASE /\ rows' = (IF hasFiles THEN Replaced(f, id) ELSE rows)
             /\ UNCHANGED <<hasFiles, hasIndex, hasMetadata, version, failures>>
    <3> DEFINE r == Replaced(f, id)
    <3>1. latest' = [latest EXCEPT ![f] = id]
      BY <1>6, <2>5
    <3>2. latest' \in [Files -> Ids \cup {NoId}] /\ latest'[f] = id
          /\ \A g \in Files : g # f => latest'[g] = latest[g]
      BY <1>2, <2>2, <3>1
    <3>3. /\ r \in [Files -> Seq(Stored)]
          /\ \A g \in Files : g # f => r[g] = rows[g]
          /\ r[f] # <<>> /\ r[f][Len(r[f])] = ToInt(id)
          /\ \A i \in DOMAIN r[f] :
               r[f][i] = ToInt(id) \/ (i \in DOMAIN rows[f] /\ r[f][i] = rows[f][i])
          /\ hasIndex => Len(r[f]) = 1
      BY <1>2, ReplacedRows
    <3> HIDE DEF r, f
    <3>4. CASE ~hasFiles
      <4>1. rows' = rows /\ \A g \in Files : rows[g] = <<>>
        BY <2>5, <3>4 DEF IInv, NoTableNoRows
      <4>2. Typed'
        BY <1>1, <1>4, <2>1, <2>2, <2>5, <3>2, <4>1 DEF IInv, Typed, TypeOK, UniqueUris
      <4>3. NoTableNoRows' /\ YoungestIsLatest'
        BY <4>1 DEF NoTableNoRows, YoungestIsLatest
      <4>4. OldIsBeforeWipe'
        BY <1>1, <2>2, <2>5, <4>1, StillBeforeWipe
      <4>5. IdBelongsToFile'
        BY <1>1, <4>1 DEF IInv, IdBelongsToFile
      <4> QED
        BY <1>3, <2>3, <4>2, <4>3, <4>4, <4>5 DEF IInv
    <3>5. CASE hasFiles
      <4>1. rows' = r
        BY <2>5, <3>5 DEF r
      <4>2. UniqueUris /\ hasIndex => UniqueUris'
        BY <3>3, <4>1 DEF UniqueUris
      <4>3. Typed'
        BY <1>1, <1>4, <2>1, <2>2, <2>5, <3>2, <3>3, <4>1, <4>2
        DEF IInv, Typed, TypeOK, Stored
      <4>4. NoTableNoRows'
        BY <2>5, <3>5 DEF NoTableNoRows
      <4>5. YoungestIsLatest'
        BY <3>2, <3>3, <4>1 DEF IInv, YoungestIsLatest
      <4>6. OldIsBeforeWipe'
        <5>1. \A g \in Files : \A i \in DOMAIN r[g] :
                r[g][i] = OldId => i \in DOMAIN rows[g] /\ rows[g][i] = OldId
          BY <3>3, AnswerFits
        <5> QED
          BY <1>1, <2>5, <4>1, <5>1 DEF IInv, OldIsBeforeWipe
      <4>7. IdBelongsToFile'
        <5> SUFFICES ASSUME NEW g \in Files, NEW i \in DOMAIN r[g]
                     PROVE  \/ r[g][i] \in {NoId, OldId} \/ g \in moves
                            \/ \E a \in ServiceId[g] : r[g][i] = ToInt(a)
          BY <1>1, <4>1 DEF IdBelongsToFile
        <5>1. CASE i \in DOMAIN rows[g] /\ r[g][i] = rows[g][i]
          BY <5>1 DEF IInv, IdBelongsToFile
        <5>2. CASE g = f /\ r[g][i] = ToInt(id)
          BY <1>2, <1>6, <5>2
        <5> QED
          BY <3>3, <5>1, <5>2
      <4> QED
        BY <1>3, <2>3, <4>3, <4>4, <4>5, <4>6, <4>7 DEF IInv
    <3> QED
      BY <3>4, <3>5
  <2> QED
    BY <1>6, <2>4, <2>5 DEF SetFingerprintId, Executed, Fails
<1>7. ASSUME NEW id \in Ids, m_id' = [m_id EXCEPT ![o] = AsInt(id)],
             UNCHANGED <<latest, dbVars, failures>>
      PROVE  IInv'
  <2>1. /\ m_id' \in [Objects -> -IntLimit .. IntLimit - 1] /\ m_id'[o] = AsInt(id)
        /\ \A q \in Objects : q # o => m_id'[q] = m_id[q]
    BY <1>7, AnswerFits DEF IInv, Typed, TypeOK
  <2>2. Typed'
    BY <1>1, <1>4, <1>7, <2>1 DEF IInv, Typed, TypeOK, UniqueUris, dbVars
  <2>3. OldIdsAreWiped'
    BY <1>7, <2>1, AnswerFits DEF IInv, OldIdsAreWiped
  <2> QED
    BY <1>1, <1>3, <1>7, <2>2, <2>3, ObjectsInv
<1>8. \/ UNCHANGED <<m_id, latest, dbVars, failures>>
      \/ \E id \in ServiceId[reply[o]] :
           \/ Stores(o, id)
           \/ /\ m_id' = [m_id EXCEPT ![o] = AsInt(id)]
              /\ UNCHANGED <<latest, dbVars, failures>>
  BY DecodeStores DEF IInv
<1>9. reply[o] \in Files /\ ServiceId[reply[o]] \subseteq Ids
  BY <1>1, <1>2, IdsDiffer DEF Typed
<1> QED
  BY <1>5, <1>6, <1>7, <1>8, <1>9 DEF Stores

LEMMA NextInv == IInv /\ [Next]_vars => IInv'
<1> SUFFICES ASSUME IInv, [Next]_vars PROVE IInv'
  OBVIOUS
<1>1. ASSUME NEW p \in Procs, Construct(p), UNCHANGED objVars
      PROVE  IInv'
  BY <1>1, OpenInv, CreateTablesInv, CreateIndexInv, ReadVersionInv, WipeInv,
     CreateMetadataInv, InsertVersionInv, UpdateVersionInv
  DEF Construct
<1>2. ASSUME NEW p \in Procs, Crash(p)
      PROVE  IInv'
  BY <1>2, CrashInv
<1>3. ASSUME NEW p \in Procs, NEW o \in Objects, NEW f \in Files, New(o, p, f)
      PROVE  IInv'
  BY <1>3, NewInv
<1>4. ASSUME NEW o \in Objects, NEW f \in Files, SetUrl(o, f)
      PROVE  IInv'
  BY <1>4, SetUrlInv
<1>5. ASSUME NEW o \in Objects, Generate(o) \/ Submit(o) \/ Decode(o) \/ Destroy(o)
      PROVE  IInv'
  BY <1>5, GenerateInv, SubmitInv, DecodeInv, DestroyInv
<1>6. CASE UNCHANGED vars
  <2>1. /\ UNCHANGED <<at, rows, hasFiles, hasIndex, hasMetadata, version, failures>>
        /\ UNCHANGED <<dbVars, proc, url, m_id, m_data, reply, latest, moves>>
    BY <1>6 DEF vars, colVars, objVars, dbVars, cntVars
  <2>2. Typed'
    BY <2>1 DEF IInv, Typed, TypeOK, UniqueUris
  <2>3. OldIdsAreWiped' /\ SamplesAreOfFile'
    BY <2>1 DEF IInv, OldIdsAreWiped, SamplesAreOfFile
  <2> QED
    BY <2>1, <2>2, <2>3, ObjectsInv
<1> QED
  BY <1>1, <1>2, <1>3, <1>4, <1>5, <1>6 DEF Next

LEMMA Invariance == Spec => []IInv
BY InitInv, NextInv, PTL DEF Spec

-----------------------------------------------------------------------------
(* Theorems *)

\* Collection(): no Fingerprint reads an identifier that a version before 1.4.2
\* stored, whatever number of processes upgrade in turn and die between any two
\* statements, as long as no statement fails.
THEOREM UpgradeWipes == Spec => []OldIdsAreWiped
<1>1. IInv => OldIdsAreWiped
  BY DEF IInv
<1> QED
  BY <1>1, Invariance, PTL

\* setFingerprintId() and getFingerprintId(): a row has its type and says of its
\* file what was answered last, where the index makes its uri unique and the
\* identifier fits an int.
THEOREM StoredIsTheAnswer == Spec => []RowsAreAnswers
<1>1. IInv => RowsAreAnswers
  <2> SUFFICES ASSUME IInv PROVE RowsAreAnswers
    OBVIOUS
  <2>1. TypeOK
    BY DEF IInv, Typed
  <2>2. CachedIdIsTheAnswer
    <3> SUFFICES ASSUME NEW f \in Files, hasIndex, latest[f] # NoId, Fits(latest[f]),
                        GetFingerprintId(f) # NoId
                 PROVE  GetFingerprintId(f) = latest[f]
      BY DEF CachedIdIsTheAnswer
    <3>1. latest[f] \in Ids /\ rows[f] \in Seq(Stored) /\ Len(rows[f]) <= 1
      BY <2>1 DEF IInv, Typed, TypeOK, UniqueUris, Stored
    <3>2. 1 \in DOMAIN rows[f] /\ GetFingerprintId(f) = rows[f][1]
      BY FoundIsStored DEF IInv
    <3>3. Len(rows[f]) = 1 /\ rows[f] # <<>>
      <4> DEFINE n == Len(rows[f])
      <4>1. n \in Nat /\ DOMAIN rows[f] = 1 .. n /\ n <= 1
        BY <3>1
      <4> HIDE DEF n
      <4>2. n = 1
        BY <3>2, <4>1
      <4> QED
        BY <3>2, <4>2 DEF n
    <3>4. rows[f][1] = ToInt(latest[f])
      BY <3>2, <3>3 DEF IInv, YoungestIsLatest
    <3> QED
      BY <3>1, <3>2, <3>4, AnswerFits
  <2> QED
    BY <2>1, <2>2 DEF RowsAreAnswers
<1> QED
  BY <1>1, Invariance, PTL

\* decode(): what is stored for a file was answered for its samples, unless the
\* player moved the track of a Fingerprint there.
THEOREM StoredIsOfTheFile == Spec => []IdBelongsToFile
<1>1. IInv => IdBelongsToFile
  BY DEF IInv
<1> QED
  BY <1>1, Invariance, PTL

\* Once the version is written, who is about to wipe found none.
WipersAreBehind == version = 1 => \A p \in Procs : at[p] = "wipe" => p \in behind

\* A statement that neither changes the version nor brings a process to the wipe.
LEMMA NoNewWiper ==
    ASSUME IInv, WipersAreBehind, NEW p \in Procs, NEW to, Goes(p, to), to # "wipe",
           UNCHANGED version, behind \ {p} \subseteq behind'
    PROVE  WipersAreBehind'
<1>1. \A q \in Procs : at'[q] = "wipe" => q # p /\ at[q] = "wipe"
  BY DEF Goes, IInv, Typed
<1> QED
  BY <1>1 DEF WipersAreBehind

LEMMA ConstructWipers ==
    ASSUME IInv, WipersAreBehind, NEW p \in Procs, Construct(p)
    PROVE  WipersAreBehind'
<1>1. CASE Open(p)
  <2>1. PICK to \in {"version", "tables", "shut"} : Goes(p, to)
    BY <1>1 DEF Open
  <2> QED
    BY <1>1, <2>1, NoNewWiper DEF Open, dbVars
<1>2. CASE CreateTables(p)
  BY <1>2, NoNewWiper DEF CreateTables, Executed, dbVars
<1>3. CASE CreateIndex(p)
  BY <1>3, NoNewWiper DEF CreateIndex, Executed, dbVars
<1>4. CASE ReadVersion(p)
  <2>1. UNCHANGED version /\ version \in {0, 1}
    BY <1>4 DEF ReadVersion, dbVars, IInv, Typed, TypeOK
  <2>2. ASSUME version = 1, NEW q \in Procs, at'[q] = "wipe"
        PROVE  q \in behind'
    <3>1. CASE Goes(p, "wipe") /\ behind' = behind \cup {p}
      BY <2>2, <3>1 DEF Goes, IInv, Typed, WipersAreBehind
    <3>2. CASE Goes(p, "up") /\ behind' = behind
      BY <2>2, <3>2 DEF Goes, IInv, Typed, WipersAreBehind
    <3> QED
      BY <1>4, <2>2, <3>1, <3>2 DEF ReadVersion
  <2> QED
    BY <2>1, <2>2 DEF WipersAreBehind
<1>5. CASE Wipe(p)
  BY <1>5, NoNewWiper DEF Wipe, Executed, dbVars
<1>6. CASE CreateMetadata(p)
  BY <1>6, NoNewWiper DEF CreateMetadata, Executed, dbVars
<1>7. CASE InsertVersion(p)
  <2>1. CASE version' = version
    BY <1>7, <2>1, NoNewWiper DEF InsertVersion
  <2>2. CASE version' # version
    <3>1. behind' = {q \in Procs : at[q] = "wipe"} /\ Goes(p, "update")
      BY <1>7, <2>2 DEF InsertVersion
    <3>2. \A q \in Procs : at'[q] = "wipe" => at[q] = "wipe"
      BY <3>1 DEF Goes, IInv, Typed
    <3> QED
      BY <3>1, <3>2 DEF WipersAreBehind
  <2> QED
    BY <2>1, <2>2
<1>8. CASE UpdateVersion(p)
  BY <1>8, NoNewWiper DEF UpdateVersion, Executed, dbVars
<1> QED
  BY <1>1, <1>2, <1>3, <1>4, <1>5, <1>6, <1>7, <1>8 DEF Construct

LEMMA NextWipers == IInv /\ WipersAreBehind /\ [Next]_vars => WipersAreBehind'
<1> SUFFICES ASSUME IInv, WipersAreBehind, [Next]_vars PROVE WipersAreBehind'
  OBVIOUS
<1>1. ASSUME NEW p \in Procs, Construct(p)
      PROVE  WipersAreBehind'
  BY <1>1, ConstructWipers
<1>2. ASSUME NEW p \in Procs, Crash(p)
      PROVE  WipersAreBehind'
  <2>1. Goes(p, "down") \/ at' = [at EXCEPT ![p] = "down"]
    BY <1>2 DEF Crash
  <2>2. /\ \A q \in Procs : at'[q] = "wipe" => q # p /\ at[q] = "wipe"
        /\ behind' = behind \ {p} /\ version' = version
    BY <1>2 DEF Crash, dbVars, IInv, Typed
  <2> QED
    BY <2>2 DEF WipersAreBehind
<1>3. CASE UNCHANGED <<at, version, behind>>
  BY <1>3 DEF WipersAreBehind
<1>4. ASSUME NEW p \in Procs, NEW o \in Objects, NEW f \in Files, New(o, p, f)
      PROVE  UNCHANGED <<at, version, behind>>
  BY <1>4 DEF New, dbVars
<1>5. ASSUME NEW o \in Objects, NEW f \in Files, SetUrl(o, f)
      PROVE  UNCHANGED <<at, version, behind>>
  BY <1>5 DEF SetUrl, colVars, dbVars
<1>6. ASSUME NEW o \in Objects, Generate(o) \/ Submit(o) \/ Destroy(o)
      PROVE  UNCHANGED <<at, version, behind>>
  BY <1>6 DEF Generate, Submit, Destroy, colVars, dbVars
<1>7. ASSUME NEW o \in Objects, Decode(o)
      PROVE  UNCHANGED <<at, version, behind>>
  BY <1>7, DecodeStores DEF IInv, Decode, Stores, SetFingerprintId, Executed, dbVars
<1>8. CASE UNCHANGED vars
  BY <1>3, <1>8 DEF vars, colVars, dbVars
<1> QED
  BY <1>1, <1>2, <1>3, <1>4, <1>5, <1>6, <1>7, <1>8 DEF Next

\* Only the wipe and decode() change a row.
LEMMA OnlyDecodeStores ==
    ASSUME [Next]_vars
    PROVE  rows' = rows \/ (\E o \in Objects : Decode(o)) \/ (\E p \in Procs : Wipe(p))
<1>1. ASSUME NEW p \in Procs, Construct(p), ~Wipe(p)
      PROVE  rows' = rows
  BY <1>1 DEF Construct, Open, CreateTables, CreateIndex, ReadVersion, CreateMetadata,
              InsertVersion, UpdateVersion, Executed, dbVars
<1>2. ASSUME NEW p \in Procs, Crash(p)
      PROVE  rows' = rows
  BY <1>2 DEF Crash, dbVars
<1>3. ASSUME NEW p \in Procs, NEW o \in Objects, NEW f \in Files, New(o, p, f)
      PROVE  rows' = rows
  BY <1>3 DEF New, dbVars
<1>4. ASSUME NEW o \in Objects, NEW f \in Files, SetUrl(o, f)
      PROVE  rows' = rows
  BY <1>4 DEF SetUrl, colVars, dbVars
<1>5. ASSUME NEW o \in Objects, Generate(o) \/ Submit(o) \/ Destroy(o)
      PROVE  rows' = rows
  BY <1>5 DEF Generate, Submit, Destroy, colVars, dbVars
<1>6. CASE UNCHANGED vars
  BY <1>6 DEF vars, colVars, dbVars
<1> QED
  BY <1>1, <1>2, <1>3, <1>4, <1>5, <1>6 DEF Next

\* decode() of another answer, for this file or another one, leaves the file with
\* an identifier.
LEMMA DecodeKeeps ==
    ASSUME IInv, NEW o \in Objects, Decode(o), NEW f \in Files, GetFingerprintId(f) # NoId
    PROVE  GetFingerprintId(f)' # NoId
<1>1. 1 \in DOMAIN rows[f] /\ rows[f][1] # NoId
  BY FoundIsStored DEF IInv
<1>2. CASE rows' = rows
  BY <1>2 DEF GetFingerprintId
<1>3. ASSUME NEW id \in Ids, rows' = Replaced(url[o], id)
      PROVE  GetFingerprintId(f)' # NoId
  <2>1. url[o] \in Files
    BY DEF IInv, SamplesAreOfFile, Decode
  <2> DEFINE r == Replaced(url[o], id)
  <2>2. /\ r \in [Files -> Seq(Stored)]
        /\ \A g \in Files : g # url[o] => r[g] = rows[g]
        /\ r[url[o]] # <<>>
        /\ \A i \in DOMAIN r[url[o]] :
             \/ r[url[o]][i] = ToInt(id)
             \/ i \in DOMAIN rows[url[o]] /\ r[url[o]][i] = rows[url[o]][i]
    BY <2>1, ReplacedRows DEF IInv
  <2>3. r = rows'
    BY <1>3
  <2> HIDE DEF r
  <2>4. CASE f # url[o]
    BY <2>2, <2>3, <2>4 DEF GetFingerprintId
  <2>5. CASE f = url[o]
    <3>1. r[f] \in Seq(Stored) /\ r[f] # <<>>
      BY <2>2, <2>5
    <3>2. 1 \in DOMAIN r[f] /\ Head(r[f]) = r[f][1]
      BY <3>1
    <3>3. r[f][1] # NoId
      BY <1>1, <2>2, <2>5, <3>2, AnswerFits
    <3> QED
      BY <2>3, <3>1, <3>2, <3>3 DEF GetFingerprintId
  <2> QED
    BY <2>4, <2>5
<1>4. \/ UNCHANGED dbVars
      \/ \E id \in ServiceId[reply[o]] : SetFingerprintId(url[o], id)
  BY DecodeStores DEF IInv, Stores
<1>5. reply[o] \in Files /\ ServiceId[reply[o]] \subseteq Ids
  BY IdsDiffer DEF Decode, IInv, Typed
<1> QED
  BY <1>2, <1>3, <1>4, <1>5 DEF SetFingerprintId, Executed, dbVars

\* Once the version is written, an identifier in the collection is lost only to a
\* process that found no version, read before it was written or by a SELECT that
\* failed, and each such process takes identifiers once; whatever is stored for
\* other files, and whichever other process starts, upgrades or dies.
THEOREM IdsAreKept == Spec => AnswersSurvive
<1>1. IInv /\ WipersAreBehind /\ [Next]_vars =>
        [version = 1 =>
           \A f \in Files : GetFingerprintId(f) # NoId /\ GetFingerprintId(f)' = NoId =>
             \E p \in behind : at'[p] = "metadata" /\ behind' = behind \ {p}]_vars
  <2> SUFFICES ASSUME IInv, WipersAreBehind, [Next]_vars, version = 1, NEW f \in Files,
                      GetFingerprintId(f) # NoId, GetFingerprintId(f)' = NoId
               PROVE  \E p \in behind : at'[p] = "metadata" /\ behind' = behind \ {p}
    OBVIOUS
  <2>1. CASE rows' = rows
    BY <2>1 DEF GetFingerprintId
  <2>2. CASE \E o \in Objects : Decode(o)
    BY <2>2, DecodeKeeps
  <2>3. ASSUME NEW p \in Procs, Wipe(p)
        PROVE  \E q \in behind : at'[q] = "metadata" /\ behind' = behind \ {q}
    <3>1. p \in behind /\ behind' = behind \ {p}
      BY <2>3 DEF Wipe, WipersAreBehind
    <3>2. at'[p] = "metadata"
      BY <2>3 DEF Wipe, Goes, IInv, Typed
    <3> QED
      BY <3>1, <3>2
  <2> QED
    BY <2>1, <2>2, <2>3, OnlyDecodeStores
<1>2. Init => WipersAreBehind
  BY DEF Init, CollectionInit, WipersAreBehind
<1>3. Spec => []WipersAreBehind
  BY <1>2, NextWipers, Invariance, PTL DEF Spec
<1> QED
  BY <1>1, <1>3, Invariance, PTL DEF Spec, AnswersSurvive

=============================================================================
