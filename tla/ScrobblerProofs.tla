--------------------------- MODULE ScrobblerProofs ---------------------------
(* Theorems about Scrobbler for every value of its constants.                 *)
EXTENDS Scrobbler, FiniteSetTheorems, SequenceTheorems,
        WellFoundedInduction, TLAPS

\* FirstOf takes a head of the list: a part of it, and every play left out is
\* newer than every play taken.
LEMMA FirstOfIsHead ==
    ASSUME NEW n \in Nat, NEW q, DOMAIN q \subseteq 1..n
    PROVE  /\ DOMAIN FirstOf(q) \subseteq DOMAIN q
           /\ \A p \in DOMAIN FirstOf(q) : FirstOf(q)[p] = q[p]
           /\ \A p \in DOMAIN FirstOf(q), r \in DOMAIN q \ DOMAIN FirstOf(q) : p < r
<1> DEFINE Older(p) == {r \in DOMAIN q : r < p}
<1>1. DOMAIN FirstOf(q) = {p \in DOMAIN q : Cardinality(Older(p)) < BatchLimit}
  BY DEF FirstOf, Restrict
<1>2. \A p \in DOMAIN FirstOf(q) : FirstOf(q)[p] = q[p]
  BY DEF FirstOf, Restrict
<1>3. ASSUME NEW p \in DOMAIN FirstOf(q), NEW r \in DOMAIN q \ DOMAIN FirstOf(q),
             ~(p < r)
      PROVE  FALSE
  <2>1. p \in 1..n /\ r \in 1..n /\ r < p
    BY <1>1, <1>3
  <2>2. Older(r) \subseteq Older(p) /\ Older(p) \subseteq 1..n
    BY <2>1
  <2>3. IsFiniteSet(1..n)
    BY FS_Interval
  <2>4. IsFiniteSet(Older(p)) /\ Cardinality(Older(p)) \in Nat
    BY <2>2, <2>3, FS_Subset, FS_CardinalityType
  <2>5. IsFiniteSet(Older(r)) /\ Cardinality(Older(r)) \in Nat
        /\ Cardinality(Older(r)) <= Cardinality(Older(p))
    BY <2>2, <2>4, FS_Subset, FS_CardinalityType
  <2>6. Cardinality(Older(p)) < BatchLimit /\ ~(Cardinality(Older(r)) < BatchLimit)
    BY <1>1, <1>3
  <2> QED
    BY <2>4, <2>5, <2>6, ScrobblerAssumption
<1> QED
  BY <1>1, <1>2, <1>3

----------------------------------------------------------------------------
(* Types *)

\* submit() leaves m_batch, m_scrobbleReply and the wire in their types, for any
\* list q of the first n plays and any tracks d.
LEMMA SubmittingType ==
    ASSUME NEW q, NEW d, NEW n \in Nat,
           q \in [DOMAIN q -> DOMAIN d], DOMAIN q \subseteq 1..n,
           d \in [DOMAIN d -> TrackData], DOMAIN d \subseteq Objects,
           batch \in [DOMAIN batch -> Objects], DOMAIN batch \subseteq 1..n,
           scrobbleReply \in [DOMAIN scrobbleReply -> Scrobble],
           \A r \in wire : IsRequest(r),
           Submitting(q, d)
    PROVE  /\ batch' \in [DOMAIN batch' -> Objects]
           /\ DOMAIN batch' \subseteq 1..n
           /\ scrobbleReply' \in [DOMAIN scrobbleReply' -> Scrobble]
           /\ \A r \in wire' : IsRequest(r)
<1>1. CASE DOMAIN q = {} \/ scrobbleReply # Nothing
  BY <1>1 DEF Submitting
<1>2. CASE ~(DOMAIN q = {} \/ scrobbleReply # Nothing)
  <2> DEFINE b == FirstOf(q)
             new == [payload |-> Payload(b, d), served |-> FALSE, accepted |-> {}]
  <2>1. batch' = b /\ scrobbleReply' = Payload(b, d) /\ wire' = wire \cup {new}
    BY <1>2 DEF Submitting
  <2>2. DOMAIN b \subseteq DOMAIN q /\ b \in [DOMAIN b -> DOMAIN d]
    BY DEF FirstOf, Restrict
  <2>3. Payload(b, d) \in [DOMAIN b -> Scrobble] /\ DOMAIN Payload(b, d) = DOMAIN b
    BY <2>2 DEF Payload, Scrobble, TrackData
  <2>4. IsRequest(new)
    BY <2>3 DEF IsRequest
  <2> QED
    BY <2>1, <2>2, <2>3, <2>4
<1> QED
  BY <1>1, <1>2

LEMMA TypeInit == Init => TypeOK
BY ScrobblerAssumption DEF Init, TypeOK, Nothing, Plays

LEMMA NewTrackType ==
    ASSUME TypeOK, NEW o \in Objects, NEW song \in Songs, NEW stamp \in Stamps,
           NEW valid \in BOOLEAN, NewTrack(o, song, stamp, valid)
    PROVE  TypeOK'
<1>1. data' \in [DOMAIN data' -> TrackData] /\ DOMAIN data' = DOMAIN data \cup {o}
  BY DEF NewTrack, TypeOK, TrackData, Status
<1>2. queue' \in [DOMAIN queue' -> DOMAIN data']
  BY <1>1 DEF NewTrack, TypeOK
<1>3. held' \subseteq DOMAIN data'
  BY <1>1 DEF NewTrack, TypeOK
<1> QED
  BY <1>1, <1>2, <1>3 DEF NewTrack, TypeOK, Plays

LEMMA RestampType ==
    ASSUME TypeOK, NEW o \in held, NEW stamp \in Stamps, Restamp(o, stamp)
    PROVE  TypeOK'
<1>1. data' \in [DOMAIN data' -> TrackData] /\ DOMAIN data' = DOMAIN data
  BY DEF Restamp, TypeOK, TrackData
<1> QED
  BY <1>1 DEF Restamp, TypeOK, Plays

\* The list after add(), and the history of what was handed over.
LEMMA AddedType ==
    ASSUME TypeOK, NEW k \in Nat, NEW ts \in [1..k -> held], CacheBatch(ts)
    PROVE  /\ Len(handed') = Len(handed) + k
           /\ handed' \in Seq([song: Songs, valid: BOOLEAN])
           /\ Added(ts) \in [DOMAIN Added(ts) -> DOMAIN data]
           /\ DOMAIN Added(ts) \subseteq 1..Len(handed')
           /\ DOMAIN queue \subseteq DOMAIN Added(ts)
           /\ \A p \in DOMAIN queue : Added(ts)[p] = queue[p]
           /\ \A p \in DOMAIN Added(ts) \ DOMAIN queue :
                /\ p > Len(handed)
                /\ Added(ts)[p] = ts[p - Len(handed)]
                /\ p - Len(handed) \in 1..k
           /\ \A p \in 1..Len(handed) : handed'[p] = handed[p]
           /\ \A i \in 1..k :
                /\ handed'[Len(handed) + i].song = data[ts[i]].song
                /\ handed'[Len(handed) + i].valid => Len(handed) + i \in DOMAIN Added(ts)
<1> DEFINE n == Len(handed)
           new == [i \in 1..k |-> [song |-> data[ts[i]].song, valid |-> data[ts[i]].valid]]
           good == {n + i : i \in {j \in 1..k : data[ts[j]].valid}}
<1>1. Len(ts) = k /\ n \in Nat
  BY DEF TypeOK
<1>2. \A i \in 1..k : ts[i] \in DOMAIN data /\ data[ts[i]] \in TrackData
  BY DEF TypeOK
<1>3. new \in Seq([song: Songs, valid: BOOLEAN]) /\ Len(new) = k
  BY <1>2 DEF TrackData
<1>4. handed' = handed \o new
  BY <1>1 DEF CacheBatch
<1>5. handed' \in Seq([song: Songs, valid: BOOLEAN]) /\ Len(handed') = n + k
  BY <1>3, <1>4, ConcatProperties DEF TypeOK
<1>6. Added(ts) = [p \in DOMAIN queue \cup good |-> IF p <= n THEN queue[p] ELSE ts[p - n]]
  BY <1>1 DEF Added
<1>7. \A p \in good : p \in (n+1)..(n+k) /\ p - n \in 1..k
  BY <1>1
<1>8. \A p \in DOMAIN queue : p \in 1..n /\ queue[p] \in DOMAIN data
  BY DEF TypeOK, Plays
<1>9. /\ \A p \in 1..n : handed'[p] = handed[p]
      /\ \A i \in 1..k : handed'[n + i] = new[i]
  BY <1>1, <1>3, <1>4, ConcatProperties DEF TypeOK
<1>10. ASSUME NEW i \in 1..k
       PROVE  /\ handed'[n + i].song = data[ts[i]].song
              /\ handed'[n + i].valid => n + i \in DOMAIN Added(ts)
  <2>1. handed'[n + i].song = data[ts[i]].song /\ handed'[n + i].valid = data[ts[i]].valid
    <3>1. new[i].song = data[ts[i]].song /\ new[i].valid = data[ts[i]].valid
      OBVIOUS
    <3>2. handed'[n + i] = new[i]
      BY <1>9
    <3> HIDE DEF new
    <3> QED
      BY <3>1, <3>2
  <2>2. data[ts[i]].valid => n + i \in good
    OBVIOUS
  <2> QED
    BY <1>6, <2>1, <2>2
<1> QED
  BY <1>1, <1>2, <1>5, <1>6, <1>7, <1>8, <1>9, <1>10

LEMMA CacheBatchType ==
    ASSUME TypeOK, NEW ts \in Calls, CacheBatch(ts)
    PROVE  TypeOK'
<1> DEFINE q == Added(ts)
           d == [o \in DOMAIN data |->
                   IF o \in Range(q) THEN [data[o] EXCEPT !.status = "Cached"] ELSE data[o]]
<1>1. PICK k \in Nat : ts \in [1..k -> held]
  BY ScrobblerAssumption DEF Calls
<1>2. /\ Len(handed') = Len(handed) + k
      /\ handed' \in Seq([song: Songs, valid: BOOLEAN])
      /\ q \in [DOMAIN q -> DOMAIN data]
      /\ DOMAIN q \subseteq 1..Len(handed')
  BY <1>1, AddedType
<1>3. /\ queue' = q /\ disk' = Written(q, data) /\ data' = d /\ Submitting(q, d)
      /\ UNCHANGED <<proc, held, recorded, settled, lost, failures>>
  BY DEF CacheBatch
<1>4. d \in [DOMAIN data -> TrackData] /\ DOMAIN d = DOMAIN data
  BY DEF TypeOK, TrackData, Status
<1>5. Written(q, data) \in [DOMAIN q -> TrackData]
  BY <1>2 DEF Written, TypeOK
<1>6. Len(handed) \in Nat /\ Len(handed') \in Nat /\ Plays \subseteq 1..Len(handed')
  BY <1>1, <1>2 DEF TypeOK, Plays
<1>7. /\ batch' \in [DOMAIN batch' -> Objects]
      /\ DOMAIN batch' \subseteq 1..Len(handed')
      /\ scrobbleReply' \in [DOMAIN scrobbleReply' -> Scrobble]
      /\ \A r \in wire' : IsRequest(r)
  <2>1. DOMAIN batch \subseteq 1..Len(handed')
    BY <1>6 DEF TypeOK
  <2> HIDE DEF q, d
  <2> QED
    BY <2>1, <1>2, <1>3, <1>4, <1>6, SubmittingType DEF TypeOK
<1> QED
  BY <1>2, <1>3, <1>4, <1>5, <1>6, <1>7 DEF TypeOK, Plays

LEMMA SubmitType ==
    ASSUME TypeOK, Submit
    PROVE  TypeOK'
<1>1. Submitting(queue, data) /\ Len(handed) \in Nat
      /\ UNCHANGED <<proc, data, held, queue, disk, recorded, handed, settled, lost, failures>>
  BY DEF Submit, TypeOK
<1>2. /\ batch' \in [DOMAIN batch' -> Objects]
      /\ DOMAIN batch' \subseteq 1..Len(handed)
      /\ scrobbleReply' \in [DOMAIN scrobbleReply' -> Scrobble]
      /\ \A r \in wire' : IsRequest(r)
  BY <1>1, SubmittingType DEF TypeOK, Plays
<1> QED
  BY <1>1, <1>2 DEF TypeOK, Plays

LEMMA ServeType ==
    ASSUME TypeOK, NEW r \in wire, NEW accepted \in SUBSET DOMAIN r.payload,
           Serve(r, accepted)
    PROVE  TypeOK'
<1> DEFINE s == [payload |-> r.payload, served |-> TRUE, accepted |-> accepted]
<1>1. IsRequest(r)
  BY DEF TypeOK
<1>2. IsRequest(s)
  BY <1>1 DEF IsRequest
<1>3. \A x \in wire' : IsRequest(x)
  BY <1>2 DEF Serve, TypeOK
<1>4. recorded' \subseteq Scrobble
  BY <1>1 DEF Serve, TypeOK, IsRequest
<1> QED
  BY <1>3, <1>4 DEF Serve, TypeOK, Plays

LEMMA SettleType ==
    ASSUME TypeOK, NEW d, d \in [DOMAIN data -> TrackData], Settle(d)
    PROVE  /\ data' \in [DOMAIN data' -> TrackData] /\ DOMAIN data' = DOMAIN data
           /\ queue' \in [DOMAIN queue' -> DOMAIN data] /\ DOMAIN queue' \subseteq Plays
           /\ disk' \in [DOMAIN disk' -> TrackData] /\ DOMAIN disk' \subseteq Plays
           /\ batch' = Nothing
           /\ settled' \subseteq Plays
<1>1. Remaining(batch) \in [DOMAIN Remaining(batch) -> DOMAIN data]
      /\ DOMAIN Remaining(batch) \subseteq DOMAIN queue
  BY DEF Remaining, Restrict, TypeOK
<1>2. Written(Remaining(batch), d) \in [DOMAIN Remaining(batch) -> TrackData]
  BY <1>1 DEF Written
<1> QED
  BY <1>1, <1>2 DEF Settle, TypeOK

LEMMA ScrobbleReturnType ==
    ASSUME TypeOK, NEW r \in wire, NEW outcome \in Outcomes, ScrobbleReturn(r, outcome)
    PROVE  TypeOK'
<1>1. /\ scrobbleReply' = Nothing /\ wire' \subseteq wire
      /\ UNCHANGED <<held, recorded, handed, lost, failures>>
  BY DEF ScrobbleReturn
<1>2. CASE outcome = "ok"
  <2> DEFINE d == [o \in DOMAIN data |-> Parsed(o, r.accepted)]
  <2>1. Settle(d) /\ UNCHANGED proc
    BY <1>2 DEF ScrobbleReturn
  <2>2. \A o \in DOMAIN data : Parsed(o, r.accepted) \in TrackData
    BY DEF Parsed, TypeOK, TrackData, Status
  <2>3. d \in [DOMAIN data -> TrackData]
    BY <2>2
  <2> HIDE DEF d
  <2> QED
    BY <1>1, <2>1, <2>3, SettleType DEF TypeOK, Plays, Nothing
<1>3. CASE outcome = "refused"
  <2>1. Settle(data) /\ UNCHANGED proc /\ data \in [DOMAIN data -> TrackData]
    BY <1>3 DEF ScrobbleReturn, TypeOK
  <2> QED
    BY <1>1, <2>1, SettleType DEF TypeOK, Plays, Nothing
<1>4. CASE outcome = "retry"
  <2>1. /\ proc' \in {"running", "down"}
        /\ UNCHANGED <<data, queue, disk, batch, settled>>
    BY <1>4 DEF ScrobbleReturn
  <2> QED
    BY <1>1, <2>1 DEF TypeOK, Plays, Nothing
<1> QED
  BY <1>2, <1>3, <1>4, ScrobblerAssumption

LEMMA ReplacesNamType ==
    ASSUME TypeOK, ReplacesNam
    PROVE  TypeOK'
BY ScrobblerAssumption DEF ReplacesNam, TypeOK, Plays, Nothing

\* A record that was cut is a track that shows Null, under its own song or the
\* remnant of it.
LEMMA CutRecord ==
    ASSUME NEW t \in TrackData, NEW c \in Cut(t)
    PROVE  c \in TrackData /\ c.status = "Null" /\ c.song \in Remnants \cup {t.song}
<1>1. CASE c = [t EXCEPT !.status = "Null"]
  BY <1>1 DEF TrackData, Status
<1>2. CASE c \in [song: Remnants \cup {t.song}, stamp: {Epoch}, valid: {FALSE}, status: {"Null"}]
  BY <1>2, ScrobblerAssumption DEF TrackData, Status
<1> QED
  BY <1>1, <1>2 DEF Cut

\* A torn file lists the plays up to some k, all but the last as they were.
TornAt(file, k) ==
    /\ DOMAIN file = {p \in DOMAIN disk : p <= k}
    /\ file = [p \in DOMAIN file |-> file[p]]
    /\ \A p \in DOMAIN file : file[p] = disk[p] \/ (p = k /\ file[p] \in Cut(disk[p]))

LEMMA TornFile ==
    ASSUME TypeOK, NEW file \in {disk} \cup Torn(disk)
    PROVE  \E k \in 0..Len(handed) : TornAt(file, k)
<1> DEFINE upto(k) == Restrict(disk, {p \in DOMAIN disk : p <= k})
<1>1. /\ Len(handed) \in Nat /\ DOMAIN disk \subseteq 1..Len(handed)
      /\ disk = [p \in DOMAIN disk |-> disk[p]]
  BY DEF TypeOK, Plays
<1>2. \A k : /\ DOMAIN upto(k) = {p \in DOMAIN disk : p <= k}
             /\ upto(k) = [p \in DOMAIN upto(k) |-> upto(k)[p]]
             /\ \A p \in DOMAIN upto(k) : upto(k)[p] = disk[p]
  BY DEF Restrict
<1>3. CASE file = disk
  <2> \A p \in DOMAIN disk : p <= Len(handed)
    BY <1>1
  <2>1. DOMAIN disk = {p \in DOMAIN disk : p <= Len(handed)}
    OBVIOUS
  <2>2. TornAt(file, Len(handed))
    BY <1>1, <1>3, <2>1 DEF TornAt
  <2> QED
    BY <1>1, <2>2
<1>4. ASSUME NEW k \in 0..Len(handed), file = upto(k)
      PROVE  TornAt(file, k)
  <2> HIDE DEF upto
  <2> QED
    BY <1>2, <1>4 DEF TornAt
<1>5. ASSUME NEW k \in DOMAIN disk, NEW t \in Cut(disk[k]), file = [upto(k) EXCEPT ![k] = t]
      PROVE  k \in 0..Len(handed) /\ TornAt(file, k)
  <2>1. k \in 0..Len(handed)
    BY <1>1
  <2> DEFINE f == upto(k)
  <2>2. file = [p \in DOMAIN f |-> IF p = k THEN t ELSE f[p]]
    BY <1>5, Zenon
  <2>3. DOMAIN f = {p \in DOMAIN disk : p <= k} /\ \A p \in DOMAIN f : f[p] = disk[p]
    BY <1>2
  <2> HIDE DEF f
  <2>4. TornAt(file, k)
    BY <1>5, <2>2, <2>3 DEF TornAt
  <2> QED
    BY <2>1, <2>4
<1> QED
  BY <1>3, <1>4, <1>5 DEF Torn

\* What the process leaves behind when it dies.
CrashedTo(file, k) ==
    /\ disk' = file
    /\ lost' = lost \cup {p \in DOMAIN disk : p \in DOMAIN file => file[p].song # disk[p].song}
    /\ handed' = [p \in Plays |->
           IF p \in DOMAIN file THEN [handed[p] EXCEPT !.song = file[p].song] ELSE handed[p]]
    /\ TornAt(file, k)

LEMMA CrashFile ==
    ASSUME TypeOK, Crash
    PROVE  \E file : \E k \in 0..Len(handed) : CrashedTo(file, k)
<1>1. PICK file \in {disk} \cup Torn(disk) :
        /\ disk' = file
        /\ lost' = lost \cup {p \in DOMAIN disk :
                              p \in DOMAIN file => file[p].song # disk[p].song}
        /\ handed' = [p \in Plays |->
              IF p \in DOMAIN file THEN [handed[p] EXCEPT !.song = file[p].song] ELSE handed[p]]
  BY DEF Crash
<1>2. PICK k \in 0..Len(handed) : TornAt(file, k)
  BY <1>1, TornFile
<1> QED
  BY <1>1, <1>2 DEF CrashedTo

\* The plays keep their number and their validity, and take the songs of the file.
LEMMA CrashKeeps ==
    ASSUME TypeOK, NEW file, NEW k \in 0..Len(handed), CrashedTo(file, k)
    PROVE  /\ file \in [DOMAIN file -> TrackData] /\ DOMAIN file \subseteq DOMAIN disk
           /\ \A p \in DOMAIN file :
                file[p].song = disk[p].song \/ (p = k /\ file[p].song \in Remnants)
           /\ \A p \in DOMAIN file : file[p].status \in {"Null", disk[p].status}
           /\ handed' \in Seq([song: Songs, valid: BOOLEAN]) /\ Len(handed') = Len(handed)
           /\ \A p \in Plays : /\ handed'[p].valid = handed[p].valid
                               /\ p \in DOMAIN file => handed'[p].song = file[p].song
                               /\ p \notin DOMAIN file => handed'[p] = handed[p]
<1> DEFINE Handed == [song: Songs, valid: BOOLEAN]
<1>1. /\ DOMAIN file \subseteq DOMAIN disk
      /\ file = [p \in DOMAIN file |-> file[p]]
      /\ \A p \in DOMAIN file : file[p] = disk[p] \/ (p = k /\ file[p] \in Cut(disk[p]))
  BY DEF CrashedTo, TornAt
<1>2. \A p \in DOMAIN disk : disk[p] \in TrackData
  BY DEF TypeOK
<1>3. \A p \in DOMAIN file : /\ file[p] \in TrackData
                             /\ file[p].song = disk[p].song \/ (p = k /\ file[p].song \in Remnants)
                             /\ file[p].status \in {"Null", disk[p].status}
  BY <1>1, <1>2, CutRecord
<1>4. file \in [DOMAIN file -> TrackData]
  BY <1>1, <1>3
<1>5. \A p \in Plays : handed[p] \in Handed
  <2>1. handed \in Seq(Handed)
    BY DEF TypeOK
  <2> HIDE DEF Handed
  <2> QED
    BY <2>1 DEF Plays
<1>6. \A h \in Handed, song \in Songs :
        /\ [h EXCEPT !.song = song] \in Handed
        /\ [h EXCEPT !.song = song].song = song
        /\ [h EXCEPT !.song = song].valid = h.valid
  OBVIOUS
<1>7. \A p \in DOMAIN file : file[p].song \in Songs
  BY <1>3 DEF TrackData
<1>8. handed' = [p \in Plays |->
         IF p \in DOMAIN file THEN [handed[p] EXCEPT !.song = file[p].song] ELSE handed[p]]
  BY DEF CrashedTo
<1>9. \A p \in Plays : /\ handed'[p] \in Handed
                       /\ handed'[p].valid = handed[p].valid
                       /\ p \in DOMAIN file => handed'[p].song = file[p].song
                       /\ p \notin DOMAIN file => handed'[p] = handed[p]
  BY <1>5, <1>6, <1>7, <1>8
<1>10. handed' \in [1..Len(handed) -> Handed] /\ Len(handed) \in Nat
  <2>1. handed \in Seq(Handed)
    BY DEF TypeOK
  <2>2. \A p \in Plays : handed'[p] \in Handed
    BY <1>9
  <2>3. handed' = [p \in Plays |-> handed'[p]]
    BY <1>8
  <2> HIDE DEF Handed
  <2>4. handed' \in [Plays -> Handed]
    BY <2>2, <2>3
  <2> QED
    BY <2>1, <2>4 DEF Plays
<1>11. handed' \in Seq(Handed) /\ Len(handed') = Len(handed)
  <2> HIDE DEF Handed
  <2> QED
    BY <1>10
<1> QED
  BY <1>1, <1>3, <1>4, <1>9, <1>11

LEMMA CrashType ==
    ASSUME TypeOK, Crash
    PROVE  TypeOK'
<1>0. PICK file : \E k \in 0..Len(handed) : CrashedTo(file, k)
  BY CrashFile
<1>1. PICK k \in 0..Len(handed) : CrashedTo(file, k)
  BY <1>0
<1>2. /\ disk' \in [DOMAIN disk' -> TrackData] /\ DOMAIN disk' \subseteq DOMAIN disk
      /\ handed' \in Seq([song: Songs, valid: BOOLEAN]) /\ Plays' = Plays
  BY <1>1, CrashKeeps DEF CrashedTo, Plays
<1>3. DOMAIN disk' \subseteq Plays' /\ lost' \subseteq Plays'
  BY <1>1, <1>2 DEF TypeOK, CrashedTo
<1> QED
  BY <1>2, <1>3, ScrobblerAssumption DEF Crash, TypeOK, Nothing

\* What the constructors read: every play of the file, each with a new object.
LEMMA RestartReads ==
    ASSUME TypeOK, Restart
    PROVE  /\ DOMAIN queue' = DOMAIN disk
           /\ queue' \in [DOMAIN queue' -> DOMAIN data']
           /\ data' \in [DOMAIN data' -> TrackData] /\ DOMAIN data' \subseteq Objects
           /\ \A p \in DOMAIN disk : data'[queue'[p]] = disk[p]
           /\ Submitting(queue', data')
<1>1. PICK f \in Injection(DOMAIN disk, Objects) :
        /\ data' = [o \in Range(f) |-> disk[CHOOSE p \in DOMAIN disk : f[p] = o]]
        /\ queue' = f
        /\ Submitting(f, data')
  BY DEF Restart
<1>2. f \in [DOMAIN disk -> Objects] /\ \A a, b \in DOMAIN disk : f[a] = f[b] => a = b
  BY DEF Injection, IsInjective
<1>3. \A o \in Range(f) : (CHOOSE p \in DOMAIN disk : f[p] = o) \in DOMAIN disk
  BY <1>2 DEF Range
<1>4. \A p \in DOMAIN disk : f[p] \in Range(f)
                             /\ (CHOOSE x \in DOMAIN disk : f[x] = f[p]) = p
  BY <1>2 DEF Range
<1>5. Range(f) \subseteq Objects /\ DOMAIN f = DOMAIN disk
  BY <1>2 DEF Range
<1>6. data' \in [Range(f) -> TrackData] /\ DOMAIN data' = Range(f)
  BY <1>1, <1>3 DEF TypeOK
<1>7. f \in [DOMAIN disk -> Range(f)]
  BY <1>2, <1>4
<1> QED
  BY <1>1, <1>4, <1>5, <1>6, <1>7

LEMMA RestartType ==
    ASSUME TypeOK, Restart
    PROVE  TypeOK'
<1>1. /\ proc' = "running" /\ held' = {}
      /\ UNCHANGED <<disk, recorded, handed, settled, lost, failures>>
  BY DEF Restart
<1>2. /\ DOMAIN queue' = DOMAIN disk
      /\ queue' \in [DOMAIN queue' -> DOMAIN data']
      /\ data' \in [DOMAIN data' -> TrackData] /\ DOMAIN data' \subseteq Objects
      /\ Submitting(queue', data')
  BY RestartReads
<1>3. /\ batch' \in [DOMAIN batch' -> Objects]
      /\ DOMAIN batch' \subseteq 1..Len(handed)
      /\ scrobbleReply' \in [DOMAIN scrobbleReply' -> Scrobble]
      /\ \A r \in wire' : IsRequest(r)
  <2>1. Len(handed) \in Nat /\ DOMAIN queue' \subseteq 1..Len(handed)
    BY <1>2 DEF TypeOK, Plays
  <2> QED
    BY <1>2, <2>1, SubmittingType DEF TypeOK, Plays
<1> QED
  BY <1>1, <1>2, <1>3 DEF TypeOK, Plays

LEMMA TypeNext == TypeOK /\ [Next]_vars => TypeOK'
<1> SUFFICES ASSUME TypeOK, [Next]_vars PROVE TypeOK'
  OBVIOUS
<1>1. CASE AppStep
  BY <1>1, NewTrackType, RestampType, CacheBatchType, SubmitType DEF AppStep
<1>2. CASE NetworkStep
  BY <1>2, ServeType, ScrobbleReturnType DEF NetworkStep
<1>3. CASE ReplacesNam
  BY <1>3, ReplacesNamType
<1>4. CASE Crash
  BY <1>4, CrashType
<1>5. CASE Restart
  BY <1>5, RestartType
<1>6. CASE UNCHANGED vars
  BY <1>6 DEF vars, TypeOK, Plays
<1> QED
  BY <1>1, <1>2, <1>3, <1>4, <1>5, <1>6 DEF Next

\* The state of Audioscrobbler, ScrobbleCache, the file and the wire stays in
\* its type, however many tracks, objects and failures there are.
THEOREM TypeCorrect == Spec => []TypeOK
BY TypeInit, TypeNext, PTL DEF Spec

----------------------------------------------------------------------------
(* One POST at a time, and what may leave the cache *)

\* The lock of submit(): without a reply nothing is on the wire, and a process
\* that has died awaits none.
ReplyLock ==
    /\ scrobbleReply = Nothing => wire = {}
    /\ proc # "running" => scrobbleReply = Nothing

\* The file tells the songs of the history, cut or not.
FileKeepsSongs == \A p \in DOMAIN disk : disk[p].song = handed[p].song

\* The properties by themselves are not inductive: removal is by equality of
\* songs, so what is settled depends on the songs the list and the file tell.
IInv ==
    /\ TypeOK
    /\ ReplyLock
    /\ InFlightIsHead
    /\ DiskMatchesQueue
    /\ FileKeepsSongs
    /\ SettledNeverResent
    /\ UnsettledSongsAreKept

\* InFlightIsHead and ReplyLock for any batch b, list q, reply and wire w.
HeadInFlight(b, q, reply, w) ==
    IF reply = Nothing THEN w = {}
    ELSE /\ \E r \in w : w = {r} /\ r.payload = reply
         /\ DOMAIN b = DOMAIN reply
         /\ \A p \in DOMAIN b :
              /\ p \in DOMAIN q /\ b[p] = q[p]
              /\ \A x \in DOMAIN q \ DOMAIN b : p < x

LEMMA LeastPlay ==
    ASSUME NEW S, S \subseteq Nat, S # {}
    PROVE  \E m \in S : \A k \in S : ~(k < m)
<1> DEFINE less == OpToRel(<, Nat)
<1>1. PICK m \in S : \A k \in S : <<k, m>> \notin less
  BY NatLessThanWellFounded, WFMin
<1>2. less = {ss \in Nat \X Nat : ss[1] < ss[2]}
  BY DEF OpToRel
<1> HIDE DEF less
<1>3. \A k \in S : ~(k < m)
  BY <1>1, <1>2
<1> QED
  BY <1>3

\* submit() keeps one POST of the head of the list in flight.
LEMMA SubmittingHead ==
    ASSUME NEW q, NEW d, NEW n \in Nat, DOMAIN q \subseteq 1..n,
           HeadInFlight(batch, q, scrobbleReply, wire),
           Submitting(q, d)
    PROVE  HeadInFlight(batch', q, scrobbleReply', wire')
<1>1. CASE DOMAIN q = {} \/ scrobbleReply # Nothing
  BY <1>1 DEF Submitting
<1>2. CASE ~(DOMAIN q = {} \/ scrobbleReply # Nothing)
  <2> DEFINE b == FirstOf(q)
             new == [payload |-> Payload(b, d), served |-> FALSE, accepted |-> {}]
  <2>1. batch' = b /\ scrobbleReply' = Payload(b, d) /\ wire' = wire \cup {new}
    BY <1>2 DEF Submitting
  <2>2. wire' = {new} /\ new.payload = scrobbleReply'
    BY <1>2, <2>1 DEF HeadInFlight
  <2>3. DOMAIN b = DOMAIN scrobbleReply'
    BY <2>1 DEF Payload
  <2>4. \A p \in DOMAIN b : /\ p \in DOMAIN q /\ b[p] = q[p]
                            /\ \A x \in DOMAIN q \ DOMAIN b : p < x
    BY FirstOfIsHead
  <2>5. scrobbleReply' # Nothing
    <3>1. PICK m \in DOMAIN q : \A k \in DOMAIN q : ~(k < m)
      <4>1. DOMAIN q \subseteq Nat
        OBVIOUS
      <4> QED
        BY <1>2, <4>1, LeastPlay
    <3>2. {r \in DOMAIN q : r < m} = {}
      BY <3>1
    <3>3. m \in DOMAIN b
      BY <3>2, FS_EmptySet, ScrobblerAssumption DEF FirstOf, Restrict
    <3> QED
      BY <2>3, <3>3 DEF Nothing
  <2> HIDE DEF b, new
  <2> QED
    BY <2>1, <2>2, <2>3, <2>4, <2>5 DEF HeadInFlight
<1> QED
  BY <1>1, <1>2

LEMMA HeadIsInv ==
    IInv => HeadInFlight(batch, queue, scrobbleReply, wire)
BY DEF IInv, ReplyLock, InFlightIsHead, HeadInFlight

\* The invariant from its parts in the next state.
LEMMA InvFromHead ==
    ASSUME TypeOK', HeadInFlight(batch', queue', scrobbleReply', wire'),
           proc' # "running" => scrobbleReply' = Nothing,
           DiskMatchesQueue', FileKeepsSongs', SettledNeverResent',
           UnsettledSongsAreKept'
    PROVE  IInv'
<1>1. InFlightIsHead' /\ ReplyLock'
  BY DEF HeadInFlight, InFlightIsHead, ReplyLock, Nothing
<1> QED
  BY <1>1 DEF IInv

LEMMA InitInv == Init => IInv
BY TypeInit, ScrobblerAssumption DEF Init, IInv, ReplyLock, InFlightIsHead,
   DiskMatchesQueue, FileKeepsSongs, SettledNeverResent, UnsettledSongsAreKept,
   Nothing, Plays

LEMMA NewTrackInv ==
    ASSUME IInv, NEW o \in Objects, NEW song \in Songs, NEW stamp \in Stamps,
           NEW valid \in BOOLEAN, NewTrack(o, song, stamp, valid)
    PROVE  IInv'
<1>1. TypeOK'
  BY NewTrackType DEF IInv
<1>2. UNCHANGED <<proc, queue, disk, batch, scrobbleReply, wire, handed, settled, lost>>
  BY DEF NewTrack
<1>3. HeadInFlight(batch', queue', scrobbleReply', wire')
  BY <1>2, HeadIsInv
<1>4. DiskMatchesQueue'
  <2>1. \A p \in DOMAIN queue : queue[p] \in DOMAIN data /\ queue[p] # o
    BY DEF NewTrack, Range, IInv, TypeOK
  <2>2. \A p \in DOMAIN queue : data'[queue[p]] = data[queue[p]]
    BY <2>1 DEF NewTrack
  <2> QED
    BY <1>2, <2>2 DEF IInv, DiskMatchesQueue
<1>5. (proc' # "running" => scrobbleReply' = Nothing) /\ FileKeepsSongs'
      /\ SettledNeverResent' /\ UnsettledSongsAreKept'
  BY <1>2 DEF IInv, ReplyLock, FileKeepsSongs, SettledNeverResent, UnsettledSongsAreKept, Plays
<1> QED
  BY <1>1, <1>3, <1>4, <1>5, InvFromHead

LEMMA RestampInv ==
    ASSUME IInv, NEW o \in held, NEW stamp \in Stamps, Restamp(o, stamp)
    PROVE  IInv'
<1>1. TypeOK'
  BY RestampType DEF IInv
<1>2. UNCHANGED <<proc, queue, disk, batch, scrobbleReply, wire, handed, settled, lost>>
  BY DEF Restamp
<1>3. HeadInFlight(batch', queue', scrobbleReply', wire')
  BY <1>2, HeadIsInv
<1>4. \A x \in DOMAIN data : data'[x].song = data[x].song
  BY DEF Restamp, IInv, TypeOK, TrackData
<1>5. DiskMatchesQueue'
  BY <1>2, <1>4 DEF IInv, TypeOK, DiskMatchesQueue
<1>6. (proc' # "running" => scrobbleReply' = Nothing) /\ FileKeepsSongs'
      /\ SettledNeverResent' /\ UnsettledSongsAreKept'
  BY <1>2 DEF IInv, ReplyLock, FileKeepsSongs, SettledNeverResent, UnsettledSongsAreKept, Plays
<1> QED
  BY <1>1, <1>3, <1>5, <1>6, InvFromHead

LEMMA CacheBatchInv ==
    ASSUME IInv, NEW ts \in Calls, CacheBatch(ts)
    PROVE  IInv'
<1> DEFINE q == Added(ts)
           n == Len(handed)
           d == [o \in DOMAIN data |->
                   IF o \in Range(q) THEN [data[o] EXCEPT !.status = "Cached"] ELSE data[o]]
<1>1. PICK k \in Nat : ts \in [1..k -> held]
  BY ScrobblerAssumption DEF Calls
<1>2. TypeOK /\ TypeOK' /\ n \in Nat /\ Len(handed') = n + k
  <2>1. TypeOK /\ TypeOK'
    BY CacheBatchType DEF IInv
  <2> QED
    BY <1>1, <2>1, AddedType DEF TypeOK
<1>3. /\ q \in [DOMAIN q -> DOMAIN data] /\ DOMAIN q \subseteq 1..(n + k)
      /\ DOMAIN queue \subseteq DOMAIN q /\ DOMAIN queue \subseteq 1..n
      /\ \A p \in DOMAIN queue : q[p] = queue[p]
      /\ \A p \in DOMAIN q \ DOMAIN queue :
           p > n /\ q[p] = ts[p - n] /\ p - n \in 1..k
  BY <1>1, <1>2, AddedType DEF TypeOK, Plays
<1>4. /\ \A p \in 1..n : handed'[p] = handed[p]
      /\ \A i \in 1..k : /\ handed'[n + i].song = data[ts[i]].song
                         /\ handed'[n + i].valid => n + i \in DOMAIN q
  BY <1>1, <1>2, AddedType
<1>5. /\ proc = "running" /\ queue' = q /\ disk' = Written(q, data) /\ data' = d
      /\ Submitting(q, d) /\ UNCHANGED <<proc, settled, lost>>
  BY DEF CacheBatch
<1>6. DOMAIN disk' = DOMAIN q /\ \A p \in DOMAIN q : disk'[p] = data[q[p]]
  BY <1>5 DEF Written
<1>7. \A o \in DOMAIN data : d[o].song = data[o].song
  BY <1>2 DEF TypeOK, TrackData
<1> HIDE DEF q, d, n
<1>8. HeadInFlight(batch, q, scrobbleReply, wire)
  <2>1. HeadInFlight(batch, queue, scrobbleReply, wire)
    BY HeadIsInv
  <2>2. \A p \in DOMAIN batch, x \in DOMAIN q \ DOMAIN queue : p \in DOMAIN queue => p < x
    BY <1>2, <1>3
  <2> QED
    BY <1>3, <2>1, <2>2 DEF HeadInFlight
<1>9. HeadInFlight(batch', queue', scrobbleReply', wire')
  BY <1>1, <1>2, <1>3, <1>5, <1>8, SubmittingHead
<1>10. DiskMatchesQueue'
  BY <1>3, <1>5, <1>6, <1>7 DEF DiskMatchesQueue
<1>11. FileKeepsSongs'
  <2>1. ASSUME NEW p \in DOMAIN queue PROVE disk'[p].song = handed'[p].song
    BY <1>3, <1>4, <1>5, <1>6 DEF IInv, DiskMatchesQueue, FileKeepsSongs
  <2>2. ASSUME NEW p \in DOMAIN q \ DOMAIN queue PROVE disk'[p].song = handed'[p].song
    BY <1>2, <1>3, <1>4, <1>6
  <2> QED
    BY <1>6, <2>1, <2>2 DEF FileKeepsSongs
<1>12. SettledNeverResent'
  BY <1>2, <1>3, <1>5, <1>6 DEF IInv, SettledNeverResent, TypeOK, Plays, n
<1>13. UnsettledSongsAreKept'
  <2> SUFFICES ASSUME NEW p \in 1..(n + k), p \notin lost \cup DOMAIN q, handed'[p].valid
               PROVE  \E r \in settled : handed'[r].song = handed'[p].song
    BY <1>2, <1>5, <1>6 DEF UnsettledSongsAreKept, Plays
  <2>1. p \in 1..n
    <3>1. p = n + (p - n)
      BY <1>2
    <3> QED
      BY <1>1, <1>2, <1>4, <3>1
  <2>2. p \notin DOMAIN disk
    BY <1>3, <1>5 DEF IInv, DiskMatchesQueue
  <2>3. PICK r \in settled : handed[r].song = handed[p].song
    BY <1>4, <2>1, <2>2 DEF IInv, UnsettledSongsAreKept, Plays, n
  <2>4. r \in 1..n
    BY <1>2 DEF TypeOK, Plays, n
  <2> QED
    BY <1>4, <2>1, <2>3, <2>4
<1> QED
  BY <1>2, <1>5, <1>9, <1>10, <1>11, <1>12, <1>13, InvFromHead

LEMMA SubmitInv ==
    ASSUME IInv, Submit
    PROVE  IInv'
<1>1. TypeOK /\ TypeOK'
  BY SubmitType DEF IInv
<1>2. /\ proc = "running" /\ Submitting(queue, data)
      /\ UNCHANGED <<proc, data, queue, disk, handed, settled, lost>>
  BY DEF Submit
<1>3. HeadInFlight(batch', queue', scrobbleReply', wire')
  <2>1. Len(handed) \in Nat /\ DOMAIN queue \subseteq 1..Len(handed)
    BY <1>1 DEF TypeOK, Plays
  <2> QED
    BY <1>2, <2>1, HeadIsInv, SubmittingHead
<1>4. DiskMatchesQueue' /\ FileKeepsSongs' /\ SettledNeverResent' /\ UnsettledSongsAreKept'
  BY <1>2 DEF IInv, DiskMatchesQueue, FileKeepsSongs, SettledNeverResent,
              UnsettledSongsAreKept, Plays
<1> QED
  BY <1>1, <1>2, <1>3, <1>4, InvFromHead

LEMMA ServeInv ==
    ASSUME IInv, NEW r \in wire, NEW accepted \in SUBSET DOMAIN r.payload,
           Serve(r, accepted)
    PROVE  IInv'
<1>1. TypeOK'
  BY ServeType DEF IInv
<1>2. /\ wire' = (wire \ {r}) \cup {[payload |-> r.payload, served |-> TRUE,
                                     accepted |-> accepted]}
      /\ UNCHANGED <<proc, data, queue, disk, batch, scrobbleReply, handed, settled, lost>>
  BY DEF Serve
<1>3. HeadInFlight(batch', queue', scrobbleReply', wire')
  <2>1. HeadInFlight(batch, queue, scrobbleReply, wire) /\ scrobbleReply # Nothing
    BY HeadIsInv DEF HeadInFlight
  <2> DEFINE s == [payload |-> r.payload, served |-> TRUE, accepted |-> accepted]
  <2>2. wire = {r} /\ r.payload = scrobbleReply
    BY <2>1 DEF HeadInFlight
  <2>3. wire' = {s} /\ s.payload = scrobbleReply
    BY <1>2, <2>2
  <2> HIDE DEF s
  <2> QED
    BY <1>2, <2>1, <2>3 DEF HeadInFlight
<1>4. (proc' # "running" => scrobbleReply' = Nothing) /\ DiskMatchesQueue'
      /\ FileKeepsSongs' /\ SettledNeverResent' /\ UnsettledSongsAreKept'
  BY <1>2 DEF IInv, ReplyLock, DiskMatchesQueue, FileKeepsSongs, SettledNeverResent,
              UnsettledSongsAreKept, Plays
<1> QED
  BY <1>1, <1>3, <1>4, InvFromHead

\* A batch that is answered or refused leaves with every play of an equal song,
\* and takes along no other.
LEMMA SettleInv ==
    ASSUME IInv, proc = "running", scrobbleReply # Nothing,
           NEW d, DOMAIN d = DOMAIN data, \A o \in DOMAIN data : d[o].song = data[o].song,
           Settle(d), UNCHANGED <<proc, handed, lost>>
    PROVE  DiskMatchesQueue' /\ FileKeepsSongs' /\ SettledNeverResent'
           /\ UnsettledSongsAreKept'
<1> DEFINE left == Remaining(batch)
<1>1. TypeOK /\ \A p \in DOMAIN queue : queue[p] \in DOMAIN data
  BY DEF IInv, TypeOK
<1>2. /\ queue' = left /\ disk' = Written(left, d) /\ data' = d
      /\ settled' = settled \cup DOMAIN batch
  BY DEF Settle
<1>3. /\ DOMAIN left \subseteq DOMAIN queue
      /\ \A p \in DOMAIN left : left[p] = queue[p]
      /\ \A p \in DOMAIN queue \ DOMAIN left : \E b \in DOMAIN batch :
           data[batch[b]].song = data[queue[p]].song
      /\ \A p \in DOMAIN left, b \in DOMAIN batch :
           data[batch[b]].song # data[queue[p]].song
  BY DEF Remaining, Restrict, SameTrack
<1>4. /\ DOMAIN disk' = DOMAIN left
      /\ \A p \in DOMAIN left : disk'[p] = d[left[p]]
  BY <1>2 DEF Written
<1> HIDE DEF left
<1>5. DOMAIN disk = DOMAIN queue
      /\ \A p \in DOMAIN queue : data[queue[p]].song = handed[p].song
  BY DEF IInv, DiskMatchesQueue, FileKeepsSongs
<1>6. \A b \in DOMAIN batch : b \in DOMAIN queue /\ batch[b] = queue[b]
  BY DEF IInv, InFlightIsHead
<1>7. DiskMatchesQueue'
  BY <1>1, <1>2, <1>3, <1>4 DEF DiskMatchesQueue
<1>8. FileKeepsSongs'
  BY <1>1, <1>3, <1>4, <1>5 DEF FileKeepsSongs
<1>9. SettledNeverResent'
  <2>1. DOMAIN left \cap DOMAIN batch = {}
    BY <1>3, <1>6
  <2>2. DOMAIN left \cap settled = {}
    BY <1>3 DEF IInv, SettledNeverResent
  <2> QED
    BY <1>2, <1>4, <2>1, <2>2 DEF SettledNeverResent
<1>10. UnsettledSongsAreKept'
  <2> SUFFICES ASSUME NEW p \in Plays, p \notin lost \cup DOMAIN left, handed[p].valid
               PROVE  \E r \in settled' : handed[r].song = handed[p].song
    BY <1>4 DEF UnsettledSongsAreKept, Plays
  <2>1. CASE p \in DOMAIN queue
    <3>1. PICK b \in DOMAIN batch : data[batch[b]].song = data[queue[p]].song
      BY <1>3, <2>1
    <3>2. handed[b].song = handed[p].song
      BY <1>5, <1>6, <2>1, <3>1
    <3> QED
      BY <1>2, <3>2
  <2>2. CASE p \notin DOMAIN queue
    BY <1>2, <1>5, <2>2 DEF IInv, UnsettledSongsAreKept
  <2> QED
    BY <2>1, <2>2
<1> QED
  BY <1>7, <1>8, <1>9, <1>10

LEMMA ScrobbleReturnInv ==
    ASSUME IInv, NEW r \in wire, NEW outcome \in Outcomes, ScrobbleReturn(r, outcome)
    PROVE  IInv'
<1>1. TypeOK'
  BY ScrobbleReturnType DEF IInv
<1>2. /\ proc = "running" /\ wire' = wire \ {r} /\ scrobbleReply' = Nothing
      /\ UNCHANGED <<handed, lost>>
  BY DEF ScrobbleReturn
<1>3. scrobbleReply # Nothing /\ wire = {r}
  <2>1. scrobbleReply # Nothing
    BY DEF IInv, ReplyLock
  <2> QED
    BY <2>1 DEF IInv, InFlightIsHead
<1>4. HeadInFlight(batch', queue', scrobbleReply', wire')
  BY <1>2, <1>3 DEF HeadInFlight
<1>5. DiskMatchesQueue' /\ FileKeepsSongs' /\ SettledNeverResent' /\ UnsettledSongsAreKept'
  <2>1. CASE outcome = "ok"
    <3> DEFINE d == [o \in DOMAIN data |-> Parsed(o, r.accepted)]
    <3>1. Settle(d) /\ UNCHANGED proc
      BY <2>1 DEF ScrobbleReturn
    <3>2. DOMAIN d = DOMAIN data /\ \A o \in DOMAIN data : d[o].song = data[o].song
      BY DEF Parsed, IInv, TypeOK, TrackData
    <3> HIDE DEF d
    <3> QED
      BY <1>2, <1>3, <3>1, <3>2, SettleInv
  <2>2. CASE outcome = "refused"
    <3>1. Settle(data) /\ UNCHANGED proc
      BY <2>2 DEF ScrobbleReturn
    <3> QED
      BY <1>2, <1>3, <3>1, SettleInv
  <2>3. CASE outcome = "retry"
    <3>1. UNCHANGED <<data, queue, disk, settled>>
      BY <2>3 DEF ScrobbleReturn
    <3> QED
      BY <1>2, <3>1 DEF IInv, DiskMatchesQueue, FileKeepsSongs, SettledNeverResent,
                        UnsettledSongsAreKept, Plays
  <2> QED
    BY <2>1, <2>2, <2>3, ScrobblerAssumption
<1> QED
  BY <1>1, <1>2, <1>4, <1>5, InvFromHead

LEMMA ReplacesNamInv ==
    ASSUME IInv, ReplacesNam
    PROVE  IInv'
<1>1. TypeOK'
  BY ReplacesNamType DEF IInv
<1>2. /\ wire' = {} /\ scrobbleReply' = Nothing
      /\ UNCHANGED <<proc, data, queue, disk, handed, settled, lost>>
  BY DEF ReplacesNam
<1>3. HeadInFlight(batch', queue', scrobbleReply', wire')
  BY <1>2 DEF HeadInFlight
<1>4. DiskMatchesQueue' /\ FileKeepsSongs' /\ SettledNeverResent' /\ UnsettledSongsAreKept'
  BY <1>2 DEF IInv, DiskMatchesQueue, FileKeepsSongs, SettledNeverResent,
              UnsettledSongsAreKept, Plays
<1> QED
  BY <1>1, <1>2, <1>3, <1>4, InvFromHead

LEMMA CrashInv ==
    ASSUME IInv, Crash
    PROVE  IInv'
<1>1. TypeOK /\ TypeOK'
  BY CrashType DEF IInv
<1>0. PICK file : \E k \in 0..Len(handed) : CrashedTo(file, k)
  BY <1>1, CrashFile
<1>2. PICK k \in 0..Len(handed) : CrashedTo(file, k)
  BY <1>0
<1>3. /\ disk' = file /\ DOMAIN file \subseteq DOMAIN disk
      /\ lost' = lost \cup {p \in DOMAIN disk :
                            p \in DOMAIN file => file[p].song # disk[p].song}
      /\ Plays' = Plays /\ DOMAIN disk \subseteq Plays
      /\ \A p \in Plays : /\ handed'[p].valid = handed[p].valid
                          /\ p \in DOMAIN file => handed'[p].song = file[p].song
                          /\ p \notin DOMAIN file => handed'[p] = handed[p]
  BY <1>1, <1>2, CrashKeeps DEF CrashedTo, Plays, TypeOK
<1>4. /\ proc' = "down" /\ queue' = Nothing /\ wire' = {} /\ scrobbleReply' = Nothing
      /\ settled' = settled
  BY DEF Crash
<1>5. HeadInFlight(batch', queue', scrobbleReply', wire')
  BY <1>4 DEF HeadInFlight
<1>6. DiskMatchesQueue'
  BY <1>4 DEF DiskMatchesQueue
<1>7. FileKeepsSongs'
  BY <1>3 DEF FileKeepsSongs
<1>8. SettledNeverResent'
  BY <1>3, <1>4 DEF IInv, SettledNeverResent, Nothing
<1>9. UnsettledSongsAreKept'
  <2> SUFFICES ASSUME NEW p \in Plays, p \notin lost' \cup DOMAIN disk', handed'[p].valid
               PROVE  \E r \in settled : handed'[r].song = handed'[p].song
    BY <1>3, <1>4 DEF UnsettledSongsAreKept
  <2>1. p \notin lost \cup DOMAIN disk /\ handed'[p] = handed[p]
    BY <1>3
  <2>2. PICK r \in settled : handed[r].song = handed[p].song
    BY <2>1 DEF IInv, UnsettledSongsAreKept
  <2>3. r \in Plays /\ r \notin DOMAIN disk
    BY <1>1 DEF IInv, SettledNeverResent, TypeOK
  <2> QED
    BY <1>3, <2>1, <2>2, <2>3
<1> QED
  BY <1>1, <1>4, <1>5, <1>6, <1>7, <1>8, <1>9, InvFromHead

LEMMA RestartInv ==
    ASSUME IInv, Restart
    PROVE  IInv'
<1>1. TypeOK /\ TypeOK'
  BY RestartType DEF IInv
<1>2. /\ DOMAIN queue' = DOMAIN disk
      /\ \A p \in DOMAIN disk : data'[queue'[p]] = disk[p]
      /\ Submitting(queue', data')
  BY <1>1, RestartReads
<1>3. proc # "running" /\ proc' = "running" /\ UNCHANGED <<disk, handed, settled, lost>>
  BY DEF Restart
<1>4. HeadInFlight(batch', queue', scrobbleReply', wire')
  <2>1. HeadInFlight(batch, queue', scrobbleReply, wire)
    BY <1>3 DEF IInv, ReplyLock, HeadInFlight
  <2>2. Len(handed) \in Nat /\ DOMAIN queue' \subseteq 1..Len(handed)
    BY <1>1, <1>2 DEF TypeOK, Plays
  <2> QED
    BY <1>2, <2>1, <2>2, SubmittingHead
<1>5. DiskMatchesQueue' /\ FileKeepsSongs' /\ SettledNeverResent' /\ UnsettledSongsAreKept'
  BY <1>2, <1>3 DEF IInv, DiskMatchesQueue, FileKeepsSongs, SettledNeverResent,
                    UnsettledSongsAreKept, Plays
<1> QED
  BY <1>1, <1>3, <1>4, <1>5, InvFromHead

LEMMA NextInv == IInv /\ [Next]_vars => IInv'
<1> SUFFICES ASSUME IInv, [Next]_vars PROVE IInv'
  OBVIOUS
<1>1. CASE AppStep
  BY <1>1, NewTrackInv, RestampInv, CacheBatchInv, SubmitInv DEF AppStep
<1>2. CASE NetworkStep
  BY <1>2, ServeInv, ScrobbleReturnInv DEF NetworkStep
<1>3. CASE ReplacesNam
  BY <1>3, ReplacesNamInv
<1>4. CASE Crash
  BY <1>4, CrashInv
<1>5. CASE Restart
  BY <1>5, RestartInv
<1>6. CASE UNCHANGED vars
  <2>1. TypeOK'
    BY <1>6, TypeNext DEF IInv
  <2>2. HeadInFlight(batch', queue', scrobbleReply', wire')
    BY <1>6, HeadIsInv DEF vars
  <2> QED
    BY <1>6, <2>1, <2>2, InvFromHead
    DEF vars, IInv, ReplyLock, DiskMatchesQueue, FileKeepsSongs, SettledNeverResent,
        UnsettledSongsAreKept, Plays
<1> QED
  BY <1>1, <1>2, <1>3, <1>4, <1>5, <1>6 DEF Next

THEOREM Invariance == Spec => []IInv
BY InitInv, NextInv, PTL DEF Spec

\* submit() and onTrackScrobbleReturn(): at most one POST, of the head of the list.
THEOREM OnePostOfTheHead == Spec => []InFlightIsHead
<1>1. IInv => InFlightIsHead
  BY DEF IInv
<1> QED
  BY <1>1, Invariance, PTL

\* write() after every change: the file is what the list is.
THEOREM FileFollowsList == Spec => []DiskMatchesQueue
<1>1. IInv => DiskMatchesQueue
  BY DEF IInv
<1> QED
  BY <1>1, Invariance, PTL

\* remove() and read(): no play is sent again after its POST was settled, not
\* even after a crash.
THEOREM NothingSettledIsResent == Spec => []SettledNeverResent
<1>1. IInv => SettledNeverResent
  BY DEF IInv
<1> QED
  BY <1>1, Invariance, PTL

\* add(), remove(), write() and read() together: no valid track is lost before a
\* POST with its song was settled, except where a crash tore its record.
THEOREM NothingUnsettledIsLost == Spec => []UnsettledSongsAreKept
<1>1. IInv => UnsettledSongsAreKept
  BY DEF IInv
<1> QED
  BY <1>1, Invariance, PTL

-----------------------------------------------------------------------------
(* Scrobbler implements Outbox, and a Track shows what has become of its    *)
(* scrobbles: the invariant above says what each step of the one needs to   *)
(* be a step of the other, and the status needs what SInv adds.             *)

\* The null reply is the one that awaits no play.
LEMMA NullReply == TypeOK => (scrobbleReply = Nothing <=> DOMAIN scrobbleReply = {})
BY DEF TypeOK, Nothing

\* submit() on the list q sends the oldest of its plays when none are sent.
LEMMA SubmittingSends ==
    ASSUME TypeOK, NEW q, NEW d, Submitting(q, d)
    PROVE  DOMAIN scrobbleReply' =
             IF DOMAIN scrobbleReply = {} THEN Delivery!Oldest(DOMAIN q)
             ELSE DOMAIN scrobbleReply
<1>1. DOMAIN FirstOf(q) = Delivery!Oldest(DOMAIN q)
  BY DEF FirstOf, Restrict, Delivery!Oldest, Cardinality, Delivery!Cardinality
<1>2. DOMAIN Payload(FirstOf(q), d) = DOMAIN FirstOf(q)
  BY DEF Payload
<1>3. CASE DOMAIN q = {} \/ scrobbleReply # Nothing
  <2>1. DOMAIN q = {} => Delivery!Oldest(DOMAIN q) = {}
    BY DEF Delivery!Oldest
  <2> QED
    BY <1>3, <2>1, NullReply DEF Submitting
<1>4. CASE ~(DOMAIN q = {} \/ scrobbleReply # Nothing)
  BY <1>1, <1>2, <1>4, NullReply DEF Submitting
<1> QED
  BY <1>3, <1>4

LEMMA OutboxInit == Init => Delivery!Init
BY DEF Init, Delivery!Init, Nothing

\* cacheBatch(): what the file lists afterwards is what waited and what is valid
\* of the call.
LEMMA CacheBatchHandsOver ==
    ASSUME IInv, NEW ts \in Calls, CacheBatch(ts)
    PROVE  Delivery!Next
<1> DEFINE q == Added(ts)
           d == [o \in DOMAIN data |->
                   IF o \in Range(q) THEN [data[o] EXCEPT !.status = "Cached"] ELSE data[o]]
           tracks == [i \in 1..Len(ts) |-> [song  |-> data[ts[i]].song,
                                            valid |-> data[ts[i]].valid]]
           good == {Len(handed) + i : i \in {j \in 1..Len(ts) : tracks[j].valid}}
<1>1. PICK k \in 0..MaxCall : ts \in [1..k -> held]
  BY ScrobblerAssumption DEF Calls
<1>2. TypeOK /\ Len(ts) = k /\ Len(tracks) = k
  BY <1>1, ScrobblerAssumption DEF IInv
<1>3. tracks \in [1..k -> Delivery!Tracks]
  BY <1>1, <1>2 DEF TypeOK, TrackData, Delivery!Tracks
<1>4. /\ proc = "running" /\ disk' = Written(q, data)
      /\ handed' = handed \o tracks /\ Submitting(q, d)
  BY DEF CacheBatch
<1>5. DOMAIN disk' = DOMAIN q
  BY <1>4 DEF Written
<1>6. DOMAIN q = DOMAIN disk \cup good
  <2>1. DOMAIN disk = DOMAIN queue
    BY <1>4 DEF IInv, DiskMatchesQueue
  <2>2. good = {Len(handed) + i : i \in {j \in 1..Len(ts) : data[ts[j]].valid}}
    OBVIOUS
  <2> QED
    BY <2>1, <2>2 DEF Added
<1> HIDE DEF q, d, tracks
<1>7. Delivery!Sends(DOMAIN disk')
  BY <1>2, <1>4, <1>5, SubmittingSends DEF Delivery!Sends
<1>8. Delivery!HandOver(tracks)
  BY <1>2, <1>4, <1>5, <1>6, <1>7 DEF Delivery!HandOver
<1> QED
  BY <1>1, <1>3, <1>8 DEF Delivery!Next

LEMMA SubmitSends ==
    ASSUME IInv, Submit
    PROVE  Delivery!Next
<1>1. /\ proc = "running" /\ Submitting(queue, data) /\ UNCHANGED <<disk, handed>>
  BY DEF Submit
<1>2. TypeOK /\ DOMAIN disk = DOMAIN queue
  BY <1>1 DEF IInv, DiskMatchesQueue
<1>3. Delivery!Send
  BY <1>1, <1>2, SubmittingSends DEF Delivery!Send, Delivery!Sends
<1> QED
  BY <1>3 DEF Delivery!Next

\* The slot takes the batch out of the file, by songs, or leaves the file alone.
LEMMA ScrobbleReturnAnswers ==
    ASSUME IInv, NEW r \in wire, NEW outcome \in Outcomes, ScrobbleReturn(r, outcome)
    PROVE  Delivery!Next
<1>1. /\ TypeOK /\ proc = "running" /\ scrobbleReply' = Nothing /\ UNCHANGED handed
  BY DEF ScrobbleReturn, IInv
<1>2. DOMAIN scrobbleReply' = {}
  BY <1>1 DEF Nothing
<1>3. scrobbleReply # Nothing
  BY DEF IInv, ReplyLock
<1>4. DOMAIN scrobbleReply # {}
  BY <1>1, <1>3, NullReply
<1>5. ASSUME NEW d, Settle(d)
      PROVE  Delivery!Answered
  <2>1. DOMAIN disk' = DOMAIN Remaining(batch)
    BY <1>5 DEF Settle, Written
  <2>2. DOMAIN Remaining(batch) = {p \in DOMAIN queue :
          \A b \in DOMAIN batch : data[batch[b]].song # data[queue[p]].song}
    BY DEF Remaining, Restrict, SameTrack
  <2>3. DOMAIN disk = DOMAIN queue
        /\ \A p \in DOMAIN queue : data[queue[p]].song = handed[p].song
    BY <1>1 DEF IInv, DiskMatchesQueue, FileKeepsSongs
  <2>4. DOMAIN batch = DOMAIN scrobbleReply
        /\ \A b \in DOMAIN batch : b \in DOMAIN queue /\ batch[b] = queue[b]
    BY <1>3 DEF IInv, InFlightIsHead
  <2>5. DOMAIN disk' = {p \in DOMAIN disk :
          \A b \in DOMAIN scrobbleReply : handed[b].song # handed[p].song}
    BY <2>1, <2>2, <2>3, <2>4
  <2> QED
    BY <1>1, <1>2, <1>4, <2>5 DEF Delivery!Answered
<1>6. CASE outcome \in {"ok", "refused"}
  <2>1. \E d : Settle(d)
    BY <1>6 DEF ScrobbleReturn
  <2> QED
    BY <1>5, <2>1 DEF Delivery!Next
<1>7. CASE outcome = "retry"
  <2>1. UNCHANGED disk
    BY <1>7 DEF ScrobbleReturn
  <2>2. Delivery!PutOff
    BY <1>1, <1>2, <2>1 DEF Delivery!PutOff
  <2> QED
    BY <2>2 DEF Delivery!Next
<1> QED
  BY <1>6, <1>7, ScrobblerAssumption

LEMMA ReplacesNamPutsOff ==
    ASSUME ReplacesNam
    PROVE  Delivery!Next
<1>1. Delivery!PutOff
  BY DEF ReplacesNam, Nothing, Delivery!PutOff
<1> QED
  BY <1>1 DEF Delivery!Next

\* A file that was cut lists the plays up to one of them, and that one may read
\* as a remnant.
LEMMA CrashTears ==
    ASSUME IInv, Crash
    PROVE  Delivery!Next
<1>1. TypeOK /\ Len(handed) \in Nat /\ DOMAIN disk \subseteq Plays
      /\ \A p \in DOMAIN disk : disk[p].song = handed[p].song
  BY DEF IInv, TypeOK, FileKeepsSongs
<1>0. PICK file : \E k \in 0..Len(handed) : CrashedTo(file, k)
  BY <1>1, CrashFile
<1>2. PICK k \in 0..Len(handed) : CrashedTo(file, k)
  BY <1>0
<1>3. DOMAIN disk' = {p \in DOMAIN disk : p <= k} /\ disk' = file
  BY <1>2 DEF CrashedTo, TornAt
<1>4. /\ \A p \in DOMAIN file :
            file[p].song = disk[p].song \/ (p = k /\ file[p].song \in Remnants)
  BY <1>1, <1>2, CrashKeeps
<1>5. handed' = [p \in Plays |->
         IF p \in DOMAIN file THEN [handed[p] EXCEPT !.song = file[p].song] ELSE handed[p]]
  BY <1>2 DEF CrashedTo
<1>6. DOMAIN scrobbleReply' = {}
  BY DEF Crash, Nothing
<1>7. /\ handed = [p \in Plays |-> handed[p]]
      /\ \A p \in Plays : [handed[p] EXCEPT !.song = handed[p].song] = handed[p]
  <2> DEFINE Handed == [song: Songs, valid: BOOLEAN]
  <2>1. handed \in Seq(Handed)
    BY <1>1 DEF TypeOK
  <2>2. \A h \in Handed : [h EXCEPT !.song = h.song] = h
    OBVIOUS
  <2> HIDE DEF Handed
  <2>3. handed = [p \in Plays |-> handed[p]] /\ \A p \in Plays : handed[p] \in Handed
    BY <2>1 DEF Plays
  <2> QED
    BY <2>2, <2>3
<1>8. CASE \A p \in DOMAIN file : file[p].song = disk[p].song
  <2>1. \A p \in Plays :
          (IF p \in DOMAIN file THEN [handed[p] EXCEPT !.song = file[p].song] ELSE handed[p])
            = handed[p]
    BY <1>1, <1>3, <1>7, <1>8
  <2>2. handed' = handed
    BY <1>5, <1>7, <2>1
  <2>3. Delivery!Torn(k)
    BY <1>3, <1>6, <2>2 DEF Delivery!Torn
  <2> QED
    BY <2>3 DEF Delivery!Next
<1>9. CASE \E p \in DOMAIN file : file[p].song # disk[p].song
  <2> DEFINE s == file[k].song
  <2>1. k \in DOMAIN file /\ s \in Remnants /\ k \in DOMAIN disk /\ k \in Plays
    BY <1>1, <1>3, <1>4, <1>9
  <2>2. \A p \in DOMAIN file \ {k} : file[p].song = handed[p].song
    BY <1>1, <1>3, <1>4
  <2>3. \A p \in Plays :
          (IF p \in DOMAIN file THEN [handed[p] EXCEPT !.song = file[p].song] ELSE handed[p])
            = IF p = k THEN [handed[p] EXCEPT !.song = s] ELSE handed[p]
    BY <1>7, <2>1, <2>2
  <2>4. handed' = [p \in Plays |-> IF p = k THEN [handed[p] EXCEPT !.song = s] ELSE handed[p]]
    BY <1>5, <2>3
  <2>5. [handed EXCEPT ![k].song = s]
          = [p \in Plays |-> IF p = k THEN [handed[p] EXCEPT !.song = s] ELSE handed[p]]
    BY <1>7, <2>1
  <2>6. Delivery!TornWithin(k, s)
    BY <1>3, <1>6, <2>1, <2>4, <2>5 DEF Delivery!TornWithin
  <2> QED
    BY <2>1, <2>6 DEF Delivery!Next
<1> QED
  BY <1>8, <1>9

\* The constructors submit what the file lists.
LEMMA RestartSends ==
    ASSUME IInv, Restart
    PROVE  Delivery!Next
<1>1. TypeOK /\ DOMAIN queue' = DOMAIN disk /\ Submitting(queue', data')
  BY RestartReads DEF IInv
<1>2. UNCHANGED <<disk, handed>>
  BY DEF Restart
<1>3. Delivery!Send
  BY <1>1, <1>2, SubmittingSends DEF Delivery!Send, Delivery!Sends
<1> QED
  BY <1>3 DEF Delivery!Next

LEMMA OutboxNext == IInv /\ [Next]_vars => [Delivery!Next]_(Delivery!vars)
<1> SUFFICES ASSUME IInv, [Next]_vars PROVE [Delivery!Next]_(Delivery!vars)
  OBVIOUS
<1>1. CASE AppStep
  <2>1. CASE \E o \in Objects, song \in Songs, stamp \in Stamps, valid \in BOOLEAN :
               NewTrack(o, song, stamp, valid)
    BY <2>1 DEF NewTrack, Delivery!vars
  <2>2. CASE \E o \in held, stamp \in Stamps : Restamp(o, stamp)
    BY <2>2 DEF Restamp, Delivery!vars
  <2> QED
    BY <1>1, <2>1, <2>2, CacheBatchHandsOver, SubmitSends DEF AppStep
<1>2. CASE NetworkStep
  <2>1. CASE \E r \in wire : \E accepted \in SUBSET DOMAIN r.payload : Serve(r, accepted)
    BY <2>1 DEF Serve, Delivery!vars
  <2> QED
    BY <1>2, <2>1, ScrobbleReturnAnswers DEF NetworkStep
<1>3. CASE ReplacesNam
  BY <1>3, ReplacesNamPutsOff
<1>4. CASE Crash
  BY <1>4, CrashTears
<1>5. CASE Restart
  BY <1>5, RestartSends
<1>6. CASE UNCHANGED vars
  BY <1>6 DEF vars, Delivery!vars
<1> QED
  BY <1>1, <1>2, <1>3, <1>4, <1>5, <1>6 DEF Next

\* add(), submit(), the slot, write() and the constructors together: every
\* behaviour of the scrobbler is one of the outbox.
THEOREM ImplementsOutbox == Spec => DeliversInOrder
BY OutboxInit, OutboxNext, Invariance, PTL DEF Spec, DeliversInOrder, Delivery!Spec

-------------------------------------------------------------------------------
(* The status that a Track shows.                                               *)

\* A song of which the server has recorded some scrobble.
Known(song) == \E s \in recorded : s.song = song

\* A record of the file that says Submitted will be a track that shows it.
FileIsRecorded == \A p \in DOMAIN disk : disk[p].status = "Submitted" => Known(disk[p].song)

\* What an answer accepts was recorded when the POST was served.
AcceptedIsRecorded == \A r \in wire : \A p \in r.accepted : r.payload[p] \in recorded

\* The payload tells the songs of m_batch, whatever was stamped meanwhile.
PayloadIsOfBatch ==
    scrobbleReply # Nothing =>
        \A p \in DOMAIN batch : /\ batch[p] \in DOMAIN data
                                /\ scrobbleReply[p].song = data[batch[p]].song

\* SubmittedIsRecorded is not inductive: the status comes from an answer, by
\* position, and after a restart from the file.
SInv ==
    /\ CachedWhileQueued
    /\ SubmittedIsRecorded
    /\ FileIsRecorded
    /\ AcceptedIsRecorded
    /\ PayloadIsOfBatch

LEMMA StatusInit == Init => SInv
BY DEF Init, SInv, CachedWhileQueued, SubmittedIsRecorded, FileIsRecorded,
       AcceptedIsRecorded, PayloadIsOfBatch, Nothing

\* submit() puts on the wire what the tracks d of the list q tell, and nothing
\* of it is accepted yet.
LEMMA SubmittingStatus ==
    ASSUME NEW q, NEW d, q \in [DOMAIN q -> DOMAIN d],
           scrobbleReply # Nothing =>
             \A p \in DOMAIN batch : /\ batch[p] \in DOMAIN d
                                     /\ scrobbleReply[p].song = d[batch[p]].song,
           AcceptedIsRecorded, recorded' = recorded, data' = d,
           Submitting(q, d)
    PROVE  PayloadIsOfBatch' /\ AcceptedIsRecorded'
<1>1. CASE DOMAIN q = {} \/ scrobbleReply # Nothing
  BY <1>1 DEF Submitting, PayloadIsOfBatch, AcceptedIsRecorded, Nothing
<1>2. CASE ~(DOMAIN q = {} \/ scrobbleReply # Nothing)
  <2> DEFINE b == FirstOf(q)
             new == [payload |-> Payload(b, d), served |-> FALSE, accepted |-> {}]
  <2>1. batch' = b /\ scrobbleReply' = Payload(b, d) /\ wire' = wire \cup {new}
    BY <1>2 DEF Submitting
  <2>2. \A p \in DOMAIN b : b[p] = q[p] /\ p \in DOMAIN q
    BY DEF FirstOf, Restrict
  <2>3. \A p \in DOMAIN b : Payload(b, d)[p].song = d[b[p]].song
    BY DEF Payload
  <2>4. new.accepted = {}
    OBVIOUS
  <2> HIDE DEF b, new
  <2>5. PayloadIsOfBatch'
    BY <2>1, <2>2, <2>3 DEF PayloadIsOfBatch
  <2>6. AcceptedIsRecorded'
    BY <2>1, <2>4 DEF AcceptedIsRecorded
  <2> QED
    BY <2>5, <2>6
<1> QED
  BY <1>1, <1>2

LEMMA NewTrackStatus ==
    ASSUME IInv, SInv, NEW o \in Objects, NEW song \in Songs, NEW stamp \in Stamps,
           NEW valid \in BOOLEAN, NewTrack(o, song, stamp, valid)
    PROVE  SInv'
<1>1. /\ \A x \in DOMAIN queue : queue[x] # o /\ queue[x] \in DOMAIN data
      /\ \A x \in DOMAIN batch : batch[x] # o
  BY DEF NewTrack, Range, IInv, TypeOK
<1>2. /\ DOMAIN data' = DOMAIN data \cup {o} /\ data'[o].status = "Null"
      /\ \A x \in DOMAIN data : x # o => data'[x] = data[x]
      /\ held' = held \cup {o}
      /\ UNCHANGED <<proc, queue, disk, batch, scrobbleReply, wire, recorded>>
  BY DEF NewTrack
<1>3. CachedWhileQueued'
  BY <1>1, <1>2 DEF SInv, CachedWhileQueued
<1>4. SubmittedIsRecorded'
  BY <1>2 DEF SInv, SubmittedIsRecorded
<1>5. FileIsRecorded' /\ AcceptedIsRecorded'
  BY <1>2 DEF SInv, FileIsRecorded, AcceptedIsRecorded, Known
<1>6. PayloadIsOfBatch'
  BY <1>1, <1>2 DEF SInv, PayloadIsOfBatch, Nothing
<1> QED
  BY <1>3, <1>4, <1>5, <1>6 DEF SInv

LEMMA RestampStatus ==
    ASSUME IInv, SInv, NEW o \in held, NEW stamp \in Stamps, Restamp(o, stamp)
    PROVE  SInv'
<1>1. /\ DOMAIN data' = DOMAIN data
      /\ \A x \in DOMAIN data : data'[x].song = data[x].song
                                /\ data'[x].status = data[x].status
      /\ UNCHANGED <<proc, held, queue, disk, batch, scrobbleReply, wire, recorded>>
  BY DEF Restamp, IInv, TypeOK, TrackData
<1>2. \A x \in DOMAIN queue : queue[x] \in DOMAIN data
  BY DEF IInv, TypeOK
<1>3. CachedWhileQueued' /\ SubmittedIsRecorded' /\ PayloadIsOfBatch'
  BY <1>1, <1>2 DEF SInv, CachedWhileQueued, SubmittedIsRecorded, PayloadIsOfBatch, Nothing
<1>4. FileIsRecorded' /\ AcceptedIsRecorded'
  BY <1>1 DEF SInv, FileIsRecorded, AcceptedIsRecorded, Known
<1> QED
  BY <1>3, <1>4 DEF SInv

\* cacheBatch() writes the tracks as they were and then marks every one of the
\* list.
LEMMA CacheBatchStatus ==
    ASSUME IInv, SInv, NEW ts \in Calls, CacheBatch(ts)
    PROVE  SInv'
<1> DEFINE q == Added(ts)
           d == [o \in DOMAIN data |->
                   IF o \in Range(q) THEN [data[o] EXCEPT !.status = "Cached"] ELSE data[o]]
<1>1. PICK k \in Nat : ts \in [1..k -> held]
  BY ScrobblerAssumption DEF Calls
<1>2. TypeOK /\ q \in [DOMAIN q -> DOMAIN data]
  BY <1>1, AddedType DEF IInv
<1>3. /\ queue' = q /\ disk' = Written(q, data) /\ data' = d /\ Submitting(q, d)
      /\ UNCHANGED <<proc, held, recorded>>
  BY DEF CacheBatch
<1>4. /\ DOMAIN d = DOMAIN data
      /\ \A o \in DOMAIN data : d[o].song = data[o].song
      /\ \A o \in Range(q) : o \in DOMAIN data => d[o].status = "Cached"
      /\ \A o \in DOMAIN data : d[o].status \in {"Cached", data[o].status}
  BY <1>2 DEF TypeOK, TrackData
<1>5. \A p \in DOMAIN q : q[p] \in Range(q)
  BY DEF Range
<1>6. /\ DOMAIN Written(q, data) = DOMAIN q
      /\ \A p \in DOMAIN q : Written(q, data)[p] = data[q[p]]
  BY DEF Written
<1> HIDE DEF q, d
<1>7. CachedWhileQueued'
  BY <1>2, <1>3, <1>4, <1>5 DEF CachedWhileQueued
<1>8. SubmittedIsRecorded'
  BY <1>3, <1>4 DEF SInv, SubmittedIsRecorded
<1>9. FileIsRecorded'
  BY <1>2, <1>3, <1>6 DEF SInv, SubmittedIsRecorded, FileIsRecorded, Known
<1>10. PayloadIsOfBatch' /\ AcceptedIsRecorded'
  BY <1>2, <1>3, <1>4, SubmittingStatus DEF SInv, PayloadIsOfBatch
<1> QED
  BY <1>7, <1>8, <1>9, <1>10 DEF SInv

LEMMA SubmitStatus ==
    ASSUME IInv, SInv, Submit
    PROVE  SInv'
<1>1. /\ Submitting(queue, data)
      /\ UNCHANGED <<proc, data, held, queue, disk, recorded>>
  BY DEF Submit
<1>2. PayloadIsOfBatch' /\ AcceptedIsRecorded'
  BY <1>1, SubmittingStatus DEF IInv, TypeOK, SInv, PayloadIsOfBatch
<1>3. CachedWhileQueued' /\ SubmittedIsRecorded' /\ FileIsRecorded'
  BY <1>1 DEF SInv, CachedWhileQueued, SubmittedIsRecorded, FileIsRecorded, Known
<1> QED
  BY <1>2, <1>3 DEF SInv

\* What is recorded stays so.
LEMMA ServeStatus ==
    ASSUME IInv, SInv, NEW r \in wire, NEW accepted \in SUBSET DOMAIN r.payload,
           Serve(r, accepted)
    PROVE  SInv'
<1> DEFINE s == [payload |-> r.payload, served |-> TRUE, accepted |-> accepted]
<1>1. /\ wire' = (wire \ {r}) \cup {s}
      /\ recorded' = recorded \cup {r.payload[p] : p \in accepted}
      /\ UNCHANGED <<proc, data, held, queue, disk, batch, scrobbleReply>>
  BY DEF Serve
<1>2. \A p \in s.accepted : s.payload[p] \in recorded'
  BY <1>1
<1> HIDE DEF s
<1>3. AcceptedIsRecorded'
  BY <1>1, <1>2 DEF SInv, AcceptedIsRecorded
<1>4. SubmittedIsRecorded' /\ FileIsRecorded'
  BY <1>1 DEF SInv, SubmittedIsRecorded, FileIsRecorded, Known
<1>5. CachedWhileQueued' /\ PayloadIsOfBatch'
  BY <1>1 DEF SInv, CachedWhileQueued, PayloadIsOfBatch, Nothing
<1> QED
  BY <1>3, <1>4, <1>5 DEF SInv

\* The batch leaves the list with every play of its songs, so of the tracks in
\* the list none is marked anew, and what is written is as true as the tracks.
LEMMA SettleStatus ==
    ASSUME IInv, SInv, proc = "running", scrobbleReply # Nothing,
           NEW d, DOMAIN d = DOMAIN data, \A o \in DOMAIN data : d[o].song = data[o].song,
           \A o \in DOMAIN data : d[o] = data[o] \/ \E b \in DOMAIN batch : batch[b] = o,
           \A o \in DOMAIN data : d[o].status = "Submitted" => Known(d[o].song),
           Settle(d), UNCHANGED <<proc, held, recorded>>
    PROVE  CachedWhileQueued' /\ SubmittedIsRecorded' /\ FileIsRecorded'
<1> DEFINE left == Remaining(batch)
<1>1. queue' = left /\ disk' = Written(left, d) /\ data' = d
  BY DEF Settle
<1>2. /\ DOMAIN left \subseteq DOMAIN queue
      /\ \A p \in DOMAIN left : left[p] = queue[p]
      /\ \A p \in DOMAIN left, b \in DOMAIN batch :
           data[batch[b]].song # data[queue[p]].song
  BY DEF Remaining, Restrict, SameTrack
<1>3. DOMAIN disk' = DOMAIN left /\ \A p \in DOMAIN left : disk'[p] = d[left[p]]
  BY <1>1 DEF Written
<1> HIDE DEF left
<1>4. \A p \in DOMAIN queue : queue[p] \in DOMAIN data
  BY DEF IInv, TypeOK
<1>5. \A p \in DOMAIN left : d[left[p]] = data[left[p]]
  BY <1>2, <1>4
<1>6. CachedWhileQueued'
  BY <1>1, <1>2, <1>5 DEF SInv, CachedWhileQueued
<1>7. SubmittedIsRecorded'
  BY <1>1 DEF SubmittedIsRecorded, Known
<1>8. FileIsRecorded'
  BY <1>2, <1>3, <1>4 DEF FileIsRecorded, Known
<1> QED
  BY <1>6, <1>7, <1>8

LEMMA ScrobbleReturnStatus ==
    ASSUME IInv, SInv, NEW r \in wire, NEW outcome \in Outcomes, ScrobbleReturn(r, outcome)
    PROVE  SInv'
<1>1. /\ proc = "running" /\ wire' \subseteq wire /\ scrobbleReply' = Nothing
      /\ UNCHANGED <<proc, held, recorded>>
  BY DEF ScrobbleReturn
<1>2. PayloadIsOfBatch' /\ AcceptedIsRecorded'
  BY <1>1 DEF SInv, PayloadIsOfBatch, AcceptedIsRecorded, Nothing
<1>3. scrobbleReply # Nothing
  BY DEF IInv, ReplyLock
<1>4. CachedWhileQueued' /\ SubmittedIsRecorded' /\ FileIsRecorded'
  <2>1. CASE outcome = "ok"
    <3> DEFINE d == [o \in DOMAIN data |-> Parsed(o, r.accepted)]
    <3>1. Settle(d) /\ r.payload = scrobbleReply
      BY <2>1 DEF ScrobbleReturn
    <3>2. /\ \A o \in DOMAIN data : d[o].song = data[o].song
          /\ \A o \in DOMAIN data : d[o] = data[o] \/ \E b \in DOMAIN batch : batch[b] = o
          /\ \A o \in DOMAIN data : d[o].status = "Submitted" =>
               \/ d[o] = data[o]
               \/ \E p \in DOMAIN batch \cap r.accepted : batch[p] = o
      BY DEF Parsed, IInv, TypeOK, TrackData
    <3>3. \A p \in DOMAIN batch \cap r.accepted : Known(data[batch[p]].song)
      BY <1>3, <3>1 DEF SInv, AcceptedIsRecorded, PayloadIsOfBatch, Known
    <3>4. DOMAIN d = DOMAIN data
      OBVIOUS
    <3> HIDE DEF d
    <3>5. \A o \in DOMAIN data : d[o].status = "Submitted" => Known(d[o].song)
      BY <3>2, <3>3 DEF SInv, SubmittedIsRecorded, Known
    <3> QED
      BY <1>1, <1>3, <3>1, <3>2, <3>4, <3>5, SettleStatus
  <2>2. CASE outcome = "refused"
    <3>1. Settle(data)
      BY <2>2 DEF ScrobbleReturn
    <3>2. \A o \in DOMAIN data : data[o].status = "Submitted" => Known(data[o].song)
      BY DEF SInv, SubmittedIsRecorded, Known
    <3> QED
      BY <1>1, <1>3, <3>1, <3>2, SettleStatus
  <2>3. CASE outcome = "retry"
    <3>1. UNCHANGED <<data, queue, disk>>
      BY <2>3 DEF ScrobbleReturn
    <3> QED
      BY <1>1, <3>1 DEF SInv, CachedWhileQueued, SubmittedIsRecorded, FileIsRecorded, Known
  <2> QED
    BY <2>1, <2>2, <2>3, ScrobblerAssumption
<1> QED
  BY <1>2, <1>4 DEF SInv

LEMMA ReplacesNamStatus ==
    ASSUME SInv, ReplacesNam
    PROVE  SInv'
BY DEF ReplacesNam, SInv, CachedWhileQueued, SubmittedIsRecorded, FileIsRecorded,
       AcceptedIsRecorded, PayloadIsOfBatch, Known, Nothing

\* A record that was cut says Null, so that what says Submitted kept its song.
LEMMA CrashStatus ==
    ASSUME IInv, SInv, Crash
    PROVE  SInv'
<1>1. TypeOK
  BY DEF IInv
<1>0. PICK file : \E k \in 0..Len(handed) : CrashedTo(file, k)
  BY <1>1, CrashFile
<1>2. PICK k \in 0..Len(handed) : CrashedTo(file, k)
  BY <1>0
<1>3. disk' = file /\ DOMAIN file \subseteq DOMAIN disk
      /\ \A p \in DOMAIN disk : disk[p] \in TrackData
  BY <1>1, <1>2, CrashKeeps DEF CrashedTo, TypeOK
<1>4. \A p \in DOMAIN file : file[p].status = "Submitted" => file[p] = disk[p]
  <2>1. \A p \in DOMAIN file : file[p] = disk[p] \/ file[p] \in Cut(disk[p])
    BY <1>2 DEF CrashedTo, TornAt
  <2> QED
    BY <1>3, <2>1, CutRecord
<1>5. FileIsRecorded'
  BY <1>3, <1>4 DEF Crash, SInv, FileIsRecorded, Known
<1>6. CachedWhileQueued' /\ SubmittedIsRecorded' /\ AcceptedIsRecorded' /\ PayloadIsOfBatch'
  BY DEF Crash, CachedWhileQueued, SubmittedIsRecorded, AcceptedIsRecorded,
         PayloadIsOfBatch, Nothing
<1> QED
  BY <1>5, <1>6 DEF SInv

LEMMA RestartStatus ==
    ASSUME IInv, SInv, Restart
    PROVE  SInv'
<1>1. /\ held' = {} /\ proc # "running"
      /\ UNCHANGED <<disk, recorded>>
  BY DEF Restart
<1>2. /\ queue' \in [DOMAIN queue' -> DOMAIN data']
      /\ Submitting(queue', data')
  BY RestartReads DEF IInv
<1>3. \A o \in DOMAIN data' : \E p \in DOMAIN disk : data'[o] = disk[p]
  <2>1. PICK f \in Injection(DOMAIN disk, Objects) :
          data' = [o \in Range(f) |-> disk[CHOOSE p \in DOMAIN disk : f[p] = o]]
    BY DEF Restart
  <2>2. \A o \in Range(f) : (CHOOSE p \in DOMAIN disk : f[p] = o) \in DOMAIN disk
    BY DEF Range, Injection, IsInjective
  <2> QED
    BY <2>1, <2>2
<1>4. SubmittedIsRecorded'
  BY <1>1, <1>3 DEF SInv, FileIsRecorded, SubmittedIsRecorded, Known
<1>5. scrobbleReply = Nothing
  BY <1>1 DEF IInv, ReplyLock
<1>6. PayloadIsOfBatch' /\ AcceptedIsRecorded'
  BY <1>1, <1>2, <1>5, SubmittingStatus DEF SInv
<1>7. CachedWhileQueued' /\ FileIsRecorded'
  BY <1>1 DEF SInv, CachedWhileQueued, FileIsRecorded, Known
<1> QED
  BY <1>4, <1>6, <1>7 DEF SInv

LEMMA StatusNext == IInv /\ SInv /\ [Next]_vars => SInv'
<1> SUFFICES ASSUME IInv, SInv, [Next]_vars PROVE SInv'
  OBVIOUS
<1>1. CASE AppStep
  BY <1>1, NewTrackStatus, RestampStatus, CacheBatchStatus, SubmitStatus DEF AppStep
<1>2. CASE NetworkStep
  BY <1>2, ServeStatus, ScrobbleReturnStatus DEF NetworkStep
<1>3. CASE ReplacesNam
  BY <1>3, ReplacesNamStatus
<1>4. CASE Crash
  BY <1>4, CrashStatus
<1>5. CASE Restart
  BY <1>5, RestartStatus
<1>6. CASE UNCHANGED vars
  BY <1>6 DEF vars, SInv, CachedWhileQueued, SubmittedIsRecorded, FileIsRecorded,
              AcceptedIsRecorded, PayloadIsOfBatch, Known, Nothing
<1> QED
  BY <1>1, <1>2, <1>3, <1>4, <1>5, <1>6 DEF Next

\* parseTrack(), remove() and read() together: a track of the application in the
\* list shows Cached, and one that shows Submitted was recorded by the server.
THEOREM ShownStatusIsTrue == Spec => []StatusIsTrue
<1>1. SInv => StatusIsTrue
  BY DEF SInv, StatusIsTrue
<1> QED
  BY <1>1, StatusInit, StatusNext, Invariance, PTL DEF Spec
=============================================================================
