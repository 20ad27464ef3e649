------------------------------ MODULE Scrobbler ------------------------------
(****************************************************************************)
(* Audioscrobbler and its ScrobbleCache, the Track objects they share with  *)
(* the application, the cache file, and the track.scrobble POSTs on the     *)
(* wire.  The classes live in one thread: every slot runs to its end before *)
(* the next one starts, so one action is one slot (or one public method).   *)
(*                                                                          *)
(* A position of ScrobbleCache::m_tracks is named by its play: the number,  *)
(* counted from 1, of the track among all the tracks ever handed to         *)
(* cacheBatch().  The list only grows at its end, so list order is play     *)
(* order, and `queue' maps each play still in the list to its Track object. *)
(* Two plays may share one object: copies of a Track share their TrackData. *)
(****************************************************************************)
EXTENDS Naturals, Sequences, FiniteSets, Functions

CONSTANTS
    Objects,         \* addresses of TrackData objects
    Songs,           \* (title, album, artist): what Track::operator== compares
    Remnants,        \* the songs a record may tell that was cut within its song:
                     \* those with the title "[unknown]", as title() reads none
    Stamps,          \* times a track was started at
    BatchLimit,      \* the 50 of submit()
    Outcomes,        \* how a POST may finish: "ok", "retry" (the codes 9, 11
                     \* and 16), "refused" (another code, or no body at all)
    MaxCall,         \* bound: tracks handed over by one cacheBatch()
    MaxPlays,        \* bound: tracks handed over in all
    MaxFailures      \* bound: deaths of the process and replaced managers

ASSUME ScrobblerAssumption ==
    /\ Remnants \subseteq Songs
    /\ Stamps \subseteq Nat \ {0}
    /\ BatchLimit \in Nat \ {0}
    /\ Outcomes \subseteq {"ok", "retry", "refused"}
    /\ MaxCall \in Nat /\ MaxPlays \in Nat /\ MaxFailures \in Nat

VARIABLES
    proc,           \* the process: "running" or "down"
    data,           \* the TrackData objects of the process: object -> fields
    held,           \* the objects the application holds a Track of
    queue,          \* ScrobbleCache::m_tracks: play -> object
    disk,           \* the cache file: play -> record, empty when there is none
    batch,          \* AudioscrobblerPrivate::m_batch: play -> object
    scrobbleReply,  \* m_scrobbleReply: the payload posted last, Nothing = null
    wire,           \* the POSTs that have not finished
    recorded,       \* the scrobbles the server has recorded
    handed,         \* history: every track handed to cacheBatch(), by play; where
                    \* a crash cut the record, with the song that is left of it
    settled,        \* history: plays of POSTs that came back ok or refused
    lost,           \* history: plays a crash tore from the file, or their song
    failures        \* bound: number of those so far

vars == <<proc, data, held, queue, disk, batch, scrobbleReply, wire, recorded,
          handed, settled, lost, failures>>

Nothing == [p \in {} |-> p]     \* the empty list, the absent file, the null reply
Epoch   == 0                    \* QDateTime::fromTime_t(0), no timestamp read
Status  == {"Null", "Cached", "Submitted", "Error"}
TrackData == [song: Songs, stamp: Stamps \cup {Epoch}, valid: BOOLEAN, status: Status]
Scrobble  == [song: Songs, stamp: Stamps \cup {Epoch}]
Plays     == 1..Len(handed)

----------------------------------------------------------------------------
(* ScrobbleCache *)

\* Track::operator==: title, album and artist, never the timestamp.
SameTrack(t, u) == t.song = u.song

\* add(): the valid tracks of the call ts, appended behind the list.
Added(ts) ==
    LET n    == Len(handed)
        good == {n + i : i \in {j \in 1..Len(ts) : data[ts[j]].valid}}
    IN  [p \in DOMAIN queue \cup good |-> IF p <= n THEN queue[p] ELSE ts[p - n]]

\* Seeded bugs of remove(): its inner loop starts at the second track; it clears
\* the list; it drops the batch by place and not by equality.
RemainingFromSecond(toremove) ==
    Restrict(queue, {p \in DOMAIN queue :
        \A b \in DOMAIN toremove :
            \/ \A c \in DOMAIN toremove : b <= c
            \/ ~SameTrack(data[toremove[b]], data[queue[p]])})
RemainingCleared(toremove) == Nothing
RemainingByPlace(toremove) == Restrict(queue, DOMAIN queue \ DOMAIN toremove)

\* remove(): every play equal to one of `toremove' leaves the list.
Remaining(toremove) ==
    Restrict(queue, {p \in DOMAIN queue :
        \A b \in DOMAIN toremove : ~SameTrack(data[toremove[b]], data[queue[p]])})

\* Seeded bug of toDomElement(): no timestamp element.
WrittenUnstamped(q, d) ==
    [p \in DOMAIN q |-> [song |-> d[q[p]].song, valid |-> d[q[p]].valid,
                         status |-> d[q[p]].status]]

\* write(): the list q with the fields its tracks have in d; an empty list
\* removes the file.
Written(q, d) == [p \in DOMAIN q |-> d[q[p]]]

\* What read() makes of a record that was cut: toDomElement() writes the song,
\* then the duration and the timestamp, then the status, and nothing validates.
Cut(t) ==
    {[t EXCEPT !.status = "Null"]}
        \cup [song: Remnants \cup {t.song}, stamp: {Epoch}, valid: {FALSE}, status: {"Null"}]

\* What may be left of a file that was cut short: the records up to some play,
\* the last of them possibly without the fields behind the cut.
Torn(file) ==
    LET upto(k) == Restrict(file, {p \in DOMAIN file : p <= k})
    IN  {upto(k) : k \in 0..Len(handed)}
            \cup UNION {{[upto(k) EXCEPT ![k] = t] : t \in Cut(file[k])} : k \in DOMAIN file}

----------------------------------------------------------------------------
(* Audioscrobbler *)

\* mid(0, 50): the BatchLimit oldest plays of the list q.
FirstOf(q) ==
    Restrict(q, {p \in DOMAIN q :
        Cardinality({r \in DOMAIN q : r < p}) < BatchLimit})

\* What Track::scrobble puts on the wire for the plays of b.
Payload(b, d) ==
    [p \in DOMAIN b |-> [song |-> d[b[p]].song, stamp |-> d[b[p]].stamp]]

\* Seeded bugs of submit(): it does not look whether a reply is awaited; it does
\* not connect the reply's finished().
SubmittingAgain(q, d) ==
    IF DOMAIN q = {}
    THEN UNCHANGED <<batch, scrobbleReply, wire>>
    ELSE /\ batch' = FirstOf(q)
         /\ scrobbleReply' = Payload(FirstOf(q), d)
         /\ wire' = wire \cup {[payload  |-> Payload(FirstOf(q), d),
                                served   |-> FALSE,
                                accepted |-> {}]}
SubmittingUnconnected(q, d) ==
    IF DOMAIN q = {} \/ scrobbleReply # Nothing
    THEN UNCHANGED <<batch, scrobbleReply, wire>>
    ELSE /\ batch' = FirstOf(q)
         /\ scrobbleReply' = Payload(FirstOf(q), d)
         /\ UNCHANGED wire

\* submit() on the list q and the tracks d: nothing when the list is empty or a
\* reply is awaited, else post the oldest plays.
Submitting(q, d) ==
    IF DOMAIN q = {} \/ scrobbleReply # Nothing
    THEN UNCHANGED <<batch, scrobbleReply, wire>>
    ELSE /\ batch' = FirstOf(q)
         /\ scrobbleReply' = Payload(FirstOf(q), d)
         /\ wire' = wire \cup {[payload  |-> Payload(FirstOf(q), d),
                                served   |-> FALSE,
                                accepted |-> {}]}

Init ==
    /\ proc = "running"
    /\ data = Nothing /\ held = {}
    /\ queue = Nothing /\ disk = Nothing
    /\ batch = Nothing /\ scrobbleReply = Nothing /\ wire = {}
    /\ recorded = {}
    /\ handed = <<>> /\ settled = {} /\ lost = {} /\ failures = 0

\* The application fills in a new Track; an address nobody refers to is used.
NewTrack(o, song, stamp, valid) ==
    /\ proc = "running"
    /\ o \notin held \cup Range(queue) \cup Range(batch)
    /\ data' = [x \in DOMAIN data \cup {o} |->
                  IF x = o THEN [song |-> song, stamp |-> stamp,
                                 valid |-> valid, status |-> "Null"]
                           ELSE data[x]]
    /\ held' = held \cup {o}
    /\ UNCHANGED <<proc, queue, disk, batch, scrobbleReply, wire, recorded,
                   handed, settled, lost, failures>>

\* MutableTrack::stamp(): the application starts the same Track once more.
Restamp(o, stamp) ==
    /\ proc = "running"
    /\ o \in held
    /\ data[o].stamp < stamp
    /\ data' = [data EXCEPT ![o].stamp = stamp]
    /\ UNCHANGED <<proc, held, queue, disk, batch, scrobbleReply, wire, recorded,
                   handed, settled, lost, failures>>

\* cacheBatch(): add and write, then mark every track of the list, then submit.
CacheBatch(ts) ==
    LET q == Added(ts)
        d == [o \in DOMAIN data |->
                IF o \in Range(q) THEN [data[o] EXCEPT !.status = "Cached"] ELSE data[o]]
    IN  /\ proc = "running"
        /\ Len(handed) + Len(ts) <= MaxPlays
        /\ queue' = q
        /\ disk' = Written(q, data)
        /\ data' = d
        /\ handed' = handed \o [i \in 1..Len(ts) |->
                        [song |-> data[ts[i]].song, valid |-> data[ts[i]].valid]]
        /\ Submitting(q, d)
        /\ UNCHANGED <<proc, held, recorded, settled, lost, failures>>

\* submit() called by the application.
Submit ==
    /\ proc = "running"
    /\ Submitting(queue, data)
    /\ UNCHANGED <<proc, data, held, queue, disk, recorded, handed, settled, lost, failures>>

\* The server takes a POST and decides which of its scrobbles it ignores.
Serve(r, accepted) ==
    /\ ~r.served
    /\ wire' = (wire \ {r}) \cup {[payload |-> r.payload, served |-> TRUE,
                                    accepted |-> accepted]}
    /\ recorded' = recorded \cup {r.payload[p] : p \in accepted}
    /\ UNCHANGED <<proc, data, held, queue, disk, batch, scrobbleReply, handed,
                   settled, lost, failures>>

\* Seeded bug of remove(): the file is not written.
SettleUnwritten(d) ==
    /\ queue' = Remaining(batch)
    /\ disk' = disk
    /\ settled' = settled \cup DOMAIN batch
    /\ batch' = Nothing
    /\ data' = d

\* The slot's effect on the cache: the batch leaves it, the file follows.
Settle(d) ==
    /\ queue' = Remaining(batch)
    /\ disk' = Written(Remaining(batch), d)
    /\ settled' = settled \cup DOMAIN batch
    /\ batch' = Nothing
    /\ data' = d

\* Seeded bug of parseTrack(): the code of ignoredMessage is not looked at.
ParsedUnread(o, accepted) ==
    IF \E p \in DOMAIN batch : batch[p] = o
    THEN [data[o] EXCEPT !.status = "Submitted"]
    ELSE data[o]

\* The status of object o after parseTrack() went over the batch in order: the
\* last play of o decides.
Parsed(o, accepted) ==
    LET mine == {p \in DOMAIN batch : batch[p] = o}
    IN  IF mine = {} THEN data[o]
        ELSE [data[o] EXCEPT !.status =
                IF \E p \in mine \cap accepted : \A r \in mine : r <= p
                THEN "Submitted" ELSE "Error"]

\* onTrackScrobbleReturn(): the body is read from m_scrobbleReply, the reply
\* posted last, whichever POST has finished.  Q_ASSERT(false) on the way of a
\* retry is compiled out, as in a release build.
ScrobbleReturn(r, outcome) ==
    /\ proc = "running"
    /\ r \in wire
    /\ wire' = wire \ {r}
    /\ scrobbleReply' = Nothing
    /\ \/ /\ outcome = "ok"
          /\ r.served /\ r.payload = scrobbleReply
          /\ Settle([o \in DOMAIN data |-> Parsed(o, r.accepted)])
       \/ /\ outcome = "refused"
          /\ Settle(data)
       \/ /\ outcome = "retry"
          /\ ~r.served /\ r.payload = scrobbleReply
          /\ UNCHANGED <<data, queue, disk, batch, settled>>
    /\ UNCHANGED <<proc, held, recorded, handed, lost, failures>>

\* setNetworkAccessManager(): the old manager takes its replies with it and the
\* QPointer reads null; no slot runs.
ReplacesNam ==
    /\ proc = "running"
    /\ wire # {}
    /\ failures < MaxFailures
    /\ failures' = failures + 1
    /\ wire' = {}
    /\ scrobbleReply' = Nothing
    /\ UNCHANGED <<proc, data, held, queue, disk, batch, recorded, handed, settled,
                   lost>>

\* The process dies.  The file keeps what was written, or is torn: the process
\* may die within write(), which truncates first, and nothing syncs the file.
Crash ==
    /\ proc = "running"
    /\ failures < MaxFailures
    /\ failures' = failures + 1
    /\ proc' = "down"
    /\ \E file \in {disk} \cup Torn(disk) :
         /\ disk' = file
         /\ lost' = lost \cup {p \in DOMAIN disk :
                                 p \in DOMAIN file => file[p].song # disk[p].song}
         /\ handed' = [p \in Plays |->
                IF p \in DOMAIN file THEN [handed[p] EXCEPT !.song = file[p].song]
                                     ELSE handed[p]]
    /\ data' = Nothing /\ held' = {} /\ queue' = Nothing /\ batch' = Nothing
    /\ scrobbleReply' = Nothing /\ wire' = {}
    /\ UNCHANGED <<recorded, settled>>

\* The constructors: ScrobbleCache reads the file into new Track objects, then
\* Audioscrobbler submits.
Restart ==
    /\ proc # "running"
    /\ proc' = "running"
    /\ \E f \in Injection(DOMAIN disk, Objects) :
         LET d == [o \in Range(f) |-> disk[CHOOSE p \in DOMAIN disk : f[p] = o]]
         IN  /\ data' = d
             /\ queue' = f
             /\ Submitting(f, d)
    /\ held' = {}
    /\ UNCHANGED <<disk, recorded, handed, settled, lost, failures>>

\* The lists of up to MaxCall tracks the application can hand over.
Calls == UNION {[1..n -> held] : n \in 0..MaxCall}

AppStep ==
    \/ \E o \in Objects, song \in Songs, stamp \in Stamps, valid \in BOOLEAN :
         NewTrack(o, song, stamp, valid)
    \/ \E o \in held, stamp \in Stamps : Restamp(o, stamp)
    \/ \E ts \in Calls : CacheBatch(ts)
    \/ Submit

NetworkStep ==
    \/ \E r \in wire : \E accepted \in SUBSET DOMAIN r.payload : Serve(r, accepted)
    \/ \E r \in wire, outcome \in Outcomes : ScrobbleReturn(r, outcome)

Next == AppStep \/ NetworkStep \/ ReplacesNam \/ Crash \/ Restart

Spec == Init /\ [][Next]_vars

\* Every POST is answered or fails in the end: Qt finishes each reply.  Nothing
\* else is fair: no slot of Audioscrobbler calls submit() again, and neither the
\* application nor the user who starts it owes a next call.
FairSpec == Spec /\ WF_vars(NetworkStep)

----------------------------------------------------------------------------
(* Properties *)

IsRequest(r) ==
    /\ r = [payload |-> r.payload, served |-> r.served, accepted |-> r.accepted]
    /\ r.payload \in [DOMAIN r.payload -> Scrobble]
    /\ r.served \in BOOLEAN
    /\ r.accepted \subseteq DOMAIN r.payload

\* Every variable stays in its type.
TypeOK ==
    /\ proc \in {"running", "down"}
    /\ data \in [DOMAIN data -> TrackData] /\ DOMAIN data \subseteq Objects
    /\ held \subseteq DOMAIN data
    /\ handed \in Seq([song: Songs, valid: BOOLEAN])
    /\ queue \in [DOMAIN queue -> DOMAIN data] /\ DOMAIN queue \subseteq Plays
    /\ disk \in [DOMAIN disk -> TrackData] /\ DOMAIN disk \subseteq Plays
    /\ batch \in [DOMAIN batch -> Objects] /\ DOMAIN batch \subseteq Plays
    /\ scrobbleReply \in [DOMAIN scrobbleReply -> Scrobble]
    /\ \A r \in wire : IsRequest(r)
    /\ recorded \subseteq Scrobble
    /\ settled \subseteq Plays /\ lost \subseteq Plays
    /\ failures \in 0..MaxFailures

\* While a reply is awaited there is exactly one POST, its payload lists the
\* plays of m_batch, and m_batch is the head of m_tracks, oldest first.  The
\* answers of onTrackScrobbleReturn() are matched to m_batch by position alone,
\* and remove(m_batch) clears the cache, so both rest on this.
InFlightIsHead ==
    scrobbleReply # Nothing =>
        /\ \E r \in wire : wire = {r} /\ r.payload = scrobbleReply
        /\ DOMAIN batch = DOMAIN scrobbleReply
        /\ \A p \in DOMAIN batch :
             /\ p \in DOMAIN queue /\ batch[p] = queue[p]
             /\ \A q \in DOMAIN queue \ DOMAIN batch : p < q

\* The file lists the plays of m_tracks whenever no slot is running, and tells
\* each one's song: what a restart reads is what the cache held.
DiskMatchesQueue ==
    proc = "running" =>
        /\ DOMAIN disk = DOMAIN queue
        /\ \A p \in DOMAIN queue : disk[p].song = data[queue[p]].song

\* A play whose POST came back answered or refused is in neither the list nor
\* the file, so that no later submit() and no restart sends it again.
SettledNeverResent == settled \cap (DOMAIN queue \cup DOMAIN disk) = {}

\* Nothing else makes a play leave: a valid track that was handed over is in the
\* file until a POST with its song came back answered or refused, whatever is
\* retried, replaced or restarted, unless a crash tore the file.
UnsettledSongsAreKept ==
    \A p \in Plays \ (lost \cup DOMAIN disk) :
        handed[p].valid => \E r \in settled : handed[r].song = handed[p].song

\* A track of the application that is in the list shows Cached: the answer is set
\* on the shared TrackData and the removal is by equality, so no copy of an
\* answered track stays behind.  Tracks read from the file are no such promise:
\* cacheBatch() writes them before it marks them, and a restart brings the older
\* status back, even Error or Submitted of a track that was handed over again.
CachedWhileQueued ==
    proc = "running" =>
        \A p \in DOMAIN queue :
            queue[p] \in held => data[queue[p]].status = "Cached"

\* A track that shows Submitted was recorded by the server, under some timestamp.
SubmittedIsRecorded ==
    \A o \in DOMAIN data : data[o].status = "Submitted" =>
        \E s \in recorded : s.song = data[o].song

\* What a Track shows of its scrobbling is true of the list and of the server.
StatusIsTrue == CachedWhileQueued /\ SubmittedIsRecorded

\* The reply that blocks submit() is given back in the end.
ReplyReleased == scrobbleReply # Nothing ~> scrobbleReply = Nothing

\* With a server that does not put the client off, every play in the list leaves
\* it, or else the scrobbler falls silent for good: onTrackScrobbleReturn() does
\* not call submit(), so what is behind a batch waits for a call from outside.
\* It is never passed over for ever while batches go out.
LeaveOrSilence ==
    \A p \in 1..MaxPlays :
        p \in DOMAIN queue ~> p \notin DOMAIN queue \/ [](scrobbleReply = Nothing)

\* The cache does not stop on its own, neither for a reply nor for the plays
\* behind a batch.
CacheDrains == ReplyReleased /\ LeaveOrSilence

\* The file and the reply that is awaited, and nothing but them, decide what is
\* sent again and what is gone: with m_tracks, m_batch, the Track objects and the
\* server around them they behave as the outbox that Outbox specifies.
Delivery == INSTANCE Outbox WITH
                waiting <- DOMAIN disk,
                sending <- DOMAIN scrobbleReply
DeliversInOrder == Delivery!Spec

=============================================================================
