------------------------------ MODULE RadioTuner ------------------------------
(****************************************************************************)
(* RadioTuner: the playlists it queues, the radio.tune and radio.getPlaylist*)
(* calls it has under way, its retry counter and its two-second timer; the  *)
(* expiry timers of the Xspf playlists; and what ws::parse() makes of an    *)
(* answer.  One thread: an action is one slot or one public method.         *)
(****************************************************************************)
EXTENDS Naturals, Sequences, FiniteSets, SequencesExt

CONSTANTS
    Stations,          \* stations the application tunes to
    Previous,          \* the station the user's session was tuned to before
    MaxAttempts,       \* MAX_TUNING_ATTEMPTS
    Bodies,            \* what answers may be, see Answers
    PlaylistSizes,     \* numbers of tracks in a playlist that is not empty
    MaxWire,           \* bound: calls under way when the application adds one
    MaxXspfs,          \* bound: Xspf objects alive
    MayRetune,         \* whether retune() is called
    MayReplaceNam      \* whether setNetworkAccessManager() is called

\* "ok" parses; "error" is a ParseError; "raw" makes parse() throw a bare enum:
\* an empty body, or a network error under a body that parses.
Answers == {"ok", "error", "raw"}

ASSUME RadioAssumption ==
    /\ Previous \notin Stations
    /\ MaxAttempts \in Nat
    /\ Bodies \subseteq Answers
    /\ PlaylistSizes \subseteq Nat \ {0}
    /\ MaxWire \in Nat /\ MaxXspfs \in Nat
    /\ MayRetune \in BOOLEAN /\ MayReplaceNam \in BOOLEAN

VARIABLES
    alive,      \* FALSE once std::unexpected() has ended the process
    queue,      \* m_playlistQueue
    retries,    \* m_retry_counter, counted no further than MaxAttempts + 1
    fetching,   \* m_fetchingPlaylist
    requested,  \* m_requestedPlaylist
    timer,      \* m_twoSecondTimer->isActive()
    wire,       \* the calls under way
    xspfs,      \* the Xspf objects whose expiry timer runs
    tuned,      \* server: the station of the user's session
    chosen,     \* history: the station the application tuned to last
    empties,    \* history: empty playlists in a row, counted to MaxAttempts + 3
    signal      \* history: what the application last heard

vars == <<alive, queue, retries, fetching, requested, timer, wire, xspfs, tuned,
          chosen, empties, signal>>

Signals == {"nothing", "null track", "trackAvailable", "error", "NotEnoughContent"}
CallIds == 1..(MaxWire + 2)
Calls == [id: CallIds, method: {"tune", "getPlaylist"},
          station: Stations \cup {Previous}, served: BOOLEAN]
Playlists == [id: 1..MaxXspfs, left: Nat \ {0}, station: Stations \cup {Previous}]

FreeId(ids, used) == CHOOSE i \in ids : i \notin used
Capped(n, cap) == IF n > cap THEN cap ELSE n

\* ws::post() of one call.
Posted(calls, method, station) ==
    calls \cup {[id |-> FreeId(CallIds, {c.id : c \in calls}), method |-> method,
                 station |-> station, served |-> FALSE]}

----------------------------------------------------------------------------
\* Seeded bugs of fetchFiveMoreTracks(): a request while the timer runs is
\* forgotten; m_fetchingPlaylist is not only set by a post.
FetchForgets(calls, ticking) ==
    IF ~ticking
    THEN /\ wire' = Posted(calls, "getPlaylist", Previous)
         /\ fetching' = TRUE /\ requested' = requested
    ELSE /\ wire' = calls /\ UNCHANGED <<fetching, requested>>
FetchMarks(calls, ticking) ==
    /\ fetching' = TRUE
    /\ IF ~ticking
       THEN wire' = Posted(calls, "getPlaylist", Previous) /\ UNCHANGED requested
       ELSE wire' = calls /\ requested' = TRUE

\* fetchFiveMoreTracks() when the calls under way are `calls' and `ticking' tells
\* whether the timer is active.
Fetch(calls, ticking) ==
    IF ~ticking
    THEN /\ wire' = Posted(calls, "getPlaylist", Previous)
         /\ fetching' = TRUE /\ UNCHANGED requested
    ELSE /\ wire' = calls
         /\ requested' = TRUE /\ UNCHANGED fetching

\* The constructor: without a station it fetches at once, else it tunes.
Init ==
    /\ alive = TRUE /\ queue = <<>> /\ retries = 0
    /\ requested = FALSE /\ timer = FALSE /\ xspfs = {}
    /\ tuned = Previous
    /\ empties = 0 /\ signal = "nothing"
    /\ \/ /\ chosen = Previous
          /\ fetching = TRUE
          /\ wire = Posted({}, "getPlaylist", Previous)
       \/ /\ chosen \in Stations
          /\ fetching = FALSE
          /\ wire = Posted({}, "tune", chosen)

\* retune(): the queue goes, nothing under way is cancelled and no flag reset.
Retune(station) ==
    /\ alive /\ MayRetune /\ Cardinality(wire) < MaxWire
    /\ queue' = <<>>
    /\ wire' = Posted(wire, "tune", station)
    /\ chosen' = station
    /\ UNCHANGED <<alive, retries, fetching, requested, timer, xspfs, tuned, empties, signal>>

\* The server takes a call: a tune moves the session, a playlist is cut for the
\* station the session is at.
Serve(c) ==
    /\ ~c.served
    /\ tuned' = IF c.method = "tune" THEN c.station ELSE tuned
    /\ wire' = (wire \ {c}) \cup {[id |-> c.id, method |-> c.method,
                                    station |-> tuned', served |-> TRUE]}
    /\ UNCHANGED <<alive, queue, retries, fetching, requested, timer, xspfs, chosen,
                   empties, signal>>

\* onTuneReturn().
OnTuneReturn(c, body) ==
    /\ alive
    /\ c.method = "tune"
    /\ \/ /\ body = "ok" /\ c.served
          /\ Fetch(wire \ {c}, timer)
          /\ UNCHANGED <<alive, signal>>
       \/ /\ body = "error"
          /\ signal' = "error"
          /\ wire' = wire \ {c}
          /\ UNCHANGED <<alive, fetching, requested>>
       \/ /\ body = "raw"
          /\ alive' = FALSE
          /\ wire' = wire \ {c}
          /\ UNCHANGED <<fetching, requested, signal>>
    /\ UNCHANGED <<queue, retries, timer, xspfs, tuned, chosen, empties>>

\* Seeded bug of onGetPlaylistReturn(): m_retry_counter is not reset.
PlaylistKeepsCount(c, size) ==
    LET x == FreeId(1..MaxXspfs, xspfs)
    IN  /\ xspfs' = xspfs \cup {x}
        /\ queue' = Append(queue, [id |-> x, left |-> size, station |-> c.station])
        /\ empties' = 0
        /\ UNCHANGED retries
        /\ signal' = "trackAvailable"
        /\ wire' = wire \ {c}
        /\ UNCHANGED requested

\* A playlist with tracks joins the queue and ends the row of empty ones.
PlaylistArrives(c, size) ==
    LET x == FreeId(1..MaxXspfs, xspfs)
    IN  /\ xspfs' = xspfs \cup {x}
        /\ queue' = Append(queue, [id |-> x, left |-> size, station |-> c.station])
        /\ empties' = 0
        /\ retries' = 0
        /\ signal' = "trackAvailable"
        /\ wire' = wire \ {c}
        /\ UNCHANGED requested

\* Seeded bug of onGetPlaylistReturn(): empty playlists are queued as well.
EmptyIsQueued(c) ==
    LET x == FreeId(1..MaxXspfs, xspfs)
    IN  /\ xspfs' = xspfs \cup {x}
        /\ queue' = Append(queue, [id |-> x, left |-> 0, station |-> c.station])
        /\ empties' = Capped(empties + 1, MaxAttempts + 3)
        /\ signal' = "trackAvailable"
        /\ wire' = wire \ {c}
        /\ UNCHANGED <<retries, requested>>

\* An empty one, whose Xspf object and expiry timer live on: tryAgain(), which
\* finds the timer running, or give up.
EmptyArrives(c) ==
    /\ xspfs' = xspfs \cup {FreeId(1..MaxXspfs, xspfs)}
    /\ empties' = Capped(empties + 1, MaxAttempts + 3)
    /\ retries' = Capped(retries + 1, MaxAttempts + 1)
    /\ IF retries + 1 > MaxAttempts
       THEN signal' = "NotEnoughContent" /\ UNCHANGED requested
       ELSE requested' = TRUE /\ UNCHANGED signal
    /\ wire' = wire \ {c}
    /\ UNCHANGED queue

\* onGetPlaylistReturn(): the timer and the flag come first, whatever the body.
OnGetPlaylistReturn(c, body) ==
    /\ alive
    /\ c.method = "getPlaylist"
    /\ timer' = TRUE
    /\ fetching' = FALSE
    /\ \/ /\ body = "ok" /\ c.served
          /\ Cardinality(xspfs) < MaxXspfs
          /\ (\E size \in PlaylistSizes : PlaylistArrives(c, size)) \/ EmptyArrives(c)
          /\ UNCHANGED alive
       \/ /\ body = "error"
          /\ signal' = "error"
          /\ wire' = wire \ {c}
          /\ UNCHANGED <<alive, queue, retries, requested, xspfs, empties>>
       \/ /\ body = "raw"
          /\ alive' = FALSE
          /\ wire' = wire \ {c}
          /\ UNCHANGED <<queue, retries, requested, xspfs, empties, signal>>
    /\ UNCHANGED <<tuned, chosen>>

\* Seeded bug of onTwoSecondTimeout(): m_requestedPlaylist is not reset.
TimeoutKeepsRequest ==
    /\ alive
    /\ timer
    /\ timer' = FALSE
    /\ IF requested
       THEN /\ wire' = Posted(wire, "getPlaylist", Previous)
            /\ fetching' = TRUE
       ELSE UNCHANGED <<wire, fetching>>
    /\ UNCHANGED <<alive, queue, retries, requested, xspfs, tuned, chosen, empties, signal>>

\* onTwoSecondTimeout(): a single-shot timer is no longer active in its slot.
OnTwoSecondTimeout ==
    /\ alive
    /\ timer
    /\ timer' = FALSE
    /\ IF requested
       THEN /\ requested' = FALSE
            /\ wire' = Posted(wire, "getPlaylist", Previous)
            /\ fetching' = TRUE
       ELSE UNCHANGED <<wire, fetching, requested>>
    /\ UNCHANGED <<alive, queue, retries, xspfs, tuned, chosen, empties, signal>>

\* Seeded bug of onXspfExpired(): the oldest playlist goes, not the sender.
WithoutFirst(x) == IF queue = <<>> THEN queue ELSE Tail(queue)

\* takeAt(indexOf(sender())): the queue without playlist x, which may long have
\* been drained or dropped by retune().
Without(x) ==
    IF \E i \in DOMAIN queue : queue[i].id = x
    THEN RemoveAt(queue, CHOOSE i \in DOMAIN queue : queue[i].id = x)
    ELSE queue

\* onXspfExpired().
OnXspfExpired(x) ==
    /\ alive
    /\ x \in xspfs
    /\ xspfs' = xspfs \ {x}
    /\ queue' = Without(x)
    /\ UNCHANGED <<alive, retries, fetching, requested, timer, wire, tuned, chosen,
                   empties, signal>>

\* takeNextTrack() on an empty queue: a null track, and a fetch unless one is on.
TakeNothing ==
    /\ alive /\ Cardinality(wire) < MaxWire
    /\ queue = <<>>
    /\ signal' = "null track"
    /\ IF fetching THEN UNCHANGED <<wire, fetching, requested>> ELSE Fetch(wire, timer)
    /\ UNCHANGED <<alive, queue, retries, timer, xspfs, tuned, chosen, empties>>

\* takeNextTrack() otherwise: the first track of the first playlist; a drained
\* playlist leaves, and after the last one more tracks are fetched.
TakeTrack ==
    LET first == queue[1]
        rest  == IF first.left = 1 THEN Tail(queue)
                 ELSE [queue EXCEPT ![1].left = first.left - 1]
    IN  /\ alive /\ Cardinality(wire) < MaxWire
        /\ queue # <<>>
        /\ queue' = rest
        /\ IF rest = <<>> THEN Fetch(wire, timer)
                          ELSE UNCHANGED <<wire, fetching, requested>>
        /\ UNCHANGED <<alive, retries, timer, xspfs, tuned, chosen, empties, signal>>

\* setNetworkAccessManager(): the calls under way are deleted, no slot runs.
ReplaceNam ==
    /\ alive /\ MayReplaceNam
    /\ wire # {}
    /\ wire' = {}
    /\ UNCHANGED <<alive, queue, retries, fetching, requested, timer, xspfs, tuned, chosen,
                   empties, signal>>

AppStep == (\E s \in Stations : Retune(s)) \/ TakeNothing \/ TakeTrack

Returns(id) ==
    \E c \in wire : /\ c.id = id
                    /\ \/ Serve(c)
                       \/ \E body \in Bodies :
                            OnTuneReturn(c, body) \/ OnGetPlaylistReturn(c, body)

Next ==
    \/ AppStep
    \/ \E id \in CallIds : Returns(id)
    \/ OnTwoSecondTimeout
    \/ \E x \in 1..MaxXspfs : OnXspfExpired(x)
    \/ ReplaceNam

Spec == Init /\ [][Next]_vars

\* Every call is served and answered in the end, and timers fire.
Fairness ==
    /\ \A id \in CallIds : WF_vars(Returns(id))
    /\ WF_vars(OnTwoSecondTimeout)
    /\ \A x \in 1..MaxXspfs : WF_vars(OnXspfExpired(x))

FairSpec == Spec /\ Fairness

----------------------------------------------------------------------------
(* Properties *)

\* Every variable stays in its type; the playlists of the queue have tracks, so
\* that takeNextTrack() never takes the first track of an empty playlist.
TypeOK ==
    /\ alive \in BOOLEAN /\ fetching \in BOOLEAN /\ requested \in BOOLEAN /\ timer \in BOOLEAN
    /\ queue \in Seq(Playlists)
    /\ retries \in 0..MaxAttempts + 1
    /\ wire \subseteq Calls
    /\ xspfs \subseteq 1..MaxXspfs
    /\ tuned \in Stations \cup {Previous} /\ chosen \in Stations \cup {Previous}
    /\ empties \in 0..MaxAttempts + 3
    /\ signal \in Signals

\* m_fetchingPlaylist keeps takeNextTrack() from fetching, so it is only ever set
\* while an answer that resets it is still to come.  This is lost when the network
\* manager is replaced: the flag stays set and the tuner waits for good.
FetchingHasCall ==
    fetching /\ ~MayReplaceNam => \E c \in wire : c.method = "getPlaylist"

\* A request put off is one the running timer will take up.
RequestWaitsForTimer == requested => timer

\* The queue holds no playlist past its expiry: each one's own timer still runs,
\* whatever was drained, dropped by retune() or appended in between.
ExpiredPlaylistsAreGone ==
    /\ \A i \in DOMAIN queue : queue[i].id \in xspfs
    /\ \A i, j \in DOMAIN queue : queue[i].id = queue[j].id => i = j

\* NotEnoughContent is only told after more than MAX_TUNING_ATTEMPTS empty
\* playlists in a row, over retunes, errors and drained playlists.
GivesUpAfterAttempts == signal = "NotEnoughContent" => empties > MaxAttempts

\* A player that was given a null track hears of tracks or of an error in the end.
StarvedIsServed == signal = "null track" ~> signal # "null track"

----------------------------------------------------------------------------
(* What the repository says of the program and the program does not do *)

\* ws.h: parse() is declared throw( ParseError ), which the tuner catches.
NeverTerminated == alive

=============================================================================
