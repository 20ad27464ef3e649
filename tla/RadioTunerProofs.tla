--------------------------- MODULE RadioTunerProofs ---------------------------
(* Theorems about RadioTuner for every value of its constants.                *)
EXTENDS RadioTuner, FiniteSetTheorems, SequenceTheorems, TLAPS

IsCall(c) == c = [id |-> c.id, method |-> c.method, station |-> c.station,
                  served |-> c.served]

\* The calls are calls, and m_retry_counter counts the empty playlists in a row,
\* each counter up to its own cap.
Counted ==
    /\ empties \in Nat
    /\ retries = Capped(empties, MaxAttempts + 1)

CallsOK == \A c \in wire : IsCall(c)

IInv ==
    /\ CallsOK /\ requested \in BOOLEAN
    /\ Counted
    /\ RequestWaitsForTimer /\ FetchingHasCall /\ GivesUpAfterAttempts

----------------------------------------------------------------------------
(* fetchFiveMoreTracks() *)

\* A post adds one call of its method.
LEMMA PostedAddsACall ==
    ASSUME NEW calls, NEW method, NEW station
    PROVE  \E new : /\ IsCall(new) /\ new.method = method
                    /\ Posted(calls, method, station) = calls \cup {new}
<1> DEFINE new == [id |-> FreeId(CallIds, {c.id : c \in calls}), method |-> method,
                   station |-> station, served |-> FALSE]
<1>1. IsCall(new) /\ new.method = method
  BY DEF IsCall
<1>2. Posted(calls, method, station) = calls \cup {new}
  BY DEF Posted
<1> QED
  BY <1>1, <1>2

\* Whatever calls are under way, a fetch either posts a radio.getPlaylist and
\* sets the flag, or puts the request off to the running timer.
LEMMA FetchPosts ==
    ASSUME NEW calls, \A c \in calls : IsCall(c),
           Fetch(calls, timer),
           requested \in BOOLEAN, RequestWaitsForTimer
    PROVE  /\ CallsOK'
           /\ calls \subseteq wire'
           /\ requested' \in BOOLEAN
           /\ requested' => timer
           /\ fetching' = fetching \/ \E c \in wire' : c.method = "getPlaylist"
<1>1. CASE ~timer
  <2>1. /\ wire' = Posted(calls, "getPlaylist", Previous)
        /\ fetching' = TRUE /\ requested' = requested
    BY <1>1 DEF Fetch
  <2>2. PICK new : IsCall(new) /\ new.method = "getPlaylist" /\ wire' = calls \cup {new}
    BY <2>1, PostedAddsACall
  <2>3. CallsOK'
    BY <2>2 DEF CallsOK
  <2> QED
    BY <1>1, <2>1, <2>2, <2>3 DEF RequestWaitsForTimer
<1>2. CASE timer
  BY <1>2 DEF Fetch, CallsOK
<1> QED
  BY <1>1, <1>2

\* A slot that ends the call c keeps the flag's promise when c is not a
\* radio.getPlaylist.
LEMMA OthersStay ==
    ASSUME NEW c \in wire, c.method = "tune", NEW calls, wire \ {c} \subseteq calls
    PROVE  (\E x \in wire : x.method = "getPlaylist")
             => \E x \in calls : x.method = "getPlaylist"
<1> SUFFICES ASSUME NEW x \in wire, x.method = "getPlaylist"
             PROVE  \E y \in calls : y.method = "getPlaylist"
  OBVIOUS
<1>1. x # c
  OBVIOUS
<1> QED
  BY <1>1

----------------------------------------------------------------------------
(* The steps *)

LEMMA InitInv == Init => IInv
<1> SUFFICES ASSUME Init PROVE IInv
  OBVIOUS
<1>1. CallsOK /\ FetchingHasCall
  <2>1. CASE fetching = TRUE /\ wire = Posted({}, "getPlaylist", Previous)
    <3>1. PICK new : IsCall(new) /\ new.method = "getPlaylist" /\ wire = {new}
      BY <2>1, PostedAddsACall
    <3> QED
      BY <3>1 DEF CallsOK, FetchingHasCall
  <2>2. CASE fetching = FALSE /\ wire = Posted({}, "tune", chosen)
    <3>1. PICK new : IsCall(new) /\ wire = {new}
      BY <2>2, PostedAddsACall
    <3> QED
      BY <2>2, <3>1 DEF CallsOK, FetchingHasCall
  <2> QED
    BY <2>1, <2>2 DEF Init
<1>2. Counted
  BY RadioAssumption DEF Init, Counted, Capped
<1>3. requested \in BOOLEAN /\ RequestWaitsForTimer /\ GivesUpAfterAttempts
  BY DEF Init, RequestWaitsForTimer, GivesUpAfterAttempts
<1> QED
  BY <1>1, <1>2, <1>3 DEF IInv

LEMMA RetuneInv ==
    ASSUME IInv, NEW station \in Stations, Retune(station)
    PROVE  IInv'
<1>1. CallsOK' /\ wire \subseteq wire'
  <2>1. PICK new : IsCall(new) /\ wire' = wire \cup {new}
    BY PostedAddsACall DEF Retune
  <2> QED
    BY <2>1 DEF IInv, CallsOK
<1>2. FetchingHasCall'
  BY <1>1 DEF IInv, Retune, FetchingHasCall
<1> QED
  BY <1>1, <1>2 DEF IInv, Retune, Counted, RequestWaitsForTimer, GivesUpAfterAttempts

\* Serving a call changes neither its method nor what the tuner knows.
LEMMA ServeInv ==
    ASSUME IInv, NEW c \in wire, Serve(c)
    PROVE  IInv'
<1> DEFINE d == [id |-> c.id, method |-> c.method, station |-> tuned', served |-> TRUE]
<1>1. wire' = (wire \ {c}) \cup {d}
  BY DEF Serve
<1>2. IsCall(d) /\ d.method = c.method
  BY DEF IsCall
<1>3. CallsOK'
  BY <1>1, <1>2 DEF IInv, CallsOK
<1>4. FetchingHasCall'
  <2> SUFFICES ASSUME fetching', ~MayReplaceNam
               PROVE  \E x \in wire' : x.method = "getPlaylist"
    BY DEF FetchingHasCall
  <2>1. PICK x \in wire : x.method = "getPlaylist"
    BY DEF IInv, Serve, FetchingHasCall
  <2>2. CASE x = c
    BY <1>1, <1>2, <2>1, <2>2
  <2>3. CASE x # c
    BY <1>1, <2>1, <2>3
  <2> QED
    BY <2>2, <2>3
<1> QED
  BY <1>3, <1>4 DEF IInv, Serve, Counted, RequestWaitsForTimer, GivesUpAfterAttempts

LEMMA OnTuneReturnInv ==
    ASSUME IInv, NEW c \in wire, NEW body \in Bodies, OnTuneReturn(c, body)
    PROVE  IInv'
<1>1. /\ c.method = "tune"
      /\ UNCHANGED <<queue, retries, timer, xspfs, tuned, chosen, empties>>
      /\ signal' \in {signal, "error"}
  BY DEF OnTuneReturn
<1>2. \A x \in wire \ {c} : IsCall(x)
  BY DEF IInv, CallsOK
<1>3. /\ CallsOK' /\ wire \ {c} \subseteq wire'
      /\ requested' \in BOOLEAN /\ (requested' => timer)
      /\ fetching' = fetching \/ \E x \in wire' : x.method = "getPlaylist"
  <2>1. CASE Fetch(wire \ {c}, timer)
    BY <1>2, <2>1, FetchPosts DEF IInv
  <2>2. CASE wire' = wire \ {c} /\ UNCHANGED <<fetching, requested>>
    BY <1>2, <2>2 DEF IInv, CallsOK, RequestWaitsForTimer
  <2> QED
    BY <2>1, <2>2 DEF OnTuneReturn
<1>4. FetchingHasCall'
  BY <1>1, <1>3, OthersStay DEF IInv, FetchingHasCall
<1>5. RequestWaitsForTimer' /\ GivesUpAfterAttempts' /\ Counted'
  BY <1>1, <1>3 DEF IInv, RequestWaitsForTimer, GivesUpAfterAttempts, Counted
<1> QED
  BY <1>3, <1>4, <1>5 DEF IInv

\* The slot resets the flag and starts the timer; an empty playlist is counted
\* on both counters, one with tracks resets both.
LEMMA OnGetPlaylistReturnInv ==
    ASSUME IInv, NEW c \in wire, NEW body \in Bodies, OnGetPlaylistReturn(c, body)
    PROVE  IInv'
<1>1. timer' = TRUE /\ fetching' = FALSE
  BY DEF OnGetPlaylistReturn
<1>2. FetchingHasCall' /\ RequestWaitsForTimer'
  BY <1>1 DEF FetchingHasCall, RequestWaitsForTimer
<1>3. ASSUME NEW size \in PlaylistSizes, PlaylistArrives(c, size)
      PROVE  IInv'
  <2>1. /\ empties' = 0 /\ retries' = 0 /\ signal' = "trackAvailable"
        /\ wire' = wire \ {c} /\ requested' = requested
    BY <1>3 DEF PlaylistArrives
  <2>2. Counted'
    BY <2>1, RadioAssumption DEF Counted, Capped
  <2> QED
    BY <1>2, <2>1, <2>2 DEF IInv, CallsOK, GivesUpAfterAttempts
<1>4. CASE EmptyArrives(c)
  <2>1. /\ empties' = Capped(empties + 1, MaxAttempts + 3)
        /\ retries' = Capped(retries + 1, MaxAttempts + 1)
        /\ wire' = wire \ {c}
    BY <1>4 DEF EmptyArrives
  <2>2. requested' \in BOOLEAN
    BY <1>4 DEF EmptyArrives, IInv
  <2>3. Counted'
    BY <2>1, RadioAssumption DEF IInv, Counted, Capped
  <2>4. GivesUpAfterAttempts'
    BY <1>4, <2>1, RadioAssumption
    DEF IInv, Counted, Capped, GivesUpAfterAttempts, EmptyArrives
  <2> QED
    BY <1>2, <2>1, <2>2, <2>3, <2>4 DEF IInv, CallsOK
<1>5. CASE /\ wire' = wire \ {c} /\ UNCHANGED <<retries, requested, empties>>
           /\ signal' \in {signal, "error"}
  BY <1>2, <1>5 DEF IInv, CallsOK, Counted, GivesUpAfterAttempts
<1> QED
  BY <1>3, <1>4, <1>5 DEF OnGetPlaylistReturn

LEMMA OnTwoSecondTimeoutInv ==
    ASSUME IInv, OnTwoSecondTimeout
    PROVE  IInv'
<1>1. requested' = FALSE
  BY DEF IInv, OnTwoSecondTimeout
<1>2. CallsOK' /\ FetchingHasCall'
  <2>1. CASE requested
    <3>1. PICK new : IsCall(new) /\ new.method = "getPlaylist" /\ wire' = wire \cup {new}
      BY <2>1, PostedAddsACall DEF OnTwoSecondTimeout
    <3> QED
      BY <3>1 DEF IInv, CallsOK, FetchingHasCall
  <2>2. CASE ~requested
    BY <2>2 DEF IInv, OnTwoSecondTimeout, CallsOK, FetchingHasCall
  <2> QED
    BY <2>1, <2>2
<1> QED
  BY <1>1, <1>2
  DEF IInv, OnTwoSecondTimeout, Counted, RequestWaitsForTimer, GivesUpAfterAttempts

\* takeNextTrack() fetches or leaves the calls alone.
LEMMA TakeInv ==
    ASSUME IInv, TakeNothing \/ TakeTrack
    PROVE  IInv'
<1>1. /\ UNCHANGED <<retries, timer, empties>>
      /\ signal' \in {signal, "null track"}
  BY DEF TakeNothing, TakeTrack
<1>2. Fetch(wire, timer) \/ UNCHANGED <<wire, fetching, requested>>
  BY DEF TakeNothing, TakeTrack
<1>3. /\ CallsOK' /\ wire \subseteq wire'
      /\ requested' \in BOOLEAN /\ (requested' => timer)
      /\ fetching' = fetching \/ \E x \in wire' : x.method = "getPlaylist"
  <2>1. CASE Fetch(wire, timer)
    <3>1. \A x \in wire : IsCall(x)
      BY DEF IInv, CallsOK
    <3> QED
      BY <2>1, <3>1, FetchPosts DEF IInv
  <2>2. CASE UNCHANGED <<wire, fetching, requested>>
    BY <2>2 DEF IInv, CallsOK, RequestWaitsForTimer
  <2> QED
    BY <1>2, <2>1, <2>2
<1>4. FetchingHasCall'
  BY <1>3 DEF IInv, FetchingHasCall
<1> QED
  BY <1>1, <1>3, <1>4
  DEF IInv, Counted, RequestWaitsForTimer, GivesUpAfterAttempts

LEMMA OnXspfExpiredInv ==
    ASSUME IInv, NEW x \in xspfs, OnXspfExpired(x)
    PROVE  IInv'
BY DEF IInv, OnXspfExpired, CallsOK, Counted, RequestWaitsForTimer, FetchingHasCall,
       GivesUpAfterAttempts

\* Without MayReplaceNam this step does not occur, so the flag keeps its promise.
LEMMA ReplaceNamInv ==
    ASSUME IInv, ReplaceNam
    PROVE  IInv'
BY DEF IInv, ReplaceNam, CallsOK, Counted, RequestWaitsForTimer, FetchingHasCall,
       GivesUpAfterAttempts

LEMMA NextInv == IInv /\ [Next]_vars => IInv'
<1> SUFFICES ASSUME IInv, [Next]_vars PROVE IInv'
  OBVIOUS
<1>1. CASE AppStep
  BY <1>1, RetuneInv, TakeInv DEF AppStep
<1>2. ASSUME NEW id \in CallIds, Returns(id)
      PROVE  IInv'
  BY <1>2, ServeInv, OnTuneReturnInv, OnGetPlaylistReturnInv DEF Returns
<1>3. CASE OnTwoSecondTimeout
  BY <1>3, OnTwoSecondTimeoutInv
<1>4. ASSUME NEW x \in 1..MaxXspfs, OnXspfExpired(x)
      PROVE  IInv'
  BY <1>4, OnXspfExpiredInv DEF OnXspfExpired
<1>5. CASE ReplaceNam
  BY <1>5, ReplaceNamInv
<1>6. CASE UNCHANGED vars
  BY <1>6 DEF vars, IInv, CallsOK, Counted, RequestWaitsForTimer, FetchingHasCall,
              GivesUpAfterAttempts
<1> QED
  BY <1>1, <1>2, <1>3, <1>4, <1>5, <1>6 DEF Next

LEMMA Invariance == Spec => []IInv
BY InitInv, NextInv, PTL DEF Spec

----------------------------------------------------------------------------
(* Types, and the playlists of the queue *)

\* The application leaves room for the call that the running timer may post: an
\* identifier is always free.
CallsFit ==
    /\ IsFiniteSet(wire)
    /\ Cardinality(wire) \in Nat /\ Cardinality(wire) <= MaxWire + 1
    /\ timer => Cardinality(wire) <= MaxWire

TInv == TypeOK /\ CallsFit /\ ExpiredPlaylistsAreGone

\* FreeId finds one where not all are used.
LEMMA FreeIdIsFree ==
    ASSUME NEW ids, NEW used, IsFiniteSet(ids), IsFiniteSet(used),
           Cardinality(used) < Cardinality(ids)
    PROVE  FreeId(ids, used) \in ids \ used
<1>1. \E i \in ids : i \notin used
  <2> SUFFICES ASSUME ids \subseteq used
               PROVE  FALSE
    OBVIOUS
  <2>1. Cardinality(ids) <= Cardinality(used)
    BY FS_Subset
  <2>2. Cardinality(ids) \in Nat /\ Cardinality(used) \in Nat
    BY FS_CardinalityType
  <2> QED
    BY <2>1, <2>2
<1> QED
  BY <1>1 DEF FreeId

\* A post adds a call of its type while at most MaxWire are under way.
LEMMA PostedFits ==
    ASSUME NEW calls, calls \subseteq Calls, IsFiniteSet(calls),
           Cardinality(calls) <= MaxWire,
           NEW method \in {"tune", "getPlaylist"},
           NEW station \in Stations \cup {Previous}
    PROVE  /\ Posted(calls, method, station) \subseteq Calls
           /\ IsFiniteSet(Posted(calls, method, station))
           /\ Cardinality(Posted(calls, method, station)) <= Cardinality(calls) + 1
<1> DEFINE used == {c.id : c \in calls}
           f    == [c \in calls |-> c.id]
           new  == [id |-> FreeId(CallIds, used), method |-> method,
                    station |-> station, served |-> FALSE]
<1>1. f \in Surjection(calls, used)
  BY DEF Surjection
<1>2. IsFiniteSet(used) /\ Cardinality(used) <= Cardinality(calls)
  BY <1>1, FS_Surjection
<1>3. IsFiniteSet(CallIds) /\ Cardinality(CallIds) = MaxWire + 2
  BY RadioAssumption, FS_Interval DEF CallIds
<1>4. Cardinality(used) \in Nat /\ Cardinality(calls) \in Nat
  BY <1>2, FS_CardinalityType
<1>5. FreeId(CallIds, used) \in CallIds
  BY <1>2, <1>3, <1>4, FreeIdIsFree, RadioAssumption
<1>6. new \in Calls
  BY <1>5 DEF Calls
<1>7. Posted(calls, method, station) = calls \cup {new}
  BY DEF Posted
<1> HIDE DEF new
<1> QED
  BY <1>4, <1>6, <1>7, FS_AddElement

\* One call fewer.
LEMMA WithoutCall ==
    ASSUME TInv, NEW c \in wire
    PROVE  /\ wire \ {c} \subseteq Calls /\ IsFiniteSet(wire \ {c})
           /\ Cardinality(wire \ {c}) = Cardinality(wire) - 1
           /\ Cardinality(wire) \in Nat /\ Cardinality(wire \ {c}) \in Nat
           /\ Cardinality(wire \ {c}) <= MaxWire
<1>1. wire \subseteq Calls /\ IsFiniteSet(wire) /\ Cardinality(wire) \in Nat
  BY DEF TInv, TypeOK, CallsFit
<1>2. IsFiniteSet(wire \ {c}) /\ Cardinality(wire \ {c}) = Cardinality(wire) - 1
  BY <1>1, FS_RemoveElement
<1>3. Cardinality(wire \ {c}) \in Nat
  BY <1>2, FS_CardinalityType
<1>4. Cardinality(wire) <= MaxWire + 1
  BY DEF TInv, CallsFit
<1> QED
  BY <1>1, <1>2, <1>3, <1>4, RadioAssumption

\* fetchFiveMoreTracks(): the call it posts has room.
LEMMA FetchFits ==
    ASSUME NEW calls, calls \subseteq Calls, IsFiniteSet(calls),
           Cardinality(calls) <= MaxWire,
           requested \in BOOLEAN, fetching \in BOOLEAN, timer \in BOOLEAN,
           Fetch(calls, timer), timer' = timer
    PROVE  /\ wire' \subseteq Calls /\ CallsFit'
           /\ requested' \in BOOLEAN /\ fetching' \in BOOLEAN
<1>0. Cardinality(calls) \in Nat
  BY FS_CardinalityType
<1>1. CASE ~timer
  <2>1. wire' = Posted(calls, "getPlaylist", Previous)
    BY <1>1 DEF Fetch
  <2>2. wire' \subseteq Calls /\ IsFiniteSet(wire') /\ Cardinality(wire') <= MaxWire + 1
    <3>1. /\ wire' \subseteq Calls /\ IsFiniteSet(wire')
          /\ Cardinality(wire') <= Cardinality(calls) + 1
      BY <2>1, PostedFits
    <3>2. Cardinality(wire') \in Nat
      BY <3>1, FS_CardinalityType
    <3> QED
      BY <1>0, <3>1, <3>2, RadioAssumption
  <2>3. requested' \in BOOLEAN /\ fetching' \in BOOLEAN
    BY <1>1 DEF Fetch
  <2>4. Cardinality(wire') \in Nat
    BY <2>2, FS_CardinalityType
  <2> QED
    BY <1>1, <2>2, <2>3, <2>4, RadioAssumption DEF CallsFit
<1>2. CASE timer
  <2>1. wire' = calls /\ requested' = TRUE /\ fetching' = fetching
    BY <1>2 DEF Fetch
  <2> QED
    BY <1>0, <1>2, <2>1, RadioAssumption DEF CallsFit
<1> QED
  BY <1>1, <1>2

\* takeAt(): a queue without one of its playlists is made of the others, once each.
LEMMA WithoutPlaylist ==
    ASSUME queue \in Seq(Playlists), ExpiredPlaylistsAreGone, NEW x
    PROVE  /\ Without(x) \in Seq(Playlists)
           /\ \A i \in DOMAIN Without(x) : Without(x)[i].id \in xspfs \ {x}
           /\ \A i, j \in DOMAIN Without(x) :
                Without(x)[i].id = Without(x)[j].id => i = j
<1>1. CASE \E k \in DOMAIN queue : queue[k].id = x
  <2>1. PICK k \in DOMAIN queue : queue[k].id = x /\ Without(x) = RemoveAt(queue, k)
    BY <1>1 DEF Without
  <2> DEFINE n == Len(queue)
             a == SubSeq(queue, 1, k - 1)
             b == SubSeq(queue, k + 1, n)
  <2>2. n \in Nat /\ k \in 1..n /\ \A i \in 1..n : queue[i] \in Playlists
    OBVIOUS
  <2>3. /\ a \in Seq(Playlists) /\ Len(a) = k - 1
        /\ \A i \in 1..k - 1 : a[i] = queue[i]
    BY <2>2, SubSeqProperties
  <2>4. /\ b \in Seq(Playlists) /\ Len(b) = n - k
        /\ \A i \in 1..n - k : b[i] = queue[i + k]
    BY <2>2, SubSeqProperties
  <2>5. Without(x) = a \o b
    BY <2>1 DEF RemoveAt
  <2> HIDE DEF a, b, n
  <2>6. /\ Without(x) \in Seq(Playlists)
        /\ Len(Without(x)) = n - 1
        /\ \A i \in 1..n - 1 : Without(x)[i] = IF i <= k - 1 THEN a[i] ELSE b[i - (k - 1)]
    <3>1. /\ a \o b \in Seq(Playlists) /\ Len(a \o b) = Len(a) + Len(b)
          /\ \A i \in 1..Len(a) + Len(b) :
               (a \o b)[i] = IF i <= Len(a) THEN a[i] ELSE b[i - Len(a)]
      BY <2>3, <2>4, ConcatProperties
    <3>2. Len(a) + Len(b) = n - 1
      BY <2>2, <2>3, <2>4
    <3> QED
      BY <2>3, <2>5, <3>1, <3>2
  <2>7. \A i \in 1..n - 1 : Without(x)[i] = queue[IF i < k THEN i ELSE i + 1]
    <3> TAKE i \in 1..n - 1
    <3>1. CASE i < k
      BY <2>2, <2>3, <2>6, <3>1
    <3>2. CASE ~(i < k)
      <4>1. i - (k - 1) \in 1..n - k /\ (i - (k - 1)) + k = i + 1 /\ ~(i <= k - 1)
        BY <2>2, <3>2
      <4> QED
        BY <2>4, <2>6, <3>2, <4>1
    <3> QED
      BY <3>1, <3>2
  <2>8. DOMAIN Without(x) = 1..n - 1 /\ DOMAIN queue = 1..n
    BY <2>2, <2>6 DEF n
  <2>9. \A i \in 1..n - 1 : /\ (IF i < k THEN i ELSE i + 1) \in 1..n
                            /\ (IF i < k THEN i ELSE i + 1) # k
    BY <2>2
  <2>10. \A i \in DOMAIN Without(x) : Without(x)[i].id \in xspfs \ {x}
    BY <2>1, <2>2, <2>7, <2>8, <2>9 DEF ExpiredPlaylistsAreGone
  <2>11. ASSUME NEW i \in 1..n - 1, NEW j \in 1..n - 1, Without(x)[i].id = Without(x)[j].id
         PROVE  i = j
    <3>1. (IF i < k THEN i ELSE i + 1) = (IF j < k THEN j ELSE j + 1)
      BY <2>7, <2>8, <2>9, <2>11 DEF ExpiredPlaylistsAreGone
    <3> QED
      BY <2>2, <3>1
  <2> QED
    BY <2>6, <2>8, <2>10, <2>11
<1>2. CASE ~ \E k \in DOMAIN queue : queue[k].id = x
  BY <1>2 DEF Without, ExpiredPlaylistsAreGone
<1> QED
  BY <1>1, <1>2

LEMMA InitTypes == Init => TInv
<1> SUFFICES ASSUME Init PROVE TInv
  OBVIOUS
<1>1. PICK method \in {"tune", "getPlaylist"}, station \in Stations \cup {Previous} :
        wire = Posted({}, method, station)
  BY DEF Init
<1>2. /\ wire \subseteq Calls /\ IsFiniteSet(wire)
      /\ Cardinality(wire) <= 1
  BY <1>1, PostedFits, FS_EmptySet, RadioAssumption
<1>3. CallsFit
  BY <1>2, FS_CardinalityType, RadioAssumption DEF Init, CallsFit
<1>4. TypeOK
  <2>1. queue \in Seq(Playlists) /\ xspfs \subseteq 1..MaxXspfs
    BY DEF Init
  <2>2. /\ retries \in 0..MaxAttempts + 1 /\ empties \in 0..MaxAttempts + 3
        /\ signal \in Signals
    BY RadioAssumption DEF Init, Signals
  <2> QED
    BY <1>2, <2>1, <2>2 DEF Init, TypeOK
<1>5. ExpiredPlaylistsAreGone
  BY DEF Init, ExpiredPlaylistsAreGone
<1> QED
  BY <1>3, <1>4, <1>5 DEF TInv

LEMMA RetuneTypes ==
    ASSUME TInv, NEW station \in Stations, Retune(station)
    PROVE  TInv'
<1>1. Cardinality(wire) \in Nat /\ Cardinality(wire) < MaxWire
  BY FS_CardinalityType DEF TInv, CallsFit, Retune
<1>2. /\ wire' \subseteq Calls /\ IsFiniteSet(wire')
      /\ Cardinality(wire') <= Cardinality(wire) + 1
  BY <1>1, PostedFits, RadioAssumption DEF TInv, TypeOK, CallsFit, Retune
<1>3. CallsFit'
  BY <1>1, <1>2, FS_CardinalityType, RadioAssumption DEF CallsFit
<1>4. TypeOK'
  BY <1>2 DEF TInv, TypeOK, Retune
<1>5. ExpiredPlaylistsAreGone'
  BY DEF Retune, ExpiredPlaylistsAreGone
<1> QED
  BY <1>3, <1>4, <1>5 DEF TInv

LEMMA ServeTypes ==
    ASSUME TInv, NEW c \in wire, Serve(c)
    PROVE  TInv'
<1> DEFINE d == [id |-> c.id, method |-> c.method, station |-> tuned', served |-> TRUE]
<1>1. c \in Calls /\ wire' = (wire \ {c}) \cup {d}
  BY DEF TInv, TypeOK, Serve
<1>2. tuned' \in Stations \cup {Previous}
  BY <1>1 DEF TInv, TypeOK, Serve, Calls
<1>3. d \in Calls
  BY <1>1, <1>2 DEF Calls
<1> HIDE DEF d
<1>4. /\ IsFiniteSet(wire') /\ Cardinality(wire') <= Cardinality(wire)
      /\ Cardinality(wire') \in Nat
  <2>1. /\ IsFiniteSet(wire \ {c}) /\ Cardinality(wire \ {c}) = Cardinality(wire) - 1
        /\ Cardinality(wire) \in Nat
    BY WithoutCall
  <2>2. IsFiniteSet(wire') /\ Cardinality(wire') \in {Cardinality(wire) - 1, Cardinality(wire)}
    BY <1>1, <2>1, FS_AddElement
  <2> QED
    BY <2>1, <2>2, FS_CardinalityType
<1>5. CallsFit'
  BY <1>4, RadioAssumption DEF TInv, CallsFit, Serve
<1>6. TypeOK'
  BY <1>1, <1>2, <1>3 DEF TInv, TypeOK, Serve
<1>7. ExpiredPlaylistsAreGone'
  BY DEF TInv, Serve, ExpiredPlaylistsAreGone
<1> QED
  BY <1>5, <1>6, <1>7 DEF TInv

LEMMA OnTuneReturnTypes ==
    ASSUME TInv, NEW c \in wire, NEW body \in Bodies, OnTuneReturn(c, body)
    PROVE  TInv'
<1>1. /\ UNCHANGED <<queue, retries, timer, xspfs, tuned, chosen, empties>>
      /\ signal' \in {signal, "error"} /\ alive' \in BOOLEAN
  BY DEF OnTuneReturn, TInv, TypeOK
<1>2. /\ wire \ {c} \subseteq Calls /\ IsFiniteSet(wire \ {c})
      /\ Cardinality(wire \ {c}) \in Nat /\ Cardinality(wire \ {c}) <= MaxWire
  BY WithoutCall
<1>3. /\ wire' \subseteq Calls /\ CallsFit'
      /\ requested' \in BOOLEAN /\ fetching' \in BOOLEAN
  <2>1. CASE Fetch(wire \ {c}, timer)
    BY <1>1, <1>2, <2>1, FetchFits DEF TInv, TypeOK
  <2>2. CASE wire' = wire \ {c} /\ UNCHANGED <<fetching, requested>>
    BY <1>1, <1>2, <2>2, RadioAssumption DEF TInv, TypeOK, CallsFit
  <2> QED
    BY <2>1, <2>2 DEF OnTuneReturn
<1>4. TypeOK'
  BY <1>1, <1>3 DEF TInv, TypeOK, Signals
<1>5. ExpiredPlaylistsAreGone'
  BY <1>1 DEF TInv, ExpiredPlaylistsAreGone
<1> QED
  BY <1>3, <1>4, <1>5 DEF TInv

\* A new Xspf object is none of those alive, so its playlist is none of the queue's.
LEMMA OnGetPlaylistReturnTypes ==
    ASSUME TInv, NEW c \in wire, NEW body \in Bodies, OnGetPlaylistReturn(c, body)
    PROVE  TInv'
<1> DEFINE x == FreeId(1..MaxXspfs, xspfs)
<1>1. /\ timer' = TRUE /\ fetching' = FALSE /\ wire' = wire \ {c}
      /\ UNCHANGED <<tuned, chosen>>
  BY DEF OnGetPlaylistReturn, PlaylistArrives, EmptyArrives
<1>2. wire' \subseteq Calls /\ CallsFit'
  <2>1. /\ wire' \subseteq Calls /\ IsFiniteSet(wire') /\ Cardinality(wire') \in Nat
        /\ Cardinality(wire') <= MaxWire
    BY <1>1, WithoutCall
  <2> QED
    BY <2>1, RadioAssumption DEF CallsFit
<1>3. c.station \in Stations \cup {Previous}
  BY DEF TInv, TypeOK, Calls
<1>4. Cardinality(xspfs) < MaxXspfs => x \in (1..MaxXspfs) \ xspfs
  <2>1. IsFiniteSet(1..MaxXspfs) /\ Cardinality(1..MaxXspfs) = MaxXspfs
    BY RadioAssumption, FS_Interval
  <2>2. IsFiniteSet(xspfs)
    BY <2>1, FS_Subset DEF TInv, TypeOK
  <2> QED
    BY <2>1, <2>2, FreeIdIsFree
<1> HIDE DEF x
<1>5. ASSUME NEW size \in PlaylistSizes, PlaylistArrives(c, size),
             Cardinality(xspfs) < MaxXspfs, alive' = alive
      PROVE  TInv'
  <2> DEFINE new == [id |-> x, left |-> size, station |-> c.station]
  <2>1. /\ xspfs' = xspfs \cup {x} /\ queue' = Append(queue, new)
        /\ empties' = 0 /\ retries' = 0 /\ signal' = "trackAvailable"
        /\ requested' = requested
    BY <1>5 DEF PlaylistArrives, x
  <2>2. new \in Playlists /\ new.id = x
    BY <1>3, <1>4, <1>5, RadioAssumption DEF Playlists
  <2> HIDE DEF new
  <2>3. TypeOK'
    <3>1. queue' \in Seq(Playlists)
      BY <2>1, <2>2 DEF TInv, TypeOK
    <3>2. retries' \in 0..MaxAttempts + 1 /\ empties' \in 0..MaxAttempts + 3
      BY <2>1, RadioAssumption
    <3>3. signal' \in Signals
      BY <2>1 DEF Signals
    <3>4. xspfs' \subseteq 1..MaxXspfs
      BY <1>4, <1>5, <2>1 DEF TInv, TypeOK
    <3> QED
      BY <1>1, <1>2, <1>5, <2>1, <3>1, <3>2, <3>3, <3>4 DEF TInv, TypeOK
  <2>4. /\ DOMAIN queue' = DOMAIN queue \cup {Len(queue) + 1}
        /\ \A i \in DOMAIN queue : queue'[i] = queue[i]
        /\ queue'[Len(queue) + 1] = new
    BY <2>1, <2>2 DEF TInv, TypeOK
  <2>5. ExpiredPlaylistsAreGone'
    BY <1>4, <1>5, <2>1, <2>2, <2>4 DEF TInv, ExpiredPlaylistsAreGone
  <2> QED
    BY <1>2, <2>3, <2>5 DEF TInv
<1>6. ASSUME EmptyArrives(c), Cardinality(xspfs) < MaxXspfs, alive' = alive
      PROVE  TInv'
  <2>1. /\ xspfs' = xspfs \cup {x} /\ queue' = queue
        /\ empties' = Capped(empties + 1, MaxAttempts + 3)
        /\ retries' = Capped(retries + 1, MaxAttempts + 1)
        /\ requested' \in {requested, TRUE} /\ signal' \in {signal, "NotEnoughContent"}
    BY <1>6 DEF EmptyArrives, x
  <2>2. retries' \in 0..MaxAttempts + 1 /\ empties' \in 0..MaxAttempts + 3
    BY <2>1, RadioAssumption DEF TInv, TypeOK, Capped
  <2>3. requested' \in BOOLEAN /\ signal' \in Signals
    BY <2>1 DEF TInv, TypeOK, Signals
  <2>4. TypeOK'
    BY <1>1, <1>2, <1>4, <1>6, <2>1, <2>2, <2>3 DEF TInv, TypeOK
  <2>5. ExpiredPlaylistsAreGone'
    BY <2>1 DEF TInv, ExpiredPlaylistsAreGone
  <2> QED
    BY <1>2, <2>4, <2>5 DEF TInv
<1>7. CASE /\ UNCHANGED <<queue, retries, requested, xspfs, empties>>
           /\ signal' \in {signal, "error"} /\ alive' \in {alive, FALSE}
  <2>1. TypeOK'
    BY <1>1, <1>2, <1>7 DEF TInv, TypeOK, Signals
  <2>2. ExpiredPlaylistsAreGone'
    BY <1>7 DEF TInv, ExpiredPlaylistsAreGone
  <2> QED
    BY <1>2, <2>1, <2>2 DEF TInv
<1> QED
  BY <1>5, <1>6, <1>7 DEF OnGetPlaylistReturn

LEMMA OnTwoSecondTimeoutTypes ==
    ASSUME TInv, OnTwoSecondTimeout
    PROVE  TInv'
<1>1. /\ timer /\ timer' = FALSE
      /\ UNCHANGED <<alive, queue, retries, xspfs, tuned, chosen, empties, signal>>
  BY DEF OnTwoSecondTimeout
<1>2. Cardinality(wire) \in Nat /\ Cardinality(wire) <= MaxWire
  BY <1>1, FS_CardinalityType, RadioAssumption DEF TInv, CallsFit
<1>3. /\ wire' \subseteq Calls /\ CallsFit'
      /\ requested' \in BOOLEAN /\ fetching' \in BOOLEAN
  <2>1. CASE requested
    <3>1. /\ wire' = Posted(wire, "getPlaylist", Previous)
          /\ requested' = FALSE /\ fetching' = TRUE
      BY <2>1 DEF OnTwoSecondTimeout
    <3>2. /\ wire' \subseteq Calls /\ IsFiniteSet(wire')
          /\ Cardinality(wire') <= Cardinality(wire) + 1
      BY <1>2, <3>1, PostedFits DEF TInv, TypeOK, CallsFit
    <3>3. Cardinality(wire') \in Nat
      BY <3>2, FS_CardinalityType
    <3>4. Cardinality(wire') <= MaxWire + 1
      BY <1>2, <3>2, <3>3, RadioAssumption
    <3> QED
      BY <1>1, <3>1, <3>2, <3>3, <3>4, RadioAssumption DEF CallsFit
  <2>2. CASE ~requested
    <3>1. UNCHANGED <<wire, fetching, requested>>
      BY <2>2 DEF OnTwoSecondTimeout
    <3> QED
      BY <1>1, <1>2, <3>1, RadioAssumption DEF TInv, TypeOK, CallsFit
  <2> QED
    BY <2>1, <2>2 DEF TInv, TypeOK
<1>4. TypeOK'
  BY <1>1, <1>3 DEF TInv, TypeOK
<1>5. ExpiredPlaylistsAreGone'
  BY <1>1 DEF TInv, ExpiredPlaylistsAreGone
<1> QED
  BY <1>3, <1>4, <1>5 DEF TInv

LEMMA OnXspfExpiredTypes ==
    ASSUME TInv, NEW x \in 1..MaxXspfs, OnXspfExpired(x)
    PROVE  TInv'
<1>1. /\ xspfs' = xspfs \ {x} /\ queue' = Without(x)
      /\ UNCHANGED <<alive, retries, fetching, requested, timer, wire, tuned, chosen,
                     empties, signal>>
  BY DEF OnXspfExpired
<1>2. /\ queue' \in Seq(Playlists)
      /\ \A i \in DOMAIN queue' : queue'[i].id \in xspfs'
      /\ \A i, j \in DOMAIN queue' : queue'[i].id = queue'[j].id => i = j
  BY <1>1, WithoutPlaylist DEF TInv, TypeOK
<1>3. TypeOK' /\ CallsFit'
  BY <1>1, <1>2 DEF TInv, TypeOK, CallsFit
<1> QED
  BY <1>2, <1>3 DEF TInv, ExpiredPlaylistsAreGone

LEMMA TakeNothingTypes ==
    ASSUME TInv, TakeNothing
    PROVE  TInv'
<1>1. /\ UNCHANGED <<alive, queue, retries, timer, xspfs, tuned, chosen, empties>>
      /\ signal' = "null track" /\ Cardinality(wire) < MaxWire
  BY DEF TakeNothing
<1>2. Cardinality(wire) \in Nat /\ Cardinality(wire) <= MaxWire
  <2>1. Cardinality(wire) \in Nat /\ Cardinality(wire) < MaxWire
    BY <1>1 DEF TInv, CallsFit
  <2> QED
    BY <2>1, RadioAssumption
<1>3. /\ wire' \subseteq Calls /\ CallsFit'
      /\ requested' \in BOOLEAN /\ fetching' \in BOOLEAN
  <2>1. CASE Fetch(wire, timer)
    BY <1>1, <1>2, <2>1, FetchFits DEF TInv, TypeOK, CallsFit
  <2>2. CASE UNCHANGED <<wire, fetching, requested>>
    BY <1>1, <2>2 DEF TInv, TypeOK, CallsFit
  <2> QED
    BY <2>1, <2>2 DEF TakeNothing
<1>4. TypeOK'
  BY <1>1, <1>3 DEF TInv, TypeOK, Signals
<1>5. ExpiredPlaylistsAreGone'
  BY <1>1 DEF TInv, ExpiredPlaylistsAreGone
<1> QED
  BY <1>3, <1>4, <1>5 DEF TInv

\* A drained playlist leaves the queue, another one keeps its identifier.
LEMMA TakeTrackTypes ==
    ASSUME TInv, TakeTrack
    PROVE  TInv'
<1> DEFINE first == queue[1]
           rest  == IF first.left = 1 THEN Tail(queue)
                    ELSE [queue EXCEPT ![1].left = first.left - 1]
<1>1. /\ queue # <<>> /\ queue' = rest
      /\ UNCHANGED <<alive, retries, timer, xspfs, tuned, chosen, empties, signal>>
      /\ Fetch(wire, timer) \/ UNCHANGED <<wire, fetching, requested>>
      /\ Cardinality(wire) < MaxWire
  BY DEF TakeTrack
<1>2. first \in Playlists
  BY <1>1 DEF TInv, TypeOK
<1>3. /\ queue' \in Seq(Playlists)
      /\ \A i \in DOMAIN queue' : queue'[i].id \in xspfs
      /\ \A i, j \in DOMAIN queue' : queue'[i].id = queue'[j].id => i = j
  <2>1. CASE first.left = 1
    <3>1. queue' = Tail(queue)
      BY <1>1, <2>1
    <3>2. /\ queue' \in Seq(Playlists) /\ Len(queue') = Len(queue) - 1
          /\ \A i \in 1..Len(queue') : queue'[i] = queue[i + 1]
      BY <1>1, <3>1, HeadTailProperties DEF TInv, TypeOK
    <3>3. \A i \in DOMAIN queue' : i + 1 \in DOMAIN queue /\ queue'[i] = queue[i + 1]
      BY <3>2 DEF TInv, TypeOK
    <3> QED
      BY <3>2, <3>3 DEF TInv, ExpiredPlaylistsAreGone
  <2>2. CASE first.left # 1
    <3> DEFINE left == [id |-> first.id, left |-> first.left - 1,
                        station |-> first.station]
    <3>1. queue' = [queue EXCEPT ![1] = [first EXCEPT !.left = first.left - 1]]
      BY <1>1, <2>2
    <3>2. [first EXCEPT !.left = first.left - 1] = left
      BY <1>2 DEF Playlists
    <3>3. left \in Playlists /\ left.id = first.id
      BY <1>2, <2>2 DEF Playlists
    <3>4. queue' = [queue EXCEPT ![1] = left]
      BY <3>1, <3>2
    <3> HIDE DEF left
    <3>5. queue' \in Seq(Playlists) /\ DOMAIN queue' = DOMAIN queue
      <4>1. queue \in Seq(Playlists) /\ 1 \in 1..Len(queue)
        BY <1>1 DEF TInv, TypeOK
      <4> QED
        BY <3>3, <3>4, <4>1
    <3>6. \A i \in DOMAIN queue : queue'[i].id = queue[i].id
      BY <3>3, <3>4 DEF TInv, TypeOK
    <3> QED
      BY <3>5, <3>6 DEF TInv, ExpiredPlaylistsAreGone
  <2> QED
    BY <2>1, <2>2
<1>4. Cardinality(wire) \in Nat /\ Cardinality(wire) <= MaxWire
  BY <1>1, FS_CardinalityType, RadioAssumption DEF TInv, CallsFit
<1> HIDE DEF rest, first
<1>5. /\ wire' \subseteq Calls /\ CallsFit'
      /\ requested' \in BOOLEAN /\ fetching' \in BOOLEAN
  <2>1. CASE Fetch(wire, timer)
    BY <1>1, <1>4, <2>1, FetchFits DEF TInv, TypeOK, CallsFit
  <2>2. CASE UNCHANGED <<wire, fetching, requested>>
    BY <1>1, <2>2 DEF TInv, TypeOK, CallsFit
  <2> QED
    BY <1>1, <2>1, <2>2
<1>6. TypeOK'
  BY <1>1, <1>3, <1>5 DEF TInv, TypeOK
<1>7. ExpiredPlaylistsAreGone'
  BY <1>1, <1>3 DEF ExpiredPlaylistsAreGone
<1> QED
  BY <1>5, <1>6, <1>7 DEF TInv

LEMMA ReplaceNamTypes ==
    ASSUME TInv, ReplaceNam
    PROVE  TInv'
<1>1. CallsFit'
  BY FS_EmptySet, RadioAssumption DEF ReplaceNam, CallsFit
<1> QED
  BY <1>1 DEF TInv, ReplaceNam, TypeOK, ExpiredPlaylistsAreGone

LEMMA NextTypes == TInv /\ [Next]_vars => TInv'
<1> SUFFICES ASSUME TInv, [Next]_vars PROVE TInv'
  OBVIOUS
<1>1. CASE AppStep
  BY <1>1, RetuneTypes, TakeNothingTypes, TakeTrackTypes DEF AppStep
<1>2. ASSUME NEW id \in CallIds, Returns(id)
      PROVE  TInv'
  BY <1>2, ServeTypes, OnTuneReturnTypes, OnGetPlaylistReturnTypes DEF Returns
<1>3. CASE OnTwoSecondTimeout
  BY <1>3, OnTwoSecondTimeoutTypes
<1>4. ASSUME NEW x \in 1..MaxXspfs, OnXspfExpired(x)
      PROVE  TInv'
  BY <1>4, OnXspfExpiredTypes
<1>5. CASE ReplaceNam
  BY <1>5, ReplaceNamTypes
<1>6. CASE UNCHANGED vars
  BY <1>6 DEF vars, TInv, TypeOK, CallsFit, ExpiredPlaylistsAreGone
<1> QED
  BY <1>1, <1>2, <1>3, <1>4, <1>5, <1>6 DEF Next

LEMMA TypesInvariance == Spec => []TInv
BY InitTypes, NextTypes, PTL DEF Spec

----------------------------------------------------------------------------
(* Theorems *)

\* fetchFiveMoreTracks() and onTwoSecondTimeout(): a fetch put off is never
\* forgotten, the timer that takes it up is running.
THEOREM RequestIsTakenUp == Spec => []RequestWaitsForTimer
<1>1. IInv => RequestWaitsForTimer
  BY DEF IInv
<1> QED
  BY <1>1, Invariance, PTL

\* takeNextTrack(): m_fetchingPlaylist is set only while a radio.getPlaylist that
\* resets it is under way, as long as the network manager stays.
THEOREM FlagHasCall == Spec => []FetchingHasCall
<1>1. IInv => FetchingHasCall
  BY DEF IInv
<1> QED
  BY <1>1, Invariance, PTL

\* tryAgain(): NotEnoughContent is told after more than MAX_TUNING_ATTEMPTS empty
\* playlists in a row, for any number of attempts.
THEOREM GivesUpLate == Spec => []GivesUpAfterAttempts
<1>1. IInv => GivesUpAfterAttempts
  BY DEF IInv
<1> QED
  BY <1>1, Invariance, PTL

\* Every method: the queue only holds playlists with tracks, so that
\* takeNextTrack() never takes from an empty one, and a call under way is one the
\* tuner posted, for a station there is.
THEOREM TypeCorrect == Spec => []TypeOK
<1>1. TInv => TypeOK
  BY DEF TInv
<1> QED
  BY <1>1, TypesInvariance, PTL

\* onXspfExpired(): each playlist of the queue is there once and its own expiry
\* timer runs, for any number of playlists, retunes and drained ones.
THEOREM QueueIsNotExpired == Spec => []ExpiredPlaylistsAreGone
<1>1. TInv => ExpiredPlaylistsAreGone
  BY DEF TInv
<1> QED
  BY <1>1, TypesInvariance, PTL

=============================================================================
