--------------------------- MODULE TrackLoveProofs ---------------------------
(* The answers that love(), unlove() and getInfo() leave behind, in the cache *)
(* of the network access manager and in the tracks, for every number of tracks*)
(* of the song and of calls.                                                  *)
EXTENDS TrackLove, TLAPS

Methods == {"love", "unlove", "getInfo", "cached"}
Stages  == {"sent", "served", "lost", "over", "deleted"}
CallRecords == [method : Methods, track : Tracks, url : Urls,
                stage : Stages, ok : BOOLEAN, value : BOOLEAN]

\* What TypeOK leaves out: calls are records of their type, of tracks there are.
Typed ==
    /\ TypeOK
    /\ mbid \subseteq Tracks /\ heard \subseteq Tracks
    /\ calls \in Seq(CallRecords)

\* No call was under way together with a change, and no change missed an entry.
Quiet == ~raced /\ ~mixed

\* A change that is under way is alone, and has emptied the cache.
ChangeIsAlone ==
    Quiet => \A i \in Pending : IsChange(calls[i]) =>
                /\ Pending = {i}
                /\ \A u \in Urls : cache[u] = None
                /\ calls[i].stage = "served" /\ calls[i].ok => calls[i].value = server

\* An answer on its way is as new as the server.
AnswersAreNew ==
    Quiet => \A i \in Pending :
                calls[i].stage = "served" /\ ~IsChange(calls[i]) => calls[i].value = server

\* LovedIsTheServers, and while calls are under way as well.
HeardIsTrue == Quiet => \A t \in heard : loved[t] = server

IInv ==
    /\ Typed
    /\ CacheIsFresh
    /\ ChangeIsAlone
    /\ AnswersAreNew
    /\ HeardIsTrue

-----------------------------------------------------------------------------
(* The calls *)

LEMMA CallTyped ==
    ASSUME Typed, NEW i \in DOMAIN calls
    PROVE  /\ calls[i].track \in Tracks /\ calls[i].url \in Urls
           /\ calls[i].ok \in BOOLEAN /\ calls[i].value \in BOOLEAN
<1>1. calls[i] \in CallRecords
  BY DEF Typed
<1> QED
  BY <1>1 DEF CallRecords

\* A call that is posted stands behind the earlier ones.
LEMMA PostedAppends ==
    ASSUME Typed, NEW method \in Methods, NEW t \in Tracks,
           NEW stage \in Stages, NEW value \in BOOLEAN,
           Posted(method, t, stage, value)
    PROVE  /\ calls' \in Seq(CallRecords)
           /\ Len(calls) + 1 \notin DOMAIN calls
           /\ DOMAIN calls' = DOMAIN calls \cup {Len(calls) + 1}
           /\ \A i \in DOMAIN calls : calls'[i] = calls[i]
           /\ calls'[Len(calls) + 1] =
                [method |-> method, track |-> t, url |-> Url(t),
                 stage |-> stage, ok |-> TRUE, value |-> value]
<1> DEFINE new == [method |-> method, track |-> t, url |-> Url(t),
                   stage |-> stage, ok |-> TRUE, value |-> value]
<1>1. calls \in Seq(CallRecords) /\ calls' = Append(calls, new)
  BY DEF Typed, Posted
<1>2. Url(t) \in Urls
  BY DEF Url, Urls
<1>3. new \in CallRecords
  BY <1>2 DEF CallRecords
<1> HIDE DEF new
<1>4. /\ calls' \in Seq(CallRecords)
      /\ Len(calls) + 1 \notin DOMAIN calls
      /\ DOMAIN calls' = DOMAIN calls \cup {Len(calls) + 1}
      /\ \A i \in DOMAIN calls : calls'[i] = calls[i]
      /\ calls'[Len(calls) + 1] = new
  BY <1>1, <1>3
<1> QED
  BY <1>4 DEF new

\* What is left of a call is of the same method and track.
LEMMA EndedIsRecord ==
    ASSUME NEW c \in CallRecords, NEW stage \in Stages
    PROVE  /\ Ended(c, stage) \in CallRecords
           /\ Ended(c, stage).stage = stage
           /\ Ended(c, stage).track = c.track
           /\ Ended(c, stage).method = c.method
<1>1. /\ [c EXCEPT !.stage = stage] \in CallRecords
      /\ [c EXCEPT !.stage = stage].stage = stage
      /\ [c EXCEPT !.stage = stage].track = c.track
      /\ [c EXCEPT !.stage = stage].method = c.method
  BY DEF CallRecords
<1> DEFINE d == [c EXCEPT !.stage = stage]
           e == [d EXCEPT !.ok = TRUE]
<1>2. Ended(c, stage) = [e EXCEPT !.value = FALSE]
  BY Zenon DEF Ended
<1> HIDE DEF d
<1>3. /\ d \in CallRecords /\ d.stage = stage /\ d.track = c.track /\ d.method = c.method
  BY <1>1 DEF d
<1>4. /\ e \in CallRecords /\ e.stage = stage /\ e.track = c.track /\ e.method = c.method
  BY <1>3 DEF CallRecords
<1> HIDE DEF e
<1> QED
  BY <1>2, <1>4 DEF CallRecords

\* What changes of the calls when the call i is over: its stage and its answer.
LEMMA OverIsOver ==
    ASSUME Typed, NEW i \in DOMAIN calls, Over(i)
    PROVE  /\ calls' \in Seq(CallRecords)
           /\ DOMAIN calls' = DOMAIN calls
           /\ Pending' = Pending \ {i}
           /\ \A j \in DOMAIN calls : j # i => calls'[j] = calls[j]
           /\ calls'[i].stage = "over" /\ calls'[i].track = calls[i].track
           /\ calls'[i].method = calls[i].method
<1>1. /\ calls \in Seq(CallRecords) /\ calls[i] \in CallRecords
  BY DEF Typed
<1> DEFINE c == Ended(calls[i], "over")
<1>2. calls' = [calls EXCEPT ![i] = c]
  BY DEF Over
<1>3. /\ c \in CallRecords /\ c.stage = "over"
      /\ c.track = calls[i].track /\ c.method = calls[i].method
  BY <1>1, EndedIsRecord DEF Stages
<1> HIDE DEF c
<1>4. /\ calls' \in Seq(CallRecords) /\ DOMAIN calls' = DOMAIN calls
      /\ \A j \in DOMAIN calls : j # i => calls'[j] = calls[j]
      /\ calls'[i] = c
  BY <1>1, <1>2, <1>3
<1>5. /\ calls'[i].stage = "over" /\ calls'[i].track = calls[i].track
      /\ calls'[i].method = calls[i].method
  BY <1>3, <1>4
<1>6. Pending' = Pending \ {i}
  BY <1>4, <1>5 DEF Pending
<1> QED
  BY <1>4, <1>5, <1>6

-----------------------------------------------------------------------------
(* The steps *)

LEMMA InitInv == Init => IInv
<1> SUFFICES ASSUME Init PROVE IInv
  OBVIOUS
<1>1. calls \in Seq(CallRecords) /\ DOMAIN calls = {}
  BY DEF Init
<1>2. Typed
  BY <1>1 DEF Init, Typed, TypeOK, NoEntry
<1>3. CacheIsFresh
  BY DEF Init, CacheIsFresh, NoEntry
<1>4. ChangeIsAlone /\ AnswersAreNew
  BY <1>1 DEF ChangeIsAlone, AnswersAreNew, Pending
<1>5. HeardIsTrue
  BY DEF Init, HeardIsTrue
<1> QED
  BY <1>2, <1>3, <1>4, <1>5 DEF IInv

\* love() or unlove(): without a race nothing is under way, and the cache is
\* empty behind it unless an entry stays under the song's other url.
LEMMA ChangeInv ==
    ASSUME IInv, NEW t \in Tracks, NEW method \in {"love", "unlove"}, Change(t, method)
    PROVE  IInv'
<1> DEFINE n == Len(calls) + 1
<1>1. /\ calls' \in Seq(CallRecords) /\ n \notin DOMAIN calls
      /\ DOMAIN calls' = DOMAIN calls \cup {n}
      /\ \A i \in DOMAIN calls : calls'[i] = calls[i]
      /\ calls'[n] = [method |-> method, track |-> t, url |-> Url(t),
                      stage |-> "sent", ok |-> TRUE, value |-> method = "love"]
  <2>1. method \in Methods /\ (method = "love") \in BOOLEAN /\ "sent" \in Stages
    BY DEF Methods, Stages
  <2>2. Typed /\ Posted(method, t, "sent", method = "love")
    BY DEF IInv, Change
  <2> HIDE DEF n
  <2> QED
    BY <2>1, <2>2, PostedAppends DEF n
<1>2. /\ calls'[n].stage = "sent" /\ calls'[n].method = method
      /\ calls'[n].track = t
  BY <1>1
<1> HIDE DEF n
<1>3. Typed'
  <2>1. cache' \in [Urls -> BOOLEAN \cup {None}]
    BY DEF IInv, Typed, TypeOK, Change, InvalidateGetInfo
  <2>2. \A i \in DOMAIN calls' :
          /\ calls'[i].stage \in Stages
          /\ calls'[i].method = "cached" => calls'[i].stage # "sent"
          /\ calls'[i].stage = "lost" => IsChange(calls'[i])
    BY <1>1, <1>2 DEF IInv, Typed, TypeOK, Stages
  <2>3. \A i \in listening' : i \in DOMAIN calls' /\ ~IsChange(calls'[i])
    BY <1>1 DEF IInv, Typed, TypeOK, Change
  <2> QED
    BY <1>1, <2>1, <2>2, <2>3 DEF IInv, Typed, TypeOK, Change, Stages
<1>4. CASE ~Quiet'
  BY <1>3, <1>4 DEF IInv, Quiet, CacheIsFresh, ChangeIsAlone, AnswersAreNew, HeardIsTrue
<1>5. CASE Quiet'
  <2>1. /\ Quiet /\ Pending = {} /\ server' = server /\ heard' = heard /\ loved' = loved
        /\ \A u \in Urls \ {Url(t)} : cache[u] = None
    BY <1>5 DEF Quiet, Change
  <2>2. Pending' = {n}
    BY <1>1, <1>2, <2>1 DEF Pending
  <2>3. \A u \in Urls : cache'[u] = None
    BY <2>1 DEF Change, InvalidateGetInfo, IInv, Typed, TypeOK
  <2>4. CacheIsFresh'
    BY <2>3 DEF CacheIsFresh
  <2>5. ChangeIsAlone' /\ AnswersAreNew'
    BY <1>2, <2>2, <2>3 DEF ChangeIsAlone, AnswersAreNew
  <2>6. HeardIsTrue'
    BY <2>1 DEF IInv, HeardIsTrue
  <2> QED
    BY <1>3, <2>4, <2>5, <2>6 DEF IInv
<1> QED
  BY <1>4, <1>5

\* getInfo(): a posted request is not answered yet, and a cached answer is the
\* entry of the cache.
LEMMA GetInfoInv ==
    ASSUME IInv, NEW t \in Tracks, GetInfo(t)
    PROVE  IInv'
<1> DEFINE n == Len(calls) + 1
<1>1. Url(t) \in Urls
  BY DEF Url, Urls
<1>2. PICK method \in {"getInfo", "cached"}, stage \in {"sent", "served"},
           value \in BOOLEAN :
        /\ Posted(method, t, stage, value)
        /\ method = "cached" => stage # "sent"
        /\ stage = "served" => value = cache[Url(t)] /\ cache[Url(t)] # None
  <2>1. CASE cache[Url(t)] # None
    <3>1. cache[Url(t)] \in BOOLEAN
      BY <1>1, <2>1 DEF IInv, Typed, TypeOK
    <3>2. Posted("cached", t, "served", cache[Url(t)])
      BY <2>1 DEF GetInfo
    <3> QED
      BY <2>1, <3>1, <3>2
  <2>2. CASE cache[Url(t)] = None
    <3>1. Posted("getInfo", t, "sent", FALSE)
      BY <2>2 DEF GetInfo
    <3> QED
      BY <3>1
  <2> QED
    BY <2>1, <2>2
<1>3. /\ calls' \in Seq(CallRecords) /\ n \notin DOMAIN calls
      /\ DOMAIN calls' = DOMAIN calls \cup {n}
      /\ \A i \in DOMAIN calls : calls'[i] = calls[i]
      /\ calls'[n] = [method |-> method, track |-> t, url |-> Url(t),
                      stage |-> stage, ok |-> TRUE, value |-> value]
  <2>1. method \in Methods /\ stage \in Stages
    BY DEF Methods, Stages
  <2> HIDE DEF n
  <2> QED
    BY <1>2, <2>1, PostedAppends DEF n, IInv
<1>4. /\ calls'[n].stage = stage /\ calls'[n].method = method
      /\ calls'[n].track = t /\ calls'[n].value = value
  BY <1>3
<1>5. n \in DOMAIN calls'
  BY <1>3
<1> HIDE DEF n
<1>6. Typed'
  <2>1. \A i \in DOMAIN calls' :
          /\ calls'[i].stage \in Stages
          /\ calls'[i].method = "cached" => calls'[i].stage # "sent"
          /\ calls'[i].stage = "lost" => IsChange(calls'[i])
    BY <1>2, <1>3, <1>4 DEF IInv, Typed, TypeOK, Stages
  <2>2. listening' = listening \cup {n}
    BY DEF GetInfo, n
  <2>3. ~IsChange(calls'[n])
    BY <1>4 DEF IsChange
  <2>4. \A i \in listening' : i \in DOMAIN calls' /\ ~IsChange(calls'[i])
    BY <1>3, <1>5, <2>2, <2>3 DEF IInv, Typed, TypeOK
  <2> QED
    BY <1>3, <2>1, <2>4 DEF IInv, Typed, TypeOK, GetInfo, Stages
<1>7. CASE ~Quiet'
  BY <1>6, <1>7 DEF IInv, Quiet, CacheIsFresh, ChangeIsAlone, AnswersAreNew, HeardIsTrue
<1>8. CASE Quiet'
  <2>1. /\ Quiet /\ \A i \in Pending : ~IsChange(calls[i])
        /\ UNCHANGED <<server, heard, loved, cache>>
    BY <1>8 DEF Quiet, GetInfo
  <2>2. ~IsChange(calls'[n])
    BY <1>4 DEF IsChange
  <2>3. \A i \in Pending' : i = n \/ (i \in Pending /\ calls'[i] = calls[i])
    BY <1>3 DEF Pending
  <2>4. CacheIsFresh' /\ HeardIsTrue'
    BY <2>1 DEF IInv, CacheIsFresh, HeardIsTrue, Quiet
  <2>5. \A i \in Pending' : ~IsChange(calls'[i])
    BY <2>1, <2>2, <2>3
  <2>6. ChangeIsAlone'
    BY <2>5 DEF ChangeIsAlone
  <2>7. stage = "served" => value = server
    BY <1>1, <1>2, <2>1 DEF IInv, CacheIsFresh, Quiet
  <2>8. AnswersAreNew'
    BY <1>4, <2>1, <2>3, <2>7 DEF IInv, AnswersAreNew
  <2> QED
    BY <1>6, <2>4, <2>6, <2>8 DEF IInv
<1> QED
  BY <1>7, <1>8

\* The service: a change that it takes is the only call under way.
LEMMA ServeInv ==
    ASSUME IInv, NEW i \in DOMAIN calls, Serve(i)
    PROVE  IInv'
<1>1. calls \in Seq(CallRecords) /\ calls[i] \in CallRecords /\ server \in BOOLEAN
  BY DEF IInv, Typed, TypeOK
<1>2. PICK ok \in BOOLEAN, taken \in BOOLEAN :
        /\ ok => taken
        /\ server' = IF taken /\ IsChange(calls[i]) THEN calls[i].value ELSE server
        /\ calls' = [calls EXCEPT ![i].stage = "served", ![i].ok = ok,
                       ![i].value = IF IsChange(calls[i]) THEN @ ELSE server]
        /\ heard' = IF server' # server THEN {} ELSE heard
  BY DEF Serve
<1> DEFINE value == IF IsChange(calls[i]) THEN calls[i].value ELSE server
           c     == [calls[i] EXCEPT !.stage = "served", !.ok = ok, !.value = value]
<1>3. value \in BOOLEAN
  BY <1>1 DEF CallRecords
<1>4. calls' = [calls EXCEPT ![i] = c]
  BY <1>1, <1>2
<1> HIDE DEF value
<1>5. /\ c \in CallRecords
      /\ c.stage = "served" /\ c.ok = ok /\ c.value = value
      /\ c.method = calls[i].method /\ c.track = calls[i].track
  BY <1>1, <1>3 DEF CallRecords, Stages
<1> HIDE DEF c
<1>6. /\ calls' \in Seq(CallRecords) /\ DOMAIN calls' = DOMAIN calls
      /\ calls'[i] = c /\ \A j \in DOMAIN calls : j # i => calls'[j] = calls[j]
  BY <1>1, <1>4, <1>5
<1>7. IsChange(c) = IsChange(calls[i])
  BY <1>5 DEF IsChange
<1>8. i \in Pending /\ Pending' = Pending
  BY <1>5, <1>6 DEF Pending, Serve
<1>9. Typed'
  <2>1. server' \in BOOLEAN
    BY <1>1, <1>2 DEF CallRecords
  <2>2. \A j \in DOMAIN calls' :
          /\ calls'[j].stage \in Stages
          /\ calls'[j].method = "cached" => calls'[j].stage # "sent"
          /\ calls'[j].stage = "lost" => IsChange(calls'[j])
    BY <1>5, <1>6 DEF IInv, Typed, TypeOK, Stages
  <2>3. \A j \in listening' : j \in DOMAIN calls' /\ ~IsChange(calls'[j])
    BY <1>5, <1>6, <1>7 DEF IInv, Typed, TypeOK, Serve
  <2>4. heard' \subseteq Tracks
    BY <1>2 DEF IInv, Typed
  <2> QED
    BY <1>6, <2>1, <2>2, <2>3, <2>4 DEF IInv, Typed, TypeOK, Serve, Stages
<1>10. CASE ~Quiet'
  BY <1>9, <1>10 DEF IInv, Quiet, CacheIsFresh, ChangeIsAlone, AnswersAreNew, HeardIsTrue
<1>11. CASE Quiet' /\ IsChange(calls[i])
  <2>1. Quiet /\ cache' = cache /\ loved' = loved
    BY <1>11 DEF Quiet, Serve
  <2>2. Pending' = {i} /\ \A u \in Urls : cache'[u] = None
    BY <1>8, <1>11, <2>1 DEF IInv, ChangeIsAlone
  <2>3. CacheIsFresh'
    BY <2>2 DEF CacheIsFresh
  <2>4. c.ok => c.value = server'
    BY <1>2, <1>5, <1>11 DEF value
  <2>5. ChangeIsAlone' /\ AnswersAreNew'
    BY <1>6, <1>7, <1>11, <2>2, <2>4 DEF ChangeIsAlone, AnswersAreNew
  <2>6. HeardIsTrue'
    BY <1>2, <2>1 DEF IInv, HeardIsTrue
  <2> QED
    BY <1>9, <2>3, <2>5, <2>6 DEF IInv
<1>12. CASE Quiet' /\ ~IsChange(calls[i])
  <2>1. Quiet /\ cache' = cache /\ loved' = loved /\ server' = server /\ heard' = heard
    BY <1>2, <1>12 DEF Quiet, Serve
  <2>2. CacheIsFresh' /\ HeardIsTrue'
    BY <2>1 DEF IInv, CacheIsFresh, HeardIsTrue, Quiet
  <2>3. \A j \in Pending : j # i => calls'[j] = calls[j]
    BY <1>6 DEF Pending
  <2>4. ChangeIsAlone'
    BY <1>6, <1>7, <1>8, <1>12, <2>1, <2>3 DEF IInv, ChangeIsAlone
  <2>5. value = server'
    BY <1>12, <2>1 DEF value
  <2>6. AnswersAreNew'
    BY <1>5, <1>6, <1>8, <2>1, <2>3, <2>5 DEF IInv, AnswersAreNew
  <2> QED
    BY <1>9, <2>2, <2>4, <2>6 DEF IInv
<1> QED
  BY <1>10, <1>11, <1>12

\* Behind an answered call no change is under way: it would have been alone.
LEMMA OverInv ==
    ASSUME IInv, NEW i \in Pending, Over(i), UNCHANGED <<raced, mixed>>,
           server' = server \/ IsChange(calls[i])
    PROVE  ChangeIsAlone' /\ AnswersAreNew'
<1> SUFFICES ASSUME Quiet
             PROVE  \A j \in Pending' :
                      /\ ~IsChange(calls'[j])
                      /\ calls'[j].stage = "served" => calls'[j].value = server'
  BY DEF ChangeIsAlone, AnswersAreNew, Quiet
<1> TAKE j \in Pending'
<1>1. i \in DOMAIN calls
  BY DEF Pending
<1>2. j \in Pending /\ j # i /\ calls'[j] = calls[j]
  BY <1>1, OverIsOver DEF IInv, Pending
<1>3. ~IsChange(calls[j])
  BY <1>2 DEF IInv, ChangeIsAlone
<1>4. server' = server
  BY <1>2 DEF IInv, ChangeIsAlone
<1> QED
  BY <1>2, <1>3, <1>4 DEF IInv, AnswersAreNew

\* What holds of the types whichever call is answered.
LEMMA OverTyped ==
    ASSUME IInv, NEW i \in DOMAIN calls, Over(i), listening' \subseteq listening,
           NEW l \in BOOLEAN, loved' \in {loved, [loved EXCEPT ![calls[i].track] = l]},
           heard' \in {{}, heard, heard \cup {calls[i].track}, heard \ {calls[i].track}},
           cache' \in [Urls -> BOOLEAN \cup {None}], server' \in BOOLEAN, UNCHANGED mbid
    PROVE  Typed'
<1>1. /\ calls' \in Seq(CallRecords) /\ DOMAIN calls' = DOMAIN calls
      /\ \A j \in DOMAIN calls : j # i => calls'[j] = calls[j]
      /\ calls'[i].stage = "over" /\ calls'[i].method = calls[i].method
  BY OverIsOver DEF IInv
<1>2. calls[i].track \in Tracks
  BY CallTyped DEF IInv
<1>3. \A j \in DOMAIN calls' :
        /\ calls'[j].stage \in Stages
        /\ calls'[j].method = "cached" => calls'[j].stage # "sent"
        /\ calls'[j].stage = "lost" => IsChange(calls'[j])
  BY <1>1 DEF IInv, Typed, TypeOK, Stages
<1>4. \A j \in listening' : j \in DOMAIN calls' /\ ~IsChange(calls'[j])
  BY <1>1 DEF IInv, Typed, TypeOK, IsChange
<1>5. loved' \in [Tracks -> BOOLEAN]
  BY <1>2 DEF IInv, Typed, TypeOK
<1> QED
  BY <1>1, <1>2, <1>3, <1>4, <1>5 DEF IInv, Typed, TypeOK, Stages

\* onLoveFinished(), onUnloveFinished(): the track takes what the change said.
LEMMA OnChangeFinishedInv ==
    ASSUME IInv, NEW i \in DOMAIN calls, OnChangeFinished(i)
    PROVE  IInv'
<1> DEFINE t == calls[i].track
<1>1. /\ calls[i].stage = "served" /\ IsChange(calls[i]) /\ Over(i)
      /\ UNCHANGED <<mbid, listening, server, cache, raced, mixed>>
      /\ IF calls[i].ok
         THEN loved' = [loved EXCEPT ![t] = calls[i].value] /\ heard' = heard \cup {t}
         ELSE heard' = heard \ {t} /\ loved' = loved
  BY DEF OnChangeFinished
<1>2. calls[i].value \in BOOLEAN /\ t \in Tracks
  BY CallTyped DEF IInv
<1> HIDE DEF t
<1>3. Typed'
  <2>1. /\ loved' \in {loved, [loved EXCEPT ![t] = calls[i].value]}
        /\ heard' \in {{}, heard, heard \cup {t}, heard \ {t}}
    BY <1>1
  <2>2. cache' \in [Urls -> BOOLEAN \cup {None}]
    BY <1>1 DEF IInv, Typed, TypeOK
  <2>3. listening' \subseteq listening /\ server' \in BOOLEAN /\ UNCHANGED mbid
    BY <1>1 DEF IInv, Typed, TypeOK
  <2> QED
    BY <1>1, <1>2, <2>1, <2>2, <2>3, OverTyped DEF t
<1>4. CacheIsFresh'
  BY <1>1 DEF IInv, CacheIsFresh
<1>5. ChangeIsAlone' /\ AnswersAreNew'
  <2>1. i \in Pending
    BY <1>1 DEF Pending
  <2> QED
    BY <1>1, <2>1, OverInv
<1>6. HeardIsTrue'
  <2> SUFFICES ASSUME Quiet, NEW u \in heard'
               PROVE  loved'[u] = server
    BY <1>1 DEF HeardIsTrue, Quiet
  <2>1. i \in Pending
    BY <1>1 DEF Pending
  <2>2. calls[i].ok => calls[i].value = server
    BY <1>1, <2>1 DEF IInv, ChangeIsAlone
  <2>3. CASE u = t
    BY <1>1, <1>2, <2>2, <2>3 DEF IInv, Typed, TypeOK
  <2>4. CASE u # t
    <3>1. u \in heard /\ u \in Tracks /\ loved'[u] = loved[u]
      BY <1>1, <2>4 DEF IInv, Typed, TypeOK
    <3> QED
      BY <3>1 DEF IInv, HeardIsTrue
  <2> QED
    BY <2>3, <2>4
<1> QED
  BY <1>3, <1>4, <1>5, <1>6 DEF IInv

\* onGotInfo(): a sound answer is cached and taken; one that failed is neither.
LEMMA OnGotInfoInv ==
    ASSUME IInv, NEW i \in DOMAIN calls, OnGotInfo(i)
    PROVE  IInv'
<1> DEFINE t == calls[i].track
           l == calls[i].ok /\ calls[i].value
<1>1. /\ calls[i].stage = "served" /\ ~IsChange(calls[i]) /\ Over(i)
      /\ UNCHANGED <<mbid, server, raced, mixed>>
      /\ loved' = [loved EXCEPT ![t] = l]
      /\ heard' = IF calls[i].ok THEN heard \cup {t} ELSE heard \ {t}
      /\ listening' = listening \ Listeners(t)
      /\ \/ cache' = cache
         \/ cache' = [cache EXCEPT ![calls[i].url] = calls[i].value]
  BY DEF OnGotInfo
<1>2. /\ calls[i].value \in BOOLEAN /\ calls[i].ok \in BOOLEAN /\ t \in Tracks
      /\ calls[i].url \in Urls
  BY CallTyped DEF IInv
<1>3. l \in BOOLEAN
  BY <1>2
<1>4. calls[i].ok => l = calls[i].value
  BY <1>2
<1> HIDE DEF t, l
<1>5. Typed'
  <2>1. /\ loved' \in {loved, [loved EXCEPT ![t] = l]}
        /\ heard' \in {{}, heard, heard \cup {t}, heard \ {t}}
    BY <1>1
  <2>2. cache' \in [Urls -> BOOLEAN \cup {None}]
    BY <1>1, <1>2 DEF IInv, Typed, TypeOK
  <2>3. listening' \subseteq listening /\ server' \in BOOLEAN /\ UNCHANGED mbid
    BY <1>1 DEF IInv, Typed, TypeOK
  <2> QED
    BY <1>1, <1>3, <2>1, <2>2, <2>3, OverTyped DEF t
<1>6. ChangeIsAlone' /\ AnswersAreNew'
  <2>1. i \in Pending
    BY <1>1 DEF Pending
  <2> QED
    BY <1>1, <2>1, OverInv
<1>7. Quiet => calls[i].value = server
  <2>1. i \in Pending
    BY <1>1 DEF Pending
  <2> QED
    BY <1>1, <2>1 DEF IInv, AnswersAreNew
<1>8. CacheIsFresh'
  BY <1>1, <1>2, <1>7 DEF IInv, Typed, TypeOK, CacheIsFresh, Quiet
<1>9. HeardIsTrue'
  <2> SUFFICES ASSUME Quiet, NEW u \in heard'
               PROVE  loved'[u] = server
    BY <1>1 DEF HeardIsTrue, Quiet
  <2>1. CASE u = t
    <3>1. calls[i].ok
      BY <1>1, <2>1
    <3>2. loved'[u] = l
      BY <1>1, <1>2, <2>1 DEF IInv, Typed, TypeOK
    <3> QED
      BY <1>4, <1>7, <3>1, <3>2
  <2>2. CASE u # t
    <3>1. u \in heard /\ u \in Tracks /\ loved'[u] = loved[u]
      BY <1>1, <2>2 DEF IInv, Typed, TypeOK
    <3> QED
      BY <3>1 DEF IInv, HeardIsTrue
  <2> QED
    BY <2>1, <2>2
<1> QED
  BY <1>5, <1>6, <1>8, <1>9 DEF IInv

\* setNetworkAccessManager(): nothing new is under way, and a change that is
\* stays alone with the emptied cache.
LEMMA SetNetworkAccessManagerInv ==
    ASSUME IInv, SetNetworkAccessManager
    PROVE  IInv'
<1>1. calls \in Seq(CallRecords) /\ \A i \in DOMAIN calls : calls[i] \in CallRecords
  BY DEF IInv, Typed
<1>2. ASSUME NEW i \in DOMAIN calls
      PROVE  /\ Dropped(calls[i]) \in CallRecords
             /\ Dropped(calls[i]).method = calls[i].method
             /\ Dropped(calls[i]).stage \in {"lost", "over", "deleted"}
             /\ Dropped(calls[i]).stage = "lost" => IsChange(calls[i]) /\ i \in Pending
  <2> DEFINE c == calls[i]
             d == Dropped(c)
  <2>1. c \in CallRecords
    BY <1>1
  <2> HIDE DEF c
  <2>2. CASE c.stage \in {"over", "deleted"}
    <3>1. d = c
      BY <2>2 DEF Dropped
    <3> HIDE DEF d
    <3> QED
      BY <2>1, <2>2, <3>1 DEF c, d
  <2>3. CASE c.stage \in {"sent", "lost"} /\ IsChange(c)
    <3>1. d = [c EXCEPT !.stage = "lost"]
      BY <2>3 DEF Dropped
    <3> HIDE DEF d
    <3>2. d \in CallRecords /\ d.method = c.method /\ d.stage = "lost"
      BY <2>1, <3>1 DEF CallRecords, Stages
    <3> QED
      BY <2>3, <3>2 DEF c, d, Pending
  <2>4. CASE c.stage \notin {"over", "deleted"} /\ ~(c.stage \in {"sent", "lost"} /\ IsChange(c))
    <3>1. d = Ended(c, "deleted")
      BY <2>4 DEF Dropped
    <3>2. "deleted" \in Stages
      BY DEF Stages
    <3> HIDE DEF d
    <3>3. d \in CallRecords /\ d.method = c.method /\ d.stage = "deleted"
      BY <2>1, <3>1, <3>2, EndedIsRecord
    <3> QED
      BY <3>3 DEF c, d
  <2> QED
    BY <2>2, <2>3, <2>4
<1>3. calls' = [i \in DOMAIN calls |-> Dropped(calls[i])]
  BY DEF SetNetworkAccessManager
<1>4. /\ DOMAIN calls' = DOMAIN calls
      /\ \A i \in DOMAIN calls : calls'[i] = Dropped(calls[i])
  BY <1>3
<1>5. calls' \in Seq(CallRecords)
  <2>1. DOMAIN calls = 1 .. Len(calls) /\ Len(calls) \in Nat
    BY <1>1
  <2> QED
    BY <1>2, <1>3, <2>1
<1>6. \A i \in DOMAIN calls : IsChange(calls'[i]) = IsChange(calls[i])
  BY <1>2, <1>4 DEF IsChange
<1>7. \A i \in Pending' : i \in Pending /\ calls'[i].stage = "lost" /\ IsChange(calls[i])
  BY <1>2, <1>4 DEF Pending
<1>8. /\ cache' \in {cache, NoEntry} /\ NoEntry = [u \in Urls |-> None]
      /\ UNCHANGED <<mbid, loved, listening, server, raced, mixed, heard>>
  BY DEF SetNetworkAccessManager, NoEntry
<1>9. Typed'
  <2>1. cache' \in [Urls -> BOOLEAN \cup {None}]
    BY <1>8 DEF IInv, Typed, TypeOK
  <2>2. \A i \in DOMAIN calls' :
          /\ calls'[i].stage \in Stages
          /\ calls'[i].method = "cached" => calls'[i].stage # "sent"
          /\ calls'[i].stage = "lost" => IsChange(calls'[i])
    BY <1>2, <1>4, <1>6 DEF Stages
  <2>3. \A i \in listening' : i \in DOMAIN calls' /\ ~IsChange(calls'[i])
    BY <1>4, <1>6, <1>8 DEF IInv, Typed, TypeOK
  <2> QED
    BY <1>5, <1>8, <2>1, <2>2, <2>3 DEF IInv, Typed, TypeOK, Stages
<1>10. CacheIsFresh'
  BY <1>8 DEF IInv, CacheIsFresh
<1>11. ChangeIsAlone'
  <2> SUFFICES ASSUME Quiet, NEW i \in Pending'
               PROVE  Pending' = {i} /\ \A u \in Urls : cache'[u] = None
    BY <1>7, <1>8 DEF ChangeIsAlone, Quiet
  <2>1. i \in Pending /\ IsChange(calls[i])
    BY <1>7
  <2>2. Pending = {i} /\ \A u \in Urls : cache[u] = None
    BY <2>1 DEF IInv, ChangeIsAlone
  <2> QED
    BY <1>7, <1>8, <2>2
<1>12. AnswersAreNew'
  BY <1>7 DEF AnswersAreNew
<1>13. HeardIsTrue'
  BY <1>8 DEF IInv, HeardIsTrue, Quiet
<1> QED
  BY <1>9, <1>10, <1>11, <1>12, <1>13 DEF IInv

\* A change whose reply is gone reaches the service, or does not.
LEMMA ServeLostInv ==
    ASSUME IInv, NEW i \in DOMAIN calls, ServeLost(i)
    PROVE  IInv'
<1>1. /\ calls[i].stage = "lost" /\ Over(i) /\ server' \in {server, calls[i].value}
      /\ heard' = IF server' # server THEN {} ELSE heard
      /\ UNCHANGED <<mbid, loved, listening, cache, raced, mixed>>
  BY DEF ServeLost
<1>2. i \in Pending /\ IsChange(calls[i])
  BY <1>1 DEF Pending, IInv, Typed, TypeOK
<1>3. Typed'
  <2>1. calls[i].value \in BOOLEAN /\ server' \in BOOLEAN
    BY <1>1, CallTyped DEF IInv, Typed, TypeOK
  <2>2. /\ loved' \in {loved, [loved EXCEPT ![calls[i].track] = calls[i].value]}
        /\ heard' \in {{}, heard, heard \cup {calls[i].track}, heard \ {calls[i].track}}
        /\ cache' \in [Urls -> BOOLEAN \cup {None}]
        /\ listening' \subseteq listening /\ UNCHANGED mbid
    BY <1>1 DEF IInv, Typed, TypeOK
  <2> QED
    BY <1>1, <2>1, <2>2, OverTyped
<1>4. CacheIsFresh'
  <2>1. Quiet => \A u \in Urls : cache[u] = None
    BY <1>2 DEF IInv, ChangeIsAlone
  <2> QED
    BY <1>1, <2>1 DEF CacheIsFresh, Quiet
<1>5. ChangeIsAlone' /\ AnswersAreNew'
  BY <1>1, <1>2, OverInv
<1>6. HeardIsTrue'
  BY <1>1 DEF IInv, HeardIsTrue, Quiet
<1> QED
  BY <1>3, <1>4, <1>5, <1>6 DEF IInv

LEMMA NextInv == IInv /\ [Next]_vars => IInv'
<1> SUFFICES ASSUME IInv, [Next]_vars PROVE IInv'
  OBVIOUS
<1>1. ASSUME NEW t \in Tracks, NEW method \in {"love", "unlove"}, Change(t, method)
      PROVE  IInv'
  BY <1>1, ChangeInv
<1>2. ASSUME NEW t \in Tracks, GetInfo(t)
      PROVE  IInv'
  BY <1>2, GetInfoInv
<1>3. ASSUME NEW i \in DOMAIN calls, Serve(i)
      PROVE  IInv'
  BY <1>3, ServeInv
<1>4. ASSUME NEW i \in DOMAIN calls, Answered(i)
      PROVE  IInv'
  BY <1>4, OnChangeFinishedInv, OnGotInfoInv DEF Answered
<1>5. ASSUME NEW i \in DOMAIN calls, ServeLost(i)
      PROVE  IInv'
  BY <1>5, ServeLostInv
<1>6. CASE SetNetworkAccessManager
  BY <1>6, SetNetworkAccessManagerInv
<1>7. CASE UNCHANGED vars
  BY <1>7 DEF vars, IInv, Typed, TypeOK, CacheIsFresh, ChangeIsAlone, AnswersAreNew,
              HeardIsTrue, Quiet, Pending
<1> QED
  BY <1>1, <1>2, <1>3, <1>4, <1>5, <1>6, <1>7 DEF Next

LEMMA Invariance == Spec => []IInv
BY InitInv, NextInv, PTL DEF Spec

-----------------------------------------------------------------------------
(* Theorems *)

\* invalidateGetInfo(): an entry of the cache has its type, and where no change
\* overlapped another call or missed the entry of the song's other url, it says
\* what the service says; for any number of tracks and calls.
THEOREM CachedInfoIsTrue == Spec => []CacheIsTrue
<1>1. IInv => CacheIsTrue
  BY DEF IInv, Typed, CacheIsTrue
<1> QED
  BY <1>1, Invariance, PTL

\* onLoveFinished(), onUnloveFinished(), onGotInfo(): a track whose last answer
\* was sound shows the service's `loved' when all is answered.
THEOREM LovedIsTrue == Spec => []LovedIsTheServers
<1>1. IInv => LovedIsTheServers
  BY DEF IInv, HeardIsTrue, LovedIsTheServers, Quiet
<1> QED
  BY <1>1, Invariance, PTL

=============================================================================
