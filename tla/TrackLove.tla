----------------------------- MODULE TrackLove -----------------------------
(***************************************************************************)
(* src/types/Track.cpp: love(), unlove() and getInfo() of the tracks of    *)
(* one song, their answers, and the answer to track.getInfo that the       *)
(* network access manager may hold in its cache.  Requests go over several *)
(* connections: they are served, and answered, in any order.  A manager    *)
(* that is replaced takes its replies along.                               *)
(***************************************************************************)
EXTENDS Integers, Sequences, SequencesExt, FiniteSets

CONSTANTS
  Tracks,    \* TrackData objects of the song
  MaxCalls,  \* bound: calls in a behaviour
  MaxNams,   \* bound: managers that are replaced
  None       \* no entry in the cache

Urls == {"mbid", "names"}

VARIABLES
  mbid,      \* which tracks have a MusicBrainz id
  loved,     \* d->loved
  listening, \* the getInfo() calls whose caller has gotInfo() connected
  server,    \* what the service knows
  cache,     \* userloved in the entry for each url of getInfo
  calls,     \* every call so far
  nams,      \* managers that were replaced
  raced,     \* history: a change overlapped another call
  mixed,     \* history: a change left an entry under the song's other url
  heard      \* history: tracks whose last answer is as new as the server's

vars == <<mbid, loved, listening, server, cache, calls, nams, raced, mixed, heard>>
NoEntry == [u \in Urls |-> None]

Init ==
  /\ mbid \in SUBSET Tracks
  /\ loved = [t \in Tracks |-> FALSE] /\ listening = {} /\ server \in BOOLEAN
  /\ cache = NoEntry /\ calls = <<>> /\ nams = 0
  /\ raced = FALSE /\ mixed = FALSE /\ heard = {}

(* params( "getInfo", true ).                                              *)
Url(t)       == IF t \in mbid THEN "mbid" ELSE "names"
IsChange(c)  == c.method \in {"love", "unlove"}
Listeners(t) == {i \in listening : calls[i].track = t}
Pending      == {i \in DOMAIN calls : calls[i].stage \notin {"over", "deleted"}}
(* What is left of a call that is answered, or whose reply is deleted.     *)
Ended(c, stage) == [c EXCEPT !.stage = stage, !.ok = TRUE, !.value = FALSE]
Over(i)         == calls' = [calls EXCEPT ![i] = Ended(@, "over")]

(* Seeded bug: the network is asked although the cache has answered. *)
PostedAnyway(method, t, stage, value) ==
  calls' = Append(calls, [method |-> method, track |-> t, url |-> Url(t),
                          stage |-> "sent", ok |-> TRUE, value |-> value])
Posted(method, t, stage, value) ==
  calls' = Append(calls, [method |-> method, track |-> t, url |-> Url(t),
                          stage |-> stage, ok |-> TRUE, value |-> value])

(* Seeded bug: the entry stays. *)
InvalidateNothing(t) == UNCHANGED cache
InvalidateGetInfo(t) == cache' = [cache EXCEPT ![Url(t)] = None]

(* love() and unlove(): posted, then invalidateGetInfo().                  *)
Change(t, method) ==
  /\ Len(calls) < MaxCalls
  /\ Posted(method, t, "sent", method = "love")
  /\ InvalidateGetInfo(t)
  /\ raced' = (raced \/ Pending # {})
  /\ mixed' = (mixed \/ \E u \in Urls \ {Url(t)} : cache[u] # None)
  /\ UNCHANGED <<mbid, loved, listening, server, nams, heard>>

(* getInfo(), whose caller connects gotInfo() first.  createRequest()      *)
(* prefers the cache.                                                      *)
GetInfo(t) ==
  /\ Len(calls) < MaxCalls
  /\ IF cache[Url(t)] # None THEN Posted("cached", t, "served", cache[Url(t)])
     ELSE Posted("getInfo", t, "sent", FALSE)
  /\ listening' = listening \cup {Len(calls) + 1}
  /\ raced' = (raced \/ \E i \in Pending : IsChange(calls[i]))
  /\ UNCHANGED <<mbid, loved, server, cache, nams, mixed, heard>>

(* External: the service takes a request and its answer is on the way, or  *)
(* fails, before the service took it or behind it.                         *)
Serve(i) ==
  /\ calls[i].stage = "sent"
  /\ \E ok, taken \in BOOLEAN :
       /\ ok => taken
       /\ server' = IF taken /\ IsChange(calls[i]) THEN calls[i].value ELSE server
       /\ calls' = [calls EXCEPT ![i].stage = "served", ![i].ok = ok,
                      ![i].value = IF IsChange(calls[i]) THEN @ ELSE server]
       /\ heard' = IF server' # server THEN {} ELSE heard
  /\ UNCHANGED <<mbid, loved, listening, cache, nams, raced, mixed>>

Dropped(c) ==
  CASE c.stage \in {"over", "deleted"}              -> c
    [] c.stage \in {"sent", "lost"} /\ IsChange(c) -> [c EXCEPT !.stage = "lost"]
    [] OTHER                                        -> Ended(c, "deleted")

(* lastfm::setNetworkAccessManager(): every reply is deleted and no slot    *)
(* runs; listeners stay.  Where the cache is of the new manager it is      *)
(* empty, or the same files.                                               *)
SetNetworkAccessManager ==
  /\ nams < MaxNams /\ nams' = nams + 1
  /\ calls' = [i \in DOMAIN calls |-> Dropped(calls[i])]
  /\ cache' \in {cache, NoEntry}
  /\ UNCHANGED <<mbid, loved, listening, server, raced, mixed, heard>>

(* External: a change whose reply was deleted may still reach the service. *)
ServeLost(i) ==
  /\ calls[i].stage = "lost" /\ Over(i)
  /\ server' \in {server, calls[i].value}
  /\ heard' = IF server' # server THEN {} ELSE heard
  /\ UNCHANGED <<mbid, loved, listening, cache, nams, raced, mixed>>

(* Seeded bug: copied from onLoveFinished(). *)
OnChangeFinishedLoves(i) ==
  /\ calls[i].stage = "served" /\ IsChange(calls[i]) /\ Over(i)
  /\ LET t == calls[i].track
     IN  IF calls[i].ok THEN /\ loved' = [loved EXCEPT ![t] = TRUE]
                             /\ heard' = heard \cup {t}
         ELSE heard' = heard \ {t} /\ UNCHANGED loved
  /\ UNCHANGED <<mbid, listening, server, cache, nams, raced, mixed>>

(* onLoveFinished(), onUnloveFinished().                                   *)
OnChangeFinished(i) ==
  /\ calls[i].stage = "served" /\ IsChange(calls[i]) /\ Over(i)
  /\ LET t == calls[i].track
     IN  IF calls[i].ok
         THEN /\ loved' = [loved EXCEPT ![t] = calls[i].value]
              /\ heard' = heard \cup {t}
         ELSE heard' = heard \ {t} /\ UNCHANGED loved
  /\ UNCHANGED <<mbid, listening, server, cache, nams, raced, mixed>>

(* Seeded bug: an answer that failed is told to nobody. *)
OnGotInfoSound(i) ==
  /\ calls[i].stage = "served" /\ ~IsChange(calls[i]) /\ Over(i)
  /\ LET t == calls[i].track
     IN  /\ loved' = [loved EXCEPT ![t] = calls[i].ok /\ calls[i].value]
         /\ heard' = IF calls[i].ok THEN heard \cup {t} ELSE heard \ {t}
         /\ listening' = IF calls[i].ok THEN listening \ Listeners(t) ELSE listening
  /\ cache' = IF calls[i].ok /\ calls[i].method = "getInfo"
              THEN [cache EXCEPT ![calls[i].url] = calls[i].value] ELSE cache
  /\ UNCHANGED <<mbid, server, nams, raced, mixed>>

(* The manager caches a sound answer from the network.  onGotInfo() then   *)
(* takes `userloved', 0 where there is none, tells whoever is connected,   *)
(* and disconnects them all, the callers of later requests too.            *)
OnGotInfo(i) ==
  /\ calls[i].stage = "served" /\ ~IsChange(calls[i]) /\ Over(i)
  /\ LET t == calls[i].track
     IN  /\ loved' = [loved EXCEPT ![t] = calls[i].ok /\ calls[i].value]
         /\ heard' = IF calls[i].ok THEN heard \cup {t} ELSE heard \ {t}
         /\ listening' = listening \ Listeners(t)
  /\ cache' = IF calls[i].ok /\ calls[i].method = "getInfo"
              THEN [cache EXCEPT ![calls[i].url] = calls[i].value] ELSE cache
  /\ UNCHANGED <<mbid, server, nams, raced, mixed>>

Answered(i) == OnChangeFinished(i) \/ OnGotInfo(i)
Next == \/ \E t \in Tracks : \/ \E method \in {"love", "unlove"} : Change(t, method)
                             \/ GetInfo(t)
        \/ \E i \in DOMAIN calls : Serve(i) \/ ServeLost(i) \/ Answered(i)
        \/ SetNetworkAccessManager
Spec     == Init /\ [][Next]_vars
(* Every request whose reply is there is answered or fails in the end.     *)
FairSpec == Spec /\ \A i \in 1 .. MaxCalls :
                      WF_vars(i \in DOMAIN calls /\ (Serve(i) \/ Answered(i)))

-----------------------------------------------------------------------------
(* The type of the state.                                                  *)
TypeOK ==
  /\ loved \in [Tracks -> BOOLEAN] /\ server \in BOOLEAN
  /\ cache \in [Urls -> BOOLEAN \cup {None}]
  /\ \A i \in DOMAIN calls :
       /\ calls[i].stage \in {"sent", "served", "lost", "over", "deleted"}
       /\ calls[i].method = "cached" => calls[i].stage # "sent"
       /\ calls[i].stage = "lost" => IsChange(calls[i])
  /\ \A i \in listening : i \in DOMAIN calls /\ ~IsChange(calls[i])

(* The entry that getInfo() will read says what the service says: a change *)
(* removes it, whether the change is answered or fails.  Not so when a     *)
(* getInfo() was under way meanwhile, whose older answer is cached behind  *)
(* the change, nor for an entry under the url of a track of the same song  *)
(* with other identifiers.                                                 *)
CacheIsFresh ==
  ~raced /\ ~mixed => \A u \in Urls : cache[u] \in {None, server}

(* An entry has its type and says what the service says.                   *)
CacheIsTrue == TypeOK /\ CacheIsFresh

(* When all is answered, a track whose last answer was sound has the       *)
(* service's `loved', by what its own calls said alone.  Changes that      *)
(* overlap may be answered in the other order.                             *)
LovedIsTheServers ==
  ~raced /\ ~mixed /\ Pending = {} => \A t \in heard : loved[t] = server

(* Every caller of getInfo() that has connected gotInfo() and whose reply  *)
(* is under way is told: by its own answer, also by one that failed, or by *)
(* that of another call for the same TrackData, which disconnects it       *)
(* before its own comes.  Not so when the manager is replaced first.       *)
CallerIsTold ==
  \A i \in 1 .. MaxCalls :
    i \in listening ~> i \notin listening \/ calls[i].stage = "deleted"
=============================================================================
