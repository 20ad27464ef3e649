------------------------------ MODULE TrackForm ------------------------------
(***************************************************************************)
(* A track as it goes to the scrobble cache file and comes back from it    *)
(* (src/types/Track.cpp), what is sent of it, whether the cache takes it   *)
(* (src/scrobble/ScrobbleCache.cpp) and when it counts as listened to      *)
(* (src/scrobble/ScrobblePoint.h).  Numbers have a width; a time is the    *)
(* seconds since 1970, -1 before that and NullTime when it is not set.     *)
(***************************************************************************)
EXTENDS Integers, Sequences

CONSTANTS
  UIntMod,   \* numbers of a uint
  Past,      \* 2003-01-01
  Future,    \* a month from now
  Unknown    \* the artists that are refused

ASSUME TimeAssumption ==
  UIntMod \in Nat /\ Past \in Nat /\ Future \in Nat /\ Future < UIntMod - 1

Empty == ""     \* QString()
MinLength == 31   \* kScrobbleMinLength
TimeMax == 240    \* kScrobbleTimeMax
NullTime == -2
Unset == UIntMod - 1   \* uint(-1)

(* QDateTime::toTime_t(), and toInt() and toUInt() of a number that was    *)
(* written; what does not fit becomes 0.                                   *)
ToTime_t(time) == IF time < 0 THEN Unset ELSE time
ToInt(n)  == IF n < UIntMod \div 2 THEN n ELSE 0
ToUInt(n) == IF n < 0 THEN 0 ELSE n

(* The elements of toDomElement() that the constructor reads back.  An     *)
(* element that is empty is not written, and what is not there reads as    *)
(* empty or 0.                                                             *)
ToDomElement(t) == [t EXCEPT !.time = ToTime_t(t.time)]

(* Seeded bug: toInt() for the timestamp as for the numbers around it.     *)
TimestampInt(written) == ToInt(written)

Timestamp(written) == ToUInt(written)

FirstOf(images) == IF images = <<>> THEN <<>> ELSE <<images[1]>>

(* Track(QDomElement).  mbId, fpId and the context are not read, the track *)
(* number is cleared, and of the images the loop takes the first only: it  *)
(* goes on from the next sibling of the track.                             *)
FromDomElement(e) ==
  [artist |-> e.artist, correctedArtist |-> e.correctedArtist,
   albumArtist |-> e.albumArtist, album |-> e.album, title |-> e.title,
   duration |-> ToInt(e.duration), time |-> Timestamp(e.time),
   rating |-> ToUInt(e.rating), trackNumber |-> 0, mbid |-> Empty, fpid |-> Unset,
   playerId |-> e.playerId, images |-> FirstOf(e.images)]

Restarted(t) == FromDomElement(ToDomElement(t))

(* Track::title(), and an Artist where a string is asked for.              *)
Named(name) == IF name = Empty THEN "[unknown]" ELSE name

(* What scrobble() sends of a track in a batch; of the album the emptiness *)
(* is asked before.                                                        *)
Sent(t) ==
  [duration |-> t.duration, timestamp |-> ToTime_t(t.time),
   track |-> Named(t.title), context |-> t.playerId, artist |-> Named(t.artist),
   albumArtist |-> Named(t.albumArtist), album |-> t.album, mbid |-> t.mbid]

(* isValid(): the first test that fails.  The title is asked by its name,  *)
(* which is never empty.                                                   *)
Invalidity(t) ==
  CASE t.duration < MinLength                      -> "TooShort"
    [] t.duration >= MinLength /\ t.time = NullTime -> "NoTimestamp"
    [] t.duration >= MinLength /\ t.time # NullTime ->
         IF t.time > Future THEN "FromTheFuture"
         ELSE IF t.time < Past THEN "FromTheDistantPast"
         ELSE IF t.artist = Empty THEN "ArtistNameMissing"
         ELSE IF Named(t.title) = Empty THEN "TrackNameMissing"
         ELSE IF t.artist \in Unknown THEN "ArtistInvalid" ELSE "none"
IsValid(t) == Invalidity(t) = "none"

(* Seeded bug: the bound itself does not count.                            *)
QBoundBeyond(least, n, most) ==
  IF n <= least THEN least + 1 ELSE IF n > most THEN most ELSE n

QBound(least, n, most) == IF n < least THEN least ELSE IF n > most THEN most ELSE n
ScrobblePoint(j) == QBound(MinLength, IF j = 0 THEN UIntMod - 1 ELSE j, TimeMax)
=============================================================================
