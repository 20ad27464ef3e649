------------------------------- MODULE MCParts -------------------------------
(***************************************************************************)
(* The parts of the library that no other component runs against: each is  *)
(* checked against what it stands for, over small inputs.  A behaviour is  *)
(* the life of one part.                                                   *)
(***************************************************************************)
EXTENDS Sha256, FloatingAverage, FilterBank, Mbid, TrackForm, RadioStation

CONSTANTS
  MaxMessage, MaxPiece,  \* bytes of a message and of one piece of it
  MaxSize, Values,       \* of an average, and what is added to it
  MaxNames,              \* of a station
  TagFrames,             \* the frames an ID3 tag is made of
  MaxTagFrames,          \* and how many of them
  Paddings, Cuts         \* bytes behind them, and of a file that are there

ASSUME MessageAssumption == MaxMessage \in Nat /\ MaxPiece \in Nat
ASSUME StationAssumption == MaxNames \in Nat
ASSUME TagAssumption ==
  /\ MaxTagFrames \in Nat /\ Paddings \subseteq Nat /\ Cuts \subseteq Nat
  /\ \A frame \in TagFrames :
       /\ frame.size \in Nat /\ frame.musicbrainz \in BOOLEAN
       /\ frame.name # NoName /\ (frame.musicbrainz => frame.name = "UFID")
ASSUME AverageAssumption == MaxSize \in Nat /\ Values \subseteq Int

VARIABLE s

-----------------------------------------------------------------------------
(* The inputs. *)

MCGarbage == {-18, 0, 59}
MCUnknown == {"unknown"}
MCRank    == [n \in {"anna", "bob", "tag"} |->
                CASE n = "anna" -> 1 [] n = "bob" -> 2 [] n = "tag" -> 3]

Hash == {[part |-> "hash", fast |-> fast, sc |-> HashInit, fed |-> 0, final |-> FALSE] :
           fast \in BOOLEAN}

Average == UNION {{[part |-> "average", avg |-> NewAverage(old), last |-> <<>>] :
                     old \in [1 .. size -> {7}]} : size \in 1 .. MaxSize}

FilterOf == {[part |-> "filter", f |-> f] : f \in Filters}

Image == UNION {{[part |-> "image", power |-> power, bands |-> n] :
                   power \in [1 .. 2 -> [1 .. n -> 0 .. 2]]} : n \in 1 .. 3}

(* OptFFT's m_powTable for 300 to 2000 Hz, and the coefficient of 300 Hz.  *)
PowTable == <<0, 6, 13, 20, 28, 37, 45, 55, 65, 75, 86, 98, 110, 123, 137, 152,
              168, 184, 202, 220, 240, 261, 283, 306, 331, 357, 385, 414, 445,
              478, 513, 550, 590, 631>>
MinCoef == 111
Spectrum == {[part |-> "spectrum", band |-> band, size |-> size] :
               band \in 1 .. Bands, size \in 20 .. 26}

TagFrame(name, size, mb, mbid) ==
  [name |-> name, size |-> size, musicbrainz |-> mb, mbid |-> mbid]
MCFrames == {TagFrame("other", 8, FALSE, NoMbid), TagFrame("UFID", 59, TRUE, "m1"),
             TagFrame("UFID", 59, TRUE, "m2"), TagFrame("UFID", 59, FALSE, "u1"),
             TagFrame("UFID", 20, FALSE, "u2")}
Files == [id3 : BOOLEAN, version : 2 .. 4, extended : BOOLEAN,
          frames : BoundedSeq(TagFrames, MaxTagFrames), padding : Paddings, cut : Cuts]
NewReader == [phase |-> "idle", s |-> TRUE, file |-> NoMbid, name |-> NoName, pos |-> 0,
              tag |-> 0, mbid |-> NoMbid]
Reader == {[part |-> "mbid", reader |-> NewReader, ready |-> TRUE, plain |-> TRUE]}

TrackForms ==
  [artist : {Empty, "unknown", "elsa"}, correctedArtist : {Empty, "unknown"},
   albumArtist : {Empty, "elsa"}, album : {Empty, "lp"}, title : {Empty, "one"},
   duration : {0, 30, 31, 511, 1000}, time : {NullTime, -1, 0, 99, 100, 512, 600, 601},
   rating : {-1, 3}, trackNumber : {4}, mbid : {Empty, "m1"}, fpid : {5},
   playerId : {"p"}, images : {<<>>, <<"small", "large">>}]
Tracks == {[part |-> "track", track |-> t] : t \in TrackForms}

NameLists  == UNION {[1 .. n -> DOMAIN Rank] : n \in 1 .. MaxNames}
TagFilters == {<<>>, <<<<"rock">>>>, <<<<"rock">>, <<"pop">>>>}
Stations == {[part |-> "station", names |-> names, filter |-> filter] :
               names \in NameLists, filter \in TagFilters}

-----------------------------------------------------------------------------
Init == s \in Hash \cup Average \cup FilterOf \cup Image \cup Spectrum
                \cup Reader \cup Tracks \cup Stations

Message(from, to) == [i \in 1 .. to - from + 1 |-> <<"message", from + i - 1>>]

HashUpdate ==
  /\ s.part = "hash" /\ ~s.final
  /\ \E n \in 0 .. MaxPiece :
       /\ s.fed + n <= MaxMessage
       /\ s' = [part |-> "hash", fast |-> s.fast, fed |-> s.fed + n, final |-> FALSE,
                sc |-> Update(s.fast, s.sc, Message(s.fed + 1, s.fed + n))]

HashFinal ==
  /\ s.part = "hash" /\ ~s.final
  /\ s' = [part |-> "hash", fast |-> s.fast, fed |-> s.fed, final |-> TRUE,
            sc |-> Final(s.fast, s.sc)]

LastOf(seq, n) == IF Len(seq) > n THEN SubSeq(seq, Len(seq) - n + 1, Len(seq)) ELSE seq

AverageAdd ==
  /\ s.part = "average"
  /\ \E v \in Values :
       s' = [part |-> "average", avg |-> Added(s.avg, v),
             last |-> LastOf(Append(s.last, v), Len(s.avg.values))]

AverageClear ==
  /\ s.part = "average"
  /\ s' = [part |-> "average", avg |-> Cleared(s.avg), last |-> <<>>]

AveragePurge ==
  /\ s.part = "average" /\ s.avg.bufferFilled
  /\ s' = [s EXCEPT !.avg = Purged(@)]

(* A whole file, whose tag has no extended header.                         *)
Plain(f) == f.cut >= Whole(f) /\ (f.id3 => ~f.extended)

MbidOpen ==
  /\ s.part = "mbid" /\ s.reader.phase = "idle"
  /\ \E f \in Files : \E r \in Opened(s.reader, f) : s' = [s EXCEPT !.reader = r]

MbidFrame ==
  /\ s.part = "mbid" /\ s.reader.phase = "frames"
  /\ \E r \in FrameRead(s.reader) : s' = [s EXCEPT !.reader = r]

(* The next call: ready is the s that it finds, plain that every file so   *)
(* far was so.                                                             *)
MbidNext ==
  /\ s.part = "mbid" /\ s.reader.phase = "answer"
  /\ s' = [s EXCEPT !.reader = [NewReader EXCEPT !.s = s.reader.s],
                    !.ready = s.reader.s, !.plain = @ /\ Plain(s.reader.file)]

Restart ==
  /\ s.part = "track"
  /\ s' = [s EXCEPT !.track = Restarted(@)]

Next == HashUpdate \/ HashFinal \/ AverageAdd \/ AverageClear \/ AveragePurge
          \/ MbidOpen \/ MbidFrame \/ MbidNext \/ Restart

Spec == Init /\ [][Next]_s

-----------------------------------------------------------------------------
(* SHA256Update() and SHA256Final() compress the message, one byte of 0x80 *)
(* and zeros as few as make whole blocks, and the length in bits, in their *)
(* order and nothing else, however the message was cut into pieces.        *)
Flat(blocks) == FlattenSeq(blocks)
Zeros(n) == CHOOSE k \in 0 .. BlockSize - 1 : (n + 1 + k + LengthBytes) % BlockSize = 0
Padded(n) == Message(1, n) \o <<<<"pad", 128>>>> \o [i \in 1 .. Zeros(n) |-> <<"pad", 0>>]
               \o [i \in 1 .. LengthBytes |-> <<"length", 8 * n>>]
DigestIsOfTheMessage ==
  s.part = "hash" =>
    /\ Flat(s.sc.hashed) \o s.sc.buffer
         = IF s.final THEN Padded(s.fed) ELSE Message(1, s.fed)
    /\ Len(s.sc.buffer) < BlockSize
    /\ s.final => s.sc.buffer = <<>>
    /\ \A i \in DOMAIN s.sc.hashed : Len(s.sc.hashed[i]) = BlockSize

(* The running sum of FloatingAverage is the sum of the last values as     *)
(* many as it holds, whatever its array held before, and getAverage()      *)
(* divides it by their number.                                             *)
AverageIsOfTheLast ==
  s.part = "average" =>
    /\ s.avg.sum = SumOf(s.last)
    /\ s.last # <<>> => Counted(s.avg) = Len(s.last)

(* No filter looks outside of the integral image in computeBits(), at no   *)
(* time that there are keys for: it does not check its first time, and of  *)
(* the bands only the first one.                                           *)
FiltersStayInside ==
  s.part = "filter" =>
    \A frames \in {KeyFrames, 2 * KeyFrames + 1} : \A t2 \in {FirstTime, LastTime(frames)} :
      LET c == Corners(s.f, t2)
      IN  /\ \A w \in TimeWeights(s.f, c) : w[1] \in 1 .. frames
          /\ \A w \in BandWeights(s.f, c) : w[1] \in 1 .. Bands

(* On sound that is as loud at all times and in all bands, the filter for  *)
(* the total energy counts its whole rectangle, and the ones for changes   *)
(* over time give nothing; for changes over bands, when the bands halve.   *)
FiltersAreBalanced ==
  s.part = "filter" =>
    LET value == FlatValue(s.f, FirstTime)
    IN  /\ s.f.filter_type = 1 => value = s.f.wt * s.f.wb
        /\ s.f.filter_type \in {2, 4, 5} => value = 0
        /\ s.f.filter_type \in {3, 6} /\ s.f.wb % 2 = 0 => value = 0

(* A cell of the integral image is the sum of all powers up to it.         *)
IntegralIsTheSum ==
  s.part = "image" =>
    LET image == IntegralImage(s.power, 2, s.bands)
    IN  \A y \in 1 .. 2, x \in 1 .. s.bands :
          image[y, x] = SumOf([i \in 1 .. y |-> SumOf(SubSeq(s.power[i], 1, x))])

(* The power of a band is divided by as many coefficients as were added    *)
(* up, which lie in the output of the transform, and the frames of a piece *)
(* of data lie in the data.                                                *)
BandsAreAverages ==
  s.part = "spectrum" =>
    /\ Divisor(PowTable, s.band) = Cardinality(Coefficients(PowTable, s.band, MinCoef))
    /\ Coefficients(PowTable, s.band, MinCoef) \subseteq 0 .. 1024
    /\ LET n == Frames(s.size, 20, 2)
       IN  FirstSample(n, 2) + 20 - 1 <= s.size /\ FirstSample(n + 1, 2) + 20 - 1 > s.size

(* From the data to the keys: frames, bands, the integral image, filters.  *)
FilterBankFits ==
  FiltersStayInside /\ FiltersAreBalanced /\ IntegralIsTheSum /\ BandsAreAverages

(* getMP3_MBID(), which finds its s set, finds the first identifier of a   *)
(* whole file with a tag of version 2.4, without extended header, of at    *)
(* most TagLimit bytes and with UFID frames of 59 bytes only.              *)
MbidFrames(f) == {k \in DOMAIN f.frames : f.frames[k].musicbrainz}
UfidsFit(f) ==
  \A k \in DOMAIN f.frames : f.frames[k].name = "UFID" => f.frames[k].size = UfidData
Readable(f) ==
  f.id3 /\ Plain(f) /\ f.version = 4 /\ UfidsFit(f) /\ TagSize(f) <= TagLimit
IsFirstMbid(f, mbid) ==
  IF MbidFrames(f) = {} THEN mbid = NoMbid
  ELSE \E k \in MbidFrames(f) :
         mbid = f.frames[k].mbid /\ \A j \in MbidFrames(f) : k <= j
MbidIsFound ==
  s.part = "mbid" /\ s.reader.phase = "answer" /\ s.ready /\ Readable(s.reader.file)
    => IsFirstMbid(s.reader.file, s.reader.mbid)

(* And its s stays set as long as each file was whole and had no extended  *)
(* header, also of version 2.3, whose sizes are read wrong.  After another *)
(* no file is read any more.                                               *)
ReadersStayReady == s.part = "mbid" /\ s.plain => s.ready

(* What getMP3_MBID() finds stands in that very file: in a UFID frame of   *)
(* MusicBrainz, or else where its frames are not followed; it is made up   *)
(* of other bytes only for a file that is cut or has an extended header.   *)
MbidIsOfTheFile ==
  s.part = "mbid" /\ s.reader.phase = "answer" /\ s.reader.mbid # NoMbid =>
    \/ s.reader.mbid = GarbageMbid /\ ~Plain(s.reader.file)
    \/ s.reader.mbid = JunkMbid /\ ~Readable(s.reader.file)
    \/ \E k \in DOMAIN s.reader.file.frames :
         s.reader.file.frames[k].musicbrainz /\ s.reader.file.frames[k].mbid = s.reader.mbid

(* An identifier is found where there is one, and only there, file after   *)
(* file.                                                                   *)
MbidIsRight == MbidIsFound /\ ReadersStayReady /\ MbidIsOfTheFile

(* A track that comes back from the cache file is as valid as before and   *)
(* is sent as before, but for the mbid, which is written and not read; and *)
(* a second restart changes nothing more.  A duration needs to fit an int. *)
TracksSurvive ==
  s.part = "track" /\ s.track.duration < UIntMod \div 2 =>
    LET again == Restarted(s.track)
    IN  /\ IsValid(again) <=> IsValid(s.track)
        /\ Sent(again) = [Sent(s.track) EXCEPT !.mbid = Empty]
        /\ Restarted(again) = again

(* The point of half its duration can be reached by listening in a track   *)
(* that is long enough for the cache, and in no other: not in one of which *)
(* the length is 0 or only just too short.                                 *)
PointIsReached ==
  s.part = "track" =>
    (ScrobblePoint(s.track.duration \div 2) <= s.track.duration
       <=> s.track.duration >= MinLength)

(* What a track is worth to the service does not change over a restart,    *)
(* and it counts by listening if and only if it is long enough.            *)
TracksKeepTheirWorth == TracksSurvive /\ PointIsReached

(* The url of a station is what it was made from, and makes the station    *)
(* again with its filter, unless a part of it is "tag" itself.             *)
StationComesBack ==
  s.part = "station" => \A url \in Factories(s.names) :
    LET station  == SetString(url)
        filtered == SetTagFilter(station, s.filter)
    IN  /\ Url(station) = url
        /\ <<"tag">> \notin ToSet(filtered.url) => SetString(Url(filtered)) = filtered

(* The same names in any order are the same stations.                      *)
SameStation ==
  s.part = "station" =>
    \A names \in Reordered(s.names) :
      /\ SetString(LibraryStr(names)) = SetString(LibraryStr(s.names))
      /\ SetString(TagStr(names)) = SetString(TagStr(s.names))
      /\ SetString(SimilarStr(names)) = SetString(SimilarStr(s.names))

(* A station is its url, whoever wrote the url and in whatever order.      *)
StationsComeBack == StationComesBack /\ SameStation
=============================================================================
