# liblastfm in TLA+

Specifications of liblastfm's client logic: what it keeps, what it puts on the wire, and
what the answers do to it, in whatever order they arrive. They are model-checked with TLC on
small instances; the theorems hold for every value of the constants and are checked by TLAPS.
Paths are relative to the repository's root in `src/`, so the library is under `src/src/`.

## 1. Inventory

Everything but the events of Windows, which COM delivers, lives in one thread, the one of Qt's
event loop. A slot runs to its end before the next one starts, so the interleavings that matter are
those of *slots*: answers of the service, timers, notices of the platform and calls of the
application, in every order. Replies belong to the shared `QNetworkAccessManager`, so
`setNetworkAccessManager()` deletes them all without any slot being run.

| part | state it keeps | operations | talks to | hard part | correct when |
|---|---|---|---|---|---|
| `Audioscrobbler`, scrobbling | `m_batch`, `m_scrobbleReply` | `cache`, `cacheBatch`, `submit`, `onTrackScrobbleReturn` | `ScrobbleCache`, `Track`, ws | answers matched by position, retries, one reply at a time | one POST, of the head of the list; nothing lost, nothing sent again |
| `Audioscrobbler`, now playing | `m_nowPlayingTrack`, `m_nowPlayingReply` | `nowPlaying`, `onNowPlayingReturn` | `Track`, ws | a call between a POST and its answer | corrections reach the track they were made for |
| `ScrobbleCache` | the list and its XML file | `add`, `remove`, `read`, `write` | the file system | a death within `write()`, removal by equality | the file lists what the list holds |
| `ScrobblePoint` | a number | constructor | `ScrobbleCache::isValid` | unsigned arithmetic | between 31 and 240 |
| `Track`, `TrackData` | shared fields of all copies | setters, `love`, `unlove`, `getInfo`, XML form | ws, listeners | answers that write one shared object | `loved` follows the last call |
| `RadioTuner` | playlist queue, retry counter, two flags, a timer | `retune`, `takeNextTrack`, five slots | `Xspf`, ws | three ways to fetch, delays, late answers | no starvation, expired tracks gone |
| `Xspf` | tracks, expiry timer | constructor, `takeFirst`, `onExpired` | `RadioTuner` | expiry after the owner forgot it | told once |
| `RadioStation` | a URL | constructors for names | none | quoting | the URL of the station |
| `ws` | the shared manager, session key | `get`, `post`, `parse`, `setNetworkAccessManager` | everything | what `parse()` throws | every error is a `ParseError` |
| `NetworkAccessManager` | proxy settings | `createRequest` | monitors, `Pac` | cached answers | |
| `InternetConnectionMonitor`, `NetworkConnectionMonitor` | `m_up`, `m_connected` | three slots, `setConnected` | the platform, all calls | two sources of truth, late answers | `up` follows `down`, agrees with the world |
| Windows: `NdisEvents`, `WmiSink`, `Pac` | callback, reference count, failed flag | COM calls | COM threads | real threads | no call after `disconnect()` |
| `Fingerprint`, `FingerprintId` | `m_id`, `m_data`, `m_complete` | `generate`, `submit`, `decode` | `Collection`, extractor, ws | order of calls, errors half-way | `id()` valid after `decode()` |
| `Collection` | two tables | get and set of identifiers | the database | schema upgrade | what was set is read |
| `FingerprintExtractor`, `fp_helper_fun` | sample buffers, keys in groups, phase | `initFor...`, `process`, `getFingerprint` | `CircularArray`, `OptFFT` | buffers cut anywhere | the fingerprint does not depend on the cuts |
| `CircularArray`, `FloatingAverage` | a ring, a sum | iterators, shifts | extractor | wrapping indices | a sequence |
| `OptFFT`, `Filter` | FFT plans, tables | | extractor | floating point | |
| `Sha256` | block buffer, bit count | init, update, final | `Fingerprint` | buffering over updates | does not depend on the cuts |
| audio sources | decoder handles, left-over samples | `init`, `skip`, `updateBuffer` | decoders | left-overs | no sample lost or repeated |
| `User`, `Artist`, `Album`, `Tag`, ... | none between calls | requests, readers of answers | ws, `XmlQuery` | | |
| `XmlQuery`, `UrlBuilder`, `misc` | none | selectors, escapes | | | |

`PROJECT.json` lists every part with its sources and what is left out of it, and the hazards
of the code line by line.

## 2. The modules

| module | models | composes or extends |
|---|---|---|
| `Outbox` | abstract: what a scrobbler promises of the tracks it is handed | |
| `Scrobbler` | scrobbling half of `Audioscrobbler`, `ScrobbleCache`, the Track objects, file, server | refines `Outbox` |
| `MCScrobbler` | `Scrobbler` with symmetric objects for TLC | `Scrobbler` |
| `ScrobblerProofs` | theorems: its safety, the refinement and the status shown | `Scrobbler` |
| `NowPlaying`, `NowPlayingProofs` | the now-playing half | |
| `TrackLove`, `TrackLoveProofs` | `love`, `unlove`, `getInfo`, their answers and the cached ones | |
| `RadioTuner`, `RadioTunerProofs` | the tuner, its playlists' timers, what `parse()` throws, the session on the server | |
| `Connectivity`, `ConnectivityProofs` | both monitors on Linux, Mac and Windows, the calls they follow | |
| `AutoProxy` | the proxy lookup of `NetworkAccessManager` and `Pac` | extends `Connectivity` |
| `Collection` | the SQLite collection: constructor statement by statement, upgrade, accessors | |
| `FingerprintSession`, `MCFingerprint`, `FingerprintProofs` | `Fingerprint`: constructor, `generate`, `submit`, `decode`, several processes | extends `Collection` |
| `PcmSource` | the interface, the file, the loop of `Fingerprint::generate()` | |
| `AacSource`, `MadSource`, `FlacSource`, `VorbisSource` | the four sources | extend `PcmSource` |
| `MCSources` | one source of each kind under the loop | the five above |
| `FingerprintKeys` | the key groups of `fp_helper_fun.h` | |
| `FingerprintExtractor`, `FingerprintExtractorProofs` | `process()`: phases, buffers, blocks, windows | extends `FingerprintKeys` |
| `FilterBank` | frames and bands of `OptFFT`, the integral image, the filters and their corners | |
| `FloatingAverage`, `Sha256`, `Mbid`, `TrackForm`, `RadioStation` | what their names say; `TrackForm` is the saved form of a track, `isValid()`, `scrobble()`'s fields and `ScrobblePoint` | |
| `MCParts`, `PartsProofs` | the life of one such part; theorems on those whose input has any size | the six above |

The halves of `Audioscrobbler` share no variable but the Track objects, and neither reads what the
other writes there, so each is a module. Both call `parseTrack()`, which sets corrected names and,
for scrobbles, status and error. `Track::operator==`, `remove()` and the POST read the original
names only, so `Scrobbler` keeps the status; `NowPlaying` keeps the corrected names.

Operators whose comment begins *Seeded bug* are variants of an operator with a plausible
mistake. No action uses them; they show that each property can fail (`mutants` in
`PROJECT.json` says which replaces which). A property that joins several conjuncts has a
seeded bug for each that a single mistake can break.

### Scrobbler and Outbox

A place in `ScrobbleCache::m_tracks` is named by its *play*, the number of the track among all
that were handed to `cacheBatch()`. The list grows at its end only, so list order is play
order; a list is a function from plays to Track objects, a file one from plays to records.
Two plays may map to one object, since copies of a `Track` share their `TrackData`: the
application hands over the same object twice, or stamps it anew in between.

| code | action |
|---|---|
| a `Track` filled in, `MutableTrack::stamp()` | `NewTrack`, `Restamp` |
| `cache()`, `cacheBatch()` with `add()`, `write()`, `submit()` | `CacheBatch` |
| `submit()` | `Submit` |
| the service takes a POST and ignores some of its scrobbles | `Serve` |
| `onTrackScrobbleReturn()` with `parseTrack()`, `remove()`, `write()` | `ScrobbleReturn` |
| `setNetworkAccessManager()` | `ReplacesNam` |
| death of the process, also within `write()`; the constructors | `Crash`, `Restart` |

`cacheBatch()` writes the file before it marks the tracks, and this order is kept: `disk` gets
the old status. `Torn` is what a cut file reads as: the first records, the last one without the
fields behind the cut. `toDomElement()` writes artist, album and title first, then time stamp and
status, and `read()` takes what is there: a cut within the song leaves another one (`Remnants`),
that cannot be told from a song the application handed over. `lost` has the plays whose song a tear
took. A play is `settled` when its POST came back ok or refused.

`Outbox` knows nothing of files, replies, statuses or objects: tracks wait in the order they
came, the oldest are sent, one batch at a time, an answer settles each track with a song of
the batch, a crash keeps a prefix, of which the last track may read as a remnant of its song
(`TornWithin`). `Delivery` in `Scrobbler` maps the plays of the file to
`waiting` and the batch that a reply is awaited for to `sending`; `DeliversInOrder` is
`Delivery!Spec`.

Abstracted: `title`, `album` and `artist` are one song, which is what `Track::operator==`
compares; `isValid()` is a Boolean of the track; a write succeeds unless the process dies;
listeners of signals do not call back; `Q_ASSERT` is compiled out; titles of tracks in the
list are not edited.

### NowPlaying

`Playing` is `nowPlaying()`, `OnNowPlayingReturn` the slot with what `parseTrack()` writes,
`ReplaceNam` the exchange of the manager. `corrected` says whose names each Track carries.

### TrackLove

All tracks are of one song, some with a MusicBrainz id, so that `getInfo()` asks for two urls.
`Change` is `love()` or `unlove()` with `invalidateGetInfo()`, which runs when the request is
posted; `Serve` is the service, which takes requests in any order; `OnChangeFinished` and
`OnGotInfo` are the slots. `listening` has the calls of `getInfo()` whose caller is still connected
to `gotInfo()`: the first answer for a `TrackData` disconnects them all (`Listeners`).
`SetNetworkAccessManager` deletes the replies under way; a change that was not served yet may still
be (`ServeLost`). `raced` and `mixed` remember what the promise does not cover: requests that
overlap, and an entry under the song's other url.

### RadioTuner

One action per slot and method. `fetching`, `requested` and `timer` are
`m_fetchingPlaylist`, `m_requestedPlaylist` and the two-second timer. A playlist is a count of
tracks with the station it was cut for. `xspfs` are the `Xspf` objects whose expiry timer
runs: they live on in no queue after being drained or dropped by `retune()`, and their timer
still fires. `Serve` is the service: a playlist is cut for the station the session is at when
the call arrives. `onTwoSecondTimeout()` posts without looking at the timer because a
single-shot timer is inactive in its own slot. What `parse()` does is one of three: return,
throw a `ParseError`, or throw a bare `ws::Error`, which its exception specification turns
into the end of the process.

### Connectivity and AutoProxy

`platform` is the monitor that was built. The constructors are two steps, `ReadState` and
`Watch`, since the world may change between the read of the state and the connect, and the
read over D-Bus may fail (`missed` remembers both). `notices` are `StateChange` signals
(Linux), callbacks of the run loop (Mac) or WMI events (Windows) not yet received; those of
Windows also come for other adapters (`OtherAdapter`) and, since `Indicate()` may be called
back before the slots are connected, unheard (`IndicateEarly`). How a call ends is decided
(`End`) before its `finished()` is received (`OnFinished`), so late news of an earlier state of
the network come in any order. A call that ends with an error other than those of
`onFinished()`, or is answered out of the cache, ends as `"other"`.

`AutoProxy` adds `pac`, the memory of `Pac` of a failed lookup: each call asks `proxy()`, and
`onConnectivityChanged()` clears the failure when `up` is told. COM delivers `Indicate()` to the
apartment that `ComSetup` makes with `CoInitialize(0)`, that is through the message loop of the
main thread. `WNetworkConnectionMonitor` is never destroyed, because `NetworkConnectionMonitor`
drops the parent it is given (`src/src/ws/NetworkConnectionMonitor.cpp:23`), so
`~NdisEvents()` and `disconnect()` never run and have no action.

### Collection and FingerprintSession

Each process has a place `at` in the constructor of `Collection` and takes one statement per
step: tables, index, the version read, the wipe of old identifiers, the version written. A
statement may fail, which the code passes over, and a process may die between two. A SELECT may
fail, too: `version()` then answers 0 and an upgraded collection is wiped (`behind` has the
processes that are about to), `tables()` lists none, and an identifier reads as missing. A file that
cannot be opened leaves a process whose later queries all fail (`"shut"`). `rows` is
the `files` table, for each file the identifiers of its rows, oldest first (no statement compares
rows of two files); REPLACE deletes by the unique index, if there is one.
`getFingerprintId` and `setFingerprintId` are the accessors, `ToInt` their conversions of width.
`New`, `Generate`, `Submit` and `Decode` are those of `Fingerprint`, `SetUrl` is the player
giving a shared track another url, `Destroy` the end of an object. `Decode` stores under the
url the track has *then*.

### The audio sources

A `file` is a sequence of frames with bytes, samples, loudness, a header that may be broken and a
body that may not decode, with tags and junk for AAC and MP3. An ID3 tag that is larger than the
input buffer makes `bufSize -= tagsize` wrap around (`src/src/fingerprint/contrib/AacSource.cpp:239`):
the process ends (phase `"dead"`). libFLAC may fail to read the file: its decoder is aborted for good,
and `updateBuffer()` returns nothing, with what it had copied forgotten. Milliseconds become samples
by `ToSamples` and `ToMs`, cut off to whole numbers. A byte is its place in the file and a sample
its place in the stream, so a piece that is lost, repeated or exchanged shows. The decoding libraries are
external and modelled by how the code uses them: `NeAACDecDecode` and `mad_frame_decode` take
a frame from the input buffer or ask for more, libFLAC calls `write_callback`, `ov_read` gives
any part of a frame. Steps of the loop are `init`, `getInfo`, `skipSilence`, `skip`,
`updateBuffer` and the test of `eof()`.

### FingerprintExtractor and its parts

`signal` is what one pass over the track would find. A cell of the buffer is the place of its
sample and how often it was divided, and by which average; blocks are moved as the code copies
them. `FingerprintKeys` has the groups and the search of a window. Loops over keys and windows are
recursive functions; a loop that trails an iterator is told by where it stops, the first group that
reaches as far as the iterator is to go. In `FilterBank` the table of filters, the integral image and the corners
are those of the code with all numbers; the transform of FFTW is external. `ToSkip` is the number of
samples a query leaves out, which `initCustom()` makes smaller for a short track and never
negative (`src/src/fingerprint/fplib/FingerprintExtractor.cpp:275-288`): any number, in the theorems.

`Sha256` keeps buffering, padding and length of both builds; the compression function is one
injective step. `Mbid` is `getMP3_MBID()` with its static `s`, read by read. A read that is short
clears `s` and overwrites the beginning of its buffer; bytes that are no frame may look like any, a
UFID frame of MusicBrainz included. What is found is told by where it came from: a frame, other
bytes of the file (`JunkMbid`), or bytes left over in a buffer (`GarbageMbid`).

## 3. What is checked

| run | question |
|---|---|
| `scrobbler_safety` | one POST of the head of the list (`InFlightIsHead`); the file lists what the list holds (`DiskMatchesQueue`); what was settled never comes back (`SettledNeverResent`) and what was not is kept (`UnsettledSongsAreKept`), over crashes, torn files and replaced managers; the status shown agrees with list and server (`StatusIsTrue`); every step is one of `Outbox` (`DeliversInOrder`) |
| `scrobbler_live` | the reply is given back, and each play leaves the list or the scrobbler falls silent for good, waiting for a call from outside (`CacheDrains`) |
| `now_playing` | `CorrectionsFit`, `ReplyReleased` |
| `track_love` | the cached answer is the service's (`CacheIsTrue`), so is `loved` when all is answered (`LovedIsTheServers`); each caller of `getInfo()` is told, unless the manager is replaced first (`CallerIsTold`) |
| `radio_safety` | queue never holds an empty (`TypeOK`) or an expired playlist (`ExpiredPlaylistsAreGone`); a postponed fetch has a timer (`RequestWaitsForTimer`); `GivesUpAfterAttempts` |
| `radio_live` | the flag is set only while an answer is to come (`FetchingHasCall`); a player given a null track hears again (`StarvedIsServed`) |
| `radio_raw` | expects a violation: does `parse()` throw only `ParseError`? |
| `connectivity` | `UpFollowsDown`, `ConnectedTellsNet`; the monitor agrees with a world that has settled (`AgreesInTheEnd`); a failed lookup is made again (`ProxyAskedAgain`) |
| `fingerprint_session` | no identifier of an old version is read (`OldIdsAreWiped`); a row is the last answer (`RowsAreAnswers`), was given for its file (`IdBelongsToFile`) and is lost only to a process that found no version (`AnswersSurvive`), over deaths and failed statements of two processes |
| `audio_sources` | what leaves a source is the stream, in order, to its end (`StreamIsWhole`); what the decoders read is the file (`InputIsWhole`); `SkipIsTight`; the loop ends (`GenerateEnds`) |
| `extractor` | keys do not depend on the cuts (`KeysOfOnePass`); groups are the runs of keys and the fingerprint is a window of the track (`GroupsAreSound`); `ProcessAnswers` |
| `parts` | each algorithm against a reference definition: `DigestIsOfTheMessage`, `AverageIsOfTheLast`, `FilterBankFits`, `MbidIsRight`, `TracksKeepTheirWorth`, `StationsComeBack` |

**Bounds.** `Scrobbler`: three plays, batches of two (the code's 50) and three objects give a
batch, a play behind it, equal and unequal songs, one object in two places, a remnant that is the
song of another play, and, with one failure, a crash or replaced manager in each state of a
batch; a second failure meets a state the first one could leave. `scrobbler_live` has batches of one, so two plays need two. Time
stamps order nothing in the code: two are enough to tell plays of one song apart.

`RadioTuner`: the real `MAX_TUNING_ATTEMPTS`, playlists of one and two tracks, three live
playlists and three calls (plus what slots add) for every pair of the three ways to fetch
beside a `radio.tune`. The liveness run has two attempts and playlists of one track: the same
branches with fewer states. Counters are cut off just above the number the code compares with.

`connectivity`: all three platforms, two calls beside the `HEAD`, two notices, enough for each
order of old and new news. `track_love`: two tracks and three calls, so a change, a call that
overlaps it and one that reads what both left; one manager is replaced.

`fingerprint_session`: two processes, two files, two objects; one death, one failed statement,
one moved track. Identifiers are 1, 2, 5 and the old 3 in numbers of three bits, so 5 does not
fit the signed width. The table has at most two rows beyond what REPLACE takes out.

`audio_sources`: an output buffer of 4 samples and an input buffer of 5 bytes with up to four
frames of 2 or 3 bytes and 2 or 3 samples, loud, silent, or broken in body or header: a frame that
does not fit, one over the edge of the input buffer, and left-overs over several calls all happen.
ID3 tags have 2, 5 and 6 bytes: less than the input buffer, all of it, and one more. A
file has one broken frame. Three samples take two milliseconds, so conversions are cut off; the
asked-for skips are none and four and a half samples, which ends within a frame, at its end, or behind
the stream. No left-over is larger than the output buffer: the one of
`Fingerprint::generate()` holds 131072 values, more than a frame of any of the four decoders.

`extractor`: the sizes keep the code's relations (named in `ExtractorSizes`): blocks of 6
samples, frames of 4 with an overlap of 2, tracks of 11 to 30 samples that end in the
pre-buffer, in a block and on its edge, pieces of 2, 7 and 12. `parts`: all filters of the
real table over 33 bands and keys of 100 frames; SHA blocks of 8 bytes with a length of 2, and
messages of up to 18, which meets both paddings and two blocks in one update; `uint` of 1024
with a time limit within, so conversions wrap, and durations from 0 over just too short to too long; mp3 files of two frames, cut at four places;
stations of up to three names, one of which is "tag".

**Deadlock** is checked where the application can always call something. It is off where a run
ends: in `radio_safety` and `radio_raw` once the process is terminated, in `track_love` once
the calls are used up, in `extractor` once `process()` has answered, in `parts` for the parts
that are values.

**Fairness.** Weak, and only of what someone else drives: Qt finishes each reply in the end
(answer, error or timeout), timers fire, signals that were emitted are received. `scrobbler_live`
assumes no more than that replies finish: neither a call of `submit()`, which no slot of
`Audioscrobbler` makes, nor a restart; a service that puts the client off for ever is left out
(`Outcomes` is without `"retry"`). A request whose reply was deleted finishes never.
`radio_live` has no bare throw and keeps the manager; with either the player does starve. No
fairness is assumed of `takeNextTrack()`, `retune()` or of calls of the application.
`AgreesInTheEnd` and `ProxyAskedAgain` carry their own condition, calls that go on ending that
way, because the monitor learns from calls only. In `audio_sources` and `extractor` one thread
runs sequential code that is not interrupted: weak fairness of `Next` is that it is run.

**Where a promise stops.** Each exception stands in the property it weakens, because the code
breaks the promise there:

- `UnsettledSongsAreKept` and `DeliversInOrder` except what a torn file lost: the records behind
  the tear, and of the last one the stamp or part of the song.
- `CacheDrains` promises no second batch by itself: with more than 50 tracks, or a track cached while
  a reply was awaited, the rest waits for the application's next call.
- `CacheIsTrue` and `LovedIsTheServers` hold for requests that do not overlap and for the url
  that the change invalidates (`raced`, `mixed`). `CallerIsTold` promises an answer, not one that is
  newer than the call, and none where the manager is replaced before it.
- `RowsAreAnswers` needs the index, which a process that died between table and index never
  makes up for, and an identifier that fits an int. `OldIdsAreWiped` needs that no statement
  failed: the failure of the wipe is passed over and the version is written all the same
  (`src/src/fingerprint/Collection.cpp:130-135`). `IdBelongsToFile` excludes moved tracks.
  `AnswersSurvive` has no guard to speak of in the code: a process that read the version before
  another wrote it, or whose SELECT failed, wipes what was stored since. The property names these
  processes, and says that each does so once and that nothing else loses an identifier.
- `GenerateEnds` excludes FLAC files that are silent to the last frame: `skipSilence()` turns
  for ever, and those that cannot be read while they are read from the start (`Aborted`), where
  `updateBuffer()` does. `StreamIsWhole` lets `FlacSource` hand out its last frame again after the
  end and forget what it copied when a read fails, lets `MadSource` report the end with samples still
  in its input buffer, and lets AAC stop at a broken frame. `SkipIsTight` says nothing of a skip past
  the end or over broken frames. `InputIsWhole` excepts ID3 tags larger than the input buffer.
- `KeysOfOnePass` leaves out the last block of a track that ends inside it: it takes what the
  buffer still holds for the end of the track.
- `MbidIsRight` promises the first identifier of a whole file of version 2.4 to a call that finds `s`
  set. It says that `s` stays set over whole files without extended header, those of version 2.3
  included, whose sizes are read wrong (eight bytes for four on 64-bit): the loop test keeps its
  reads inside the file. Behind a file that is cut or has an extended header, whose length is read
  before the size of the tag, `s` may be cleared, and no later file is read. Where the frames of a file
  cannot be followed, bytes that are no frame may be taken for an identifier. A tag has at most
  1048576 bytes, behind which the loop stops, and 63 bytes of audio behind it
  (`AudioAssumption`): 59 bytes of a shorter UFID frame are read all the same.
- `TracksKeepTheirWorth` leaves out `mbid`, which is written and not read. `StationsComeBack` leaves
  out urls with a part that is "tag" itself, and names that a `QUrl` escapes.
- `ConnectedTellsNet` excepts a change between the read of the state and the connect, and
  `ProxyAskedAgain` a lookup that failed while the monitor was up.

## 4. What is proved

Each proof module states an inductive invariant (`IInv`; `TInv`, `SInv` and `UpInv` beside it),
proves that it holds initially and is kept, with one lemma per action that disturbs it, and
derives the theorems. Only the named assumptions on constants are
used; songs, objects, stations and the bounds are arbitrary. TLC finds each of the
invariants to hold on the instance of the component's run, too.

- `ScrobblerProofs`: `TypeCorrect`, `OnePostOfTheHead`, `FileFollowsList`,
  `NothingSettledIsResent`, `NothingUnsettledIsLost`. They need each other: that the batch is
  the head of the list makes the removed plays the settled ones, that the file lists the list
  carries this over a crash. To these `IInv` adds `ReplyLock` (without a reply nothing is on
  the wire and the batch is at rest) and `FileKeepsSongs` (each record of the file carries the song
  handed over under its play, or the remnant that a tear left of it, which is what its play reads as
  from then on), without which a restart could exchange songs.
- In the same module `ImplementsOutbox`, the refinement, one lemma per action: with `IInv` each
  step is one of `Outbox` or changes nothing there. That the file lists the list makes what is
  appended what waits, `FileKeepsSongs` makes removal by the songs of objects removal by the
  songs handed over, and `ReplyLock` lets a restart send.
  And `ShownStatusIsTrue`, from `IInv` with `SInv`: a record of the file that says
  Submitted was recorded by the server (a restart reads the status from there), what an answer
  accepts was recorded when the POST was served, and the payload tells the songs of `m_batch`,
  so that the match by position marks a track of the song that was accepted.
- `NowPlayingProofs`: `CorrectionsReachTheirTrack`, with the lock: no reply and nothing on the
  wire, or the one POST is of `m_nowPlayingTrack`.
- `TrackLoveProofs`: `CachedInfoIsTrue` and `LovedIsTrue`, for any number of tracks and calls.
  While no requests overlapped (`Quiet`), a change that is under way is alone and has emptied the
  cache (`ChangeIsAlone`), an answer on its way is as new as the service (`AnswersAreNew`), and a
  track that heard a sound answer has its value (`HeardIsTrue`, which `LovedIsTheServers` states
  only of a state with no call under way).
- `RadioTunerProofs`: `RequestIsTakenUp`, `FlagHasCall`, `GivesUpLate`, with the shape of calls
  and `Counted`: the retry counter is the number of empty playlists in a row, cut off.
  `TypeCorrect` (above all that the queue holds no empty playlist) and `QueueIsNotExpired` rest on
  identifiers, which are the smallest free ones: `CallsFit` bounds the calls under way by the
  bound on the wire and one more (the call that a running timer will post), so by counting there
  is a free identifier, and a new playlist is told from each that still has its timer.
- `ConnectivityProofs`: `UpIsHeardAfterDown`, from "what was told last is `m_up`", on Linux and
  Windows (on Mac the constructor tells `up()` without a `down()`);
  `MonitorTellsNet`, from "the youngest notice not yet received is of the network as it is".
- `FingerprintProofs`, from `IdsAreUnsigned` and `IdsDiffer` (what the service answers for two
  files differs), for any number of processes, files, objects, deaths and failed statements:
  `UpgradeWipes`, from `OldIsBeforeWipe`: as long as an old identifier is in the table, the version
  is not written and nobody is behind the wipe. `StoredIsTheAnswer`, from `YoungestIsLatest`: the
  youngest row of a file is the answer stored last, index or not, and no row is there before the
  table (`NoTableNoRows`). `StoredIsOfTheFile`, from `SamplesAreOfFile`: what an object holds or
  has posted is of its file, or its track was moved. `IdsAreKept`, an action property, from
  `WipersAreBehind`: once the version is written, who is about to wipe is in `behind`. So an
  identifier goes only with the wipe of a process that found no version, and that one wipes once.
- `FingerprintExtractorProofs`: `KeysDoNotDependOnCuts`, from `ExtractorSizes`, for every length,
  every cut and all sizes in the relations of the code. The invariant says, phase by phase, which
  samples of the track are in the buffer: while the prebuffer fills (`PreBufferIsOfTrack`), when
  what the next block starts with is at the end of the buffer (`EndIsOfTrack`), and when it has
  been moved to the front (`BlockIsOfTrack`). `WindowIsOfTrack` says that `m_normWindow` has the
  samples around the next one to be divided, without which none is divided by its own average.
  The arithmetic lemma `KeysOfABlock` makes a block give one key for each overlap of its samples,
  so that the next block's first key is the one behind the last.
- In the same module `GroupsStaySound`, with `WindowSizes`, by the loop lemmas below. The invariant
  `GroupsAreOfTrack` says that the groups have the last keys of the track, until they are cut to a
  window of it, and that `process()` is done with them then. It needs, for groups of any size,
  that a block's keys go behind those of the groups (`Keys2GroupsAdds`); that each iterator stands
  as many keys on as it was sent (`TrailStands`), so the four iterators of a window stay at their
  distances also when the last hop is cut short (`HopStands`); that the scan ends within as many
  turns as there are keys (`ScanEnds`); and that the first group cut on its left and the last on its
  right leave the keys of the window (`SnippedIsCutOut`, `CutOutKeys`). A middle with enough
  different keys ends in another group than it begins in (`WindowOrder`), without which both cuts
  could meet in one group; and the last key of each group of the middle is in the window
  (`MiddleGroupsAreInWindow`), so its different keys are.
- `PartsProofs`, from `HashAssumption`, `TimeAssumption`, `RankAssumption` and the bounds'
  `MessageAssumption`, `AverageAssumption` and `StationAssumption`, and from `AudioAssumption` and
  `TagAssumption`, about what recursive functions and sorting compute for inputs of any size. The
  library's induction takes a predicate as a parameter, which no prover here can instantiate;
  so a predicate is the set of the numbers that it holds of, and induction (`Induction`, `UpTo`)
  follows from the least element of a set of numbers (`LeastNatural`, by the well-founded order
  of the library). `LoopRuns` gives the states of a loop of so many turns, hence a function that
  is as its recursive definition says, without which `CHOOSE` would say nothing of it.
  - `DigestOfAnyMessage`: the invariant `HashState` says that the compressed blocks with the
    buffer (`Content`) are the message so far, every block full and the buffer not; that the bits
    are counted; and after `SHA256Final()` that they are the padded message with nothing left
    in the buffer. Each way of taking bytes keeps the content with the rest of the data
    (`FilledKeeps`, `TakenKeeps`), there are no more turns than bytes (`GatheredKeeps`), and the
    zeros are as few as fit because two multiples of a block less than a block apart are one
    (`ZerosFill`).
  - `SumIsOfTheLast`: the array holds the last values from the iterator backwards
    (`AverageHolds`), so what `add()` takes off the sum is the oldest of them.
  - `TracksComeBack` is about a track of any texts, numbers and images; `WorthIsKept` is what
    it says of a run, with the point of half a duration.
  - `StationsStay`: whatever sorts any number of names has one result (`SortedIsUnique`: were a
    name before the other's in its place, more names than places would be before it), since
    `RankAssumption` ranks no two names alike, as `QString::operator<` does; there is a result
    (`SortExists`, one more name is put before those behind it); and a url is taken apart at its
    first "tag" and put together again (`UrlIsKept`, `FilterIsKept`).
  - `MbidOfTheFile` is about any files in any order: frames of any names and sizes, padding and
    cuts. Its invariant (`Holding`, `InLoop`) says that the loop over a readable file is at the
    start of a frame, or at their end, with no identifier behind it (`AtFrame`). In a whole file
    without extended header nothing is read short (`PlainReads`): the loop test keeps the head of a
    frame inside the tag, and the audio behind the tag has the bytes of a UFID frame. So `s` stays
    set, and a name that was left from the frame before is never taken for one that was read. The
    frames do not overlap
    (`FramesApart`), so at most one starts at a place (`FrameFound`).

Model-checked only:

- every liveness property, `ProxyAskedAgain` of `AutoProxy` among them: fairness and `ENABLED` are
  outside of the prover's reach;
- `FilterBankFits`, a property of the code's own table;
- `InputIsWhole`, `StreamIsWhole` and `SkipIsTight` of the sources: what they read is a fold over
  the frames of a file, and their buffers have no invariant without it.

## 5. Where code and documentation part

`radio_raw` expects a violation, and `findings` in `PROJECT.json` quotes the line: `parse()`
throws a bare enum where it is declared to throw `ParseError`.

Seen while modelling; the models do what the code does:

- `ScrobbleCache::add()` appends every valid track, so the cache is not unique, and `remove()`
  compares songs, not time stamps: plays cached while a batch with their song is under way
  leave unsent.
- `RadioTuner`'s flag does not keep `onTuneReturn()` or a drained queue from fetching beside
  another fetch, and `takeNextTrack()` before the answer of `radio.tune` queues tracks of the
  station of before. `MAX_TUNING_ATTEMPTS` is 3 where `src/src/radio/RadioTuner.h:61` says "up
  to 5 times".
- A monitor created offline emits `networkDown()` in its constructor, before anyone can be
  connected, and tells nobody until a call fails.
- `submit()` sends the first 50 tracks only, though its comment says "will submit the
  submission cache"; `Q_ASSERT(false)` at `src/src/scrobble/Audioscrobbler.cpp:197` is on the
  way of each answer that asks for a retry; `nowPlaying()` while a reply is awaited is dropped.
- `isValid()` can never answer `TrackNameMissing`: `Track::title()` gives "[unknown]" for an
  empty title (`src/src/types/Track.cpp:282`, `src/src/scrobble/ScrobbleCache.cpp:64-66`). In a
  batch a missing album artist is sent as "[unknown]" (`src/src/types/Track.cpp:526`), where
  the single `scrobble()` sends `d->albumArtist` (line 504).
- `Track( QDomElement )` reads the first `image` element only and neither `fpId` nor `mbId`,
  which `toDomElement()` writes. `trackNumber` and the context do not come back either. A time
  that is null or before 1970 is saved as `uint(-1)` and comes back as one of the future.
- `src/src/fingerprint/contrib/main.cpp:59-62` decodes a reply without running the event loop.

## 6. What is not modelled

- Formatting, escaping and signing of requests; the fields of a playlist's tracks; the readers
  of answers without state (`User`, `Artist`, `Album`, `Tag`, `Playlist`, `Tasteometer`) and the
  methods of `Track` that hand their reply to the caller (`share`, `ban`, `addTags`, ...);
  `XmlQuery`, `UrlBuilder`, `misc`: they keep nothing between calls.
- FFTW's transform, the compression function of SHA-256, the decoding libraries, SQLite, Qt's
  network cache and COM are external and modelled by how the code uses them.
- The Mac proxy dictionary (one read, no state), the parsing of a proxy list in `Pac`, and
  reference counts of COM objects.
- Code that the library never calls: `simpleSkip`, `cutGroups` and `reduceGroups` of
  `fp_helper_fun.h`, and, of `CircularArray`, the constructor with a size and `resize` with a
  value, `operator-( offs )` and the backward shift of its head
  (`src/src/fingerprint/fplib/CircularArray.h:107`, `246-248`), which do not do what their
  names say.
- Hazards with no property: the negative size of a frame of version 2.3 that was read wrong can send
  the loop of `getMP3_MBID()` back for ever (`src/src/types/mbid_mp3.c:163`); a body that is empty because the network failed is taken for a
  refusal and drops the batch (`src/src/scrobble/Audioscrobbler.cpp:187`); `read()` does not
  validate what it reads; the results of opening and writing the cache file are ignored;
  `deleteLater()` behind a return leaks each reply (`src/src/ws/ws.cpp:196`); the `HEAD` of the
  monitor prefers the cache (`src/src/ws/NetworkAccessManager.cpp:137`), which `"other"` covers.
- Demos, tests and build scripts.

What remains to be done, in this order: failed writes in `Scrobbler`; proofs about the buffers
of the sources, as far as they can be told from the folds over a file; a composition of the
scrobbling half, the tuner and the monitor over one manager that is replaced.
