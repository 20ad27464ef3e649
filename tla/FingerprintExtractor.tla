------------------------ MODULE FingerprintExtractor ------------------------
(***************************************************************************)
(* src/fingerprint/fplib/FingerprintExtractor.cpp: process() takes a track *)
(* in pieces of any size, downsamples it into one buffer, divides each     *)
(* sample by the average around it and turns the buffer, block by block,   *)
(* into keys.  A sample is its place in the track, and a cell of the       *)
(* buffer remembers how often it was divided and by which average, so a    *)
(* block that is moved or read wrongly shows it.                           *)
(***************************************************************************)
EXTENDS FingerprintKeys

CONSTANTS
  ProcessSize,  \* m_downsampledProcessSize, 32 * FRAMESIZE
  FrameSize,    \* FRAMESIZE, 2048
  Overlap,      \* OVERLAPSAMPLES, FRAMESIZE / 32
  KeyWidth,     \* Filter::KEYWIDTH, 100 frames
  HalfWindow,   \* half of m_normWindow
  ToSkip,       \* m_toSkipSize of a query: less for a short track, never below 0
  ToProcess,    \* m_toProcessKeys of a query
  SubWindow,    \* m_totalWindowKeys of a query
  MinUnique,    \* MIN_UNIQUE_KEYS, 75
  Lengths,      \* bound: lengths of a track, in samples
  Pieces,       \* bound: sizes of the pieces that process() is given
  Values,       \* values of a key
  MaxKeys       \* bound: keys of a track that may differ

Compensate == FrameSize - Overlap + KeyWidth * Overlap
FullSize   == ProcessSize + Compensate + HalfWindow

(* The copies do not overlap, and a block is a whole number of keys.       *)
ASSUME ExtractorSizes ==
  /\ ProcessSize \in Nat /\ FrameSize \in Nat /\ KeyWidth \in Nat \ {0}
  /\ Overlap \in 1 .. FrameSize /\ HalfWindow \in Nat \ {0}
  /\ ToSkip \in Nat /\ Lengths \subseteq Nat /\ Pieces \subseteq Nat \ {0}
  /\ Compensate + HalfWindow <= ProcessSize /\ ProcessSize % Overlap = 0

(* A query is 14 seconds, and the 10 in its middle are to differ enough.   *)
ASSUME WindowSizes ==
  /\ SubWindow \in Nat /\ ToProcess \in Nat /\ SubWindow + 2 <= ToProcess
  /\ HopDiv \in Nat \ {0} /\ SubWindow \div HopDiv > 0
  /\ MinUnique \in Nat \ {0} /\ MaxKeys \in Nat \ {0} /\ Values \subseteq Nat

VARIABLES
  signal,       \* the keys of the track: what one pass over it would find
  length,       \* samples of the track
  query,        \* PT_FOR_QUERY; else PT_FOR_FULLSUBMIT
  pc,           \* where process() is
  input,        \* samples of the piece that are not read yet, <<next, last>>
  endOfStream,
  skippedSoFar, skipPassed, preBufferPassed,
  buf, curr,    \* m_pDownsampledPCM, m_pDownsampledCurrIt
  normWindow,   \* the samples that m_normWindow averages
  keys,         \* where the keys computed so far begin in the track
  groups, processedKeys, found,
  stale         \* the last block was not full

vars == <<signal, length, query, pc, input, endOfStream, skippedSoFar,
          skipPassed, preBufferPassed, buf, curr, normWindow, keys, groups,
          processedKeys, found, stale>>
Track == <<signal, length, query>>

Target  == IF query THEN ToProcess ELSE 0
FirstKey == (IF query THEN ToSkip ELSE 0) + HalfWindow + 1
ValueOf(pos) == LET i == (pos - FirstKey) \div Overlap
                IN  IF pos >= FirstKey /\ i < MaxKeys THEN signal[i] ELSE signal[0]

(* initForQuery(), initForFullSubmit() and initCustom().                   *)
Init ==
  /\ signal \in [0 .. MaxKeys - 1 -> Values] /\ length \in Lengths
  /\ query \in BOOLEAN /\ pc = "idle" /\ input = <<1, 0>> /\ endOfStream = FALSE
  /\ skippedSoFar = 0 /\ skipPassed = ~query /\ preBufferPassed = FALSE
  /\ buf = [i \in 1 .. FullSize |-> [pos |-> 0, divided |-> 0, centred |-> TRUE]]
  /\ curr = ProcessSize - HalfWindow
  /\ normWindow = <<>> /\ keys = <<>> /\ groups = <<>> /\ processedKeys = 0
  /\ found = FALSE /\ stale = FALSE

(* The caller goes on with the next piece, the last one of the track with  *)
(* end_of_stream.  A query counts what it is to skip, over several calls.  *)
Process(n) ==
  /\ pc = "idle" /\ ~endOfStream
  /\ LET first == input[2] + 1
         last  == IF first + n - 1 < length THEN first + n - 1 ELSE length
         size  == last - first + 1
     IN  /\ endOfStream' = (last = length)
         /\ IF ~skipPassed /\ skippedSoFar + size <= ToSkip
            THEN /\ skippedSoFar' = skippedSoFar + size
                 /\ input' = <<last + 1, last>>
                 /\ UNCHANGED <<pc, skipPassed>>
            ELSE /\ input' = <<IF skipPassed THEN first
                               ELSE first + ToSkip - skippedSoFar, last>>
                 /\ skipPassed' = TRUE
                 /\ pc' = IF preBufferPassed THEN "loop" ELSE "prebuffer"
                 /\ UNCHANGED skippedSoFar
  /\ UNCHANGED <<Track, preBufferPassed, buf, curr, normWindow, keys, groups,
                 processedKeys, found, stale>>

Unread == input[2] - input[1] + 1

(* Seeded bug: the downsampler is not told where the buffer ends. *)
GeneratedWhole(from) == Unread

(* src_process(): the downsampler fills the buffer from curr on with as    *)
(* much as there is; one sample in gives one sample out here.              *)
Generated(from) == IF Unread < FullSize - from THEN Unread ELSE FullSize - from
Filled(b, from) ==
  [i \in 1 .. FullSize |->
     IF i \in from + 1 .. from + Generated(from)
     THEN [pos |-> input[1] + i - from - 1, divided |-> 0, centred |-> TRUE]
     ELSE b[i]]

(* The loops that divide cells first .. last by the average of the window, *)
(* which then moves on by one sample, m_normWindow.add(): what the window  *)
(* sees in turn is w and the samples a half window ahead of the cells.     *)
(* The average fits when it is of the samples on both sides of the cell.   *)
Seen(b, w, first, last) ==
  w \o [i \in 1 .. last - first + 1 |-> b[first + i - 1 + HalfWindow].pos]
Divided(cell, left, right) ==
  [pos |-> cell.pos, divided |-> cell.divided + 1,
   centred |-> /\ left = cell.pos - HalfWindow
               /\ right = cell.pos + HalfWindow - 1]

(* Seeded bug: the sample enters the average before it is used. *)
NormalizedLate(b, w, first, last) ==
  LET seen == Seen(b, w, first, last)
  IN  [w |-> SubSeq(seen, last - first + 2, Len(seen)),
       b |-> [p \in 1 .. FullSize |->
                IF p \in first .. last
                THEN Divided(b[p], seen[p - first + 2], seen[p - first + 1 + 2 * HalfWindow])
                ELSE b[p]]]
Normalized(b, w, first, last) ==
  LET seen == Seen(b, w, first, last)
  IN  [w |-> SubSeq(seen, last - first + 2, Len(seen)),
       b |-> [p \in 1 .. FullSize |->
                IF p \in first .. last
                THEN Divided(b[p], seen[p - first + 1], seen[p - first + 2 * HalfWindow])
                ELSE b[p]]]

(* PREBUFFER: the window and what compensates the first block.             *)
PreBuffer ==
  /\ pc = "prebuffer"
  /\ LET b  == Filled(buf, curr)
         to == curr + Generated(curr)
         r  == Normalized(b, [i \in 1 .. 2 * HalfWindow |->
                                b[ProcessSize - HalfWindow + i].pos],
                          ProcessSize + 1, ProcessSize + Compensate)
     IN  /\ curr' = to
         /\ input' = <<input[1] + Generated(curr), input[2]>>
         /\ IF to # FullSize
            THEN /\ buf' = b /\ pc' = "idle"
                 /\ UNCHANGED <<preBufferPassed, normWindow>>
            ELSE /\ buf' = r.b /\ normWindow' = r.w
                 /\ preBufferPassed' = TRUE /\ pc' = "loop"
  /\ UNCHANGED <<Track, endOfStream, skippedSoFar, skipPassed, keys, groups,
                 processedKeys, found, stale>>

(* Seeded bug: the loop goes on when there is nothing left to read. *)
AfterReadingAgain(dry, to) ==
  IF dry THEN "loop" ELSE IF to # FullSize /\ ~endOfStream THEN "idle" ELSE "block"

(* Steps 1 and 2 of PROCESS: the end of the full buffer becomes its start, *)
(* and the rest of it is read.                                             *)
AfterReading(dry, to) ==
  IF dry \/ (to # FullSize /\ ~endOfStream) THEN "idle" ELSE "block"
ToFront(b) == [i \in 1 .. FullSize |-> IF i <= Compensate + HalfWindow
                                       THEN b[ProcessSize + i] ELSE b[i]]
ReadBlock ==
  /\ pc = "loop"
  /\ LET moved == curr = FullSize
         b     == IF moved THEN ToFront(buf) ELSE buf
         from  == IF moved THEN Compensate + HalfWindow ELSE curr
     IN  IF Unread = 0
         THEN buf' = b /\ curr' = from /\ UNCHANGED input
         ELSE /\ buf' = Filled(b, from)
              /\ curr' = from + Generated(from)
              /\ input' = <<input[1] + Generated(from), input[2]>>
  /\ pc' = AfterReading(Unread = 0, curr')
  /\ stale' = (pc' = "block" /\ curr' # FullSize)
  /\ UNCHANGED <<Track, endOfStream, skippedSoFar, skipPassed, preBufferPassed,
                 normWindow, keys, groups, processedKeys, found>>

(* Step 4: OptFFT::process() makes a frame of FrameSize samples at every   *)
(* Overlap of them, computeBits() a key of KeyWidth + 1 frames at every    *)
(* frame but the last KeyWidth.  A key is sound when the samples under its *)
(* frames follow each other and each was divided once, by its average.     *)
NumFrames == (ProcessSize + Compensate - FrameSize) \div Overlap + 1
KeyCells(k) == (k - 1) * Overlap + 1 ..
               (k - 1) * Overlap + KeyWidth * Overlap + FrameSize - Overlap
Sound(b, k) == LET first == (k - 1) * Overlap + 1
               IN  \A i \in KeyCells(k) :
                     /\ b[i].pos = b[first].pos + i - first
                     /\ b[i].divided = 1 /\ b[i].centred
KeysOf(b) == [k \in 1 .. NumFrames - KeyWidth |->
                IF Sound(b, k) THEN b[(k - 1) * Overlap + 1].pos ELSE 0]

(* A query that has more keys than it is to process chops the groups to    *)
(* the window it finds, or drops them up to the end of them.               *)
Chopped(gs) ==
  LET r == FindSignificantGroups(gs, Target, SubWindow, MinUnique)
  IN  [found |-> r.found,
       groups |-> IF r.found THEN Snipped(gs, r.window)
                  ELSE SubSeq(gs, r.window.left[1], r.window.right[1] - 1)]
TooMany(new) == Target # 0 /\ processedKeys + Len(new) > Target

(* Steps 3 and 4, and the chopping behind them.                            *)
ProcessBlock ==
  /\ pc = "block"
  /\ \E r \in {Normalized(buf, normWindow, Compensate + 1, ProcessSize + Compensate)} :
     \E new \in {KeysOf(r.b)} :
     \E gs \in {Keys2Groups([k \in DOMAIN new |-> ValueOf(new[k])], groups)} :
     \E c \in {IF TooMany(new) THEN Chopped(gs)
               ELSE [found |-> FALSE, groups |-> gs]} :
       /\ buf' = r.b /\ normWindow' = r.w /\ keys' = keys \o new
       /\ groups' = c.groups /\ found' = c.found
       /\ processedKeys' = IF TooMany(new) THEN CountOf(c.groups)
                           ELSE processedKeys + Len(new)
  /\ pc' = IF endOfStream \/ (Target # 0 /\ processedKeys' >= Target /\ found')
           THEN "finish" ELSE "loop"
  /\ UNCHANGED <<Track, input, endOfStream, skippedSoFar, skipPassed,
                 preBufferPassed, curr, stale>>

(* The checks behind the loop: an exception, or the fingerprint.           *)
Finish ==
  /\ pc = "finish"
  /\ pc' = IF IF Target # 0 THEN processedKeys >= Target /\ found
              ELSE EnoughUnique(groups, MinUnique)
           THEN "ready" ELSE "thrown"
  /\ UNCHANGED <<Track, input, endOfStream, skippedSoFar, skipPassed,
                 preBufferPassed, buf, curr, normWindow, keys, groups,
                 processedKeys, found, stale>>

Next == \/ \E n \in Pieces : Process(n)
        \/ PreBuffer \/ ReadBlock \/ ProcessBlock \/ Finish
Spec == Init /\ [][Next]_vars
FairSpec == Spec /\ WF_vars(Next)

-----------------------------------------------------------------------------
TypeOK ==
  /\ pc \in {"idle", "prebuffer", "loop", "block", "finish", "ready", "thrown"}
  /\ curr \in 0 .. FullSize /\ Len(normWindow) \in {0, 2 * HalfWindow}
  /\ groups \in Groups /\ processedKeys \in Nat

(* Whatever the pieces are, the blocks give the keys that one pass over    *)
(* the track gives: each begins Overlap samples after the one before, and  *)
(* rests on consecutive samples, each divided once by the average around   *)
(* it.  Only the last block of a track that ends inside it is different:   *)
(* process() takes what the buffer still holds for the end of the track.   *)
FullBlocks == IF stale /\ keys # <<>> /\ pc # "block"
              THEN Len(keys) - (NumFrames - KeyWidth) ELSE Len(keys)
KeysOfOnePass ==
  \A k \in 1 .. FullBlocks : keys[k] = FirstKey + (k - 1) * Overlap

(* A query that is done hands out exactly the keys that it is to process,  *)
(* one after the other from the track, with enough of them different.      *)
FingerprintIsAWindow ==
  pc = "ready" /\ query =>
    LET ks == Groups2Keys(groups)
    IN  /\ Len(ks) = ToProcess
        /\ \E off \in 0 .. Len(keys) - ToProcess :
             ks = [i \in 1 .. ToProcess |-> ValueOf(keys[off + i])]
        /\ Cardinality(ToSet(ks)) >= MinUnique

(* The keys that are counted are the keys in the groups, neighbouring      *)
(* groups have different keys, and none is empty but a first one that was  *)
(* cut: what is compared with the database depends on it.                  *)
GroupsAreRuns ==
  /\ processedKeys = CountOf(groups)
  /\ \A i \in 1 .. Len(groups) - 1 : groups[i].key # groups[i + 1].key
  /\ \A i \in 2 .. Len(groups) : groups[i].count > 0

(* The state has its type, the groups are the runs of keys, and what is    *)
(* handed out of them is a window of the track.                            *)
GroupsAreSound == TypeOK /\ GroupsAreRuns /\ FingerprintIsAWindow

(* process() answers in the end: with a fingerprint, with an exception, or *)
(* with the wish for more of a track that has no more.                     *)
ProcessAnswers ==
  <>(pc \in {"ready", "thrown"} \/ (pc = "idle" /\ endOfStream))
=============================================================================
