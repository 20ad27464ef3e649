---------------------- MODULE FingerprintExtractorProofs ----------------------
(* The keys of a track do not depend on the pieces that process() is given, and *)
(* a query hands out a window of them, for every length, every size of the      *)
(* buffers and every way to cut the track.                                      *)
EXTENDS FingerprintExtractor, SequenceTheorems, FiniteSetTheorems,
        WellFoundedInduction, TLAPS

Cells == [pos : Int, divided : Nat, centred : BOOLEAN]

\* Cells first .. last of a buffer hold samples of the track in one piece, from
\* pos on, each divided so many times.
InOnePiece(b, first, last, pos, times) ==
    \A c \in first .. last :
        b[c] = [pos |-> pos + c - first, divided |-> times, centred |-> TRUE]

\* Where the next key begins in the track.
NextKey == FirstKey + Len(keys) * Overlap

\* The window w, m_normWindow, has the samples around the one at pos.
IsAround(w, pos) ==
    /\ w \in Seq(Int) /\ Len(w) = 2 * HalfWindow
    /\ \A i \in 1 .. 2 * HalfWindow : w[i] = pos - HalfWindow + i - 1

Typed ==
    /\ pc \in {"idle", "prebuffer", "loop", "block", "finish", "ready", "thrown"}
    /\ length \in Nat /\ query \in BOOLEAN /\ endOfStream \in BOOLEAN
    /\ skippedSoFar \in Nat /\ skipPassed \in BOOLEAN /\ preBufferPassed \in BOOLEAN
    /\ stale \in BOOLEAN
    /\ input \in Int \X Int /\ input[1] <= input[2] + 1 /\ input[2] <= length
    /\ curr \in 0 .. FullSize
    /\ buf \in [1 .. FullSize -> Cells]
    /\ keys \in Seq(Int)

\* Where process() may be before and behind each phase; it returns only when the
\* piece is read to its end.
Phases ==
    /\ pc = "idle" => Unread = 0
    /\ ~preBufferPassed => pc \in {"idle", "prebuffer"}
    /\ pc = "prebuffer" => ~preBufferPassed
    /\ ~skipPassed => /\ pc = "idle" /\ query /\ ~preBufferPassed
                      /\ input[2] = skippedSoFar /\ skippedSoFar <= ToSkip
                      /\ curr = ProcessSize - HalfWindow
    /\ stale => /\ pc \in {"block", "finish", "ready", "thrown"}
                /\ pc = "block" => endOfStream

\* The prebuffer is filled from the sample half a window before the first key.
PreBufferIsOfTrack ==
    ~preBufferPassed =>
        /\ keys = <<>> /\ curr >= ProcessSize - HalfWindow /\ curr < FullSize
        /\ InOnePiece(buf, ProcessSize - HalfWindow + 1, curr, FirstKey - HalfWindow, 0)
        /\ skipPassed => input[1] = FirstKey - ProcessSize + curr

\* The buffer is full and what the next block starts with is at its end.
AtTheEnd == preBufferPassed /\ pc = "loop" /\ curr = FullSize
EndIsOfTrack ==
    AtTheEnd =>
        /\ InOnePiece(buf, ProcessSize + 1, ProcessSize + Compensate, NextKey, 1)
        /\ InOnePiece(buf, ProcessSize + Compensate + 1, FullSize, NextKey + Compensate, 0)
        /\ input[1] = NextKey + Compensate + HalfWindow

\* The block is being filled, behind what was moved to its front.
InTheBlock == /\ preBufferPassed /\ ~stale /\ ~AtTheEnd
              /\ pc \in {"idle", "loop", "block"}
BlockIsOfTrack ==
    InTheBlock =>
        /\ curr >= Compensate + HalfWindow /\ (pc = "block" <=> curr = FullSize)
        /\ InOnePiece(buf, 1, Compensate, NextKey, 1)
        /\ InOnePiece(buf, Compensate + 1, curr, NextKey + Compensate, 0)
        /\ input[1] = NextKey + curr

WindowIsOfTrack == AtTheEnd \/ InTheBlock => IsAround(normWindow, NextKey + Compensate)

IInv ==
    /\ Typed
    /\ Phases
    /\ PreBufferIsOfTrack
    /\ EndIsOfTrack
    /\ BlockIsOfTrack
    /\ WindowIsOfTrack
    /\ KeysOfOnePass

-------------------------------------------------------------------------------
(* Sizes.                                                                       *)

LEMMA Sizes ==
    /\ ProcessSize \in Nat /\ HalfWindow \in Nat \ {0} /\ Compensate \in Nat \ {0}
    /\ FullSize = ProcessSize + Compensate + HalfWindow
    /\ Compensate + HalfWindow <= ProcessSize
    /\ Overlap \in Nat \ {0}
<1> DEFINE T == KeyWidth * Overlap
<1>1. T \in Nat \ {0}
  BY ExtractorSizes
<1>2. Compensate = FrameSize - Overlap + T
  BY DEF Compensate
<1> HIDE DEF T
<1> QED
  BY <1>1, <1>2, ExtractorSizes DEF FullSize

LEMMA FirstKeyIsNat == ASSUME Typed PROVE FirstKey \in Nat
BY ExtractorSizes DEF FirstKey, Typed

\* A block gives one key for each Overlap of its samples.
LEMMA KeysOfABlock ==
    /\ NumFrames - KeyWidth \in Nat \ {0}
    /\ (NumFrames - KeyWidth) * Overlap = ProcessSize
<1> DEFINE q == ProcessSize \div Overlap
<1>1. q \in Nat /\ ProcessSize = Overlap * q
  BY ExtractorSizes
<1>2. ProcessSize + Compensate - FrameSize = (q + KeyWidth - 1) * Overlap
  <2>1. (q + KeyWidth - 1) * Overlap = Overlap * q + KeyWidth * Overlap - Overlap
    BY <1>1, ExtractorSizes
  <2>2. ProcessSize + Compensate - FrameSize
          = ProcessSize + KeyWidth * Overlap - Overlap
    BY ExtractorSizes DEF Compensate
  <2> QED
    BY <2>1, <2>2, <1>1
<1>3. q + KeyWidth - 1 \in Int
  BY <1>1, ExtractorSizes
<1>4. ASSUME NEW a \in Int, NEW b \in Nat \ {0} PROVE (a * b) \div b = a
  OBVIOUS
<1>5. NumFrames - KeyWidth = q
  <2>1. NumFrames = q + KeyWidth - 1 + 1
    BY <1>2, <1>3, <1>4, Sizes DEF NumFrames
  <2> QED
    BY <2>1, <1>1, ExtractorSizes
<1>6. q # 0
  BY <1>1, Sizes
<1> QED
  BY <1>1, <1>5, <1>6, Sizes

\* The samples under key k are all in the part of the block that is divided.
LEMMA KeyFits ==
    ASSUME NEW k \in 1 .. NumFrames - KeyWidth
    PROVE  /\ (k - 1) * Overlap \in Nat
           /\ (k - 1) * Overlap + Overlap <= ProcessSize
           /\ KeyCells(k) \subseteq 1 .. ProcessSize + Compensate
           /\ (k - 1) * Overlap + 1 \in 1 .. FullSize
<1> DEFINE n == NumFrames - KeyWidth
<1>1. n \in Nat \ {0} /\ n * Overlap = ProcessSize
  BY KeysOfABlock
<1> HIDE DEF n
<1>2. k \in 1 .. n
  BY DEF n
<1>3. (k - 1) * Overlap \in Nat
  BY <1>2, <1>1, Sizes
<1>4. k * Overlap <= n * Overlap
  <2>1. (n - k) * Overlap >= 0
    BY <1>2, <1>1, Sizes
  <2>2. (n - k) * Overlap = n * Overlap - k * Overlap
    BY <1>2, <1>1, Sizes
  <2>3. n * Overlap \in Int /\ k * Overlap \in Int
    BY <1>2, <1>1, Sizes
  <2> QED
    BY <2>1, <2>2, <2>3
<1>5. (k - 1) * Overlap + Overlap = k * Overlap
  BY <1>2, <1>1, Sizes
<1>6. (k - 1) * Overlap + Overlap <= ProcessSize
  BY <1>1, <1>4, <1>5
<1>7. KeyCells(k) = (k - 1) * Overlap + 1 .. (k - 1) * Overlap + Compensate
  BY <1>3, ExtractorSizes DEF KeyCells, Compensate
<1>8. (k - 1) * Overlap + Compensate <= ProcessSize + Compensate
  BY <1>6, <1>3, Sizes
<1> QED
  BY <1>3, <1>6, <1>7, <1>8, Sizes

-------------------------------------------------------------------------------
(* What the steps do to a buffer b.                                             *)

LEMMA GeneratedBounds ==
    ASSUME Typed, NEW from \in 0 .. FullSize
    PROVE  /\ Generated(from) \in Nat /\ Unread \in Nat
           /\ from + Generated(from) \in from .. FullSize
           /\ Generated(from) <= Unread
           /\ from + Generated(from) # FullSize => Generated(from) = Unread
<1>1. input[1] \in Int /\ input[2] \in Int /\ input[1] <= input[2] + 1
  BY DEF Typed
<1>2. Unread \in Nat
  BY <1>1 DEF Unread
<1>3. FullSize \in Nat
  BY Sizes
<1> QED
  BY <1>2, <1>3 DEF Generated

\* The downsampler writes the samples in their order behind from.
LEMMA FillingKeepsOrder ==
    ASSUME Typed, NEW b \in [1 .. FullSize -> Cells], NEW from \in 0 .. FullSize
    PROVE  /\ Filled(b, from) \in [1 .. FullSize -> Cells]
           /\ \A c \in 1 .. from : Filled(b, from)[c] = b[c]
           /\ InOnePiece(Filled(b, from), from + 1, from + Generated(from), input[1], 0)
<1> DEFINE F == Filled(b, from)
           n == Generated(from)
<1>1. /\ n \in Nat /\ from + n \in from .. FullSize /\ FullSize \in Nat
      /\ from \in Nat
  <2>1. FullSize \in Nat
    BY Sizes
  <2> HIDE DEF n
  <2>2. n \in Nat /\ from + n \in from .. FullSize
    BY GeneratedBounds DEF n
  <2> QED
    BY <2>1, <2>2
<1>0. input[1] \in Int
  BY DEF Typed
<1>2. F = [c \in 1 .. FullSize |->
             IF c \in from + 1 .. from + n
             THEN [pos |-> input[1] + c - from - 1, divided |-> 0, centred |-> TRUE]
             ELSE b[c]]
  BY DEF Filled
<1> HIDE DEF F, n
<1>3. \A c \in from + 1 .. from + n :
        /\ c \in 1 .. FullSize
        /\ F[c] = [pos |-> input[1] + c - (from + 1), divided |-> 0, centred |-> TRUE]
  <2> SUFFICES ASSUME NEW c \in from + 1 .. from + n
               PROVE  /\ c \in 1 .. FullSize
                      /\ F[c] = [pos |-> input[1] + c - (from + 1), divided |-> 0,
                                 centred |-> TRUE]
    OBVIOUS
  <2>1. c \in 1 .. FullSize /\ input[1] + c - from - 1 = input[1] + c - (from + 1)
    BY <1>0, <1>1
  <2> QED
    BY <2>1, <1>2
<1>4. \A c \in 1 .. FullSize : c \notin from + 1 .. from + n => F[c] = b[c]
  BY <1>2
<1>5. \A c \in 1 .. FullSize : F[c] \in Cells
  <2>1. \A c \in from + 1 .. from + n :
          [pos |-> input[1] + c - (from + 1), divided |-> 0, centred |-> TRUE] \in Cells
    BY <1>0, <1>1 DEF Cells
  <2> QED
    BY <2>1, <1>3, <1>4
<1>6. F \in [1 .. FullSize -> Cells]
  BY <1>2, <1>5
<1>7. \A c \in 1 .. from : F[c] = b[c]
  BY <1>1, <1>4
<1> QED
  BY <1>3, <1>6, <1>7 DEF InOnePiece, F, n

LEMMA EndOfSequence ==
    ASSUME NEW s \in Seq(Int), NEW m \in Nat, NEW n \in Nat \ {0}, Len(s) = n + m
    PROVE  /\ SubSeq(s, m + 1, n + m) \in Seq(Int)
           /\ Len(SubSeq(s, m + 1, n + m)) = n
           /\ \A i \in 1 .. n : SubSeq(s, m + 1, n + m)[i] = s[m + i]
<1>1. /\ m + 1 \in 1 .. Len(s) + 1 /\ n + m \in 0 .. Len(s)
      /\ m + 1 \in 1 .. Len(s) /\ n + m \in m + 1 .. Len(s)
  OBVIOUS
<1>2. n + m - (m + 1) + 1 = n /\ \A i \in 1 .. n : m + 1 + i - 1 = m + i
  OBVIOUS
<1> QED
  BY <1>1, <1>2, SubSeqProperties

LEMMA DividingLeavesTheRest ==
    ASSUME NEW b, NEW w, NEW first, NEW last
    PROVE  \A c \in (1 .. FullSize) \ (first .. last) :
             Normalized(b, w, first, last).b[c] = b[c]
BY DEF Normalized

\* The window goes along with the cells that it divides.
LEMMA DividingIsCentred ==
    ASSUME NEW b \in [1 .. FullSize -> Cells], NEW w,
           NEW first \in 1 .. FullSize, NEW last \in first .. FullSize,
           NEW pos \in Int, NEW to \in Int, to = pos + (last - first + 1),
           last + HalfWindow <= FullSize,
           IsAround(w, pos), InOnePiece(b, first, last + HalfWindow, pos, 0)
    PROVE  /\ Normalized(b, w, first, last).b \in [1 .. FullSize -> Cells]
           /\ InOnePiece(Normalized(b, w, first, last).b, first, last, pos, 1)
           /\ IsAround(Normalized(b, w, first, last).w, to)
<1> DEFINE r == Normalized(b, w, first, last)
           m == last - first + 1
           n == 2 * HalfWindow
           ahead == [i \in 1 .. m |-> b[first + i - 1 + HalfWindow].pos]
           seen == Seen(b, w, first, last)
<1>0. /\ w \in Seq(Int) /\ Len(w) = 2 * HalfWindow
      /\ \A i \in 1 .. 2 * HalfWindow : w[i] = pos - HalfWindow + i - 1
  BY DEF IsAround
<1>1. /\ m \in Nat \ {0} /\ n \in Nat \ {0} /\ FullSize \in Nat
      /\ HalfWindow \in Nat \ {0}
  BY Sizes
<1>2. \A c \in first .. last + HalfWindow :
        /\ c \in 1 .. FullSize
        /\ b[c] = [pos |-> pos + c - first, divided |-> 0, centred |-> TRUE]
        /\ b[c].pos = pos + c - first
  BY <1>1 DEF InOnePiece
<1>3. \A i \in 1 .. m : ahead[i] = pos + i - 1 + HalfWindow
  <2> SUFFICES ASSUME NEW i \in 1 .. m PROVE ahead[i] = pos + i - 1 + HalfWindow
    OBVIOUS
  <2>1. first + i - 1 + HalfWindow \in first .. last + HalfWindow
    BY <1>1
  <2>2. b[first + i - 1 + HalfWindow].pos = pos + (first + i - 1 + HalfWindow) - first
    BY <2>1, <1>2
  <2> QED
    BY <2>2, <1>1
<1>4. ahead \in Seq(Int) /\ Len(ahead) = m
  <2>1. ahead = [i \in 1 .. m |-> ahead[i]]
    OBVIOUS
  <2> HIDE DEF ahead, m
  <2>2. \A i \in 1 .. m : ahead[i] \in Int
    BY <1>1, <1>3
  <2>3. ahead \in [1 .. m -> Int]
    BY <2>1, <2>2
  <2> QED
    BY <2>3, <1>1
<1>5. seen = w \o ahead
  BY DEF Seen
<1>6. seen \in Seq(Int) /\ Len(seen) = n + m
  <2> HIDE DEF seen, ahead, m
  <2> QED
    BY <1>0, <1>4, <1>5, ConcatProperties
<1>7. \A j \in 1 .. n + m : seen[j] = pos - HalfWindow + j - 1
  <2> SUFFICES ASSUME NEW j \in 1 .. n + m PROVE seen[j] = pos - HalfWindow + j - 1
    OBVIOUS
  <2> HIDE DEF seen, ahead, m
  <2>1. CASE j <= n
    <3>1. j \in 1 .. Len(w) + Len(ahead) /\ j <= Len(w)
      BY <2>1, <1>0, <1>1, <1>4
    <3>2. (w \o ahead)[j] = w[j]
      BY <3>1, <1>0, <1>4, ConcatProperties
    <3> QED
      BY <2>1, <3>2, <1>0, <1>1, <1>5
  <2>2. CASE j > n
    <3>0. j \in 1 .. Len(w) + Len(ahead) /\ ~(j <= Len(w))
      BY <2>2, <1>0, <1>1, <1>4
    <3>1. (w \o ahead)[j] = ahead[j - Len(w)]
      BY <3>0, <1>0, <1>4, ConcatProperties
    <3>2. j - n \in 1 .. m
      BY <2>2, <1>1
    <3>3. ahead[j - n] = pos + (j - n) - 1 + HalfWindow
      BY <3>2, <1>3
    <3>4. pos + (j - n) - 1 + HalfWindow = pos - HalfWindow + j - 1
      BY <1>1 DEF n
    <3> QED
      BY <3>1, <3>3, <3>4, <1>0, <1>5
  <2> QED
    BY <2>1, <2>2, <1>1
<1>8. \A c \in 1 .. FullSize :
        r.b[c] = IF c \in first .. last
                 THEN Divided(b[c], seen[c - first + 1], seen[c - first + n])
                 ELSE b[c]
  BY DEF Normalized
<1>9. \A c \in first .. last :
        r.b[c] = [pos |-> pos + c - first, divided |-> 1, centred |-> TRUE]
  <2> SUFFICES ASSUME NEW c \in first .. last
               PROVE  r.b[c] = [pos |-> pos + c - first, divided |-> 1, centred |-> TRUE]
    OBVIOUS
  <2> HIDE DEF r, seen
  <2>1. /\ c \in 1 .. FullSize /\ c \in first .. last + HalfWindow
        /\ c - first + 1 \in 1 .. n + m /\ c - first + n \in 1 .. n + m
    BY <1>1
  <2>2. /\ seen[c - first + 1] = pos + c - first - HalfWindow
        /\ seen[c - first + n] = pos + c - first + HalfWindow - 1
    BY <2>1, <1>1, <1>7
  <2>3. b[c] = [pos |-> pos + c - first, divided |-> 0, centred |-> TRUE]
    BY <2>1, <1>2
  <2>4. r.b[c] = Divided(b[c], seen[c - first + 1], seen[c - first + n])
    BY <2>1, <1>8
  <2>5. /\ b[c].pos = pos + c - first /\ b[c].divided + 1 = 1
        /\ seen[c - first + 1] = b[c].pos - HalfWindow
        /\ seen[c - first + n] = b[c].pos + HalfWindow - 1
    BY <2>2, <2>3, <1>1
  <2>6. (/\ seen[c - first + 1] = b[c].pos - HalfWindow
         /\ seen[c - first + n] = b[c].pos + HalfWindow - 1) = TRUE
    BY <2>5
  <2> QED
    BY <2>4, <2>5, <2>6, Zenon DEF Divided
<1>10. \A c \in 1 .. FullSize : r.b[c] \in Cells
  <2> HIDE DEF r, seen
  <2>1. \A c \in first .. last :
          [pos |-> pos + c - first, divided |-> 1, centred |-> TRUE] \in Cells
    BY <1>1 DEF Cells
  <2> QED
    BY <2>1, <1>8, <1>9
<1>11. r.b \in [1 .. FullSize -> Cells]
  <2>1. r.b = [c \in 1 .. FullSize |-> r.b[c]]
    BY DEF Normalized
  <2> HIDE DEF r
  <2> QED
    BY <2>1, <1>10
<1>12. r.w = SubSeq(seen, m + 1, n + m)
  <2>1. r.w = SubSeq(seen, last - first + 2, Len(seen))
    BY DEF Normalized
  <2>2. last - first + 2 = m + 1
    OBVIOUS
  <2> HIDE DEF r, seen, m
  <2> QED
    BY <2>1, <2>2, <1>6
<1>13. /\ r.w \in Seq(Int) /\ Len(r.w) = n
       /\ \A i \in 1 .. n : r.w[i] = seen[m + i]
  <2> HIDE DEF r, seen, m, n
  <2>1. m \in Nat /\ n \in Nat \ {0}
    BY <1>1
  <2>2. seen \in Seq(Int) /\ Len(seen) = n + m
    BY <1>6
  <2>3. /\ SubSeq(seen, m + 1, n + m) \in Seq(Int)
        /\ Len(SubSeq(seen, m + 1, n + m)) = n
        /\ \A i \in 1 .. n : SubSeq(seen, m + 1, n + m)[i] = seen[m + i]
    BY <2>1, <2>2, EndOfSequence
  <2> QED
    BY <2>3, <1>12
<1>14. \A i \in 1 .. n : r.w[i] = pos + m - HalfWindow + i - 1
  <2> HIDE DEF r, seen, m, n
  <2>1. \A i \in 1 .. n : m + i \in 1 .. n + m
    BY <1>1
  <2> QED
    BY <2>1, <1>1, <1>7, <1>13
<1> QED
  <2>2. InOnePiece(r.b, first, last, pos, 1)
    BY <1>9 DEF InOnePiece
  <2>3. \A i \in 1 .. n : r.w[i] = to - HalfWindow + i - 1
    <3>1. to = pos + m
      OBVIOUS
    <3> SUFFICES ASSUME NEW i \in 1 .. n PROVE r.w[i] = to - HalfWindow + i - 1
      OBVIOUS
    <3> HIDE DEF r, m, n
    <3>2. r.w[i] = pos + m - HalfWindow + i - 1
      BY <1>14
    <3> QED
      BY <3>1, <3>2, <1>1
  <2>4. IsAround(r.w, to)
    BY <2>3, <1>13 DEF IsAround
  <2> QED
    BY <2>2, <2>4, <1>11, Zenon

-------------------------------------------------------------------------------
(* Every step keeps the invariant.                                              *)

LEMMA InitHolds == Init => IInv
<1> SUFFICES ASSUME Init PROVE IInv
  OBVIOUS
<1>1. /\ ProcessSize - HalfWindow \in 0 .. FullSize
      /\ ProcessSize - HalfWindow < FullSize
  BY Sizes
<1>2. length \in Nat
  BY ExtractorSizes DEF Init
<1>3. buf \in [1 .. FullSize -> Cells]
  BY DEF Init, Cells
<1>4. /\ input[1] = 1 /\ input[2] = 0 /\ input \in Int \X Int
      /\ keys = <<>> /\ keys \in Seq(Int) /\ Len(keys) = 0
  BY DEF Init
<1>5. /\ query \in BOOLEAN /\ preBufferPassed = FALSE
      /\ pc = "idle" /\ endOfStream = FALSE /\ skippedSoFar = 0 /\ stale = FALSE
      /\ curr = ProcessSize - HalfWindow
  BY DEF Init
<1>6. FirstKey = (IF query THEN ToSkip ELSE 0) + HalfWindow + 1
  BY DEF FirstKey
<1>12. skipPassed \in BOOLEAN /\ (skipPassed <=> ~query)
  BY Zenon DEF Init
<1>7. Typed
  <2>1. curr \in 0 .. FullSize /\ input[1] <= input[2] + 1 /\ input[2] <= length
    BY <1>1, <1>2, <1>4, <1>5
  <2> QED
    BY <1>2, <1>3, <1>4, <1>5, <1>12, <2>1 DEF Typed
<1>11. Phases
  <2>1. Unread = 0
    BY <1>4 DEF Unread
  <2>2. ~skipPassed => query
    BY <1>12
  <2> QED
    BY <1>4, <1>5, <2>1, <2>2, ExtractorSizes DEF Phases
<1>8. PreBufferIsOfTrack
  <2>1. InOnePiece(buf, ProcessSize - HalfWindow + 1, curr, FirstKey - HalfWindow, 0)
    BY Sizes DEF InOnePiece, Init
  <2>2. skipPassed => input[1] = FirstKey - ProcessSize + curr
    <3>1. skipPassed => ~query
      BY <1>12
    <3>2. ~query => FirstKey = HalfWindow + 1
      BY <1>6, Sizes
    <3> QED
      BY <1>4, <1>5, <3>1, <3>2, Sizes
  <2> QED
    BY <1>1, <1>4, <2>1, <2>2, Sizes DEF PreBufferIsOfTrack, Init
<1>9. EndIsOfTrack /\ BlockIsOfTrack /\ WindowIsOfTrack
  BY DEF Init, EndIsOfTrack, BlockIsOfTrack, WindowIsOfTrack, AtTheEnd, InTheBlock
<1>10. KeysOfOnePass
  BY <1>4 DEF KeysOfOnePass, FullBlocks
<1> QED
  BY <1>7, <1>8, <1>9, <1>10, <1>11 DEF IInv

\* The next piece goes on where the last one ended, behind what is skipped.
LEMMA ProcessKeeps ==
    ASSUME IInv, NEW n \in Pieces, Process(n)
    PROVE  IInv'
<1> USE DEF IInv
<1> DEFINE first == input[2] + 1
           last == IF first + n - 1 < length THEN first + n - 1 ELSE length
           size == last - first + 1
<1>1. /\ pc = "idle" /\ ~stale /\ UNCHANGED <<signal, length, query>>
      /\ UNCHANGED <<preBufferPassed, buf, curr, normWindow, keys, stale>>
      /\ endOfStream' = (last = length)
  BY DEF Process, Phases, Track
<1>2. /\ n \in Nat \ {0} /\ ToSkip \in Nat /\ length \in Nat /\ skippedSoFar \in Nat
      /\ input[1] \in Int /\ input[2] \in Int /\ input[2] <= length
      /\ input[1] = input[2] + 1
  BY <1>1, ExtractorSizes DEF Typed, Phases, Unread
<1>3. /\ first \in Int /\ last \in Int /\ size \in Nat
      /\ first <= last + 1 /\ last <= length
  BY <1>2
<1>4. CASE ~skipPassed /\ skippedSoFar + size <= ToSkip
  <2>1. /\ skippedSoFar' = skippedSoFar + size /\ input' = <<last + 1, last>>
        /\ UNCHANGED <<pc, skipPassed>>
    BY <1>4 DEF Process
  <2> HIDE DEF last, first
  <2>2. /\ input'[1] = last + 1 /\ input'[2] = last /\ input' \in Int \X Int
    BY <2>1, <1>3
  <2>3. Typed'
    BY <1>1, <1>2, <1>3, <2>1, <2>2 DEF Typed
  <2>4. last = skippedSoFar + size
    BY <1>2, <1>3, <1>4 DEF Phases, first
  <2>5. Phases'
    BY <1>1, <1>3, <1>4, <2>1, <2>2, <2>4 DEF Phases, Unread
  <2>6. PreBufferIsOfTrack'
    BY <1>1, <1>4, <2>1 DEF PreBufferIsOfTrack, FirstKey
  <2>7. ~preBufferPassed
    BY <1>4 DEF Phases
  <2>8. EndIsOfTrack' /\ BlockIsOfTrack' /\ WindowIsOfTrack'
    BY <1>1, <2>7 DEF EndIsOfTrack, BlockIsOfTrack, WindowIsOfTrack, AtTheEnd, InTheBlock
  <2>9. KeysOfOnePass'
    BY <1>1, <2>1 DEF KeysOfOnePass, FullBlocks, FirstKey
  <2> QED
    BY <2>3, <2>5, <2>6, <2>8, <2>9
<1>5. CASE skipPassed \/ ~(skippedSoFar + size <= ToSkip)
  <2> DEFINE from == IF skipPassed THEN first ELSE first + ToSkip - skippedSoFar
  <2>1. /\ input' = <<from, last>> /\ skipPassed' = TRUE /\ skippedSoFar' = skippedSoFar
        /\ pc' = IF preBufferPassed THEN "loop" ELSE "prebuffer"
    BY <1>5 DEF Process
  <2>2. from \in Int /\ from <= last + 1
    BY <1>2, <1>3, <1>5
  <2>3. from = IF skipPassed THEN input[1] ELSE ToSkip + 1
    BY <1>2, <1>3 DEF Phases
  <2> HIDE DEF last, first, from, size
  <2>4. input'[1] = from /\ input'[2] = last /\ input' \in Int \X Int
    BY <2>1, <2>2, <1>3
  <2>5. Typed'
    BY <1>1, <1>2, <1>3, <2>1, <2>2, <2>4 DEF Typed
  <2>6. Phases'
    BY <1>1, <2>1 DEF Phases
  <2>7. PreBufferIsOfTrack'
    <3>1. CASE preBufferPassed
      BY <1>1, <3>1 DEF PreBufferIsOfTrack
    <3>2. CASE ~preBufferPassed /\ skipPassed
      BY <1>1, <2>1, <2>3, <2>4, <3>2 DEF PreBufferIsOfTrack, FirstKey
    <3>3. CASE ~preBufferPassed /\ ~skipPassed
      <4>1. curr = ProcessSize - HalfWindow /\ query
        BY <3>3 DEF Phases
      <4>2. ToSkip + 1 = FirstKey - ProcessSize + curr
        BY <4>1, <1>2, Sizes DEF FirstKey
      <4> QED
        BY <1>1, <2>1, <2>3, <2>4, <3>3, <4>2 DEF PreBufferIsOfTrack, FirstKey
    <3> QED
      BY <3>1, <3>2, <3>3
  <2>8. preBufferPassed => InTheBlock /\ pc' = "loop" /\ curr # FullSize /\ skipPassed
    BY <1>1, <2>1 DEF InTheBlock, AtTheEnd, BlockIsOfTrack, Phases
  <2>9. ~AtTheEnd' /\ (InTheBlock' => InTheBlock)
    BY <1>1, <2>1, <2>8 DEF InTheBlock, AtTheEnd
  <2>10. EndIsOfTrack'
    BY <2>9 DEF EndIsOfTrack
  <2>11. BlockIsOfTrack'
    <3> SUFFICES ASSUME InTheBlock' PROVE BlockIsOfTrack'
      BY DEF BlockIsOfTrack
    <3>1. InTheBlock /\ input'[1] = input[1] /\ curr # FullSize /\ pc' = "loop"
      BY <1>1, <2>3, <2>4, <2>8, <2>9 DEF InTheBlock
    <3> QED
      BY <1>1, <3>1 DEF BlockIsOfTrack, NextKey, FirstKey
  <2>12. WindowIsOfTrack'
    BY <1>1, <2>9 DEF WindowIsOfTrack, IsAround, NextKey, FirstKey
  <2>13. KeysOfOnePass'
    BY <1>1, <2>1 DEF KeysOfOnePass, FullBlocks, FirstKey
  <2> QED
    BY <2>5, <2>6, <2>7, <2>10, <2>11, <2>12, <2>13
<1> QED
  BY <1>4, <1>5

\* Two pieces that fit are one.
LEMMA PiecesJoin ==
    ASSUME NEW b, NEW first \in Int, NEW mid \in Int, NEW last \in Int, NEW pos \in Int,
           NEW next \in Int, NEW times, next = pos + (mid + 1 - first),
           InOnePiece(b, first, mid, pos, times), InOnePiece(b, mid + 1, last, next, times)
    PROVE  InOnePiece(b, first, last, pos, times)
<1> SUFFICES ASSUME NEW c \in first .. last
             PROVE  b[c] = [pos |-> pos + c - first, divided |-> times, centred |-> TRUE]
  BY DEF InOnePiece
<1>1. CASE c <= mid
  BY <1>1 DEF InOnePiece
<1>2. CASE c > mid
  <2>1. c \in mid + 1 .. last /\ next + c - (mid + 1) = pos + c - first
    BY <1>2
  <2>2. b[c] = [pos |-> next + c - (mid + 1), divided |-> times, centred |-> TRUE]
    BY <2>1 DEF InOnePiece
  <2> QED
    BY <2>1, <2>2
<1> QED
  BY <1>1, <1>2

\* Cells that are not written stay in their piece.
LEMMA PieceStays ==
    ASSUME NEW b, NEW d, NEW first \in Int, NEW last \in Int, NEW pos, NEW times,
           \A c \in first .. last : d[c] = b[c], InOnePiece(b, first, last, pos, times)
    PROVE  InOnePiece(d, first, last, pos, times)
BY DEF InOnePiece

\* PREBUFFER: the average of the first sample that is divided is complete.
LEMMA PreBufferKeeps ==
    ASSUME IInv, PreBuffer
    PROVE  IInv'
<1> USE DEF IInv
<1> DEFINE b  == Filled(buf, curr)
           to == curr + Generated(curr)
           w  == [i \in 1 .. 2 * HalfWindow |-> b[ProcessSize - HalfWindow + i].pos]
           r  == Normalized(b, w, ProcessSize + 1, ProcessSize + Compensate)
<1>1. /\ pc = "prebuffer" /\ ~preBufferPassed /\ skipPassed /\ ~stale
      /\ UNCHANGED <<signal, length, query>>
      /\ UNCHANGED <<endOfStream, skippedSoFar, skipPassed, keys, stale>>
      /\ curr' = to /\ input' = <<input[1] + Generated(curr), input[2]>>
  BY DEF PreBuffer, Track, Phases
<1>2. /\ curr \in 0 .. FullSize /\ buf \in [1 .. FullSize -> Cells]
      /\ input[1] \in Int /\ input[2] \in Int /\ input[2] <= length
      /\ length \in Nat /\ keys \in Seq(Int)
  BY DEF Typed
<1>3. /\ Generated(curr) \in Nat /\ to \in curr .. FullSize
      /\ Generated(curr) <= Unread
      /\ to # FullSize => Generated(curr) = Unread
  BY <1>2, GeneratedBounds
<1>4. /\ ProcessSize \in Nat /\ HalfWindow \in Nat \ {0} /\ Compensate \in Nat \ {0}
      /\ FullSize = ProcessSize + Compensate + HalfWindow /\ FullSize \in Nat
      /\ HalfWindow <= ProcessSize /\ FirstKey \in Nat
  BY Sizes, FirstKeyIsNat
<1>5. /\ keys = <<>> /\ curr >= ProcessSize - HalfWindow
      /\ InOnePiece(buf, ProcessSize - HalfWindow + 1, curr, FirstKey - HalfWindow, 0)
      /\ input[1] = FirstKey - ProcessSize + curr
  BY <1>1 DEF PreBufferIsOfTrack
<1>6. /\ b \in [1 .. FullSize -> Cells]
      /\ \A c \in 1 .. curr : b[c] = buf[c]
      /\ InOnePiece(b, curr + 1, to, input[1], 0)
  BY <1>2, FillingKeepsOrder
<1> HIDE DEF b, to
<1>7. InOnePiece(b, ProcessSize - HalfWindow + 1, to, FirstKey - HalfWindow, 0)
  <2>1. InOnePiece(b, ProcessSize - HalfWindow + 1, curr, FirstKey - HalfWindow, 0)
    <3>1. \A c \in ProcessSize - HalfWindow + 1 .. curr : b[c] = buf[c]
      BY <1>2, <1>4, <1>6
    <3>2. ProcessSize - HalfWindow + 1 \in Int /\ curr \in Int
      BY <1>2, <1>4
    <3> QED
      BY <3>1, <3>2, <1>5, PieceStays
  <2>2. /\ input[1] = FirstKey - HalfWindow + (curr + 1 - (ProcessSize - HalfWindow + 1))
        /\ ProcessSize - HalfWindow + 1 \in Int /\ curr \in Int /\ to \in Int
        /\ FirstKey - HalfWindow \in Int
    BY <1>2, <1>3, <1>4, <1>5
  <2> QED
    BY <2>1, <2>2, <1>2, <1>6, PiecesJoin
<1>8. /\ input'[1] = input[1] + Generated(curr) /\ input'[2] = input[2]
      /\ input' \in Int \X Int /\ input'[1] <= input'[2] + 1
      /\ input'[1] = FirstKey - ProcessSize + to
  <2>1. /\ input'[1] = input[1] + Generated(curr) /\ input'[2] = input[2]
        /\ input' \in Int \X Int
    BY <1>1, <1>2, <1>3
  <2>2. input'[1] <= input'[2] + 1
    BY <2>1, <1>2, <1>3 DEF Unread
  <2>3. input'[1] = FirstKey - ProcessSize + to
    BY <2>1, <1>2, <1>3, <1>4, <1>5 DEF to
  <2> QED
    BY <2>1, <2>2, <2>3
<1>9. FirstKey' = FirstKey /\ NextKey' = FirstKey
  BY <1>1, <1>4, <1>5, ExtractorSizes DEF FirstKey, NextKey
<1>10. KeysOfOnePass'
  BY <1>1, <1>5 DEF KeysOfOnePass, FullBlocks
<1>11. CASE to # FullSize
  <2>1. buf' = b /\ pc' = "idle" /\ UNCHANGED <<preBufferPassed, normWindow>>
    BY <1>11 DEF PreBuffer, b, to
  <2>2. Typed'
    BY <2>1, <1>1, <1>2, <1>3, <1>6, <1>8 DEF Typed
  <2>3. Phases'
    <3>1. Unread' = 0
      <4>1. Generated(curr) = input[2] - input[1] + 1
        BY <1>3, <1>11 DEF Unread
      <4>2. Unread' = input'[2] - input'[1] + 1
        BY DEF Unread
      <4> QED
        BY <4>1, <4>2, <1>2, <1>8
    <3> QED
      BY <2>1, <3>1, <1>1 DEF Phases
  <2>4. PreBufferIsOfTrack'
    <3>1. curr' >= ProcessSize - HalfWindow /\ curr' < FullSize
      BY <1>1, <1>2, <1>3, <1>4, <1>5, <1>11
    <3> QED
      BY <2>1, <3>1, <1>1, <1>5, <1>7, <1>8, <1>9 DEF PreBufferIsOfTrack
  <2>5. EndIsOfTrack' /\ BlockIsOfTrack' /\ WindowIsOfTrack'
    BY <2>1, <1>1 DEF EndIsOfTrack, BlockIsOfTrack, WindowIsOfTrack, AtTheEnd, InTheBlock
  <2> QED
    BY <2>2, <2>3, <2>4, <2>5, <1>10
<1>12. CASE to = FullSize
  <2>1. /\ buf' = r.b /\ normWindow' = r.w
        /\ preBufferPassed' = TRUE /\ pc' = "loop"
    BY <1>12 DEF PreBuffer, b, to
  <2>2. \A c \in ProcessSize - HalfWindow + 1 .. FullSize :
          /\ c \in 1 .. FullSize
          /\ b[c] = [pos |-> FirstKey + c - (ProcessSize + 1), divided |-> 0, centred |-> TRUE]
    <3> SUFFICES ASSUME NEW c \in ProcessSize - HalfWindow + 1 .. FullSize
                 PROVE  /\ c \in 1 .. FullSize
                        /\ b[c] = [pos |-> FirstKey + c - (ProcessSize + 1), divided |-> 0,
                                   centred |-> TRUE]
      OBVIOUS
    <3>1. /\ c \in 1 .. FullSize
          /\ FirstKey - HalfWindow + c - (ProcessSize - HalfWindow + 1)
               = FirstKey + c - (ProcessSize + 1)
      BY <1>4
    <3>2. b[c] = [pos |-> FirstKey - HalfWindow + c - (ProcessSize - HalfWindow + 1),
                  divided |-> 0, centred |-> TRUE]
      BY <1>7, <1>12 DEF InOnePiece
    <3> QED
      BY <3>1, <3>2
  <2>3. \A i \in 1 .. 2 * HalfWindow : w[i] = FirstKey - HalfWindow + i - 1
    <3> SUFFICES ASSUME NEW i \in 1 .. 2 * HalfWindow
                 PROVE  w[i] = FirstKey - HalfWindow + i - 1
      OBVIOUS
    <3>1. /\ ProcessSize - HalfWindow + i \in ProcessSize - HalfWindow + 1 .. FullSize
          /\ FirstKey + (ProcessSize - HalfWindow + i) - (ProcessSize + 1)
               = FirstKey - HalfWindow + i - 1
      BY <1>4
    <3>2. b[ProcessSize - HalfWindow + i]
            = [pos |-> FirstKey + (ProcessSize - HalfWindow + i) - (ProcessSize + 1),
               divided |-> 0, centred |-> TRUE]
      BY <3>1, <2>2, Zenon
    <3> QED
      BY <3>1, <3>2
  <2>4. IsAround(w, FirstKey)
    <3>1. w = [i \in 1 .. 2 * HalfWindow |-> w[i]]
      OBVIOUS
    <3> HIDE DEF w
    <3>2. \A i \in 1 .. 2 * HalfWindow : w[i] \in Int
      BY <2>3, <1>4
    <3>3. w \in [1 .. 2 * HalfWindow -> Int] /\ 2 * HalfWindow \in Nat
      BY <3>1, <3>2, <1>4
    <3> QED
      BY <3>3, <2>3 DEF IsAround
  <2> HIDE DEF w
  <2> DEFINE first == ProcessSize + 1
             last  == ProcessSize + Compensate
             nextPos == FirstKey + Compensate
  <2>5. /\ first \in 1 .. FullSize /\ last \in first .. FullSize
        /\ last + HalfWindow = FullSize /\ last + HalfWindow <= FullSize
        /\ nextPos \in Int /\ nextPos = FirstKey + (last - first + 1)
        /\ FirstKey \in Int
    BY <1>4
  <2>6. InOnePiece(b, first, last + HalfWindow, FirstKey, 0)
    BY <2>2, <2>5, <1>4 DEF InOnePiece
  <2> HIDE DEF first, last, nextPos
  <2>7. /\ r.b \in [1 .. FullSize -> Cells]
        /\ \A c \in (1 .. FullSize) \ (first .. last) : r.b[c] = b[c]
        /\ InOnePiece(r.b, first, last, FirstKey, 1)
        /\ IsAround(r.w, nextPos)
    <3>1. r = Normalized(b, w, first, last)
      BY DEF first, last
    <3>2. /\ b \in [1 .. FullSize -> Cells] /\ IsAround(w, FirstKey)
          /\ first \in 1 .. FullSize /\ last \in first .. FullSize
          /\ last + HalfWindow <= FullSize /\ FirstKey \in Int /\ nextPos \in Int
          /\ nextPos = FirstKey + (last - first + 1)
          /\ InOnePiece(b, first, last + HalfWindow, FirstKey, 0)
      BY <2>4, <2>5, <2>6, <1>6
    <3>3. Normalized(b, w, first, last).b \in [1 .. FullSize -> Cells]
      BY <3>2, DividingIsCentred, Zenon
    <3>4. \A c \in (1 .. FullSize) \ (first .. last) :
            Normalized(b, w, first, last).b[c] = b[c]
      BY DividingLeavesTheRest
    <3>5. InOnePiece(Normalized(b, w, first, last).b, first, last, FirstKey, 1)
      BY <3>2, DividingIsCentred, Zenon
    <3>6. IsAround(Normalized(b, w, first, last).w, nextPos)
      BY <3>2, DividingIsCentred, Zenon
    <3> HIDE DEF r
    <3> QED
      BY <3>1, <3>3, <3>4, <3>5, <3>6
  <2> HIDE DEF r
  <2>8. Typed'
    BY <2>1, <2>7, <1>1, <1>2, <1>3, <1>8 DEF Typed
  <2>9. Phases'
    BY <2>1, <1>1 DEF Phases
  <2>10. PreBufferIsOfTrack' /\ BlockIsOfTrack'
    BY <2>1, <1>1, <1>12 DEF PreBufferIsOfTrack, BlockIsOfTrack, InTheBlock, AtTheEnd
  <2>11. EndIsOfTrack'
    <3>1. InOnePiece(buf', ProcessSize + 1, ProcessSize + Compensate, NextKey', 1)
      BY <2>1, <2>7, <1>9 DEF first, last
    <3>2. InOnePiece(buf', ProcessSize + Compensate + 1, FullSize, NextKey' + Compensate, 0)
      <4> SUFFICES ASSUME NEW c \in last + 1 .. FullSize
                   PROVE  r.b[c] = [pos |-> nextPos + c - (last + 1), divided |-> 0,
                                    centred |-> TRUE]
        BY <2>1, <1>9 DEF InOnePiece, nextPos, last
      <4>1. /\ c \in (1 .. FullSize) \ (first .. last)
            /\ c \in ProcessSize - HalfWindow + 1 .. FullSize
            /\ nextPos + c - (last + 1) = FirstKey + c - (ProcessSize + 1)
        BY <1>4 DEF first, last, nextPos
      <4> QED
        BY <4>1, <2>2, <2>7
    <3>3. input'[1] = NextKey' + Compensate + HalfWindow
      BY <1>4, <1>8, <1>9, <1>12
    <3> QED
      BY <3>1, <3>2, <3>3 DEF EndIsOfTrack
  <2>12. WindowIsOfTrack'
    BY <2>1, <2>7, <1>9 DEF WindowIsOfTrack, nextPos
  <2> QED
    BY <2>8, <2>9, <2>10, <2>11, <2>12, <1>10
<1> QED
  BY <1>11, <1>12

LEMMA FinishKeeps ==
    ASSUME IInv, Finish
    PROVE  IInv'
<1>1. /\ pc = "finish" /\ pc' \in {"ready", "thrown"}
      /\ UNCHANGED <<signal, length, query>>
      /\ UNCHANGED <<input, endOfStream, skippedSoFar, skipPassed, preBufferPassed,
                     buf, curr, normWindow, keys, stale>>
  BY DEF Finish, Track
<1>2. preBufferPassed
  BY <1>1 DEF IInv, Phases
<1> QED
  BY <1>1, <1>2 DEF IInv, Typed, Phases, PreBufferIsOfTrack, EndIsOfTrack, BlockIsOfTrack,
                    WindowIsOfTrack, AtTheEnd, InTheBlock, KeysOfOnePass, FullBlocks, FirstKey

\* Steps 1 and 2: what is moved to the front, and what is read behind it.
LEMMA ReadBlockKeeps ==
    ASSUME IInv, ReadBlock
    PROVE  IInv'
<1> USE DEF IInv
<1> DEFINE moved == curr = FullSize
           b     == IF moved THEN ToFront(buf) ELSE buf
           from  == IF moved THEN Compensate + HalfWindow ELSE curr
           n     == IF Unread = 0 THEN 0 ELSE Generated(from)
<1>1. /\ pc = "loop" /\ preBufferPassed /\ skipPassed /\ ~stale
      /\ UNCHANGED <<signal, length, query>>
      /\ UNCHANGED <<endOfStream, skippedSoFar, skipPassed, preBufferPassed,
                     normWindow, keys>>
  BY DEF ReadBlock, Track, Phases
<1>2. /\ curr \in 0 .. FullSize /\ buf \in [1 .. FullSize -> Cells]
      /\ input[1] \in Int /\ input[2] \in Int /\ input[1] <= input[2] + 1
      /\ input[2] <= length /\ length \in Nat /\ keys \in Seq(Int)
  BY DEF Typed
<1>3. /\ ProcessSize \in Nat /\ HalfWindow \in Nat \ {0} /\ Compensate \in Nat \ {0}
      /\ FullSize = ProcessSize + Compensate + HalfWindow /\ FullSize \in Nat
      /\ Compensate + HalfWindow <= ProcessSize
  BY Sizes
<1>4. NextKey \in Int /\ NextKey' = NextKey
  <2>1. Len(keys) * Overlap \in Int
    BY <1>2, Sizes
  <2> QED
    BY <2>1, <1>1, FirstKeyIsNat DEF NextKey, FirstKey
<1>5. /\ b \in [1 .. FullSize -> Cells]
      /\ from \in Compensate + HalfWindow .. FullSize - 1
      /\ InOnePiece(b, 1, Compensate, NextKey, 1)
      /\ InOnePiece(b, Compensate + 1, from, NextKey + Compensate, 0)
      /\ input[1] = NextKey + from
      /\ IsAround(normWindow, NextKey + Compensate)
  <2>1. CASE moved
    <3>1. AtTheEnd
      BY <2>1, <1>1 DEF AtTheEnd
    <3>2. /\ InOnePiece(buf, ProcessSize + 1, ProcessSize + Compensate, NextKey, 1)
          /\ InOnePiece(buf, ProcessSize + Compensate + 1, FullSize, NextKey + Compensate, 0)
          /\ input[1] = NextKey + Compensate + HalfWindow
          /\ IsAround(normWindow, NextKey + Compensate)
      BY <3>1 DEF EndIsOfTrack, WindowIsOfTrack
    <3>3. /\ b = [i \in 1 .. FullSize |-> IF i <= Compensate + HalfWindow
                                         THEN buf[ProcessSize + i] ELSE buf[i]]
          /\ from = Compensate + HalfWindow
      BY <2>1 DEF ToFront
    <3> HIDE DEF b, from
    <3>4. b \in [1 .. FullSize -> Cells]
      BY <3>3, <1>2, <1>3
    <3>5. InOnePiece(b, 1, Compensate, NextKey, 1)
      <4> SUFFICES ASSUME NEW c \in 1 .. Compensate
                   PROVE  b[c] = [pos |-> NextKey + c - 1, divided |-> 1, centred |-> TRUE]
        BY DEF InOnePiece
      <4>1. /\ c \in 1 .. FullSize /\ c <= Compensate + HalfWindow
            /\ ProcessSize + c \in ProcessSize + 1 .. ProcessSize + Compensate
            /\ NextKey + (ProcessSize + c) - (ProcessSize + 1) = NextKey + c - 1
        BY <1>3, <1>4
      <4>2. buf[ProcessSize + c] = [pos |-> NextKey + (ProcessSize + c) - (ProcessSize + 1),
                                    divided |-> 1, centred |-> TRUE]
        BY <4>1, <3>2, Zenon DEF InOnePiece
      <4> QED
        BY <4>1, <4>2, <3>3
    <3>6. InOnePiece(b, Compensate + 1, from, NextKey + Compensate, 0)
      <4> SUFFICES ASSUME NEW c \in Compensate + 1 .. Compensate + HalfWindow
                   PROVE  b[c] = [pos |-> NextKey + Compensate + c - (Compensate + 1),
                                  divided |-> 0, centred |-> TRUE]
        BY <3>3 DEF InOnePiece
      <4>1. /\ c \in 1 .. FullSize /\ c <= Compensate + HalfWindow
            /\ ProcessSize + c \in ProcessSize + Compensate + 1 .. FullSize
            /\ NextKey + Compensate + (ProcessSize + c) - (ProcessSize + Compensate + 1)
                 = NextKey + Compensate + c - (Compensate + 1)
        BY <1>3, <1>4
      <4>2. buf[ProcessSize + c]
              = [pos |-> NextKey + Compensate + (ProcessSize + c)
                           - (ProcessSize + Compensate + 1),
                 divided |-> 0, centred |-> TRUE]
        BY <4>1, <3>2, Zenon DEF InOnePiece
      <4> QED
        BY <4>1, <4>2, <3>3
    <3> QED
      BY <3>2, <3>3, <3>4, <3>5, <3>6, <1>3, <1>4
  <2>2. CASE ~moved
    <3>1. InTheBlock /\ b = buf /\ from = curr
      BY <2>2, <1>1 DEF AtTheEnd, InTheBlock
    <3> HIDE DEF b, from
    <3> QED
      BY <3>1, <2>2, <1>2, <1>3 DEF BlockIsOfTrack, WindowIsOfTrack
  <2> QED
    BY <2>1, <2>2
<1>6. /\ Generated(from) \in Nat /\ Unread \in Nat
      /\ from + Generated(from) \in from .. FullSize
      /\ Generated(from) <= Unread
      /\ from + Generated(from) # FullSize => Generated(from) = Unread
  <2> HIDE DEF b, from
  <2>1. from \in 0 .. FullSize
    BY <1>3, <1>5
  <2> QED
    BY <2>1, GeneratedBounds
<1>7. /\ curr' = from + n /\ input'[1] = input[1] + n /\ input'[2] = input[2]
      /\ input' \in Int \X Int /\ pc' = AfterReading(Unread = 0, curr')
      /\ stale' = (pc' = "block" /\ curr' # FullSize)
  <2>1. CASE Unread = 0
    <3>1. curr' = from /\ input' = input
      BY <2>1 DEF ReadBlock
    <3>2. input' \in Int \X Int
      BY <3>1 DEF Typed
    <3> HIDE DEF from
    <3>3. curr' = from + n /\ input'[1] = input[1] + n /\ input'[2] = input[2]
      BY <3>1, <2>1, <1>2, <1>5
    <3> QED
      BY <3>2, <3>3 DEF ReadBlock
  <2>2. CASE Unread # 0
    <3>1. curr' = from + Generated(from) /\ input' = <<input[1] + Generated(from), input[2]>>
      BY <2>2 DEF ReadBlock
    <3> HIDE DEF from
    <3>2. /\ curr' = from + n /\ input'[1] = input[1] + n /\ input'[2] = input[2]
          /\ input' \in Int \X Int
      BY <3>1, <2>2, <1>2, <1>6
    <3> QED
      BY <3>2 DEF ReadBlock
  <2> QED
    BY <2>1, <2>2
<1>8. /\ buf' \in [1 .. FullSize -> Cells]
      /\ \A c \in 1 .. from : buf'[c] = b[c]
      /\ InOnePiece(buf', from + 1, from + n, input[1], 0)
  <2>1. CASE Unread = 0
    <3>1. buf' = b
      BY <2>1 DEF ReadBlock
    <3> HIDE DEF b, from
    <3>2. InOnePiece(buf', from + 1, from + n, input[1], 0)
      BY <2>1, <1>3, <1>5 DEF InOnePiece
    <3> QED
      BY <3>1, <3>2, <1>5
  <2>2. CASE Unread # 0
    <3>1. buf' = Filled(b, from) /\ n = Generated(from)
      BY <2>2 DEF ReadBlock
    <3> HIDE DEF b, from, n
    <3>2. from \in 0 .. FullSize
      BY <1>3, <1>5
    <3> QED
      BY <3>1, <3>2, <1>5, FillingKeepsOrder
  <2> QED
    BY <2>1, <2>2
<1>9. /\ n \in Nat /\ from + n \in from .. FullSize /\ n <= Unread
      /\ from + n # FullSize => n = Unread
  BY <1>3, <1>5, <1>6
<1> HIDE DEF b, from, n, moved
<1>10. /\ InOnePiece(buf', 1, Compensate, NextKey, 1)
       /\ InOnePiece(buf', Compensate + 1, curr', NextKey + Compensate, 0)
  <2>1. InOnePiece(buf', 1, Compensate, NextKey, 1)
    <3>1. /\ \A c \in 1 .. Compensate : buf'[c] = b[c]
          /\ 1 \in Int /\ Compensate \in Int
      BY <1>3, <1>5, <1>8
    <3> QED
      BY <3>1, <1>5, PieceStays
  <2>2. InOnePiece(buf', Compensate + 1, from, NextKey + Compensate, 0)
    <3>1. /\ \A c \in Compensate + 1 .. from : buf'[c] = b[c]
          /\ Compensate + 1 \in Int /\ from \in Int
      BY <1>3, <1>5, <1>8
    <3> QED
      BY <3>1, <1>5, PieceStays
  <2>3. /\ input[1] = NextKey + Compensate + (from + 1 - (Compensate + 1))
        /\ Compensate + 1 \in Int /\ from \in Int /\ from + n \in Int
        /\ NextKey + Compensate \in Int /\ input[1] \in Int
    BY <1>2, <1>3, <1>4, <1>5, <1>9
  <2> QED
    BY <2>1, <2>2, <2>3, <1>7, <1>8, PiecesJoin
<1>11. /\ curr' \in Compensate + HalfWindow .. FullSize
       /\ curr' \in 0 .. FullSize /\ input'[1] = NextKey + curr'
       /\ input'[1] <= input'[2] + 1
       /\ curr' # FullSize => Unread' = 0
       /\ Unread = 0 => Unread' = 0 /\ curr' # FullSize
  <2>1. /\ curr' \in Compensate + HalfWindow .. FullSize /\ curr' \in 0 .. FullSize
        /\ from \in Int /\ from < FullSize
    BY <1>3, <1>5, <1>7, <1>9
  <2>2. input'[1] = NextKey + curr'
    BY <2>1, <1>4, <1>5, <1>7, <1>9
  <2>3. /\ Unread = input[2] - input[1] + 1
        /\ Unread' = input[2] - (input[1] + n) + 1
    BY <1>7 DEF Unread
  <2>4. input[1] \in Int /\ input[2] \in Int
    BY <1>2
  <2>5. n \in Nat /\ n <= Unread
    BY <1>9
  <2>6. Unread' = Unread - n /\ Unread \in Nat /\ input[1] + n <= input[2] + 1
    <3> HIDE DEF IInv
    <3> QED
      BY <2>4, <2>5, <2>3
  <2>7. input'[1] <= input'[2] + 1
    BY <2>6, <1>7
  <2>8. curr' # FullSize => Unread' = 0
    BY <2>6, <1>7, <1>9
  <2>9. Unread = 0 => Unread' = 0 /\ curr' # FullSize
    BY <2>1, <2>6, <1>3, <1>7, <1>9
  <2> QED
    BY <2>1, <2>2, <2>7, <2>8, <2>9
<1>12. /\ pc' \in {"idle", "block"}
       /\ pc' = "idle" => curr' # FullSize
       /\ pc' = "block" => curr' = FullSize \/ endOfStream
  BY <1>7, <1>11 DEF AfterReading
<1>13. stale' \in BOOLEAN /\ (stale' <=> pc' = "block" /\ curr' # FullSize)
  BY <1>7, Zenon
<1>14. Typed'
  BY <1>1, <1>2, <1>7, <1>8, <1>11, <1>12, <1>13 DEF Typed
<1>15. Phases'
  BY <1>1, <1>11, <1>12, <1>13 DEF Phases
<1>16. PreBufferIsOfTrack' /\ EndIsOfTrack'
  BY <1>1, <1>12 DEF PreBufferIsOfTrack, EndIsOfTrack, AtTheEnd
<1>17. BlockIsOfTrack'
  <2> SUFFICES ASSUME InTheBlock' PROVE BlockIsOfTrack'
    BY DEF BlockIsOfTrack
  <2>1. pc' = "block" <=> curr' = FullSize
    BY <1>12, <1>13 DEF InTheBlock
  <2>2. curr' >= Compensate + HalfWindow
    BY <1>11, <1>3
  <2> QED
    BY <2>1, <2>2, <1>4, <1>10, <1>11 DEF BlockIsOfTrack
<1>18. WindowIsOfTrack'
  BY <1>1, <1>4, <1>5 DEF WindowIsOfTrack
<1>19. KeysOfOnePass'
  BY <1>1, <1>12, <1>13 DEF KeysOfOnePass, FullBlocks, FirstKey
<1> QED
  BY <1>14, <1>15, <1>16, <1>17, <1>18, <1>19

\* Dividing keeps the type of a buffer, whatever the window has.
LEMMA DividingKeepsCells ==
    ASSUME NEW b \in [1 .. FullSize -> Cells], NEW w, NEW first, NEW last
    PROVE  Normalized(b, w, first, last).b \in [1 .. FullSize -> Cells]
<1> DEFINE r == Normalized(b, w, first, last)
           left(p) == Seen(b, w, first, last)[p - first + 1]
           right(p) == Seen(b, w, first, last)[p - first + 2 * HalfWindow]
<1>1. r.b = [p \in 1 .. FullSize |->
               IF p \in first .. last THEN Divided(b[p], left(p), right(p)) ELSE b[p]]
  BY DEF Normalized
<1>2. ASSUME NEW cell \in Cells, NEW x, NEW y
      PROVE  Divided(cell, x, y) \in Cells
  <2>1. cell.pos \in Int /\ cell.divided + 1 \in Nat
    BY DEF Cells
  <2>2. (x = cell.pos - HalfWindow /\ y = cell.pos + HalfWindow - 1) \in BOOLEAN
    OBVIOUS
  <2> QED
    BY <2>1, <2>2, Zenon DEF Divided, Cells
<1> HIDE DEF r, left, right
<1>3. \A p \in 1 .. FullSize : b[p] \in Cells
  OBVIOUS
<1> QED
  BY <1>1, <1>2, <1>3 DEF r

LEMMA KeysAreSound ==
    ASSUME NEW b, NEW pos \in Int, InOnePiece(b, 1, ProcessSize + Compensate, pos, 1)
    PROVE  \A k \in 1 .. NumFrames - KeyWidth : KeysOf(b)[k] = pos + (k - 1) * Overlap
<1> SUFFICES ASSUME NEW k \in 1 .. NumFrames - KeyWidth
             PROVE  KeysOf(b)[k] = pos + (k - 1) * Overlap
  OBVIOUS
<1> DEFINE o == (k - 1) * Overlap
<1>1. /\ o \in Nat /\ KeyCells(k) \subseteq 1 .. ProcessSize + Compensate
      /\ o + 1 \in 1 .. ProcessSize + Compensate
  <2>1. o \in Nat /\ o + Overlap <= ProcessSize
    BY KeyFits
  <2> HIDE DEF o
  <2>2. o + 1 \in 1 .. ProcessSize + Compensate
    BY <2>1, Sizes
  <2> QED
    BY <2>1, <2>2, KeyFits
<1>2. \A c \in 1 .. ProcessSize + Compensate :
        b[c] = [pos |-> pos + c - 1, divided |-> 1, centred |-> TRUE]
  BY DEF InOnePiece
<1>3. b[o + 1].pos = pos + o
  <2> HIDE DEF o
  <2>1. b[o + 1] = [pos |-> pos + (o + 1) - 1, divided |-> 1, centred |-> TRUE]
    BY <1>1, <1>2, Zenon
  <2>2. pos + (o + 1) - 1 = pos + o
    BY <1>1
  <2> QED
    BY <2>1, <2>2
<1>4. Sound(b, k)
  <2>1. \A i \in KeyCells(k) :
          /\ b[i].pos = b[o + 1].pos + i - (o + 1)
          /\ b[i].divided = 1 /\ b[i].centred
    <3> SUFFICES ASSUME NEW i \in KeyCells(k)
                 PROVE  /\ b[i].pos = b[o + 1].pos + i - (o + 1)
                        /\ b[i].divided = 1 /\ b[i].centred
      OBVIOUS
    <3> HIDE DEF o
    <3>1. i \in 1 .. ProcessSize + Compensate
      BY <1>1
    <3>2. b[i] = [pos |-> pos + i - 1, divided |-> 1, centred |-> TRUE]
      BY <3>1, <1>2
    <3>3. pos + i - 1 = pos + o + i - (o + 1)
      BY <3>1, <1>1
    <3> QED
      BY <3>2, <3>3, <1>3
  <2> QED
    BY <2>1 DEF Sound
<1>5. KeysOf(b)[k] = b[o + 1].pos
  BY <1>4 DEF KeysOf
<1> QED
  BY <1>3, <1>5

\* Steps 3 and 4: the keys of a full block are the next ones of the track.
LEMMA ProcessBlockKeeps ==
    ASSUME IInv, ProcessBlock
    PROVE  IInv'
<1> USE DEF IInv
<1> DEFINE r == Normalized(buf, normWindow, Compensate + 1, ProcessSize + Compensate)
           new == KeysOf(r.b)
           n == NumFrames - KeyWidth
<1>1. /\ pc = "block" /\ preBufferPassed /\ skipPassed
      /\ UNCHANGED <<signal, length, query>>
      /\ UNCHANGED <<input, endOfStream, skippedSoFar, skipPassed, preBufferPassed,
                     curr, stale>>
      /\ buf' = r.b /\ normWindow' = r.w /\ keys' = keys \o new
      /\ pc' \in {"loop", "finish"} /\ (endOfStream => pc' = "finish")
  BY DEF ProcessBlock, Track, Phases
<1>2. /\ curr \in 0 .. FullSize /\ buf \in [1 .. FullSize -> Cells]
      /\ input[1] \in Int /\ keys \in Seq(Int)
  BY DEF Typed
<1>3. /\ ProcessSize \in Nat /\ HalfWindow \in Nat \ {0} /\ Compensate \in Nat \ {0}
      /\ FullSize = ProcessSize + Compensate + HalfWindow /\ FullSize \in Nat
      /\ Compensate + HalfWindow <= ProcessSize /\ Overlap \in Nat \ {0}
      /\ FirstKey \in Nat /\ FirstKey' = FirstKey
  BY <1>1, Sizes, FirstKeyIsNat DEF FirstKey
<1>4. n \in Nat \ {0} /\ n * Overlap = ProcessSize
  BY KeysOfABlock
<1>5. r.b \in [1 .. FullSize -> Cells]
  BY <1>2, DividingKeepsCells
<1>6. new \in Seq(Int) /\ Len(new) = n
  <2>1. new = [k \in 1 .. n |-> IF Sound(r.b, k) THEN r.b[(k - 1) * Overlap + 1].pos ELSE 0]
    BY DEF KeysOf
  <2>2. ASSUME NEW k \in 1 .. n PROVE r.b[(k - 1) * Overlap + 1].pos \in Int
    <3>1. (k - 1) * Overlap + 1 \in 1 .. FullSize
      BY KeyFits
    <3> HIDE DEF r
    <3> QED
      BY <3>1, <1>5 DEF Cells
  <2> HIDE DEF r, new, n
  <2>3. new \in [1 .. n -> Int]
    BY <2>1, <2>2
  <2> QED
    BY <2>3, <1>4
<1> HIDE DEF new, n
<1>7. /\ keys' \in Seq(Int) /\ Len(keys') = Len(keys) + n
      /\ \A k \in 1 .. Len(keys) : keys'[k] = keys[k]
      /\ \A k \in 1 .. n : keys'[Len(keys) + k] = new[k]
  <2>1. /\ keys' \in Seq(Int) /\ Len(keys') = Len(keys) + n
        /\ \A i \in 1 .. Len(keys) + n :
             keys'[i] = IF i <= Len(keys) THEN keys[i] ELSE new[i - Len(keys)]
    BY <1>1, <1>2, <1>6, ConcatProperties
  <2>2. Len(keys) \in Nat
    BY <1>2
  <2>3. \A k \in 1 .. Len(keys) : keys'[k] = keys[k]
    BY <2>1, <2>2, <1>4
  <2>4. \A k \in 1 .. n : /\ Len(keys) + k \in 1 .. Len(keys) + n
                          /\ ~(Len(keys) + k <= Len(keys)) /\ Len(keys) + k - Len(keys) = k
    BY <2>2, <1>4
  <2> QED
    BY <2>1, <2>3, <2>4
<1>8. /\ Len(keys) \in Nat /\ NextKey \in Int /\ Len(keys) * Overlap \in Int
      /\ NextKey' = NextKey + ProcessSize
  <2>1. Len(keys) \in Nat /\ Len(keys) * Overlap \in Int
    BY <1>2, <1>3
  <2>2. (Len(keys) + n) * Overlap = Len(keys) * Overlap + ProcessSize
    BY <2>1, <1>3, <1>4
  <2>3. /\ NextKey = FirstKey + Len(keys) * Overlap
        /\ NextKey' = FirstKey + (Len(keys) + n) * Overlap
    BY <1>3, <1>7 DEF NextKey
  <2> QED
    BY <2>1, <2>2, <2>3, <1>3
<1>9. \A k \in 1 .. Len(keys) : keys[k] = FirstKey + (k - 1) * Overlap
  BY <1>1 DEF KeysOfOnePass, FullBlocks
<1>10. Typed'
  BY <1>1, <1>5, <1>7 DEF Typed
<1>11. Phases'
  BY <1>1 DEF Phases
<1>12. PreBufferIsOfTrack'
  BY <1>1 DEF PreBufferIsOfTrack
<1>13. CASE stale
  <2>1. pc' = "finish" /\ stale'
    BY <1>1, <1>13 DEF Phases
  <2>2. EndIsOfTrack' /\ BlockIsOfTrack' /\ WindowIsOfTrack'
    BY <2>1 DEF EndIsOfTrack, BlockIsOfTrack, WindowIsOfTrack, AtTheEnd, InTheBlock
  <2>3. KeysOfOnePass'
    <3>1. keys' # <<>>
      BY <1>4, <1>7, <1>8
    <3>2. FullBlocks' = Len(keys') - n
      BY <2>1, <3>1 DEF FullBlocks, n
    <3>3. FullBlocks' = Len(keys)
      BY <3>2, <1>4, <1>7, <1>8
    <3> QED
      BY <3>3, <1>3, <1>7, <1>9 DEF KeysOfOnePass
  <2> QED
    BY <2>2, <2>3, <1>10, <1>11, <1>12
<1>14. CASE ~stale
  <2> DEFINE first == Compensate + 1
             last  == ProcessSize + Compensate
             pos   == NextKey + Compensate
             nextPos == NextKey + ProcessSize + Compensate
  <2>1. InTheBlock
    BY <1>1, <1>14 DEF InTheBlock, AtTheEnd
  <2>2. /\ curr = FullSize
        /\ InOnePiece(buf, 1, Compensate, NextKey, 1)
        /\ InOnePiece(buf, first, FullSize, pos, 0)
        /\ input[1] = NextKey + FullSize
        /\ IsAround(normWindow, pos)
    BY <1>1, <2>1 DEF BlockIsOfTrack, WindowIsOfTrack
  <2>3. /\ first \in 1 .. FullSize /\ last \in first .. FullSize
        /\ last + HalfWindow = FullSize /\ last + HalfWindow <= FullSize
        /\ pos \in Int /\ nextPos \in Int /\ nextPos = pos + (last - first + 1)
    BY <1>3, <1>8
  <2>4. r = Normalized(buf, normWindow, first, last)
    OBVIOUS
  <2> HIDE DEF first, last, pos, nextPos, r
  <2>5. InOnePiece(buf, first, last + HalfWindow, pos, 0)
    BY <2>2, <2>3
  <2>6. InOnePiece(r.b, first, last, pos, 1)
    <3> HIDE DEF IInv
    <3>1. InOnePiece(Normalized(buf, normWindow, first, last).b, first, last, pos, 1)
      BY <2>2, <2>3, <2>5, <1>2, DividingIsCentred, Zenon
    <3> QED
      BY <3>1, <2>4
  <2>7. IsAround(r.w, nextPos)
    <3> HIDE DEF IInv
    <3>1. IsAround(Normalized(buf, normWindow, first, last).w, nextPos)
      BY <2>2, <2>3, <2>5, <1>2, DividingIsCentred, Zenon
    <3> QED
      BY <3>1, <2>4
  <2>8. \A c \in (1 .. FullSize) \ (first .. last) : r.b[c] = buf[c]
    BY <2>4, DividingLeavesTheRest
  <2>9. InOnePiece(r.b, 1, last, NextKey, 1)
    <3>1. InOnePiece(r.b, 1, Compensate, NextKey, 1)
      <4>1. /\ \A c \in 1 .. Compensate : c \in (1 .. FullSize) \ (first .. last)
            /\ 1 \in Int /\ Compensate \in Int
        BY <1>3 DEF first, last
      <4>2. \A c \in 1 .. Compensate : r.b[c] = buf[c]
        BY <4>1, <2>8
      <4> QED
        BY <4>1, <4>2, <2>2, PieceStays
    <3>2. /\ 1 \in Int /\ Compensate \in Int /\ last \in Int /\ NextKey \in Int
          /\ pos \in Int /\ pos = NextKey + (Compensate + 1 - 1)
      BY <1>3, <1>8 DEF last, pos
    <3>3. InOnePiece(r.b, Compensate + 1, last, pos, 1)
      BY <2>6 DEF first
    <3> QED
      BY <3>1, <3>2, <3>3, PiecesJoin
  <2>10. \A k \in 1 .. n : new[k] = NextKey + (k - 1) * Overlap
    BY <2>9, <1>8, KeysAreSound DEF new, n, last
  <2>11. KeysOfOnePass'
    <3>1. FullBlocks' = Len(keys) + n
      BY <1>1, <1>7, <1>14 DEF FullBlocks
    <3> SUFFICES ASSUME NEW i \in 1 .. Len(keys) + n
                 PROVE  keys'[i] = FirstKey + (i - 1) * Overlap
      BY <3>1, <1>3 DEF KeysOfOnePass
    <3>2. CASE i <= Len(keys)
      <4>1. i \in 1 .. Len(keys)
        BY <3>2, <1>4, <1>8
      <4> QED
        BY <4>1, <1>7, <1>9
    <3>3. CASE i > Len(keys)
      <4> DEFINE k == i - Len(keys)
      <4>1. k \in 1 .. n /\ Len(keys) + k = i
        BY <3>3, <1>4, <1>8
      <4>2. keys'[i] = NextKey + (k - 1) * Overlap
        <5> HIDE DEF k
        <5> QED
          BY <4>1, <2>10, <1>7
      <4>3. NextKey + (k - 1) * Overlap = FirstKey + (Len(keys) + k - 1) * Overlap
        <5> HIDE DEF k
        <5>1. (Len(keys) + k - 1) * Overlap = Len(keys) * Overlap + (k - 1) * Overlap
          BY <4>1, <1>3, <1>4, <1>8
        <5>2. (k - 1) * Overlap \in Int
          BY <4>1, <1>3, <1>4
        <5> QED
          BY <5>1, <5>2, <1>3, <1>8 DEF NextKey
      <4> QED
        BY <4>1, <4>2, <4>3
    <3> QED
      BY <3>2, <3>3, <1>4, <1>8
  <2>12. BlockIsOfTrack'
    BY <1>1, <2>2 DEF BlockIsOfTrack, InTheBlock, AtTheEnd
  <2>13. WindowIsOfTrack'
    BY <1>1, <1>8, <2>7 DEF WindowIsOfTrack, nextPos
  <2>14. EndIsOfTrack'
    <3>1. InOnePiece(buf', ProcessSize + 1, last, NextKey', 1)
      <4> SUFFICES ASSUME NEW c \in ProcessSize + 1 .. last
                   PROVE  r.b[c] = [pos |-> NextKey + ProcessSize + c - (ProcessSize + 1),
                                    divided |-> 1, centred |-> TRUE]
        BY <1>1, <1>8 DEF InOnePiece
      <4>1. /\ c \in 1 .. last
            /\ NextKey + c - 1 = NextKey + ProcessSize + c - (ProcessSize + 1)
        BY <1>3, <1>8 DEF last
      <4>2. r.b[c] = [pos |-> NextKey + c - 1, divided |-> 1, centred |-> TRUE]
        BY <4>1, <2>9, Zenon DEF InOnePiece
      <4> QED
        BY <4>1, <4>2
    <3>2. InOnePiece(buf', last + 1, FullSize, NextKey' + Compensate, 0)
      <4> SUFFICES ASSUME NEW c \in last + 1 .. FullSize
                   PROVE  r.b[c] = [pos |-> NextKey + ProcessSize + Compensate + c - (last + 1),
                                    divided |-> 0, centred |-> TRUE]
        BY <1>1, <1>8 DEF InOnePiece
      <4>1. /\ c \in (1 .. FullSize) \ (first .. last) /\ c \in first .. FullSize
            /\ pos + c - first = NextKey + ProcessSize + Compensate + c - (last + 1)
        BY <1>3, <1>8 DEF first, last, pos
      <4>2. buf[c] = [pos |-> pos + c - first, divided |-> 0, centred |-> TRUE]
        BY <4>1, <2>2, Zenon DEF InOnePiece
      <4> QED
        BY <4>1, <4>2, <2>8
    <3>3. input'[1] = NextKey' + Compensate + HalfWindow
      BY <1>1, <1>3, <1>8, <2>2
    <3> QED
      BY <3>1, <3>2, <3>3 DEF EndIsOfTrack, last
  <2> QED
    BY <2>11, <2>12, <2>13, <2>14, <1>10, <1>11, <1>12
<1> QED
  BY <1>13, <1>14

LEMMA NextKeeps == IInv /\ [Next]_vars => IInv'
<1> SUFFICES ASSUME IInv, [Next]_vars PROVE IInv'
  OBVIOUS
<1>1. CASE \E n \in Pieces : Process(n)
  BY <1>1, ProcessKeeps
<1>2. CASE PreBuffer
  BY <1>2, PreBufferKeeps
<1>3. CASE ReadBlock
  BY <1>3, ReadBlockKeeps
<1>4. CASE ProcessBlock
  BY <1>4, ProcessBlockKeeps
<1>5. CASE Finish
  BY <1>5, FinishKeeps
<1>6. CASE UNCHANGED vars
  BY <1>6 DEF vars, Track, IInv, Typed, Phases, PreBufferIsOfTrack, EndIsOfTrack,
              BlockIsOfTrack, WindowIsOfTrack, AtTheEnd, InTheBlock, KeysOfOnePass,
              FullBlocks, FirstKey, NextKey, Unread
<1> QED
  BY <1>1, <1>2, <1>3, <1>4, <1>5, <1>6 DEF Next

\* process() hands out the keys that one pass over the track would give, however
\* the caller cuts it: m_normWindow and the two copies of the buffer are right.
THEOREM KeysDoNotDependOnCuts == Spec => []KeysOfOnePass
<1>1. IInv => KeysOfOnePass
  BY DEF IInv
<1> QED
  BY <1>1, InitHolds, NextKeeps, PTL DEF Spec

-------------------------------------------------------------------------------
(* Induction over the turns of a loop.  A predicate is the set of the numbers   *)
(* that it holds of.                                                            *)

\* A set of numbers that is not empty has a least one.
LEMMA LeastNatural ==
    ASSUME NEW T \in SUBSET Nat, T # {}
    PROVE  \E n \in T : \A m \in T : n <= m
<1> DEFINE R == OpToRel(<, Nat)
<1>1. IsWellFoundedOn(R, Nat)
  BY NatLessThanWellFounded
<1>2. \A x, y \in Nat : x < y => <<x, y>> \in R
  BY DEF OpToRel
<1> HIDE DEF R
<1>3. PICK n \in T : \A m \in T : ~(<<m, n>> \in R)
  BY <1>1, WFMin
<1>4. \A m \in T : n <= m
  <2> SUFFICES ASSUME NEW m \in T, m < n PROVE FALSE
    OBVIOUS
  <2>1. <<m, n>> \in R
    BY <1>2
  <2> QED
    BY <2>1, <1>3
<1> QED
  BY <1>3, <1>4

LEMMA Induction ==
    ASSUME NEW S, 0 \in S, \A n \in Nat : n \in S => n + 1 \in S
    PROVE  \A n \in Nat : n \in S
<1> SUFFICES ASSUME NEW k \in Nat, k \notin S PROVE FALSE
  OBVIOUS
<1> DEFINE T == {m \in Nat : m \notin S}
<1>1. PICK n \in T : \A m \in T : n <= m
  BY LeastNatural
<1>2. n # 0 /\ n - 1 \in Nat
  BY <1>1
<1>3. n - 1 \in S
  BY <1>1, <1>2
<1> QED
  BY <1>1, <1>2, <1>3

\* The same over the turns of a loop.
LEMMA UpTo ==
    ASSUME NEW n \in Nat, NEW S, 0 \in S, \A i \in 1 .. n : i - 1 \in S => i \in S
    PROVE  \A i \in 0 .. n : i \in S
<1> DEFINE T == {i \in Nat : i <= n => i \in S}
<1>1. 0 \in T
  OBVIOUS
<1>2. ASSUME NEW i \in Nat, i \in T PROVE i + 1 \in T
  <2> SUFFICES ASSUME i + 1 <= n PROVE i + 1 \in S
    OBVIOUS
  <2>1. i + 1 \in 1 .. n /\ (i + 1) - 1 \in S
    BY <1>2
  <2> QED
    BY <2>1
<1> HIDE DEF T
<1>3. \A i \in Nat : i \in T
  BY <1>1, <1>2, Induction
<1> QED
  BY <1>3 DEF T

\* f has the states of a loop of n turns that starts with c: step[i] is what its
\* turn i makes of the state.
IsLoop(f, S, c, n, step) ==
    /\ f \in [0 .. n -> S] /\ f[0] = c
    /\ \A i \in 1 .. n : f[i] = step[i][f[i - 1]]

\* There is such a run of every loop, so the recursive function that a loop is
\* written as has its value.
LEMMA LoopRuns ==
    ASSUME NEW S, NEW c \in S, NEW n \in Nat, NEW step \in [1 .. n -> [S -> S]]
    PROVE  \E f : IsLoop(f, S, c, n, step)
<1> DEFINE Runs(m) == \E f \in [0 .. m -> S] :
             f[0] = c /\ \A i \in 1 .. m : f[i] = step[i][f[i - 1]]
           T == {m \in Nat : m <= n => Runs(m)}
<1>1. Runs(0)
  <2> DEFINE f == [i \in 0 .. 0 |-> c]
  <2>1. f \in [0 .. 0 -> S] /\ f[0] = c /\ \A i \in 1 .. 0 : FALSE
    OBVIOUS
  <2> HIDE DEF f
  <2> QED
    BY <2>1
<1>2. ASSUME NEW m \in Nat, m + 1 <= n, Runs(m) PROVE Runs(m + 1)
  <2>1. PICK f \in [0 .. m -> S] :
          f[0] = c /\ \A i \in 1 .. m : f[i] = step[i][f[i - 1]]
    BY <1>2
  <2> DEFINE last == step[m + 1][f[m]]
             g == [i \in 0 .. m + 1 |-> IF i = m + 1 THEN last ELSE f[i]]
  <2>2. last \in S
    BY <1>2
  <2>3. /\ g \in [0 .. m + 1 -> S] /\ g[m + 1] = last
        /\ \A i \in 0 .. m : g[i] = f[i]
    <3> HIDE DEF last
    <3> QED
      BY <2>2
  <2> HIDE DEF g
  <2>4. g[0] = c
    BY <2>1, <2>3
  <2>5. ASSUME NEW i \in 1 .. m + 1 PROVE g[i] = step[i][g[i - 1]]
    <3>1. CASE i = m + 1
      BY <3>1, <2>3
    <3>2. CASE i # m + 1
      <4>1. i \in 1 .. m /\ i \in 0 .. m /\ i - 1 \in 0 .. m
        BY <3>2
      <4> QED
        BY <4>1, <2>1, <2>3
    <3> QED
      BY <3>1, <3>2
  <2> QED
    BY <2>3, <2>4, <2>5
<1> HIDE DEF Runs
<1>3. \A m \in Nat : m \in T
  <2>1. 0 \in T
    BY <1>1
  <2>2. \A m \in Nat : m \in T => m + 1 \in T
    BY <1>2
  <2> HIDE DEF T
  <2> QED
    BY <2>1, <2>2, Induction
<1>4. Runs(n)
  BY <1>3
<1> QED
  BY <1>4 DEF Runs, IsLoop

-------------------------------------------------------------------------------
(* Groups and the keys in them.                                                 *)

LEMMA GroupsAreSequences ==
    ASSUME NEW g \in Groups
    PROVE  /\ g \in Seq(Group) /\ Len(g) \in Nat
           /\ \A i \in 1 .. Len(g) : g[i] \in Group /\ g[i].key \in Nat /\ g[i].count \in Nat
<1>1. g \in Seq(Group)
  BY DEF Groups
<1>2. Len(g) \in Nat /\ \A i \in 1 .. Len(g) : g[i] \in Group
  BY <1>1
<1> QED
  BY <1>1, <1>2 DEF Group

\* e counts the keys of the groups g up to the end of each.
Counts(e, g) ==
    /\ e \in [0 .. Len(g) -> Nat] /\ e[0] = 0
    /\ \A i \in 1 .. Len(g) : e[i] = e[i - 1] + g[i].count

\* Ends() counts the keys, and nothing else does.
LEMMA EndsCount ==
    ASSUME NEW g \in Groups
    PROVE  Counts(Ends(g), g)
<1> DEFINE n == Len(g)
           step == [i \in 1 .. n |-> [x \in Nat |-> x + g[i].count]]
           Body(f) == [i \in 0 .. n |-> IF i = 0 THEN 0 ELSE f[i - 1] + g[i].count]
           upTo == CHOOSE f : f = Body(f)
<1>0. n \in Nat /\ \A i \in 1 .. n : g[i].count \in Nat
  BY GroupsAreSequences
<1>1. /\ step \in [1 .. n -> [Nat -> Nat]]
      /\ \A i \in 1 .. n : \A x \in Nat : step[i][x] = x + g[i].count
  <2> HIDE DEF n
  <2> QED
    BY <1>0
<1> HIDE DEF step
<1>2. PICK f : IsLoop(f, Nat, 0, n, step)
  <2> HIDE DEF n
  <2>1. 0 \in Nat
    OBVIOUS
  <2> QED
    BY <1>0, <1>1, <2>1, LoopRuns
<1> HIDE DEF n
<1>3. ASSUME NEW i \in 1 .. n PROVE f[i] = f[i - 1] + g[i].count
  <2>1. i - 1 \in 0 .. n
    BY <1>0
  <2>2. f[i - 1] \in Nat
    BY <2>1, <1>2 DEF IsLoop
  <2> QED
    BY <2>2, <1>1, <1>2 DEF IsLoop
<1>4. f = Body(f)
  BY <1>2, <1>3 DEF IsLoop
<1>5. upTo = Body(upTo)
  <2> HIDE DEF Body
  <2> QED
    BY <1>4, Zenon
<1>6. Ends(g) = upTo
  BY DEF Ends, n
<1> HIDE DEF upTo
<1>7. upTo[0] = 0 /\ \A i \in 1 .. n : upTo[i] = upTo[i - 1] + g[i].count
  <2>1. \A i \in 0 .. n : upTo[i] = IF i = 0 THEN 0 ELSE upTo[i - 1] + g[i].count
    BY <1>5
  <2>2. 0 \in 0 .. n /\ \A i \in 1 .. n : i \in 0 .. n /\ i # 0
    BY <1>0
  <2> QED
    BY <2>1, <2>2
<1> DEFINE T == {i \in 0 .. n : upTo[i] \in Nat}
<1>8. 0 \in T
  BY <1>0, <1>7
<1>9. ASSUME NEW i \in 1 .. n, i - 1 \in T PROVE i \in T
  <2>1. upTo[i] = upTo[i - 1] + g[i].count /\ g[i].count \in Nat
    BY <1>0, <1>7
  <2> QED
    BY <2>1, <1>9, <1>0
<1> HIDE DEF T
<1>10. \A i \in 0 .. n : i \in T
  BY <1>0, <1>8, <1>9, UpTo
<1>11. upTo \in [0 .. n -> Nat]
  BY <1>10, <1>5 DEF T
<1> QED
  BY <1>6, <1>7, <1>11 DEF Counts, n

LEMMA CountsAreEnds ==
    ASSUME NEW g \in Groups, NEW e, Counts(e, g)
    PROVE  e = Ends(g)
<1> DEFINE n == Len(g)
           d == Ends(g)
<1>1. /\ n \in Nat /\ e \in [0 .. n -> Nat] /\ e[0] = 0
      /\ \A i \in 1 .. n : e[i] = e[i - 1] + g[i].count
      /\ d \in [0 .. n -> Nat] /\ d[0] = 0
      /\ \A i \in 1 .. n : d[i] = d[i - 1] + g[i].count
  BY GroupsAreSequences, EndsCount DEF Counts
<1> HIDE DEF n, d
<1> DEFINE T == {i \in 0 .. n : e[i] = d[i]}
<1>2. 0 \in T
  BY <1>1
<1>3. ASSUME NEW i \in 1 .. n, i - 1 \in T PROVE i \in T
  <2>1. e[i] = e[i - 1] + g[i].count /\ d[i] = d[i - 1] + g[i].count
    BY <1>1
  <2> QED
    BY <2>1, <1>3, <1>1
<1> HIDE DEF T
<1>4. \A i \in 0 .. n : i \in T
  BY <1>1, <1>2, <1>3, UpTo
<1>5. \A i \in 0 .. n : e[i] = d[i]
  BY <1>4 DEF T
<1> QED
  BY <1>1, <1>5 DEF d

\* A group ends no earlier than the one before it.
LEMMA EndsGrow ==
    ASSUME NEW g \in Groups, NEW i \in 0 .. Len(g), NEW j \in i .. Len(g)
    PROVE  /\ Ends(g)[i] \in Nat /\ Ends(g)[j] \in Nat
           /\ Ends(g)[i] <= Ends(g)[j]
<1> DEFINE n == Len(g)
           e == Ends(g)
<1>1. /\ n \in Nat /\ e \in [0 .. n -> Nat]
      /\ \A k \in 1 .. n : e[k] = e[k - 1] + g[k].count /\ g[k].count \in Nat
  BY GroupsAreSequences, EndsCount DEF Counts
<1>0. i \in 0 .. n /\ j \in i .. n
  OBVIOUS
<1> HIDE DEF n, e
<1> DEFINE T == {k \in 0 .. n : i <= k => e[i] <= e[k]}
<1>2. 0 \in T
  BY <1>0, <1>1
<1>3. ASSUME NEW k \in 1 .. n, k - 1 \in T PROVE k \in T
  <2>1. e[k] = e[k - 1] + g[k].count /\ g[k].count \in Nat
    BY <1>1
  <2>2. k \in 0 .. n /\ k - 1 \in 0 .. n /\ e[k - 1] \in Nat /\ e[k] \in Nat /\ e[i] \in Nat
    BY <1>0, <1>1
  <2>3. CASE i = k
    BY <2>2, <2>3
  <2>4. CASE i < k
    BY <2>1, <2>2, <2>4, <1>3, <1>0
  <2>5. CASE i > k
    BY <2>2, <2>5, <1>0
  <2> QED
    BY <2>3, <2>4, <2>5, <1>0, <2>2
<1> HIDE DEF T
<1>4. \A k \in 0 .. n : k \in T
  BY <1>1, <1>2, <1>3, UpTo
<1>5. j \in 0 .. n /\ i <= j
  BY <1>0, <1>1
<1>6. e[i] <= e[j]
  BY <1>4, <1>5 DEF T
<1> QED
  BY <1>0, <1>1, <1>5, <1>6 DEF e

\* ks has the keys of the groups g.
Spans(g, ks) ==
    /\ ks \in Seq(Nat) /\ Len(ks) = CountOf(g)
    /\ \A i \in 1 .. Len(g) : \A x \in Ends(g)[i - 1] + 1 .. Ends(g)[i] : ks[x] = g[i].key

\* Key x is in group i, and in no other.
InGroup(g, x, i) == Ends(g)[i - 1] < x /\ x <= Ends(g)[i]

LEMMA CountIsNat == ASSUME NEW g \in Groups PROVE CountOf(g) \in Nat
BY GroupsAreSequences, EndsCount DEF Counts, CountOf

\* Every key is in a group.
LEMMA KeyIsInGroup ==
    ASSUME NEW g \in Groups, NEW x \in 1 .. CountOf(g)
    PROVE  \E i \in 1 .. Len(g) : InGroup(g, x, i)
<1> DEFINE n == Len(g)
           e == Ends(g)
           T == {j \in Nat : j <= n /\ x <= e[j]}
<1>1. n \in Nat /\ e \in [0 .. n -> Nat] /\ e[0] = 0 /\ x \in 1 .. e[n]
  BY GroupsAreSequences, EndsCount DEF Counts, CountOf
<1> HIDE DEF n, e
<1>2. T \in SUBSET Nat /\ n \in T
  BY <1>1
<1>3. PICK i \in T : \A j \in T : i <= j
  BY <1>2, LeastNatural
<1>4. i \in Nat /\ i <= n /\ x <= e[i] /\ e[n] \in Nat
  BY <1>1
<1>5. i # 0
  BY <1>1, <1>4
<1>6. i \in 1 .. n /\ i - 1 \in Nat /\ i - 1 <= n
  BY <1>1, <1>4, <1>5
<1>7. ~(x <= e[i - 1])
  BY <1>3, <1>6
<1>8. e[i - 1] \in Nat
  BY <1>6, <1>1
<1>9. e[i - 1] < x /\ x <= e[i]
  BY <1>1, <1>4, <1>7, <1>8
<1> QED
  BY <1>6, <1>9 DEF InGroup, n, e

\* No key is in two.
LEMMA KeyIsInOneGroup ==
    ASSUME NEW g \in Groups, NEW x \in Int,
           NEW i \in 1 .. Len(g), NEW j \in 1 .. Len(g), InGroup(g, x, i), InGroup(g, x, j)
    PROVE  i = j
<1> DEFINE n == Len(g)
           e == Ends(g)
<1>1. n \in Nat /\ \A k \in 0 .. n : e[k] \in Nat
  BY GroupsAreSequences, EndsCount DEF Counts
<1>2. \A k \in 0 .. n : \A m \in k .. n : e[k] <= e[m]
  BY EndsGrow
<1>3. /\ e[i - 1] < x /\ x <= e[i] /\ e[j - 1] < x /\ x <= e[j]
      /\ i \in 1 .. n /\ j \in 1 .. n
  BY DEF InGroup
<1> HIDE DEF n, e
<1>4. /\ i \in 0 .. n /\ j \in 0 .. n /\ i - 1 \in 0 .. n /\ j - 1 \in 0 .. n
      /\ e[i - 1] \in Nat /\ e[i] \in Nat /\ e[j - 1] \in Nat /\ e[j] \in Nat
  BY <1>1, <1>3
<1>5. CASE i < j
  <2>1. j - 1 \in i .. n
    BY <1>5, <1>3, <1>1
  <2>2. e[i] <= e[j - 1]
    BY <2>1, <1>2, <1>4
  <2> QED
    BY <2>2, <1>3, <1>4
<1>6. CASE j < i
  <2>1. i - 1 \in j .. n
    BY <1>6, <1>3, <1>1
  <2>2. e[j] <= e[i - 1]
    BY <2>1, <1>2, <1>4
  <2> QED
    BY <2>2, <1>3, <1>4
<1> QED
  BY <1>3, <1>5, <1>6

\* groupData2Keys() gives the keys of the groups, and there are no others.
LEMMA KeysSpan ==
    ASSUME NEW g \in Groups
    PROVE  Spans(g, Groups2Keys(g))
<1> DEFINE n == Len(g)
           c == CountOf(g)
           Holder(x) == CHOOSE i \in 1 .. n : InGroup(g, x, i)
           ks == [x \in 1 .. c |-> g[Holder(x)].key]
<1>1. Groups2Keys(g) = ks
  BY DEF Groups2Keys, InGroup
<1>2. ASSUME NEW x \in 1 .. c PROVE Holder(x) \in 1 .. n /\ InGroup(g, x, Holder(x))
  <2> HIDE DEF n
  <2>1. \E i \in 1 .. n : InGroup(g, x, i)
    BY KeyIsInGroup DEF n
  <2> QED
    BY <2>1
<1>3. c \in Nat /\ n \in Nat /\ \A i \in 1 .. n : g[i].key \in Nat
  BY CountIsNat, GroupsAreSequences
<1>4. ASSUME NEW i \in 1 .. n, NEW x \in Ends(g)[i - 1] + 1 .. Ends(g)[i]
      PROVE  x \in 1 .. c /\ Holder(x) = i
  <2> DEFINE e == Ends(g)
  <2>1. \A k \in 0 .. n : e[k] \in Nat
    BY EndsCount DEF Counts
  <2>2. \A k \in 0 .. n : \A m \in k .. n : e[k] <= e[m]
    BY EndsGrow
  <2>3. x \in e[i - 1] + 1 .. e[i] /\ c = e[n]
    BY DEF CountOf
  <2> HIDE DEF e, n, c, Holder
  <2>4. i \in 0 .. n /\ i - 1 \in 0 .. n /\ n \in i .. n
    BY <1>3
  <2>5. e[i - 1] \in Nat /\ e[i] \in Nat /\ e[n] \in Nat /\ e[i] <= e[n]
    BY <2>1, <2>2, <2>4, <1>3
  <2>6. x \in 1 .. c /\ e[i - 1] < x /\ x <= e[i] /\ x \in Int
    BY <2>3, <2>5
  <2>7. InGroup(g, x, i)
    BY <2>6 DEF InGroup, e
  <2>8. Holder(x) \in 1 .. n /\ InGroup(g, x, Holder(x))
    BY <2>6, <1>2
  <2>9. Holder(x) = i
    BY <2>6, <2>7, <2>8, KeyIsInOneGroup DEF n
  <2> QED
    BY <2>6, <2>9
<1> HIDE DEF Holder, c
<1>5. ks \in [1 .. c -> Nat]
  <2> HIDE DEF n
  <2> QED
    BY <1>2, <1>3
<1>6. \A x \in 1 .. c : ks[x] = g[Holder(x)].key
  OBVIOUS
<1> HIDE DEF ks
<1>7. ks \in Seq(Nat) /\ Len(ks) = c
  BY <1>3, <1>5
<1>8. \A i \in 1 .. n : \A x \in Ends(g)[i - 1] + 1 .. Ends(g)[i] : ks[x] = g[i].key
  <2> HIDE DEF n
  <2> QED
    BY <1>4, <1>6
<1> QED
  BY <1>1, <1>7, <1>8 DEF Spans, c

LEMMA SpansAreKeys ==
    ASSUME NEW g \in Groups, NEW ks, Spans(g, ks)
    PROVE  ks = Groups2Keys(g)
<1> DEFINE c == CountOf(g)
           hs == Groups2Keys(g)
<1>1. Spans(g, hs) /\ c \in Nat
  BY KeysSpan, CountIsNat
<1> HIDE DEF hs
<1>2. /\ ks \in Seq(Nat) /\ Len(ks) = c /\ hs \in Seq(Nat) /\ Len(hs) = c
  BY <1>1 DEF Spans
<1>3. ASSUME NEW x \in 1 .. c PROVE ks[x] = hs[x]
  <2>1. PICK i \in 1 .. Len(g) : InGroup(g, x, i)
    BY KeyIsInGroup
  <2>2. x \in Ends(g)[i - 1] + 1 .. Ends(g)[i]
    <3>1. x \in Int /\ Ends(g)[i - 1] \in Int /\ Ends(g)[i] \in Int
      <4>1. c \in Int /\ Len(g) \in Nat
        BY <1>1, GroupsAreSequences
      <4>2. i \in 0 .. Len(g) /\ i - 1 \in 0 .. Len(g)
        BY <4>1
      <4> QED
        BY <4>1, <4>2, EndsCount DEF Counts
    <3> QED
      BY <3>1, <2>1 DEF InGroup
  <2> QED
    BY <2>2, <1>1 DEF Spans
<1>4. ks = hs
  <2> HIDE DEF c
  <2> QED
    BY <1>2, <1>3, SeqEqual
<1> QED
  BY <1>4 DEF hs

\* Neighbouring groups differ, and only a first one may be empty: it was cut.
Runs(g) ==
    /\ \A i \in 1 .. Len(g) - 1 : g[i].key # g[i + 1].key
    /\ \A i \in 2 .. Len(g) : g[i].count > 0

\* h is g with one more key, in its last group or in one of its own.
OneMore(g, h, key) ==
    /\ \A i \in 1 .. Len(h) - 1 : h[i] = g[i]
    /\ \/ /\ Len(h) = Len(g) /\ Len(g) # 0
          /\ g[Len(g)].key = key
          /\ h[Len(h)] = [key |-> key, count |-> g[Len(g)].count + 1]
       \/ /\ Len(h) = Len(g) + 1
          /\ Len(g) # 0 => g[Len(g)].key # key
          /\ h[Len(h)] = [key |-> key, count |-> 1]

\* keys2GroupData() adds a key to the last group or starts a group.
LEMMA WithKeyIsOneMore ==
    ASSUME NEW g \in Groups, NEW key \in Nat
    PROVE  WithKey(g, key) \in Groups /\ OneMore(g, WithKey(g, key), key)
<1> DEFINE n == Len(g)
<1>1. /\ g \in Seq(Group) /\ n \in Nat /\ (g # <<>> <=> n # 0)
      /\ \A i \in 1 .. n : g[i].count \in Nat
  <2>1. g \in Seq(Group) /\ n \in Nat /\ \A i \in 1 .. n : g[i].count \in Nat
    BY GroupsAreSequences
  <2> QED
    BY <2>1, EmptySeq
<1>2. CASE g # <<>> /\ g[n].key = key
  <2> DEFINE last == [key |-> key, count |-> g[n].count + 1]
             h == [g EXCEPT ![n] = last]
  <2>1. WithKey(g, key) = h
    BY <1>2 DEF WithKey
  <2>2. n \in 1 .. n /\ last \in Group
    <3>1. n \in 1 .. n
      BY <1>1, <1>2
    <3>2. g[n].count + 1 \in Nat
      BY <3>1, <1>1
    <3> QED
      BY <3>1, <3>2 DEF Group
  <2> HIDE DEF last
  <2>3. /\ h \in Seq(Group) /\ Len(h) = n /\ h[n] = last
        /\ \A i \in 1 .. n : i # n => h[i] = g[i]
    BY <1>1, <2>2
  <2> HIDE DEF h, n
  <2>4. \A i \in 1 .. n - 1 : i \in 1 .. n /\ i # n
    BY <1>1
  <2> QED
    BY <1>1, <1>2, <2>1, <2>3, <2>4 DEF OneMore, Groups, last, n
<1>3. CASE ~(g # <<>> /\ g[n].key = key)
  <2> DEFINE last == [key |-> key, count |-> 1]
             h == Append(g, last)
  <2>1. WithKey(g, key) = h
    BY <1>3 DEF WithKey
  <2>2. last \in Group
    BY DEF Group
  <2> HIDE DEF last
  <2>3. /\ h \in Seq(Group) /\ Len(h) = n + 1 /\ h[n + 1] = last
        /\ \A i \in 1 .. n : h[i] = g[i]
    BY <1>1, <2>2, AppendProperties
  <2> HIDE DEF h, n
  <2>5. n # 0 => g[n].key # key
    BY <1>1, <1>3
  <2>6. /\ Len(h) = n + 1 /\ h[Len(h)] = last
        /\ \A i \in 1 .. Len(h) - 1 : h[i] = g[i]
    <3>1. n \in Nat /\ Len(h) = n + 1
      BY <1>1, <2>3
    <3>2. Len(h) - 1 = n
      BY <3>1
    <3> QED
      BY <3>1, <3>2, <2>3
  <2>7. OneMore(g, h, key)
    BY <2>5, <2>6 DEF OneMore, last, n
  <2>8. h \in Groups
    BY <2>3 DEF Groups
  <2> QED
    BY <2>1, <2>7, <2>8
<1> QED
  BY <1>2, <1>3

\* It adds one to the count,
LEMMA OneMoreCounts ==
    ASSUME NEW g \in Groups, NEW h \in Groups, NEW key \in Nat, OneMore(g, h, key)
    PROVE  /\ Len(h) \in 1 .. Len(g) + 1 /\ Len(h) \in Nat
           /\ \A i \in 0 .. Len(h) - 1 : i \in 0 .. Len(g) /\ Ends(h)[i] = Ends(g)[i]
           /\ Ends(h)[Len(h)] = Ends(g)[Len(g)] + 1
           /\ h[Len(h)].key = key /\ h[Len(h)].count > 0
<1> DEFINE n == Len(g)
           m == Len(h)
           e == Ends(g)
           d == [i \in 0 .. m |-> IF i = m THEN e[n] + 1 ELSE e[i]]
<1>1. /\ n \in Nat /\ m \in Nat /\ e \in [0 .. n -> Nat] /\ e[0] = 0
      /\ \A i \in 1 .. n : e[i] = e[i - 1] + g[i].count
      /\ \A i \in 1 .. n : g[i].count \in Nat
      /\ \A i \in 1 .. m : h[i].count \in Nat
  BY GroupsAreSequences, EndsCount DEF Counts
<1>2. /\ \A i \in 1 .. m - 1 : h[i] = g[i]
      /\ \/ /\ m = n /\ n # 0
            /\ h[m] = [key |-> key, count |-> g[n].count + 1]
         \/ /\ m = n + 1 /\ h[m] = [key |-> key, count |-> 1]
  BY DEF OneMore
<1> HIDE DEF n, m, e
<1>3. m \in 1 .. n + 1
  BY <1>1, <1>2
<1>4. \A i \in 0 .. m - 1 : i \in 0 .. n /\ i \in 0 .. m /\ i # m
  BY <1>1, <1>3
<1>5. h[m].key = key /\ h[m].count > 0
  <2>1. n # 0 => g[n].count \in Nat
    BY <1>1
  <2> QED
    BY <1>2, <2>1
<1>6. d \in [0 .. m -> Nat] /\ d[m] = e[n] + 1 /\ \A i \in 0 .. m - 1 : d[i] = e[i]
  <2>1. \A i \in 0 .. m : i # m => i \in 0 .. m - 1
    BY <1>1
  <2>2. e[n] + 1 \in Nat /\ \A i \in 0 .. n : e[i] \in Nat
    BY <1>1
  <2>3. \A i \in 0 .. m - 1 : e[i] \in Nat
    BY <1>4, <2>2
  <2>4. m \in 0 .. m
    BY <1>1
  <2>5. ASSUME NEW i \in 0 .. m PROVE (IF i = m THEN e[n] + 1 ELSE e[i]) \in Nat
    BY <2>1, <2>2, <2>3
  <2>6. d \in [0 .. m -> Nat]
    BY <2>5
  <2> QED
    BY <2>4, <2>6, <1>4
<1> HIDE DEF d
<1>7. ASSUME NEW i \in 1 .. m PROVE d[i] = d[i - 1] + h[i].count
  <2>0. i - 1 \in 0 .. m - 1 /\ d[i - 1] = e[i - 1] /\ i - 1 \in 0 .. n
    <3>1. i - 1 \in 0 .. m - 1
      BY <1>1
    <3> QED
      BY <3>1, <1>4, <1>6
  <2>1. CASE i # m
    <3>1. i \in 1 .. m - 1 /\ i \in 0 .. m - 1 /\ i \in 1 .. n
      BY <2>1, <1>1, <1>3
    <3> QED
      BY <3>1, <2>0, <1>1, <1>2, <1>6
  <2>2. CASE i = m /\ m = n
    <3>1. h[m].count = g[n].count + 1 /\ n \in 1 .. n /\ g[n].count \in Nat
      BY <2>2, <1>1, <1>2
    <3>2. e[n] = e[n - 1] + g[n].count /\ e[n - 1] \in Nat
      BY <3>1, <2>0, <2>2, <1>1
    <3> QED
      BY <3>1, <3>2, <2>0, <2>2, <1>6
  <2>3. CASE i = m /\ m # n
    <3>1. m = n + 1 /\ h[m].count = 1
      BY <2>3, <1>2
    <3>2. i - 1 = n
      BY <3>1, <2>3, <1>1
    <3> QED
      BY <3>1, <3>2, <2>0, <2>3, <1>6
  <2> QED
    BY <2>1, <2>2, <2>3
<1>8. Counts(d, h)
  <2>1. 0 \in 0 .. m - 1
    BY <1>3, <1>1
  <2> QED
    BY <2>1, <1>1, <1>6, <1>7 DEF Counts, m
<1>9. d = Ends(h)
  BY <1>8, CountsAreEnds
<1> QED
  BY <1>1, <1>3, <1>4, <1>5, <1>6, <1>9 DEF n, m, e

\* one to the keys,
LEMMA OneMoreKey ==
    ASSUME NEW g \in Groups, NEW h \in Groups, NEW key \in Nat, OneMore(g, h, key)
    PROVE  Groups2Keys(h) = Append(Groups2Keys(g), key)
<1> DEFINE n == Len(g)
           m == Len(h)
           e == Ends(g)
           d == Ends(h)
           ks == Groups2Keys(g)
           hs == Append(ks, key)
<1>1. /\ n \in Nat /\ m \in Nat /\ e \in [0 .. n -> Nat] /\ d \in [0 .. m -> Nat]
      /\ \A i \in 1 .. n : e[i] = e[i - 1] + g[i].count
      /\ \A i \in 1 .. n : g[i].count \in Nat
  BY GroupsAreSequences, EndsCount DEF Counts
<1>2. /\ m \in 1 .. n + 1
      /\ \A i \in 0 .. m - 1 : i \in 0 .. n /\ d[i] = e[i]
      /\ d[m] = e[n] + 1 /\ h[m].key = key
  BY OneMoreCounts
<1>3. /\ ks \in Seq(Nat) /\ Len(ks) = e[n]
      /\ \A i \in 1 .. n : \A x \in e[i - 1] + 1 .. e[i] : ks[x] = g[i].key
  BY KeysSpan DEF Spans, CountOf
<1>4. /\ \A i \in 1 .. m - 1 : h[i] = g[i]
      /\ m = n => g[n].key = key
      /\ m = n \/ m = n + 1
  <2>1. \A i \in 1 .. m - 1 : h[i] = g[i]
    BY DEF OneMore
  <2>2. CASE m = n
    <3>1. ~(Len(h) = Len(g) + 1)
      BY <2>2, <1>1
    <3>2. g[n].key = key
      BY <3>1 DEF OneMore
    <3> QED
      BY <2>1, <2>2, <3>2
  <2>3. CASE m # n
    <3>1. m = n + 1
      BY <2>3 DEF OneMore
    <3> QED
      BY <2>1, <2>3, <3>1
  <2> QED
    BY <2>2, <2>3
<1>0. \A k \in 0 .. n : \A j \in k .. n : e[k] <= e[j]
  BY EndsGrow
<1>5. /\ hs \in Seq(Nat) /\ Len(hs) = e[n] + 1 /\ hs[e[n] + 1] = key
      /\ \A x \in 1 .. e[n] : hs[x] = ks[x]
  <2> HIDE DEF e, n, ks
  <2> QED
    BY <1>3, AppendProperties
<1> HIDE DEF n, m, e, d, ks, hs
<1>6. e[n] \in Nat /\ \A i \in 0 .. n : e[i] \in Nat
  BY <1>1
<1>7. ASSUME NEW i \in 1 .. m, NEW x \in d[i - 1] + 1 .. d[i]
      PROVE  hs[x] = h[i].key
  <2>1. i - 1 \in 0 .. m - 1 /\ i - 1 \in 0 .. n /\ d[i - 1] = e[i - 1] /\ e[i - 1] \in Nat
    <3>1. i - 1 \in 0 .. m - 1
      BY <1>1
    <3> QED
      BY <3>1, <1>2, <1>6
  <2>2. CASE i # m
    <3>1. i \in 1 .. m - 1 /\ i \in 0 .. m - 1 /\ i \in 1 .. n /\ i \in 0 .. n /\ n \in i .. n
      BY <2>2, <1>1, <1>2
    <3>2. d[i] = e[i] /\ e[i] \in Nat /\ e[i] <= e[n]
      BY <3>1, <1>2, <1>6, <1>0
    <3>3. x \in e[i - 1] + 1 .. e[i] /\ x \in 1 .. e[n]
      BY <3>2, <2>1, <1>6
    <3> QED
      BY <3>1, <3>3, <1>3, <1>4, <1>5
  <2>3. CASE i = m /\ x = e[n] + 1
    BY <2>3, <1>2, <1>5
  <2>4. CASE i = m /\ x # e[n] + 1
    <3>1. x \in e[m - 1] + 1 .. e[n]
      BY <2>1, <2>4, <1>2, <1>6
    <3>2. m = n
      <4>1. CASE m = n + 1
        <5>1. m - 1 = n
          BY <4>1, <1>1
        <5> QED
          BY <5>1, <3>1, <1>6
      <4> QED
        BY <4>1, <1>4
    <3>3. n \in 1 .. n /\ x \in e[n - 1] + 1 .. e[n] /\ x \in 1 .. e[n]
      BY <3>1, <3>2, <2>1, <2>4, <1>2, <1>6
    <3> QED
      BY <3>2, <3>3, <2>4, <1>2, <1>3, <1>4, <1>5
  <2> QED
    BY <2>2, <2>3, <2>4
<1>8. Spans(h, hs)
  BY <1>2, <1>5, <1>7 DEF Spans, CountOf, m, d
<1> QED
  BY <1>8, SpansAreKeys DEF hs, ks

\* and the groups stay runs.
LEMMA OneMoreRuns ==
    ASSUME NEW g \in Groups, NEW h \in Groups, NEW key \in Nat, OneMore(g, h, key), Runs(g)
    PROVE  Runs(h)
<1> DEFINE n == Len(g)
           m == Len(h)
<1>1. n \in Nat /\ m \in Nat /\ m \in 1 .. n + 1 /\ h[m].key = key /\ h[m].count > 0
  BY GroupsAreSequences, OneMoreCounts
<1>2. /\ \A i \in 1 .. m - 1 : h[i] = g[i]
      /\ \A i \in 1 .. n - 1 : g[i].key # g[i + 1].key
      /\ \A i \in 2 .. n : g[i].count > 0
  BY DEF OneMore, Runs
<1>3. \/ m = n /\ g[n].key = key
      \/ m = n + 1 /\ (n # 0 => g[n].key # key)
  BY DEF OneMore
<1> HIDE DEF n, m
<1>4. ASSUME NEW i \in 1 .. m - 1 PROVE h[i].key # h[i + 1].key
  <2>1. h[i] = g[i]
    BY <1>2
  <2>2. CASE i + 1 \in 1 .. m - 1
    <3>1. i \in 1 .. n - 1 /\ h[i + 1] = g[i + 1]
      BY <2>2, <1>1, <1>2
    <3> QED
      BY <3>1, <2>1, <1>2
  <2>3. CASE i + 1 \notin 1 .. m - 1
    <3>1. i + 1 = m /\ n # 0
      BY <2>3, <1>1
    <3>2. CASE m = n /\ g[n].key = key
      <4>1. i \in 1 .. n - 1 /\ g[i].key # g[i + 1].key
        BY <3>1, <3>2, <1>1, <1>2
      <4> QED
        BY <4>1, <3>1, <3>2, <2>1, <1>1
    <3>3. CASE m = n + 1 /\ (n # 0 => g[n].key # key)
      <4>1. i = n
        BY <3>1, <3>3, <1>1
      <4> QED
        BY <4>1, <3>1, <3>3, <2>1, <1>1
    <3> QED
      BY <3>2, <3>3, <1>3
  <2> QED
    BY <2>2, <2>3
<1>5. ASSUME NEW i \in 2 .. m PROVE h[i].count > 0
  <2>1. CASE i = m
    BY <2>1, <1>1
  <2>2. CASE i # m
    <3>1. i \in 1 .. m - 1 /\ i \in 2 .. n
      BY <2>2, <1>1
    <3> QED
      BY <3>1, <1>2
  <2> QED
    BY <2>1, <2>2
<1> QED
  BY <1>4, <1>5 DEF Runs, m

\* hs is old with the first n of ks behind it.
Extends(hs, old, ks, n) ==
    /\ hs \in Seq(Nat) /\ Len(hs) = Len(old) + n
    /\ \A x \in 1 .. Len(old) : hs[x] = old[x]
    /\ \A x \in 1 .. n : hs[Len(old) + x] = ks[x]

LEMMA ExtendsByOne ==
    ASSUME NEW hs, NEW old \in Seq(Nat), NEW ks \in Seq(Nat), NEW i \in 1 .. Len(ks),
           Extends(hs, old, ks, i - 1)
    PROVE  Extends(Append(hs, ks[i]), old, ks, i)
<1> DEFINE a == Len(old)
           v == ks[i]
           gs == Append(hs, v)
<1>1. /\ a \in Nat /\ v \in Nat /\ i \in Nat /\ i - 1 \in Nat
      /\ hs \in Seq(Nat) /\ Len(hs) = a + (i - 1)
      /\ \A x \in 1 .. a : hs[x] = old[x]
      /\ \A x \in 1 .. i - 1 : hs[a + x] = ks[x]
  <2>1. a \in Nat /\ v \in Nat /\ i \in Nat /\ i - 1 \in Nat
    <3>1. a \in Nat
      OBVIOUS
    <3>2. Len(ks) \in Nat
      OBVIOUS
    <3>3. i \in Nat /\ i - 1 \in Nat
      BY <3>2
    <3>4. v \in Nat
      OBVIOUS
    <3> QED
      BY <3>1, <3>3, <3>4
  <2>2. /\ hs \in Seq(Nat) /\ Len(hs) = a + (i - 1)
        /\ \A x \in 1 .. a : hs[x] = old[x]
        /\ \A x \in 1 .. i - 1 : hs[a + x] = ks[x]
    BY Zenon DEF Extends
  <2> QED
    BY <2>1, <2>2
<1> HIDE DEF a, v
<1>2. /\ gs \in Seq(Nat) /\ Len(gs) = Len(hs) + 1 /\ gs[Len(hs) + 1] = v
      /\ \A x \in 1 .. Len(hs) : gs[x] = hs[x]
  BY <1>1, AppendProperties
<1> HIDE DEF gs
<1>3. Len(hs) + 1 = a + i
  BY <1>1
<1>4. ASSUME NEW x \in 1 .. a PROVE gs[x] = old[x]
  <2>1. x \in 1 .. Len(hs)
    BY <1>1
  <2> QED
    BY <2>1, <1>1, <1>2
<1>5. ASSUME NEW x \in 1 .. i PROVE gs[a + x] = ks[x]
  <2>1. CASE x = i
    BY <2>1, <1>2, <1>3 DEF v
  <2>2. CASE x # i
    <3>1. x \in 1 .. i - 1 /\ a + x \in 1 .. Len(hs)
      BY <2>2, <1>1
    <3> QED
      BY <3>1, <1>1, <1>2
  <2> QED
    BY <2>1, <2>2
<1> QED
  BY <1>2, <1>3, <1>4, <1>5 DEF Extends, gs, a, v

\* keys2GroupData() puts a block of keys behind those of the groups, which stay runs.
LEMMA Keys2GroupsAdds ==
    ASSUME NEW g \in Groups, NEW ks \in Seq(Nat)
    PROVE  /\ Keys2Groups(ks, g) \in Groups
           /\ Extends(Groups2Keys(Keys2Groups(ks, g)), Groups2Keys(g), ks, Len(ks))
           /\ Runs(g) => Runs(Keys2Groups(ks, g))
<1> DEFINE n == Len(ks)
           step == [i \in 1 .. n |-> [gs \in Groups |-> WithKey(gs, ks[i])]]
           Body(f) == [i \in 0 .. n |-> IF i = 0 THEN g
                         ELSE [gs \in Groups |-> WithKey(gs, ks[i])][f[i - 1]]]
           upTo == CHOOSE f : f = Body(f)
<1>0. n \in Nat /\ \A i \in 1 .. n : ks[i] \in Nat
  OBVIOUS
<1>1. /\ step \in [1 .. n -> [Groups -> Groups]]
      /\ \A i \in 1 .. n : step[i] = [gs \in Groups |-> WithKey(gs, ks[i])]
  <2> HIDE DEF n
  <2>1. ASSUME NEW i \in 1 .. n
        PROVE  [gs \in Groups |-> WithKey(gs, ks[i])] \in [Groups -> Groups]
    <3>1. \A gs \in Groups : WithKey(gs, ks[i]) \in Groups
      BY <1>0, WithKeyIsOneMore
    <3> QED
      BY <3>1
  <2> QED
    BY <2>1
<1> HIDE DEF step
<1>2. PICK f : IsLoop(f, Groups, g, n, step)
  <2> HIDE DEF n
  <2> QED
    BY <1>0, <1>1, LoopRuns
<1> HIDE DEF n
<1>3. f = Body(f)
  BY <1>1, <1>2 DEF IsLoop
<1>4. upTo = Body(upTo)
  <2> HIDE DEF Body
  <2> QED
    BY <1>3, Zenon
<1>5. Keys2Groups(ks, g) = upTo[n]
  BY DEF Keys2Groups, n
<1> HIDE DEF upTo
<1>6. /\ upTo[0] = g
      /\ \A i \in 1 .. n : upTo[i] = [gs \in Groups |-> WithKey(gs, ks[i])][upTo[i - 1]]
  <2>1. \A i \in 0 .. n : upTo[i] = IF i = 0 THEN g
                   ELSE [gs \in Groups |-> WithKey(gs, ks[i])][upTo[i - 1]]
    BY <1>4
  <2>2. 0 \in 0 .. n /\ \A i \in 1 .. n : i \in 0 .. n /\ i # 0
    BY <1>0
  <2> QED
    BY <2>1, <2>2
<1> DEFINE old == Groups2Keys(g)
           Kept(i) == /\ upTo[i] \in Groups
                      /\ Extends(Groups2Keys(upTo[i]), old, ks, i)
                      /\ Runs(g) => Runs(upTo[i])
           T == {i \in 0 .. n : Kept(i)}
<1>7. old \in Seq(Nat)
  BY KeysSpan DEF Spans
<1>8. 0 \in T
  <2>1. old \in Seq(Nat) /\ Len(old) = Len(old) + 0
    BY <1>7
  <2>2. Extends(old, old, ks, 0)
    BY <2>1 DEF Extends
  <2>3. 0 \in 0 .. n
    BY <1>0
  <2> QED
    BY <2>2, <2>3, <1>6
<1> HIDE DEF old
<1>9. ASSUME NEW i \in 1 .. n, i - 1 \in T PROVE i \in T
  <2>0. Kept(i - 1)
    BY <1>9
  <2> DEFINE b == upTo[i - 1]
             h == upTo[i]
             key == ks[i]
  <2>1. /\ b \in Groups /\ Extends(Groups2Keys(b), old, ks, i - 1)
        /\ Runs(g) => Runs(b)
    BY <2>0
  <2>2. key \in Nat /\ i \in 0 .. n
    BY <1>0
  <2>3. h = WithKey(b, key)
    <3>1. h = [gs \in Groups |-> WithKey(gs, ks[i])][b]
      BY <1>6
    <3> HIDE DEF b, h
    <3> QED
      BY <3>1, <2>1
  <2> HIDE DEF b, h, key
  <2>4. h \in Groups /\ OneMore(b, h, key)
    BY <2>1, <2>2, <2>3, WithKeyIsOneMore
  <2>5. Groups2Keys(h) = Append(Groups2Keys(b), key)
    BY <2>1, <2>2, <2>4, OneMoreKey
  <2>6. Runs(b) => Runs(h)
    BY <2>1, <2>2, <2>4, OneMoreRuns
  <2>7. Extends(Append(Groups2Keys(b), ks[i]), old, ks, i)
    <3>1. i \in 1 .. Len(ks)
      BY DEF n
    <3> QED
      BY <3>1, <2>1, <1>7, ExtendsByOne
  <2>8. Kept(i)
    BY <2>1, <2>4, <2>5, <2>6, <2>7 DEF h, key
  <2> QED
    BY <2>2, <2>8
<1> HIDE DEF T
<1>10. \A i \in 0 .. n : i \in T
  BY <1>0, <1>8, <1>9, UpTo
<1>11. n \in 0 .. n
  BY <1>0
<1>12. Kept(n)
  BY <1>10, <1>11 DEF T
<1> QED
  BY <1>5, <1>12 DEF old, n

-------------------------------------------------------------------------------
(* Iterators.                                                                   *)

\* The iterator it has pos keys of the groups g behind it; the group that it is in
\* has keys behind it as well, unless it is the first.
StandsAt(g, it, pos) ==
    /\ it \in Nat \X Nat /\ it[1] \in 1 .. Len(g)
    /\ Ends(g)[it[1] - 1] + it[2] = pos /\ pos <= Ends(g)[it[1]]
    /\ it[1] = 1 \/ it[2] > 0

\* A trailing iterator stops in the first group that reaches as far.
TrailsTo(g, i, pos, j) ==
    /\ j \in i .. Len(g) + 1
    /\ j > Len(g) \/ pos <= Ends(g)[j]
    /\ \A before \in i .. j - 1 : before <= Len(g) /\ Ends(g)[before] < pos

\* An iterator trails to such a group.
LEMMA TrailStops ==
    ASSUME NEW g \in Groups, NEW i \in 1 .. Len(g) + 1, NEW off \in Nat,
           NEW pos \in Nat, pos = Ends(g)[i - 1] + off
    PROVE  \E j : /\ TrailsTo(g, i, pos, j)
                  /\ Trail(g, i, off) = <<j, pos - Ends(g)[j - 1]>>
<1> DEFINE n == Len(g)
           e == Ends(g)
           Stops(j) == j > n \/ pos <= e[j]
           First(j) == Stops(j) /\ \A before \in i .. j - 1 : ~Stops(before)
           j == CHOOSE j \in i .. n + 1 : First(j)
           T == {m \in Nat : m \in i .. n + 1 /\ Stops(m)}
<1>1. n \in Nat /\ i \in 1 .. n + 1 /\ \A m \in 0 .. n : e[m] \in Nat
  BY GroupsAreSequences, EndsCount DEF Counts
<1>2. Trail(g, i, off) = <<j, pos - e[j - 1]>>
  BY DEF Trail
<1> HIDE DEF n, e
<1>3. T \in SUBSET Nat /\ n + 1 \in T
  BY <1>1
<1>4. PICK m \in T : \A k \in T : m <= k
  BY <1>3, LeastNatural
<1>5. m \in i .. n + 1 /\ Stops(m)
  OBVIOUS
<1>6. \A before \in i .. m - 1 : ~Stops(before)
  <2> SUFFICES ASSUME NEW before \in i .. m - 1, Stops(before) PROVE FALSE
    OBVIOUS
  <2>1. before \in Nat /\ before \in i .. n + 1 /\ before < m
    BY <1>1, <1>5
  <2>2. before \in T
    BY <2>1
  <2> QED
    BY <2>1, <2>2, <1>4, <1>5, <1>1
<1>7. \E k \in i .. n + 1 : First(k)
  BY <1>5, <1>6
<1> HIDE DEF First
<1>8. j \in i .. n + 1 /\ First(j)
  BY <1>7
<1> HIDE DEF j
<1>9. Stops(j) /\ \A before \in i .. j - 1 : ~Stops(before)
  BY <1>8 DEF First
<1>10. ASSUME NEW before \in i .. j - 1 PROVE before <= n /\ e[before] < pos
  <2>1. ~(before > n) /\ ~(pos <= e[before])
    BY <1>9
  <2>2. before \in 0 .. n
    BY <2>1, <1>1, <1>8
  <2> QED
    BY <2>1, <2>2, <1>1
<1>11. TrailsTo(g, i, pos, j)
  BY <1>8, <1>9, <1>10 DEF TrailsTo, n, e
<1> QED
  BY <1>2, <1>11 DEF e

\* It passes the end of the groups only when they have no more keys.
LEMMA TrailPasses ==
    ASSUME NEW g \in Groups, NEW i \in 1 .. Len(g) + 1, NEW off \in Nat,
           Ends(g)[i - 1] + off > CountOf(g)
    PROVE  Trail(g, i, off) = <<Len(g) + 1, (Ends(g)[i - 1] + off) - CountOf(g)>>
<1> DEFINE n == Len(g)
           e == Ends(g)
           pos == e[i - 1] + off
<1>1. n \in Nat /\ i \in 1 .. n + 1 /\ \A m \in 0 .. n : e[m] \in Nat
  BY GroupsAreSequences, EndsCount DEF Counts
<1>2. CountOf(g) = e[n] /\ pos > e[n]
  BY DEF CountOf
<1>3. pos \in Nat
  <2> HIDE DEF n, e
  <2>1. i - 1 \in 0 .. n
    BY <1>1
  <2> QED
    BY <2>1, <1>1
<1>4. PICK j : TrailsTo(g, i, pos, j) /\ Trail(g, i, off) = <<j, pos - e[j - 1]>>
  <2>1. pos = Ends(g)[i - 1] + off
    OBVIOUS
  <2> HIDE DEF pos
  <2> QED
    BY <2>1, <1>3, TrailStops DEF e
<1>5. \A k \in 0 .. n : \A m \in k .. n : e[k] <= e[m]
  BY EndsGrow
<1>6. j \in i .. n + 1 /\ (j > n \/ pos <= e[j])
  BY <1>4 DEF TrailsTo
<1> HIDE DEF n, e, pos
<1>7. j = n + 1
  <2> SUFFICES ASSUME j # n + 1 PROVE FALSE
    OBVIOUS
  <2>1. j \in 0 .. n /\ n \in j .. n
    BY <1>1, <1>6
  <2>2. pos <= e[j] /\ e[j] <= e[n]
    BY <2>1, <1>1, <1>5, <1>6
  <2> QED
    BY <2>1, <2>2, <1>1, <1>2, <1>3
<1>8. (n + 1) - 1 = n
  BY <1>1
<1> QED
  BY <1>2, <1>4, <1>7, <1>8 DEF n, e, pos

\* Else it stands as far as it was to go.
LEMMA TrailStands ==
    ASSUME NEW g \in Groups, NEW i \in 1 .. Len(g), NEW off \in Nat, i = 1 \/ off > 0,
           NEW pos \in Nat, pos = Ends(g)[i - 1] + off, pos <= CountOf(g)
    PROVE  StandsAt(g, Trail(g, i, off), pos)
<1> DEFINE n == Len(g)
           e == Ends(g)
<1>1. n \in Nat /\ i \in 1 .. n /\ \A m \in 0 .. n : e[m] \in Nat
  BY GroupsAreSequences, EndsCount DEF Counts
<1>2. pos <= e[n] /\ pos = e[i - 1] + off
  BY DEF CountOf
<1>3. PICK j : TrailsTo(g, i, pos, j) /\ Trail(g, i, off) = <<j, pos - e[j - 1]>>
  <2>1. i \in 1 .. Len(g) + 1
    <3>1. Len(g) \in Nat
      BY GroupsAreSequences
    <3> QED
      BY <3>1
  <2> QED
    BY <2>1, TrailStops
<1>4. /\ j \in i .. n + 1 /\ (j > n \/ pos <= e[j])
      /\ \A before \in i .. j - 1 : before <= n /\ e[before] < pos
  BY <1>3 DEF TrailsTo
<1> HIDE DEF n, e
<1>5. j \in i .. n
  <2> SUFFICES ASSUME j = n + 1 PROVE FALSE
    BY <1>1, <1>4
  <2>1. n \in i .. j - 1 /\ e[n] \in Nat
    BY <1>1
  <2>2. e[n] < pos
    BY <2>1, <1>4
  <2> QED
    BY <2>1, <2>2, <1>2
<1>6. pos <= e[j] /\ j \in 1 .. n /\ j - 1 \in 0 .. n /\ e[j - 1] \in Nat
  <2>1. ~(j > n) /\ j \in 1 .. n /\ j - 1 \in 0 .. n
    BY <1>1, <1>5
  <2> QED
    BY <2>1, <1>1, <1>4
<1>7. pos - e[j - 1] \in Nat /\ (j = 1 \/ pos - e[j - 1] > 0)
  <2>1. CASE j = i
    <3>1. pos - e[j - 1] = off
      BY <2>1, <1>2, <1>6
    <3> QED
      BY <3>1, <2>1
  <2>2. CASE j # i
    <3>1. j - 1 \in i .. j - 1
      BY <2>2, <1>1, <1>5
    <3>2. e[j - 1] < pos
      BY <3>1, <1>4
    <3> QED
      BY <3>2, <1>6
  <2> QED
    BY <2>1, <2>2
<1> DEFINE off2 == pos - e[j - 1]
<1>8. e[j - 1] + off2 = pos
  BY <1>6
<1> HIDE DEF off2
<1>9. /\ Trail(g, i, off) = <<j, off2>> /\ off2 \in Nat /\ (j = 1 \/ off2 > 0)
      /\ j \in Nat
  BY <1>1, <1>3, <1>6, <1>7 DEF off2
<1> QED
  BY <1>6, <1>8, <1>9 DEF StandsAt, n, e

\* Iterators that stand further on are in the same group or in a later one.
LEMMA IteratorsInOrder ==
    ASSUME NEW g \in Groups, NEW it, NEW jt, NEW p \in Nat, NEW q \in Nat, p <= q,
           StandsAt(g, it, p), StandsAt(g, jt, q)
    PROVE  it[1] <= jt[1]
<1> DEFINE n == Len(g)
           e == Ends(g)
           i == it[1]
           j == jt[1]
<1>1. n \in Nat /\ \A m \in 0 .. n : e[m] \in Nat
  BY GroupsAreSequences, EndsCount DEF Counts
<1>2. /\ i \in 1 .. n /\ e[i - 1] + it[2] = p /\ (i = 1 \/ it[2] > 0) /\ it[2] \in Nat
      /\ j \in 1 .. n /\ q <= e[j]
  BY DEF StandsAt
<1>3. \A k \in 0 .. n : \A m \in k .. n : e[k] <= e[m]
  BY EndsGrow
<1> HIDE DEF n, e, i, j
<1>4. ASSUME j < i PROVE FALSE
  <2>1. i # 1 /\ j \in 0 .. n /\ i - 1 \in j .. n /\ i - 1 \in 0 .. n
    BY <1>1, <1>2, <1>4
  <2>2. e[j] <= e[i - 1] /\ e[j] \in Nat /\ e[i - 1] \in Nat
    BY <2>1, <1>1, <1>3
  <2> QED
    BY <2>1, <2>2, <1>2
<1> QED
  BY <1>1, <1>2, <1>4 DEF i, j

\* A hop takes an iterator as many keys further on,
LEMMA HoppedStands ==
    ASSUME NEW g \in Groups, NEW it, NEW p \in Nat, NEW hop \in Nat,
           StandsAt(g, it, p), p + hop <= CountOf(g)
    PROVE  StandsAt(g, Trail(g, it[1], it[2] + hop), p + hop)
<1> DEFINE i == it[1]
           off == it[2] + hop
           q == p + hop
<1>1. /\ i \in 1 .. Len(g) /\ it[2] \in Nat /\ i \in Nat
      /\ Ends(g)[i - 1] + it[2] = p /\ (i = 1 \/ it[2] > 0)
  BY DEF StandsAt
<1>2. off \in Nat /\ (i = 1 \/ off > 0) /\ q \in Nat
  BY <1>1
<1>3. q = Ends(g)[i - 1] + off
  <2>1. i - 1 \in 0 .. Len(g)
    BY <1>1, GroupsAreSequences
  <2>2. Ends(g)[i - 1] \in Nat
    BY <2>1, EndsCount DEF Counts
  <2> QED
    BY <2>2, <1>1
<1> HIDE DEF i, off, q
<1>4. q <= CountOf(g)
  BY DEF q
<1>5. StandsAt(g, Trail(g, i, off), q)
  BY <1>1, <1>2, <1>3, <1>4, TrailStands
<1> QED
  BY <1>5 DEF i, off, q

\* unless there are fewer.
LEMMA HoppedPasses ==
    ASSUME NEW g \in Groups, NEW it, NEW p \in Nat, NEW hop \in Nat,
           StandsAt(g, it, p), p + hop > CountOf(g)
    PROVE  Trail(g, it[1], it[2] + hop) = <<Len(g) + 1, (p + hop) - CountOf(g)>>
<1> DEFINE i == it[1]
           off == it[2] + hop
<1>1. /\ i \in 1 .. Len(g) /\ it[2] \in Nat /\ i \in Nat
      /\ Ends(g)[i - 1] + it[2] = p
  BY DEF StandsAt
<1>2. off \in Nat /\ i \in 1 .. Len(g) + 1
  BY <1>1, GroupsAreSequences
<1>3. Ends(g)[i - 1] + off = p + hop
  <2>1. i - 1 \in 0 .. Len(g)
    BY <1>1, GroupsAreSequences
  <2> DEFINE x == Ends(g)[i - 1]
  <2>2. x \in Nat
    BY <2>1, EndsCount DEF Counts
  <2>3. x + it[2] = p
    BY <1>1
  <2> HIDE DEF x
  <2>4. x + off = p + hop
    BY <2>2, <2>3, <1>1
  <2> QED
    BY <2>4 DEF x
<1> HIDE DEF i, off
<1>4. Trail(g, i, off) = <<Len(g) + 1, (Ends(g)[i - 1] + off) - CountOf(g)>>
  BY <1>2, <1>3, TrailPasses
<1> QED
  BY <1>3, <1>4 DEF i, off

-------------------------------------------------------------------------------
(* Windows.                                                                     *)

\* Where the middle of a window begins and ends, and by how much it hops.
Lo  == (ToProcess - SubWindow) \div 2
Hi  == (ToProcess + SubWindow) \div 2
Hop == SubWindow \div HopDiv

LEMMA WindowConstants ==
    /\ Lo \in Nat /\ Hi \in Nat /\ Hop \in Nat \ {0} /\ ToProcess \in Nat \ {0}
    /\ 1 <= Lo /\ Lo <= Hi /\ Hi <= ToProcess
<1>1. ASSUME NEW t \in Nat, NEW s \in Nat, s + 2 <= t
      PROVE  /\ (t - s) \div 2 \in Nat /\ (t + s) \div 2 \in Nat
             /\ 1 <= (t - s) \div 2 /\ (t - s) \div 2 <= (t + s) \div 2
             /\ (t + s) \div 2 <= t
  BY <1>1
<1>2. ToProcess \in Nat /\ SubWindow \in Nat /\ SubWindow + 2 <= ToProcess
  BY WindowSizes
<1>3. Hop \in Nat \ {0}
  <2>1. SubWindow \in Nat /\ HopDiv \in Nat \ {0} /\ SubWindow \div HopDiv > 0
    BY WindowSizes
  <2>2. SubWindow \div HopDiv \in Int
    BY <2>1
  <2> QED
    BY <2>1, <2>2 DEF Hop
<1> QED
  BY <1>1, <1>2, <1>3 DEF Lo, Hi

\* The window w is of the ToProcess keys behind the first p, and its middle is of the
\* SubWindow keys in their middle.  Its end is the end of the groups only when there
\* are no more keys.
WindowAt(g, w, p) ==
    /\ w \in Windows /\ p \in Nat /\ p + ToProcess <= CountOf(g)
    /\ StandsAt(g, w.left, p)
    /\ StandsAt(g, w.subLeft, p + Lo) /\ StandsAt(g, w.subRight, p + Hi)
    /\ \/ StandsAt(g, w.right, p + ToProcess) /\ w.hop = Hop
       \/ w.right[1] = Len(g) + 1 /\ p + ToProcess = CountOf(g)

LEMMA WindowType ==
    ASSUME NEW left \in Nat \X Nat, NEW right \in Nat \X Nat, NEW subLeft \in Nat \X Nat,
           NEW subRight \in Nat \X Nat, NEW hop \in Nat
    PROVE  [left |-> left, right |-> right, subLeft |-> subLeft, subRight |-> subRight,
            hop |-> hop] \in Windows
BY DEF Windows

\* The first window is of the first keys.
LEMMA FirstWindowStands ==
    ASSUME NEW g \in Groups, FirstWindow(g, ToProcess, SubWindow).right[1] <= Len(g)
    PROVE  WindowAt(g, FirstWindow(g, ToProcess, SubWindow), 0)
<1> DEFINE n == Len(g)
           e == Ends(g)
           right == Trail(g, 1, ToProcess)
           subLeft == Trail(g, 1, Lo)
           subRight == Trail(g, 1, Hi)
           left == <<1, 0>>
           w == [left |-> left, right |-> right, subLeft |-> subLeft,
                 subRight |-> subRight, hop |-> Hop]
<1>1. FirstWindow(g, ToProcess, SubWindow) = w
  BY DEF FirstWindow, Lo, Hi, Hop
<1>2. /\ n \in Nat /\ e[0] = 0 /\ 1 \in 1 .. n + 1 /\ CountOf(g) \in Nat
      /\ \A m \in 0 .. n : e[m] \in Nat
  <2>1. n \in Nat /\ e[0] = 0 /\ \A m \in 0 .. n : e[m] \in Nat
    BY GroupsAreSequences, EndsCount DEF Counts
  <2> HIDE DEF n, e
  <2> QED
    BY <2>1, CountIsNat
<1>3. /\ Lo \in Nat /\ Hi \in Nat /\ Hop \in Nat /\ ToProcess \in Nat
      /\ Lo <= Hi /\ Hi <= ToProcess
  BY WindowConstants
<1>4. right[1] <= n
  BY <1>1
<1> HIDE DEF n, e
<1>5. ASSUME NEW off \in Nat PROVE e[1 - 1] + off = off
  BY <1>2
<1>6. ToProcess <= CountOf(g)
  <2> SUFFICES ASSUME ToProcess > CountOf(g) PROVE FALSE
    BY <1>2, <1>3
  <2>1. right = <<n + 1, (e[1 - 1] + ToProcess) - CountOf(g)>>
    <3>1. Ends(g)[1 - 1] + ToProcess > CountOf(g) /\ 1 \in 1 .. Len(g) + 1
      BY <1>2, <1>3, <1>5 DEF n, e
    <3>2. right = <<Len(g) + 1, (Ends(g)[1 - 1] + ToProcess) - CountOf(g)>>
      BY <3>1, <1>3, TrailPasses
    <3> QED
      BY <3>2 DEF n, e
  <2>2. right[1] = n + 1
    BY <2>1
  <2> HIDE DEF right
  <2> QED
    BY <2>2, <1>4, <1>2
<1>7. n # 0
  <2> SUFFICES ASSUME n = 0 PROVE FALSE
    OBVIOUS
  <2>1. CountOf(g) = 0
    BY <1>2 DEF CountOf, n, e
  <2> QED
    BY <2>1, <1>6, WindowConstants
<1>8. 1 \in 1 .. n
  BY <1>2, <1>7
<1>9. ASSUME NEW off \in Nat, off <= CountOf(g) PROVE StandsAt(g, Trail(g, 1, off), off)
  <2>1. 1 \in 1 .. Len(g) /\ off = Ends(g)[1 - 1] + off
    BY <1>5, <1>8 DEF n, e
  <2> QED
    BY <2>1, <1>9, TrailStands
<1>10. /\ StandsAt(g, right, ToProcess) /\ StandsAt(g, subLeft, Lo)
       /\ StandsAt(g, subRight, Hi)
  <2>1. Lo <= CountOf(g) /\ Hi <= CountOf(g)
    BY <1>2, <1>3, <1>6
  <2> QED
    BY <2>1, <1>3, <1>6, <1>9
<1>11. StandsAt(g, left, 0)
  <2>1. e[1 - 1] + 0 = 0 /\ 1 \in 0 .. n /\ e[1] \in Nat
    BY <1>2, <1>8
  <2>2. 0 <= e[1] /\ left \in Nat \X Nat /\ left[1] = 1 /\ left[2] = 0
    BY <2>1
  <2> QED
    BY <2>1, <2>2, <1>8 DEF StandsAt, n, e
<1> HIDE DEF left, right, subLeft, subRight
<1>12. /\ w \in Windows /\ w.left = left /\ w.right = right /\ w.subLeft = subLeft
       /\ w.subRight = subRight /\ w.hop = Hop
  <2>1. /\ left \in Nat \X Nat /\ right \in Nat \X Nat /\ subLeft \in Nat \X Nat
        /\ subRight \in Nat \X Nat
    BY <1>10, <1>11 DEF StandsAt
  <2>2. w \in Windows
    BY <2>1, <1>3, WindowType
  <2> QED
    BY <2>2
<1> HIDE DEF w
<1>13. 0 + ToProcess = ToProcess /\ 0 + Lo = Lo /\ 0 + Hi = Hi /\ 0 \in Nat
  BY <1>3
<1>14. WindowAt(g, w, 0)
  BY <1>6, <1>10, <1>11, <1>12, <1>13 DEF WindowAt
<1> QED
  BY <1>1, <1>14 DEF w

\* A hop takes the window further on, or to the end of the keys.
LEMMA HopStands ==
    ASSUME NEW g \in Groups, NEW w, NEW p, WindowAt(g, w, p), w.right[1] <= Len(g)
    PROVE  \E q \in Nat : /\ WindowAt(g, HopsOn(g, w), q)
                          /\ q > p \/ HopsOn(g, w).right[1] > Len(g)
<1> DEFINE n == Len(g)
           c == CountOf(g)
           right == Trail(g, w.right[1], w.right[2] + w.hop)
           hop == IF right[1] > n THEN w.hop - right[2] ELSE w.hop
           left == Trail(g, w.left[1], w.left[2] + hop)
           subLeft == Trail(g, w.subLeft[1], w.subLeft[2] + hop)
           subRight == Trail(g, w.subRight[1], w.subRight[2] + hop)
           v == [left |-> left, right |-> right, subLeft |-> subLeft,
                 subRight |-> subRight, hop |-> hop]
           q == p + hop
<1>1. HopsOn(g, w) = v
  BY DEF HopsOn
<1>2. n \in Nat /\ c \in Nat
  BY GroupsAreSequences, CountIsNat
<1>3. /\ Lo \in Nat /\ Hi \in Nat /\ Hop \in Nat /\ Hop > 0 /\ ToProcess \in Nat
      /\ Lo <= Hi /\ Hi <= ToProcess
  BY WindowConstants
<1>4. /\ p \in Nat /\ p + ToProcess <= c
      /\ StandsAt(g, w.left, p) /\ StandsAt(g, w.subLeft, p + Lo)
      /\ StandsAt(g, w.subRight, p + Hi)
      /\ StandsAt(g, w.right, p + ToProcess) /\ w.hop = Hop
  <2>1. w.right[1] # n + 1
    BY <1>2
  <2> QED
    BY <2>1 DEF WindowAt
<1> HIDE DEF n, c
<1>5. \/ /\ StandsAt(g, right, (p + ToProcess) + Hop) /\ right[1] <= n
         /\ hop = Hop /\ q + ToProcess <= c
      \/ /\ right[1] = n + 1 /\ right \in Nat \X Nat
         /\ hop \in Nat /\ q + ToProcess = c
  <2> DEFINE t == p + ToProcess
  <2>1. t \in Nat /\ t <= c /\ Hop \in Nat /\ StandsAt(g, w.right, t) /\ t = p + ToProcess
    BY <1>3, <1>4
  <2> HIDE DEF t
  <2>2. CASE t + Hop <= c
    <3>1. StandsAt(g, Trail(g, w.right[1], w.right[2] + Hop), t + Hop)
      BY <2>1, <2>2, HoppedStands DEF c
    <3>2. StandsAt(g, right, t + Hop)
      BY <3>1, <1>4
    <3> HIDE DEF right
    <3>3. right[1] <= n /\ right[1] \in Nat
      BY <3>2, <1>2 DEF StandsAt, n
    <3>4. hop = Hop
      BY <3>3, <1>2, <1>4
    <3>5. q + ToProcess <= c
      BY <3>4, <2>1, <2>2, <1>3, <1>4
    <3> QED
      BY <3>2, <3>3, <3>4, <3>5, <2>1
  <2>3. CASE t + Hop > c
    <3>1. Trail(g, w.right[1], w.right[2] + Hop) = <<n + 1, (t + Hop) - c>>
      BY <2>1, <2>3, HoppedPasses DEF c, n
    <3>2. right = <<n + 1, (t + Hop) - c>>
      BY <3>1, <1>4
    <3> HIDE DEF right
    <3>3. right[1] = n + 1 /\ right[2] = (t + Hop) - c
      BY <3>2
    <3>4. hop = Hop - ((t + Hop) - c)
      BY <3>3, <1>2, <1>4
    <3>5. (t + Hop) - c \in Nat /\ hop = c - t /\ hop \in Nat
      BY <3>4, <2>1, <2>3, <1>2
    <3>6. q + ToProcess = c
      BY <3>5, <2>1, <1>2, <1>3, <1>4
    <3>7. right \in Nat \X Nat
      BY <3>2, <3>5, <1>2
    <3> QED
      BY <3>3, <3>5, <3>6, <3>7
  <2> QED
    BY <2>1, <2>2, <2>3, <1>2
<1> HIDE DEF right
<1>6. hop \in Nat
  BY <1>3, <1>5
<1> HIDE DEF hop
<1>7. q \in Nat /\ q + ToProcess <= c
  BY <1>2, <1>3, <1>4, <1>5, <1>6
<1>8. /\ StandsAt(g, left, p + hop) /\ StandsAt(g, subLeft, (p + Lo) + hop)
      /\ StandsAt(g, subRight, (p + Hi) + hop)
  <2>1. /\ p + hop <= c /\ (p + Lo) + hop <= c /\ (p + Hi) + hop <= c
        /\ p + Lo \in Nat /\ p + Hi \in Nat
    <3>1. \A a, h, lo, hi, t, k \in Nat :
            lo <= hi /\ hi <= t /\ (a + h) + t <= k =>
              /\ a + h <= k /\ (a + lo) + h <= k /\ (a + hi) + h <= k
              /\ a + lo \in Nat /\ a + hi \in Nat
      OBVIOUS
    <3>2. (p + hop) + ToProcess <= c
      BY <1>7
    <3> QED
      BY <3>1, <3>2, <1>2, <1>3, <1>4, <1>6, Zenon
  <2> QED
    BY <2>1, <1>4, <1>6, HoppedStands DEF c
<1>9. /\ (p + Lo) + hop = q + Lo /\ (p + Hi) + hop = q + Hi
  BY <1>3, <1>4, <1>6
<1> HIDE DEF left, subLeft, subRight
<1>10. /\ v \in Windows /\ v.left = left /\ v.right = right /\ v.subLeft = subLeft
       /\ v.subRight = subRight /\ v.hop = hop
  <2>1. /\ left \in Nat \X Nat /\ right \in Nat \X Nat /\ subLeft \in Nat \X Nat
        /\ subRight \in Nat \X Nat
    BY <1>5, <1>8 DEF StandsAt
  <2>2. v \in Windows
    BY <2>1, <1>6, WindowType
  <2> QED
    BY <2>2
<1> HIDE DEF v
<1>11. /\ StandsAt(g, v.left, q) /\ StandsAt(g, v.subLeft, q + Lo)
       /\ StandsAt(g, v.subRight, q + Hi)
  BY <1>8, <1>9, <1>10
<1> HIDE DEF q
<1>12. \/ StandsAt(g, v.right, q + ToProcess) /\ v.hop = Hop
       \/ v.right[1] = n + 1 /\ q + ToProcess = c
  <2>1. hop = Hop => (p + ToProcess) + Hop = q + ToProcess
    BY <1>3, <1>4 DEF q
  <2> QED
    BY <2>1, <1>5, <1>10
<1>13. WindowAt(g, v, q)
  BY <1>7, <1>10, <1>11, <1>12 DEF WindowAt, n, c
<1>14. q > p \/ v.right[1] > n
  BY <1>2, <1>3, <1>4, <1>5, <1>10 DEF q
<1> QED
  BY <1>1, <1>7, <1>13, <1>14 DEF n

\* The window w is the last one, or it is the first that is significant, or m hops
\* have taken it over at least as many keys.
IsFar(g, w, m) ==
    \/ w.right[1] > Len(g)
    \/ Significant(g, w, MinUnique)
    \/ \E p : WindowAt(g, w, p) /\ p >= m

\* The windows of ToProcess keys.
WindowsOf(g) == {w \in Windows : \E p : WindowAt(g, w, p)}

\* A turn of the scan that does not end it goes at least one key on,
LEMMA ScannedGoesOn ==
    ASSUME NEW g \in Groups, NEW w \in WindowsOf(g), NEW i \in Nat \ {0}, IsFar(g, w, i - 1)
    PROVE  IsFar(g, Scanned(g, w, MinUnique), i)
<1>0. Len(g) \in Nat
  BY GroupsAreSequences
<1>1. CASE w.right[1] > Len(g) \/ Significant(g, w, MinUnique)
  BY <1>1 DEF Scanned, IsFar
<1>2. CASE ~(w.right[1] > Len(g) \/ Significant(g, w, MinUnique))
  <2>1. Scanned(g, w, MinUnique) = HopsOn(g, w)
    BY <1>2 DEF Scanned
  <2>2. PICK p : WindowAt(g, w, p) /\ p >= i - 1
    BY <1>2 DEF IsFar
  <2>3. w.right[1] \in Nat
    BY DEF WindowsOf, Windows
  <2>4. w.right[1] <= Len(g) /\ p \in Nat
    BY <2>2, <2>3, <1>0, <1>2 DEF WindowAt
  <2>5. PICK q \in Nat : /\ WindowAt(g, HopsOn(g, w), q)
                         /\ q > p \/ HopsOn(g, w).right[1] > Len(g)
    BY <2>2, <2>4, HopStands
  <2>6. CASE q > p
    <3>1. q >= i
      BY <2>2, <2>4, <2>6
    <3> QED
      BY <3>1, <2>1, <2>5 DEF IsFar
  <2>7. CASE HopsOn(g, w).right[1] > Len(g)
    BY <2>1, <2>7 DEF IsFar
  <2> QED
    BY <2>5, <2>6, <2>7
<1> QED
  BY <1>1, <1>2

\* and what it hands on is a window.
LEMMA ScannedStands ==
    ASSUME NEW g \in Groups, NEW w \in WindowsOf(g)
    PROVE  Scanned(g, w, MinUnique) \in WindowsOf(g)
<1>0. Len(g) \in Nat
  BY GroupsAreSequences
<1>1. CASE w.right[1] > Len(g) \/ Significant(g, w, MinUnique)
  BY <1>1 DEF Scanned
<1>2. CASE ~(w.right[1] > Len(g) \/ Significant(g, w, MinUnique))
  <2>1. Scanned(g, w, MinUnique) = HopsOn(g, w)
    BY <1>2 DEF Scanned
  <2>2. PICK p : WindowAt(g, w, p)
    BY DEF WindowsOf
  <2>3. w.right[1] \in Nat
    BY DEF WindowsOf, Windows
  <2>4. w.right[1] <= Len(g)
    BY <2>3, <1>0, <1>2
  <2>5. PICK q \in Nat : WindowAt(g, HopsOn(g, w), q)
    BY <2>2, <2>4, HopStands
  <2>6. HopsOn(g, w) \in Windows
    BY <2>5 DEF WindowAt
  <2> QED
    BY <2>1, <2>5, <2>6 DEF WindowsOf
<1> QED
  BY <1>1, <1>2

\* After as many turns as there are keys the scan has ended.
LEMMA ScanEnds ==
    ASSUME NEW g \in Groups, NEW first, WindowAt(g, first, 0), NEW scan,
           scan = CHOOSE f : f = [n \in 0 .. CountOf(g) |->
                      IF n = 0 THEN first
                      ELSE [w \in Windows |-> Scanned(g, w, MinUnique)][f[n - 1]]],
           NEW last, last = scan[CountOf(g)]
    PROVE  /\ last \in WindowsOf(g)
           /\ last.right[1] = Len(g) + 1 \/ Significant(g, last, MinUnique)
<1> DEFINE c == CountOf(g)
           S == WindowsOf(g)
           step == [i \in 1 .. c |-> [w \in S |-> Scanned(g, w, MinUnique)]]
           Body(f) == [n \in 0 .. c |->
                      IF n = 0 THEN first
                      ELSE [w \in Windows |-> Scanned(g, w, MinUnique)][f[n - 1]]]
<1>0. /\ c \in Nat /\ first \in S /\ S \subseteq Windows
      /\ \A w \in S : Scanned(g, w, MinUnique) \in S
  BY CountIsNat, ScannedStands DEF WindowsOf, WindowAt
<1>1. /\ step \in [1 .. c -> [S -> S]]
      /\ \A i \in 1 .. c : \A w \in S : step[i][w] = Scanned(g, w, MinUnique)
  <2> HIDE DEF c, S
  <2>1. [w \in S |-> Scanned(g, w, MinUnique)] \in [S -> S]
    BY <1>0
  <2> QED
    BY <2>1
<1>2. scan = CHOOSE f : f = Body(f)
  OBVIOUS
<1> HIDE DEF step, c, S
<1>3. PICK f : IsLoop(f, S, first, c, step)
  BY <1>0, <1>1, LoopRuns
<1>4. ASSUME NEW i \in 1 .. c
      PROVE  f[i] = [w \in Windows |-> Scanned(g, w, MinUnique)][f[i - 1]]
  <2>1. i - 1 \in 0 .. c
    BY <1>0
  <2>2. f[i - 1] \in S /\ f[i] = step[i][f[i - 1]]
    BY <2>1, <1>3 DEF IsLoop
  <2>3. f[i - 1] \in Windows
    BY <2>2, <1>0
  <2>4. f[i] = Scanned(g, f[i - 1], MinUnique)
    BY <2>2, <1>1
  <2> QED
    BY <2>3, <2>4
<1>5. f = Body(f)
  BY <1>3, <1>4 DEF IsLoop
<1>6. scan = Body(scan)
  <2> HIDE DEF Body
  <2> QED
    BY <1>2, <1>5, Zenon
<1>7. /\ scan[0] = first
      /\ \A i \in 1 .. c : scan[i] = [w \in Windows |-> Scanned(g, w, MinUnique)][scan[i - 1]]
  <2>1. \A i \in 0 .. c : scan[i] = IF i = 0 THEN first
                   ELSE [w \in Windows |-> Scanned(g, w, MinUnique)][scan[i - 1]]
    BY <1>6
  <2>2. 0 \in 0 .. c /\ \A i \in 1 .. c : i \in 0 .. c /\ i # 0
    BY <1>0
  <2> QED
    BY <2>1, <2>2
<1> DEFINE T == {i \in 0 .. c : scan[i] \in S /\ IsFar(g, scan[i], i)}
<1>8. 0 \in T
  <2>1. 0 \in 0 .. c /\ 0 >= 0
    BY <1>0
  <2>2. IsFar(g, first, 0)
    BY <2>1 DEF IsFar
  <2> QED
    BY <2>1, <2>2, <1>0, <1>7
<1>9. ASSUME NEW i \in 1 .. c, i - 1 \in T PROVE i \in T
  <2> DEFINE w == scan[i - 1]
  <2>1. w \in S /\ IsFar(g, w, i - 1) /\ i \in 0 .. c /\ i \in Nat \ {0}
    BY <1>9, <1>0
  <2>2. scan[i] = Scanned(g, w, MinUnique)
    <3>1. scan[i] = [v \in Windows |-> Scanned(g, v, MinUnique)][w]
      BY <1>7
    <3>2. w \in Windows
      BY <2>1, <1>0
    <3> HIDE DEF w
    <3> QED
      BY <3>1, <3>2
  <2> HIDE DEF w
  <2>3. IsFar(g, scan[i], i) /\ scan[i] \in S
    BY <2>1, <2>2, <1>0, ScannedGoesOn DEF S
  <2> QED
    BY <2>1, <2>3
<1> HIDE DEF T
<1>10. \A i \in 0 .. c : i \in T
  BY <1>0, <1>8, <1>9, UpTo
<1>11. c \in 0 .. c
  BY <1>0
<1>12. last \in S /\ IsFar(g, last, c)
  BY <1>10, <1>11 DEF T, c
<1>13. PICK p : WindowAt(g, last, p)
  BY <1>12 DEF S, WindowsOf
<1>14. Len(g) \in Nat
  BY GroupsAreSequences
<1>15. CASE last.right[1] > Len(g)
  <2>1. last.right[1] = Len(g) + 1
    <3>1. ~StandsAt(g, last.right, p + ToProcess)
      BY <1>15, <1>14 DEF StandsAt
    <3> QED
      BY <3>1, <1>13 DEF WindowAt
  <2> QED
    BY <2>1, <1>12 DEF S
<1>16. CASE \E q : WindowAt(g, last, q) /\ q >= c
  <2>1. PICK q : WindowAt(g, last, q) /\ q >= c
    BY <1>16
  <2>2. q \in Nat /\ q + ToProcess <= c
    BY <2>1 DEF WindowAt, c
  <2> QED
    BY <2>1, <2>2, <1>0, WindowConstants
<1> QED
  BY <1>12, <1>15, <1>16 DEF IsFar, S

\* findSignificantGroups() hands out a window with enough good groups in its
\* middle, or stops at the end of the groups.
LEMMA FindsWindow ==
    ASSUME NEW g \in Groups, NEW r,
           r = FindSignificantGroups(g, ToProcess, SubWindow, MinUnique)
    PROVE  /\ r.found \in BOOLEAN
           /\ r.found => /\ r.window \in WindowsOf(g)
                         /\ Significant(g, r.window, MinUnique)
           /\ ~r.found => /\ r.window.left[1] \in 1 .. Len(g) + 1
                          /\ r.window.right[1] = Len(g) + 1
<1> DEFINE first == FirstWindow(g, ToProcess, SubWindow)
           scan == CHOOSE f : f = [n \in 0 .. CountOf(g) |->
                      IF n = 0 THEN first
                      ELSE [w \in Windows |-> Scanned(g, w, MinUnique)][f[n - 1]]]
           last == scan[CountOf(g)]
<1>1. r = IF first.right[1] > Len(g) THEN [found |-> FALSE, window |-> first]
          ELSE [found |-> Significant(g, last, MinUnique), window |-> last]
  BY DEF FindSignificantGroups
<1>2. Len(g) \in Nat
  BY GroupsAreSequences
<1>3. first.left = <<1, 0>> /\ first.right = Trail(g, 1, ToProcess)
  BY DEF FirstWindow
<1>4. PICK j : j \in 1 .. Len(g) + 1 /\ first.right[1] = j
  <2>1. Ends(g)[1 - 1] + ToProcess = ToProcess /\ ToProcess \in Nat
    <3>1. Ends(g)[0] = 0 /\ ToProcess \in Nat
      BY EndsCount, WindowSizes DEF Counts
    <3> QED
      BY <3>1
  <2>2. 1 \in 1 .. Len(g) + 1
    BY <1>2
  <2>3. PICK j : /\ TrailsTo(g, 1, ToProcess, j)
                 /\ Trail(g, 1, ToProcess) = <<j, ToProcess - Ends(g)[j - 1]>>
    BY <2>1, <2>2, TrailStops
  <2> HIDE DEF first
  <2>4. first.right[1] = j
    BY <2>3, <1>3
  <2> QED
    BY <2>3, <2>4 DEF TrailsTo
<1> HIDE DEF first
<1>5. CASE first.right[1] > Len(g)
  <2>1. r.found = FALSE /\ r.window = first
    BY <1>1, <1>5
  <2>2. first.left[1] = 1 /\ first.right[1] = Len(g) + 1
    BY <1>2, <1>3, <1>4, <1>5
  <2>3. ~r.found /\ r.found \in BOOLEAN
    BY <2>1
  <2>4. r.window.left[1] = 1 /\ r.window.right[1] = Len(g) + 1
    BY <2>1, <2>2
  <2>5. 1 \in 1 .. Len(g) + 1
    BY <1>2
  <2> QED
    BY <2>3, <2>4, <2>5
<1>6. CASE ~(first.right[1] > Len(g))
  <2>1. WindowAt(g, first, 0)
    <3>1. first.right[1] <= Len(g)
      BY <1>2, <1>4, <1>6
    <3> QED
      BY <3>1, FirstWindowStands DEF first
  <2>2. r.found = Significant(g, last, MinUnique) /\ r.window = last
    BY <1>1, <1>6
  <2>3. /\ last \in WindowsOf(g)
        /\ last.right[1] = Len(g) + 1 \/ Significant(g, last, MinUnique)
    <3> HIDE DEF last, scan
    <3>1. scan = CHOOSE f : f = [n \in 0 .. CountOf(g) |->
                      IF n = 0 THEN first
                      ELSE [w \in Windows |-> Scanned(g, w, MinUnique)][f[n - 1]]]
      BY DEF scan
    <3>2. last = scan[CountOf(g)]
      BY DEF last
    <3> QED
      BY <3>1, <3>2, <2>1, ScanEnds
  <2> HIDE DEF last
  <2>4. Significant(g, last, MinUnique) \in BOOLEAN
    BY DEF Significant, EnoughUnique
  <2>5. last.left[1] \in 1 .. Len(g) + 1
    <3>1. PICK p : WindowAt(g, last, p)
      BY <2>3 DEF WindowsOf
    <3>2. last.left[1] \in 1 .. Len(g)
      BY <3>1 DEF WindowAt, StandsAt
    <3> QED
      BY <3>2, <1>2
  <2>6. CASE Significant(g, last, MinUnique)
    <3>1. r.found = TRUE
      BY <2>2, <2>4, <2>6
    <3> QED
      BY <3>1, <2>2, <2>3, <2>6
  <2>7. CASE ~Significant(g, last, MinUnique)
    <3>1. r.found = FALSE
      BY <2>2, <2>4, <2>7
    <3> QED
      BY <3>1, <2>2, <2>3, <2>5, <2>7
  <2> QED
    BY <2>6, <2>7
<1> QED
  BY <1>5, <1>6

-------------------------------------------------------------------------------
(* What is cut out of the groups.                                               *)

LEMMA CutOfGroups ==
    ASSUME NEW g \in Groups, NEW a \in 1 .. Len(g) + 1, NEW b \in a - 1 .. Len(g)
    PROVE  /\ SubSeq(g, a, b) \in Groups /\ Len(SubSeq(g, a, b)) = (b - a) + 1
           /\ \A i \in 1 .. (b - a) + 1 : SubSeq(g, a, b)[i] = g[(a + i) - 1]
<1> DEFINE n == Len(g)
<1>1. /\ n \in Nat /\ a \in Int /\ b \in Int /\ a \in 1 .. n + 1 /\ b \in a - 1 .. n
      /\ \A i \in 1 .. n : g[i] \in Group
  <2>1. n \in Nat /\ \A i \in 1 .. n : g[i] \in Group
    BY GroupsAreSequences
  <2> HIDE DEF n
  <2> QED
    BY <2>1 DEF n
<1>2. g \in Seq(Group)
  BY GroupsAreSequences
<1> HIDE DEF n
<1>3. \A i \in a .. b : g[i] \in Group
  BY <1>1
<1>4. /\ SubSeq(g, a, b) \in Seq(Group)
      /\ Len(SubSeq(g, a, b)) = IF a <= b THEN b - a + 1 ELSE 0
      /\ \A i \in 1 .. b - a + 1 : SubSeq(g, a, b)[i] = g[a + i - 1]
  BY <1>1, <1>2, <1>3, SubSeqProperties
<1>5. /\ (IF a <= b THEN b - a + 1 ELSE 0) = (b - a) + 1
      /\ 1 .. b - a + 1 = 1 .. (b - a) + 1
      /\ \A i \in 1 .. (b - a) + 1 : a + i - 1 = (a + i) - 1
  BY <1>1
<1> QED
  BY <1>4, <1>5 DEF Groups

\* h is the groups a .. b of g from key p + 1 to key q.
IsCutOut(g, h, a, b, p, q) ==
    /\ a \in 1 .. Len(g) /\ b \in a .. Len(g) /\ p \in Nat /\ q \in Nat /\ p <= q
    /\ Ends(g)[a - 1] <= p /\ p <= Ends(g)[a]
    /\ Ends(g)[b - 1] < q /\ q <= Ends(g)[b]
    /\ h \in Groups /\ Len(h) = (b - a) + 1
    /\ \A i \in a .. b :
         /\ h[(i - a) + 1].key = g[i].key
         /\ h[(i - a) + 1].count = (IF i = b THEN q ELSE Ends(g)[i])
                                     - (IF i = a THEN p ELSE Ends(g)[i - 1])

\* The groups that are cut out have the keys between p and q,
LEMMA CutOutEnds ==
    ASSUME NEW g \in Groups, NEW h, NEW a, NEW b, NEW p, NEW q, IsCutOut(g, h, a, b, p, q)
    PROVE  /\ CountOf(h) = q - p
           /\ \A i \in a .. b :
                /\ Ends(h)[i - a] = (IF i = a THEN p ELSE Ends(g)[i - 1]) - p
                /\ Ends(h)[(i - a) + 1] = (IF i = b THEN q ELSE Ends(g)[i]) - p
<1> DEFINE n == Len(g)
           m == Len(h)
           e == Ends(g)
           Mark(i) == IF i = a - 1 THEN p ELSE IF i = b THEN q ELSE e[i]
           d == [k \in 0 .. m |-> Mark((k + a) - 1) - p]
<1>1. n \in Nat /\ \A k \in 0 .. n : e[k] \in Nat
  BY GroupsAreSequences, EndsCount DEF Counts
<1>2. \A k \in 0 .. n : \A j \in k .. n : e[k] <= e[j]
  BY EndsGrow
<1>3. /\ a \in 1 .. n /\ b \in a .. n /\ p \in Nat /\ q \in Nat /\ p <= q
      /\ e[a - 1] <= p /\ p <= e[a] /\ e[b - 1] < q /\ q <= e[b]
      /\ h \in Groups /\ m = (b - a) + 1
      /\ \A i \in a .. b :
           /\ h[(i - a) + 1].key = g[i].key
           /\ h[(i - a) + 1].count = (IF i = b THEN q ELSE e[i])
                                       - (IF i = a THEN p ELSE e[i - 1])
  BY DEF IsCutOut
<1> HIDE DEF n, m, e
<1>4. ASSUME NEW i \in a - 1 .. b PROVE Mark(i) - p \in Nat /\ Mark(i) \in Nat
  <2>1. CASE i = a - 1 \/ i = b
    BY <2>1, <1>3
  <2>2. CASE i # a - 1 /\ i # b
    <3>1. a \in 0 .. n /\ i \in a .. n /\ i \in 0 .. n
      BY <2>2, <1>1, <1>3
    <3>2. e[a] <= e[i] /\ e[i] \in Nat /\ e[a] \in Nat
      BY <3>1, <1>1, <1>2
    <3> QED
      BY <3>2, <2>2, <1>3
  <2> QED
    BY <2>1, <2>2
<1>5. m \in Nat /\ \A k \in 0 .. m : (k + a) - 1 \in a - 1 .. b
  BY <1>1, <1>3
<1>6. ASSUME NEW i \in a .. b
      PROVE  /\ i \in a - 1 .. b /\ i - 1 \in a - 1 .. b
             /\ Mark(i) = (IF i = b THEN q ELSE e[i])
             /\ Mark(i - 1) = (IF i = a THEN p ELSE e[i - 1])
  BY <1>1, <1>3
<1> HIDE DEF Mark
<1>7. /\ d \in [0 .. m -> Nat]
      /\ \A i \in a - 1 .. b : (i - a) + 1 \in 0 .. m /\ d[(i - a) + 1] = Mark(i) - p
  <2>1. d \in [0 .. m -> Nat]
    BY <1>4, <1>5
  <2>2. ASSUME NEW i \in a - 1 .. b
        PROVE  (i - a) + 1 \in 0 .. m /\ d[(i - a) + 1] = Mark(i) - p
    <3> DEFINE k == (i - a) + 1
    <3>1. k \in 0 .. m /\ (k + a) - 1 = i
      BY <1>1, <1>3
    <3> HIDE DEF k
    <3>2. d[k] = Mark((k + a) - 1) - p
      BY <3>1
    <3> QED
      BY <3>1, <3>2 DEF k
  <2> QED
    BY <2>1, <2>2
<1> HIDE DEF d
<1>8. d[0] = 0
  <2>1. a - 1 \in a - 1 .. b /\ ((a - 1) - a) + 1 = 0
    BY <1>3, <1>1
  <2>2. Mark(a - 1) = p
    BY DEF Mark
  <2>3. d[((a - 1) - a) + 1] = Mark(a - 1) - p
    BY <2>1, <1>7
  <2> QED
    BY <2>1, <2>2, <2>3, <1>3
<1>9. ASSUME NEW k \in 1 .. m PROVE d[k] = d[k - 1] + h[k].count
  <2> DEFINE i == (k + a) - 1
  <2>1. i \in a .. b /\ (i - a) + 1 = k /\ ((i - 1) - a) + 1 = k - 1
    BY <1>1, <1>3, <1>5
  <2> HIDE DEF i
  <2>2. h[k].count = Mark(i) - Mark(i - 1)
    <3>1. h[(i - a) + 1].count = (IF i = b THEN q ELSE e[i])
                                          - (IF i = a THEN p ELSE e[i - 1])
      BY <2>1, <1>3
    <3> QED
      BY <3>1, <2>1, <1>6
  <2>3. d[k] = Mark(i) - p /\ d[k - 1] = Mark(i - 1) - p
    BY <2>1, <1>6, <1>7
  <2>4. Mark(i) \in Nat /\ Mark(i - 1) \in Nat
    BY <2>1, <1>4, <1>6
  <2> QED
    BY <2>2, <2>3, <2>4, <1>3
<1>10. d = Ends(h)
  <2>1. Counts(d, h)
    BY <1>7, <1>8, <1>9 DEF Counts, m
  <2> QED
    BY <2>1, <1>3, CountsAreEnds
<1>11. CountOf(h) = q - p
  <2>1. b \in a - 1 .. b /\ Mark(b) = q /\ (b - a) + 1 = m /\ b \in a .. b
    <3>1. b \in a - 1 .. b /\ b \in a .. b
      BY <1>1, <1>3
    <3> QED
      BY <3>1, <1>3, <1>6
  <2>2. d[(b - a) + 1] = Mark(b) - p
    BY <2>1, <1>7
  <2> QED
    BY <2>1, <2>2, <1>10 DEF CountOf, m
<1>12. ASSUME NEW i \in a .. b
       PROVE  /\ d[i - a] = (IF i = a THEN p ELSE e[i - 1]) - p
              /\ d[(i - a) + 1] = (IF i = b THEN q ELSE e[i]) - p
  <2>1. ((i - 1) - a) + 1 = i - a
    BY <1>1, <1>3
  <2>2. d[((i - 1) - a) + 1] = Mark(i - 1) - p /\ d[(i - a) + 1] = Mark(i) - p
    BY <1>6, <1>7
  <2> QED
    BY <2>1, <2>2, <1>6
<1> QED
  BY <1>10, <1>11, <1>12 DEF e

\* in their order,
LEMMA CutOutKeys ==
    ASSUME NEW g \in Groups, NEW h, NEW a, NEW b, NEW p, NEW q, IsCutOut(g, h, a, b, p, q)
    PROVE  /\ q <= CountOf(g)
           /\ Groups2Keys(h) \in Seq(Nat) /\ Len(Groups2Keys(h)) = q - p
           /\ \A x \in 1 .. q - p : Groups2Keys(h)[x] = Groups2Keys(g)[p + x]
<1> DEFINE n == Len(g)
           e == Ends(g)
           d == Ends(h)
           ks == Groups2Keys(g)
           hs == Groups2Keys(h)
<1>1. n \in Nat /\ \A k \in 0 .. n : e[k] \in Nat
  BY GroupsAreSequences, EndsCount DEF Counts
<1>2. \A k \in 0 .. n : \A j \in k .. n : e[k] <= e[j]
  BY EndsGrow
<1>3. /\ a \in 1 .. n /\ b \in a .. n /\ p \in Nat /\ q \in Nat /\ p <= q
      /\ e[a - 1] <= p /\ p <= e[a] /\ e[b - 1] < q /\ q <= e[b]
      /\ h \in Groups /\ Len(h) = (b - a) + 1
      /\ \A i \in a .. b : h[(i - a) + 1].key = g[i].key
  BY DEF IsCutOut
<1>4. /\ CountOf(h) = q - p
      /\ \A i \in a .. b : /\ d[i - a] = (IF i = a THEN p ELSE e[i - 1]) - p
                           /\ d[(i - a) + 1] = (IF i = b THEN q ELSE e[i]) - p
  BY CutOutEnds
<1>5. /\ ks \in Seq(Nat)
      /\ \A i \in 1 .. n : \A x \in e[i - 1] + 1 .. e[i] : ks[x] = g[i].key
  BY KeysSpan DEF Spans
<1>6. /\ hs \in Seq(Nat) /\ Len(hs) = q - p
      /\ \A i \in 1 .. Len(h) : \A x \in d[i - 1] + 1 .. d[i] : hs[x] = h[i].key
  BY <1>3, <1>4, KeysSpan DEF Spans
<1>7. CountOf(g) = e[n]
  BY DEF CountOf
<1>8. \A x \in 1 .. CountOf(g) : \E i \in 1 .. n : e[i - 1] < x /\ x <= e[i]
  BY KeyIsInGroup DEF InGroup
<1> HIDE DEF n, e, d, ks, hs
<1>9. q <= e[n] /\ e[n] \in Nat
  <2>1. b \in 0 .. n /\ n \in b .. n /\ n \in 0 .. n
    BY <1>1, <1>3
  <2>2. e[b] <= e[n] /\ e[b] \in Nat /\ e[n] \in Nat
    BY <2>1, <1>1, <1>2
  <2> QED
    BY <2>2, <1>3
<1>10. ASSUME NEW x \in 1 .. q - p PROVE hs[x] = ks[p + x]
  <2>1. p + x \in 1 .. CountOf(g) /\ p + x \in Nat /\ p < p + x /\ p + x <= q
    BY <1>3, <1>7, <1>9
  <2>2. PICK i \in 1 .. n : e[i - 1] < p + x /\ p + x <= e[i]
    BY <2>1, <1>8
  <2>3. i \in 0 .. n /\ i - 1 \in 0 .. n /\ e[i] \in Nat /\ e[i - 1] \in Nat
    <3>1. i \in 0 .. n /\ i - 1 \in 0 .. n
      BY <1>1
    <3> QED
      BY <3>1, <1>1
  <2>4. a <= i
    <3> SUFFICES ASSUME i < a PROVE FALSE
      BY <1>3
    <3>1. a - 1 \in i .. n /\ a - 1 \in 0 .. n
      BY <2>3, <1>1, <1>3
    <3>2. e[i] <= e[a - 1] /\ e[a - 1] \in Nat
      BY <3>1, <2>3, <1>1, <1>2
    <3> QED
      BY <3>2, <2>1, <2>2, <2>3, <1>3
  <2>5. i <= b
    <3> SUFFICES ASSUME b < i PROVE FALSE
      BY <1>3
    <3>1. b \in 0 .. n /\ i - 1 \in b .. n
      BY <2>3, <1>1, <1>3
    <3>2. e[b] <= e[i - 1] /\ e[b] \in Nat
      BY <3>1, <1>1, <1>2
    <3> QED
      BY <3>2, <2>1, <2>2, <2>3, <1>3
  <2>6. i \in a .. b /\ (i - a) + 1 \in 1 .. Len(h) /\ ((i - a) + 1) - 1 = i - a
    BY <2>4, <2>5, <1>1, <1>3
  <2>7. d[i - a] < x /\ x <= d[(i - a) + 1]
    <3>1. d[i - a] < x
      <4>1. CASE i = a
        BY <4>1, <2>6, <1>3, <1>4
      <4>2. CASE i # a
        <5>1. d[i - a] = e[i - 1] - p
          BY <4>2, <2>6, <1>4
        <5> QED
          BY <5>1, <2>1, <2>2, <2>3, <1>3
      <4> QED
        BY <4>1, <4>2
    <3>2. x <= d[(i - a) + 1]
      <4>1. CASE i = b
        BY <4>1, <2>6, <1>3, <1>4
      <4>2. CASE i # b
        <5>1. d[(i - a) + 1] = e[i] - p
          BY <4>2, <2>6, <1>4
        <5> QED
          BY <5>1, <2>1, <2>2, <2>3, <1>3
      <4> QED
        BY <4>1, <4>2
    <3> QED
      BY <3>1, <3>2
  <2>8. x \in d[i - a] + 1 .. d[(i - a) + 1]
    <3>1. d[i - a] \in Int /\ d[(i - a) + 1] \in Int
      <4>1. (IF i = a THEN p ELSE e[i - 1]) - p \in Int
        BY <2>3, <1>3
      <4>2. (IF i = b THEN q ELSE e[i]) - p \in Int
        BY <2>3, <1>3
      <4> QED
        BY <4>1, <4>2, <2>6, <1>4
    <3> QED
      BY <3>1, <2>7
  <2>9. hs[x] = g[i].key
    <3> DEFINE k == (i - a) + 1
    <3>1. k \in 1 .. Len(h) /\ x \in d[k - 1] + 1 .. d[k] /\ h[k].key = g[i].key
      BY <2>6, <2>8, <1>3
    <3> HIDE DEF k
    <3>2. hs[x] = h[k].key
      BY <3>1, <1>6
    <3> QED
      BY <3>1, <3>2
  <2>10. ks[p + x] = g[i].key
    <3>1. p + x \in e[i - 1] + 1 .. e[i]
      BY <2>1, <2>2, <2>3
    <3> QED
      BY <3>1, <1>5
  <2> QED
    BY <2>9, <2>10
<1> QED
  BY <1>6, <1>7, <1>9, <1>10 DEF hs, ks

\* and are runs.
LEMMA CutOutRuns ==
    ASSUME NEW g \in Groups, NEW h, NEW a, NEW b, NEW p, NEW q, IsCutOut(g, h, a, b, p, q),
           Runs(g)
    PROVE  Runs(h)
<1> DEFINE n == Len(g)
           e == Ends(g)
           m == Len(h)
<1>1. /\ n \in Nat /\ \A k \in 0 .. n : e[k] \in Nat
      /\ \A k \in 1 .. n : e[k] = e[k - 1] + g[k].count /\ g[k].count \in Nat
  BY GroupsAreSequences, EndsCount DEF Counts
<1>2. /\ a \in 1 .. n /\ b \in a .. n /\ p \in Nat /\ q \in Nat
      /\ e[b - 1] < q /\ q <= e[b] /\ m = (b - a) + 1
      /\ \A i \in a .. b :
           /\ h[(i - a) + 1].key = g[i].key
           /\ h[(i - a) + 1].count = (IF i = b THEN q ELSE e[i])
                                       - (IF i = a THEN p ELSE e[i - 1])
  BY DEF IsCutOut
<1>3. /\ \A i \in 1 .. n - 1 : g[i].key # g[i + 1].key
      /\ \A i \in 2 .. n : g[i].count > 0
  BY DEF Runs
<1> HIDE DEF n, e, m
<1>4. ASSUME NEW k \in 1 .. m - 1 PROVE h[k].key # h[k + 1].key
  <2> DEFINE i == (k + a) - 1
  <2>1. /\ i \in a .. b /\ i + 1 \in a .. b /\ i \in 1 .. n - 1
        /\ (i - a) + 1 = k /\ ((i + 1) - a) + 1 = k + 1
    BY <1>1, <1>2
  <2> HIDE DEF i
  <2>2. h[(i - a) + 1].key = g[i].key /\ h[((i + 1) - a) + 1].key = g[i + 1].key
    BY <2>1, <1>2
  <2> QED
    BY <2>1, <2>2, <1>3
<1>5. ASSUME NEW k \in 2 .. m PROVE h[k].count > 0
  <2> DEFINE i == (k + a) - 1
  <2>1. i \in a .. b /\ (i - a) + 1 = k /\ i # a /\ i \in 2 .. n /\ i \in 1 .. n
    BY <1>1, <1>2
  <2>0. i - 1 \in 0 .. n /\ i \in 0 .. n
    BY <2>1, <1>1
  <2> HIDE DEF i
  <2>2. h[(i - a) + 1].count = (IF i = b THEN q ELSE e[i]) - e[i - 1]
    BY <2>1, <1>2
  <2>3. CASE i = b
    <3>1. h[k].count = q - e[b - 1] /\ e[b - 1] \in Nat
      BY <2>0, <2>1, <2>2, <2>3, <1>1
    <3> QED
      BY <3>1, <1>2
  <2>4. CASE i # b
    <3>1. h[k].count = e[i] - e[i - 1]
      BY <2>1, <2>2, <2>4
    <3>2. e[i] = e[i - 1] + g[i].count /\ e[i - 1] \in Nat /\ g[i].count \in Nat
      BY <2>0, <2>1, <1>1
    <3>3. g[i].count > 0
      BY <2>1, <1>3
    <3> QED
      BY <3>1, <3>2, <3>3
  <2> QED
    BY <2>3, <2>4
<1> QED
  BY <1>4, <1>5 DEF Runs, m

\* The groups from a on, which are left when there was no window.
LEMMA WhatIsLeft ==
    ASSUME NEW g \in Groups, Runs(g), NEW a \in 1 .. Len(g) + 1, NEW h,
           h = SubSeq(g, a, Len(g))
    PROVE  /\ h \in Groups /\ Runs(h) /\ CountOf(h) <= CountOf(g)
           /\ \A x \in 1 .. CountOf(h) :
                Groups2Keys(h)[x] = Groups2Keys(g)[(CountOf(g) - CountOf(h)) + x]
<1> DEFINE n == Len(g)
           e == Ends(g)
<1>1. /\ n \in Nat /\ e[0] = 0 /\ \A k \in 0 .. n : e[k] \in Nat
      /\ \A k \in 1 .. n : e[k] = e[k - 1] + g[k].count /\ g[k].count \in Nat
      /\ \A k \in 1 .. n : g[k].key \in Nat
  BY GroupsAreSequences, EndsCount DEF Counts
<1>2. \A k \in 0 .. n : \A j \in k .. n : e[k] <= e[j]
  BY EndsGrow
<1>3. /\ h \in Groups /\ Len(h) = (n - a) + 1
      /\ \A i \in 1 .. (n - a) + 1 : h[i] = g[(a + i) - 1]
  <2>1. Len(g) \in a - 1 .. Len(g)
    BY GroupsAreSequences
  <2> QED
    BY <2>1, CutOfGroups
<1>4. CountOf(g) = e[n]
  BY DEF CountOf
<1>5. \A i \in 2 .. n : g[i].count > 0
  BY DEF Runs
<1>6. g \in Seq(Group) /\ h \in Seq(Group)
  BY <1>3 DEF Groups
<1>0. a \in 1 .. n + 1
  OBVIOUS
<1> HIDE DEF n, e
<1>7. CASE a = 1
  <2>1. Len(h) = Len(g) /\ \A i \in 1 .. n : h[i] = g[i]
    <3>1. (n - a) + 1 = n /\ \A i \in 1 .. n : (a + i) - 1 = i
      BY <1>1, <1>7
    <3> QED
      BY <3>1, <1>3 DEF n
  <2>2. h = g
    BY <2>1, <1>6, SeqEqual DEF n
  <2>3. CountOf(g) \in Nat
    BY CountIsNat
  <2>4. CountOf(g) <= CountOf(g) /\ \A x \in 1 .. CountOf(g) : (CountOf(g) - CountOf(g)) + x = x
    BY <2>3
  <2> QED
    BY <2>2, <2>4, <1>3
<1>8. CASE a = n + 1
  <2>1. Len(h) = 0
    BY <1>1, <1>3, <1>8
  <2>2. CountOf(h) = 0
    BY <2>1, <1>3, EndsCount DEF Counts, CountOf
  <2>3. CountOf(g) \in Nat
    BY CountIsNat
  <2>4. Runs(h)
    BY <2>1 DEF Runs
  <2>5. 0 <= CountOf(g) /\ \A x \in 1 .. 0 : FALSE
    BY <2>3
  <2> QED
    BY <2>2, <2>4, <2>5, <1>3
<1>9. CASE a # 1 /\ a # n + 1
  <2> DEFINE p == e[a - 1]
             q == e[n]
  <2>1. /\ a \in 1 .. n /\ n \in a .. n /\ a - 1 \in 0 .. n /\ a \in a - 1 .. n
        /\ n \in a - 1 .. n /\ n \in 2 .. n /\ n \in 1 .. n /\ n - 1 \in 0 .. n
        /\ n \in 0 .. n
    BY <1>0, <1>1, <1>9
  <2>2. /\ p \in Nat /\ q \in Nat /\ p <= q /\ p <= e[a] /\ e[n - 1] < q /\ q <= e[n]
    <3>1. e[n] = e[n - 1] + g[n].count /\ g[n].count > 0 /\ g[n].count \in Nat
      BY <2>1, <1>1, <1>5
    <3>2. e[n - 1] \in Nat /\ e[a - 1] \in Nat /\ e[n] \in Nat
      BY <2>1, <1>1
    <3>3. e[a - 1] <= e[n] /\ e[a - 1] <= e[a]
      BY <2>1, <1>2
    <3> QED
      BY <3>1, <3>2, <3>3
  <2>3. ASSUME NEW i \in a .. n
        PROVE  /\ h[(i - a) + 1].key = g[i].key
               /\ h[(i - a) + 1].count = (IF i = n THEN q ELSE e[i])
                                          - (IF i = a THEN p ELSE e[i - 1])
    <3> DEFINE k == (i - a) + 1
    <3>1. k \in 1 .. (n - a) + 1 /\ (a + k) - 1 = i /\ i \in 1 .. n /\ i - 1 \in 0 .. n
      BY <2>1, <1>1
    <3> HIDE DEF k
    <3>2. h[k] = g[i]
      BY <3>1, <1>3
    <3>3. e[i] = e[i - 1] + g[i].count /\ e[i - 1] \in Nat /\ g[i].count \in Nat
      BY <3>1, <1>1
    <3>4. /\ (IF i = n THEN q ELSE e[i]) = e[i]
          /\ (IF i = a THEN p ELSE e[i - 1]) = e[i - 1]
      OBVIOUS
    <3>5. e[i] - e[i - 1] = g[i].count
      BY <3>3
    <3> QED
      BY <3>2, <3>4, <3>5 DEF k
  <2>4. e[a - 1] <= p
    BY <2>2
  <2> HIDE DEF p, q
  <2>5. IsCutOut(g, h, a, n, p, q)
    BY <2>1, <2>2, <2>3, <2>4, <1>3 DEF IsCutOut, n, e
  <2>6. /\ q <= CountOf(g) /\ Len(Groups2Keys(h)) = q - p
        /\ \A x \in 1 .. q - p : Groups2Keys(h)[x] = Groups2Keys(g)[p + x]
    BY <2>5, CutOutKeys
  <2>7. CountOf(h) = q - p
    BY <2>5, CutOutEnds
  <2>8. Runs(h)
    BY <2>5, CutOutRuns
  <2>9. CountOf(g) = q
    BY <1>4 DEF q
  <2>10. q - p <= q /\ q - (q - p) = p
    BY <2>2
  <2> QED
    BY <2>6, <2>7, <2>8, <2>9, <2>10, <1>3
<1> QED
  BY <1>7, <1>8, <1>9

-------------------------------------------------------------------------------
(* What is snipped to the window.                                               *)

\* A middle with enough different keys is not empty,
LEMMA SignificantIsNotEmpty ==
    ASSUME NEW g \in Groups, NEW w, NEW p, WindowAt(g, w, p),
           Significant(g, w, MinUnique)
    PROVE  w.subLeft[1] < w.subRight[1]
<1> DEFINE a == w.subLeft[1]
           b == w.subRight[1]
           s == SubSeq(g, a, b - 1)
           KeysTo(i) == {s[j].key : j \in 1 .. i}
<1>1. a \in 1 .. Len(g) /\ b \in 1 .. Len(g) /\ Len(g) \in Nat
  BY GroupsAreSequences DEF WindowAt, StandsAt
<1>2. PICK i \in 0 .. Len(s) : Cardinality(KeysTo(i)) >= MinUnique
  BY DEF Significant, EnoughUnique
<1> HIDE DEF KeysTo, a, b
<1> SUFFICES ASSUME b <= a PROVE FALSE
  BY <1>1 DEF a, b
<1>3. Len(s) = 0
  <2>1. a \in Int /\ b - 1 \in Int /\ b - 1 < a
    BY <1>1
  <2>2. s = <<>>
    BY <2>1, SubSeqEmpty
  <2> HIDE DEF s
  <2> QED
    BY <2>2
<1> HIDE DEF s
<1>4. i = 0
  BY <1>2, <1>3
<1>5. KeysTo(i) = {}
  BY <1>4 DEF KeysTo
<1>6. Cardinality(KeysTo(i)) = 0
  BY <1>5, FS_EmptySet
<1> QED
  BY <1>2, <1>6, WindowSizes

\* so the window ends in a later group than it begins in.
LEMMA WindowOrder ==
    ASSUME NEW g \in Groups, NEW w, NEW p, WindowAt(g, w, p),
           Significant(g, w, MinUnique)
    PROVE  w.left[1] < w.right[1]
<1>1. /\ StandsAt(g, w.left, p) /\ StandsAt(g, w.subLeft, p + Lo)
      /\ StandsAt(g, w.subRight, p + Hi) /\ p \in Nat
      /\ \/ StandsAt(g, w.right, p + ToProcess)
         \/ w.right[1] = Len(g) + 1
  BY DEF WindowAt
<1>2. /\ Lo \in Nat /\ Hi \in Nat /\ ToProcess \in Nat /\ Hi <= ToProcess
      /\ p + Lo \in Nat /\ p + Hi \in Nat /\ p + ToProcess \in Nat
      /\ p <= p + Lo /\ p + Hi <= p + ToProcess
  BY <1>1, WindowConstants
<1>3. w.left[1] <= w.subLeft[1]
  BY <1>1, <1>2, IteratorsInOrder
<1>4. w.subLeft[1] < w.subRight[1]
  BY SignificantIsNotEmpty
<1>5. /\ w.left[1] \in 1 .. Len(g) /\ w.subLeft[1] \in 1 .. Len(g)
      /\ w.subRight[1] \in 1 .. Len(g) /\ Len(g) \in Nat
  BY <1>1, GroupsAreSequences DEF StandsAt
<1>6. CASE StandsAt(g, w.right, p + ToProcess)
  <2>1. w.subRight[1] <= w.right[1]
    BY <1>1, <1>2, <1>6, IteratorsInOrder
  <2>2. w.right[1] \in 1 .. Len(g)
    BY <1>6 DEF StandsAt
  <2> QED
    BY <2>1, <2>2, <1>3, <1>4, <1>5
<1>7. CASE w.right[1] = Len(g) + 1
  BY <1>5, <1>7
<1> QED
  BY <1>1, <1>6, <1>7

\* The groups with another count in group i.
Recount(g, i, count) == [g EXCEPT ![i] = [key |-> g[i].key, count |-> count]]

LEMMA Recounted ==
    ASSUME NEW g \in Groups, NEW i \in 1 .. Len(g), NEW count \in Nat
    PROVE  /\ Recount(g, i, count) \in Groups /\ Len(Recount(g, i, count)) = Len(g)
           /\ Recount(g, i, count)[i].key = g[i].key
           /\ Recount(g, i, count)[i].count = count
           /\ \A j \in 1 .. Len(g) : j # i => Recount(g, i, count)[j] = g[j]
<1> DEFINE one == [key |-> g[i].key, count |-> count]
           c == Recount(g, i, count)
<1>1. g \in Seq(Group) /\ g[i].key \in Nat
  BY GroupsAreSequences
<1>2. one \in Group
  BY <1>1 DEF Group
<1>3. one.key = g[i].key /\ one.count = count
  OBVIOUS
<1>4. c = [g EXCEPT ![i] = one]
  BY DEF Recount
<1> HIDE DEF one, c
<1>5. c \in Seq(Group) /\ Len(c) = Len(g) /\ c[i] = one
  BY <1>1, <1>2, <1>4
<1>6. \A j \in 1 .. Len(g) : j # i => c[j] = g[j]
  BY <1>1, <1>4
<1>7. /\ c \in Groups /\ Len(c) = Len(g) /\ c[i].key = g[i].key /\ c[i].count = count
      /\ \A j \in 1 .. Len(g) : j # i => c[j] = g[j]
  BY <1>3, <1>5, <1>6 DEF Groups
<1> QED
  BY <1>7 DEF c

LEMMA PlacesInCut ==
    ASSUME NEW n \in Nat, NEW a \in 1 .. n, NEW b \in a .. n, NEW i \in a .. b
    PROVE  /\ (i - a) + 1 \in 1 .. (b - a) + 1 /\ (a + ((i - a) + 1)) - 1 = i
           /\ i \in 1 .. n /\ i \in 0 .. n /\ i - 1 \in 0 .. n
OBVIOUS

LEMMA PlacesInCutAll ==
    ASSUME NEW n \in Nat, NEW a \in 1 .. n, NEW b \in a .. n
    PROVE  \A i \in a .. b :
             /\ (i - a) + 1 \in 1 .. (b - a) + 1 /\ (a + ((i - a) + 1)) - 1 = i
             /\ i \in 1 .. n /\ i \in 0 .. n /\ i - 1 \in 0 .. n
<1> TAKE i \in a .. b
<1> QED
  BY PlacesInCut

\* The last group that a window keeps of the groups, whole or cut.
LastKept(g, w) == IF w.right[1] <= Len(g) THEN w.right[1] ELSE Len(g)

\* process() keeps the ToProcess keys of the window.
LEMMA SnippedIsCutOut ==
    ASSUME NEW g \in Groups, Runs(g), NEW w, NEW p, WindowAt(g, w, p),
           w.left[1] < w.right[1],
           NEW b, b = LastKept(g, w)
    PROVE  IsCutOut(g, Snipped(g, w), w.left[1], b, p, p + ToProcess)
<1> DEFINE n == Len(g)
           e == Ends(g)
           a == w.left[1]
           r == w.right[1]
           q == p + ToProcess
           h == Snipped(g, w)
           count == g[a].count - w.left[2]
           cut == Recount(g, a, count)
           both == Recount(cut, b, w.right[2])
<1>1. /\ n \in Nat /\ e[0] = 0 /\ \A k \in 0 .. n : e[k] \in Nat
      /\ \A k \in 1 .. n : e[k] = e[k - 1] + g[k].count /\ g[k].count \in Nat
  BY GroupsAreSequences, EndsCount DEF Counts
<1>2. \A k \in 0 .. n : \A j \in k .. n : e[k] <= e[j]
  BY EndsGrow
<1>3. /\ p \in Nat /\ q \in Nat /\ p < q /\ p <= q
  <2>1. p \in Nat /\ ToProcess \in Nat /\ ToProcess > 0
    BY WindowConstants DEF WindowAt
  <2> QED
    BY <2>1
<1>4. /\ a \in 1 .. n /\ w.left[2] \in Nat /\ e[a - 1] + w.left[2] = p /\ p <= e[a]
  BY DEF WindowAt, StandsAt
<1>5. \/ /\ r \in 1 .. n /\ w.right[2] \in Nat /\ e[r - 1] + w.right[2] = q /\ q <= e[r]
         /\ r = 1 \/ w.right[2] > 0
      \/ r = n + 1 /\ q = e[n]
  BY DEF WindowAt, StandsAt, CountOf
<1>6. a < r /\ b = IF r <= n THEN r ELSE n
  BY DEF LastKept
<1>7. h = IF w.right[2] > 0 /\ r <= n
          THEN SubSeq(Recount(cut, r, w.right[2]), a, r)
          ELSE SubSeq(cut, a, r - 1)
  BY DEF Snipped, Recount
<1>8. \A i \in 2 .. n : g[i].count > 0
  BY DEF Runs
<1> HIDE DEF n, e, a, r, q
<1>9. count \in Nat /\ count = e[a] - p
  <2>1. a - 1 \in 0 .. n /\ a \in 0 .. n
    BY <1>1, <1>4
  <2>2. e[a - 1] \in Nat /\ e[a] = e[a - 1] + g[a].count /\ g[a].count \in Nat
    BY <2>1, <1>1, <1>4
  <2> QED
    BY <2>2, <1>3, <1>4
<1> HIDE DEF count
<1>10. /\ cut \in Groups /\ Len(cut) = n /\ cut[a].key = g[a].key /\ cut[a].count = count
       /\ \A j \in 1 .. n : j # a => cut[j] = g[j]
  BY <1>4, <1>9, Recounted DEF n
<1> HIDE DEF cut
<1>11. \A j \in 1 .. n : cut[j].key = g[j].key
  BY <1>10
<1>12. /\ b \in a .. n /\ e[b - 1] < q /\ q <= e[b]
       /\ h \in Groups /\ Len(h) = (b - a) + 1
       /\ \A i \in a .. b :
            /\ h[(i - a) + 1].key = g[i].key
            /\ i # b => h[(i - a) + 1].count = cut[i].count
       /\ h[(b - a) + 1].count = IF b = r THEN q - e[b - 1] ELSE cut[b].count
  <2>1. CASE r \in 1 .. n
    <3>1. /\ b = r /\ r <= n /\ a # b /\ b \in a .. n /\ b \in 1 .. n /\ b \in 2 .. n
          /\ w.right[2] > 0 /\ w.right[2] \in Nat /\ e[b - 1] + w.right[2] = q /\ q <= e[b]
      <4>1. r <= n /\ b = r
        BY <2>1, <1>1, <1>6
      <4>2. a # r /\ r \in a .. n /\ r \in 2 .. n /\ r # 1 /\ r # n + 1
        BY <2>1, <1>1, <1>4, <1>6
      <4>3. w.right[2] > 0 /\ w.right[2] \in Nat /\ e[r - 1] + w.right[2] = q /\ q <= e[r]
        BY <4>2, <1>5
      <4> QED
        BY <4>1, <4>2, <4>3, <2>1
    <3>2. h = SubSeq(both, a, b)
      BY <3>1, <1>7
    <3>3. /\ both \in Groups /\ Len(both) = n
          /\ both[b].key = cut[b].key /\ both[b].count = w.right[2]
          /\ \A j \in 1 .. n : j # b => both[j] = cut[j]
      <4>1. b \in 1 .. Len(cut) /\ w.right[2] \in Nat
        BY <3>1, <1>10
      <4>2. /\ both \in Groups /\ Len(both) = Len(cut)
            /\ both[b].key = cut[b].key /\ both[b].count = w.right[2]
            /\ \A j \in 1 .. Len(cut) : j # b => both[j] = cut[j]
        <5>1. cut \in Groups
          BY <1>10
        <5> QED
          BY <4>1, <5>1, Recounted
      <4> HIDE DEF both
      <4> QED
        BY <4>2, <1>10
    <3> HIDE DEF both, h
    <3>4. /\ h \in Groups /\ Len(h) = (b - a) + 1
          /\ \A i \in 1 .. (b - a) + 1 : h[i] = both[(a + i) - 1]
      <4>1. a \in 1 .. Len(both) + 1 /\ b \in a - 1 .. Len(both)
        <5>1. a \in 1 .. n + 1 /\ b \in a - 1 .. n
          BY <3>1, <1>1, <1>4
        <5> QED
          BY <5>1, <3>3
      <4> QED
        BY <4>1, <3>2, <3>3, CutOfGroups
    <3>5. e[b - 1] < q /\ w.right[2] = q - e[b - 1]
      <4>1. e[b - 1] \in Nat
        <5>1. b - 1 \in 0 .. n
          BY <3>1, <1>1
        <5> QED
          BY <5>1, <1>1
      <4> QED
        BY <4>1, <3>1, <1>3
    <3>6. \A i \in a .. b : /\ (i - a) + 1 \in 1 .. (b - a) + 1 /\ i \in 1 .. n
                            /\ (a + ((i - a) + 1)) - 1 = i
      <4>1. n \in Nat /\ a \in 1 .. n /\ b \in a .. n
        BY <3>1, <1>1, <1>4
      <4> QED
        BY <4>1, PlacesInCutAll
    <3>7. ASSUME NEW i \in a .. b PROVE h[(i - a) + 1] = both[i]
      <4> DEFINE k == (i - a) + 1
      <4>1. k \in 1 .. (b - a) + 1 /\ (a + k) - 1 = i
        BY <3>6
      <4> HIDE DEF k
      <4>2. h[k] = both[i]
        BY <4>1, <3>4
      <4> QED
        BY <4>2 DEF k
    <3>8. b \in a .. b
      BY <3>1, <1>4
    <3>9. h[(b - a) + 1].count = q - e[b - 1]
      BY <3>3, <3>5, <3>7, <3>8
    <3>10. \A i \in a .. b : /\ h[(i - a) + 1].key = g[i].key
                             /\ i # b => h[(i - a) + 1].count = cut[i].count
      BY <3>3, <3>6, <3>7, <1>11
    <3> QED
      BY <3>1, <3>4, <3>5, <3>9, <3>10
  <2>2. CASE r = n + 1 /\ q = e[n]
    <3>1. ~(r <= n) /\ r - 1 = n /\ b = n /\ b # r /\ b \in a .. n /\ b \in 1 .. n
      BY <2>2, <1>1, <1>4, <1>6
    <3>2. h = SubSeq(cut, a, b)
      BY <3>1, <1>7
    <3> HIDE DEF h
    <3>4. /\ h \in Groups /\ Len(h) = (b - a) + 1
          /\ \A i \in 1 .. (b - a) + 1 : h[i] = cut[(a + i) - 1]
      <4>1. a \in 1 .. Len(cut) + 1 /\ b \in a - 1 .. Len(cut)
        BY <3>1, <1>1, <1>4, <1>10
      <4> QED
        BY <4>1, <3>2, <1>10, CutOfGroups
    <3>5. e[b - 1] < q /\ q <= e[b]
      <4>1. e[b] = e[b - 1] + g[b].count /\ g[b].count \in Nat /\ e[b - 1] \in Nat
        <5>1. b - 1 \in 0 .. n
          BY <3>1, <1>1
        <5> QED
          BY <5>1, <3>1, <1>1
      <4>2. CASE b \in 2 .. n
        <5>1. g[b].count > 0 /\ q = e[b]
          BY <4>2, <2>2, <3>1, <1>8
        <5> QED
          <6>1. \A x, y, z \in Nat : z > 0 => x < x + z
            OBVIOUS
          <6> QED
            BY <5>1, <4>1, <1>3
      <4>3. CASE b = 1
        <5>1. b - 1 = 0
          BY <4>3
        <5>2. e[b - 1] = 0 /\ q = e[b]
          BY <5>1, <2>2, <3>1, <1>1
        <5> QED
          BY <5>2, <4>1, <1>3
      <4>4. b \in 2 .. n \/ b = 1
        BY <3>1, <1>1
      <4> QED
        BY <4>2, <4>3, <4>4
    <3>6. \A i \in a .. b : /\ (i - a) + 1 \in 1 .. (b - a) + 1 /\ i \in 1 .. n
                            /\ (a + ((i - a) + 1)) - 1 = i
      <4>1. n \in Nat /\ a \in 1 .. n /\ b \in a .. n
        BY <3>1, <1>1, <1>4
      <4> QED
        BY <4>1, PlacesInCutAll
    <3>7. ASSUME NEW i \in a .. b PROVE h[(i - a) + 1] = cut[i]
      <4> DEFINE k == (i - a) + 1
      <4>1. k \in 1 .. (b - a) + 1 /\ (a + k) - 1 = i
        BY <3>6
      <4> HIDE DEF k
      <4>2. h[k] = cut[i]
        BY <4>1, <3>4
      <4> QED
        BY <4>2 DEF k
    <3>8. b \in a .. b
      BY <3>1, <1>4
    <3>9. h[(b - a) + 1].count = cut[b].count
      BY <3>7, <3>8
    <3>10. \A i \in a .. b : /\ h[(i - a) + 1].key = g[i].key
                             /\ i # b => h[(i - a) + 1].count = cut[i].count
      BY <3>6, <3>7, <1>11
    <3> QED
      BY <3>1, <3>4, <3>5, <3>9, <3>10
  <2> QED
    BY <2>1, <2>2, <1>5
<1> HIDE DEF h
<1>13. b = r \/ (b = n /\ q = e[n])
  BY <1>1, <1>5, <1>6
<1>14. b = r => a # b
  BY <1>1, <1>4, <1>5, <1>6
<1>15. ASSUME NEW i \in a .. b
       PROVE  h[(i - a) + 1].count = (IF i = b THEN q ELSE e[i])
                                      - (IF i = a THEN p ELSE e[i - 1])
  <2>1. i \in 1 .. n /\ i - 1 \in 0 .. n /\ i \in 0 .. n
    <3>1. b \in a .. n
      BY <1>12
    <3> QED
      BY <3>1, <1>1, <1>4, PlacesInCutAll, Zenon
  <2>2. e[i] = e[i - 1] + g[i].count /\ e[i - 1] \in Nat /\ g[i].count \in Nat
    BY <2>1, <1>1
  <2>3. cut[i].count = e[i] - (IF i = a THEN p ELSE e[i - 1])
    <3>1. CASE i = a
      BY <3>1, <1>9, <1>10
    <3>2. CASE i # a
      <4>1. cut[i].count = g[i].count
        BY <3>2, <2>1, <1>10
      <4> QED
        BY <4>1, <2>2, <3>2
    <3> QED
      BY <3>1, <3>2
  <2>4. CASE i # b
    BY <2>3, <2>4, <1>12
  <2>5. CASE i = b /\ b = r
    <3>1. i # a
      BY <2>5, <1>14
    <3>2. h[(i - a) + 1].count = q - e[i - 1]
      BY <2>5, <1>12
    <3> QED
      BY <3>1, <3>2, <2>5
  <2>6. CASE i = b /\ b # r
    <3>1. h[(i - a) + 1].count = cut[i].count /\ e[i] = q
      BY <2>6, <1>12, <1>13
    <3> QED
      BY <3>1, <2>3, <2>6
  <2> QED
    BY <2>4, <2>5, <2>6
<1>16. \A i \in a .. b : h[(i - a) + 1].key = g[i].key
  BY <1>12
<1>17. e[a - 1] <= p
  <2>1. a - 1 \in 0 .. n
    BY <1>1, <1>4
  <2>2. e[a - 1] \in Nat
    BY <2>1, <1>1
  <2> QED
    BY <2>2, <1>4
<1>18. IsCutOut(g, h, a, b, p, q)
  BY <1>3, <1>4, <1>12, <1>15, <1>16, <1>17 DEF IsCutOut, n, e
<1> QED
  BY <1>18 DEF h, a, q

\* The elements of a sequence are no more than its places.
LEMMA ElementsAreFinite ==
    ASSUME NEW s \in Seq(Nat)
    PROVE  IsFiniteSet(ToSet(s))
<1>1. Len(s) \in Nat /\ DOMAIN s = 1 .. Len(s)
  OBVIOUS
<1>2. IsFiniteSet(1 .. Len(s))
  BY <1>1, FS_Interval
<1>3. s \in Surjection(1 .. Len(s), ToSet(s))
  <2>1. s \in [1 .. Len(s) -> ToSet(s)]
    BY <1>1 DEF ToSet
  <2>2. \A t \in ToSet(s) : \E i \in 1 .. Len(s) : s[i] = t
    BY <1>1 DEF ToSet
  <2> QED
    BY <2>1, <2>2 DEF Surjection
<1> QED
  BY <1>2, <1>3, FS_Surjection

\* The last key of a group that ends in the middle of the window is in the window.
LEMMA MiddleGroupsAreInWindow ==
    ASSUME NEW g \in Groups, Runs(g), NEW w, NEW p, WindowAt(g, w, p),
           NEW m \in w.subLeft[1] .. w.subRight[1] - 1
    PROVE  \E x \in 1 .. ToProcess : Groups2Keys(g)[p + x] = g[m].key
<1> DEFINE n == Len(g)
           e == Ends(g)
           a == w.subLeft[1]
           b == w.subRight[1]
           T == ToProcess
<1>1. /\ n \in Nat /\ e[0] = 0 /\ \A k \in 0 .. n : e[k] \in Nat
      /\ \A k \in 1 .. n : e[k] = e[k - 1] + g[k].count /\ g[k].count \in Nat
  BY GroupsAreSequences, EndsCount DEF Counts
<1>2. \A k \in 0 .. n : \A j \in k .. n : e[k] <= e[j]
  BY EndsGrow
<1>3. /\ p \in Nat /\ Lo \in Nat /\ Hi \in Nat /\ T \in Nat /\ 1 <= Lo /\ Hi <= T
  BY WindowConstants DEF WindowAt
<1>4. /\ a \in 1 .. n /\ p + Lo <= e[a]
      /\ b \in 1 .. n /\ w.subRight[2] \in Nat /\ e[b - 1] + w.subRight[2] = p + Hi
  BY DEF WindowAt, StandsAt
<1>5. \A i \in 2 .. n : g[i].count > 0
  BY DEF Runs
<1>6. Spans(g, Groups2Keys(g))
  BY KeysSpan
<1> HIDE DEF n, e, a, b, T
<1>7. /\ m \in 1 .. n /\ m \in 0 .. n /\ m - 1 \in 0 .. n /\ b - 1 \in 0 .. n
      /\ a \in 0 .. n /\ m \in a .. n /\ b - 1 \in m .. n
  <2>1. m \in a .. b - 1
    BY DEF a, b
  <2> QED
    BY <2>1, <1>1, <1>4
<1>8. e[m] \in Nat /\ e[m - 1] \in Nat /\ e[b - 1] \in Nat /\ e[a] \in Nat
  BY <1>1, <1>7
<1>9. e[a] <= e[m] /\ e[m] <= e[b - 1]
  BY <1>2, <1>7
<1>10. e[m] >= p + 1 /\ e[m] <= p + T
  BY <1>3, <1>4, <1>8, <1>9
<1>11. e[m - 1] < e[m]
  <2>1. CASE m = 1
    <3>1. e[m - 1] = 0
      BY <2>1, <1>1
    <3> QED
      BY <3>1, <1>10, <1>3, <1>8
  <2>2. CASE m # 1
    <3>1. m \in 2 .. n
      BY <2>2, <1>7, <1>1
    <3>2. e[m] = e[m - 1] + g[m].count /\ g[m].count \in Nat /\ g[m].count > 0
      BY <3>1, <1>1, <1>5, <1>7
    <3> QED
      BY <3>2, <1>8
  <2> QED
    BY <2>1, <2>2
<1> DEFINE x == e[m] - p
<1>12. x \in 1 .. T /\ p + x = e[m] /\ e[m] \in e[m - 1] + 1 .. e[m]
  BY <1>3, <1>8, <1>10, <1>11
<1> HIDE DEF x
<1>13. Groups2Keys(g)[e[m]] = g[m].key
  BY <1>6, <1>7, <1>12 DEF Spans, e, n
<1> QED
  BY <1>12, <1>13 DEF T

\* So enough of the keys of the window are different.
LEMMA SnippedHasEnough ==
    ASSUME NEW g \in Groups, Runs(g), NEW w, NEW p, WindowAt(g, w, p),
           Significant(g, w, MinUnique),
           NEW hs \in Seq(Nat), Len(hs) = ToProcess,
           \A x \in 1 .. ToProcess : hs[x] = Groups2Keys(g)[p + x]
    PROVE  Cardinality(ToSet(hs)) >= MinUnique
<1> DEFINE a == w.subLeft[1]
           b == w.subRight[1]
           s == SubSeq(g, a, b - 1)
           KeysTo(i) == {s[j].key : j \in 1 .. i}
<1>1. a \in 1 .. Len(g) /\ b \in 1 .. Len(g) /\ Len(g) \in Nat
  BY GroupsAreSequences DEF WindowAt, StandsAt
<1>2. PICK i \in 0 .. Len(s) : Cardinality(KeysTo(i)) >= MinUnique
  BY DEF Significant, EnoughUnique
<1>3. a < b
  BY SignificantIsNotEmpty
<1> HIDE DEF a, b
<1>4. /\ Len(s) = ((b - 1) - a) + 1
      /\ \A j \in 1 .. ((b - 1) - a) + 1 : s[j] = g[(a + j) - 1]
  <2>1. a \in 1 .. Len(g) + 1 /\ b - 1 \in a - 1 .. Len(g)
    BY <1>1, <1>3
  <2> QED
    BY <2>1, CutOfGroups
<1> HIDE DEF s
<1>5. KeysTo(i) \subseteq ToSet(hs)
  <2> SUFFICES ASSUME NEW j \in 1 .. i PROVE s[j].key \in ToSet(hs)
    OBVIOUS
  <2> DEFINE m == (a + j) - 1
  <2>1. j \in 1 .. ((b - 1) - a) + 1 /\ m \in a .. b - 1
    BY <1>1, <1>3, <1>4
  <2>2. s[j] = g[m]
    BY <2>1, <1>4
  <2> HIDE DEF m
  <2>3. PICK x \in 1 .. ToProcess : Groups2Keys(g)[p + x] = g[m].key
    BY <2>1, MiddleGroupsAreInWindow DEF a, b
  <2>4. hs[x] = s[j].key /\ x \in DOMAIN hs
    BY <2>2, <2>3
  <2> QED
    BY <2>4 DEF ToSet
<1> HIDE DEF KeysTo
<1>6. IsFiniteSet(ToSet(hs))
  BY ElementsAreFinite
<1>7. IsFiniteSet(KeysTo(i)) /\ Cardinality(KeysTo(i)) <= Cardinality(ToSet(hs))
  BY <1>5, <1>6, FS_Subset
<1>8. Cardinality(ToSet(hs)) \in Nat /\ Cardinality(KeysTo(i)) \in Nat
  BY <1>6, <1>7, FS_CardinalityType
<1> QED
  BY <1>2, <1>7, <1>8, WindowSizes

-------------------------------------------------------------------------------
(* From the groups of a track to a window of its keys.                          *)

\* hs is the end of vs.
IsTail(hs, vs) ==
    /\ Len(hs) <= Len(vs)
    /\ \A x \in 1 .. Len(hs) : hs[x] = vs[(Len(vs) - Len(hs)) + x]

\* ws is ToProcess values of vs, one after the other.
IsWindow(ws, vs) ==
    /\ Len(ws) = ToProcess
    /\ \E off \in 0 .. Len(vs) - ToProcess : \A x \in 1 .. ToProcess : ws[x] = vs[off + x]

\* Keys that are added to the groups and to the track leave the groups its end.
LEMMA TailGoesOn ==
    ASSUME NEW hs \in Seq(Nat), NEW vs \in Seq(Nat), NEW ks \in Seq(Nat), NEW more,
           IsTail(hs, vs), Extends(more, hs, ks, Len(ks)), NEW ws, Extends(ws, vs, ks, Len(ks))
    PROVE  IsTail(more, ws)
<1> DEFINE h == Len(hs)
           v == Len(vs)
           n == Len(ks)
<1>1. h \in Nat /\ v \in Nat /\ n \in Nat /\ h <= v
  BY DEF IsTail
<1>2. /\ Len(more) = h + n /\ Len(ws) = v + n
      /\ \A x \in 1 .. h : more[x] = hs[x]
      /\ \A x \in 1 .. n : more[h + x] = ks[x]
      /\ \A x \in 1 .. v : ws[x] = vs[x]
      /\ \A x \in 1 .. n : ws[v + x] = ks[x]
  BY DEF Extends
<1>3. \A x \in 1 .. h : hs[x] = vs[(v - h) + x]
  BY DEF IsTail
<1> HIDE DEF h, v, n
<1>4. h + n <= v + n /\ (v + n) - (h + n) = v - h
  BY <1>1
<1>5. ASSUME NEW x \in 1 .. h + n PROVE more[x] = ws[(v - h) + x]
  <2>1. CASE x <= h
    <3>1. x \in 1 .. h /\ (v - h) + x \in 1 .. v
      BY <2>1, <1>1
    <3> QED
      BY <3>1, <1>2, <1>3
  <2>2. CASE x > h
    <3> DEFINE k == x - h
    <3>1. k \in 1 .. n /\ h + k = x /\ v + k = (v - h) + x
      BY <2>2, <1>1
    <3> HIDE DEF k
    <3>2. more[h + k] = ks[k] /\ ws[v + k] = ks[k]
      BY <3>1, <1>2
    <3> QED
      BY <3>1, <3>2
  <2> QED
    BY <2>1, <2>2, <1>1
<1> QED
  BY <1>2, <1>4, <1>5 DEF IsTail

LEMMA TailOfTail ==
    ASSUME NEW hs \in Seq(Nat), NEW vs \in Seq(Nat), IsTail(hs, vs), NEW ls \in Seq(Nat),
           IsTail(ls, hs)
    PROVE  IsTail(ls, vs)
<1> DEFINE h == Len(hs)
           v == Len(vs)
           l == Len(ls)
<1>1. /\ h \in Nat /\ v \in Nat /\ l \in Nat /\ h <= v /\ l <= h
      /\ \A x \in 1 .. h : hs[x] = vs[(v - h) + x]
      /\ \A x \in 1 .. l : ls[x] = hs[(h - l) + x]
  BY DEF IsTail
<1> HIDE DEF h, v, l
<1>2. ASSUME NEW x \in 1 .. l PROVE ls[x] = vs[(v - l) + x]
  <2> DEFINE y == (h - l) + x
  <2>1. y \in 1 .. h /\ (v - h) + y = (v - l) + x
    BY <1>1
  <2>2. ls[x] = hs[y]
    BY <1>1
  <2> HIDE DEF y
  <2> QED
    BY <2>1, <2>2, <1>1
<1>3. l <= v
  BY <1>1
<1> QED
  BY <1>2, <1>3 DEF IsTail, h, v, l

\* A window of the end of the track is a window of the track.
LEMMA WindowOfTail ==
    ASSUME NEW hs \in Seq(Nat), NEW vs \in Seq(Nat), IsTail(hs, vs), NEW ws \in Seq(Nat),
           Len(ws) = ToProcess, NEW p \in Nat, p + ToProcess <= Len(hs),
           \A x \in 1 .. ToProcess : ws[x] = hs[p + x]
    PROVE  IsWindow(ws, vs)
<1> DEFINE h == Len(hs)
           v == Len(vs)
           t == ToProcess
           off == (v - h) + p
<1>1. /\ h \in Nat /\ v \in Nat /\ t \in Nat /\ h <= v
      /\ \A x \in 1 .. h : hs[x] = vs[(v - h) + x]
  BY WindowConstants DEF IsTail
<1>0. p + t <= h /\ \A x \in 1 .. t : ws[x] = hs[p + x]
  OBVIOUS
<1> HIDE DEF h, v, t
<1>2. off \in 0 .. v - t
  BY <1>1, <1>0
<1>3. ASSUME NEW x \in 1 .. t PROVE ws[x] = vs[off + x]
  <2> DEFINE y == p + x
  <2>1. y \in 1 .. h /\ (v - h) + y = off + x
    BY <1>1, <1>0
  <2>2. ws[x] = hs[y]
    BY <1>0
  <2> HIDE DEF y
  <2> QED
    BY <2>1, <2>2, <1>1
<1> HIDE DEF off
<1> QED
  BY <1>2, <1>3 DEF IsWindow, v, t

\* What is left of the groups of a query that has too many keys: a window that has
\* enough different keys, or the end of the groups.
LEMMA ChoppedIsSound ==
    ASSUME NEW g \in Groups, Runs(g), Target = ToProcess, NEW c, c = Chopped(g)
    PROVE  /\ c.found \in BOOLEAN /\ c.groups \in Groups /\ Runs(c.groups)
           /\ c.found => /\ CountOf(c.groups) = ToProcess
                         /\ \E p \in Nat :
                              /\ p + ToProcess <= Len(Groups2Keys(g))
                              /\ \A x \in 1 .. ToProcess :
                                   Groups2Keys(c.groups)[x] = Groups2Keys(g)[p + x]
                         /\ Cardinality(ToSet(Groups2Keys(c.groups))) >= MinUnique
           /\ ~c.found => IsTail(Groups2Keys(c.groups), Groups2Keys(g))
<1> DEFINE r == FindSignificantGroups(g, ToProcess, SubWindow, MinUnique)
           w == r.window
<1>1. /\ r.found \in BOOLEAN
      /\ r.found => w \in WindowsOf(g) /\ Significant(g, w, MinUnique)
      /\ ~r.found => w.left[1] \in 1 .. Len(g) + 1 /\ w.right[1] = Len(g) + 1
  BY FindsWindow
<1>2. /\ c.found = r.found
      /\ r.found => c.groups = Snipped(g, w)
      /\ ~r.found => c.groups = SubSeq(g, w.left[1], w.right[1] - 1)
  BY DEF Chopped
<1> HIDE DEF r, w
<1>3. Spans(g, Groups2Keys(g))
  BY KeysSpan
<1>4. CASE r.found
  <2>1. PICK p : WindowAt(g, w, p)
    BY <1>1, <1>4 DEF WindowsOf
  <2>2. Significant(g, w, MinUnique)
    BY <1>1, <1>4
  <2>3. w.left[1] < w.right[1]
    BY <2>1, <2>2, WindowOrder
  <2> DEFINE q == p + ToProcess
             b == LastKept(g, w)
             a == w.left[1]
  <2>4. IsCutOut(g, c.groups, a, b, p, q)
    BY <1>2, <1>4, <2>1, <2>3, SnippedIsCutOut
  <2>5. p \in Nat /\ q - p = ToProcess
    BY <2>1, WindowConstants DEF WindowAt
  <2> HIDE DEF q, b, a
  <2>6. c.groups \in Groups
    BY <2>4 DEF IsCutOut
  <2>7. /\ q <= CountOf(g)
        /\ Groups2Keys(c.groups) \in Seq(Nat) /\ Len(Groups2Keys(c.groups)) = ToProcess
        /\ \A x \in 1 .. ToProcess : Groups2Keys(c.groups)[x] = Groups2Keys(g)[p + x]
    BY <2>4, <2>5, CutOutKeys
  <2>8. CountOf(c.groups) = ToProcess /\ Runs(c.groups)
    BY <2>4, <2>5, CutOutEnds, CutOutRuns
  <2>9. Cardinality(ToSet(Groups2Keys(c.groups))) >= MinUnique
    BY <2>1, <2>2, <2>7, SnippedHasEnough
  <2>10. p + ToProcess <= Len(Groups2Keys(g))
    BY <2>7, <1>3 DEF Spans, q
  <2> QED
    BY <1>2, <1>4, <2>5, <2>6, <2>7, <2>8, <2>9, <2>10
<1>5. CASE ~r.found
  <2> DEFINE a == w.left[1]
  <2>1. a \in 1 .. Len(g) + 1 /\ c.groups = SubSeq(g, a, Len(g))
    <3>1. w.right[1] - 1 = Len(g)
      BY <1>1, <1>5, GroupsAreSequences
    <3> QED
      BY <3>1, <1>1, <1>2, <1>5
  <2> HIDE DEF a
  <2>2. /\ c.groups \in Groups /\ Runs(c.groups) /\ CountOf(c.groups) <= CountOf(g)
        /\ \A x \in 1 .. CountOf(c.groups) :
             Groups2Keys(c.groups)[x]
               = Groups2Keys(g)[(CountOf(g) - CountOf(c.groups)) + x]
    BY <2>1, WhatIsLeft
  <2>3. Spans(c.groups, Groups2Keys(c.groups))
    BY <2>2, KeysSpan
  <2>4. IsTail(Groups2Keys(c.groups), Groups2Keys(g))
    BY <2>2, <2>3, <1>3 DEF Spans, IsTail
  <2>5. c.found \in BOOLEAN /\ ~c.found
    BY <1>1, <1>2, <1>5
  <2> QED
    BY <2>2, <2>4, <2>5, Zenon
<1> QED
  BY <1>1, <1>4, <1>5

-------------------------------------------------------------------------------
(* The inductive invariant of the groups.                                       *)

\* The average is of as many samples after cells are divided as before.
LEMMA DividingKeepsLength ==
    ASSUME NEW b \in [1 .. FullSize -> Cells], NEW w \in Seq(Int), Len(w) = 2 * HalfWindow,
           NEW first \in 1 .. FullSize, NEW last \in first .. FullSize,
           last + HalfWindow <= FullSize
    PROVE  /\ Normalized(b, w, first, last).w \in Seq(Int)
           /\ Len(Normalized(b, w, first, last).w) = 2 * HalfWindow
<1> DEFINE m == last - first + 1
           n == 2 * HalfWindow
           ahead == [i \in 1 .. m |-> b[first + i - 1 + HalfWindow].pos]
           seen == Seen(b, w, first, last)
           after == Normalized(b, w, first, last).w
<1>1. /\ FullSize \in Nat /\ HalfWindow \in Nat \ {0} /\ m \in Nat /\ n \in Nat \ {0}
      /\ last - first + 2 = m + 1
  BY Sizes
<1>2. \A i \in 1 .. m : b[first + i - 1 + HalfWindow].pos \in Int
  <2> TAKE i \in 1 .. m
  <2>1. first + i - 1 + HalfWindow \in 1 .. FullSize
    BY <1>1
  <2> QED
    BY <2>1 DEF Cells
<1>3. seen = w \o ahead
  BY DEF Seen
<1>4. after = SubSeq(seen, m + 1, Len(seen))
  BY <1>1 DEF Normalized
<1>5. Len(w) = n
  OBVIOUS
<1> HIDE DEF seen, after, m, n
<1>6. ahead \in Seq(Int) /\ Len(ahead) = m
  <2>1. ahead \in [1 .. m -> Int]
    BY <1>2
  <2> HIDE DEF ahead
  <2> QED
    BY <2>1, <1>1
<1> HIDE DEF ahead
<1>7. seen \in Seq(Int) /\ Len(seen) = n + m
  BY <1>1, <1>3, <1>5, <1>6, ConcatProperties
<1>8. after \in Seq(Int) /\ Len(after) = n
  BY <1>1, <1>4, <1>7, EndOfSequence
<1> QED
  BY <1>8 DEF after, n

\* The values of the keys computed so far.
KeyValues == [k \in 1 .. Len(keys) |-> ValueOf(keys[k])]

\* m_normWindow is empty before the prebuffer is passed, and full behind it.
WindowHasSize ==
    /\ normWindow \in Seq(Int) /\ Len(normWindow) \in {0, 2 * HalfWindow}
    /\ preBufferPassed => Len(normWindow) = 2 * HalfWindow

\* The groups are runs and have the last keys of the track, until they are cut to a
\* window of it; process() is done with them then.
GroupsAreOfTrack ==
    /\ signal \in [0 .. MaxKeys - 1 -> Values]
    /\ groups \in Groups /\ Runs(groups) /\ processedKeys = CountOf(groups)
    /\ found \in BOOLEAN
    /\ ~found => IsTail(Groups2Keys(groups), KeyValues)
    /\ found => /\ pc \in {"finish", "ready", "thrown"}
                /\ IsWindow(Groups2Keys(groups), KeyValues)
                /\ Cardinality(ToSet(Groups2Keys(groups))) >= MinUnique
    /\ pc = "ready" /\ query => found

GroupsInv == IInv /\ WindowHasSize /\ GroupsAreOfTrack

LEMMA ValueIsNat ==
    ASSUME Typed, signal \in [0 .. MaxKeys - 1 -> Values], NEW pos \in Int
    PROVE  ValueOf(pos) \in Nat
<1> DEFINE i == (pos - FirstKey) \div Overlap
<1>1. FirstKey \in Nat /\ Overlap \in Nat \ {0} /\ MaxKeys \in Nat \ {0} /\ Values \subseteq Nat
  BY FirstKeyIsNat, Sizes, WindowSizes
<1>2. pos >= FirstKey => i \in Nat
  BY <1>1
<1>3. ValueOf(pos) = IF pos >= FirstKey /\ i < MaxKeys THEN signal[i] ELSE signal[0]
  BY DEF ValueOf
<1> HIDE DEF i
<1>4. 0 \in 0 .. MaxKeys - 1 /\ (pos >= FirstKey /\ i < MaxKeys => i \in 0 .. MaxKeys - 1)
  BY <1>1, <1>2
<1> QED
  BY <1>1, <1>3, <1>4

LEMMA KeysHaveValues ==
    ASSUME Typed, signal \in [0 .. MaxKeys - 1 -> Values], NEW ks \in Seq(Int), NEW vs,
           vs = [k \in DOMAIN ks |-> ValueOf(ks[k])]
    PROVE  /\ vs \in Seq(Nat) /\ Len(vs) = Len(ks)
           /\ \A k \in 1 .. Len(ks) : vs[k] = ValueOf(ks[k])
<1>1. Len(ks) \in Nat /\ DOMAIN ks = 1 .. Len(ks) /\ \A k \in 1 .. Len(ks) : ks[k] \in Int
  OBVIOUS
<1>2. vs \in [1 .. Len(ks) -> Nat]
  BY <1>1, ValueIsNat
<1>3. vs \in Seq(Nat) /\ Len(vs) = Len(ks)
  BY <1>1, <1>2
<1> QED
  BY <1>1, <1>3

\* The steps that leave the groups alone.
LEMMA GroupsStay ==
    ASSUME GroupsAreOfTrack,
           UNCHANGED <<signal, query, keys, groups, processedKeys, found>>,
           found => pc' \in {"finish", "ready", "thrown"}, pc' = "ready" /\ query => found
    PROVE  GroupsAreOfTrack'
<1>1. KeyValues' = KeyValues
  BY DEF KeyValues, ValueOf, FirstKey
<1> QED
  BY <1>1 DEF GroupsAreOfTrack

LEMMA InitHasGroups == Init => WindowHasSize /\ GroupsAreOfTrack
<1> SUFFICES ASSUME Init PROVE WindowHasSize /\ GroupsAreOfTrack
  OBVIOUS
<1>1. /\ groups = <<>> /\ keys = <<>> /\ normWindow = <<>> /\ processedKeys = 0
      /\ found = FALSE /\ pc = "idle" /\ signal \in [0 .. MaxKeys - 1 -> Values]
      /\ preBufferPassed = FALSE
  BY DEF Init
<1>2. groups \in Groups /\ Len(groups) = 0
  BY <1>1 DEF Groups
<1>3. CountOf(groups) = 0
  BY <1>2, EndsCount DEF Counts, CountOf
<1>4. Runs(groups)
  BY <1>2 DEF Runs
<1>5. Len(Groups2Keys(groups)) = 0
  BY <1>2, <1>3, KeysSpan DEF Spans
<1>6. Len(KeyValues) = 0
  BY <1>1 DEF KeyValues
<1>7. IsTail(Groups2Keys(groups), KeyValues)
  BY <1>5, <1>6 DEF IsTail
<1>8. WindowHasSize
  BY <1>1 DEF WindowHasSize
<1> QED
  BY <1>1, <1>2, <1>3, <1>4, <1>7, <1>8 DEF GroupsAreOfTrack

\* Steps 3 and 4 on the groups.
LEMMA BlockAddsKeys ==
    ASSUME IInv, GroupsAreOfTrack, ~found,
           NEW new \in Seq(Int), NEW gs, NEW more,
           gs = Keys2Groups([k \in DOMAIN new |-> ValueOf(new[k])], groups),
           more = [k \in 1 .. Len(keys \o new) |-> ValueOf((keys \o new)[k])]
    PROVE  /\ gs \in Groups /\ Runs(gs) /\ CountOf(gs) = processedKeys + Len(new)
           /\ Groups2Keys(gs) \in Seq(Nat) /\ more \in Seq(Nat)
           /\ IsTail(Groups2Keys(gs), more)
<1> DEFINE vs == [k \in DOMAIN new |-> ValueOf(new[k])]
           all == keys \o new
<1>1. /\ keys \in Seq(Int) /\ Typed /\ signal \in [0 .. MaxKeys - 1 -> Values]
      /\ groups \in Groups /\ Runs(groups) /\ processedKeys = CountOf(groups)
      /\ IsTail(Groups2Keys(groups), KeyValues)
  BY DEF IInv, Typed, GroupsAreOfTrack
<1>2. /\ vs \in Seq(Nat) /\ Len(vs) = Len(new)
      /\ \A k \in 1 .. Len(new) : vs[k] = ValueOf(new[k])
  BY <1>1, KeysHaveValues
<1>3. /\ all \in Seq(Int) /\ Len(all) = Len(keys) + Len(new)
      /\ \A k \in 1 .. Len(keys) : all[k] = keys[k]
      /\ \A k \in 1 .. Len(new) : all[Len(keys) + k] = new[k]
  BY <1>1
<1>4. gs = Keys2Groups(vs, groups) /\ more = [k \in 1 .. Len(all) |-> ValueOf(all[k])]
  OBVIOUS
<1> HIDE DEF vs, all
<1>5. /\ more \in Seq(Nat) /\ Len(more) = Len(all)
      /\ \A k \in 1 .. Len(all) : more[k] = ValueOf(all[k])
  <2>1. DOMAIN all = 1 .. Len(all)
    BY <1>3
  <2> QED
    BY <2>1, <1>1, <1>3, <1>4, KeysHaveValues
<1>6. /\ KeyValues \in Seq(Nat) /\ Len(KeyValues) = Len(keys)
      /\ \A k \in 1 .. Len(keys) : KeyValues[k] = ValueOf(keys[k])
  <2>1. KeyValues = [k \in DOMAIN keys |-> ValueOf(keys[k])]
    BY <1>1 DEF KeyValues
  <2> QED
    BY <2>1, <1>1, KeysHaveValues
<1>7. Extends(more, KeyValues, vs, Len(vs))
  <2>1. Len(keys) \in Nat /\ Len(new) \in Nat /\ Len(all) \in Nat
    BY <1>1, <1>3
  <2>2. \A k \in 1 .. Len(keys) : k \in 1 .. Len(all) /\ more[k] = KeyValues[k]
    BY <2>1, <1>3, <1>5, <1>6
  <2>3. \A k \in 1 .. Len(new) : Len(keys) + k \in 1 .. Len(all)
    BY <2>1, <1>3
  <2>4. \A k \in 1 .. Len(new) : more[Len(keys) + k] = vs[k]
    BY <2>3, <1>2, <1>3, <1>5
  <2> QED
    BY <2>2, <2>4, <1>2, <1>3, <1>5, <1>6 DEF Extends
<1>8. /\ gs \in Groups /\ Runs(gs)
      /\ Extends(Groups2Keys(gs), Groups2Keys(groups), vs, Len(vs))
  BY <1>1, <1>2, <1>4, Keys2GroupsAdds
<1>9. Spans(gs, Groups2Keys(gs)) /\ Spans(groups, Groups2Keys(groups))
  BY <1>1, <1>8, KeysSpan
<1>10. Groups2Keys(groups) \in Seq(Nat) /\ Groups2Keys(gs) \in Seq(Nat)
  BY <1>9 DEF Spans
<1>11. IsTail(Groups2Keys(gs), more)
  <2> DEFINE hs == Groups2Keys(groups)
             longer == Groups2Keys(gs)
             kv == KeyValues
  <2>1. /\ hs \in Seq(Nat) /\ kv \in Seq(Nat) /\ vs \in Seq(Nat) /\ IsTail(hs, kv)
        /\ Extends(longer, hs, vs, Len(vs)) /\ Extends(more, kv, vs, Len(vs))
    BY <1>1, <1>2, <1>6, <1>7, <1>8, <1>10
  <2> HIDE DEF hs, longer, kv
  <2>2. IsTail(longer, more)
    BY <2>1, TailGoesOn
  <2> QED
    BY <2>2 DEF longer
<1>12. CountOf(gs) = processedKeys + Len(new)
  BY <1>1, <1>2, <1>8, <1>9 DEF Spans, Extends
<1> QED
  BY <1>5, <1>8, <1>10, <1>11, <1>12

LEMMA PreBufferHasWindow ==
    ASSUME IInv, WindowHasSize, PreBuffer
    PROVE  WindowHasSize'
<1> DEFINE b == Filled(buf, curr)
           to == curr + Generated(curr)
           w == [i \in 1 .. 2 * HalfWindow |-> b[ProcessSize - HalfWindow + i].pos]
           first == ProcessSize + 1
           last == ProcessSize + Compensate
           r == Normalized(b, w, first, last)
<1>1. /\ to # FullSize => UNCHANGED <<preBufferPassed, normWindow>>
      /\ to = FullSize => normWindow' = r.w
  BY DEF PreBuffer
<1>2. Typed /\ curr \in 0 .. FullSize /\ buf \in [1 .. FullSize -> Cells]
  BY DEF IInv, Typed
<1>3. b \in [1 .. FullSize -> Cells]
  BY <1>2, FillingKeepsOrder
<1>4. /\ ProcessSize \in Nat /\ HalfWindow \in Nat \ {0} /\ Compensate \in Nat \ {0}
      /\ FullSize = ProcessSize + Compensate + HalfWindow
      /\ Compensate + HalfWindow <= ProcessSize
  BY Sizes
<1>5. first \in 1 .. FullSize /\ last \in first .. FullSize /\ last + HalfWindow <= FullSize
  BY <1>4
<1> HIDE DEF b, to, first, last
<1>6. w \in Seq(Int) /\ Len(w) = 2 * HalfWindow
  <2>1. \A i \in 1 .. 2 * HalfWindow : b[ProcessSize - HalfWindow + i].pos \in Int
    <3> TAKE i \in 1 .. 2 * HalfWindow
    <3>0. HalfWindow <= Compensate \/ Compensate < HalfWindow
      BY <1>4
    <3>1. ProcessSize - HalfWindow + i \in 1 .. FullSize
      BY <1>4
    <3> QED
      BY <3>1, <1>3 DEF Cells
  <2>2. w \in [1 .. 2 * HalfWindow -> Int]
    BY <2>1
  <2> HIDE DEF w
  <2> QED
    BY <2>2, <1>4
<1> HIDE DEF w
<1>7. r.w \in Seq(Int) /\ Len(r.w) = 2 * HalfWindow
  BY <1>3, <1>5, <1>6, DividingKeepsLength
<1> HIDE DEF r
<1>8. CASE to # FullSize
  BY <1>1, <1>8 DEF WindowHasSize
<1>9. CASE to = FullSize
  BY <1>1, <1>7, <1>9 DEF WindowHasSize
<1> QED
  BY <1>8, <1>9

\* A block keeps the invariant, whether its keys are too many or not.
LEMMA BlockKeepsGroups ==
    ASSUME GroupsInv, ProcessBlock
    PROVE  WindowHasSize' /\ GroupsAreOfTrack'
<1> DEFINE first == Compensate + 1
           last == ProcessSize + Compensate
           r == Normalized(buf, normWindow, first, last)
           new == KeysOf(r.b)
           gs == Keys2Groups([k \in DOMAIN new |-> ValueOf(new[k])], groups)
           c == IF TooMany(new) THEN Chopped(gs) ELSE [found |-> FALSE, groups |-> gs]
           more == [k \in 1 .. Len(keys \o new) |-> ValueOf((keys \o new)[k])]
<1>1. /\ pc = "block" /\ normWindow' = r.w /\ keys' = keys \o new
      /\ groups' = c.groups /\ found' = c.found
      /\ processedKeys' = (IF TooMany(new) THEN CountOf(c.groups)
                           ELSE processedKeys + Len(new))
      /\ pc' = IF endOfStream \/ (Target # 0 /\ processedKeys' >= Target /\ found')
               THEN "finish" ELSE "loop"
      /\ UNCHANGED <<signal, query, preBufferPassed>>
  BY DEF ProcessBlock, Track
<1>2. /\ IInv /\ WindowHasSize /\ GroupsAreOfTrack /\ ~found
      /\ preBufferPassed /\ buf \in [1 .. FullSize -> Cells]
      /\ signal \in [0 .. MaxKeys - 1 -> Values]
  BY <1>1 DEF GroupsInv, GroupsAreOfTrack, IInv, Typed, Phases
<1>3. /\ first \in 1 .. FullSize /\ last \in first .. FullSize
      /\ last + HalfWindow <= FullSize
  BY Sizes
<1>4. WindowHasSize'
  <2> HIDE DEF first, last
  <2>1. normWindow \in Seq(Int) /\ Len(normWindow) = 2 * HalfWindow
    BY <1>2 DEF WindowHasSize
  <2>2. r.w \in Seq(Int) /\ Len(r.w) = 2 * HalfWindow
    BY <2>1, <1>2, <1>3, DividingKeepsLength
  <2> HIDE DEF r
  <2> QED
    BY <2>2, <1>1 DEF WindowHasSize
<1>5. new \in Seq(Int)
  <2>1. r.b \in [1 .. FullSize -> Cells]
    BY <1>2, DividingKeepsCells
  <2> HIDE DEF r
  <2>2. new = [k \in 1 .. NumFrames - KeyWidth |->
                 IF Sound(r.b, k) THEN r.b[(k - 1) * Overlap + 1].pos ELSE 0]
    BY DEF KeysOf
  <2>3. \A k \in 1 .. NumFrames - KeyWidth : r.b[(k - 1) * Overlap + 1].pos \in Int
    <3> TAKE k \in 1 .. NumFrames - KeyWidth
    <3>1. (k - 1) * Overlap + 1 \in 1 .. FullSize
      BY KeyFits
    <3> QED
      BY <3>1, <2>1 DEF Cells
  <2> HIDE DEF new
  <2>4. new \in [1 .. NumFrames - KeyWidth -> Int]
    BY <2>2, <2>3
  <2> QED
    BY <2>4, KeysOfABlock
<1> HIDE DEF new
<1>6. /\ gs \in Groups /\ Runs(gs) /\ CountOf(gs) = processedKeys + Len(new)
      /\ Groups2Keys(gs) \in Seq(Nat) /\ more \in Seq(Nat)
      /\ IsTail(Groups2Keys(gs), more)
  BY <1>2, <1>5, BlockAddsKeys
<1>7. KeyValues' = more /\ signal' = signal
  BY <1>1 DEF KeyValues, ValueOf, FirstKey
<1> HIDE DEF gs, more
<1>8. pc' \in {"finish", "loop"} /\ pc' # "ready"
  BY <1>1
<1>9. CASE TooMany(new)
  <2>1. Target = ToProcess /\ Target # 0
    BY <1>9 DEF TooMany, Target
  <2>2. /\ c = Chopped(gs) /\ processedKeys' = CountOf(c.groups)
        /\ groups' = c.groups /\ found' = c.found
    BY <1>1, <1>9
  <2> HIDE DEF c
  <2>3. /\ c.found \in BOOLEAN /\ c.groups \in Groups /\ Runs(c.groups)
        /\ c.found => /\ CountOf(c.groups) = ToProcess
                      /\ \E p \in Nat :
                           /\ p + ToProcess <= Len(Groups2Keys(gs))
                           /\ \A x \in 1 .. ToProcess :
                                Groups2Keys(c.groups)[x] = Groups2Keys(gs)[p + x]
                      /\ Cardinality(ToSet(Groups2Keys(c.groups))) >= MinUnique
        /\ ~c.found => IsTail(Groups2Keys(c.groups), Groups2Keys(gs))
    BY <2>1, <2>2, <1>6, ChoppedIsSound
  <2>4. /\ Groups2Keys(c.groups) \in Seq(Nat)
        /\ Len(Groups2Keys(c.groups)) = CountOf(c.groups)
    BY <2>3, KeysSpan DEF Spans
  <2>5. CASE c.found
    <3>1. PICK p \in Nat : /\ p + ToProcess <= Len(Groups2Keys(gs))
                           /\ \A x \in 1 .. ToProcess :
                                Groups2Keys(c.groups)[x] = Groups2Keys(gs)[p + x]
      BY <2>3, <2>5
    <3>2. IsWindow(Groups2Keys(c.groups), more)
      BY <3>1, <2>3, <2>4, <2>5, <1>6, WindowOfTail
    <3>3. Target # 0 /\ processedKeys' >= Target /\ found' = TRUE
      BY <2>1, <2>2, <2>3, <2>5, WindowSizes
    <3>4. pc' = "finish"
      BY <3>3, <1>1
    <3>5. /\ groups' \in Groups /\ Runs(groups') /\ processedKeys' = CountOf(groups')
          /\ Cardinality(ToSet(Groups2Keys(groups'))) >= MinUnique
          /\ IsWindow(Groups2Keys(groups'), KeyValues')
      BY <3>2, <2>2, <2>3, <2>5, <1>7
    <3> QED
      BY <3>3, <3>4, <3>5, <1>2, <1>4, <1>7 DEF GroupsAreOfTrack
  <2>6. CASE ~c.found
    <3>1. IsTail(Groups2Keys(c.groups), more)
      BY <2>3, <2>4, <2>6, <1>6, TailOfTail
    <3>2. /\ groups' \in Groups /\ Runs(groups') /\ processedKeys' = CountOf(groups')
          /\ found' = FALSE /\ IsTail(Groups2Keys(groups'), KeyValues')
      BY <3>1, <2>2, <2>3, <2>6, <1>7
    <3> QED
      BY <3>2, <1>2, <1>4, <1>7, <1>8 DEF GroupsAreOfTrack
  <2> QED
    BY <2>5, <2>6
<1>10. CASE ~TooMany(new)
  <2>1. groups' = gs /\ found' = FALSE /\ processedKeys' = CountOf(gs)
    BY <1>1, <1>6, <1>10
  <2>2. /\ groups' \in Groups /\ Runs(groups') /\ processedKeys' = CountOf(groups')
        /\ IsTail(Groups2Keys(groups'), KeyValues')
    BY <2>1, <1>6, <1>7
  <2> QED
    BY <2>1, <2>2, <1>2, <1>4, <1>7, <1>8 DEF GroupsAreOfTrack
<1> QED
  BY <1>9, <1>10

\* Every step does.
LEMMA GroupsInvHolds == GroupsInv /\ [Next]_vars => GroupsInv'
<1> SUFFICES ASSUME GroupsInv, [Next]_vars PROVE WindowHasSize' /\ GroupsAreOfTrack'
  BY NextKeeps DEF GroupsInv
<1>0. IInv /\ WindowHasSize /\ GroupsAreOfTrack
  BY DEF GroupsInv
<1>1. ASSUME NEW n \in Pieces, Process(n) PROVE WindowHasSize' /\ GroupsAreOfTrack'
  <2>1. /\ pc = "idle" /\ pc' # "ready" /\ UNCHANGED <<normWindow, preBufferPassed>>
        /\ UNCHANGED <<signal, query, keys, groups, processedKeys, found>>
    BY <1>1 DEF Process, Track
  <2>2. ~found
    BY <2>1, <1>0 DEF GroupsAreOfTrack
  <2> QED
    BY <2>1, <2>2, <1>0, GroupsStay DEF WindowHasSize
<1>2. CASE PreBuffer
  <2>1. /\ pc = "prebuffer" /\ pc' # "ready"
        /\ UNCHANGED <<signal, query, keys, groups, processedKeys, found>>
    BY <1>2 DEF PreBuffer, Track
  <2>2. ~found
    BY <2>1, <1>0 DEF GroupsAreOfTrack
  <2> QED
    BY <2>1, <2>2, <1>0, <1>2, GroupsStay, PreBufferHasWindow
<1>3. CASE ReadBlock
  <2>1. /\ pc = "loop" /\ pc' # "ready" /\ UNCHANGED <<normWindow, preBufferPassed>>
        /\ UNCHANGED <<signal, query, keys, groups, processedKeys, found>>
    BY <1>3 DEF ReadBlock, Track, AfterReading
  <2>2. ~found
    BY <2>1, <1>0 DEF GroupsAreOfTrack
  <2> QED
    BY <2>1, <2>2, <1>0, GroupsStay DEF WindowHasSize
<1>4. CASE ProcessBlock
  BY <1>4, BlockKeepsGroups
<1>5. CASE Finish
  <2>1. /\ pc = "finish" /\ pc' \in {"ready", "thrown"}
        /\ pc' = "ready" /\ Target # 0 => found
        /\ UNCHANGED <<normWindow, preBufferPassed>>
        /\ UNCHANGED <<signal, query, keys, groups, processedKeys, found>>
    BY <1>5 DEF Finish, Track
  <2>2. query => Target # 0
    BY WindowConstants DEF Target
  <2> QED
    BY <2>1, <2>2, <1>0, GroupsStay DEF WindowHasSize
<1>6. CASE UNCHANGED vars
  <2>1. /\ UNCHANGED <<normWindow, preBufferPassed, pc>>
        /\ UNCHANGED <<signal, query, keys, groups, processedKeys, found>>
    BY <1>6 DEF vars, Track
  <2>2. found => pc' \in {"finish", "ready", "thrown"}
    BY <2>1, <1>0 DEF GroupsAreOfTrack
  <2>3. pc' = "ready" /\ query => found
    BY <2>1, <1>0 DEF GroupsAreOfTrack
  <2> QED
    BY <2>1, <2>2, <2>3, <1>0, GroupsStay DEF WindowHasSize
<1> QED
  BY <1>1, <1>2, <1>3, <1>4, <1>5, <1>6 DEF Next

LEMMA GroupsInvIsSound == GroupsInv => GroupsAreSound
<1> SUFFICES ASSUME GroupsInv PROVE GroupsAreSound
  OBVIOUS
<1>0. IInv /\ WindowHasSize /\ GroupsAreOfTrack /\ Typed
  BY DEF GroupsInv, IInv
<1>1. groups \in Groups /\ Runs(groups) /\ processedKeys = CountOf(groups)
  BY <1>0 DEF GroupsAreOfTrack
<1>2. TypeOK
  <2>1. processedKeys \in Nat
    BY <1>1, CountIsNat
  <2> QED
    BY <1>0, <1>1, <2>1 DEF TypeOK, Typed, WindowHasSize
<1>3. GroupsAreRuns
  BY <1>1 DEF GroupsAreRuns, Runs
<1>4. ASSUME pc = "ready", query
      PROVE  LET ks == Groups2Keys(groups)
             IN  /\ Len(ks) = ToProcess
                 /\ \E off \in 0 .. Len(keys) - ToProcess :
                      ks = [i \in 1 .. ToProcess |-> ValueOf(keys[off + i])]
                 /\ Cardinality(ToSet(ks)) >= MinUnique
  <2> DEFINE ks == Groups2Keys(groups)
  <2>1. IsWindow(ks, KeyValues) /\ Cardinality(ToSet(ks)) >= MinUnique
    BY <1>0, <1>4 DEF GroupsAreOfTrack
  <2>2. ks \in Seq(Nat)
    BY <1>1, KeysSpan DEF Spans
  <2>3. Len(keys) \in Nat /\ ToProcess \in Nat
    BY <1>0, WindowConstants DEF Typed
  <2> HIDE DEF ks
  <2>4. Len(KeyValues) = Len(keys) /\ \A k \in 1 .. Len(keys) : KeyValues[k] = ValueOf(keys[k])
    BY <2>3 DEF KeyValues
  <2>5. Len(ks) = ToProcess
    BY <2>1 DEF IsWindow
  <2>6. PICK off \in 0 .. Len(keys) - ToProcess :
             \A x \in 1 .. ToProcess : ks[x] = KeyValues[off + x]
    BY <2>1, <2>4 DEF IsWindow
  <2>7. \A x \in 1 .. ToProcess : off + x \in 1 .. Len(keys)
    BY <2>3
  <2>8. \A x \in 1 .. ToProcess : ks[x] = ValueOf(keys[off + x])
    BY <2>4, <2>6, <2>7
  <2>9. ks = [i \in 1 .. ToProcess |-> ValueOf(keys[off + i])]
    BY <2>2, <2>5, <2>8
  <2> QED
    BY <2>1, <2>5, <2>9 DEF ks
<1>5. FingerprintIsAWindow
  BY <1>4 DEF FingerprintIsAWindow
<1> QED
  BY <1>2, <1>3, <1>5 DEF GroupsAreSound

\* The keys that process() counts are the keys in its groups, which are runs, and what a
\* query hands out of them is a window of ToProcess keys of the track with at least
\* MIN_UNIQUE_KEYS different ones, for every track, every way to cut it and every size.
THEOREM GroupsStaySound == Spec => []GroupsAreSound
<1>1. Init => GroupsInv
  BY InitHolds, InitHasGroups DEF GroupsInv
<1> QED
  BY <1>1, GroupsInvHolds, GroupsInvIsSound, PTL DEF Spec
===============================================================================
