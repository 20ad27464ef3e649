----------------------------- MODULE AacSource -----------------------------
(***************************************************************************)
(* src/fingerprint/contrib/AacSource.cpp over FAAD: raw AAC with ADTS or   *)
(* ADIF headers, read through m_inBuf, and AAC in an MP4 file, whose       *)
(* samples (frames) mp4ff reads.                                           *)
(***************************************************************************)
EXTENDS PcmSource, FiniteSetsExt

IsAac == codec \in {"adts", "adif", "mp4"}
IsMp4 == codec = "mp4"

AtTag(w) == w.buf # <<>> /\ \E k \in ItemAt(Head(w.buf)) : file[k].kind = "tag"

(* Seeded bug: the rest of the buffer is not moved to its front. *)
FillBufferUnmoved(w, n) ==
  LET more == Ahead(w, n)
  IN  [w EXCEPT !.buf = SubSeq(w.buf, 1, Len(w.buf) - n) \o more,
                !.pos = @ + Len(more)]

(* fillBuffer(), after the caller took n bytes off m_inBufSize: the rest   *)
(* moves to the front, n bytes more are read, and a tag in front ends the  *)
(* data.                                                                   *)
FillBuffer(w, n) ==
  LET more   == Ahead(w, n)
      filled == [w EXCEPT !.buf = SubSeq(w.buf, n + 1, Len(w.buf)) \o more,
                          !.pos = @ + Len(more)]
  IN  IF n > 0 /\ AtTag(filled) THEN [filled EXCEPT !.buf = <<>>] ELSE filled

(* commonSetup() of AAC_ADTS_File: the buffer from the start of the file,  *)
(* without the ID3 tag.  FAAD accepts what starts with a frame or with an  *)
(* ADIF header.                                                            *)
AdtsSetup == LET w == [Nowhere EXCEPT !.buf = Ahead(Nowhere, InBufSize),
                                      !.pos = Len(Ahead(Nowhere, InBufSize))]
             IN  IF file # <<>> /\ file[1].kind = "id3"
                 THEN FillBuffer(w, file[1].bytes) ELSE w

(* A tag that is larger than the buffer: `bufSize -= tagsize' wraps around, *)
(* and memmove() is told to move almost all of the address space.          *)
TagUnderflows == ~IsMp4 /\ file # <<>> /\ file[1].kind = "id3"
                   /\ file[1].bytes > InBufSize

(* The frame that is whole in front of the buffer, by its sync word and    *)
(* its length; NeAACDecDecode() decodes it, or gives NULL and an error.    *)
HeaderOf(w)    == {k \in IF w.buf = <<>> THEN {} ELSE ItemAt(Head(w.buf)) :
                     file[k].kind = "frame" /\ file[k].head /\ Holds(w.buf, k)}
DecodedFrom(w) == {k \in HeaderOf(w) : file[k].ok}
BytesConsumed(ks) == IF ks = {} THEN 0 ELSE file[Min(ks)].bytes

(* checkHeader(): the kind of the file, read behind an ID3 tag.            *)
AfterId3 == SelectSeq(file, LAMBDA item : item.kind # "id3")
HeaderKnown == \/ IsMp4
               \/ AfterId3 # <<>> /\ (AfterId3[1].kind = "adif" \/ AfterId3[1].head)

(* The track of an MP4 file is found unless all of them are protected.     *)
AacInit ==
  /\ IsAac /\ phase = "init"
  /\ \E opens, hasTrack \in BOOLEAN :
       /\ ~IsMp4 => hasTrack
       /\ IF opens /\ HeaderKnown /\ TagUnderflows THEN phase' = "dead"
          ELSE Opened(opens /\ hasTrack /\ HeaderKnown)
       /\ win' = IF IsMp4 \/ phase' # "info" THEN win
                 ELSE FillBuffer(AdtsSetup, IF codec = "adif" THEN Adif.bytes
                                            ELSE 0)
  /\ UNCHANGED <<Chosen, duration, at, left, leftPos, nwrit, out, eof>>

(* parse(): the number of headers, with a buffer and a file of its own.    *)
Parse[w \in Windows, frameLength, frames \in Nat] ==
  LET v == FillBuffer(w, frameLength)
  IN  IF HeaderOf(v) = {} THEN frames
      ELSE Parse[v, BytesConsumed(HeaderOf(v)), frames + 1]

(* The bitrate and the size give the duration of an ADIF file, the number  *)
(* of samples that of an MP4 file.                                         *)
AacGetInfo ==
  /\ IsAac /\ phase = "info"
  /\ duration' = CASE codec = "adts" -> Parse[AdtsSetup, 0, 0]
                   [] codec = "adif" -> Len(AfterId3) - 1
                   [] codec = "mp4"  -> Len(file)
  /\ Informed
  /\ UNCHANGED <<Chosen, win, at, left, leftPos, nwrit, out, eof>>

(* Seeded bug: the last sample is taken for the end of the file. *)
Mp4AtLast == IsMp4 /\ at >= Len(file)

(* readSample() gives the next sample of the MP4 file or nothing at its    *)
(* end; postDecode() goes on to the next, whatever the decoder said.       *)
Mp4AtEnd == IsMp4 /\ at > Len(file)
Decoded  == IF IsMp4 THEN {k \in {at} : file[k].ok} ELSE DecodedFrom(win)
PostDecode ==
  IF IsMp4 THEN at' = at + 1 /\ UNCHANGED win
  ELSE win' = FillBuffer(win, BytesConsumed(Decoded)) /\ UNCHANGED at

(* One turn of the loop: an error ends it, and so does a loud frame, which *)
(* is gone.                                                                *)
AacSkipSilence ==
  /\ IsAac /\ phase = "silence"
  /\ IF Mp4AtEnd THEN SilenceEnded /\ UNCHANGED <<win, at>>
     ELSE /\ PostDecode
          /\ IF Decoded = {} \/ file[Min(Decoded)].loud THEN SilenceEnded
             ELSE UNCHANGED phase
  /\ UNCHANGED <<Chosen, duration, left, leftPos, nwrit, out, eof>>

(* skip() of an ADTS file: from the first byte that is not processed,      *)
(* header by header.  A bad header is read, and left behind.               *)
AdtsSkipped[pos, passed \in Nat] ==
  IF passed * Second >= want * Rate \/ pos >= FileSize THEN pos
  ELSE LET ks == {k \in ItemAt(pos + 1) : file[k].head}
       IN  IF ks = {} THEN pos + 1
           ELSE AdtsSkipped[pos + BytesConsumed(ks), passed + file[Min(ks)].len]

(* skip() of an ADIF file decodes: one frame at least.                     *)
AdifSkipped[w \in Windows, passed \in Nat] ==
  LET ks == DecodedFrom(w)
      v  == FillBuffer(w, BytesConsumed(ks))
  IN  IF ks = {} THEN v
      ELSE IF passed + file[Min(ks)].len >= ToSamples(want) THEN v
      ELSE AdifSkipped[v, passed + file[Min(ks)].len]

(* skip() of an MP4 file counts durations, of broken samples too, in units *)
(* of the sampling frequency: there is no SBR, the factor f is 1.          *)
Mp4Skipped[sample, passed \in Nat] ==
  IF passed * Second >= want * Rate \/ sample > Len(file) THEN sample
  ELSE Mp4Skipped[sample + 1, passed + file[sample].len]

AacSkip ==
  /\ IsAac /\ phase = "skip"
  /\ IF IsMp4 THEN at' = Mp4Skipped[at, 0] /\ UNCHANGED win
     ELSE /\ win' = IF codec = "adif" THEN AdifSkipped[win, 0]
                    ELSE LET w == [win EXCEPT !.pos = AdtsSkipped[
                                               win.pos - Len(win.buf), 0]]
                         IN  [w EXCEPT !.buf = Ahead(w, InBufSize),
                                       !.pos = @ + Len(Ahead(w, InBufSize))]
          /\ UNCHANGED at
  /\ phase' = "fill"
  /\ UNCHANGED <<Chosen, duration, left, leftPos, nwrit, out, eof>>

(* Seeded bug: m_overflowSize is not reduced. *)
MovedKept(overflow, used) == overflow

(* updateBuffer() starts with the overflow of the call before.  memmove()  *)
(* moves as many samples as were used, not as many as are left.            *)
Moved(overflow, used) ==
  [i \in 1 .. Len(overflow) - used |->
     IF i <= used THEN overflow[used + i] ELSE overflow[i]]
AacOverflow ==
  /\ IsAac /\ phase = "fill" /\ nwrit = 0 /\ left # <<>>
  /\ LET used == Min({PCMBufSize, Len(left)})
     IN  /\ HandOut(SubSeq(left, 1, used))
         /\ left' = Moved(left, used)
  /\ UNCHANGED <<Chosen, phase, duration, win, at, leftPos, eof>>

(* One turn of the loop of updateBuffer(): what does not fit replaces the  *)
(* overflow.                                                               *)
AacUpdateBuffer ==
  /\ IsAac /\ phase = "fill" /\ (left # <<>> => nwrit > 0)
  /\ IF Mp4AtEnd
     THEN eof' = TRUE /\ phase' = "process" /\ UNCHANGED <<win, at, left, nwrit, out>>
     ELSE LET samples == IF Decoded = {} THEN <<>> ELSE SamplesOf(Min(Decoded))
              used    == Min({PCMBufSize - nwrit, Len(samples)})
          IN  /\ HandOut(SubSeq(samples, 1, used))
              /\ IF used < Len(samples)
                 THEN left' = SubSeq(samples, used + 1, Len(samples))
                 ELSE UNCHANGED left
              /\ PostDecode
              /\ eof' = (Decoded = {})
              /\ phase' = IF eof' \/ nwrit' = PCMBufSize THEN "process" ELSE phase
  /\ UNCHANGED <<Chosen, duration, leftPos>>

AacNext == \/ AacInit \/ AacGetInfo \/ AacSkipSilence \/ AacSkip
           \/ AacOverflow \/ AacUpdateBuffer
=============================================================================
