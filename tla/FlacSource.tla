----------------------------- MODULE FlacSource -----------------------------
(***************************************************************************)
(* src/fingerprint/contrib/FlacSource.cpp over libFLAC, which reads the    *)
(* file itself and hands each frame to write_callback().                   *)
(***************************************************************************)
EXTENDS PcmSource, FiniteSetsExt

IsFlac == codec = "flac"

(* The frame that FLAC__stream_decoder_process_single() decodes next: a    *)
(* broken one is told to error_callback(), which only prints, and the      *)
(* search goes on.                                                         *)
FlacAhead == {k \in DOMAIN file : at # 0 /\ k >= at /\ file[k].ok}
FlacAtEnd == FlacAhead = {}

(* It returns false when the file cannot be read, which aborts the decoder *)
(* for good: later calls do nothing; or when the last frame is cut short,  *)
(* and then it is at the end of the stream.                                *)
FlacFatal == /\ at \in DOMAIN file
             /\ at' = 0 \/ (FlacAtEnd /\ at' = Len(file) + 1)
FlacEnds  == at' = IF at = 0 THEN 0 ELSE Len(file) + 1

(* write_callback(): the frame replaces what the buffer held.              *)
WriteCallback == /\ left' = SamplesOf(Min(FlacAhead))
                 /\ at' = Min(FlacAhead) + 1

(* Only 16 bits per sample are supported.                                  *)
FlacInit ==
  /\ IsFlac /\ phase = "init"
  /\ \E opens, sixteenBit \in BOOLEAN : Opened(opens /\ sixteenBit)
  /\ UNCHANGED <<Chosen, duration, win, at, left, leftPos, nwrit, out, eof>>

FlacGetInfo ==
  /\ IsFlac /\ phase = "info"
  /\ duration' = Len(file) /\ Informed
  /\ UNCHANGED <<Chosen, win, at, left, leftPos, nwrit, out, eof>>

(* Seeded bug: a sum of nothing is not loud enough (> in place of >=). *)
LoudStrict(samples) == \E k \in DOMAIN file : /\ file[k].loud
                                              /\ samples = SamplesOf(k)

(* One turn of the loop.  At the end of the stream process_single() still  *)
(* succeeds and calls nothing back: the buffer is summed again as it is.   *)
(* A fatal read ends the loop as a loud frame does.                        *)
Loud(samples) == \/ samples = <<>>
                 \/ \E k \in DOMAIN file : /\ file[k].loud
                                           /\ samples = SamplesOf(k)
FlacSkipSilence ==
  /\ IsFlac /\ phase = "silence"
  /\ \/ /\ IF FlacAtEnd THEN FlacEnds ELSE at' = Min(FlacAhead) + 1
        /\ LET heard == IF FlacAtEnd THEN left ELSE SamplesOf(Min(FlacAhead))
           IN  IF Loud(heard) THEN left' = <<>> /\ SilenceEnded
               ELSE left' = heard /\ UNCHANGED phase
     \/ FlacFatal /\ left' = <<>> /\ SilenceEnded
  /\ UNCHANGED <<Chosen, duration, win, leftPos, nwrit, out, eof>>

(* Seeded bug: m_samplePos is not counted while silence is skipped. *)
SamplePosUncounted == 0

(* m_samplePos counts the samples of the frames called back so far.        *)
SamplePos == FoldLeft(LAMBDA sum, item : sum + IF item.ok THEN item.len ELSE 0,
                      0, SubSeq(file, 1, at - 1))

(* The seek hands the rest of the frame it lands in to write_callback(),   *)
(* and m_outBufLen = 0 forgets it.  A seek past the end fails, as any seek *)
(* of an aborted decoder, and reset() rewinds the file.                    *)
FlacSkip ==
  /\ IsFlac /\ phase = "skip"
  /\ LET absSample == SamplePos + ToSamples(want)
     IN  IF at # 0 /\ absSample + 1 \in AllSamples
         THEN \E k \in DOMAIN file : /\ absSample + 1 \in ToSet(SamplesOf(k))
                                     /\ at' = k + 1
         ELSE at' = 1
  /\ left' = <<>> /\ phase' = "fill"
  /\ UNCHANGED <<Chosen, duration, win, leftPos, nwrit, out, eof>>

(* "Fatal error decoding FLAC": updateBuffer() returns 0, whatever it has  *)
(* copied before.                                                          *)
FlacFails == /\ FlacFatal /\ leftPos' = 0 /\ phase' = "process"
             /\ out' = SubSeq(out, 1, Len(out) - nwrit) /\ nwrit' = 0
             /\ UNCHANGED <<left, eof>>

(* One turn of the loop of updateBuffer(): what the last frame left, then, *)
(* once it is used up, the next frame.                                     *)
FlacUpdateBuffer ==
  /\ IsFlac /\ phase = "fill"
  /\ LET rest == Len(left) - leftPos
         used == Min({PCMBufSize - nwrit, rest})
     IN  \/ /\ HandOut(SubSeq(left, leftPos + 1, leftPos + used))
            /\ IF used < rest
               THEN leftPos' = used /\ UNCHANGED <<left, at, eof>>
               ELSE /\ leftPos' = 0
                    /\ IF FlacAtEnd
                       THEN FlacEnds /\ eof' = (at # 0) /\ UNCHANGED left
                       ELSE WriteCallback /\ UNCHANGED eof
            /\ phase' = IF nwrit' = PCMBufSize \/ eof' THEN "process" ELSE phase
         \/ used = rest /\ FlacFails
  /\ UNCHANGED <<Chosen, duration, win>>

FlacNext == \/ FlacInit \/ FlacGetInfo \/ FlacSkipSilence
            \/ FlacSkip \/ FlacUpdateBuffer
=============================================================================
