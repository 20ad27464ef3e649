----------------------------- MODULE MadSource -----------------------------
(***************************************************************************)
(* src/fingerprint/contrib/MadSource.cpp over libmad.  win.buf is the      *)
(* input buffer, win.next the place of next_frame in it, win.refill says   *)
(* that the stream has no buffer yet or stopped with MAD_ERROR_BUFLEN.     *)
(***************************************************************************)
EXTENDS PcmSource, FiniteSetsExt

IsMad == codec = "mad"

Guard == 0

(* Seeded bug: no guard behind the last byte of the file. *)
FetchedUnguarded(w) ==
  IF ~w.refill THEN w
  ELSE LET rest == SubSeq(w.buf, w.next, Len(w.buf))
           read == Ahead(w, InBufSize - Len(rest))
       IN  [buf |-> rest \o read, pos |-> w.pos + Len(read), next |-> 1,
            refill |-> FALSE]

(* fetchData(): what is left of the buffer moves to its front and the file *)
(* is read behind it; behind the last byte of the file comes the guard.    *)
Fetched(w) ==
  IF ~w.refill THEN w
  ELSE LET remaining == SubSeq(w.buf, w.next, Len(w.buf))
           read      == Ahead(w, InBufSize - Len(remaining))
           pos       == w.pos + Len(read)
       IN  [buf  |-> remaining \o read
                     \o (IF pos = FileSize THEN <<Guard>> ELSE <<>>),
            pos  |-> pos, next |-> 1, refill |-> FALSE]
NothingElse(w) == /\ w.refill
                  /\ Ahead(w, InBufSize - (Len(w.buf) - w.next + 1)) = <<>>

(* libmad decodes the frame at next_frame, or its header only, when        *)
(* something comes behind it in the buffer, passes over a broken one with  *)
(* a recoverable error, and asks for more data otherwise.                  *)
Input(w)     == SubSeq(w.buf, w.next, Len(w.buf))
Complete(w)  == {k \in DOMAIN file :
                   /\ Input(w) # <<>> /\ StartsAt(k, Input(w)[1])
                   /\ Holds(Input(w), k) /\ Len(Input(w)) > file[k].bytes}
Advanced(w)  == IF Complete(w) = {} THEN [w EXCEPT !.refill = TRUE]
                ELSE [w EXCEPT !.next = @ + file[Min(Complete(w))].bytes]
MadHeader(w) == {k \in Complete(w) : file[k].head}
MadFrame(w)  == {k \in MadHeader(w) : file[k].ok}

MadInit ==
  /\ IsMad /\ phase = "init"
  /\ \E opens \in BOOLEAN : Opened(opens)
  /\ UNCHANGED <<Chosen, duration, win, at, left, leftPos, nwrit, out, eof>>

(* The loop of getInfo(), with a buffer and a file of its own: the number  *)
(* of headers that it decodes.                                             *)
Counted[w \in Windows, nFrames \in Nat] ==
  IF NothingElse(w) THEN nFrames
  ELSE LET v == Fetched(w)
       IN  Counted[Advanced(v), nFrames + Cardinality(MadHeader(v))]

MadGetInfo ==
  /\ IsMad /\ phase = "info"
  /\ duration' = Counted[Nowhere, 0] /\ Informed
  /\ UNCHANGED <<Chosen, win, at, left, leftPos, nwrit, out, eof>>

(* eof() asks the file: atEnd() once the last byte is in the buffer.       *)
MadEof == eof' = (win'.pos = FileSize)

(* One turn of the loop: decodes into a frame of its own, so the loud one  *)
(* is gone.                                                                *)
MadSkipSilence ==
  /\ IsMad /\ phase = "silence"
  /\ IF NothingElse(win) THEN SilenceEnded /\ UNCHANGED <<win, eof>>
     ELSE LET w == Fetched(win)
          IN  /\ win' = Advanced(w) /\ MadEof
              /\ IF \E k \in MadFrame(w) : file[k].loud THEN SilenceEnded
                 ELSE UNCHANGED phase
  /\ UNCHANGED <<Chosen, duration, at, left, leftPos, nwrit, out>>

(* skip(): headers only, until m_mad_timer says enough.                    *)
MadSkipped[w \in Windows, timer \in Nat] ==
  IF NothingElse(w) THEN w
  ELSE LET v   == Fetched(w)
           now == timer + IF MadHeader(v) = {} THEN 0
                          ELSE file[Min(MadHeader(v))].len
       IN  IF MadHeader(v) # {} /\ ToMs(now) >= want THEN Advanced(v)
           ELSE MadSkipped[Advanced(v), now]

MadSkip ==
  /\ IsMad /\ phase = "skip"
  /\ win' = (IF want <= 0 THEN win ELSE MadSkipped[win, 0]) /\ MadEof
  /\ phase' = "fill"
  /\ UNCHANGED <<Chosen, duration, at, left, leftPos, nwrit, out>>

(* One turn of the loop of updateBuffer(): a new frame when the last one   *)
(* is used up, then as much of it as the buffer takes.                     *)
Copy(pcm, pos) ==
  LET used == Min({Len(pcm) - pos, PCMBufSize - nwrit})
  IN  /\ HandOut(SubSeq(pcm, pos + 1, pos + used))
      /\ left' = pcm /\ leftPos' = pos + used
      /\ phase' = IF nwrit' = PCMBufSize THEN "process" ELSE phase

MadUpdateBuffer ==
  /\ IsMad /\ phase = "fill"
  /\ IF leftPos < Len(left) THEN Copy(left, leftPos) /\ UNCHANGED <<win, eof>>
     ELSE IF NothingElse(win)
     THEN phase' = "process" /\ UNCHANGED <<win, left, leftPos, nwrit, out, eof>>
     ELSE LET w == Fetched(win)
          IN  /\ win' = Advanced(w) /\ MadEof
              /\ IF MadFrame(w) = {}
                 THEN UNCHANGED <<phase, left, leftPos, nwrit, out>>
                 ELSE Copy(SamplesOf(Min(MadFrame(w))), 0)
  /\ UNCHANGED <<Chosen, duration, at>>

MadNext == \/ MadInit \/ MadGetInfo \/ MadSkipSilence
           \/ MadSkip \/ MadUpdateBuffer
=============================================================================
