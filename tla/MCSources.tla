----------------------------- MODULE MCSources -----------------------------
(***************************************************************************)
(* The four sources under the loop of Fingerprint::generate(): a behaviour *)
(* is the life of one source with one file.                                *)
(***************************************************************************)
EXTENDS AacSource, MadSource, FlacSource, VorbisSource

Frame(bytes, len, loud) == [kind |-> "frame", bytes |-> bytes, len |-> len,
                            loud |-> loud, head |-> TRUE, ok |-> TRUE]
Broken(frame, head)     == [frame EXCEPT !.ok = FALSE, !.head = head]
MCFrames == {Frame(2, 2, TRUE), Frame(2, 3, FALSE), Frame(3, 3, TRUE)}
              \cup {Broken(Frame(2, 2, TRUE), head) : head \in BOOLEAN}

Next == AacNext \/ MadNext \/ FlacNext \/ VorbisNext \/ Process \/ Ended

Spec     == Init /\ [][Next]_vars
FairSpec == Spec /\ WF_vars(Next)

-----------------------------------------------------------------------------
(* What a frame of the stream is to skip() and skipSilence().              *)
MaxLen == Max({f.len : f \in Frames})
Windowed == codec \in {"adts", "adif", "mad"}

(* The type of the state; updateBuffer() never writes past the caller's    *)
(* buffer and the input buffers never hold more than they were made for,   *)
(* the guard of libmad aside.                                              *)
TypeOK ==
  /\ phase \in {"init", "info", "silence", "skip", "fill", "process", "done",
                "failed", "dead"}
  /\ nwrit \in 0 .. PCMBufSize
  /\ Len(win.buf) <= InBufSize + 1 /\ win.pos \in 0 .. FileSize
  /\ at \in 0 .. Len(file) + 1 /\ leftPos \in 0 .. PCMBufSize
  /\ duration \in 0 .. Len(file)

(* The samples handed out over all calls of updateBuffer() are the decoded *)
(* stream: none comes twice or out of order, and none is missing between   *)
(* two of them unless its frame is broken.  What does not fit into one     *)
(* buffer must come first in the next.  FlacSource, called again after the *)
(* end of the stream, hands out its last frame again.                      *)
SamplesInOrder ==
  \A i \in 1 .. Len(out) - 1 :
    \/ /\ out[i] < out[i + 1]
       /\ \A s \in out[i] + 1 .. out[i + 1] - 1 : ~Decodable(s)
    \/ IsFlac /\ eof /\ out[i] = Last(out)

(* After updateBuffer() has returned with eof() true, every frame that     *)
(* decodes was handed out to its last sample: FAAD stops at a broken       *)
(* frame, and an mp3 file is at its end while the input buffer is not used *)
(* up, so for MadSource the samples still in there are missing.  It only   *)
(* returns nothing without that when libFLAC could not read the file.      *)
Stopped(s)  == \E k \in DOMAIN file : ~file[k].ok /\ SamplesTo(k) < s
InWindow(s) == \E k \in DOMAIN file : /\ s \in ToSet(SamplesOf(k))
                                      /\ ByteOf(k) \in ToSet(win.buf)
EofIsTheEnd ==
  phase = "process" =>
    /\ eof /\ out # <<>> =>
         \A s \in AllSamples : s > Last(out) /\ Decodable(s) =>
           \/ IsAac /\ Stopped(s)
           \/ IsMad /\ (InWindow(s) \/ s \in ToSet(left))
    /\ nwrit = 0 /\ ~eof => IsFlac /\ at \notin DOMAIN file

(* The input buffer holds the bytes of the file up to the position of the  *)
(* file in one piece, whatever was moved, read and thrown away before.     *)
WindowInOnePiece ==
  Windowed /\ win.buf # <<>> =>
    LET bytes == SelectSeq(win.buf, LAMBDA b : b # Guard)
    IN  bytes = Bytes(win.pos - Len(bytes), Len(bytes))

(* getInfo() counts the headers of an ADTS file up to the first one that   *)
(* is broken, of an mp3 file all that are not broken: what skip() goes     *)
(* through, and decoding unless a body is broken.                          *)
Headers(k) == {j \in 1 .. k : file[j].head}
DurationOfTheFile ==
  phase = "silence" =>
    /\ codec = "mad" => duration = Cardinality(Headers(Len(file)))
    /\ codec = "adts" =>
         duration = Max({Cardinality(Headers(k)) : k \in
                         {j \in DOMAIN file : \A i \in 1 .. j :
                            file[i].kind = "id3" \/ file[i].head}} \cup {0})

(* No ID3 tag that the input buffer holds crashes the process: what the    *)
(* setup of AacSource takes off the buffer is in there.                    *)
SetupFits == phase = "dead" => file[1].kind = "id3" /\ file[1].bytes > InBufSize

(* The samples that leave a source: all of the stream, in its order.       *)
StreamIsWhole == SamplesInOrder /\ EofIsTheEnd

(* What the decoders read: within its buffers, one piece of the file, and  *)
(* the frames counted over it are all that there are.                      *)
InputIsWhole == TypeOK /\ WindowInOnePiece /\ DurationOfTheFile /\ SetupFits

(* Where the next sample comes from, and whether frames are broken.        *)
NextSample ==
  IF ~Windowed THEN SamplesTo(at) + IF IsVorbis THEN leftPos ELSE 0
  ELSE LET input == SubSeq(win.buf, win.next, Len(win.buf))
           byte  == IF input = <<>> \/ Head(input) = Guard THEN FileSize + 1
                    ELSE Head(input)
       IN  SamplesTo(Min({k \in 1 .. Len(file) + 1 : ByteOf(k) >= byte}))
NoneBroken == \A k \in DOMAIN file : file[k].kind = "frame" => file[k].ok

(* skip() leaves out what it was asked to, less than one sample short of   *)
(* it, and at most one frame more: the extractor takes the rest for what   *)
(* follows the skipped time.  Past the end of the stream there is no       *)
(* promise, nor in a file that could not be read: FlacSource rewinds.      *)
SkipIsTight ==
  [][phase = "skip" /\ NoneBroken /\ at # 0
       /\ (NextSample - FileLen) * Second + want * Rate < 0
     => LET skipped == NextSample' - NextSample
        IN  /\ (skipped + 1) * Second > want * Rate
            /\ (skipped - MaxLen) * Second <= want * Rate]_vars

(* generate() comes to an end for every file, unless a FLAC file is silent *)
(* to its last frame: its skipSilence() turns for ever; or one that is to  *)
(* be read from its start cannot be read there: its updateBuffer() does.   *)
SilentToTheEnd == /\ IsFlac /\ \E k \in DOMAIN file : file[k].ok
                  /\ \A k \in DOMAIN file : file[k].ok => ~file[k].loud
Aborted == IsFlac /\ complete /\ at = 0 /\ phase = "fill"
GenerateEnds == \/ SilentToTheEnd
                \/ <>(phase \in {"done", "failed", "dead"} \/ Aborted)
=============================================================================
