----------------------------- MODULE PcmSource -----------------------------
(***************************************************************************)
(* What the four decoders of src/fingerprint/contrib have in common, and   *)
(* the loop of Fingerprint::generate() that drives them: init(),           *)
(* getInfo(), skipSilence(), skip() and updateBuffer() until the           *)
(* extractor is done, see FingerprintableSource.h.                         *)
(*                                                                         *)
(* A file is a sequence of items.  A frame has a size in the file, a       *)
(* number of samples, is loud or silent, and ok or broken: only its body,  *)
(* or its header, too.  A byte and a sample are numbers: their place in    *)
(* the file and in the decoded stream.  So a buffer that loses, repeats or *)
(* moves data shows it in its content.                                     *)
(***************************************************************************)
EXTENDS Integers, Sequences, SequencesExt

CONSTANTS
  PCMBufSize,  \* samples that the buffer of generate() holds
  InBufSize,   \* bytes that the input buffer of a decoder holds
  Frames,      \* the frames a file is made of
  MaxFrames,   \* bound: frames of a file
  MaxBroken,   \* bound: broken frames of a file
  Id3Sizes,    \* bytes that an ID3 tag in front of the file may have
  Skips,       \* milliseconds that generate() asks skip() for
  Rate, Second, \* so many samples in so many milliseconds
  PreBuffer    \* samples that the extractor wants before it makes any key

(* 131072 samples of generate() against at most 4096 of a frame; 4608 and  *)
(* 40960 bytes of the input buffers against the longest frames.            *)
ASSUME BuffersAreLarger ==
  \A f \in Frames : /\ f.kind = "frame" /\ f.len \in 1 .. PCMBufSize - 1
                    /\ f.bytes \in 1 .. InBufSize - 1 /\ (f.ok => f.head)
ASSUME TimeHasSamples == Rate \in Nat \ {0} /\ Second \in Nat \ {0}

VARIABLES
  codec,     \* the class of the source, and the container of an AacSource
  file,      \* the items of the file
  complete,  \* m_complete of the Fingerprint: nothing is skipped
  want,      \* getToSkipMs()
  phase,     \* the call that generate() is in; "dead" after a crash
  duration,  \* what getInfo() said, in frames
  win,       \* the input buffer and the position in the file
  at,        \* the item that a decoder which reads the file itself is at; 0
             \* after a read that failed
  left,      \* decoded samples not handed out yet: m_overflow, pcm, m_outBuf
  leftPos,   \* m_pcmpos, m_outBufPos
  nwrit,     \* samples written by the updateBuffer() under way
  out,       \* every sample that was handed out, in this order
  eof

vars == <<codec, file, complete, want, phase, duration, win, at, left,
          leftPos, nwrit, out, eof>>
Chosen == <<codec, file, complete, want>>

(* An ID3 tag in front, the header of an ADIF file, and the tags that may  *)
(* follow the last frame.                                                  *)
NoFrame(kind, bytes, ok) == [kind |-> kind, bytes |-> bytes, len |-> 0,
                             loud |-> FALSE, head |-> FALSE, ok |-> ok]
Id3(size) == NoFrame("id3", size, TRUE)
Adif      == NoFrame("adif", 1, TRUE)
Tag       == NoFrame("tag", 2, FALSE)

(* Each item with the number of bytes and of samples that stand before it. *)
Before(items, k, field) == FoldLeft(LAMBDA sum, item : sum + item[field], 0,
                                    SubSeq(items, 1, k - 1))
Placed(items) ==
  [k \in DOMAIN items |->
     [kind |-> items[k].kind, bytes |-> items[k].bytes, len |-> items[k].len,
      loud |-> items[k].loud, head |-> items[k].head, ok |-> items[k].ok,
      byte |-> Before(items, k, "bytes"), sample |-> Before(items, k, "len")]]

FileSize     == IF file = <<>> THEN 0 ELSE Last(file).byte + Last(file).bytes
FileLen      == IF file = <<>> THEN 0 ELSE Last(file).sample + Last(file).len
ByteOf(k)    == IF k > Len(file) THEN FileSize + 1 ELSE file[k].byte + 1
SamplesTo(k) == IF k > Len(file) THEN FileLen ELSE file[k].sample
SamplesOf(k) == [i \in 1 .. file[k].len |-> file[k].sample + i]
AllSamples   == 1 .. FileLen
Decodable(s) == \E k \in DOMAIN file :
                  /\ file[k].kind = "frame" /\ file[k].ok
                  /\ s \in file[k].sample + 1 .. file[k].sample + file[k].len

(* The samples of so many milliseconds, cut off to a whole number, and the *)
(* milliseconds of so many samples.                                        *)
ToSamples(ms) == (ms * Rate) \div Second
ToMs(samples) == (samples * Second) \div Rate

(* fread(): up to n bytes from the position, which moves behind them.      *)
Bytes(pos, n) == [i \in 1 .. n |-> pos + i]
Ahead(w, n)   == LET m == IF w.pos + n <= FileSize THEN n ELSE FileSize - w.pos
                 IN  Bytes(w.pos, m)
Windows == [buf : Seq(Nat), pos : Nat, next : Nat, refill : BOOLEAN]
Nowhere == [buf |-> <<>>, pos |-> 0, next |-> 1, refill |-> TRUE]

(* The item whose first byte b is; none for a byte inside an item.         *)
StartsAt(k, b) == k \in DOMAIN file /\ b = ByteOf(k)
ItemAt(b)      == {k \in DOMAIN file : StartsAt(k, b)}

(* A decoder finds the whole item k at the front of these bytes.           *)
Holds(bytes, k) == /\ Len(bytes) >= file[k].bytes
                   /\ SubSeq(bytes, 1, file[k].bytes)
                        = Bytes(ByteOf(k) - 1, file[k].bytes)

(* Bound: a file has a tag at one end only.                                *)
Init ==
  /\ codec \in {"adts", "adif", "mp4", "mad", "flac", "vorbis"}
  /\ \E frames \in BoundedSeq(Frames, MaxFrames), id3 \in Id3Sizes \cup {0},
        tag \in BOOLEAN :
       /\ id3 # 0 \/ tag => codec \in {"adts", "adif"}
       /\ id3 = 0 \/ ~tag
       /\ Cardinality({k \in DOMAIN frames : ~frames[k].ok}) <= MaxBroken
       /\ codec \notin {"adts", "mad"} =>
            \A k \in DOMAIN frames : frames[k].head = frames[k].ok
       /\ file = Placed((IF id3 # 0 THEN <<Id3(id3)>> ELSE <<>>)
                   \o (IF codec = "adif" THEN <<Adif>> ELSE <<>>)
                   \o frames \o (IF tag THEN <<Tag>> ELSE <<>>))
  /\ complete \in BOOLEAN /\ want \in Skips
  /\ complete => want = 0
  /\ phase = "init" /\ duration = 0
  /\ win = Nowhere /\ at = 1 /\ left = <<>> /\ leftPos = 0
  /\ nwrit = 0 /\ out = <<>> /\ eof = FALSE

(* The codec hands samples to the buffer of updateBuffer().                *)
HandOut(samples) == /\ out' = out \o samples
                    /\ nwrit' = nwrit + Len(samples)

(* init() throws, or getInfo() reports less than k_minTrackDuration.       *)
Opened(ok)   == phase' = IF ok THEN "info" ELSE "failed"
Informed     == phase' = IF duration' = 0 THEN "failed" ELSE "silence"
SilenceEnded == phase' = IF complete THEN "fill" ELSE "skip"

(* updateBuffer() has returned.  Nothing read ends the loop; else the      *)
(* extractor takes the samples.  Without its prebuffer it cannot be done,  *)
(* and wants more even at the end of the stream; with it, the end of the   *)
(* stream is the end of it.                                                *)
Process ==
  /\ phase = "process"
  /\ \E fpDone \in BOOLEAN :
       /\ fpDone /\ nwrit > 0 => Len(out) > PreBuffer
       /\ nwrit = 0 \/ (eof /\ Len(out) - nwrit >= PreBuffer) => fpDone
       /\ phase' = IF fpDone THEN "done" ELSE "fill"
  /\ nwrit' = 0
  /\ UNCHANGED <<Chosen, duration, win, at, left, leftPos, out, eof>>

Ended == phase \in {"done", "failed", "dead"} /\ UNCHANGED vars
=============================================================================
