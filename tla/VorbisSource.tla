---------------------------- MODULE VorbisSource ----------------------------
(***************************************************************************)
(* src/fingerprint/contrib/VorbisSource.cpp over libvorbisfile, which      *)
(* reads the file itself: `at' and `leftPos' are its place in the stream.  *)
(***************************************************************************)
EXTENDS PcmSource

IsVorbis == codec = "vorbis"
VorbisAt(item, pos) == at' = item /\ leftPos' = pos

OvHole == at <= Len(file) /\ ~file[at].ok

(* Seeded bug: ov_read() is not told how much room is left. *)
OvReadWhole(n) == IF at > Len(file) THEN <<>>
                  ELSE SubSeq(SamplesOf(at), leftPos + 1, file[at].len)

(* ov_read(): at most n samples of one packet; a broken packet is a hole,  *)
(* reported by a negative number.                                          *)
OvRead(n) == IF at > Len(file) THEN <<>>
             ELSE SubSeq(SamplesOf(at), leftPos + 1,
                         IF leftPos + n < file[at].len THEN leftPos + n
                         ELSE file[at].len)
OvMoved(n) == IF leftPos + n < file[at].len THEN VorbisAt(at, leftPos + n)
              ELSE VorbisAt(at + 1, 0)

VorbisInit ==
  /\ IsVorbis /\ phase = "init"
  /\ \E opens, oneStream \in BOOLEAN : Opened(opens /\ oneStream)
  /\ UNCHANGED <<Chosen, duration, win, at, left, leftPos, nwrit, out, eof>>

VorbisGetInfo ==
  /\ IsVorbis /\ phase = "info"
  /\ duration' = Len(file) /\ Informed
  /\ UNCHANGED <<Chosen, win, at, left, leftPos, nwrit, out, eof>>

(* One turn of the loop: the packet that is loud enough is dropped too.    *)
VorbisSkipSilence ==
  /\ IsVorbis /\ phase = "silence"
  /\ IF at > Len(file)
     THEN eof' = TRUE /\ SilenceEnded /\ UNCHANGED <<at, leftPos>>
     ELSE /\ VorbisAt(at + 1, 0)
          /\ IF file[at].ok /\ file[at].loud THEN SilenceEnded
             ELSE UNCHANGED phase
          /\ UNCHANGED eof
  /\ UNCHANGED <<Chosen, duration, win, left, nwrit, out>>

(* ov_time_seek() to the time of now plus mSecs; past the end it fails and *)
(* the place stays.                                                        *)
VorbisSkip ==
  /\ IsVorbis /\ phase = "skip"
  /\ LET to == SamplesTo(at) + leftPos + ToSamples(want)
     IN  IF \E k \in DOMAIN file : to + 1 \in ToSet(SamplesOf(k))
         THEN \E k \in DOMAIN file :
                /\ to + 1 \in ToSet(SamplesOf(k))
                /\ VorbisAt(k, to - SamplesTo(k))
         ELSE UNCHANGED <<at, leftPos>>
  /\ phase' = "fill"
  /\ UNCHANGED <<Chosen, duration, win, left, nwrit, out, eof>>

(* One turn of the loop of updateBuffer().                                 *)
VorbisUpdateBuffer ==
  /\ IsVorbis /\ phase = "fill"
  /\ \/ /\ OvHole
        /\ VorbisAt(at + 1, 0)
        /\ UNCHANGED <<phase, nwrit, out, eof>>
     \/ /\ ~OvHole
        /\ LET read == OvRead(PCMBufSize - nwrit)
           IN  /\ HandOut(read)
               /\ IF read = <<>>
                  THEN /\ eof' = TRUE /\ phase' = "process"
                       /\ UNCHANGED <<at, leftPos>>
                  ELSE /\ OvMoved(Len(read))
                       /\ phase' = IF nwrit' = PCMBufSize THEN "process"
                                   ELSE phase
                       /\ UNCHANGED eof
  /\ UNCHANGED <<Chosen, duration, win, left>>

VorbisNext == \/ VorbisInit \/ VorbisGetInfo \/ VorbisSkipSilence
              \/ VorbisSkip \/ VorbisUpdateBuffer
=============================================================================
