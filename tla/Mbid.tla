--------------------------------- MODULE Mbid ---------------------------------
(***************************************************************************)
(* src/types/mbid_mp3.c: the MusicBrainz identifier of an mp3 file is in   *)
(* the UFID frame of its ID3 tag.  A file is its frames and what is around *)
(* them; a place in it is a number of bytes.  A read past the end clears   *)
(* the static s and leaves the end of the buffer as it was; whatever stood *)
(* there, and bytes that are no frame, are any of a few values: they may   *)
(* look like a UFID frame of MusicBrainz.                                  *)
(***************************************************************************)
EXTENDS Integers, Sequences

CONSTANTS
  PointerBytes,  \* sizeof(char*), 8 on most machines, 4 on some
  Garbage,       \* values of an integer that was never written
  Audio          \* bytes behind the tag

Header   == 10   \* bytes of the header of a tag, and of a frame
UfidData == 59   \* bytes read of a UFID frame
TagLimit == 1048576

NoMbid      == "no mbid"
JunkMbid    == "junk"        \* bytes of the file, but of no frame
GarbageMbid == "garbage"     \* bytes that are not all of the file
NoName      == "no name"     \* of a frame that starts with 0x00
Unwritten   == "unwritten"   \* before the first name is read
FrameNames  == {NoName, "UFID", "other"}

(* Some audio follows every tag, more than a UFID frame that the end of    *)
(* the tag cuts short.                                                     *)
ASSUME AudioAssumption ==
  Audio \in Nat /\ Audio >= UfidData + 4 /\ Garbage \subseteq Int

(* [id3, version, extended, frames, padding, cut]: a file is cut behind as *)
(* many bytes; a frame is [name, size, musicbrainz, mbid], the mbid what   *)
(* stands where the code looks for it.                                     *)
FrameStart(f, k) ==
  LET to[i \in 1 .. Len(f.frames) + 1] ==
        IF i = 1 THEN Header ELSE to[i - 1] + Header + f.frames[i - 1].size
  IN  to[k]
TagSize(f) == FrameStart(f, Len(f.frames) + 1) + f.padding - Header
Whole(f)   == Header + TagSize(f) + Audio
Length(f)  == IF f.cut < Whole(f) THEN f.cut ELSE Whole(f)

(* mfile(): fread(), and s is cleared when bytes are missing.              *)
Short(f, pos, bytes) == pos + bytes > Length(f)
Reached(f, pos, bytes) ==
  IF pos > Length(f) THEN pos ELSE IF Short(f, pos, bytes) THEN Length(f) ELSE pos + bytes

(* fseek() fails before the start of the file.                             *)
Sought(pos, bytes) == IF pos + bytes < 0 THEN pos ELSE pos + bytes

(* to_integer() goes over sizeof(bytes) of them, the size of a pointer.    *)
ToInteger(n) == IF PointerBytes = 4 THEN {n} ELSE Garbage

(* What stands at a place: a frame, the padding, or the inside of either.  *)
FramesAt(f, pos) ==
  {f.frames[k] : k \in {i \in DOMAIN f.frames : FrameStart(f, i) = pos}}
InPadding(f, pos) ==
  pos >= FrameStart(f, Len(f.frames) + 1) /\ pos < Header + TagSize(f)

NamesAt(f, pos) ==
  IF FramesAt(f, pos) # {} THEN {fr.name : fr \in FramesAt(f, pos)}
  ELSE IF InPadding(f, pos) THEN {NoName} ELSE FrameNames
SizesAt(f, pos) ==
  IF FramesAt(f, pos) = {} THEN Garbage
  ELSE UNION {IF f.version = 4 THEN {fr.size} ELSE ToInteger(fr.size) :
                fr \in FramesAt(f, pos)}

(* Seeded bug: the two tests of the version joined by "or".                *)
SupportedBoth(version) == version = 3 /\ version = 4
Supported(version) == version \in {3, 4}

NoFrame == [name |-> NoName, size |-> 0, musicbrainz |-> FALSE, mbid |-> JunkMbid]
FrameAt(f, pos) ==
  IF FramesAt(f, pos) = {} THEN NoFrame ELSE CHOOSE fr \in FramesAt(f, pos) : TRUE

(* Seeded bug: any UFID frame is taken for one of MusicBrainz.             *)
OwnerAny(frame) == TRUE
OwnerMatches(frame) == frame.musicbrainz

Started(r, f) ==
  [r EXCEPT !.file = f, !.phase = "frames", !.name = Unwritten, !.mbid = NoMbid]
Answer(r, mbid) == [r EXCEPT !.phase = "answer", !.mbid = mbid]
(* Seeded bug: a file without a tag is taken for one that cannot be read.  *)
NotFoundCleared(r, read) == [r EXCEPT !.phase = "answer", !.s = FALSE]
NotFound(r, read) == [r EXCEPT !.phase = "answer", !.s = read]
Entered(r, pos, tag, read) == [r EXCEPT !.pos = pos, !.tag = tag, !.s = read]

(* The call of getMP3_MBID() for file f up to its loop over the frames;    *)
(* the static s stays what the call before left.                           *)
Opened(r, f) ==
  IF ~r.s THEN {Answer(Started(r, f), NoMbid)}
  ELSE IF ~f.id3 \/ Short(f, 0, 3) THEN {NotFound(Started(r, f), ~Short(f, 0, 3))}
  ELSE IF ~Supported(f.version) \/ Short(f, 3, 2) THEN {NotFound(Started(r, f), ~Short(f, 0, 5))}
  ELSE IF ~f.extended
  THEN {Entered(Started(r, f), Header, TagSize(f), ~Short(f, 0, Header))}
  ELSE {Entered(Started(r, f), Reached(f, Sought(Header, skip), 4), tag,
                ~Short(f, 0, Header) /\ ~Short(f, Sought(Header, skip), 4)) :
          skip \in IF f.version = 4 THEN {TagSize(f)} ELSE ToInteger(TagSize(f)),
          tag \in Garbage}

Passed(r, name, pos, read) == [r EXCEPT !.name = name, !.pos = pos, !.s = read]

(* The data of a UFID frame at pos: a short read leaves the end of the     *)
(* identifier, or the owner too, as it was.                                *)
UfidRead(r, pos, size, frame) ==
  LET read  == ~Short(r.file, pos, UfidData)
      next  == Passed(r, "UFID", Reached(r.file, pos, UfidData), r.s /\ read)
      owner == IF Short(r.file, pos, 22) \/ frame = NoFrame THEN BOOLEAN
               ELSE {OwnerMatches(frame)}
  IN  {IF size >= UfidData /\ o THEN Answer(next, IF read THEN frame.mbid ELSE GarbageMbid)
       ELSE next : o \in owner}

(* A name that cannot be read stays the one before; one of which only the  *)
(* beginning is read, or the first of a call, may become any.              *)
NamesRead(f, pos, name) ==
  IF ~Short(f, pos, 4) THEN NamesAt(f, pos)
  ELSE IF Short(f, pos, 1) /\ name # Unwritten THEN {name} ELSE FrameNames
SizesRead(f, pos) == IF Short(f, pos, 8) THEN Garbage ELSE SizesAt(f, pos)

(* The rest of a frame of a name and a size.                               *)
RestRead(r, name, size) ==
  LET read == ~Short(r.file, r.pos, 8)
      data == Reached(r.file, r.pos, 8) + 2
  IN  IF name = "UFID"
      THEN UfidRead(Passed(r, name, r.pos, read), data, size, FrameAt(r.file, r.pos))
      ELSE {Passed(r, name, Sought(data, size), read)}

(* One turn of the loop over the frames.                                   *)
FrameRead(r) ==
  IF ~r.s \/ r.pos > r.tag \/ r.pos > TagLimit THEN {Answer(r, NoMbid)}
  ELSE UNION {IF name = NoName THEN {NotFound(r, ~Short(r.file, r.pos, 4))}
              ELSE UNION {RestRead(r, name, size) : size \in SizesRead(r.file, r.pos)} :
                name \in NamesRead(r.file, r.pos, r.name)}
=============================================================================
