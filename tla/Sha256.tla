-------------------------------- MODULE Sha256 --------------------------------
(***************************************************************************)
(* src/fingerprint/Sha256.cpp: the bytes of a message come in pieces, are  *)
(* gathered into blocks and padded at the end.  The compression of a block *)
(* is left out: a digest is the sequence of blocks that were compressed.   *)
(* A byte is its place in the message, a byte of padding or of the length. *)
(***************************************************************************)
EXTENDS Integers, Sequences

CONSTANTS
  BlockSize,   \* bytes of a block, 64
  LengthBytes  \* bytes of the length behind the padding, 8

ASSUME HashAssumption ==
  BlockSize \in Nat /\ LengthBytes \in Nat /\ LengthBytes < BlockSize

(* SHA256Init().                                                           *)
HashInit == [hashed |-> <<>>, buffer |-> <<>>, totalLength |-> 0]

(* memcpy() to the buffer; SHA256Guts() takes a full one.                  *)
Copied(sc, bytes) == [hashed |-> sc.hashed, buffer |-> sc.buffer \o bytes,
                      totalLength |-> sc.totalLength + 8 * Len(bytes)]
Guts(sc) == IF Len(sc.buffer) = BlockSize
            THEN [hashed |-> Append(sc.hashed, sc.buffer), buffer |-> <<>>,
                  totalLength |-> sc.totalLength]
            ELSE sc

(* Bytes that still fit in the buffer.                                     *)
ToCopy(sc, data) == IF BlockSize - Len(sc.buffer) < Len(data)
                    THEN BlockSize - Len(sc.buffer) ELSE Len(data)
Behind(data, n) == SubSeq(data, n + 1, Len(data))

(* The buffer takes what fits of the data.                                 *)
Filled(t) ==
  LET n == ToCopy(t.sc, t.data)
  IN  [sc |-> Guts(Copied(t.sc, SubSeq(t.data, 1, n))), data |-> Behind(t.data, n)]

(* With SHA256_FAST_COPY a whole block is taken from the data itself.      *)
Taken(t) ==
  [sc |-> [hashed |-> Append(t.sc.hashed, SubSeq(t.data, 1, BlockSize)),
           buffer |-> t.sc.buffer, totalLength |-> t.sc.totalLength + 8 * BlockSize],
   data |-> Behind(t.data, BlockSize)]

(* One turn of the loop over the data, if there is one more.               *)
Turned(fast, t) ==
  IF fast THEN IF Len(t.data) < BlockSize THEN t ELSE Taken(t)
  ELSE IF t.data = <<>> THEN t ELSE Filled(t)

(* SHA256Update(): the fast one first fills a buffer that was begun, and   *)
(* copies the rest at the end.  There are no more turns than bytes.        *)
Begun(fast, sc, data) ==
  IF fast /\ sc.buffer # <<>> THEN Filled([sc |-> sc, data |-> data])
  ELSE [sc |-> sc, data |-> data]
Gathered(fast, sc, data) ==
  LET turn[i \in 0 .. Len(data)] ==
        IF i = 0 THEN Begun(fast, sc, data) ELSE Turned(fast, turn[i - 1])
  IN  turn[Len(data)]
Update(fast, sc, data) ==
  LET t == Gathered(fast, sc, data)
  IN  IF fast THEN Copied(t.sc, t.data) ELSE t.sc

(* Seeded bug: no second block when the length just does not fit.          *)
BytesToPadOnce(n) == (BlockSize - LengthBytes) - (n % (BlockSize - LengthBytes))

(* SHA256Final(): one byte of padding at least, and the length as it was   *)
(* before the padding.                                                     *)
BytesToPad(n) == LET room == 2 * BlockSize - LengthBytes - n
                 IN  IF room > BlockSize THEN room - BlockSize ELSE room
Padding(n) == [i \in 1 .. n |-> <<"pad", IF i = 1 THEN 128 ELSE 0>>]
Final(fast, sc) ==
  Update(fast, Update(fast, sc, Padding(BytesToPad(Len(sc.buffer)))),
         [i \in 1 .. LengthBytes |-> <<"length", sc.totalLength>>])
=============================================================================
