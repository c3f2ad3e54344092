------------------------------- MODULE Frames -------------------------------
(***************************************************************************)
(* The bytes of nativemsg/io.go: a message has its length in front, a      *)
(* uint32 with the low byte first, which encoding/binary writes and reads. *)
(***************************************************************************)
EXTENDS SequencesExt, Integers

CONSTANTS
  MaxByte,   \* the largest byte (255)
  Width      \* bytes of a length (4)

ASSUME FramesAssumption == MaxByte \in Nat \ {0} /\ Width \in Nat \ {0}

Byte == 0 .. MaxByte

\* The weight of the byte with i before it.
Weight[i \in 0 .. Width] == IF i = 0 THEN 1 ELSE (MaxByte + 1) * Weight[i - 1]

\* Lengths stay below this (2^32).
Capacity == Weight[Width]

\* binary.Write of a uint32, little-endian.
LittleEndian(n) == [i \in 1 .. Width |-> (n \div Weight[i - 1]) % (MaxByte + 1)]

\* binary.Read of a uint32.
Value(bytes) ==
  LET sum[i \in 0 .. Width] ==
        IF i = 0 THEN 0 ELSE sum[i - 1] + bytes[i] * Weight[i - 1]
  IN  sum[Width]

Framed(m) == LittleEndian(Len(m)) \o m

Drop(bytes, n) == SubSeq(bytes, n + 1, Len(bytes))

\* The bytes end before their first message does.
Torn(bytes) == Len(bytes) < Width \/ Len(bytes) < Width + Value(bytes)

\* The messages a reader of the bytes finds, up to the first that is not whole.
Unframed[bytes \in Seq(Byte)] ==
  IF Torn(bytes)
  THEN <<>>
  ELSE <<SubSeq(bytes, Width + 1, Width + Value(bytes))>>
         \o Unframed[Drop(bytes, Width + Value(bytes))]

\* The frames of messages, one after the other.
Stream(ms) == FlattenSeq([i \in DOMAIN ms |-> Framed(ms[i])])
=============================================================================
