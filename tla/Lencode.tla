------------------------------ MODULE Lencode ------------------------------
(***************************************************************************)
(* internal/lencode: a handle is a sequence of parts, each written as the  *)
(* separator, one byte with the length of the part, and the part.          *)
(*                                                                         *)
(* An encoder is what it has written and its error; a decoder is what is   *)
(* left to read, its error, and the part it has just returned.  Both keep  *)
(* their first error and do nothing any more after it.                     *)
(***************************************************************************)
EXTENDS Sequences, Integers

CONSTANTS
  MaxByte,     \* the largest byte, and so the longest part (255)
  Separator    \* SeparatorOpt: "TPM" for the handles of tpm.go

Byte == 0 .. MaxByte

ASSUME LencodeAssumption == MaxByte \in Nat /\ Separator \in Seq(Byte)

NewEncoder == [out |-> <<>>, failed |-> FALSE]

\* One length byte is all there is.
Fits(msg) == Len(msg) <= MaxByte

\* A part as it is written.
Framed(msg) == Separator \o <<Len(msg)>> \o msg

\* Encode.  The writer is a bytes.Buffer, whose writes do not fail.
Encode(e, msg) ==
  IF e.failed \/ ~Fits(msg)
  THEN [e EXCEPT !.failed = TRUE]
  ELSE [e EXCEPT !.out = @ \o Framed(msg)]

NewDecoder(bytes) == [rest |-> bytes, error |-> "none", part |-> <<>>]

PrefixLen == Len(Separator) + 1

\* What follows the prefix.
Body(bytes) == SubSeq(bytes, PrefixLen + 1, Len(bytes))

\* The error of readPrefix and of the ReadFull in DecodeInto, if there is one.
ReadError(bytes) ==
  CASE bytes = <<>> -> "EOF"
    [] bytes # <<>> /\ Len(bytes) < PrefixLen -> "unexpected EOF"
    [] Len(bytes) >= PrefixLen /\ SubSeq(bytes, 1, Len(Separator)) # Separator ->
         "separator mismatch"
    [] OTHER ->
         IF Len(Body(bytes)) < bytes[PrefixLen] THEN "unexpected EOF" ELSE "none"

\* Decode: readPrefix, then DecodeInto with a buffer of just that length.
Decode(d) ==
  LET error == IF d.error # "none" THEN d.error ELSE ReadError(d.rest)
      length == d.rest[PrefixLen]
      body == Body(d.rest)
  IN  IF error # "none"
      THEN [rest |-> d.rest, error |-> error, part |-> <<>>]
      ELSE [rest  |-> SubSeq(body, length + 1, Len(body)),
            error |-> "none",
            part  |-> SubSeq(body, 1, length)]
=============================================================================
