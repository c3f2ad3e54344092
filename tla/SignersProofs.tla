---------------------------- MODULE SignersProofs ----------------------------
(* Proofs about handles.  First their encoding, for any separator and any  *)
(* size of a byte: decoding gives back what was encoded, and what can be   *)
(* decoded is an encoding.  Then the handles of both signers, for any      *)
(* number of key pairs and any bytes they consist of.                      *)
EXTENDS Signers, SequenceTheorems, TLAPS

-----------------------------------------------------------------------------
(* Taking sequences apart                                                  *)

\* The two halves of a concatenation can be cut out of it.
LEMMA Halves ==
  ASSUME NEW S, NEW s \in Seq(S), NEW t \in Seq(S)
  PROVE  /\ SubSeq(s \o t, 1, Len(s)) = s
         /\ SubSeq(s \o t, Len(s) + 1, Len(s \o t)) = t
<1> DEFINE b == s \o t
           n == Len(s)
<1>1. b \in Seq(S) /\ Len(b) = n + Len(t) /\ n \in Nat /\ Len(t) \in Nat
  BY ConcatProperties, LenProperties
<1>2. \A i \in 1 .. n + Len(t) : b[i] = IF i <= n THEN s[i] ELSE t[i - n]
  BY ConcatProperties
<1>3. \A i \in 1 .. Len(b) : b[i] \in S
  BY <1>1, ElementOfSeq
<1> HIDE DEF b
<1>4. SubSeq(b, 1, n) = s
  <2> DEFINE q == SubSeq(b, 1, n)
  <2>1. /\ q \in Seq(S)
        /\ Len(q) = n
        /\ \A i \in 1 .. n : q[i] = b[i]
    <3>1. \A i \in 1 .. n : b[i] \in S
      BY <1>1, <1>3
    <3> QED BY <1>1, <3>1, SubSeqProperties
  <2> HIDE DEF q
  <2>2. \A i \in 1 .. Len(q) : q[i] = s[i]
    BY <1>1, <1>2, <2>1
  <2>3. q = s
    BY <2>1, <2>2, SeqEqual
  <2> QED BY <2>3 DEF q
<1>5. SubSeq(b, n + 1, Len(b)) = t
  <2> DEFINE q == SubSeq(b, n + 1, Len(b))
  <2>1. /\ q \in Seq(S)
        /\ Len(q) = Len(t)
        /\ \A i \in 1 .. Len(t) : q[i] = b[n + i]
    <3>1. \A i \in n + 1 .. Len(b) : b[i] \in S
      BY <1>1, <1>3
    <3>2. /\ q \in Seq(S)
          /\ Len(q) = IF n + 1 <= Len(b) THEN Len(b) - (n + 1) + 1 ELSE 0
          /\ \A i \in 1 .. Len(b) - (n + 1) + 1 : q[i] = b[n + 1 + i - 1]
      BY <1>1, <3>1, SubSeqProperties
    <3> HIDE DEF q
    <3>3. Len(b) - (n + 1) + 1 = Len(t) /\ \A i \in Int : n + 1 + i - 1 = n + i
      BY <1>1
    <3> QED BY <1>1, <3>2, <3>3
  <2> HIDE DEF q
  <2>2. ASSUME NEW i \in 1 .. Len(q) PROVE q[i] = t[i]
    <3>1. i \in 1 .. Len(t) /\ n + i \in 1 .. n + Len(t) /\ ~(n + i <= n) /\ (n + i) - n = i
      BY <1>1, <2>1
    <3>2. b[n + i] = t[(n + i) - n]
      BY <1>2, <3>1
    <3> QED BY <2>1, <3>1, <3>2
  <2>3. q = t
    BY <2>1, <2>2, SeqEqual
  <2> QED BY <2>3 DEF q
<1> QED BY <1>4, <1>5 DEF b

\* A sequence is what comes up to any place in it and what comes after.
LEMMA Rejoin ==
  ASSUME NEW S, NEW s \in Seq(S), NEW k \in 0 .. Len(s)
  PROVE  /\ SubSeq(s, 1, k) \in Seq(S) /\ Len(SubSeq(s, 1, k)) = k
         /\ SubSeq(s, k + 1, Len(s)) \in Seq(S)
         /\ Len(SubSeq(s, k + 1, Len(s))) = Len(s) - k
         /\ s = SubSeq(s, 1, k) \o SubSeq(s, k + 1, Len(s))
<1>1. Len(s) \in Nat /\ \A i \in 1 .. Len(s) : s[i] \in S
  BY LenProperties, ElementOfSeq
<1>2. SubSeq(s, 1, k) \in Seq(S) /\ Len(SubSeq(s, 1, k)) = k
  <2>1. \A i \in 1 .. k : s[i] \in S
    BY <1>1
  <2>2. Len(SubSeq(s, 1, k)) = IF 1 <= k THEN k - 1 + 1 ELSE 0
    BY <1>1, <2>1, SubSeqProperties
  <2> QED BY <1>1, <2>1, <2>2, SubSeqProperties
<1>3. /\ SubSeq(s, k + 1, Len(s)) \in Seq(S)
      /\ Len(SubSeq(s, k + 1, Len(s))) = Len(s) - k
  <2>1. \A i \in k + 1 .. Len(s) : s[i] \in S
    BY <1>1
  <2>2. Len(SubSeq(s, k + 1, Len(s))) =
          IF k + 1 <= Len(s) THEN Len(s) - (k + 1) + 1 ELSE 0
    BY <1>1, <2>1, SubSeqProperties
  <2> QED BY <1>1, <2>1, <2>2, SubSeqProperties
<1>4. s = SubSeq(s, 1, k) \o SubSeq(s, k + 1, Len(s))
  <2>1. 1 \in 1 .. Len(s) + 1 /\ k \in 1 - 1 .. Len(s) /\ Len(s) \in k .. Len(s)
    BY <1>1
  <2>2. SubSeq(s, 1, k) \o SubSeq(s, k + 1, Len(s)) = SubSeq(s, 1, Len(s))
    BY <2>1, ConcatAdjacentSubSeq
  <2> QED BY <2>2, SubSeqFull
<1> QED BY <1>2, <1>3, <1>4

-----------------------------------------------------------------------------
(* One part                                                                *)

\* The prefix of a part, and the part behind it.
LEMMA FramedParts ==
  ASSUME NEW m \in Seq(Byte), Fits(m), NEW rest \in Seq(Byte)
  PROVE  LET prefix == Separator \o <<Len(m)>>
         IN  /\ prefix \in Seq(Byte) /\ Len(prefix) = PrefixLen
             /\ Framed(m) \in Seq(Byte)
             /\ Framed(m) \o rest = prefix \o (m \o rest)
             /\ Framed(m) \o rest = Separator \o (<<Len(m)>> \o (m \o rest))
<1> DEFINE one == <<Len(m)>>
           prefix == Separator \o one
<1>1. Len(m) \in Byte /\ Separator \in Seq(Byte)
  BY LencodeAssumption, LenProperties DEF Fits, Byte
<1>2. one \in Seq(Byte) /\ Len(one) = 1
  BY <1>1
<1> HIDE DEF one
<1>3. prefix \in Seq(Byte) /\ Len(prefix) = PrefixLen
  <2>1. Separator \o one \in Seq(Byte) /\ Len(Separator \o one) = Len(Separator) + Len(one)
    BY <1>1, <1>2, ConcatProperties
  <2> QED BY <1>2, <2>1 DEF PrefixLen
<1>4. Framed(m) = prefix \o m /\ Framed(m) \in Seq(Byte)
  BY <1>3, ConcatProperties DEF Framed, one
<1>5. m \o rest \in Seq(Byte)
  BY ConcatProperties
<1>6. Framed(m) \o rest = prefix \o (m \o rest)
  BY <1>3, <1>4, ConcatAssociative
<1>7. prefix \o (m \o rest) = Separator \o (one \o (m \o rest))
  <2>1. \A t \in Seq(Byte) : (Separator \o one) \o t = Separator \o (one \o t)
    BY <1>1, <1>2, ConcatAssociative
  <2> QED BY <1>5, <2>1
<1> QED BY <1>3, <1>4, <1>6, <1>7 DEF one

\* Reading a part that has been written gives the part back, whatever comes
\* behind it and whatever bytes it has, the separator's included.
LEMMA DecodeFramed ==
  ASSUME NEW m \in Seq(Byte), Fits(m), NEW rest \in Seq(Byte),
         NEW d, d.error = "none", d.rest = Framed(m) \o rest
  PROVE  Decode(d) = [rest |-> rest, error |-> "none", part |-> m]
<1> DEFINE b == d.rest
           prefix == Separator \o <<Len(m)>>
           body == m \o rest
<1>1. /\ prefix \in Seq(Byte) /\ Len(prefix) = PrefixLen
      /\ b = prefix \o body
      /\ b = Separator \o (<<Len(m)>> \o body)
      /\ body \in Seq(Byte) /\ Len(body) = Len(m) + Len(rest)
  BY FramedParts, ConcatProperties
<1>2. /\ Len(m) \in Nat /\ Len(rest) \in Nat /\ Separator \in Seq(Byte)
      /\ Len(Separator) \in Nat /\ PrefixLen = Len(Separator) + 1
      /\ Len(m) \in Byte
  BY LencodeAssumption, LenProperties DEF PrefixLen, Fits, Byte
<1>3. <<Len(m)>> \in Seq(Byte) /\ Len(<<Len(m)>>) = 1 /\ <<Len(m)>>[1] = Len(m)
  BY <1>2
<1>4. b \in Seq(Byte) /\ Len(b) = PrefixLen + Len(m) + Len(rest)
  BY <1>1, <1>2, ConcatProperties
<1>5. Body(b) = body
  <2>1. SubSeq(prefix \o body, Len(prefix) + 1, Len(prefix \o body)) = body
    <3> HIDE DEF prefix, body
    <3> QED BY <1>1, Halves
  <2> QED BY <1>1, <2>1 DEF Body
<1>6. SubSeq(b, 1, Len(Separator)) = Separator
  <2>1. <<Len(m)>> \o body \in Seq(Byte)
    BY <1>1, <1>3, ConcatProperties
  <2> QED BY <1>1, <1>2, <2>1, Halves
<1>7. b[PrefixLen] = Len(m)
  <2>1. prefix[PrefixLen] = Len(m)
    <3>1. \A i \in 1 .. Len(Separator) + 1 :
             prefix[i] = IF i <= Len(Separator) THEN Separator[i]
                         ELSE <<Len(m)>>[i - Len(Separator)]
      BY <1>2, <1>3, ConcatProperties
    <3>2. /\ PrefixLen \in 1 .. Len(Separator) + 1 /\ ~(PrefixLen <= Len(Separator))
          /\ PrefixLen - Len(Separator) = 1
      BY <1>2
    <3> QED BY <1>3, <3>1, <3>2
  <2>2. b[PrefixLen] = prefix[PrefixLen]
    <3>1. \A i \in 1 .. PrefixLen + Len(body) :
             (prefix \o body)[i] = IF i <= PrefixLen THEN prefix[i]
                                   ELSE body[i - PrefixLen]
      BY <1>1, ConcatProperties
    <3>2. PrefixLen \in 1 .. PrefixLen + Len(body) /\ PrefixLen <= PrefixLen
      BY <1>1, <1>2
    <3> QED BY <1>1, <3>1, <3>2
  <2> QED BY <2>1, <2>2
<1> HIDE DEF b, body
<1>8. ReadError(b) = "none"
  <2>1. Len(b) >= PrefixLen /\ ~(Len(b) < PrefixLen) /\ Len(b) # 0
    BY <1>2, <1>4
  <2>2. b # <<>>
    BY <2>1, EmptySeq
  <2>3. ~(Len(Body(b)) < b[PrefixLen])
    BY <1>1, <1>2, <1>5, <1>7
  <2> QED BY <1>6, <2>1, <2>2, <2>3 DEF ReadError
<1>9. SubSeq(Body(b), 1, Len(m)) = m /\ SubSeq(Body(b), Len(m) + 1, Len(Body(b))) = rest
  BY <1>5, Halves DEF body
<1> QED BY <1>7, <1>8, <1>9 DEF Decode, b

\* What can be read is a part as it is written: a cut, shifted or foreign
\* part gives an error.
LEMMA DecodedIsFramed ==
  ASSUME NEW d, d.rest \in Seq(Byte), Decode(d).error = "none"
  PROVE  /\ Decode(d).part \in Seq(Byte) /\ Fits(Decode(d).part)
         /\ Decode(d).rest \in Seq(Byte)
         /\ d.rest = Framed(Decode(d).part) \o Decode(d).rest
<1> DEFINE b == d.rest
           body == Body(b)
           k == b[PrefixLen]
           part == SubSeq(body, 1, k)
           rest == SubSeq(body, k + 1, Len(body))
<1>1. ReadError(b) = "none" /\ Decode(d).part = part /\ Decode(d).rest = rest
  <2>1. d.error = "none" /\ ReadError(b) = "none"
    BY DEF Decode
  <2> QED BY <2>1 DEF Decode
<1>2. /\ Separator \in Seq(Byte) /\ Len(Separator) \in Nat /\ Len(b) \in Nat
      /\ PrefixLen = Len(Separator) + 1 /\ b \in Seq(Byte)
  BY LencodeAssumption, LenProperties DEF PrefixLen
<1> HIDE DEF b
<1>3. /\ Len(b) >= PrefixLen
      /\ SubSeq(b, 1, Len(Separator)) = Separator
      /\ ~(Len(body) < k)
  <2>1. b # <<>>
    BY <1>1 DEF ReadError
  <2>2. ~(Len(b) < PrefixLen)
    BY <1>1, <2>1 DEF ReadError
  <2>3. Len(b) >= PrefixLen
    BY <1>2, <2>2
  <2>4. SubSeq(b, 1, Len(Separator)) = Separator
    BY <1>1, <2>1, <2>2, <2>3 DEF ReadError
  <2> QED BY <1>1, <2>1, <2>2, <2>3, <2>4 DEF ReadError
<1>4. k \in Byte /\ k \in Nat
  <2>1. PrefixLen \in 1 .. Len(b)
    BY <1>2, <1>3
  <2>2. k \in Byte
    BY <1>2, <2>1, ElementOfSeq
  <2> QED BY <2>2, LencodeAssumption DEF Byte
<1>5. /\ b = SubSeq(b, 1, PrefixLen) \o body
      /\ SubSeq(b, 1, PrefixLen) \in Seq(Byte) /\ body \in Seq(Byte)
  <2>1. PrefixLen \in 0 .. Len(b)
    BY <1>2, <1>3
  <2> QED BY <1>2, <2>1, Rejoin DEF Body
<1>6. SubSeq(b, 1, PrefixLen) = Separator \o <<k>>
  <2>1. SubSeq(b, 1, PrefixLen) = SubSeq(b, 1, PrefixLen - 1) \o <<b[PrefixLen]>>
    BY <1>2, <1>3, SubSeqRecursiveSecond
  <2>2. PrefixLen - 1 = Len(Separator)
    BY <1>2
  <2> QED BY <1>3, <2>1, <2>2
<1> HIDE DEF body
<1>7. k \in 0 .. Len(body)
  BY <1>3, <1>4, <1>5, LenProperties
<1> HIDE DEF k
<1>8. /\ part \in Seq(Byte) /\ rest \in Seq(Byte) /\ Len(part) = k
      /\ body = part \o rest
  BY <1>5, <1>7, Rejoin
<1> HIDE DEF part, rest
<1>9. Fits(part)
  BY <1>4, <1>8, LencodeAssumption DEF Fits, Byte
<1>10. b = Framed(part) \o rest
  <2>1. Framed(part) \o rest = (Separator \o <<Len(part)>>) \o (part \o rest)
    BY <1>8, <1>9, FramedParts
  <2> QED BY <1>5, <1>6, <1>8, <2>1
<1> QED BY <1>1, <1>8, <1>9, <1>10 DEF b

\* The end of a handle is told from every error, and only there.
LEMMA EndOfHandle ==
  ASSUME NEW d, d.rest \in Seq(Byte), d.error = "none"
  PROVE  Decode(d).error = "EOF" <=> d.rest = <<>>
<1>1. Len(d.rest) \in Nat /\ PrefixLen \in Nat /\ PrefixLen > 0
  BY LencodeAssumption, LenProperties DEF PrefixLen
<1>2. Decode(d).error = ReadError(d.rest)
  BY DEF Decode
<1>3. CASE d.rest = <<>>
  <2>1. ~(Len(d.rest) >= PrefixLen)
    BY <1>1, <1>3
  <2> QED BY <1>2, <1>3, <2>1 DEF ReadError
<1>4. CASE d.rest # <<>> /\ Len(d.rest) < PrefixLen
  BY <1>2, <1>4 DEF ReadError
<1>5. CASE d.rest # <<>> /\ Len(d.rest) >= PrefixLen
  <2>1. ~(Len(d.rest) < PrefixLen)
    BY <1>1, <1>5
  <2> QED BY <1>2, <1>5, <2>1 DEF ReadError
<1> QED BY <1>1, <1>3, <1>4, <1>5

-----------------------------------------------------------------------------
(* The handles of the signers                                              *)

\* What the signers need: the chip's handles are never lost.
ChipKeepsHandles == backend \in {"tpm", "memory"} /\ (backend = "tpm" => lost = {})

\* The parts of a handle are bytes, and short enough for one length byte.
LEMMA PartsFit ==
  ASSUME NEW id \in Ids
  PROVE  /\ Wrapped[id].private \in Seq(Byte) /\ Fits(Wrapped[id].private)
         /\ Wrapped[id].public \in Seq(Byte) /\ Fits(Wrapped[id].public)
         /\ Wrapped[id].seed \in Seq(Byte) /\ Fits(Wrapped[id].seed)
         /\ Wrapped[id].nonce \in Seq(Byte) /\ Wrapped[id].sealed \in Seq(Byte)
  BY SignersAssumption

\* A handle of the TPM is its three parts as they are written.
LEMMA TPMHandleForm ==
  ASSUME NEW id \in Ids
  PROVE  LET w == Wrapped[id]
         IN  /\ TPMHandle[id] =
                  Framed(w.private) \o (Framed(w.public) \o (Framed(w.seed) \o <<>>))
             /\ Framed(w.seed) \o <<>> \in Seq(Byte)
             /\ Framed(w.public) \o (Framed(w.seed) \o <<>>) \in Seq(Byte)
             /\ TPMHandle[id] \in Seq(Byte)
<1> DEFINE w == Wrapped[id]
           f == Framed(w.private)
           g == Framed(w.public)
           h == Framed(w.seed)
<1>1. f \in Seq(Byte) /\ g \in Seq(Byte) /\ h \in Seq(Byte) /\ <<>> \in Seq(Byte)
  BY PartsFit, FramedParts, EmptySeq
<1>2. TPMHandle[id] = ((<<>> \o f) \o g) \o h
  <2>1. Encode(NewEncoder, w.private) = [out |-> <<>> \o f, failed |-> FALSE]
    BY PartsFit DEF Encode, NewEncoder
  <2>2. Encode(Encode(NewEncoder, w.private), w.public)
          = [out |-> (<<>> \o f) \o g, failed |-> FALSE]
    BY <2>1, PartsFit DEF Encode
  <2>3. Encode(Encode(Encode(NewEncoder, w.private), w.public), w.seed)
          = [out |-> ((<<>> \o f) \o g) \o h, failed |-> FALSE]
    BY <2>2, PartsFit DEF Encode
  <2> HIDE DEF f, g, h
  <2> QED BY <2>3 DEF TPMHandle
<1> HIDE DEF f, g, h
<1>3. <<>> \o f = f /\ h \o <<>> = h
  BY <1>1, ConcatEmptySeq
<1>4. g \o h \in Seq(Byte) /\ f \o (g \o h) \in Seq(Byte)
  BY <1>1, ConcatProperties
<1>5. (f \o g) \o h = f \o (g \o h)
  BY <1>1, ConcatAssociative
<1> QED BY <1>1, <1>2, <1>3, <1>4, <1>5 DEF f, g, h

\* Reading a handle gives its parts in order, and then the end.
LEMMA TPMHandleReads ==
  ASSUME NEW id \in Ids
  PROVE  LET w == Wrapped[id]
             private == Decode(NewDecoder(TPMHandle[id]))
             public == Decode(private)
             seed == Decode(public)
         IN  /\ private.error = "none" /\ private.part = w.private
             /\ public.error = "none" /\ public.part = w.public
             /\ seed.error = "none" /\ seed.part = w.seed
             /\ Decode(seed).error = "EOF"
<1> DEFINE w == Wrapped[id]
           start == NewDecoder(TPMHandle[id])
           private == Decode(start)
           public == Decode(private)
           seed == Decode(public)
           r2 == Framed(w.seed) \o <<>>
           r1 == Framed(w.public) \o r2
<1>1. /\ r1 \in Seq(Byte) /\ r2 \in Seq(Byte) /\ <<>> \in Seq(Byte)
      /\ TPMHandle[id] = Framed(w.private) \o r1
  BY TPMHandleForm, EmptySeq
<1>2. start.error = "none" /\ start.rest = TPMHandle[id]
  BY DEF NewDecoder
<1> HIDE DEF start, r1, r2
<1>3. private = [rest |-> r1, error |-> "none", part |-> w.private]
  BY <1>1, <1>2, PartsFit, DecodeFramed
<1> HIDE DEF private
<1>4. public = [rest |-> r2, error |-> "none", part |-> w.public]
  <2>1. private.error = "none" /\ private.rest = Framed(w.public) \o r2
    BY <1>3 DEF r1
  <2> QED BY <1>1, <2>1, PartsFit, DecodeFramed
<1> HIDE DEF public
<1>5. seed = [rest |-> <<>>, error |-> "none", part |-> w.seed]
  <2>1. public.error = "none" /\ public.rest = Framed(w.seed) \o <<>>
    BY <1>4 DEF r2
  <2> QED BY <1>1, <2>1, PartsFit, DecodeFramed
<1> HIDE DEF seed
<1>6. Decode(seed).error = "EOF"
  BY <1>1, <1>5, EndOfHandle
<1> QED BY <1>3, <1>4, <1>5, <1>6 DEF seed, public, private, start

\* The TPM signs with the handles it has made for the relying party, and with
\* no other sequence of bytes.
LEMMA TPMSignsExactly ==
  ASSUME NEW h \in Seq(Byte), NEW rp
  PROVE  TPMSigns(h, rp) <=> \E id \in Made : h = TPMHandle[id] /\ keys[id].rp = rp
<1> DEFINE start == NewDecoder(h)
           private == Decode(start)
           public == Decode(private)
           seed == Decode(public)
           end == Decode(seed)
<1>1. ASSUME TPMSigns(h, rp)
      PROVE  \E id \in Made : h = TPMHandle[id] /\ keys[id].rp = rp
  <2>1. /\ private.error = "none" /\ public.error = "none" /\ seed.error = "none"
        /\ end.error = "EOF" /\ Loads(private.part, public.part, seed.part, rp)
    BY <1>1 DEF TPMSigns
  <2>2. start.error = "none" /\ start.rest = h
    BY DEF NewDecoder
  <2> HIDE DEF start
  <2>3. h = Framed(private.part) \o private.rest /\ private.rest \in Seq(Byte)
    BY <2>1, <2>2, DecodedIsFramed
  <2> HIDE DEF private
  <2>4. private.rest = Framed(public.part) \o public.rest /\ public.rest \in Seq(Byte)
    BY <2>1, <2>3, DecodedIsFramed
  <2> HIDE DEF public
  <2>5. public.rest = Framed(seed.part) \o seed.rest /\ seed.rest \in Seq(Byte)
    BY <2>1, <2>4, DecodedIsFramed
  <2> HIDE DEF seed
  <2>6. seed.rest = <<>>
    BY <2>1, <2>5, EndOfHandle
  <2>7. PICK id \in Made :
           /\ private.part = Wrapped[id].private /\ public.part = Wrapped[id].public
           /\ seed.part = Wrapped[id].seed /\ keys[id].rp = rp
    BY <2>1 DEF Loads
  <2>8. id \in Ids
    BY DEF Made
  <2>9. h = TPMHandle[id]
    BY <2>3, <2>4, <2>5, <2>6, <2>7, <2>8, TPMHandleForm
  <2> QED BY <2>7, <2>9
<1>2. ASSUME NEW id \in Made, h = TPMHandle[id], keys[id].rp = rp
      PROVE  TPMSigns(h, rp)
  <2>1. id \in Ids
    BY DEF Made
  <2>2. /\ private.error = "none" /\ private.part = Wrapped[id].private
        /\ public.error = "none" /\ public.part = Wrapped[id].public
        /\ seed.error = "none" /\ seed.part = Wrapped[id].seed
        /\ end.error = "EOF"
    BY <1>2, <2>1, TPMHandleReads
  <2>3. Loads(private.part, public.part, seed.part, rp)
    <3> HIDE DEF private, public, seed
    <3> QED BY <1>2, <2>2 DEF Loads
  <2> QED BY <2>2, <2>3 DEF TPMSigns
<1> QED BY <1>1, <1>2

\* No two key pairs have the same handle.
LEMMA HandlesDiffer ==
  ASSUME NEW i \in Ids, NEW j \in Ids, Handle(i) = Handle(j)
  PROVE  i = j
<1>1. CASE backend = "tpm"
  <2>1. Decode(NewDecoder(TPMHandle[i])).part = Decode(NewDecoder(TPMHandle[j])).part
    BY <1>1 DEF Handle
  <2>2. Wrapped[i].private = Wrapped[j].private
    BY <2>1, TPMHandleReads
  <2> QED BY <2>2, SignersAssumption
<1>2. CASE backend # "tpm"
  <2>1. Wrapped[i].nonce \o Wrapped[i].sealed = Wrapped[j].nonce \o Wrapped[j].sealed
    BY <1>2 DEF Handle, MemHandle
  <2> QED BY <2>1, SignersAssumption
<1> QED BY <1>1, <1>2

\* Handles are bytes.
LEMMA HandleBytes == ASSUME NEW id \in Ids PROVE Handle(id) \in Seq(Byte)
<1>1. MemHandle[id] \in Seq(Byte)
  BY PartsFit, ConcatProperties DEF MemHandle
<1> QED BY <1>1, TPMHandleForm DEF Handle

\* Whatever bytes come from outside, they sign exactly if they are a handle
\* that this signer has made for the relying party and can still open
\* (SignASN1 of tpm.go and memory.go).
THEOREM SignsExactlyOwnHandles ==
  ASSUME ChipKeepsHandles
  PROVE  \A h \in Seq(Byte), rp \in RPs : SignsExactly(h, rp)
<1> SUFFICES ASSUME NEW h \in Seq(Byte), NEW rp \in RPs PROVE SignsExactly(h, rp)
  OBVIOUS
<1>1. CASE backend = "tpm"
  <2>1. SignASN1(h, rp) <=> \E id \in Made : h = TPMHandle[id] /\ keys[id].rp = rp
    BY <1>1, TPMSignsExactly DEF SignASN1
  <2>2. \A id \in Ids : Handle(id) = TPMHandle[id] /\ (Usable(id, rp) <=> id \in Made /\ keys[id].rp = rp)
    BY <1>1 DEF Handle, Usable, ChipKeepsHandles
  <2> QED BY <2>1, <2>2 DEF SignsExactly, Made
<1>2. CASE backend = "memory"
  BY <1>2 DEF SignsExactly, SignASN1, MemSigns, Handle, Usable, Made
<1> QED BY <1>1, <1>2 DEF ChipKeepsHandles
=============================================================================
