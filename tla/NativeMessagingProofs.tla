------------------------ MODULE NativeMessagingProofs ------------------------
(* Proofs about the framing and the loop: reading and writing never slip,  *)
(* and the host is a port that answers message by message.                 *)
EXTENDS NativeMessaging, FramesProofs

-----------------------------------------------------------------------------
(* Bytes that wait to be read                                              *)

\* Messages that a length can be written for.
Fit(ms) == ms \in Seq(Seq(Byte)) /\ \A i \in 1 .. Len(ms) : Len(ms[i]) < Capacity

\* The bytes are first, the frames of ms, and when the port is closed
\* possibly a frame that is not whole.
Holds(bytes, first, ms, over) ==
  \E tail \in Seq(Byte) :
     /\ bytes = first \o (Stream(ms) \o tail)
     /\ Torn(tail)
     /\ over \/ tail = <<>>

LEMMA NothingIsTorn == <<>> \in Seq(Byte) /\ Torn(<<>>)
  BY FramesAssumption DEF Torn

LEMMA HoldsType ==
  ASSUME NEW b, NEW first \in Seq(Byte), NEW ms \in Seq(Seq(Byte)), NEW c,
         Holds(b, first, ms, c)
  PROVE  b \in Seq(Byte)
<1>1. PICK tail \in Seq(Byte) : b = first \o (Stream(ms) \o tail)
  BY DEF Holds
<1>2. Stream(ms) \in Seq(Byte)
  BY StreamType
<1>3. Stream(ms) \o tail \in Seq(Byte)
  BY <1>2, ConcatProperties
<1> QED BY <1>1, <1>3, ConcatProperties

\* Another frame is written.
LEMMA HoldsSend ==
  ASSUME NEW b, NEW first \in Seq(Byte), NEW ms \in Seq(Seq(Byte)), NEW m \in Seq(Byte),
         Holds(b, first, ms, FALSE)
  PROVE  Holds(b \o Framed(m), first, Append(ms, m), FALSE)
<1> DEFINE s == Stream(ms)
           f == Framed(m)
<1>1. s \in Seq(Byte) /\ f \in Seq(Byte) /\ Stream(Append(ms, m)) = s \o f
  BY StreamAppend, FramedType
<1>2. b = first \o (s \o <<>>)
  BY DEF Holds
<1> HIDE DEF s, f
<1>3. b = first \o s
  BY <1>1, <1>2, ConcatEmptySeq
<1>4. b \o f = first \o (s \o f)
  BY <1>1, <1>3, BytesAssociative
<1>5. s \o f \in Seq(Byte)
  BY <1>1, ConcatProperties
<1>6. b \o f = first \o ((s \o f) \o <<>>)
  BY <1>4, <1>5, ConcatEmptySeq
<1> QED BY <1>1, <1>6, NothingIsTorn DEF Holds, f

\* The last frame is cut.
LEMMA HoldsCut ==
  ASSUME NEW b, NEW first \in Seq(Byte), NEW ms \in Seq(Seq(Byte)), NEW t \in Seq(Byte),
         Torn(t), Holds(b, first, ms, FALSE)
  PROVE  Holds(b \o t, first, ms, TRUE)
<1> DEFINE s == Stream(ms)
<1>1. s \in Seq(Byte)
  BY StreamType
<1>2. b = first \o (s \o <<>>)
  BY DEF Holds
<1> HIDE DEF s
<1>3. b = first \o s
  BY <1>1, <1>2, ConcatEmptySeq
<1>4. b \o t = first \o (s \o t)
  BY <1>1, <1>3, BytesAssociative
<1> QED BY <1>4 DEF Holds, s

LEMMA HoldsClose ==
  ASSUME NEW b, NEW first, NEW ms, NEW c, Holds(b, first, ms, c)
  PROVE  Holds(b, first, ms, TRUE)
BY DEF Holds

\* A length is read: that of the first message, which then comes first.
LEMMA HoldsLength ==
  ASSUME NEW b, NEW ms, Fit(ms), ms # <<>>, NEW c, Holds(b, <<>>, ms, c)
  PROVE  /\ Value(b) = Len(ms[1])
         /\ Holds(Drop(b, Width), ms[1], Drop(ms, 1), c)
<1> DEFINE m == ms[1]
           r == Drop(ms, 1)
           s == Stream(r)
<1>0. ms \in Seq(Seq(Byte)) /\ Len(ms) \in Nat /\ Len(ms) # 0
  BY EmptySeq, LenProperties DEF Fit
<1>1. m \in Seq(Byte) /\ r \in Seq(Seq(Byte)) /\ ms = <<m>> \o r
  BY <1>0, HeadFirst
<1>2. Len(m) < Capacity /\ Len(m) \in Nat
  BY <1>0, <1>1, LenProperties DEF Fit
<1> HIDE DEF m, r
<1>3. PICK tail \in Seq(Byte) : /\ b = <<>> \o (Stream(ms) \o tail)
                                /\ Torn(tail)
                                /\ c \/ tail = <<>>
  BY DEF Holds
<1>4. Stream(ms) = Framed(m) \o s /\ s \in Seq(Byte) /\ Framed(m) \in Seq(Byte)
  BY <1>1, StreamHead, StreamType, FramedType
<1> HIDE DEF s
<1>5. s \o tail \in Seq(Byte) /\ Stream(ms) \o tail \in Seq(Byte)
  BY <1>0, <1>4, StreamType, ConcatProperties
<1>6. b = Framed(m) \o (s \o tail)
  <2>1. b = Stream(ms) \o tail
    BY <1>3, <1>5, ConcatEmptySeq
  <2>2. (Framed(m) \o s) \o tail = Framed(m) \o (s \o tail)
    BY <1>4, BytesAssociative
  <2> QED BY <1>4, <2>1, <2>2
<1>7. b = LittleEndian(Len(m)) \o (m \o (s \o tail))
  BY <1>1, <1>2, <1>5, <1>6, FrameFirst
<1>8. m \o (s \o tail) \in Seq(Byte)
  BY <1>1, <1>5, ConcatProperties
<1>9. Value(b) = Len(m) /\ Drop(b, Width) = m \o (s \o tail)
  BY <1>2, <1>7, <1>8, LengthFirst
<1> QED BY <1>3, <1>9 DEF Holds, m, r, s

\* A length is read where no whole message is left: the rest is too short.
LEMMA HoldsTail ==
  ASSUME NEW b, NEW c, Holds(b, <<>>, <<>>, c), Len(b) >= Width
  PROVE  /\ b \in Seq(Byte) /\ Value(b) \in Nat
         /\ c
         /\ Drop(b, Width) \in Seq(Byte)
         /\ Len(Drop(b, Width)) < Value(b)
<1>1. PICK tail \in Seq(Byte) : /\ b = <<>> \o (Stream(<<>>) \o tail)
                                /\ Torn(tail)
                                /\ c \/ tail = <<>>
  BY DEF Holds
<1>2. b = tail
  BY <1>1, StreamEmpty, ConcatEmptySeq
<1>3. Width \in Nat \ {0} /\ Len(b) \in Nat /\ Value(b) \in Nat
  BY <1>2, FramesAssumption, LenProperties, ValueType
<1>4. b # <<>>
  BY <1>3
<1>5. Len(b) < Width + Value(b)
  <2>1. Torn(b)
    BY <1>1, <1>2
  <2>2. ~ (Len(b) < Width)
    BY <1>3
  <2> QED BY <2>1, <2>2 DEF Torn
<1>6. /\ SubSeq(b, Width + 1, Len(b)) \in Seq(Byte)
      /\ Len(SubSeq(b, Width + 1, Len(b))) = Len(b) - Width
  <2>1. \A i \in Width + 1 .. Len(b) : b[i] \in Byte
    BY <1>2, <1>3, ElementOfSeq
  <2>2. Width + 1 \in Int /\ Len(b) \in Int
    BY <1>3
  <2>3. /\ SubSeq(b, Width + 1, Len(b)) \in Seq(Byte)
        /\ Len(SubSeq(b, Width + 1, Len(b))) =
             IF Width + 1 <= Len(b) THEN Len(b) - (Width + 1) + 1 ELSE 0
    BY <2>1, <2>2, SubSeqProperties
  <2> QED BY <1>3, <2>3
<1>7. c
  BY <1>1, <1>2, <1>4
<1>8. Drop(b, Width) \in Seq(Byte) /\ Len(Drop(b, Width)) = Len(b) - Width
  BY <1>6 DEF Drop
<1>9. Len(Drop(b, Width)) < Value(b)
  BY <1>3, <1>5, <1>8
<1>10. b \in Seq(Byte)
  BY <1>2
<1> QED BY <1>3, <1>7, <1>8, <1>9, <1>10

\* The message that comes first is read.
LEMMA HoldsPayload ==
  ASSUME NEW b, NEW m \in Seq(Byte), NEW ms \in Seq(Seq(Byte)), NEW c, Holds(b, m, ms, c)
  PROVE  /\ SubSeq(b, 1, Len(m)) = m
         /\ Holds(Drop(b, Len(m)), <<>>, ms, c)
<1>1. PICK tail \in Seq(Byte) : /\ b = m \o (Stream(ms) \o tail)
                                /\ Torn(tail)
                                /\ c \/ tail = <<>>
  BY DEF Holds
<1> DEFINE t == Stream(ms) \o tail
<1>2. t \in Seq(Byte)
  BY StreamType, ConcatProperties
<1> HIDE DEF t
<1>3. SubSeq(m \o t, 1, Len(m)) = m /\ Drop(m \o t, Len(m)) = t
  BY <1>2, Halves
<1>4. b = m \o t
  BY <1>1 DEF t
<1>5. t = <<>> \o t
  BY <1>2, ConcatEmptySeq
<1>6. SubSeq(b, 1, Len(m)) = m /\ Drop(b, Len(m)) = <<>> \o (Stream(ms) \o tail)
  BY <1>3, <1>4, <1>5 DEF t
<1> QED BY <1>1, <1>6 DEF Holds

\* What is left of a sequence without its first n members.
LEMMA DropFacts ==
  ASSUME NEW S, NEW s \in Seq(S), NEW n \in 0 .. Len(s)
  PROVE  /\ Drop(s, n) \in Seq(S)
         /\ Len(Drop(s, n)) = Len(s) - n
         /\ \A i \in 1 .. Len(s) - n : Drop(s, n)[i] = s[n + i]
<1> DEFINE q == SubSeq(s, n + 1, Len(s))
<1>1. Len(s) \in Nat /\ n \in Nat /\ \A i \in 1 .. Len(s) : s[i] \in S
  BY LenProperties, ElementOfSeq
<1>2. \A i \in n + 1 .. Len(s) : s[i] \in S
  BY <1>1
<1>3. n + 1 \in Int /\ Len(s) \in Int
  BY <1>1
<1>4. /\ q \in Seq(S) /\ Len(q) = IF n + 1 <= Len(s) THEN Len(s) - (n + 1) + 1 ELSE 0
      /\ \A i \in 1 .. Len(s) - (n + 1) + 1 : q[i] = s[(n + 1) + i - 1]
  BY <1>2, <1>3, SubSeqProperties
<1> HIDE DEF q
<1>5. ASSUME NEW i \in 1 .. Len(s) - n PROVE q[i] = s[n + i]
  <2>1. i \in 1 .. Len(s) - (n + 1) + 1 /\ (n + 1) + i - 1 = n + i
    BY <1>1
  <2> QED BY <1>4, <2>1
<1>6. Len(q) = Len(s) - n
  BY <1>1, <1>4
<1> QED BY <1>4, <1>5, <1>6 DEF q, Drop

LEMMA DropAll ==
  ASSUME NEW S, NEW s \in Seq(S)
  PROVE  Drop(s, Len(s)) = <<>> /\ Drop(s, 0) = s
<1>1. Len(s) \in Nat
  BY LenProperties
<1>2. Drop(s, Len(s)) \in Seq(S) /\ Len(Drop(s, Len(s))) = 0
  BY <1>1, DropFacts
<1> QED BY <1>2, EmptySeq, SubSeqFull DEF Drop

LEMMA DropOneMore ==
  ASSUME NEW S, NEW s \in Seq(S), NEW n \in 0 .. Len(s) - 1
  PROVE  /\ Drop(s, n) # <<>>
         /\ Drop(s, n)[1] = s[n + 1]
         /\ Drop(Drop(s, n), 1) = Drop(s, n + 1)
<1> DEFINE d == Drop(s, n)
           e == Drop(s, n + 1)
           f == Drop(d, 1)
<1>1. Len(s) \in Nat /\ n \in 0 .. Len(s) /\ n + 1 \in 0 .. Len(s) /\ n \in Nat
  BY LenProperties
<1>2. /\ d \in Seq(S) /\ Len(d) = Len(s) - n
      /\ \A i \in 1 .. Len(s) - n : d[i] = s[n + i]
  BY <1>1, DropFacts
<1>3. /\ e \in Seq(S) /\ Len(e) = Len(s) - (n + 1)
      /\ \A i \in 1 .. Len(s) - (n + 1) : e[i] = s[(n + 1) + i]
  BY <1>1, DropFacts
<1> HIDE DEF d, e
<1>4. /\ f \in Seq(S) /\ Len(f) = Len(d) - 1
      /\ \A i \in 1 .. Len(d) - 1 : f[i] = d[1 + i]
  <2>1. 1 \in 0 .. Len(d)
    BY <1>1, <1>2
  <2>2. d \in Seq(S)
    BY <1>2
  <2> QED BY <2>1, <2>2, DropFacts
<1> HIDE DEF f
<1>5. d # <<>> /\ d[1] = s[n + 1]
  BY <1>1, <1>2, EmptySeq
<1>6. \A i \in 1 .. Len(f) : f[i] = e[i]
  BY <1>1, <1>2, <1>3, <1>4
<1>7. Len(f) = Len(e)
  BY <1>1, <1>2, <1>3, <1>4
<1>8. f = e
  BY <1>3, <1>4, <1>6, <1>7, SeqEqual
<1> QED BY <1>5, <1>8 DEF d, e, f

LEMMA DropAppend ==
  ASSUME NEW S, NEW s \in Seq(S), NEW e \in S, NEW n \in 0 .. Len(s)
  PROVE  Drop(Append(s, e), n) = Append(Drop(s, n), e)
<1> DEFINE t == Append(s, e)
           d == Drop(s, n)
           l == Drop(t, n)
           r == Append(d, e)
<1>1. /\ Len(s) \in Nat /\ n \in Nat /\ t \in Seq(S) /\ Len(t) = Len(s) + 1
      /\ t[Len(s) + 1] = e /\ \A i \in 1 .. Len(s) : t[i] = s[i]
  BY LenProperties, AppendProperties
<1>2. /\ d \in Seq(S) /\ Len(d) = Len(s) - n
      /\ \A i \in 1 .. Len(s) - n : d[i] = s[n + i]
  BY DropFacts
<1> HIDE DEF t, d
<1>3. /\ l \in Seq(S) /\ Len(l) = Len(t) - n
      /\ \A i \in 1 .. Len(t) - n : l[i] = t[n + i]
  <2>1. n \in 0 .. Len(t)
    BY <1>1
  <2> QED BY <1>1, <2>1, DropFacts
<1>4. /\ r \in Seq(S) /\ Len(r) = Len(d) + 1
      /\ r[Len(d) + 1] = e /\ \A i \in 1 .. Len(d) : r[i] = d[i]
  BY <1>2, AppendProperties
<1> HIDE DEF l, r
<1>5. ASSUME NEW i \in 1 .. Len(l) PROVE l[i] = r[i]
  <2>1. l[i] = t[n + i]
    BY <1>1, <1>3
  <2>2. CASE i = Len(d) + 1
    <3>1. n + i = Len(s) + 1
      BY <1>1, <1>2, <2>2
    <3> QED BY <1>1, <1>4, <2>1, <2>2, <3>1
  <2>3. CASE i # Len(d) + 1
    <3>1. i \in 1 .. Len(d) /\ i \in 1 .. Len(s) - n /\ n + i \in 1 .. Len(s)
      <4>1. Len(l) = (Len(s) + 1) - n /\ Len(d) = Len(s) - n
        BY <1>1, <1>2, <1>3
      <4>2. i \in Nat /\ 1 <= i /\ i <= (Len(s) + 1) - n /\ i # Len(s) - n + 1
        BY <1>1, <2>3, <4>1
      <4> QED BY <1>1, <4>1, <4>2
    <3> QED BY <1>1, <1>2, <1>4, <2>1, <3>1
  <2> QED BY <2>2, <2>3
<1>6. Len(l) = Len(r)
  BY <1>1, <1>2, <1>3, <1>4
<1>7. l = r
  BY <1>3, <1>4, <1>5, <1>6, SeqEqual
<1> QED BY <1>7 DEF t, d, l, r

LEMMA DropFits ==
  ASSUME NEW ms, Fit(ms), NEW n \in 0 .. Len(ms)
  PROVE  Fit(Drop(ms, n))
<1>1. ms \in Seq(Seq(Byte)) /\ Len(ms) \in Nat
  BY LenProperties DEF Fit
<1>2. /\ Drop(ms, n) \in Seq(Seq(Byte)) /\ Len(Drop(ms, n)) = Len(ms) - n
      /\ \A i \in 1 .. Len(ms) - n : Drop(ms, n)[i] = ms[n + i]
  BY <1>1, DropFacts
<1>3. \A i \in 1 .. Len(ms) - n : n + i \in 1 .. Len(ms)
  BY <1>1
<1> QED BY <1>2, <1>3 DEF Fit

-----------------------------------------------------------------------------
(* Bytes that were written                                                 *)

\* Torn bytes behind whole frames change nothing of what is found.
LEMMA WrittenTorn ==
  ASSUME NEW ms, Fit(ms), NEW t \in Seq(Byte), Torn(t)
  PROVE  Unframed[Stream(ms) \o t] = ms
BY StreamReadBack DEF Fit

LEMMA WrittenWhole ==
  ASSUME NEW ms, Fit(ms)
  PROVE  Unframed[Stream(ms)] = ms
<1>1. Stream(ms) \in Seq(Byte)
  BY StreamType DEF Fit
<1>2. Stream(ms) \o <<>> = Stream(ms)
  BY <1>1, ConcatEmptySeq
<1> QED BY <1>2, WrittenTorn, NothingIsTorn

\* A part of a length is torn, and a whole one of which the message lacks too.
LEMMA LengthTorn ==
  ASSUME NEW n \in Nat \ {0}, n < Capacity, NEW i \in 0 .. Width
  PROVE  /\ SubSeq(LittleEndian(n), 1, i) \in Seq(Byte)
         /\ Torn(SubSeq(LittleEndian(n), 1, i))
         /\ Torn(LittleEndian(n))
<1> DEFINE l == LittleEndian(n)
<1>1. Width \in Nat /\ l \in Seq(Byte) /\ Len(l) = Width
  BY FramesAssumption, LittleEndianType
<1>2. l \o <<>> = l
  BY <1>1, ConcatEmptySeq
<1>3. Value(l) = n
  <2>1. Value(LittleEndian(n) \o <<>>) = n
    BY LengthFirst, NothingIsTorn
  <2> QED BY <1>2, <2>1
<1> HIDE DEF l
<1>4. Torn(l)
  BY <1>1, <1>3 DEF Torn
<1>5. SubSeq(l, 1, i) \in Seq(Byte) /\ Len(SubSeq(l, 1, i)) = i
  <2>1. \A j \in 1 .. i : l[j] \in Byte
    BY <1>1, ElementOfSeq
  <2> QED BY <1>1, <2>1, SubSeqProperties
<1>6. CASE i = Width
  BY <1>1, <1>4, <1>5, <1>6, SubSeqFull DEF l
<1>7. CASE i < Width
  BY <1>1, <1>4, <1>5, <1>7 DEF l, Torn
<1> QED BY <1>1, <1>6, <1>7

\* A length and a part of its message are torn.
LEMMA MessageTorn ==
  ASSUME NEW m \in Seq(Byte), Len(m) < Capacity, NEW i \in 0 .. Len(m) - 1
  PROVE  /\ SubSeq(m, 1, i) \in Seq(Byte)
         /\ LittleEndian(Len(m)) \o SubSeq(m, 1, i) \in Seq(Byte)
         /\ Torn(LittleEndian(Len(m)) \o SubSeq(m, 1, i))
<1>1. Len(m) \in Nat /\ Width \in Nat
  BY FramesAssumption, LenProperties
<1>2. SubSeq(m, 1, i) \in Seq(Byte) /\ Len(SubSeq(m, 1, i)) = i
  <2>1. \A j \in 1 .. i : m[j] \in Byte
    BY <1>1, ElementOfSeq
  <2> QED BY <1>1, <2>1, SubSeqProperties
<1> DEFINE p == SubSeq(m, 1, i)
           b == LittleEndian(Len(m)) \o p
<1> HIDE DEF p
<1>3. p \in Seq(Byte) /\ Len(p) = i
  BY <1>2 DEF p
<1>4. b \in Seq(Byte) /\ Len(b) = Width + i /\ Value(b) = Len(m)
  BY <1>1, <1>3, LengthFirst
<1> HIDE DEF b
<1>5. Torn(b)
  BY <1>1, <1>4 DEF Torn
<1> QED BY <1>2, <1>4, <1>5 DEF b, p

-----------------------------------------------------------------------------
(* The inductive invariant                                                 *)

\* The responses that the extension finds, and how many there are.
Found == Unframed[stdout]
Answered == Len(Found)

\* The pipe holds what was sent and has no response yet, but for what Read
\* has taken of it.
InputInv ==
  /\ Answered <= Len(sent)
  /\ stage = "reading length" => Holds(stdin, <<>>, Drop(sent, Answered), closed)
  /\ stage = "reading payload" =>
       \/ /\ Answered < Len(sent)
          /\ Valid(Len(sent[Answered + 1]))
          /\ length = Len(sent[Answered + 1])
          /\ Holds(stdin, sent[Answered + 1], Drop(sent, Answered + 1), closed)
       \/ closed /\ Len(stdin) < length
  /\ stage \in {"handling", "writing length", "writing payload"} =>
       /\ Answered < Len(sent)
       /\ Valid(Len(sent[Answered + 1]))
       /\ Holds(stdin, <<>>, Drop(sent, Answered + 1), closed)
  /\ stage = "handling" => message = sent[Answered + 1]
  /\ stage \in {"writing length", "writing payload"} =>
       message \in Responses(sent[Answered + 1])

\* What was written are the frames that are found, and in the middle of a
\* Write the length of the next one.
OutputInv ==
  /\ stage \in {"reading length", "reading payload", "handling", "writing length"} =>
       stdout = Stream(Found)
  /\ stage = "writing payload" =>
       /\ Len(message) <= MaxMessageSize
       /\ stdout = Stream(Found) \o LittleEndian(Len(message))

\* The responses belong to the messages, and none of those was refused.
AnswersInv ==
  \A i \in 1 .. Answered :
    /\ Valid(Len(sent[i]))
    /\ Found[i] \in Responses(sent[i])
    /\ Len(Found[i]) <= MaxMessageSize

MessagingInv == TypeOK /\ InputInv /\ OutputInv /\ AnswersInv

LEMMA MessagesFit ==
  ASSUME NEW ms \in Seq(Messages)
  PROVE  Fit(ms) /\ Len(ms) \in Nat
<1>1. Messages \subseteq Seq(Byte)
  BY MessagingAssumption
<1>2. ms \in Seq(Seq(Byte))
  BY <1>1, SeqMonotonic
<1>3. \A i \in 1 .. Len(ms) : Len(ms[i]) < Capacity
  BY MessagingAssumption, ElementOfSeq
<1> QED BY <1>2, <1>3, LenProperties DEF Fit

LEMMA InvFacts ==
  ASSUME MessagingInv
  PROVE  /\ Found \in Seq(Seq(Byte)) /\ Answered \in Nat /\ Answered <= Len(sent)
         /\ Fit(Found)
         /\ sent \in Seq(Messages) /\ sent \in Seq(Seq(Byte)) /\ Len(sent) \in Nat
         /\ Fit(sent)
         /\ \A i \in 1 .. Len(sent) : sent[i] \in Messages /\ sent[i] \in Seq(Byte)
<1>1. stdout \in Seq(Byte) /\ sent \in Seq(Messages)
  BY DEF MessagingInv, TypeOK
<1>2. Found \in Seq(Seq(Byte)) /\ Answered \in Nat
  BY <1>1, UnframedDef, LenProperties DEF Found, Answered
<1>3. Fit(sent) /\ Len(sent) \in Nat
  BY <1>1, MessagesFit
<1>4. \A i \in 1 .. Len(sent) : sent[i] \in Messages
  BY <1>1, ElementOfSeq
<1>5. sent \in Seq(Seq(Byte))
  BY <1>3 DEF Fit
<1>6. \A i \in 1 .. Len(Found) : Len(Found[i]) < Capacity
  <2> TAKE i \in 1 .. Len(Found)
  <2>1. Found[i] \in Seq(Byte)
    BY <1>2, ElementOfSeq
  <2>2. Len(Found[i]) \in Nat /\ Capacity \in Nat
    BY <2>1, LenProperties, WeightDef, FramesAssumption DEF Capacity
  <2>3. Len(Found[i]) <= MaxMessageSize
    BY DEF MessagingInv, AnswersInv, Answered
  <2> QED BY <2>2, <2>3, MessagingAssumption
<1>7. Fit(Found)
  BY <1>2, <1>6 DEF Fit
<1>8. Answered <= Len(sent)
  BY DEF MessagingInv, InputInv
<1>9. \A i \in 1 .. Len(sent) : sent[i] \in Seq(Byte)
  BY <1>4, MessagingAssumption
<1> QED BY <1>1, <1>2, <1>3, <1>4, <1>5, <1>7, <1>8, <1>9

\* A response is not empty.
LEMMA ResponseType ==
  ASSUME NEW m \in Messages, Valid(Len(m)), NEW r \in Responses(m)
  PROVE  r \in Seq(Byte) /\ r # <<>> /\ Len(r) \in Nat \ {0}
<1>1. m # <<>>
  BY MessagingAssumption, EmptySeq DEF Valid
<1>2. r \in Seq(Byte) \ {<<>>}
  BY <1>1, MessagingAssumption
<1> QED BY <1>2, EmptySeq

LEMMA MessagingInit == Init => MessagingInv
<1> SUFFICES ASSUME Init PROVE MessagingInv
  OBVIOUS
<1>0. stdin = <<>> /\ stdout = <<>> /\ sent = <<>> /\ message = <<>>
      /\ stage = "reading length" /\ length = 0 /\ closed = FALSE
  BY DEF Init
<1>1. TypeOK
  <2>1. <<>> \in Seq(Byte) /\ <<>> \in Seq(Messages)
    OBVIOUS
  <2>2. 0 \in 0 .. MaxMessageSize
    BY MessagingAssumption
  <2> QED BY <1>0, <2>1, <2>2 DEF TypeOK, Stages
<1>2. Found = <<>> /\ Answered = 0
  <2>1. Unframed[<<>>] = <<>>
    BY TornEmpty, NothingIsTorn
  <2>2. Unframed[stdout] = <<>>
    BY <1>0, <2>1
  <2>3. Found = <<>>
    BY <2>2 DEF Found
  <2> QED BY <2>3 DEF Answered
<1>3. <<>> = <<>> \o (<<>> \o <<>>)
  BY ConcatEmptySeq, NothingIsTorn
<1>4. Holds(<<>>, <<>>, <<>>, FALSE)
  BY <1>3, NothingIsTorn, StreamEmpty DEF Holds
<1>5. Drop(<<>>, 0) = <<>>
  BY DropAll, NothingIsTorn
<1>6. InputInv
  <2>1. Drop(sent, Answered) = <<>>
    BY <1>0, <1>2, <1>5
  <2>2. Holds(stdin, <<>>, Drop(sent, Answered), closed)
    <3>1. stdin = <<>> /\ closed = FALSE
      BY <1>0
    <3> QED BY <3>1, <2>1, <1>4
  <2>3. Answered <= Len(sent)
    <3>1. Len(<<>>) = 0 /\ sent = <<>>
      BY <1>0
    <3> QED BY <1>2, <3>1
  <2> QED BY <1>0, <2>2, <2>3 DEF InputInv
<1>7. OutputInv
  BY <1>0, <1>2, StreamEmpty DEF OutputInv
<1>8. AnswersInv
  BY <1>2 DEF AnswersInv
<1> QED BY <1>1, <1>6, <1>7, <1>8 DEF MessagingInv

\* The extension does not touch what Write has written, nor Read's state.
LEMMA ExtensionKeeps ==
  ASSUME MessagingInv, UNCHANGED <<stdout, stage, length, message>>,
         closed' \in BOOLEAN, stdin' \in Seq(Byte),
         sent' = sent \/ \E m \in Messages : sent' = Append(sent, m)
  PROVE  /\ TypeOK' /\ OutputInv' /\ AnswersInv'
         /\ Found' = Found /\ Answered' = Answered
         /\ sent' \in Seq(Messages)
         /\ Len(sent') \in Nat /\ Len(sent) <= Len(sent')
         /\ \A i \in 1 .. Len(sent) : sent'[i] = sent[i]
<1>1. Found' = Found /\ Answered' = Answered
  BY DEF Found, Answered
<1>2. /\ sent \in Seq(Messages) /\ Len(sent) \in Nat /\ Answered \in Nat
      /\ Answered <= Len(sent)
  BY InvFacts
<1>3. /\ sent' \in Seq(Messages) /\ Len(sent') \in Nat /\ Len(sent) <= Len(sent')
      /\ \A i \in 1 .. Len(sent) : sent'[i] = sent[i]
  <2>1. CASE sent' = sent
    BY <1>2, <2>1
  <2>2. ASSUME NEW m \in Messages, sent' = Append(sent, m)
        PROVE  /\ sent' \in Seq(Messages) /\ Len(sent') = Len(sent) + 1
               /\ \A i \in 1 .. Len(sent) : sent'[i] = sent[i]
    BY <1>2, <2>2, AppendProperties
  <2>3. ASSUME Len(sent') = Len(sent) + 1
        PROVE  Len(sent') \in Nat /\ Len(sent) <= Len(sent')
    BY <1>2, <2>3
  <2> QED BY <2>1, <2>2, <2>3
<1>4. TypeOK'
  BY <1>3 DEF MessagingInv, TypeOK
<1>5. OutputInv'
  BY <1>1 DEF MessagingInv, OutputInv
<1>6. AnswersInv'
  <2> SUFFICES ASSUME NEW i \in 1 .. Answered
               PROVE  /\ Valid(Len(sent'[i]))
                      /\ Found[i] \in Responses(sent'[i])
                      /\ Len(Found[i]) <= MaxMessageSize
    BY <1>1 DEF AnswersInv
  <2>1. sent'[i] = sent[i]
    BY <1>2, <1>3
  <2> QED BY <2>1 DEF MessagingInv, AnswersInv
<1> QED BY <1>1, <1>3, <1>4, <1>5, <1>6

-----------------------------------------------------------------------------
(* The steps of the extension                                              *)

LEMMA SendKeeps ==
  ASSUME MessagingInv, NEW m \in Messages, Send(m)
  PROVE  MessagingInv'
<1> DEFINE d == Drop(sent, Answered)
           e == Drop(sent, Answered + 1)
<1>1. /\ sent \in Seq(Messages) /\ sent \in Seq(Seq(Byte)) /\ Len(sent) \in Nat
      /\ Answered \in Nat /\ Answered <= Len(sent) /\ m \in Seq(Byte)
  BY InvFacts, MessagingAssumption
<1>2. /\ closed = FALSE /\ closed' = FALSE
      /\ stdin' = stdin \o Framed(m) /\ sent' = Append(sent, m)
      /\ UNCHANGED <<stdout, stage, length, message>>
  BY DEF Send, MessagingInv, TypeOK
<1>3. stdin' \in Seq(Byte)
  BY <1>1, <1>2, FramedType, ConcatProperties DEF MessagingInv, TypeOK
<1>4. /\ TypeOK' /\ OutputInv' /\ AnswersInv' /\ Answered' = Answered
      /\ Len(sent') \in Nat /\ Len(sent) <= Len(sent')
      /\ \A i \in 1 .. Len(sent) : sent'[i] = sent[i]
  BY <1>2, <1>3, ExtensionKeeps
<1>5. d \in Seq(Seq(Byte)) /\ Drop(sent', Answered) = Append(d, m)
  <2>1. Answered \in 0 .. Len(sent)
    BY <1>1
  <2>2. Drop(Append(sent, m), Answered) = Append(Drop(sent, Answered), m)
    BY <1>1, <2>1, DropAppend
  <2> QED BY <1>1, <1>2, <2>1, <2>2, DropFacts
<1>6. ASSUME Answered < Len(sent)
      PROVE  /\ e \in Seq(Seq(Byte)) /\ Drop(sent', Answered + 1) = Append(e, m)
             /\ sent'[Answered + 1] = sent[Answered + 1]
             /\ sent[Answered + 1] \in Seq(Byte)
  <2>1. Answered + 1 \in 0 .. Len(sent) /\ Answered + 1 \in 1 .. Len(sent)
    BY <1>1, <1>6
  <2>2. e \in Seq(Seq(Byte))
    BY <1>1, <2>1, DropFacts
  <2>3. Drop(Append(sent, m), Answered + 1) = Append(Drop(sent, Answered + 1), m)
    BY <1>1, <2>1, DropAppend
  <2> QED BY <1>1, <1>2, <1>4, <2>1, <2>2, <2>3, ElementOfSeq
<1> HIDE DEF d, e
<1>7. ASSUME NEW first \in Seq(Byte), NEW ms \in Seq(Seq(Byte)),
             Holds(stdin, first, ms, closed)
      PROVE  Holds(stdin', first, Append(ms, m), closed')
  <2>1. Holds(stdin, first, ms, FALSE)
    BY <1>2, <1>7
  <2>2. Holds(stdin \o Framed(m), first, Append(ms, m), FALSE)
    BY <1>1, <2>1, HoldsSend
  <2> QED BY <1>2, <2>2
<1>8. ASSUME stage' = "reading length"
      PROVE  Holds(stdin', <<>>, Drop(sent', Answered'), closed')
  <2>1. Holds(stdin, <<>>, d, closed)
    BY <1>2, <1>8 DEF MessagingInv, InputInv, d
  <2>2. Holds(stdin', <<>>, Append(d, m), closed')
    BY <1>5, <1>7, <2>1, NothingIsTorn
  <2> QED BY <1>4, <1>5, <2>2
<1>9. ASSUME stage' = "reading payload"
      PROVE  /\ Answered' < Len(sent')
             /\ Valid(Len(sent'[Answered' + 1]))
             /\ length' = Len(sent'[Answered' + 1])
             /\ Holds(stdin', sent'[Answered' + 1], Drop(sent', Answered' + 1), closed')
  <2>1. /\ Answered < Len(sent) /\ Valid(Len(sent[Answered + 1]))
        /\ length = Len(sent[Answered + 1])
        /\ Holds(stdin, sent[Answered + 1], e, closed)
    BY <1>2, <1>9 DEF MessagingInv, InputInv, e
  <2>2. Holds(stdin', sent[Answered + 1], Append(e, m), closed')
    BY <1>6, <1>7, <2>1
  <2>3. Answered < Len(sent')
    BY <1>1, <1>4, <2>1
  <2> QED BY <1>2, <1>4, <1>6, <2>1, <2>2, <2>3
<1>10. ASSUME stage' \in {"handling", "writing length", "writing payload"}
       PROVE  /\ Answered' < Len(sent')
              /\ Valid(Len(sent'[Answered' + 1]))
              /\ Holds(stdin', <<>>, Drop(sent', Answered' + 1), closed')
              /\ sent'[Answered' + 1] = sent[Answered + 1]
  <2>1. /\ Answered < Len(sent) /\ Valid(Len(sent[Answered + 1]))
        /\ Holds(stdin, <<>>, e, closed)
    BY <1>2, <1>10 DEF MessagingInv, InputInv, e
  <2>2. Holds(stdin', <<>>, Append(e, m), closed')
    BY <1>6, <1>7, <2>1, NothingIsTorn
  <2>3. Answered < Len(sent')
    BY <1>1, <1>4, <2>1
  <2> QED BY <1>4, <1>6, <2>1, <2>2, <2>3
<1>11. Answered' <= Len(sent')
  BY <1>1, <1>4
<1>12. /\ stage' = "handling" => message' = sent'[Answered' + 1]
       /\ stage' \in {"writing length", "writing payload"} =>
            message' \in Responses(sent'[Answered' + 1])
  BY <1>2, <1>10 DEF MessagingInv, InputInv
<1>13. InputInv'
  BY <1>8, <1>9, <1>10, <1>11, <1>12 DEF InputInv
<1> QED BY <1>4, <1>13 DEF MessagingInv

\* Closing, with or without a part of a frame before it.
LEMMA CloseKeeps ==
  ASSUME MessagingInv, closed = FALSE, closed' = TRUE,
         UNCHANGED <<stdout, sent, stage, length, message>>,
         NEW t \in Seq(Byte), Torn(t), stdin' = stdin \o t
  PROVE  MessagingInv'
<1>1. /\ sent \in Seq(Messages) /\ sent \in Seq(Seq(Byte)) /\ Len(sent) \in Nat
      /\ Answered \in Nat /\ Answered <= Len(sent)
      /\ \A i \in 1 .. Len(sent) : sent[i] \in Seq(Byte)
  BY InvFacts
<1>2. stdin' \in Seq(Byte)
  BY ConcatProperties DEF MessagingInv, TypeOK
<1>3. TypeOK' /\ OutputInv' /\ AnswersInv' /\ Answered' = Answered
  BY <1>2, ExtensionKeeps
<1>4. \A i \in 0 .. Len(sent) : Drop(sent, i) \in Seq(Seq(Byte))
  BY <1>1, DropFacts
<1>5. ASSUME NEW first \in Seq(Byte), NEW ms \in Seq(Seq(Byte)),
             Holds(stdin, first, ms, closed)
      PROVE  Holds(stdin', first, ms, closed')
  <2>1. Holds(stdin, first, ms, FALSE)
    BY <1>5
  <2>2. Holds(stdin \o t, first, ms, TRUE)
    BY <2>1, HoldsCut
  <2> QED BY <2>2
<1>6. ASSUME stage = "reading length"
      PROVE  Holds(stdin', <<>>, Drop(sent, Answered), closed')
  <2>1. Drop(sent, Answered) \in Seq(Seq(Byte))
    BY <1>1, <1>4
  <2> QED BY <1>5, <1>6, <2>1, NothingIsTorn DEF MessagingInv, InputInv
<1>7. ASSUME Answered < Len(sent)
      PROVE  /\ Drop(sent, Answered + 1) \in Seq(Seq(Byte))
             /\ sent[Answered + 1] \in Seq(Byte)
  <2>1. Answered + 1 \in 0 .. Len(sent) /\ Answered + 1 \in 1 .. Len(sent)
    BY <1>1, <1>7
  <2> QED BY <1>1, <1>4, <2>1
<1>8. ASSUME stage = "reading payload"
      PROVE  /\ Answered < Len(sent)
             /\ Valid(Len(sent[Answered + 1]))
             /\ length = Len(sent[Answered + 1])
             /\ Holds(stdin', sent[Answered + 1], Drop(sent, Answered + 1), closed')
  BY <1>5, <1>7, <1>8 DEF MessagingInv, InputInv
<1>9. ASSUME stage \in {"handling", "writing length", "writing payload"}
      PROVE  /\ Answered < Len(sent)
             /\ Valid(Len(sent[Answered + 1]))
             /\ Holds(stdin', <<>>, Drop(sent, Answered + 1), closed')
  BY <1>5, <1>7, <1>9, NothingIsTorn DEF MessagingInv, InputInv
<1>10. InputInv'
  BY <1>1, <1>3, <1>6, <1>8, <1>9 DEF MessagingInv, InputInv
<1> QED BY <1>3, <1>10 DEF MessagingInv

LEMMA Limit ==
  /\ MaxMessageSize \in Nat \ {0}
  /\ 0 \in 0 .. MaxMessageSize
  /\ \A n : Valid(n) => n \in 0 .. MaxMessageSize /\ n \in Nat \ {0}
<1>1. MaxMessageSize \in Nat \ {0}
  BY MessagingAssumption
<1> QED BY <1>1 DEF Valid

-----------------------------------------------------------------------------
(* The steps of the host                                                   *)

\* The host touches neither what was sent nor whether the port is closed.
LEMMA HostKeeps ==
  ASSUME MessagingInv, UNCHANGED <<stdout, closed, sent>>
  PROVE  /\ Found' = Found /\ Answered' = Answered
         /\ AnswersInv'
BY DEF MessagingInv, AnswersInv, Found, Answered, Valid

\* The last step, when what is found stays the same.
LEMMA EndKeeps ==
  ASSUME MessagingInv, UNCHANGED <<closed, sent>>, stage' = "ended",
         stdin' \in Seq(Byte), stdout' \in Seq(Byte), Found' = Found,
         length' \in 0 .. MaxMessageSize, message' = message
  PROVE  MessagingInv'
<1>1. Answered' = Answered
  BY DEF Answered
<1>2. TypeOK'
  BY DEF MessagingInv, TypeOK, Stages
<1>3. InputInv'
  BY <1>1 DEF MessagingInv, InputInv
<1>4. OutputInv'
  BY DEF OutputInv
<1>5. AnswersInv'
  BY <1>1 DEF MessagingInv, AnswersInv, Valid
<1> QED BY <1>2, <1>3, <1>4, <1>5 DEF MessagingInv

\* Nothing moves but the stage.
LEMMA StopKeeps ==
  ASSUME MessagingInv, UNCHANGED <<stdin, stdout, closed, sent, length, message>>,
         stage' = "ended"
  PROVE  MessagingInv'
<1>1. Found' = Found
  BY DEF Found
<1>2. stdin' \in Seq(Byte) /\ stdout' \in Seq(Byte) /\ length' \in 0 .. MaxMessageSize
  BY DEF MessagingInv, TypeOK
<1> QED BY <1>1, <1>2, EndKeeps

LEMMA ReadLengthKeeps == MessagingInv /\ ReadLength => MessagingInv'
<1> SUFFICES ASSUME MessagingInv, ReadLength PROVE MessagingInv'
  OBVIOUS
<1> DEFINE n == Value(stdin)
<1>1. /\ Fit(sent) /\ sent \in Seq(Seq(Byte)) /\ Len(sent) \in Nat
      /\ Answered \in Nat /\ Answered <= Len(sent)
  BY InvFacts
<1>2. /\ stage = "reading length" /\ Len(stdin) >= Width
      /\ stdin' = Drop(stdin, Width)
      /\ UNCHANGED <<stdout, closed, sent, message>>
      /\ \/ Valid(n) /\ length' = n /\ stage' = "reading payload"
         \/ ~ Valid(n) /\ length' = 0 /\ stage' = "ended"
  BY DEF ReadLength, AfterError
<1>3. Holds(stdin, <<>>, Drop(sent, Answered), closed)
  BY <1>2 DEF MessagingInv, InputInv
<1>4. Width \in 0 .. Len(stdin) /\ stdin \in Seq(Byte)
  <2>1. stdin \in Seq(Byte)
    BY DEF MessagingInv, TypeOK
  <2>2. Len(stdin) \in Nat /\ Width \in Nat
    BY <2>1, FramesAssumption, LenProperties
  <2>3. Len(stdin) >= Width
    BY <1>2
  <2> QED BY <2>1, <2>2, <2>3
<1>5. stdin' \in Seq(Byte)
  BY <1>2, <1>4, DropFacts
<1>6. \/ /\ Answered < Len(sent)
         /\ n = Len(sent[Answered + 1])
         /\ Holds(stdin', sent[Answered + 1], Drop(sent, Answered + 1), closed)
      \/ closed /\ Len(stdin') < n
  <2>1. CASE Answered < Len(sent)
    <3>1. Answered \in 0 .. Len(sent) - 1 /\ Answered \in 0 .. Len(sent)
      BY <1>1, <2>1
    <3> DEFINE d == Drop(sent, Answered)
    <3>2. d # <<>> /\ d[1] = sent[Answered + 1] /\ Drop(d, 1) = Drop(sent, Answered + 1)
      BY <1>1, <3>1, DropOneMore
    <3>3. Fit(d)
      BY <1>1, <3>1, DropFits
    <3> HIDE DEF d
    <3>4. Value(stdin) = Len(d[1]) /\ Holds(Drop(stdin, Width), d[1], Drop(d, 1), closed)
      BY <1>3, <3>2, <3>3, HoldsLength DEF d
    <3> QED BY <1>2, <2>1, <3>2, <3>4
  <2>2. CASE Answered = Len(sent)
    <3>1. Drop(sent, Answered) = <<>>
      BY <1>1, <2>2, DropAll
    <3>2. Holds(stdin, <<>>, <<>>, closed)
      BY <1>3, <3>1
    <3>3. closed /\ Len(Drop(stdin, Width)) < Value(stdin)
      <4>1. Len(stdin) >= Width
        BY <1>2
      <4> QED BY <3>2, <4>1, HoldsTail
    <3> QED BY <1>2, <3>3
  <2> QED BY <1>1, <2>1, <2>2
<1> HIDE DEF n
<1>7. CASE ~ Valid(n) /\ length' = 0 /\ stage' = "ended"
  <2>1. Found' = Found /\ stdout' \in Seq(Byte) /\ 0 \in 0 .. MaxMessageSize
    BY <1>2, Limit DEF Found, MessagingInv, TypeOK
  <2> QED BY <1>2, <1>5, <1>7, <2>1, EndKeeps
<1>8. CASE Valid(n) /\ length' = n /\ stage' = "reading payload"
  <2>1. /\ Found' = Found /\ Answered' = Answered /\ AnswersInv'
    BY <1>2, HostKeeps
  <2>2. TypeOK'
    <3>1. n \in 0 .. MaxMessageSize
      BY <1>8, Limit
    <3> QED BY <1>2, <1>5, <1>8, <3>1 DEF MessagingInv, TypeOK, Stages
  <2>3. InputInv'
    BY <1>1, <1>2, <1>6, <1>8, <2>1 DEF InputInv
  <2>4. OutputInv'
    BY <1>2, <1>8, <2>1 DEF MessagingInv, OutputInv
  <2> QED BY <2>1, <2>2, <2>3, <2>4 DEF MessagingInv
<1> QED BY <1>2, <1>7, <1>8

LEMMA ReadPayloadKeeps == MessagingInv /\ ReadPayload => MessagingInv'
<1> SUFFICES ASSUME MessagingInv, ReadPayload PROVE MessagingInv'
  OBVIOUS
<1> DEFINE m == sent[Answered + 1]
           r == Drop(sent, Answered + 1)
<1>1. /\ sent \in Seq(Seq(Byte)) /\ Len(sent) \in Nat /\ Answered \in Nat
      /\ \A i \in 1 .. Len(sent) : sent[i] \in Seq(Byte)
  BY InvFacts
<1>2. /\ stage = "reading payload" /\ Len(stdin) >= length
      /\ message' = SubSeq(stdin, 1, length) /\ stdin' = Drop(stdin, length)
      /\ stage' = "handling"
      /\ UNCHANGED <<stdout, closed, sent, length>>
  BY DEF ReadPayload
<1>3. /\ stdin \in Seq(Byte) /\ Len(stdin) \in Nat
      /\ length \in 0 .. MaxMessageSize /\ length \in Nat
  <2>1. stdin \in Seq(Byte) /\ length \in 0 .. MaxMessageSize
    BY DEF MessagingInv, TypeOK
  <2> QED BY <2>1, Limit, LenProperties
<1>4. /\ Answered < Len(sent) /\ Valid(Len(m)) /\ length = Len(m)
      /\ Holds(stdin, m, r, closed)
  <2>1. Len(stdin) >= length
    BY <1>2
  <2>2. ~ (Len(stdin) < length)
    BY <1>3, <2>1
  <2> QED BY <1>2, <2>2 DEF MessagingInv, InputInv
<1>5. m \in Seq(Byte) /\ r \in Seq(Seq(Byte))
  <2>1. Answered + 1 \in 1 .. Len(sent) /\ Answered + 1 \in 0 .. Len(sent)
    BY <1>1, <1>4
  <2> QED BY <1>1, <2>1, DropFacts
<1> HIDE DEF m, r
<1>6. SubSeq(stdin, 1, Len(m)) = m /\ Holds(Drop(stdin, Len(m)), <<>>, r, closed)
  BY <1>4, <1>5, HoldsPayload
<1>7. message' = m /\ Holds(stdin', <<>>, r, closed)
  BY <1>2, <1>4, <1>6
<1>8. /\ Found' = Found /\ Answered' = Answered /\ AnswersInv'
  BY <1>2, HostKeeps
<1>9. TypeOK'
  <2>1. stdin' \in Seq(Byte)
    <3>1. length \in 0 .. Len(stdin)
      <4>1. Len(stdin) >= length
        BY <1>2
      <4> QED BY <1>3, <4>1
    <3> QED BY <1>2, <1>3, <3>1, DropFacts
  <2> QED BY <1>2, <1>4, <1>5, <1>7, <2>1 DEF MessagingInv, TypeOK, Stages
<1>10. InputInv'
  <2>1. Answered <= Len(sent)
    BY <1>1, <1>4
  <2>2. /\ stage' = "handling" /\ Answered' = Answered /\ sent' = sent
        /\ message' = sent[Answered + 1] /\ Valid(Len(sent[Answered + 1]))
        /\ Holds(stdin', <<>>, Drop(sent, Answered + 1), closed')
    BY <1>2, <1>4, <1>7, <1>8 DEF m, r
  <2> QED BY <1>4, <2>1, <2>2 DEF InputInv
<1>11. OutputInv'
  BY <1>2, <1>8 DEF MessagingInv, OutputInv
<1> QED BY <1>8, <1>9, <1>10, <1>11 DEF MessagingInv

LEMMA HandleKeeps == MessagingInv /\ Handle => MessagingInv'
<1> SUFFICES ASSUME MessagingInv, Handle PROVE MessagingInv'
  OBVIOUS
<1>1. /\ stage = "handling" /\ message' \in Responses(message)
      /\ stage' = "writing length" /\ length' = 0
      /\ UNCHANGED <<stdin, stdout, closed, sent>>
  BY DEF Handle
<1>2. /\ Answered < Len(sent) /\ Valid(Len(sent[Answered + 1]))
      /\ Holds(stdin, <<>>, Drop(sent, Answered + 1), closed)
      /\ message = sent[Answered + 1] /\ Answered <= Len(sent)
  BY <1>1 DEF MessagingInv, InputInv
<1>3. message \in Messages
  BY <1>2, InvFacts
<1>4. message' \in Seq(Byte)
  BY <1>1, <1>2, <1>3, ResponseType
<1>5. /\ Found' = Found /\ Answered' = Answered /\ AnswersInv'
  BY <1>1, HostKeeps
<1>6. TypeOK'
  <2>1. 0 \in 0 .. MaxMessageSize
    BY Limit
  <2> QED BY <1>1, <1>4, <2>1 DEF MessagingInv, TypeOK, Stages
<1>7. InputInv'
  BY <1>1, <1>2, <1>5 DEF InputInv
<1>8. OutputInv'
  BY <1>1, <1>5 DEF MessagingInv, OutputInv
<1> QED BY <1>5, <1>6, <1>7, <1>8 DEF MessagingInv

\* Bytes behind the frames that are found, as long as they are torn.
LEMMA WrittenBehind ==
  ASSUME MessagingInv, stdout = Stream(Found), NEW t \in Seq(Byte), Torn(t),
         stdout' = stdout \o t
  PROVE  Found' = Found /\ stdout' \in Seq(Byte)
<1>1. Unframed[Stream(Found) \o t] = Found
  BY InvFacts, WrittenTorn
<1>2. Unframed[stdout'] = Found
  BY <1>1
<1>3. stdout \in Seq(Byte)
  BY DEF MessagingInv, TypeOK
<1> QED BY <1>2, <1>3, ConcatProperties DEF Found

\* A length can be written for what Write accepts.
LEMMA AcceptedFits ==
  \A m \in Seq(Byte) : Len(m) <= MaxMessageSize => Len(m) < Capacity
<1>1. Capacity \in Nat
  BY WeightDef, FramesAssumption DEF Capacity
<1>2. MaxMessageSize < Capacity /\ MaxMessageSize \in Nat
  BY MessagingAssumption
<1>3. \A m \in Seq(Byte) : Len(m) \in Nat
  BY LenProperties
<1> QED BY <1>1, <1>2, <1>3

\* The next message is one that was sent.
LEMMA NextMessage ==
  ASSUME MessagingInv, Answered < Len(sent)
  PROVE  sent[Answered + 1] \in Messages
<1>1. Answered \in Nat /\ Len(sent) \in Nat
  BY InvFacts
<1>2. Answered + 1 \in 1 .. Len(sent)
  BY <1>1
<1> QED BY <1>2, InvFacts

\* What Write is given: a response to the next message.
LEMMA MessageFacts ==
  ASSUME MessagingInv, stage \in {"writing length", "writing payload"}
  PROVE  /\ Answered < Len(sent) /\ Valid(Len(sent[Answered + 1]))
         /\ message \in Responses(sent[Answered + 1])
         /\ message \in Seq(Byte) /\ Len(message) \in Nat \ {0}
         /\ Len(message) <= MaxMessageSize => Len(message) < Capacity
<1>1. /\ Answered < Len(sent) /\ Valid(Len(sent[Answered + 1]))
      /\ message \in Responses(sent[Answered + 1])
  BY DEF MessagingInv, InputInv
<1>2. sent[Answered + 1] \in Messages
  BY <1>1, NextMessage
<1> DEFINE m == sent[Answered + 1]
<1>3. message \in Seq(Byte) /\ Len(message) \in Nat \ {0}
  <2>1. m \in Messages /\ Valid(Len(m)) /\ message \in Responses(m)
    BY <1>1, <1>2
  <2> HIDE DEF m
  <2> QED BY <2>1, ResponseType
<1> QED BY <1>1, <1>3, AcceptedFits

\* A length alone is not found.
LEMMA WriteLengthFinds ==
  ASSUME MessagingInv, WriteLength
  PROVE  Found' = Found /\ stdout' \in Seq(Byte)
<1> DEFINE l == LittleEndian(Len(message))
<1>1. stage = "writing length" /\ stdout' = stdout \o l
  BY DEF WriteLength
<1>2. Len(message) <= MaxMessageSize
  BY DEF WriteLength
<1>3. Len(message) \in Nat \ {0} /\ Len(message) < Capacity
  BY <1>1, <1>2, MessageFacts
<1>4. l \in Seq(Byte) /\ Torn(l)
  <2>1. 0 \in 0 .. Width
    BY FramesAssumption
  <2> QED BY <1>3, <2>1, LengthTorn, LittleEndianType
<1>5. stdout = Stream(Found)
  BY <1>1 DEF MessagingInv, OutputInv
<1> HIDE DEF l
<1> QED BY <1>1, <1>4, <1>5, WrittenBehind

LEMMA WriteLengthKeeps == MessagingInv /\ WriteLength => MessagingInv'
<1> SUFFICES ASSUME MessagingInv, WriteLength PROVE MessagingInv'
  OBVIOUS
<1>1. /\ stage = "writing length" /\ stage' = "writing payload"
      /\ length' = Len(message)
      /\ stdout' = stdout \o LittleEndian(Len(message))
      /\ UNCHANGED <<stdin, closed, sent, message>>
  BY DEF WriteLength
<1>2. Len(message) <= MaxMessageSize
  BY DEF WriteLength
<1>3. /\ Answered < Len(sent) /\ Valid(Len(sent[Answered + 1]))
      /\ message \in Responses(sent[Answered + 1])
      /\ Len(message) \in Nat \ {0}
  BY <1>1, MessageFacts
<1>4. stdout = Stream(Found)
  BY <1>1 DEF MessagingInv, OutputInv
<1>5. Found' = Found /\ stdout' \in Seq(Byte)
  BY WriteLengthFinds
<1>6. Answered' = Answered
  BY <1>5 DEF Answered
<1>7. TypeOK'
  <2>1. Len(message) \in 0 .. MaxMessageSize
    BY <1>2, <1>3, Limit
  <2> QED BY <1>1, <1>5, <2>1 DEF MessagingInv, TypeOK, Stages
<1>8. InputInv'
  <2>1. Holds(stdin, <<>>, Drop(sent, Answered + 1), closed) /\ Answered <= Len(sent)
    BY <1>1 DEF MessagingInv, InputInv
  <2> QED BY <1>1, <1>3, <1>6, <2>1 DEF InputInv
<1>9. OutputInv'
  BY <1>1, <1>2, <1>4, <1>5 DEF OutputInv
<1>10. AnswersInv'
  BY <1>1, <1>5, <1>6 DEF MessagingInv, AnswersInv
<1> QED BY <1>7, <1>8, <1>9, <1>10 DEF MessagingInv

\* A response that is written whole is found behind the others.
LEMMA WritePayloadFinds ==
  ASSUME MessagingInv, WritePayload
  PROVE  /\ stdout' = Stream(Append(Found, message)) /\ stdout' \in Seq(Byte)
         /\ Found' = Append(Found, message) /\ Answered' = Answered + 1
<1> DEFINE l == LittleEndian(Len(message))
           s == Stream(Found)
<1>1. stage = "writing payload" /\ stdout' = stdout \o message
  BY DEF WritePayload
<1>2. Len(message) <= MaxMessageSize /\ stdout = s \o l
  BY <1>1 DEF MessagingInv, OutputInv
<1>3. message \in Seq(Byte) /\ Len(message) \in Nat /\ Len(message) < Capacity
  BY <1>1, <1>2, MessageFacts
<1>4. l \in Seq(Byte) /\ s \in Seq(Byte)
  BY <1>3, LittleEndianType, InvFacts, StreamType
<1>5. Found \in Seq(Seq(Byte)) /\ Fit(Found) /\ Len(Found) \in Nat
  BY InvFacts, LenProperties
<1>6. Stream(Append(Found, message)) = s \o (l \o message)
  BY <1>3, <1>5, StreamAppend DEF Framed
<1> HIDE DEF l, s
<1>7. (s \o l) \o message = s \o (l \o message)
  BY <1>3, <1>4, BytesAssociative
<1>8. stdout' = Stream(Append(Found, message))
  BY <1>1, <1>2, <1>6, <1>7
<1> DEFINE f == Append(Found, message)
<1>9. /\ f \in Seq(Seq(Byte)) /\ Len(f) = Len(Found) + 1
      /\ f[Len(Found) + 1] = message
      /\ \A i \in 1 .. Len(Found) : f[i] = Found[i]
  BY <1>3, <1>5, AppendProperties
<1> HIDE DEF f
<1>10. Fit(f)
  <2>1. \A i \in 1 .. Len(Found) : Len(Found[i]) < Capacity
    BY <1>5 DEF Fit
  <2>2. ASSUME NEW i \in 1 .. Len(f) PROVE Len(f[i]) < Capacity
    <3>1. CASE i = Len(Found) + 1
      BY <1>3, <1>9, <3>1
    <3>2. CASE i # Len(Found) + 1
      <4>1. i \in 1 .. Len(Found)
        BY <1>5, <1>9, <3>2
      <4> QED BY <1>9, <2>1, <4>1
    <3> QED BY <3>1, <3>2
  <2> QED BY <1>9, <2>2 DEF Fit
<1>11. Unframed[Stream(f)] = f
  BY <1>10, WrittenWhole
<1>12. Unframed[stdout'] = f
  BY <1>8, <1>11 DEF f
<1>13. Found' = f
  BY <1>12 DEF Found
<1>14. Answered' = Answered + 1
  BY <1>9, <1>13 DEF Answered
<1>15. stdout' \in Seq(Byte)
  BY <1>8, <1>9, StreamType DEF f
<1> QED BY <1>8, <1>13, <1>14, <1>15 DEF f

LEMMA WritePayloadKeeps == MessagingInv /\ WritePayload => MessagingInv'
<1> SUFFICES ASSUME MessagingInv, WritePayload PROVE MessagingInv'
  OBVIOUS
<1>1. /\ stage = "writing payload" /\ stage' = "reading length"
      /\ length' = 0 /\ message' = <<>>
      /\ UNCHANGED <<stdin, closed, sent>>
  BY DEF WritePayload
<1>2. /\ stdout' = Stream(Append(Found, message)) /\ stdout' \in Seq(Byte)
      /\ Found' = Append(Found, message) /\ Answered' = Answered + 1
  BY WritePayloadFinds
<1>3. /\ Answered < Len(sent) /\ Valid(Len(sent[Answered + 1]))
      /\ message \in Responses(sent[Answered + 1])
      /\ message \in Seq(Byte)
  BY <1>1, MessageFacts
<1>4. Len(message) <= MaxMessageSize
  BY <1>1 DEF MessagingInv, OutputInv
<1>5. Found \in Seq(Seq(Byte)) /\ Len(Found) = Answered /\ Answered \in Nat /\ Len(sent) \in Nat
  BY InvFacts DEF Answered
<1>6. TypeOK'
  <2>1. <<>> \in Seq(Byte)
    OBVIOUS
  <2> QED BY <1>1, <1>2, <2>1, Limit DEF MessagingInv, TypeOK, Stages
<1>7. InputInv'
  <2>1. Holds(stdin, <<>>, Drop(sent, Answered + 1), closed)
    BY <1>1 DEF MessagingInv, InputInv
  <2>2. Answered + 1 <= Len(sent)
    BY <1>3, <1>5
  <2> QED BY <1>1, <1>2, <2>1, <2>2 DEF InputInv
<1>8. OutputInv'
  BY <1>1, <1>2 DEF OutputInv
<1>9. AnswersInv'
  <2> SUFFICES ASSUME NEW i \in 1 .. Answered + 1
               PROVE  /\ Valid(Len(sent[i]))
                      /\ Append(Found, message)[i] \in Responses(sent[i])
                      /\ Len(Append(Found, message)[i]) <= MaxMessageSize
    BY <1>1, <1>2 DEF AnswersInv
  <2>1. CASE i = Answered + 1
    <3>1. Append(Found, message)[i] = message
      BY <1>3, <1>5, <2>1, AppendProperties
    <3> QED BY <1>3, <1>4, <2>1, <3>1
  <2>2. CASE i # Answered + 1
    <3>1. i \in 1 .. Answered
      BY <1>5, <2>2
    <3>2. Append(Found, message)[i] = Found[i]
      BY <1>3, <1>5, <3>1, AppendProperties
    <3> QED BY <3>1, <3>2 DEF MessagingInv, AnswersInv
  <2> QED BY <2>1, <2>2
<1> QED BY <1>6, <1>7, <1>8, <1>9 DEF MessagingInv

LEMMA WriteFailsFinds ==
  ASSUME MessagingInv, WriteFails
  PROVE  Found' = Found /\ stdout' \in Seq(Byte)
<1> DEFINE l == LittleEndian(Len(message))
           s == Stream(Found)
<1>0. /\ stage \in {"writing length", "writing payload"}
      /\ stage = "writing length" => Len(message) <= MaxMessageSize
      /\ \E n \in 0 .. Len(IF stage = "writing length" THEN l ELSE message) - 1 :
           stdout' = stdout \o SubSeq(IF stage = "writing length" THEN l ELSE message, 1, n)
  BY DEF WriteFails
<1>1. Len(message) <= MaxMessageSize
  BY <1>0 DEF MessagingInv, OutputInv
<1>2. message \in Seq(Byte) /\ Len(message) \in Nat \ {0} /\ Len(message) < Capacity
  BY <1>0, <1>1, MessageFacts
<1>3. l \in Seq(Byte) /\ Len(l) = Width /\ s \in Seq(Byte)
  BY <1>2, LittleEndianType, InvFacts, StreamType
<1>4. CASE stage = "writing length"
  <2>1. PICK n \in 0 .. Len(l) - 1 : stdout' = stdout \o SubSeq(l, 1, n)
    BY <1>0, <1>4
  <2>2. n \in 0 .. Width
    BY <1>3, <2>1, FramesAssumption
  <2>3. SubSeq(l, 1, n) \in Seq(Byte) /\ Torn(SubSeq(l, 1, n))
    BY <1>2, <2>2, LengthTorn
  <2>4. stdout = Stream(Found)
    BY <1>4 DEF MessagingInv, OutputInv
  <2> HIDE DEF l
  <2> QED BY <2>1, <2>3, <2>4, WrittenBehind
<1>5. CASE stage = "writing payload"
  <2>1. PICK n \in 0 .. Len(message) - 1 : stdout' = stdout \o SubSeq(message, 1, n)
    BY <1>0, <1>5
  <2> DEFINE p == SubSeq(message, 1, n)
  <2>2. p \in Seq(Byte) /\ l \o p \in Seq(Byte) /\ Torn(l \o p)
    BY <1>2, MessageTorn
  <2>3. stdout = s \o l
    BY <1>5 DEF MessagingInv, OutputInv
  <2> HIDE DEF l, s, p
  <2>4. stdout' = s \o (l \o p)
    <3>1. (s \o l) \o p = s \o (l \o p)
      BY <1>3, <2>2, BytesAssociative
    <3> QED BY <2>1, <2>3, <3>1 DEF p
  <2>5. Unframed[Stream(Found) \o (l \o p)] = Found
    BY <2>2, InvFacts, WrittenTorn
  <2>6. Unframed[stdout'] = Found
    BY <2>4, <2>5 DEF s
  <2>7. stdout' \in Seq(Byte)
    BY <1>3, <2>2, <2>4, ConcatProperties
  <2> QED BY <2>6, <2>7 DEF Found
<1> QED BY <1>0, <1>4, <1>5

LEMMA WriteFailsKeeps == MessagingInv /\ WriteFails => MessagingInv'
<1> SUFFICES ASSUME MessagingInv, WriteFails PROVE MessagingInv'
  OBVIOUS
<1>1. Found' = Found /\ stdout' \in Seq(Byte)
  BY WriteFailsFinds
<1>2. stage' = "ended" /\ UNCHANGED <<stdin, closed, sent, length, message>>
  BY DEF WriteFails, AfterError
<1>3. stdin' \in Seq(Byte) /\ length' \in 0 .. MaxMessageSize
  BY <1>2 DEF MessagingInv, TypeOK
<1> QED BY <1>1, <1>2, <1>3, EndKeeps

-----------------------------------------------------------------------------
(* Every behaviour                                                         *)

LEMMA MessagingStep == MessagingInv /\ [Next]_vars => MessagingInv'
<1> SUFFICES ASSUME MessagingInv, [Next]_vars PROVE MessagingInv'
  OBVIOUS
<1>1. ASSUME NEW m \in Messages, Send(m) PROVE MessagingInv'
  BY <1>1, SendKeeps
<1>2. ASSUME NEW m \in Messages, CloseWithin(m) PROVE MessagingInv'
  <2>1. /\ closed = FALSE /\ closed' = TRUE
        /\ UNCHANGED <<stdout, sent, stage, length, message>>
        /\ \E n \in 1 .. Len(Framed(m)) - 1 : stdin' = stdin \o SubSeq(Framed(m), 1, n)
    BY <1>2 DEF CloseWithin, MessagingInv, TypeOK
  <2>2. PICK n \in 1 .. Len(Framed(m)) - 1 : stdin' = stdin \o SubSeq(Framed(m), 1, n)
    BY <2>1
  <2>3. m \in Seq(Byte) /\ Len(m) < Capacity
    BY MessagingAssumption
  <2>4. n \in 0 .. Len(Framed(m)) - 1
    BY <2>2
  <2>5. SubSeq(Framed(m), 1, n) \in Seq(Byte) /\ Torn(SubSeq(Framed(m), 1, n))
    BY <2>3, <2>4, PartTorn
  <2> QED BY <2>1, <2>2, <2>5, CloseKeeps
<1>3. CASE Close
  <2>1. /\ closed = FALSE /\ closed' = TRUE /\ stdin \in Seq(Byte)
        /\ UNCHANGED <<stdin, stdout, sent, stage, length, message>>
    BY <1>3 DEF Close, MessagingInv, TypeOK
  <2>2. stdin' = stdin \o <<>>
    BY <2>1, ConcatEmptySeq
  <2> QED BY <2>1, <2>2, NothingIsTorn, CloseKeeps
<1>4. CASE ReadLength
  BY <1>4, ReadLengthKeeps
<1>5. CASE ReadLengthFails \/ ReadPayloadFails \/ WriteTooLarge \/ Killed
  BY <1>5, StopKeeps
     DEF ReadLengthFails, ReadPayloadFails, WriteTooLarge, Killed, AfterError
<1>6. CASE ReadPayload
  BY <1>6, ReadPayloadKeeps
<1>7. CASE Handle
  BY <1>7, HandleKeeps
<1>8. CASE WriteLength
  BY <1>8, WriteLengthKeeps
<1>9. CASE WritePayload
  BY <1>9, WritePayloadKeeps
<1>10. CASE WriteFails
  BY <1>10, WriteFailsKeeps
<1>11. CASE UNCHANGED vars
  BY <1>11 DEF vars, MessagingInv, TypeOK, InputInv, OutputInv, AnswersInv,
               Found, Answered, Holds, Valid
<1> QED
  BY <1>1, <1>2, <1>3, <1>4, <1>5, <1>6, <1>7, <1>8, <1>9, <1>10, <1>11
     DEF Next, Host

\* The invariant that everything below follows from.
THEOREM MessagingInvariant == Spec => []MessagingInv
BY MessagingInit, MessagingStep, PTL DEF Spec

\* The pipes carry bytes, a length that Read or Write goes by is within the
\* limit, and it is that of the message it belongs to (io.go:18-64).
THEOREM TypeCorrect == Spec => []TypeOK
<1>1. MessagingInv => TypeOK
  BY DEF MessagingInv
<1> QED BY <1>1, MessagingInvariant, PTL

\* The frames that are held come first.
LEMMA HoldsPrefix ==
  ASSUME NEW b, NEW ms \in Seq(Seq(Byte)), NEW c, Holds(b, <<>>, ms, c)
  PROVE  IsPrefix(Stream(ms), b) /\ (c = FALSE => Stream(ms) = b)
<1> DEFINE rest == Stream(ms)
<1>1. PICK tail \in Seq(Byte) : b = <<>> \o (rest \o tail) /\ (c \/ tail = <<>>)
  BY DEF Holds
<1>2. rest \in Seq(Byte)
  BY StreamType
<1> HIDE DEF rest
<1>3. /\ rest \o tail \in Seq(Byte) /\ Len(rest \o tail) = Len(rest) + Len(tail)
      /\ Len(rest) \in Nat /\ Len(tail) \in Nat
  BY <1>2, ConcatProperties, LenProperties
<1>4. b = rest \o tail
  BY <1>1, <1>3, ConcatEmptySeq
<1>5. SubSeq(b, 1, Len(rest)) = rest
  BY <1>2, <1>4, Halves
<1>6. SubSeq(rest, 1, Len(rest)) = rest
  BY <1>2, SubSeqFull
<1>7. Len(rest) <= Len(b)
  BY <1>3, <1>4
<1>8. c = FALSE => rest = b
  BY <1>1, <1>2, <1>4, ConcatEmptySeq
<1> QED BY <1>5, <1>6, <1>7, <1>8 DEF IsPrefix, rest

LEMMA RestType ==
  ASSUME MessagingInv
  PROVE  Drop(sent, Answered) \in Seq(Seq(Byte))
<1>1. /\ sent \in Seq(Seq(Byte)) /\ Len(sent) \in Nat
      /\ Answered \in Nat /\ Answered <= Len(sent)
  BY InvFacts
<1>2. Answered \in 0 .. Len(sent)
  BY <1>1
<1> QED BY <1>1, <1>2, DropFacts

\* Reading never slips (io.go:18-36): whatever the bytes of the messages are,
\* what the next length is read from begins with the frame of the oldest
\* message without a response, or with no whole frame at all.
THEOREM ReadingInSync == Spec => []InSync
<1>1. MessagingInv => InSync
  <2> SUFFICES ASSUME MessagingInv, stage = "reading length"
               PROVE  /\ IsPrefix(Stream(Drop(sent, Answered)), stdin)
                      /\ closed \/ Stream(Drop(sent, Answered)) = stdin
    BY DEF InSync, Answered, Found
  <2>1. Drop(sent, Answered) \in Seq(Seq(Byte))
    BY RestType
  <2>2. Holds(stdin, <<>>, Drop(sent, Answered), closed)
    BY DEF MessagingInv, InputInv
  <2> DEFINE d == Drop(sent, Answered)
  <2> HIDE DEF d
  <2>3. d \in Seq(Seq(Byte)) /\ Holds(stdin, <<>>, d, closed)
    BY <2>1, <2>2 DEF d
  <2>4. IsPrefix(Stream(d), stdin) /\ (closed = FALSE => Stream(d) = stdin)
    BY <2>3, HoldsPrefix
  <2>5. closed \in BOOLEAN
    BY DEF MessagingInv, TypeOK
  <2> QED BY <2>4, <2>5 DEF d
<1> QED BY <1>1, MessagingInvariant, PTL

\* Writing never slips (io.go:56-64): what the extension reads are whole
\* frames, but for the one that was being written when the host ended.
THEOREM WritingWhole == Spec => []OutputWhole
<1>1. MessagingInv => OutputWhole
  BY DEF MessagingInv, OutputInv, OutputWhole, Found
<1> QED BY <1>1, MessagingInvariant, PTL

-----------------------------------------------------------------------------
(* The port                                                                *)

LEMMA PortInit == Init => Port!Init
<1> SUFFICES ASSUME Init PROVE Port!Init
  OBVIOUS
<1>1. Unframed[<<>>] = <<>>
  BY TornEmpty, NothingIsTorn
<1> QED BY <1>1 DEF Init, Port!Init

\* A response is the answer to the next message.
LEMMA AnswerStep == MessagingInv /\ WritePayload => Port!Answer
<1> SUFFICES ASSUME MessagingInv, WritePayload PROVE Port!Answer
  OBVIOUS
<1>1. /\ stage = "writing payload" /\ stage' = "reading length"
      /\ sent' = sent
  BY DEF WritePayload
<1>2. Found' = Append(Found, message)
  BY WritePayloadFinds
<1>3. /\ Answered < Len(sent) /\ Valid(Len(sent[Answered + 1]))
      /\ message \in Responses(sent[Answered + 1])
  BY <1>1, MessageFacts
<1>4. Len(message) <= MaxMessageSize
  BY <1>1 DEF MessagingInv, OutputInv
<1>5. \A i \in 1 .. Answered + 1 : Port!Acceptable(sent[i])
  <2>1. \A i \in 1 .. Answered : Valid(Len(sent[i]))
    BY DEF MessagingInv, AnswersInv
  <2>2. Answered \in Nat
    BY InvFacts
  <2>3. \A i \in 1 .. Answered + 1 : i \in 1 .. Answered \/ i = Answered + 1
    BY <2>2
  <2>4. \A i \in 1 .. Answered + 1 : Valid(Len(sent[i]))
    BY <1>3, <2>1, <2>3
  <2> QED BY <2>4 DEF Port!Acceptable, Valid
<1> QED BY <1>1, <1>2, <1>3, <1>4, <1>5 DEF Port!Answer, Found, Answered

LEMMA PortStep == MessagingInv /\ [Next]_vars => [Port!Next]_(Port!vars)
<1> SUFFICES ASSUME MessagingInv, [Next]_vars PROVE [Port!Next]_(Port!vars)
  OBVIOUS
<1>1. ASSUME NEW m \in Messages, Send(m) PROVE Port!Next
  BY <1>1 DEF Send, Port!Next, Port!Send
<1>2. CASE WritePayload
  BY <1>2, AnswerStep DEF Port!Next
<1>3. CASE WriteFails
  <2>1. Found' = Found
    BY <1>3, WriteFailsFinds
  <2>2. stage' = "ended" /\ sent' = sent
    BY <1>3 DEF WriteFails, AfterError
  <2> QED BY <2>1, <2>2 DEF Port!Next, Port!End, Found
<1>4. CASE WriteLength
  <2>1. Found' = Found
    BY <1>4, WriteLengthFinds
  <2>2. stage = "writing length" /\ stage' = "writing payload" /\ sent' = sent
    BY <1>4 DEF WriteLength
  <2> QED BY <2>1, <2>2 DEF Port!vars, Found
<1>5. CASE ReadLengthFails \/ ReadPayloadFails \/ WriteTooLarge \/ Killed
  BY <1>5 DEF ReadLengthFails, ReadPayloadFails, WriteTooLarge, Killed, AfterError,
              Port!Next, Port!End
<1>6. CASE ReadLength
  <2>1. /\ UNCHANGED <<stdout, sent>> /\ stage = "reading length"
        /\ stage' \in {"reading payload", "ended"}
    BY <1>6 DEF ReadLength, AfterError
  <2>2. CASE stage' = "ended"
    BY <2>1, <2>2 DEF Port!Next, Port!End
  <2>3. CASE stage' = "reading payload"
    BY <2>1, <2>3 DEF Port!vars
  <2> QED BY <2>1, <2>2, <2>3
<1>7. CASE ReadPayload \/ Handle
  BY <1>7 DEF ReadPayload, Handle, Port!vars
<1>8. ASSUME (\E m \in Messages : CloseWithin(m)) \/ Close \/ UNCHANGED vars
      PROVE  UNCHANGED Port!vars
  BY <1>8 DEF CloseWithin, Close, vars, Port!vars
<1> QED
  BY <1>1, <1>2, <1>3, <1>4, <1>5, <1>6, <1>7, <1>8 DEF Next, Host

\* Byte by byte the host is a port that answers message by message: the
\* responses come in the order of the messages, each one whole and to its own
\* message, none to or after a message of a refused length, and none after
\* the end (io.go:18-64, tpmfido.go:86-110).
THEOREM HostIsPort == Spec => ImplementsPort
BY PortInit, PortStep, MessagingInvariant, PTL DEF Spec, ImplementsPort, Port!Spec

-----------------------------------------------------------------------------
(* How long it takes to end                                                *)

\* Numbers only: a round that goes on, and one that begins.
LEMMA FewerLeft ==
  /\ \A n, i, j \in Nat : i < j => 5 * n + i < 5 * n + j
  /\ \A n, m, i, j \in Nat : m < n /\ i <= 5 /\ j >= 1 => 5 * m + i < 5 * n + j
OBVIOUS

LEMMA RoundGoesOn ==
  ASSUME MessagingInv, UNCHANGED stdin,
         NEW i \in Nat, NEW j \in Nat, i < j, StepsOfRound = j, StepsOfRound' = i
  PROVE  StepsLeft' < StepsLeft
<1>1. stdin \in Seq(Byte)
  BY DEF MessagingInv, TypeOK
<1>2. Len(stdin) \in Nat
  BY <1>1, LenProperties
<1>3. 5 * Len(stdin) + i < 5 * Len(stdin) + j
  BY <1>2, FewerLeft
<1> QED BY <1>3 DEF StepsLeft

LEMMA PipeShrinks ==
  ASSUME MessagingInv, NEW k \in Nat, k >= 1, k <= Len(stdin), stdin' = Drop(stdin, k),
         NEW i \in Nat, NEW j \in Nat, i <= 5, j >= 1,
         StepsOfRound = j, StepsOfRound' = i
  PROVE  StepsLeft' < StepsLeft
<1>1. stdin \in Seq(Byte)
  BY DEF MessagingInv, TypeOK
<1>2. Len(stdin) \in Nat
  BY <1>1, LenProperties
<1>3. Len(Drop(stdin, k)) = Len(stdin) - k
  BY <1>1, <1>2, DropFacts
<1>4. Len(stdin') = Len(stdin) - k
  BY <1>3
<1>5. Len(stdin') \in Nat /\ Len(stdin') < Len(stdin)
  BY <1>2, <1>4
<1>6. 5 * Len(stdin') + i < 5 * Len(stdin) + j
  BY <1>2, <1>5, FewerLeft
<1> QED BY <1>6 DEF StepsLeft

LEMMA ClosedStep == MessagingInv /\ [Next]_vars => [closed => StepsLeft' < StepsLeft]_vars
<1> SUFFICES ASSUME MessagingInv, Next, closed PROVE StepsLeft' < StepsLeft
  BY DEF vars
<1>1. CASE ReadLength
  <2>1. /\ StepsOfRound = 1 /\ StepsOfRound' \in {0, 5}
        /\ stdin' = Drop(stdin, Width)
    BY <1>1 DEF ReadLength, AfterError, StepsOfRound
  <2>2. Len(stdin) >= Width
    BY <1>1 DEF ReadLength
  <2>3. Width \in Nat /\ Width >= 1
    BY FramesAssumption
  <2> QED BY <2>1, <2>2, <2>3, PipeShrinks
<1>2. CASE ReadPayload
  <2>1. /\ StepsOfRound = 5 /\ StepsOfRound' = 4
        /\ stdin' = Drop(stdin, length)
    BY <1>2 DEF ReadPayload, StepsOfRound
  <2>2. Len(stdin) >= length
    BY <1>2 DEF ReadPayload
  <2>3. length \in Nat /\ length >= 1
    <3>1. Valid(length)
      <4>1. stdin \in Seq(Byte) /\ length \in 0 .. MaxMessageSize
        BY DEF MessagingInv, TypeOK
      <4>2. ~ (Len(stdin) < length)
        BY <2>2, <4>1, Limit, LenProperties
      <4> QED BY <1>2, <4>2 DEF ReadPayload, MessagingInv, InputInv
    <3> QED BY <3>1, Limit
  <2> QED BY <2>1, <2>2, <2>3, PipeShrinks
<1>3. CASE ReadLengthFails \/ ReadPayloadFails \/ WriteTooLarge \/ WriteFails \/ Killed
  <2>1. stage # "ended" /\ stage' = "ended" /\ UNCHANGED stdin
    BY <1>3 DEF ReadLengthFails, ReadPayloadFails, WriteTooLarge, WriteFails, Killed,
                AfterError
  <2>2. StepsOfRound \in {1, 2, 3, 4, 5} /\ StepsOfRound' = 0
    BY <2>1 DEF StepsOfRound, MessagingInv, TypeOK, Stages
  <2>3. StepsOfRound \in Nat /\ 0 < StepsOfRound
    BY <2>2
  <2> QED BY <2>1, <2>2, <2>3, RoundGoesOn
<1>4. CASE Handle
  <2>1. StepsOfRound = 4 /\ StepsOfRound' = 3 /\ UNCHANGED stdin
    BY <1>4 DEF Handle, StepsOfRound
  <2> QED BY <2>1, RoundGoesOn
<1>5. CASE WriteLength
  <2>1. StepsOfRound = 3 /\ StepsOfRound' = 2 /\ UNCHANGED stdin
    BY <1>5 DEF WriteLength, StepsOfRound
  <2> QED BY <2>1, RoundGoesOn
<1>6. CASE WritePayload
  <2>1. StepsOfRound = 2 /\ StepsOfRound' = 1 /\ UNCHANGED stdin
    BY <1>6 DEF WritePayload, StepsOfRound
  <2> QED BY <2>1, RoundGoesOn
<1>7. ~ Close /\ \A m \in Messages : ~ Send(m) /\ ~ CloseWithin(m)
  BY DEF Close, Send, CloseWithin
<1> QED BY <1>1, <1>2, <1>3, <1>4, <1>5, <1>6, <1>7 DEF Next, Host

\* After the port has closed, every step of the host brings its end nearer:
\* it takes at most five for each byte that is left in the pipe, and one
\* round (tpmfido.go:87-110).
THEOREM HostRunsOut == Spec => RunsOut
BY ClosedStep, MessagingInvariant, PTL DEF Spec, RunsOut

=============================================================================
