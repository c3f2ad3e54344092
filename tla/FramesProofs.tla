---------------------------- MODULE FramesProofs ----------------------------
(* Proofs about frames, for any size of a byte and any width of a length:  *)
(* what is written is read back.  The inductions over lengths and bytes    *)
(* are done on sets of numbers (Induction), since the prover cannot take   *)
(* a predicate for a parameter.                                            *)
EXTENDS Frames, FiniteSetTheorems, SequenceTheorems, TLAPS

-----------------------------------------------------------------------------
(* Induction over sets of numbers                                          *)

\* A set of numbers that is not empty has a least one: the intervals up to
\* its members are finite sets, and strict inclusion of those is well-founded.
LEMMA LeastNumber ==
  ASSUME NEW T \in SUBSET Nat, T # {}
  PROVE  \E x \in T : \A y \in T : x <= y
<1> DEFINE R == StrictSubsetOrdering(Nat)
           F == FiniteSubsetsOf(Nat)
           D == {0 .. x : x \in T}
<1>1. IsWellFoundedOn(R, F)
  BY FS_StrictSubsetOrderingWellFounded
<1>2. D \subseteq F
  <2> SUFFICES ASSUME NEW x \in T PROVE 0 .. x \in F
    OBVIOUS
  <2>1. x \in Int /\ 0 \in Int
    OBVIOUS
  <2>2. IsFiniteSet(0 .. x)
    BY <2>1, FS_Interval
  <2>3. 0 .. x \subseteq Nat
    BY <2>1
  <2> QED BY <2>2, <2>3 DEF FiniteSubsetsOf
<1>3. D # {}
  OBVIOUS
<1>4. \A A, B \in SUBSET Nat : A \subseteq B /\ A # B => <<A, B>> \in R
  BY DEF StrictSubsetOrdering
<1>5. PICK d \in D : \A e \in D : ~ (<<e, d>> \in R)
  <2> HIDE DEF R, F, D
  <2> QED BY <1>1, <1>2, <1>3, WFMin
<1>6. PICK x \in T : d = 0 .. x
  BY <1>5
<1>7. ASSUME NEW y \in T, ~ (x <= y) PROVE FALSE
  <2>1. x \in Nat /\ y \in Nat /\ y < x
    BY <1>7
  <2>2. 0 .. y \subseteq 0 .. x /\ x \in 0 .. x /\ x \notin 0 .. y
    BY <2>1
  <2>3. 0 .. y \in SUBSET Nat /\ 0 .. x \in SUBSET Nat
    BY <2>1
  <2>4. <<0 .. y, 0 .. x>> \in R
    <3> HIDE DEF R
    <3> QED BY <1>4, <2>2, <2>3
  <2>5. 0 .. y \in D
    OBVIOUS
  <2> HIDE DEF R, D
  <2> QED BY <1>5, <1>6, <2>4, <2>5
<1> QED BY <1>7

\* Induction, with a set for the predicate.
LEMMA Induction ==
  ASSUME NEW S, 0 \in S, \A n \in Nat : n \in S => n + 1 \in S
  PROVE  Nat \subseteq S
<1> DEFINE T == Nat \ S
<1> SUFFICES ASSUME T # {} PROVE FALSE
  OBVIOUS
<1>1. PICK x \in T : \A y \in T : x <= y
  <2> HIDE DEF T
  <2>1. T \in SUBSET Nat
    BY DEF T
  <2> QED BY LeastNumber, <2>1
<1>2. x \in Nat /\ x # 0
  OBVIOUS
<1>3. x - 1 \in Nat /\ x - 1 \notin T
  BY <1>1, <1>2
<1> QED BY <1>2, <1>3

\* f starts with c and goes on with step.
Recursive(f, n, S, c, step) ==
  /\ f \in [0 .. n -> S]
  /\ f[0] = c
  /\ \A i \in 1 .. n : f[i] = step[<<i, f[i - 1]>>]

\* A function may be defined by recursion over the numbers up to n.
LEMMA Recursion ==
  ASSUME NEW n \in Nat, NEW S, NEW c \in S, NEW step \in [(1 .. n) \X S -> S]
  PROVE  \E f : Recursive(f, n, S, c, step)
<1> DEFINE Good(m, f) == f[0] = c /\ \A i \in 1 .. m : f[i] = step[<<i, f[i - 1]>>]
           G == {m \in Nat : m <= n => \E f \in [0 .. m -> S] : Good(m, f)}
<1>1. 0 \in G
  <2>1. [i \in 0 .. 0 |-> c] \in [0 .. 0 -> S] /\ Good(0, [i \in 0 .. 0 |-> c])
    OBVIOUS
  <2> QED BY <2>1
<1>2. ASSUME NEW m \in Nat, m \in G PROVE m + 1 \in G
  <2> SUFFICES ASSUME m + 1 <= n
               PROVE  \E f \in [0 .. m + 1 -> S] : Good(m + 1, f)
    OBVIOUS
  <2>1. PICK f \in [0 .. m -> S] : Good(m, f)
    BY <1>2
  <2> DEFINE g == [i \in 0 .. m + 1 |-> IF i = m + 1 THEN step[<<m + 1, f[m]>>] ELSE f[i]]
  <2>2. m + 1 \in 1 .. n /\ f[m] \in S
    BY <2>1
  <2>3. step[<<m + 1, f[m]>>] \in S
    BY <2>2
  <2>4. g \in [0 .. m + 1 -> S]
    BY <2>3
  <2>5. Good(m + 1, g)
    <3>1. g[0] = c
      BY <2>1
    <3>2. ASSUME NEW i \in 1 .. m + 1 PROVE g[i] = step[<<i, g[i - 1]>>]
      <4>1. i - 1 \in 0 .. m /\ g[i - 1] = f[i - 1]
        OBVIOUS
      <4>2. CASE i = m + 1
        <5>1. g[m + 1] = step[<<m + 1, f[m]>>] /\ i - 1 = m
          BY <4>2
        <5> HIDE DEF g
        <5> QED BY <4>1, <4>2, <5>1
      <4>3. CASE i # m + 1
        BY <4>1, <4>3, <2>1
      <4> QED BY <4>2, <4>3
    <3> QED BY <3>1, <3>2
  <2> HIDE DEF g
  <2> QED BY <2>4, <2>5
<1>3. n \in G
  <2> HIDE DEF G
  <2> QED BY <1>1, <1>2, Induction
<1> QED BY <1>3 DEF Recursive

\* Two functions start the same, and go on the same up to n.
Alike(f, g, n) ==
  f[0] = g[0] /\ \A i \in 1 .. n : f[i - 1] = g[i - 1] => f[i] = g[i]

\* Then they are the same up to n.
LEMMA Agreement ==
  ASSUME NEW n \in Nat, NEW f, NEW g, Alike(f, g, n)
  PROVE  \A i \in 0 .. n : f[i] = g[i]
<1> DEFINE G == {m \in Nat : m <= n => f[m] = g[m]}
<1>0. f[0] = g[0] /\ \A i \in 1 .. n : f[i - 1] = g[i - 1] => f[i] = g[i]
  BY DEF Alike
<1>1. 0 \in G
  BY <1>0
<1>2. ASSUME NEW m \in Nat, m \in G PROVE m + 1 \in G
  <2> SUFFICES ASSUME m + 1 <= n PROVE f[m + 1] = g[m + 1]
    OBVIOUS
  <2>1. m + 1 \in 1 .. n /\ (m + 1) - 1 = m /\ f[m] = g[m]
    BY <1>2
  <2>2. f[(m + 1) - 1] = g[(m + 1) - 1]
    BY <2>1
  <2> QED BY <1>0, <2>1, <2>2
<1>3. Nat \subseteq G
  <2> HIDE DEF G
  <2> QED BY <1>1, <1>2, Induction
<1> QED BY <1>3

-----------------------------------------------------------------------------
(* Lengths                                                                 *)

\* The weights of the bytes are what their recursion says.
LEMMA WeightDef ==
  /\ Weight \in [0 .. Width -> Nat \ {0}]
  /\ Weight[0] = 1
  /\ \A i \in 1 .. Width : Weight[i] = (MaxByte + 1) * Weight[i - 1]
<1> DEFINE P == Nat \ {0}
           step == [iw \in (1 .. Width) \X P |-> (MaxByte + 1) * iw[2]]
           Body(w) == [i \in 0 .. Width |-> IF i = 0 THEN 1 ELSE (MaxByte + 1) * w[i - 1]]
<1>1. step \in [(1 .. Width) \X P -> P]
  BY FramesAssumption
<1>2. \A i \in 1 .. Width, w \in P : step[<<i, w>>] = (MaxByte + 1) * w
  OBVIOUS
<1>3. PICK f \in [0 .. Width -> P] :
        f[0] = 1 /\ \A i \in 1 .. Width : f[i] = step[<<i, f[i - 1]>>]
  <2>1. 1 \in P /\ Width \in Nat
    BY FramesAssumption
  <2> HIDE DEF P, step
  <2>2. \E f : Recursive(f, Width, P, 1, step)
    BY <1>1, <2>1, Recursion
  <2> QED BY <2>2 DEF Recursive
<1>4. \A i \in 1 .. Width : f[i] = (MaxByte + 1) * f[i - 1]
  <2> TAKE i \in 1 .. Width
  <2>1. i - 1 \in 0 .. Width
    BY FramesAssumption
  <2> HIDE DEF step, P
  <2> QED BY <1>2, <1>3, <2>1
<1>5. f = Body(f)
  <2> HIDE DEF P, step
  <2> QED BY <1>3, <1>4
<1>6. Weight = CHOOSE w : w = Body(w)
  BY DEF Weight
<1>7. Weight = Body(Weight)
  BY <1>5, <1>6
<1>8. \A i \in 0 .. Width : Weight[i] = f[i]
  <2>1. Weight[0] = 1
    BY <1>7, FramesAssumption
  <2>2. \A i \in 1 .. Width : Weight[i] = (MaxByte + 1) * Weight[i - 1]
    BY <1>7, FramesAssumption
  <2>3. Weight[0] = f[0] /\ Width \in Nat
    BY <1>3, <2>1, FramesAssumption
  <2>4. \A i \in 1 .. Width : Weight[i - 1] = f[i - 1] => Weight[i] = f[i]
    BY <1>4, <2>2
  <2>5. Alike(Weight, f, Width)
    BY <2>3, <2>4 DEF Alike
  <2> HIDE DEF P, step
  <2> QED BY <2>3, <2>5, Agreement
<1> QED BY <1>3, <1>4, <1>5, <1>7, <1>8, FramesAssumption

\* Quotient and remainder are unique.
LEMMA Division ==
  ASSUME NEW n \in Nat, NEW d \in Nat \ {0}, NEW q \in Nat, NEW r \in Nat,
         n = d * q + r, r < d
  PROVE  n \div d = q /\ n % d = r
OBVIOUS

\* Dividing by one number and then by another.
LEMMA DivisionTwice ==
  ASSUME NEW n \in Nat, NEW d \in Nat \ {0}, NEW e \in Nat \ {0}
  PROVE  n \div (e * d) = (n \div d) \div e
<1> DEFINE q == n \div d
           r == n % d
           k == q \div e
           s == q % e
<1>1. q \in Nat /\ r \in Nat /\ n = d * q + r /\ r < d
  OBVIOUS
<1>2. k \in Nat /\ s \in Nat /\ q = e * k + s /\ s < e
  BY <1>1
<1> HIDE DEF q, r, k, s
<1>3. d * s + r \in Nat /\ e * d \in Nat \ {0}
  BY <1>1, <1>2
<1>4. n = (e * d) * k + (d * s + r)
  BY <1>1, <1>2
<1>5. d * s <= d * (e - 1)
  BY <1>2
<1>6. d * s + r < e * d
  BY <1>1, <1>5, <1>2
<1>7. n \div (e * d) = k
  BY <1>2, <1>3, <1>4, <1>6, Division
<1> QED BY <1>7 DEF k, q

\* The sum a length is read as.
LEMMA ValueDef ==
  ASSUME NEW b, \A i \in 1 .. Width : b[i] \in Nat
  PROVE  \E sum \in [0 .. Width -> Nat] :
           /\ sum[0] = 0
           /\ \A i \in 1 .. Width : sum[i] = sum[i - 1] + b[i] * Weight[i - 1]
           /\ Value(b) = sum[Width]
<1> DEFINE step == [ix \in (1 .. Width) \X Nat |-> ix[2] + b[ix[1]] * Weight[ix[1] - 1]]
           Body(f) == [i \in 0 .. Width |-> IF i = 0 THEN 0 ELSE f[i - 1] + b[i] * Weight[i - 1]]
           sum == CHOOSE f : f = Body(f)
<1>1. \A i \in 1 .. Width : i - 1 \in 0 .. Width /\ Weight[i - 1] \in Nat
  BY FramesAssumption, WeightDef
<1>2. \A i \in 1 .. Width : b[i] * Weight[i - 1] \in Nat
  BY <1>1
<1>3. step \in [(1 .. Width) \X Nat -> Nat]
  BY <1>2
<1>4. \A i \in 1 .. Width, x \in Nat : step[<<i, x>>] = x + b[i] * Weight[i - 1]
  OBVIOUS
<1>5. PICK f : Recursive(f, Width, Nat, 0, step)
  <2>1. 0 \in Nat /\ Width \in Nat
    BY FramesAssumption
  <2> HIDE DEF step
  <2> QED BY <1>3, <2>1, Recursion
<1>6. /\ f \in [0 .. Width -> Nat] /\ f[0] = 0
      /\ \A i \in 1 .. Width : f[i] = f[i - 1] + b[i] * Weight[i - 1]
  <2> HIDE DEF step
  <2> QED BY <1>1, <1>4, <1>5, FramesAssumption DEF Recursive
<1>7. f = Body(f)
  BY <1>6
<1>8. sum = Body(sum)
  BY <1>7
<1>9. \A i \in 0 .. Width : sum[i] = f[i]
  <2> HIDE DEF sum
  <2>1. sum[0] = 0
    BY <1>8, FramesAssumption
  <2>2. \A i \in 1 .. Width : sum[i] = sum[i - 1] + b[i] * Weight[i - 1]
    BY <1>8, FramesAssumption
  <2>3. sum[0] = f[0] /\ Width \in Nat
    BY <1>6, <2>1, FramesAssumption
  <2>4. \A i \in 1 .. Width : sum[i - 1] = f[i - 1] => sum[i] = f[i]
    BY <1>6, <2>2
  <2>5. Alike(sum, f, Width)
    BY <2>3, <2>4 DEF Alike
  <2> QED BY <2>3, <2>5, Agreement
<1>10. Value(b) = sum[Width]
  BY DEF Value
<1>11. Value(b) = f[Width]
  BY <1>9, <1>10, FramesAssumption
<1> HIDE DEF step, sum
<1> QED BY <1>6, <1>11

\* A length is written as Width bytes.
LEMMA LittleEndianType ==
  ASSUME NEW n \in Nat
  PROVE  /\ LittleEndian(n) \in Seq(Byte)
         /\ Len(LittleEndian(n)) = Width
         /\ \A i \in 1 .. Width :
              LittleEndian(n)[i] = (n \div Weight[i - 1]) % (MaxByte + 1)
<1>1. \A i \in 1 .. Width : (n \div Weight[i - 1]) % (MaxByte + 1) \in Byte
  <2> TAKE i \in 1 .. Width
  <2>1. i - 1 \in 0 .. Width
    BY FramesAssumption
  <2>2. n \div Weight[i - 1] \in Nat
    BY <2>1, WeightDef
  <2> QED BY <2>2, FramesAssumption DEF Byte
<1>2. LittleEndian(n) \in [1 .. Width -> Byte]
  BY <1>1 DEF LittleEndian
<1>3. Width \in Nat
  BY FramesAssumption
<1> QED BY <1>2, <1>3, LenProperties, SeqDef DEF LittleEndian

\* What begins with a length that Write has written, binary.Read reads as that
\* length, for any base and width below its capacity (io.go:18-20, 55-57).
THEOREM LengthReadBack ==
  ASSUME NEW n \in Nat, n < Capacity,
         NEW b, \A i \in 1 .. Width : b[i] = LittleEndian(n)[i]
  PROVE  Value(b) = n
<1> DEFINE B == MaxByte + 1
<1>0. B \in Nat \ {0} /\ Width \in Nat
  BY FramesAssumption
<1>1. \A i \in 1 .. Width : b[i] = (n \div Weight[i - 1]) % B
  BY LittleEndianType
<1>2. \A i \in 1 .. Width : /\ i - 1 \in 0 .. Width
                            /\ Weight[i - 1] \in Nat \ {0}
                            /\ Weight[i] = B * Weight[i - 1]
  BY WeightDef, <1>0
<1>3. \A i \in 1 .. Width : b[i] \in Nat
  <2> TAKE i \in 1 .. Width
  <2>1. n \div Weight[i - 1] \in Nat
    BY <1>2
  <2> HIDE DEF B
  <2> QED BY <1>0, <1>1, <2>1
<1>4. PICK sum \in [0 .. Width -> Nat] :
        /\ sum[0] = 0
        /\ \A i \in 1 .. Width : sum[i] = sum[i - 1] + b[i] * Weight[i - 1]
        /\ Value(b) = sum[Width]
  BY <1>3, ValueDef
<1> DEFINE Left(i) == Weight[i] * (n \div Weight[i]) + sum[i]
           G == {m \in Nat : m <= Width => Left(m) = n}
<1> HIDE DEF B
<1>5. 0 \in G
  BY <1>4, <1>0, WeightDef
<1>6. ASSUME NEW m \in Nat, m \in G PROVE m + 1 \in G
  <2> SUFFICES ASSUME m + 1 <= Width PROVE Left(m + 1) = n
    OBVIOUS
  <2> DEFINE p == Weight[m]
             q == n \div p
             k == q \div B
             d == q % B
             t == sum[m]
  <2>1. m + 1 \in 1 .. Width /\ (m + 1) - 1 = m /\ m \in 0 .. Width
    BY <1>0
  <2>2. p \in Nat \ {0} /\ Weight[m + 1] = B * p /\ b[m + 1] = d
    BY <1>1, <1>2, <2>1
  <2>3. sum[m + 1] = t + d * p /\ t \in Nat
    BY <1>4, <2>1, <2>2
  <2>4. p * q + t = n
    BY <1>6, <2>1
  <2>5. q \in Nat
    BY <2>2
  <2>6. n \div Weight[m + 1] = k
    <3> HIDE DEF p
    <3>1. n \div (B * p) = (n \div p) \div B
      BY <2>2, <1>0, DivisionTwice
    <3> QED BY <2>2, <3>1
  <2> HIDE DEF p, q, t
  <2>7. k \in Nat /\ d \in Nat /\ q = B * k + d
    BY <2>5, <1>0
  <2> HIDE DEF k, d
  <2>8. (B * p) * k + (t + d * p) = p * (B * k + d) + t
    BY <2>2, <2>3, <2>7, <1>0
  <2> QED BY <2>2, <2>3, <2>4, <2>6, <2>7, <2>8
<1>7. Nat \subseteq G
  <2> HIDE DEF G
  <2> QED BY <1>5, <1>6, Induction
<1>8. Left(Width) = n
  BY <1>7, <1>0
<1>9. Weight[Width] \in Nat \ {0} /\ n < Weight[Width]
  BY <1>0, WeightDef DEF Capacity
<1>10. n \div Weight[Width] = 0
  BY <1>9
<1>11. sum[Width] = n
  BY <1>8, <1>9, <1>10, <1>4, <1>0
<1> QED BY <1>4, <1>11

\* A number is read from any bytes.
LEMMA ValueType ==
  ASSUME NEW b \in Seq(Byte), Len(b) >= Width
  PROVE  Value(b) \in Nat
<1>1. \A i \in 1 .. Width : b[i] \in Nat
  BY FramesAssumption DEF Byte
<1> QED BY <1>1, ValueDef, FramesAssumption

-----------------------------------------------------------------------------
(* One after the other                                                     *)

\* What the sequences up to one of them come to.
LEMMA FlattenDef ==
  ASSUME NEW S, NEW ss \in Seq(Seq(S))
  PROVE  \E f \in [0 .. Len(ss) -> Seq(S)] :
           /\ f[0] = <<>>
           /\ \A i \in 1 .. Len(ss) : f[i] = f[i - 1] \o ss[i]
           /\ FlattenSeq(ss) = f[Len(ss)]
<1> DEFINE n == Len(ss)
           T == Seq(S)
           step == [ix \in (1 .. n) \X T |-> ix[2] \o ss[ix[1]]]
           Body(f) == [i \in 1 .. n |-> IF i = 1 THEN ss[i] ELSE f[i - 1] \o ss[i]]
           flatten == CHOOSE f : f = Body(f)
<1>1. n \in Nat /\ <<>> \in T /\ \A i \in 1 .. n : ss[i] \in T
  BY LenProperties, ElementOfSeq, EmptySeq
<1>2. step \in [(1 .. n) \X T -> T]
  BY <1>1, ConcatProperties
<1>3. \A i \in 1 .. n, x \in T : step[<<i, x>>] = x \o ss[i]
  OBVIOUS
<1>4. PICK f : Recursive(f, n, T, <<>>, step)
  <2> HIDE DEF step, T, n
  <2> QED BY <1>1, <1>2, Recursion
<1>5. /\ f \in [0 .. n -> T] /\ f[0] = <<>>
      /\ \A i \in 1 .. n : f[i] = f[i - 1] \o ss[i]
  <2> HIDE DEF step, T, n
  <2>1. f \in [0 .. n -> T] /\ f[0] = <<>>
    BY <1>4 DEF Recursive
  <2>2. ASSUME NEW i \in 1 .. n PROVE f[i] = f[i - 1] \o ss[i]
    <3>1. i - 1 \in 0 .. n
      BY <1>1
    <3>2. f[i - 1] \in T
      BY <2>1, <3>1
    <3>3. f[i] = step[<<i, f[i - 1]>>]
      BY <1>4 DEF Recursive
    <3> QED BY <1>3, <3>2, <3>3
  <2> QED BY <2>1, <2>2
<1>6. CASE n = 0
  BY <1>5, <1>6, EmptySeq DEF FlattenSeq
<1>7. CASE n # 0
  <2>0. n \in 1 .. n /\ 1 \in 1 .. n
    BY <1>1, <1>7
  <2> DEFINE h == [i \in 1 .. n |-> f[i]]
  <2>1. f[1] = ss[1]
    <3>1. 1 \in 1 .. n /\ 1 - 1 = 0
      BY <2>0
    <3>2. f[1] = f[0] \o ss[1]
      <4> HIDE DEF n
      <4>1. f[1] = f[1 - 1] \o ss[1]
        BY <1>5, <3>1
      <4> QED BY <4>1, <3>1
    <3>3. ss[1] \in Seq(S)
      BY <1>1, <3>1
    <3> QED BY <1>5, <3>2, <3>3, ConcatEmptySeq
  <2>2. h = Body(h)
    <3> SUFFICES ASSUME NEW i \in 1 .. n, i # 1 PROVE f[i] = h[i - 1] \o ss[i]
      BY <2>1
    <3>1. i - 1 \in 1 .. n
      BY <1>1
    <3> QED BY <1>5, <3>1
  <2>3. flatten = Body(flatten)
    <3> HIDE DEF h
    <3> QED BY <2>2
  <2>4. FlattenSeq(ss) = flatten[n]
    BY <1>7 DEF FlattenSeq
  <2> HIDE DEF flatten
  <2> DEFINE g == [i \in 0 .. n |-> IF i = 0 THEN <<>> ELSE flatten[i]]
  <2>5. g[0] = f[0]
    BY <1>1, <1>5
  <2>6. \A i \in 1 .. n : g[i - 1] = f[i - 1] => g[i] = f[i]
    <3> SUFFICES ASSUME NEW i \in 1 .. n, g[i - 1] = f[i - 1] PROVE flatten[i] = f[i]
      BY <1>1
    <3>1. CASE i = 1
      BY <2>1, <2>3, <3>1
    <3>2. CASE i # 1
      <4>1. i - 1 \in 1 .. n
        BY <1>1, <3>2
      <4>2. flatten[i - 1] = f[i - 1]
        BY <4>1
      <4>3. flatten[i] = flatten[i - 1] \o ss[i]
        BY <2>3, <3>2
      <4> QED BY <1>5, <4>2, <4>3
    <3> QED BY <3>1, <3>2
  <2>7. \A i \in 0 .. n : g[i] = f[i]
    <3> HIDE DEF g, n
    <3>1. Alike(g, f, n)
      BY <2>5, <2>6 DEF Alike
    <3> QED BY <1>1, <3>1, Agreement
  <2>8. flatten[n] = f[n]
    BY <2>7, <1>1, <1>7
  <2> QED BY <1>5, <2>4, <2>8
<1> QED BY <1>6, <1>7, <1>1

LEMMA FlattenEmpty == FlattenSeq(<<>>) = <<>>
BY EmptySeq DEF FlattenSeq

\* One more sequence comes behind the others.
LEMMA FlattenAppend ==
  ASSUME NEW S, NEW ss \in Seq(Seq(S)), NEW s \in Seq(S)
  PROVE  /\ FlattenSeq(ss) \in Seq(S)
         /\ FlattenSeq(Append(ss, s)) = FlattenSeq(ss) \o s
<1> DEFINE n == Len(ss)
           tt == Append(ss, s)
<1>1. /\ n \in Nat /\ tt \in Seq(Seq(S)) /\ Len(tt) = n + 1
      /\ tt[n + 1] = s /\ \A i \in 1 .. n : tt[i] = ss[i]
  BY LenProperties, AppendProperties
<1>2. PICK f :
        /\ f \in [0 .. n -> Seq(S)]
        /\ f[0] = <<>>
        /\ \A i \in 1 .. n : f[i] = f[i - 1] \o ss[i]
        /\ FlattenSeq(ss) = f[n]
  BY FlattenDef
<1> HIDE DEF tt
<1>3. PICK g :
        /\ g \in [0 .. Len(tt) -> Seq(S)]
        /\ g[0] = <<>>
        /\ \A i \in 1 .. Len(tt) : g[i] = g[i - 1] \o tt[i]
        /\ FlattenSeq(tt) = g[Len(tt)]
  BY <1>1, FlattenDef
<1> HIDE DEF n
<1>4. ASSUME NEW i \in 1 .. n, g[i - 1] = f[i - 1] PROVE g[i] = f[i]
  <2>1. i \in 1 .. Len(tt) /\ tt[i] = ss[i]
    BY <1>1
  <2>2. g[i] = g[i - 1] \o tt[i]
    BY <1>3, <2>1
  <2>3. f[i] = f[i - 1] \o ss[i]
    BY <1>2
  <2> QED BY <1>4, <2>1, <2>2, <2>3
<1>5. \A i \in 0 .. n : g[i] = f[i]
  <2>1. g[0] = f[0]
    BY <1>2, <1>3
  <2>2. \A i \in 1 .. n : g[i - 1] = f[i - 1] => g[i] = f[i]
    BY <1>4
  <2>3. n \in Nat
    BY <1>1
  <2>4. Alike(g, f, n)
    BY <2>1, <2>2 DEF Alike
  <2> QED BY <2>3, <2>4, Agreement
<1>6. g[n + 1] = g[n] \o s
  <2>1. n + 1 \in 1 .. Len(tt) /\ (n + 1) - 1 = n
    BY <1>1
  <2> QED BY <1>1, <1>3, <2>1
<1>7. g[n] = f[n] /\ f[n] \in Seq(S)
  BY <1>1, <1>2, <1>5
<1> QED BY <1>1, <1>2, <1>3, <1>6, <1>7 DEF tt

LEMMA BytesAssociative ==
  \A x, y, z \in Seq(Byte) : (x \o y) \o z = x \o (y \o z)
BY ConcatAssociative

LEMMA MessagesAssociative ==
  \A x, y, z \in Seq(Seq(Byte)) : (x \o y) \o z = x \o (y \o z)
BY ConcatAssociative

\* Frames are bytes.
LEMMA FramedType ==
  ASSUME NEW m \in Seq(Byte)
  PROVE  /\ Framed(m) \in Seq(Byte)
         /\ Len(Framed(m)) = Width + Len(m)
<1>1. Len(m) \in Nat
  BY LenProperties
<1>2. LittleEndian(Len(m)) \in Seq(Byte) /\ Len(LittleEndian(Len(m))) = Width
  BY <1>1, LittleEndianType
<1> QED BY <1>2, ConcatProperties DEF Framed

LEMMA FramesType ==
  ASSUME NEW ms \in Seq(Seq(Byte))
  PROVE  /\ [i \in DOMAIN ms |-> Framed(ms[i])] \in Seq(Seq(Byte))
         /\ Len([i \in DOMAIN ms |-> Framed(ms[i])]) = Len(ms)
<1>1. DOMAIN ms = 1 .. Len(ms) /\ Len(ms) \in Nat
  BY LenProperties
<1>2. \A i \in 1 .. Len(ms) : Framed(ms[i]) \in Seq(Byte)
  BY ElementOfSeq, FramedType
<1> QED BY <1>1, <1>2, SeqDef, LenProperties

\* No messages, no bytes.
LEMMA StreamEmpty == Stream(<<>>) = <<>>
<1>1. DOMAIN <<>> = {}
  OBVIOUS
<1>2. [i \in DOMAIN <<>> |-> Framed(<<>>[i])] = <<>>
  BY <1>1
<1> QED BY <1>2, FlattenEmpty DEF Stream

\* A message more is a frame more at the end.
LEMMA StreamAppend ==
  ASSUME NEW ms \in Seq(Seq(Byte)), NEW m \in Seq(Byte)
  PROVE  /\ Stream(ms) \in Seq(Byte)
         /\ Stream(Append(ms, m)) = Stream(ms) \o Framed(m)
<1> DEFINE frames(ns) == [i \in DOMAIN ns |-> Framed(ns[i])]
           ns == Append(ms, m)
<1>1. frames(ms) \in Seq(Seq(Byte)) /\ Len(frames(ms)) = Len(ms)
  BY FramesType
<1>2. Framed(m) \in Seq(Byte)
  BY FramedType
<1>3. frames(ns) = Append(frames(ms), Framed(m))
  <2> DEFINE n == Len(ms)
             a == Append(frames(ms), Framed(m))
  <2>1. /\ n \in Nat /\ ns \in Seq(Seq(Byte)) /\ Len(ns) = n + 1
        /\ ns[n + 1] = m /\ \A i \in 1 .. n : ns[i] = ms[i]
    BY LenProperties, AppendProperties
  <2>2. frames(ns) \in Seq(Seq(Byte)) /\ Len(frames(ns)) = n + 1
    <3> HIDE DEF ns
    <3> QED BY <2>1, FramesType
  <2>3. /\ a \in Seq(Seq(Byte)) /\ Len(a) = n + 1
        /\ a[n + 1] = Framed(m) /\ \A i \in 1 .. n : a[i] = frames(ms)[i]
    <3> HIDE DEF frames
    <3> QED BY <1>1, <1>2, AppendProperties
  <2>4. DOMAIN ns = 1 .. n + 1 /\ DOMAIN ms = 1 .. n
    BY <2>1, LenProperties
  <2> HIDE DEF ns, a, n
  <2>5. \A i \in 1 .. n + 1 : frames(ns)[i] = a[i]
    <3> SUFFICES ASSUME NEW i \in 1 .. n + 1 PROVE Framed(ns[i]) = a[i]
      BY <2>4
    <3>1. CASE i = n + 1
      BY <2>1, <2>3, <3>1
    <3>2. CASE i # n + 1
      <4>1. i \in 1 .. n
        BY <2>1, <3>2
      <4> QED BY <2>1, <2>3, <2>4, <4>1
    <3> QED BY <3>1, <3>2
  <2> HIDE DEF frames
  <2> QED BY <2>2, <2>3, <2>5, SeqEqual DEF a
<1> HIDE DEF frames
<1>4. Stream(ms) = FlattenSeq(frames(ms)) /\ Stream(ns) = FlattenSeq(frames(ns))
  BY DEF Stream, frames
<1> QED BY <1>1, <1>2, <1>3, <1>4, FlattenAppend

LEMMA StreamType ==
  \A ms \in Seq(Seq(Byte)) : Stream(ms) \in Seq(Byte)
<1>1. <<>> \in Seq(Byte)
  OBVIOUS
<1> QED BY <1>1, StreamAppend

\* The bytes of the first message come first.
LEMMA StreamHead ==
  ASSUME NEW ms \in Seq(Seq(Byte)), NEW m \in Seq(Byte)
  PROVE  Stream(<<m>> \o ms) = Framed(m) \o Stream(ms)
<1> DEFINE Claim(ns) == Stream(<<m>> \o ns) = Framed(m) \o Stream(ns)
           G == {k \in Nat : \A ns \in Seq(Seq(Byte)) : Len(ns) = k => Claim(ns)}
<1>0. Framed(m) \in Seq(Byte) /\ <<m>> \in Seq(Seq(Byte)) /\ <<>> \in Seq(Seq(Byte))
  BY FramedType
<1>1. 0 \in G
  <2> SUFFICES ASSUME NEW ns \in Seq(Seq(Byte)), Len(ns) = 0 PROVE Claim(ns)
    OBVIOUS
  <2>1. ns = <<>>
    BY EmptySeq
  <2>2. Stream(Append(<<>>, m)) = Stream(<<>>) \o Framed(m)
    BY <1>0, StreamAppend
  <2>3. Append(<<>>, m) = <<m>> \o <<>>
    BY <1>0, AppendIsConcat, ConcatEmptySeq
  <2>4. Stream(<<>>) \o Framed(m) = Framed(m) \o Stream(<<>>)
    BY <1>0, StreamEmpty, ConcatEmptySeq
  <2> QED BY <2>1, <2>2, <2>3, <2>4
<1>2. ASSUME NEW k \in Nat, k \in G PROVE k + 1 \in G
  <2> HIDE DEF Claim
  <2> SUFFICES ASSUME NEW ns \in Seq(Seq(Byte)), Len(ns) = k + 1 PROVE Claim(ns)
    OBVIOUS
  <2>1. PICK s \in Seq(Seq(Byte)), e \in Seq(Byte) : ns = Append(s, e)
    <3>1. ns # <<>>
      BY EmptySeq
    <3> QED BY <3>1, SequenceEmptyOrAppend
  <2>2. Len(s) = k
    BY <2>1, AppendProperties, LenProperties
  <2>3. Claim(s)
    BY <1>2, <2>2
  <2>4. <<m>> \o s \in Seq(Seq(Byte))
    BY <1>0, ConcatProperties
  <2>5. <<m>> \o ns = Append(<<m>> \o s, e)
    <3>1. <<e>> \in Seq(Seq(Byte))
      OBVIOUS
    <3>2. ns = s \o <<e>> /\ Append(<<m>> \o s, e) = (<<m>> \o s) \o <<e>>
      BY <2>1, <2>4, AppendIsConcat
    <3>3. (<<m>> \o s) \o <<e>> = <<m>> \o (s \o <<e>>)
      BY <1>0, <3>1, MessagesAssociative
    <3> QED BY <3>2, <3>3
  <2>6. Stream(<<m>> \o ns) = Stream(<<m>> \o s) \o Framed(e)
    BY <2>4, <2>5, StreamAppend
  <2>7. Stream(ns) = Stream(s) \o Framed(e) /\ Stream(s) \in Seq(Byte)
    BY <2>1, StreamAppend
  <2>8. Framed(e) \in Seq(Byte)
    BY FramedType
  <2>9. (Framed(m) \o Stream(s)) \o Framed(e) = Framed(m) \o (Stream(s) \o Framed(e))
    BY <1>0, <2>7, <2>8, BytesAssociative
  <2>10. Stream(<<m>> \o s) = Framed(m) \o Stream(s)
    BY <2>3 DEF Claim
  <2> QED BY <2>6, <2>7, <2>9, <2>10 DEF Claim
<1>3. Nat \subseteq G
  <2> HIDE DEF G
  <2> QED BY <1>1, <1>2, Induction
<1> QED BY <1>3, LenProperties

-----------------------------------------------------------------------------
(* Reading frames                                                          *)

\* What a reader does with bytes that hold a whole message.
LEMMA WholeFirst ==
  ASSUME NEW b \in Seq(Byte), ~ Torn(b)
  PROVE  /\ Value(b) \in Nat
         /\ Len(b) >= Width + Value(b)
         /\ SubSeq(b, Width + 1, Width + Value(b)) \in Seq(Byte)
         /\ Drop(b, Width + Value(b)) \in Seq(Byte)
         /\ Len(Drop(b, Width + Value(b))) = Len(b) - (Width + Value(b))
         /\ Len(Drop(b, Width + Value(b))) < Len(b)
<1>1. Width \in Nat \ {0} /\ Len(b) \in Nat
  BY FramesAssumption, LenProperties
<1>2. Len(b) >= Width
  BY <1>1 DEF Torn
<1>3. Value(b) \in Nat
  BY <1>2, ValueType
<1>4. Len(b) >= Width + Value(b)
  BY <1>1, <1>3 DEF Torn
<1>5. \A i \in 1 .. Len(b) : b[i] \in Byte
  BY ElementOfSeq
<1> DEFINE v == Value(b)
           l == Len(b)
<1> HIDE DEF v, l
<1>6. SubSeq(b, Width + 1, Width + v) \in Seq(Byte)
  <2>1. \A i \in Width + 1 .. Width + v : b[i] \in Byte
    BY <1>1, <1>3, <1>4, <1>5 DEF v, l
  <2>2. Width + 1 \in Int /\ Width + v \in Int
    BY <1>1, <1>3 DEF v
  <2> QED BY <2>1, <2>2, SubSeqProperties
<1>7. /\ SubSeq(b, (Width + v) + 1, l) \in Seq(Byte)
      /\ Len(SubSeq(b, (Width + v) + 1, l)) = l - (Width + v)
  <2>1. \A i \in (Width + v) + 1 .. l : b[i] \in Byte
    BY <1>1, <1>3, <1>5 DEF v, l
  <2>2. (Width + v) + 1 \in Int /\ l \in Int
    BY <1>1, <1>3 DEF v, l
  <2> QED BY <2>1, <2>2, <1>1, <1>3, <1>4, SubSeqProperties DEF v, l
<1> QED BY <1>1, <1>3, <1>4, <1>6, <1>7 DEF v, l, Drop

\* One step of reading, by a function that reads the rest.
Reading(f, b) ==
  IF Torn(b)
  THEN <<>>
  ELSE <<SubSeq(b, Width + 1, Width + Value(b))>> \o f[Drop(b, Width + Value(b))]

\* f reads what is no longer than n.
Reader(f, n) ==
  /\ f \in [Seq(Byte) -> Seq(Seq(Byte))]
  /\ \A b \in Seq(Byte) : Len(b) <= n => f[b] = Reading(f, b)

LEMMA ReadingType ==
  ASSUME NEW f, NEW b \in Seq(Byte),
         \A d \in Seq(Byte) : Len(d) < Len(b) => f[d] \in Seq(Seq(Byte))
  PROVE  Reading(f, b) \in Seq(Seq(Byte))
<1>1. CASE Torn(b)
  BY <1>1, EmptySeq DEF Reading
<1>2. CASE ~ Torn(b)
  <2> DEFINE m == SubSeq(b, Width + 1, Width + Value(b))
             d == Drop(b, Width + Value(b))
  <2>1. m \in Seq(Byte) /\ d \in Seq(Byte) /\ Len(d) < Len(b)
    BY <1>2, WholeFirst
  <2> HIDE DEF m, d
  <2>2. <<m>> \in Seq(Seq(Byte)) /\ f[d] \in Seq(Seq(Byte))
    BY <2>1
  <2>3. <<m>> \o f[d] \in Seq(Seq(Byte))
    BY <2>2, ConcatProperties
  <2> QED BY <1>2, <2>3 DEF Reading, m, d
<1> QED BY <1>1, <1>2

\* Reading is the same by functions that read shorter bytes alike.
LEMMA ReadingSame ==
  ASSUME NEW f, NEW g, NEW b \in Seq(Byte),
         \A d \in Seq(Byte) : Len(d) < Len(b) => f[d] = g[d]
  PROVE  Reading(f, b) = Reading(g, b)
<1>1. CASE Torn(b)
  BY <1>1 DEF Reading
<1>2. CASE ~ Torn(b)
  <2> DEFINE d == Drop(b, Width + Value(b))
  <2>1. d \in Seq(Byte) /\ Len(d) < Len(b)
    BY <1>2, WholeFirst
  <2>2. f[d] = g[d]
    <3> HIDE DEF d
    <3> QED BY <2>1
  <2> QED BY <2>2 DEF Reading
<1> QED BY <1>1, <1>2

\* There is a reader for every length.
LEMMA ReaderExists ==
  \A n \in Nat : \E f : Reader(f, n)
<1> DEFINE G == {n \in Nat : \E f : Reader(f, n)}
           R == Seq(Seq(Byte))
<1>1. 0 \in G
  <2> DEFINE f == [b \in Seq(Byte) |-> <<>>]
  <2>1. f \in [Seq(Byte) -> Seq(Seq(Byte))]
    BY EmptySeq
  <2>2. ASSUME NEW b \in Seq(Byte), Len(b) <= 0 PROVE f[b] = Reading(f, b)
    <3>1. Torn(b)
      BY <2>2, LenProperties, FramesAssumption DEF Torn
    <3> QED BY <3>1 DEF Reading
  <2>3. Reader(f, 0)
    <3> HIDE DEF f
    <3> QED BY <2>1, <2>2 DEF Reader
  <2> QED BY <2>3
<1>2. ASSUME NEW n \in Nat, n \in G PROVE n + 1 \in G
  <2>1. PICK f : Reader(f, n)
    BY <1>2
  <2> DEFINE g == [b \in Seq(Byte) |-> Reading(f, b)]
  <2>2. f \in [Seq(Byte) -> Seq(Seq(Byte))]
    BY <2>1 DEF Reader
  <2>3. g \in [Seq(Byte) -> Seq(Seq(Byte))]
    BY <2>2, ReadingType
  <2>4. \A b \in Seq(Byte) : g[b] = Reading(f, b)
    OBVIOUS
  <2> HIDE DEF g
  <2>5. ASSUME NEW b \in Seq(Byte), Len(b) <= n + 1 PROVE g[b] = Reading(g, b)
    <3>1. \A d \in Seq(Byte) : Len(d) < Len(b) => f[d] = g[d]
      <4> SUFFICES ASSUME NEW d \in Seq(Byte), Len(d) < Len(b) PROVE f[d] = g[d]
        OBVIOUS
      <4>1. Len(d) <= n
        BY <2>5, LenProperties
      <4> QED BY <2>1, <2>4, <4>1 DEF Reader
    <3> QED BY <2>4, <3>1, ReadingSame
  <2>6. Reader(g, n + 1)
    BY <2>3, <2>5 DEF Reader
  <2> QED BY <2>6
<1>3. Nat \subseteq G
  <2> HIDE DEF G
  <2> QED BY <1>1, <1>2, Induction
<1> QED BY <1>3

\* Readers agree.
LEMMA ReadersAgree ==
  \A n \in Nat : \A f, g : \A m, l \in Nat :
     Reader(f, m) /\ Reader(g, l) /\ n <= m /\ n <= l
       => \A b \in Seq(Byte) : Len(b) <= n => f[b] = g[b]
<1> DEFINE Agree(n) == \A f, g : \A m, l \in Nat :
             Reader(f, m) /\ Reader(g, l) /\ n <= m /\ n <= l
               => \A b \in Seq(Byte) : Len(b) <= n => f[b] = g[b]
           G == {n \in Nat : Agree(n)}
<1>1. 0 \in G
  <2> SUFFICES ASSUME NEW f, NEW g, NEW m \in Nat, NEW l \in Nat,
                      Reader(f, m), Reader(g, l), NEW b \in Seq(Byte), Len(b) <= 0
               PROVE  f[b] = g[b]
    OBVIOUS
  <2>1. Len(b) \in Nat /\ Len(b) <= m /\ Len(b) <= l
    BY LenProperties
  <2>2. \A d \in Seq(Byte) : Len(d) < Len(b) => f[d] = g[d]
    BY LenProperties
  <2>3. Reading(f, b) = Reading(g, b)
    BY <2>2, ReadingSame
  <2> QED BY <2>1, <2>3 DEF Reader
<1>2. ASSUME NEW n \in Nat, n \in G PROVE n + 1 \in G
  <2>0. Agree(n)
    BY <1>2
  <2> HIDE DEF G
  <2>1. ASSUME NEW f, NEW g, NEW m \in Nat, NEW l \in Nat,
               Reader(f, m), Reader(g, l), n + 1 <= m, n + 1 <= l,
               NEW b \in Seq(Byte), Len(b) <= n + 1
        PROVE  f[b] = g[b]
    <3>1. Len(b) \in Nat /\ Len(b) <= m /\ Len(b) <= l
      BY <2>1, LenProperties
    <3>2. n <= m /\ n <= l
      BY <2>1
    <3>3. \A d \in Seq(Byte) : Len(d) <= n => f[d] = g[d]
      BY <2>0, <2>1, <3>2
    <3>4. \A d \in Seq(Byte) : Len(d) < Len(b) => f[d] = g[d]
      <4> SUFFICES ASSUME NEW d \in Seq(Byte), Len(d) < Len(b) PROVE f[d] = g[d]
        OBVIOUS
      <4>1. Len(d) \in Nat /\ Len(d) <= n
        BY <2>1, LenProperties
      <4> QED BY <3>3, <4>1
    <3>5. Reading(f, b) = Reading(g, b)
      BY <3>4, ReadingSame
    <3> QED BY <2>1, <3>1, <3>5 DEF Reader
  <2>2. Agree(n + 1)
    BY <2>1
  <2> QED BY <2>2 DEF G
<1>3. Nat \subseteq G
  <2> HIDE DEF G
  <2> QED BY <1>1, <1>2, Induction
<1> QED BY <1>3

\* Messages are found as the recursion says.
LEMMA UnframedDef ==
  /\ Unframed \in [Seq(Byte) -> Seq(Seq(Byte))]
  /\ \A b \in Seq(Byte) : Unframed[b] = Reading(Unframed, b)
<1> DEFINE pick(n) == CHOOSE f : Reader(f, n)
           F == [b \in Seq(Byte) |-> pick(Len(b))[b]]
           Body(f) == [b \in Seq(Byte) |-> Reading(f, b)]
<1>1. \A n \in Nat : Reader(pick(n), n)
  BY ReaderExists
<1> HIDE DEF pick
<1>2. ASSUME NEW b \in Seq(Byte) PROVE F[b] = Reading(F, b)
  <2>1. Len(b) \in Nat /\ Reader(pick(Len(b)), Len(b))
    BY <1>1, LenProperties
  <2>2. \A d \in Seq(Byte) : Len(d) < Len(b) => pick(Len(b))[d] = F[d]
    <3> SUFFICES ASSUME NEW d \in Seq(Byte), Len(d) < Len(b)
                 PROVE  pick(Len(b))[d] = pick(Len(d))[d]
      OBVIOUS
    <3>1. Len(d) \in Nat /\ Reader(pick(Len(d)), Len(d)) /\ Len(d) <= Len(b)
      BY <1>1, <2>1, LenProperties
    <3> QED BY <2>1, <3>1, ReadersAgree
  <2>3. pick(Len(b))[b] = Reading(pick(Len(b)), b)
    BY <2>1 DEF Reader
  <2>4. Reading(pick(Len(b)), b) = Reading(F, b)
    <3> HIDE DEF F
    <3> QED BY <2>2, ReadingSame
  <2> QED BY <2>3, <2>4
<1>3. F = Body(F)
  <2> DEFINE G == Body(F)
  <2>1. \A b \in Seq(Byte) : F[b] = G[b]
    <3> HIDE DEF F
    <3> QED BY <1>2
  <2> QED BY <2>1
<1>4. Unframed = CHOOSE f : f = Body(f)
  BY DEF Unframed, Reading
<1>5. Unframed = Body(Unframed)
  <2> HIDE DEF F
  <2> QED BY <1>3, <1>4
<1>6. \A b \in Seq(Byte) : Unframed[b] = Reading(Unframed, b)
  BY <1>5
<1> DEFINE G == {n \in Nat : \A b \in Seq(Byte) :
                                Len(b) < n => Unframed[b] \in Seq(Seq(Byte))}
<1>7. 0 \in G
  BY LenProperties
<1>8. ASSUME NEW n \in Nat, n \in G PROVE n + 1 \in G
  <2> SUFFICES ASSUME NEW b \in Seq(Byte), Len(b) < n + 1
               PROVE  Unframed[b] \in Seq(Seq(Byte))
    OBVIOUS
  <2>1. \A d \in Seq(Byte) : Len(d) < Len(b) => Unframed[d] \in Seq(Seq(Byte))
    BY <1>8, LenProperties
  <2> QED BY <1>6, <2>1, ReadingType
<1>9. Nat \subseteq G
  <2> HIDE DEF G
  <2> QED BY <1>7, <1>8, Induction
<1>10. ASSUME NEW b \in Seq(Byte) PROVE Unframed[b] \in Seq(Seq(Byte))
  <2>1. Len(b) \in Nat /\ Len(b) + 1 \in Nat /\ Len(b) < Len(b) + 1
    BY LenProperties
  <2> QED BY <1>9, <2>1
<1>11. Unframed = [b \in Seq(Byte) |-> Unframed[b]]
  BY <1>5
<1> QED BY <1>6, <1>10, <1>11

\* The two halves of a concatenation can be cut out of it.
LEMMA Halves ==
  ASSUME NEW S, NEW s \in Seq(S), NEW t \in Seq(S)
  PROVE  /\ SubSeq(s \o t, 1, Len(s)) = s
         /\ Drop(s \o t, Len(s)) = t
<1> DEFINE b == s \o t
           n == Len(s)
           p == SubSeq(b, 1, n)
           q == SubSeq(b, n + 1, Len(b))
<1>1. n \in Nat /\ Len(t) \in Nat /\ b \in Seq(S) /\ Len(b) = n + Len(t)
  BY ConcatProperties, LenProperties
<1>2. \A i \in 1 .. n + Len(t) : b[i] = IF i <= n THEN s[i] ELSE t[i - n]
  BY ConcatProperties
<1> HIDE DEF b, n
<1>3. \A i \in 1 .. Len(b) : b[i] \in S
  BY <1>1, ElementOfSeq
<1>4. p \in Seq(S) /\ Len(p) = n /\ \A i \in 1 .. n : p[i] = b[i]
  <2>1. \A i \in 1 .. n : b[i] \in S
    BY <1>1, <1>3
  <2> QED BY <1>1, <2>1, SubSeqProperties
<1>5. /\ q \in Seq(S) /\ Len(q) = Len(t)
      /\ \A i \in 1 .. Len(t) : q[i] = b[n + i]
  <2>1. \A i \in n + 1 .. Len(b) : b[i] \in S
    BY <1>1, <1>3
  <2>2. n + 1 \in Int /\ Len(b) \in Int
    BY <1>1
  <2>3. /\ q \in Seq(S) /\ Len(q) = IF n + 1 <= Len(b) THEN Len(b) - (n + 1) + 1 ELSE 0
        /\ \A i \in 1 .. Len(b) - (n + 1) + 1 : q[i] = b[(n + 1) + i - 1]
    BY <2>1, <2>2, SubSeqProperties
  <2> HIDE DEF q
  <2>4. \A i \in 1 .. Len(t) : i \in 1 .. Len(b) - (n + 1) + 1 /\ (n + 1) + i - 1 = n + i
    BY <1>1
  <2> QED BY <1>1, <2>3, <2>4
<1> HIDE DEF p, q
<1>6. p = s
  <2>1. \A i \in 1 .. n : p[i] = s[i]
    BY <1>1, <1>2, <1>4
  <2> QED BY <1>4, <2>1, SeqEqual DEF n
<1>7. q = t
  <2>1. \A i \in 1 .. Len(t) : q[i] = t[i]
    BY <1>1, <1>2, <1>5
  <2> QED BY <1>5, <2>1, SeqEqual
<1> QED BY <1>6, <1>7 DEF p, q, b, n, Drop

\* Only the first bytes count for a length.
LEMMA LengthFirst ==
  ASSUME NEW n \in Nat, n < Capacity, NEW b \in Seq(Byte)
  PROVE  /\ LittleEndian(n) \o b \in Seq(Byte)
         /\ Len(LittleEndian(n) \o b) = Width + Len(b)
         /\ Value(LittleEndian(n) \o b) = n
         /\ Drop(LittleEndian(n) \o b, Width) = b
<1> DEFINE l == LittleEndian(n)
<1>1. l \in Seq(Byte) /\ Len(l) = Width /\ Width \in Nat /\ Len(b) \in Nat
  BY LittleEndianType, LenProperties, FramesAssumption
<1>2. /\ l \o b \in Seq(Byte) /\ Len(l \o b) = Width + Len(b)
      /\ \A i \in 1 .. Width : (l \o b)[i] = l[i]
  <2> HIDE DEF l
  <2>1. /\ l \o b \in Seq(Byte) /\ Len(l \o b) = Len(l) + Len(b)
        /\ \A i \in 1 .. Len(l) + Len(b) :
              (l \o b)[i] = IF i <= Len(l) THEN l[i] ELSE b[i - Len(l)]
    BY <1>1, ConcatProperties
  <2> QED BY <1>1, <2>1
<1>3. Value(l \o b) = n
  BY <1>2, LengthReadBack
<1>4. Drop(l \o b, Width) = b
  <2> HIDE DEF l
  <2>1. Drop(l \o b, Len(l)) = b
    BY <1>1, Halves
  <2> QED BY <1>1, <2>1
<1> QED BY <1>2, <1>3, <1>4

\* A frame in front is read first, and what follows it is left.
LEMMA FrameFirst ==
  ASSUME NEW m \in Seq(Byte), Len(m) < Capacity, NEW b \in Seq(Byte)
  PROVE  /\ Framed(m) \o b \in Seq(Byte)
         /\ Framed(m) \o b = LittleEndian(Len(m)) \o (m \o b)
         /\ ~ Torn(Framed(m) \o b)
         /\ Unframed[Framed(m) \o b] = <<m>> \o Unframed[b]
<1> DEFINE l == LittleEndian(Len(m))
           s == l \o (m \o b)
<1>1. Len(m) \in Nat /\ Len(b) \in Nat /\ Width \in Nat
  BY LenProperties, FramesAssumption
<1>2. l \in Seq(Byte) /\ m \o b \in Seq(Byte) /\ Len(m \o b) = Len(m) + Len(b)
  BY <1>1, LittleEndianType, ConcatProperties
<1>3. Framed(m) \o b = s
  <2> HIDE DEF l
  <2> QED BY <1>2, BytesAssociative DEF Framed, l
<1>4. s \in Seq(Byte) /\ Len(s) = Width + (Len(m) + Len(b)) /\ Value(s) = Len(m)
  BY <1>1, <1>2, LengthFirst
<1> HIDE DEF s
<1>5. ~ Torn(s)
  BY <1>1, <1>4 DEF Torn
<1>6. Drop(s, Width + Len(m)) = b
  <2>1. Framed(m) \in Seq(Byte) /\ Len(Framed(m)) = Width + Len(m)
    BY FramedType
  <2> QED BY <1>3, <2>1, Halves
<1>7. SubSeq(s, Width + 1, Width + Len(m)) = m
  <2> DEFINE q == SubSeq(s, Width + 1, Width + Len(m))
  <2>1. \A i \in 1 .. Width + (Len(m) + Len(b)) : s[i] \in Byte
    BY <1>4, ElementOfSeq
  <2>2. \A i \in 1 .. Len(m) : s[Width + i] = m[i]
    <3> TAKE i \in 1 .. Len(m)
    <3>1. Width + i \in 1 .. Width + Len(m \o b) /\ ~ (Width + i <= Width)
      BY <1>1, <1>2
    <3>2. Len(l) = Width
      BY <1>1, LittleEndianType
    <3> DEFINE c == m \o b
    <3>3. c \in Seq(Byte) /\ l \in Seq(Byte) /\ Len(c) = Len(m) + Len(b) /\ s = l \o c
      BY <1>2 DEF s
    <3>4. c[i] = m[i]
      BY <1>1, ConcatProperties
    <3> HIDE DEF c, l
    <3>5. Width + i \in 1 .. Len(l) + Len(c) /\ ~ (Width + i <= Len(l)) /\ (Width + i) - Len(l) = i
      BY <1>1, <3>2, <3>3
    <3>6. (l \o c)[Width + i] = c[(Width + i) - Len(l)]
      BY <3>3, <3>5, ConcatProperties
    <3> QED BY <3>3, <3>4, <3>5, <3>6
  <2>3. \A i \in Width + 1 .. Width + Len(m) : s[i] \in Byte
    BY <1>1, <2>1
  <2>4. Width + 1 \in Int /\ Width + Len(m) \in Int
    BY <1>1
  <2>5. /\ q \in Seq(Byte)
        /\ Len(q) = IF Width + 1 <= Width + Len(m) THEN (Width + Len(m)) - (Width + 1) + 1 ELSE 0
        /\ \A i \in 1 .. (Width + Len(m)) - (Width + 1) + 1 : q[i] = s[(Width + 1) + i - 1]
    BY <2>3, <2>4, SubSeqProperties
  <2> HIDE DEF q
  <2>6. Len(q) = Len(m)
    BY <1>1, <2>5
  <2>7. \A i \in 1 .. Len(m) : q[i] = m[i]
    <3> TAKE i \in 1 .. Len(m)
    <3>1. i \in 1 .. (Width + Len(m)) - (Width + 1) + 1 /\ (Width + 1) + i - 1 = Width + i
      BY <1>1
    <3> QED BY <2>2, <2>5, <3>1
  <2>8. q = m
    BY <2>5, <2>6, <2>7, SeqEqual
  <2> QED BY <2>8 DEF q
<1>8. Unframed[s] = <<m>> \o Unframed[b]
  BY <1>4, <1>5, <1>6, <1>7, UnframedDef DEF Reading
<1> QED BY <1>3, <1>4, <1>5, <1>8 DEF s

\* What is torn holds no message.
LEMMA TornEmpty ==
  ASSUME NEW b \in Seq(Byte), Torn(b)
  PROVE  Unframed[b] = <<>>
BY UnframedDef DEF Reading

\* A sequence is its first member and the others.
LEMMA HeadFirst ==
  ASSUME NEW S, NEW s \in Seq(S), s # <<>>
  PROVE  /\ s[1] \in S /\ Drop(s, 1) \in Seq(S) /\ Len(Drop(s, 1)) = Len(s) - 1
         /\ s = <<s[1]>> \o Drop(s, 1)
<1>1. Len(s) \in Nat /\ Len(s) # 0
  BY EmptySeq, LenProperties
<1>2. 1 \in 1 .. Len(s) /\ Len(s) \in 1 .. Len(s)
  BY <1>1
<1>3. SubSeq(s, 1, Len(s)) = <<s[1]>> \o SubSeq(s, 2, Len(s))
  BY <1>2, SubSeqRecursiveFirst
<1>4. SubSeq(s, 1, Len(s)) = s
  BY SubSeqFull
<1>5. Drop(s, 1) = Tail(s)
  BY TailIsSubSeq DEF Drop
<1> QED BY <1>2, <1>3, <1>4, <1>5, HeadTailProperties, ElementOfSeq DEF Drop

\* What was framed is what a reader finds, for any messages and any torn bytes
\* behind them: no byte of a message is ever taken for a length (io.go:18-36,
\* 55-64).
THEOREM StreamReadBack ==
  ASSUME NEW ms \in Seq(Seq(Byte)), \A i \in 1 .. Len(ms) : Len(ms[i]) < Capacity,
         NEW t \in Seq(Byte), Torn(t)
  PROVE  Unframed[Stream(ms) \o t] = ms
<1> DEFINE Fitting(ns) == \A i \in 1 .. Len(ns) : Len(ns[i]) < Capacity
           Claim(ns) == Unframed[Stream(ns) \o t] = ns
           G == {k \in Nat : \A ns \in Seq(Seq(Byte)) :
                                Len(ns) = k /\ Fitting(ns) => Claim(ns)}
<1>1. 0 \in G
  <2> SUFFICES ASSUME NEW ns \in Seq(Seq(Byte)), Len(ns) = 0 PROVE Claim(ns)
    OBVIOUS
  <2>1. ns = <<>>
    BY EmptySeq
  <2>2. <<>> \o t = t
    BY ConcatEmptySeq
  <2> QED BY <2>1, <2>2, StreamEmpty, TornEmpty
<1>2. ASSUME NEW k \in Nat, k \in G PROVE k + 1 \in G
  <2> HIDE DEF Claim
  <2> SUFFICES ASSUME NEW ns \in Seq(Seq(Byte)), Len(ns) = k + 1, Fitting(ns)
               PROVE  Claim(ns)
    OBVIOUS
  <2> DEFINE m == ns[1]
             r == Drop(ns, 1)
  <2>1. m \in Seq(Byte) /\ r \in Seq(Seq(Byte)) /\ Len(r) = k /\ ns = <<m>> \o r
    <3>1. ns # <<>>
      BY EmptySeq
    <3> QED BY <3>1, HeadFirst
  <2>2. Len(m) < Capacity
    OBVIOUS
  <2>3. Fitting(r)
    <3> SUFFICES ASSUME NEW i \in 1 .. k PROVE Len(r[i]) < Capacity
      BY <2>1
    <3>1. \A j \in 1 .. Len(ns) : ns[j] \in Seq(Byte)
      BY ElementOfSeq
    <3>2. \A j \in 2 .. k + 1 : ns[j] \in Seq(Byte)
      BY <3>1
    <3>3. 2 \in Int /\ k + 1 \in Int /\ i \in 1 .. (k + 1) - 2 + 1
      OBVIOUS
    <3>4. SubSeq(ns, 2, k + 1)[i] = ns[2 + i - 1]
      BY <3>2, <3>3, SubSeqProperties
    <3>5. r[i] = ns[i + 1]
      BY <3>4 DEF Drop
    <3> QED BY <3>5
  <2> HIDE DEF m, r
  <2>4. Unframed[Stream(r) \o t] = r
    BY <1>2, <2>1, <2>3 DEF Claim
  <2>5. Stream(ns) = Framed(m) \o Stream(r)
    BY <2>1, StreamHead
  <2>6. Framed(m) \in Seq(Byte) /\ Stream(r) \in Seq(Byte)
    BY <2>1, FramedType, StreamAppend
  <2>7. Stream(ns) \o t = Framed(m) \o (Stream(r) \o t)
    <3>1. \A x, y \in Seq(Byte) : (x \o y) \o t = x \o (y \o t)
      BY BytesAssociative
    <3>2. (Framed(m) \o Stream(r)) \o t = Framed(m) \o (Stream(r) \o t)
      BY <2>6, <3>1
    <3> QED BY <2>5, <3>2
  <2>8. Stream(r) \o t \in Seq(Byte)
    BY <2>6, ConcatProperties
  <2>9. Unframed[Framed(m) \o (Stream(r) \o t)] = <<m>> \o Unframed[Stream(r) \o t]
    BY <2>1, <2>2, <2>8, FrameFirst
  <2>10. Unframed[Stream(ns) \o t] = ns
    BY <2>1, <2>4, <2>7, <2>9
  <2> QED BY <2>10 DEF Claim
<1>3. Nat \subseteq G
  <2> HIDE DEF G
  <2> QED BY <1>1, <1>2, Induction
<1> QED BY <1>3, LenProperties

\* A frame that is not whole is torn.
LEMMA PartTorn ==
  ASSUME NEW m \in Seq(Byte), Len(m) < Capacity, NEW n \in 0 .. Len(Framed(m)) - 1
  PROVE  /\ SubSeq(Framed(m), 1, n) \in Seq(Byte)
         /\ Torn(SubSeq(Framed(m), 1, n))
<1> DEFINE f == Framed(m)
           p == SubSeq(f, 1, n)
           l == LittleEndian(Len(m))
<1>1. f \in Seq(Byte) /\ Len(f) = Width + Len(m) /\ Len(m) \in Nat /\ Width \in Nat
  BY FramedType, LenProperties, FramesAssumption
<1> HIDE DEF f
<1>2. n \in Nat /\ n < Width + Len(m)
  BY <1>1 DEF f
<1>3. p \in Seq(Byte) /\ Len(p) = n /\ \A i \in 1 .. n : p[i] = f[i]
  <2>1. \A i \in 1 .. n : f[i] \in Byte
    BY <1>1, <1>2, ElementOfSeq
  <2> QED BY <1>2, <2>1, SubSeqProperties
<1> HIDE DEF p
<1>4. CASE n < Width
  BY <1>3, <1>4 DEF Torn, p, f
<1>5. CASE n >= Width
  <2>1. l \in Seq(Byte) /\ Len(l) = Width
    BY <1>1, LittleEndianType
  <2>2. f = l \o m
    BY DEF f, Framed
  <2> HIDE DEF l
  <2>3. \A i \in 1 .. Width : f[i] = l[i]
    BY <1>1, <2>1, <2>2, ConcatProperties
  <2>4. \A i \in 1 .. Width : p[i] = l[i]
    BY <1>1, <1>2, <1>3, <1>5, <2>3
  <2>5. Value(p) = Len(m)
    BY <1>1, <2>4, LengthReadBack DEF l
  <2> QED BY <1>1, <1>2, <1>3, <2>5 DEF Torn, p, f
<1> QED BY <1>1, <1>2, <1>3, <1>4, <1>5 DEF p, f

=============================================================================
