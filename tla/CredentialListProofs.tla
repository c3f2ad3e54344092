------------------------ MODULE CredentialListProofs ------------------------
(* What Save and Delete do to the list of credentials, for lists of any    *)
(* length.                                                                 *)
EXTENDS CredentialList, TLAPS

\* In a list without repeated accounts, any entry of an account is the first.
LEMMA SlotFound ==
  ASSUME NEW l \in Seq(Credential), Distinct(l), NEW c \in Credential,
         HasAccount(l, c)
  PROVE  Slot(l, c) \in DOMAIN l /\ SameAccount(l[Slot(l, c)], c)
<1>1. PICK i \in DOMAIN l : SameAccount(l[i], c)
  BY DEF HasAccount
<1>2. \A j \in 1 .. i - 1 : ~SameAccount(l[j], c)
  BY <1>1 DEF Distinct, SameAccount
<1>3. \E k \in DOMAIN l : /\ SameAccount(l[k], c)
                          /\ \A j \in 1 .. k - 1 : ~SameAccount(l[j], c)
  BY <1>1, <1>2
<1> QED BY <1>3 DEF Slot

\* Save keeps a list a list of credentials, without repeated accounts or IDs.
LEMMA StoredDistinct ==
  ASSUME NEW l \in Seq(Credential), Distinct(l), NEW c \in Credential,
         \A i \in DOMAIN l : l[i].id # c.id
  PROVE  Stored(l, c) \in Seq(Credential) /\ Distinct(Stored(l, c))
<1>1. CASE HasAccount(l, c)
  <2> DEFINE s == Slot(l, c)
             n == [l EXCEPT ![s] = c]
  <2>1. s \in DOMAIN l /\ SameAccount(l[s], c)
    BY <1>1, SlotFound
  <2>2. n \in Seq(Credential) /\ DOMAIN n = DOMAIN l
    BY <2>1
  <2>3. \A i \in DOMAIN l : n[i] = IF i = s THEN c ELSE l[i]
    BY <2>1
  <2>4. Distinct(n)
    BY <2>1, <2>2, <2>3 DEF Distinct, SameAccount
  <2>5. Stored(l, c) = n
    BY <1>1 DEF Stored
  <2> QED BY <2>2, <2>4, <2>5
<1>2. CASE ~HasAccount(l, c)
  <2> DEFINE n == Append(l, c)
  <2>1. n \in Seq(Credential) /\ DOMAIN n = 1 .. Len(l) + 1
    OBVIOUS
  <2>2. \A i \in DOMAIN n : n[i] = IF i = Len(l) + 1 THEN c ELSE l[i]
    OBVIOUS
  <2>3. Distinct(n)
    BY <1>2, <2>1, <2>2 DEF Distinct, SameAccount, HasAccount
  <2>4. Stored(l, c) = n
    BY <1>2 DEF Stored
  <2> QED BY <2>1, <2>3, <2>4
<1> QED BY <1>1, <1>2

\* What Save keeps: every entry it does not replace.
LEMMA StoredKeeps ==
  ASSUME NEW l \in Seq(Credential), Distinct(l), NEW c \in Credential,
         NEW e \in Entries(l), e.id \notin Replaced(l, c)
  PROVE  e \in Entries(Stored(l, c))
<1>1. PICK i \in DOMAIN l : l[i] = e
  BY DEF Entries
<1>2. CASE HasAccount(l, c)
  <2>1. Slot(l, c) \in DOMAIN l /\ i # Slot(l, c)
    BY <1>1, <1>2, SlotFound DEF Replaced
  <2> QED BY <1>1, <1>2, <2>1 DEF Stored, Entries
<1>3. CASE ~HasAccount(l, c)
  <2>1. i \in DOMAIN Append(l, c) /\ Append(l, c)[i] = e
    BY <1>1
  <2> QED BY <1>3, <2>1 DEF Stored, Entries
<1> QED BY <1>2, <1>3

\* Delete keeps a list a list of credentials, without repetitions.
LEMMA RemoveDistinct ==
  ASSUME NEW l \in Seq(Credential), Distinct(l), NEW i \in DOMAIN l
  PROVE  RemoveIndex(l, i) \in Seq(Credential) /\ Distinct(RemoveIndex(l, i))
<1> DEFINE n == RemoveIndex(l, i)
           at(j) == IF j < i THEN j ELSE j + 1
<1>1. \A j \in 1 .. Len(l) - 1 : at(j) \in DOMAIN l /\ n[j] = l[at(j)]
  BY DEF RemoveIndex
<1>2. n \in Seq(Credential) /\ DOMAIN n = 1 .. Len(l) - 1
  <2>1. n \in [1 .. Len(l) - 1 -> Credential]
    <3>1. \A j \in 1 .. Len(l) - 1 :
             (IF j < i THEN l[j] ELSE l[j + 1]) \in Credential
      <4>1. \A j \in 1 .. Len(l) : l[j] \in Credential
        OBVIOUS
      <4>2. \A j \in 1 .. Len(l) - 1 : j \in 1 .. Len(l) /\ j + 1 \in 1 .. Len(l)
        OBVIOUS
      <4> QED BY <4>1, <4>2
    <3> QED BY <3>1 DEF RemoveIndex
  <2>2. Len(l) - 1 \in Nat
    OBVIOUS
  <2> QED BY <2>1, <2>2
<1>3. \A j, k \in 1 .. Len(l) - 1 : at(j) = at(k) => j = k
  OBVIOUS
<1>4. Distinct(n)
  <2> SUFFICES ASSUME NEW j \in 1 .. Len(l) - 1, NEW k \in 1 .. Len(l) - 1,
                      SameAccount(n[j], n[k]) \/ n[j].id = n[k].id
               PROVE  j = k
    BY <1>2 DEF Distinct
  <2>1. at(j) = at(k)
    <3> HIDE DEF n, at
    <3> QED BY <1>1 DEF Distinct
  <2> QED BY <1>3, <2>1
<1> QED BY <1>2, <1>4

\* Delete keeps every entry with another ID.
LEMMA RemoveKeeps ==
  ASSUME NEW l \in Seq(Credential), NEW i \in DOMAIN l,
         NEW e \in Entries(l), e.id # l[i].id
  PROVE  e \in Entries(RemoveIndex(l, i))
<1>1. PICK k \in DOMAIN l : l[k] = e
  BY DEF Entries
<1> DEFINE j == IF k < i THEN k ELSE k - 1
<1>2. k # i
  BY <1>1
<1>3. j \in 1 .. Len(l) - 1 /\ RemoveIndex(l, i)[j] = e
  BY <1>1, <1>2 DEF RemoveIndex
<1>4. DOMAIN RemoveIndex(l, i) = 1 .. Len(l) - 1
  BY DEF RemoveIndex
<1> QED BY <1>3, <1>4 DEF Entries

\* The entries after a Save: c, and those of other accounts.
LEMMA StoredEntries ==
  ASSUME NEW l \in Seq(Credential), Distinct(l), NEW c \in Credential
  PROVE  /\ c \in Entries(Stored(l, c))
         /\ \A e \in Entries(Stored(l, c)) : e = c \/ e \in Entries(l)
         /\ \A e \in Entries(l) : ~SameAccount(e, c) => e \in Entries(Stored(l, c))
<1>1. CASE HasAccount(l, c)
  <2> DEFINE s == Slot(l, c)
             n == [l EXCEPT ![s] = c]
  <2>1. s \in DOMAIN l /\ SameAccount(l[s], c)
    BY <1>1, SlotFound
  <2>2. DOMAIN n = DOMAIN l /\ \A i \in DOMAIN l : n[i] = IF i = s THEN c ELSE l[i]
    BY <2>1
  <2>3. Stored(l, c) = n
    BY <1>1 DEF Stored
  <2> HIDE DEF n, s
  <2> QED BY <2>1, <2>2, <2>3 DEF Entries
<1>2. CASE ~HasAccount(l, c)
  <2> DEFINE n == Append(l, c)
  <2>1. DOMAIN n = 1 .. Len(l) + 1 /\ DOMAIN l = 1 .. Len(l) /\ Len(l) \in Nat
    OBVIOUS
  <2>2. \A i \in 1 .. Len(l) + 1 : n[i] = IF i = Len(l) + 1 THEN c ELSE l[i]
    OBVIOUS
  <2>3. Stored(l, c) = n
    BY <1>2 DEF Stored
  <2> HIDE DEF n
  <2> QED BY <2>1, <2>2, <2>3 DEF Entries
<1> QED BY <1>1, <1>2

\* Save takes no account's entry away.
LEMMA StoredAccounts ==
  ASSUME NEW l \in Seq(Credential), Distinct(l), NEW c \in Credential,
         NEW d \in Credential, HasAccount(l, d)
  PROVE  HasAccount(Stored(l, c), d)
<1>1. PICK i \in DOMAIN l : SameAccount(l[i], d)
  BY DEF HasAccount
<1>2. CASE HasAccount(l, c)
  <2> DEFINE s == Slot(l, c)
  <2>1. s \in DOMAIN l /\ SameAccount(l[s], c)
    BY <1>2, SlotFound
  <2>2. Stored(l, c) = [l EXCEPT ![s] = c]
    BY <1>2 DEF Stored
  <2> HIDE DEF s
  <2>3. i \in DOMAIN Stored(l, c)
    BY <2>1, <2>2
  <2>4. SameAccount(Stored(l, c)[i], d)
    BY <1>1, <2>1, <2>2 DEF SameAccount
  <2> QED BY <2>3, <2>4 DEF HasAccount
<1>3. CASE ~HasAccount(l, c)
  <2>1. Stored(l, c) = Append(l, c)
    BY <1>3 DEF Stored
  <2>2. i \in DOMAIN Append(l, c) /\ Append(l, c)[i] = l[i]
    BY <1>1
  <2> QED BY <1>1, <2>1, <2>2 DEF HasAccount
<1> QED BY <1>2, <1>3
=============================================================================
