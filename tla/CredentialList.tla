--------------------------- MODULE CredentialList ---------------------------
(* The list of resident credentials of ctap2/storage.go and the operations *)
(* on it.  A credential is reduced to the relying party and the user that  *)
(* make up its account and to its credential ID; names, public key and     *)
(* time stamp go wherever the credential goes.                             *)
EXTENDS Sequences, Integers

CONSTANTS RPs, Users, Ids

Credential == [rp : RPs, user : Users, id : Ids]

\* The test of Save's loop: the same RPID and the same UserID.
SameAccount(c, d) == c.rp = d.rp /\ c.user = d.user

\* Where Save puts c: at the first entry of the same account.
Slot(l, c) ==
  CHOOSE i \in DOMAIN l : /\ SameAccount(l[i], c)
                          /\ \A j \in 1 .. i - 1 : ~SameAccount(l[j], c)

HasAccount(l, c) == \E i \in DOMAIN l : SameAccount(l[i], c)

\* Fault: the credential is appended, whatever the list holds.
Appended(l, c) == Append(l, c)

\* Fault: the user ID is not compared.
StoredPerRP(l, c) ==
  IF \E i \in DOMAIN l : l[i].rp = c.rp
  THEN [l EXCEPT ![CHOOSE i \in DOMAIN l : l[i].rp = c.rp] = c]
  ELSE Append(l, c)

\* Fault: the entry is filled with its fields in the wrong order.
StoredSwapped(l, c) == Append(l, [c EXCEPT !.rp = c.user])

\* The list after Save has stored c: one entry replaced, or c appended.
Stored(l, c) ==
  IF HasAccount(l, c) THEN [l EXCEPT ![Slot(l, c)] = c] ELSE Append(l, c)

\* The IDs Save drops from the list to make room for c.
Replaced(l, c) == IF HasAccount(l, c) THEN {l[Slot(l, c)].id} ELSE {}

\* Delete keeps the other entries in their order.  No two entries have the
\* same ID (key handles are random), so there is one entry to leave out.
RemoveIndex(l, i) == [j \in 1 .. Len(l) - 1 |-> IF j < i THEN l[j] ELSE l[j + 1]]

\* byCredentialID: whether an entry has the ID.
HasId(l, id) == \E i \in DOMAIN l : l[i].id = id

\* byRPID: the places of a relying party's entries, in the order of the list.
GetByRPID(l, rp) == {i \in DOMAIN l : l[i].rp = rp}

Entries(l) == {l[i] : i \in DOMAIN l}

\* No account and no credential ID occurs twice.
Distinct(l) ==
  \A i, j \in DOMAIN l :
    SameAccount(l[i], l[j]) \/ l[i].id = l[j].id => i = j
=============================================================================
