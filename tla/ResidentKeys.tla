---------------------------- MODULE ResidentKeys ----------------------------
(***************************************************************************)
(* What ctap2/storage.go promises the process that uses it: a map from     *)
(* accounts to credential IDs, a working copy of which the process changes *)
(* at once, and which reaches the disk as a whole or not at all.           *)
(***************************************************************************)
CONSTANTS Accounts, Ids

VARIABLES
  up,       \* the process runs
  view,     \* the map the process answers from
  durable   \* the map a new process will start from

Maps == UNION {[A -> Ids] : A \in SUBSET Accounts}
NoKeys == [a \in {} |-> a]

Init ==
  /\ up = FALSE
  /\ view = NoKeys
  /\ durable = NoKeys

\* Save: the account has this credential from now on.
Put(a, i) ==
  /\ up
  /\ view' = [b \in DOMAIN view \cup {a} |-> IF b = a THEN i ELSE view[b]]
  /\ UNCHANGED <<up, durable>>

\* Delete.
Remove(a) ==
  /\ up
  /\ view' = [b \in DOMAIN view \ {a} |-> view[b]]
  /\ UNCHANGED <<up, durable>>

\* The file is replaced by the working copy.
Commit == up /\ durable' = view /\ UNCHANGED <<up, view>>

\* The process ends, and what it did not commit is gone.
Stop == up /\ up' = FALSE /\ view' = NoKeys /\ UNCHANGED durable

\* A process starts with exactly what was committed.
Start == ~up /\ up' = TRUE /\ view' = durable /\ UNCHANGED durable

Next ==
  \/ \E a \in Accounts, i \in Ids : Put(a, i)
  \/ \E a \in Accounts : Remove(a)
  \/ Commit \/ Stop \/ Start

Spec == Init /\ [][Next]_<<up, view, durable>>
=============================================================================
