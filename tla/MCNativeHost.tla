---------------------------- MODULE MCNativeHost ----------------------------
(* The host for model checking: two relying parties, lists of at most two  *)
(* entries, and times that let a prompt outlive the request that asked.    *)
EXTENDS NativeHost

Plain(id) == [id |-> id, decodable |-> TRUE]
Garbled(id) == [id |-> id, decodable |-> FALSE]

\* The empty list, single entries of both kinds, and pairs in both orders.
MCLists ==
  {<<>>} \cup {<<e>> : e \in Entry}
    \cup {<<Plain(i), Plain(j)>> : i, j \in Ids}
    \cup {<<Garbled(i), Plain(j)>> : i, j \in Ids}

MCTimeouts == {0, 1}
MCPromptTimeout == 1
MCSendGrace == 1
MCDefaultTimeout == 2
=============================================================================
