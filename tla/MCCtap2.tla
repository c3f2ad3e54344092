------------------------------ MODULE MCCtap2 ------------------------------
(* The command interface for model checking: bytes 0 to 3, a separator of  *)
(* one byte that also occurs within parts, and lists with whole, cut,      *)
(* lengthened and foreign handles.                                         *)
EXTENDS Ctap2

MCSeparator == <<1>>

MCWrapped ==
  [id \in Ids |-> [private |-> <<id, 1>>, public |-> <<1, 0, id>>, seed |-> <<id>>,
                   nonce |-> <<id, 0>>, sealed |-> <<1, id>>]]

MCRegistrations ==
  {[rp |-> "rp1", user |-> "u1", rk |-> TRUE], [rp |-> "rp1", user |-> "u2", rk |-> TRUE],
   [rp |-> "rp2", user |-> "u1", rk |-> FALSE]}

Cut(h) == SubSeq(h, 1, Len(h) - 1)
Lengthened(h) == h \o Framed(<<2>>)

MCLists ==
  {<<>>} \cup {<<TPMHandle[i], MemHandle[i]>> : i \in Ids}
    \cup {<<Cut(h[1]), Lengthened(h[1])>> : h \in {TPMHandle, MemHandle}}
    \cup {<<h[2], h[3]>> : h \in {TPMHandle, MemHandle}}
=============================================================================
