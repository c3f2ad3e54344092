------------------------- MODULE MCNativeMessaging -------------------------
(* The framing for model checking: bytes 0 and 1, lengths of two bytes and *)
(* messages of up to two; messages look like lengths and like one another, *)
(* and one is empty and one too long.  A response carries the first byte   *)
(* of its message, as the code's carries the requestId, and may be too     *)
(* long as well.                                                           *)
EXTENDS NativeMessaging

MCMessages == {<<>>, <<0>>, <<1>>, <<1, 0>>, <<0, 1>>, <<1, 0, 1>>}

MCResponses(m) == {<<m[1]>>, <<m[1], 1>>, <<m[1], 0, 0>>}
=============================================================================
