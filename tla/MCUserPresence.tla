--------------------------- MODULE MCUserPresence ---------------------------
(* The presence gate for model checking: two request objects, two          *)
(* operations.  A tick is about 8 s for the prompt (30 s = 4 ticks) and    *)
(* for the client, whose timeouts lie below, at and above the prompt's;    *)
(* the grace of a send is 2 ticks, so that a client can come back at its   *)
(* beginning, in its middle and as it ends.                                *)
EXTENDS UserPresence

MCTimeouts == {0, 1, 3, 4, 5}
MCPromptTimeout == 4
MCSendGrace == 2
MCDefaultTimeout == 8
=============================================================================
