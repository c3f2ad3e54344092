---------------------------- MODULE MessagePort ----------------------------
(* What the framing and the loop promise to the extension: requests are    *)
(* answered one by one in the order they were sent, each answer is whole   *)
(* and belongs to its request, and after the end there are none.           *)
EXTENDS Sequences, Integers

CONSTANTS
  Messages,         \* what the extension may send
  Responses(_),     \* the responses a message may get
  MaxMessageSize

VARIABLES
  sent,       \* the messages sent
  received,   \* the responses that have come back
  ended       \* the host has ended

vars == <<sent, received, ended>>

\* A message the host accepts.
Acceptable(m) == Len(m) \in 1 .. MaxMessageSize

Init == sent = <<>> /\ received = <<>> /\ ended = FALSE

Send(m) ==
  /\ sent' = Append(sent, m)
  /\ UNCHANGED <<received, ended>>

\* The next message is answered; none before it was refused.
Answer ==
  /\ ~ended
  /\ Len(received) < Len(sent)
  /\ \A i \in 1 .. Len(received) + 1 : Acceptable(sent[i])
  /\ \E r \in Responses(sent[Len(received) + 1]) :
       Len(r) <= MaxMessageSize /\ received' = Append(received, r)
  /\ UNCHANGED <<sent, ended>>

End == ended' = TRUE /\ UNCHANGED <<sent, received>>

Next == (\E m \in Messages : Send(m)) \/ Answer \/ End

Spec == Init /\ [][Next]_vars
=============================================================================
