-------------------------- MODULE NativeMessaging --------------------------
(***************************************************************************)
(* nativemsg/io.go and the loop of tpmfido.go: messages with a length in   *)
(* front, read from stdin and written to stdout.                           *)
(*                                                                         *)
(* The pipes are sequences of bytes.  A read that waits for its bytes and  *)
(* a frame that arrives in pieces come to the same, so that frames arrive  *)
(* whole, but for the last one of a port that closes.  The extension's     *)
(* side frames correctly; lengths the host refuses are those of empty and  *)
(* of too long messages.  Handling a request is one step: NativeHost has   *)
(* the steps, and its RequestAnswered says that they end.                  *)
(***************************************************************************)
EXTENDS Frames

CONSTANTS
  MaxMessageSize,   \* 1 MiB
  Messages,         \* what the extension may send
  Responses(_),     \* what HandleRequest may return for a message
  MaxSent           \* bound: the messages sent

ASSUME MessagingAssumption ==
  /\ MaxMessageSize \in Nat \ {0} /\ MaxMessageSize < Capacity
  /\ \A m \in Messages : m \in Seq(Byte) /\ Len(m) < Capacity
  /\ \A m \in Messages \ {<<>>} : \A r \in Responses(m) : r \in Seq(Byte) \ {<<>>}
  /\ MaxSent \in Nat

VARIABLES
  stdin,    \* bytes written by the extension and not yet read
  stdout,   \* bytes written by the host
  closed,   \* the extension has closed the port
  sent,     \* history: the messages sent whole
  stage,    \* where the loop is
  length,   \* length of Read, or of Write
  message   \* msg of Read, or data of Write

vars == <<stdin, stdout, closed, sent, stage, length, message>>

Stages == {"reading length", "reading payload", "handling",
           "writing length", "writing payload", "ended"}

TypeOK ==
  /\ stdin \in Seq(Byte) /\ stdout \in Seq(Byte)
  /\ closed \in BOOLEAN
  /\ sent \in Seq(Messages)
  /\ stage \in Stages
  /\ length \in 0 .. MaxMessageSize
  /\ message \in Seq(Byte)
  /\ stage \in {"handling", "writing payload"} => length = Len(message)

Init ==
  /\ stdin = <<>> /\ stdout = <<>>
  /\ closed = FALSE
  /\ sent = <<>>
  /\ stage = "reading length"
  /\ length = 0
  /\ message = <<>>

-----------------------------------------------------------------------------
(* The extension                                                           *)

Send(m) ==
  /\ ~closed
  /\ Len(sent) < MaxSent
  /\ stdin' = stdin \o Framed(m)
  /\ sent' = Append(sent, m)
  /\ UNCHANGED <<stdout, closed, stage, length, message>>

Close ==
  /\ ~closed
  /\ closed' = TRUE
  /\ UNCHANGED <<stdin, stdout, sent, stage, length, message>>

\* The port closes within a frame.
CloseWithin(m) ==
  /\ ~closed
  /\ Len(sent) < MaxSent
  /\ \E n \in 1 .. Len(Framed(m)) - 1 : stdin' = stdin \o SubSeq(Framed(m), 1, n)
  /\ closed' = TRUE
  /\ UNCHANGED <<stdout, sent, stage, length, message>>

-----------------------------------------------------------------------------
(* Read                                                                    *)

\* Fault: the loop goes on to the next length after one it refuses.
AfterRefusalGoOn == "reading length"

\* Every error of Read and of Write returns from the loop.
AfterError == "ended"

\* Fault: the limit itself is one too high.
ValidUpToNext(n) == n \in 1 .. MaxMessageSize + 1

Valid(n) == n \in 1 .. MaxMessageSize

ReadLength ==
  /\ stage = "reading length"
  /\ Len(stdin) >= Width
  /\ stdin' = Drop(stdin, Width)
  /\ LET n == Value(stdin)
     IN  IF Valid(n)
         THEN length' = n /\ stage' = "reading payload"
         ELSE length' = 0 /\ stage' = AfterError
  /\ UNCHANGED <<stdout, closed, sent, message>>

\* Fault: a length that is cut short is not taken for an end.
ReadLengthEOFOnly ==
  /\ stage = "reading length"
  /\ closed /\ stdin = <<>>
  /\ stage' = AfterError
  /\ UNCHANGED <<stdin, stdout, closed, sent, length, message>>

\* io.EOF before the first byte, io.ErrUnexpectedEOF after it.
ReadLengthFails ==
  /\ stage = "reading length"
  /\ closed /\ Len(stdin) < Width
  /\ stage' = AfterError
  /\ UNCHANGED <<stdin, stdout, closed, sent, length, message>>

\* Fault: one byte of the message stays in the pipe.
ReadPayloadShort ==
  /\ stage = "reading payload"
  /\ Len(stdin) >= length
  /\ message' = SubSeq(stdin, 1, length)
  /\ stdin' = Drop(stdin, length - 1)
  /\ stage' = "handling"
  /\ UNCHANGED <<stdout, closed, sent, length>>

ReadPayload ==
  /\ stage = "reading payload"
  /\ Len(stdin) >= length
  /\ message' = SubSeq(stdin, 1, length)
  /\ stdin' = Drop(stdin, length)
  /\ stage' = "handling"
  /\ UNCHANGED <<stdout, closed, sent, length>>

ReadPayloadFails ==
  /\ stage = "reading payload"
  /\ closed /\ Len(stdin) < length
  /\ stage' = AfterError
  /\ UNCHANGED <<stdin, stdout, closed, sent, length, message>>

-----------------------------------------------------------------------------
(* HandleRequest and Write                                                 *)

Handle ==
  /\ stage = "handling"
  /\ message' \in Responses(message)
  /\ stage' = "writing length"
  /\ length' = 0
  /\ UNCHANGED <<stdin, stdout, closed, sent>>

\* A response above the limit is not written at all.
WriteTooLarge ==
  /\ stage = "writing length"
  /\ Len(message) > MaxMessageSize
  /\ stage' = AfterError
  /\ UNCHANGED <<stdin, stdout, closed, sent, length, message>>

WriteLength ==
  /\ stage = "writing length"
  /\ Len(message) <= MaxMessageSize
  /\ length' = Len(message)
  /\ stdout' = stdout \o LittleEndian(Len(message))
  /\ stage' = "writing payload"
  /\ UNCHANGED <<stdin, closed, sent, message>>

WritePayload ==
  /\ stage = "writing payload"
  /\ stdout' = stdout \o message
  /\ stage' = "reading length"
  /\ length' = 0 /\ message' = <<>>
  /\ UNCHANGED <<stdin, closed, sent>>

\* Fault: a response that could not be written is skipped.
SkipUnwritten ==
  /\ closed
  /\ stage \in {"writing length", "writing payload"}
  /\ stage' = "reading length"
  /\ UNCHANGED <<stdin, stdout, closed, sent, length, message>>

\* Fault: a write that has failed after a byte is tried again.
WriteRetried ==
  /\ closed
  /\ stage \in {"writing length", "writing payload"}
  /\ Len(stdout) < Width   \* bound
  /\ \E b \in Byte : stdout' = Append(stdout, b)
  /\ UNCHANGED <<stdin, closed, sent, stage, length, message>>

\* Nobody reads stdout any more: the write fails after some of its bytes, or
\* SIGPIPE ends the process.
WriteFails ==
  /\ closed
  /\ stage \in {"writing length", "writing payload"}
  /\ LET data == IF stage = "writing length" THEN LittleEndian(Len(message)) ELSE message
     IN  \E n \in 0 .. Len(data) - 1 : stdout' = stdout \o SubSeq(data, 1, n)
  /\ stage = "writing length" => Len(message) <= MaxMessageSize
  /\ stage' = AfterError
  /\ UNCHANGED <<stdin, closed, sent, length, message>>

-----------------------------------------------------------------------------
Host ==
  \/ ReadLength \/ ReadLengthFails \/ ReadPayload \/ ReadPayloadFails
  \/ Handle
  \/ WriteTooLarge \/ WriteLength \/ WritePayload \/ WriteFails

\* The process is killed.
Killed ==
  /\ stage # "ended"
  /\ stage' = "ended"
  /\ UNCHANGED <<stdin, stdout, closed, sent, length, message>>

Next ==
  \/ \E m \in Messages : Send(m) \/ CloseWithin(m)
  \/ Close
  \/ Host
  \/ Killed

\* Fair: the loop.  Not fair: the extension and who kills processes.
Spec == Init /\ [][Next]_vars /\ WF_vars(Host)

-----------------------------------------------------------------------------
(* Safety                                                                  *)

\* Reading never slips: before a length is read, the pipe holds the frames
\* of just the messages that have no response yet, whatever bytes messages
\* are made of (io.go:18-36), and at most a torn one behind them.
InSync ==
  stage = "reading length" =>
    LET rest == Stream(Drop(sent, Len(Unframed[stdout])))
    IN  IsPrefix(rest, stdin) /\ (closed \/ rest = stdin)

\* Writing never slips: whenever the loop reads again, stdout is a sequence
\* of whole frames; only the last one is ever torn, and then nothing follows
\* (io.go:56-64, tpmfido.go:105-108).
OutputWhole ==
  stage \in {"reading length", "reading payload", "handling", "writing length"} =>
    Stream(Unframed[stdout]) = stdout

\* The bytes amount to a port that answers message by message: a response
\* for each message in its turn, never one for a message of a bad length or
\* after one.
Port == INSTANCE MessagePort WITH
          received <- Unframed[stdout], ended <- stage = "ended"

ImplementsPort == Port!Spec

\* A closed port is a bound on what is still done: a round takes a length, and
\* with it a byte at least, from a pipe that nobody fills, and nothing in a
\* round is tried again (tpmfido.go:87-110).
StepsOfRound ==
  CASE stage = "ended" -> 0
    [] stage = "reading length" -> 1
    [] stage = "writing payload" -> 2
    [] stage = "writing length" -> 3
    [] stage = "handling" -> 4
    [] stage = "reading payload" -> 5

StepsLeft == 5 * Len(stdin) + StepsOfRound

RunsOut == [][closed => StepsLeft' < StepsLeft]_vars

(* Liveness                                                                *)

\* When the extension closes the port, at a boundary or within a message,
\* the host handles what it has got and ends (tpmfido.go:89-97): no process
\* stays behind.
EndsAfterClose == closed ~> stage = "ended"
=============================================================================
