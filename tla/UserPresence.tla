---------------------------- MODULE UserPresence ----------------------------
(***************************************************************************)
(* The user-presence gate of userpresence/userpresence.go and the way its  *)
(* only client, the request loop, waits on it (webauthn/handler.go).       *)
(*                                                                         *)
(* A *request object is a member of Requests.  The program allocates a new *)
(* one for every prompt; an object nothing runs for any more (phase        *)
(* "done") is garbage and is used again here, so that a finite set stands  *)
(* for any number of prompts.  "params" is the pair (challengeParam,       *)
(* applicationParam).  Each live object has one goroutine, confirmPrompt,  *)
(* which is in one of three places:                                        *)
(*   prompting  waiting for fprintd-verify or zenity, at most 30 s         *)
(*   sending    in the select of sendResult, at most 2 s                   *)
(*   clearing   past that select, not yet past activeRequest = nil         *)
(*                                                                         *)
(* Time is counted in ticks; code takes no time, a timer that has reached  *)
(* 0 fires before the next tick.  The goroutine ConfirmPresence starts to  *)
(* extend the timeout (lines 87-92) sends on a channel nobody receives     *)
(* from and ends after 2 s with no effect: it has no variable here.        *)
(***************************************************************************)
EXTENDS Integers

CONSTANTS
  Requests,        \* identities of *request objects
  Params,          \* (challenge hash, relying-party hash) pairs
  Timeouts,        \* values of options.timeout; 0 is "absent"
  PromptTimeout,   \* ticks a prompt stays open (30 s)
  SendGrace,       \* ticks a result waits for its receiver (2 s)
  DefaultTimeout,  \* ticks a client waits by default (60 s)
  None

ASSUME PresenceAssumption ==
  /\ PromptTimeout \in Nat \ {0}
  /\ SendGrace \in Nat \ {0}
  /\ DefaultTimeout \in Nat \ {0}
  /\ Timeouts \subseteq Nat
  /\ None \notin Requests

VARIABLES
  activeRequest,  \* up.activeRequest: a request object, or None for nil
  phase,          \* phase[r]: where the goroutine of r is
  params,         \* params[r]: what r asks the user to confirm
  answer,         \* answer[r]: how the prompt of r ended
  timer,          \* timer[r]: ticks left of the running prompt or send
  waiting,        \* the object whose pendingResult the client receives from
  wanted,         \* the parameters of the client's call
  patience,       \* ticks left of the client's own timeout
  outcome         \* what the client's wait gave

reqVars == <<activeRequest, phase, params, answer, timer>>
clientVars == <<waiting, wanted, patience, outcome>>
vars == <<activeRequest, phase, params, answer, timer,
          waiting, wanted, patience, outcome>>

Phases == {"done", "prompting", "sending", "clearing"}
Answers == {"none", "confirmed", "denied", "expired"}
Outcomes == {"none", "ok", "denied", "timeout", "busy"}
Live == {r \in Requests : phase[r] # "done"}

TypeOK ==
  /\ activeRequest \in Requests \cup {None}
  /\ phase \in [Requests -> Phases]
  /\ params \in [Requests -> Params]
  /\ answer \in [Requests -> Answers]
  /\ timer \in [Requests -> Nat]
  /\ waiting \in Requests \cup {None}
  /\ wanted \in Params
  /\ patience \in Nat
  /\ outcome \in Outcomes

Init ==
  /\ activeRequest = None
  /\ phase = [r \in Requests |-> "done"]
  /\ params \in [Requests -> Params]
  /\ answer = [r \in Requests |-> "none"]
  /\ timer = [r \in Requests |-> 0]
  /\ waiting = None
  /\ wanted \in Params
  /\ patience = 0
  /\ outcome = "none"

-----------------------------------------------------------------------------
(* The client: ConfirmPresence, then a select on the result and a timeout. *)

\* The client's own timeout: options.timeout when positive, else 60 s.
Patience(t) == IF t > 0 THEN t ELSE DefaultTimeout

\* A prompt for other parameters is active: the call returns an error.
Refuse(p) ==
  /\ activeRequest # None
  /\ params[activeRequest] # p
  /\ outcome' = "busy"
  /\ wanted' = p
  /\ UNCHANGED <<reqVars, waiting, patience>>

\* Fault: the parameters are not compared before the channel is shared.
JoinAnyPrompt(p, t) ==
  /\ activeRequest # None
  /\ waiting' = activeRequest
  /\ wanted' = p
  /\ patience' = Patience(t)
  /\ outcome' = "none"
  /\ UNCHANGED reqVars

\* Fault: sharing a prompt does extend it.
JoinExtends(p, t) ==
  /\ activeRequest # None
  /\ params[activeRequest] = p
  /\ timer' = [timer EXCEPT ![activeRequest] = PromptTimeout]
  /\ waiting' = activeRequest
  /\ wanted' = p
  /\ patience' = Patience(t)
  /\ outcome' = "none"
  /\ UNCHANGED <<activeRequest, phase, params, answer>>

\* The active prompt is for the same parameters: share its channel.
Join(p, t) ==
  /\ activeRequest # None
  /\ params[activeRequest] = p
  /\ waiting' = activeRequest
  /\ wanted' = p
  /\ patience' = Patience(t)
  /\ outcome' = "none"
  /\ UNCHANGED reqVars

\* Fault: a new prompt is opened whatever the active one is.
StartUnchecked(p, t) ==
  /\ \E r \in Requests \ Live :
       /\ activeRequest' = r
       /\ phase' = [phase EXCEPT ![r] = "prompting"]
       /\ params' = [params EXCEPT ![r] = p]
       /\ answer' = [answer EXCEPT ![r] = "none"]
       /\ timer' = [timer EXCEPT ![r] = PromptTimeout]
       /\ waiting' = r
  /\ wanted' = p
  /\ patience' = Patience(t)
  /\ outcome' = "none"

\* Nothing is active: a new object becomes the active one and its goroutine
\* opens a prompt.
Start(p, t) ==
  /\ activeRequest = None
  /\ \E r \in Requests \ Live :
       /\ activeRequest' = r
       /\ phase' = [phase EXCEPT ![r] = "prompting"]
       /\ params' = [params EXCEPT ![r] = p]
       /\ answer' = [answer EXCEPT ![r] = "none"]
       /\ timer' = [timer EXCEPT ![r] = PromptTimeout]
       /\ waiting' = r
  /\ wanted' = p
  /\ patience' = Patience(t)
  /\ outcome' = "none"

\* up.ConfirmPresence: the whole body runs under up.mu.
ConfirmPresence(p, t) ==
  /\ waiting = None
  /\ Refuse(p) \/ Join(p, t) \/ Start(p, t)

\* Fault: the client's timeout is only honoured while the prompt is open.
TimeoutWhilePrompting ==
  /\ waiting # None
  /\ phase[waiting] = "prompting"
  /\ patience = 0
  /\ waiting' = None
  /\ outcome' = "timeout"
  /\ UNCHANGED <<reqVars, wanted, patience>>

\* The select's other branch: childCtx.Done().
ClientTimeout ==
  /\ waiting # None
  /\ patience = 0
  /\ waiting' = None
  /\ outcome' = "timeout"
  /\ UNCHANGED <<reqVars, wanted, patience>>

-----------------------------------------------------------------------------
(* confirmPrompt, one goroutine for each live object.                      *)

\* The prompt of r ends with a, and sendResult's select begins.
EndPrompt(r, a) ==
  /\ phase[r] = "prompting"
  /\ phase' = [phase EXCEPT ![r] = "sending"]
  /\ answer' = [answer EXCEPT ![r] = a]
  /\ timer' = [timer EXCEPT ![r] = SendGrace]
  /\ UNCHANGED <<activeRequest, params, clientVars>>

\* The command exits: with status 0, or with an error (the user said no, or
\* the tool failed).
UserAnswers(r) == \E a \in {"confirmed", "denied"} : EndPrompt(r, a)

\* The context's deadline kills the command.
PromptExpires(r) == timer[r] = 0 /\ EndPrompt(r, "expired")

\* The error text of a result that is not OK.
ErrorText(a) ==
  IF a = "expired" THEN "confirmation timed out" ELSE "exit status 1"

\* Fault: only an error exit of the tool counts, not a killed tool.
OutcomeOfExitOnly(a) == IF a = "denied" THEN "denied" ELSE "ok"

\* What the handler makes of a result it receives.
OutcomeOf(a) ==
  IF a = "confirmed" THEN "ok"
  ELSE IF ErrorText(a) = "fingerprint verification timed out" THEN "timeout"
  ELSE "denied"

\* The unbuffered send meets its receiver.
Deliver(r) ==
  /\ phase[r] = "sending"
  /\ waiting = r
  /\ phase' = [phase EXCEPT ![r] = "clearing"]
  /\ timer' = [timer EXCEPT ![r] = 0]
  /\ waiting' = None
  /\ patience' = 0
  /\ outcome' = OutcomeOf(answer[r])
  /\ UNCHANGED <<activeRequest, params, answer, wanted>>

\* time.After(2 * time.Second): nobody received.
GiveUp(r) ==
  /\ phase[r] = "sending"
  /\ timer[r] = 0
  /\ phase' = [phase EXCEPT ![r] = "clearing"]
  /\ UNCHANGED <<activeRequest, params, answer, timer, clientVars>>

\* Fault: the goroutine ends without clearing activeRequest.
EndWithoutClearing(r) ==
  /\ phase[r] = "clearing"
  /\ phase' = [phase EXCEPT ![r] = "done"]
  /\ answer' = [answer EXCEPT ![r] = "none"]
  /\ UNCHANGED <<activeRequest, params, timer, clientVars>>

\* up.activeRequest = nil under up.mu, and the goroutine ends.
ClearActive(r) ==
  /\ phase[r] = "clearing"
  /\ phase' = [phase EXCEPT ![r] = "done"]
  /\ answer' = [answer EXCEPT ![r] = "none"]
  /\ activeRequest' = None
  /\ UNCHANGED <<params, timer, clientVars>>

-----------------------------------------------------------------------------
Ticking == {r \in Requests : phase[r] \in {"prompting", "sending"}}

\* Fault: the send has no timeout branch.
ReadyNoSendTimeout ==
  \/ \E r \in Requests : phase[r] = "clearing"
  \/ \E r \in Requests : phase[r] = "sending" /\ waiting = r
  \/ \E r \in Ticking : phase[r] = "prompting" /\ timer[r] = 0
  \/ waiting # None /\ patience = 0

\* Some step of the code is ready: a timer has fired, a sender and its
\* receiver have met, or a goroutine is past its last wait.
CodeReady ==
  \/ \E r \in Requests : phase[r] = "clearing"
  \/ \E r \in Requests : phase[r] = "sending" /\ waiting = r
  \/ \E r \in Ticking : timer[r] = 0
  \/ waiting # None /\ patience = 0

Tick ==
  /\ ~CodeReady
  /\ Ticking # {} \/ waiting # None
  /\ timer' = [r \in Requests |->
                 IF r \in Ticking THEN timer[r] - 1 ELSE timer[r]]
  /\ patience' = IF waiting # None THEN patience - 1 ELSE patience
  /\ UNCHANGED <<activeRequest, phase, params, answer, waiting, wanted, outcome>>

\* The steps of confirmPrompt the Go runtime and its timers guarantee.
Goroutine(r) == PromptExpires(r) \/ Deliver(r) \/ GiveUp(r) \/ ClearActive(r)

Next ==
  \/ \E p \in Params, t \in Timeouts : ConfirmPresence(p, t)
  \/ ClientTimeout
  \/ \E r \in Requests : UserAnswers(r) \/ Goroutine(r)
  \/ Tick

\* No fairness on the user or on the arrival of calls: a prompt may never be
\* answered and a client may never come back.
Fairness ==
  /\ WF_vars(Tick)
  /\ WF_vars(ClientTimeout)
  /\ \A r \in Requests : WF_vars(Goroutine(r))

Spec == Init /\ [][Next]_vars
FairSpec == Spec /\ Fairness

-----------------------------------------------------------------------------
(* Safety                                                                  *)

\* up.activeRequest points at r exactly as long as the goroutine of r lives:
\* there is never a second prompt, although sendResult sets activeRequest to
\* nil without looking whose it is (line 119).
OnePromptAtATime == \A r \in Requests : r \in Live <=> activeRequest = r

\* A client only ever waits on the channel of a prompt that asks the user
\* for the very operation the client wants (the comparison in line 81).
WaitsForOwnOperation == waiting # None => params[waiting] = wanted

\* A wait that ends is ended by its own timeout or by a prompt for its own
\* parameters; it succeeds only if the user confirmed that prompt, and that
\* confirmation is then used up (lines 112-113; handler.go 153-165).
ResultIsOwn ==
  waiting # None /\ waiting' = None =>
    \/ outcome' = "timeout" /\ patience = 0
    \/ \E r \in Requests :
         /\ phase[r] = "sending" /\ phase'[r] = "clearing"
         /\ params[r] = wanted
         /\ outcome' = "ok" <=> answer[r] = "confirmed"

ConsentIsSpentOnce == [][ResultIsOwn]_vars

\* Ticks for which r can still be the active request.
Remaining(r) ==
  CASE phase[r] = "prompting" -> timer[r] + SendGrace
    [] phase[r] = "sending" -> timer[r]
    [] OTHER -> 0

\* However many clients share a prompt, come back or leave, it keeps the gate
\* for 30 s + 2 s at most: no step gives it more time, and every tick takes
\* some, since nobody receives from extendTimeout (lines 85-92, 110-123).
TimeRunsOut ==
  \A r \in Requests :
    /\ r \notin Live /\ r \in Live' => Remaining(r)' <= PromptTimeout + SendGrace
    /\ r \in Live /\ r \in Live' => Remaining(r)' <= Remaining(r)
    /\ r \in Live /\ Tick => Remaining(r)' < Remaining(r)

GateRunsOut == [][TimeRunsOut]_vars

(* Liveness                                                                *)

\* Every wait on the gate ends (the select of handler.go 153-165).
ClientAnswered == waiting # None ~> waiting = None

\* A prompt that nobody answers or whose client left does not block the gate
\* for ever: activeRequest is cleared at the latest 30 s + 2 s later.
GateReopens ==
  \A r \in Requests : activeRequest = r ~> activeRequest # r

(* What comments and docs say, and the code does not do                    *)

\* EXTENSION_PROTOCOL.md:227 "Fingerprint timeout ... Operation timed out": an
\* expired prompt reaches the client as a timeout.
ExpiryIsATimeout ==
  [][\A r \in Requests : Deliver(r) /\ answer[r] = "expired"
       => outcome' = "timeout"]_vars
=============================================================================
