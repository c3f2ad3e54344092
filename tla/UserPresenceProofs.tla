------------------------- MODULE UserPresenceProofs -------------------------
(* Proofs about the presence gate, for any number of request objects,      *)
(* operations and timeouts.                                                *)
EXTENDS UserPresence, TLAPS

\* Where the goroutine of a request object is determines whether its prompt
\* has been answered.
AnswerKnown ==
  \A r \in Requests :
    /\ phase[r] = "prompting" => answer[r] = "none"
    /\ phase[r] \in {"sending", "clearing"} => answer[r] # "none"

\* A confirmation that has reached its client is the end of its prompt, and
\* no other has been opened since.
OkHasNoPrompt ==
  outcome = "ok" =>
    waiting = None /\ \A r \in Requests : phase[r] \notin {"prompting", "sending"}

\* The inductive invariant: the types, the gate's safety properties and the
\* relation of a goroutine's place to its answer.
PresenceInv ==
  /\ TypeOK
  /\ OnePromptAtATime
  /\ WaitsForOwnOperation
  /\ AnswerKnown
  /\ OkHasNoPrompt

USE DEF Phases, Answers, Outcomes, Live

LEMMA PresenceInit == ASSUME Init PROVE PresenceInv
  BY PresenceAssumption
  DEF Init, PresenceInv, TypeOK, OnePromptAtATime, WaitsForOwnOperation,
      AnswerKnown, OkHasNoPrompt

\* A client's timeout is a number of ticks.
LEMMA PatienceNat == \A t \in Timeouts : Patience(t) \in Nat
  BY PresenceAssumption DEF Patience

LEMMA PresenceStep ==
  ASSUME PresenceInv, [Next]_vars PROVE PresenceInv'
<1> USE PresenceAssumption DEF PresenceInv, TypeOK, OnePromptAtATime,
        WaitsForOwnOperation, AnswerKnown, OkHasNoPrompt
<1>1. ASSUME NEW p \in Params, NEW t \in Timeouts, ConfirmPresence(p, t)
      PROVE  PresenceInv'
  <2>1. CASE Refuse(p)
    BY <1>1, <2>1 DEF ConfirmPresence, Refuse, reqVars
  <2>2. CASE Join(p, t)
    BY <1>1, <2>2, PatienceNat DEF ConfirmPresence, Join, reqVars
  <2>3. CASE Start(p, t)
    <3>1. PICK r \in Requests : Start(p, t)!2!(r)
      BY <2>3 DEF Start
    <3>2. TypeOK'
      BY <2>3, <3>1, PatienceNat DEF Start
    <3>3. OnePromptAtATime' /\ WaitsForOwnOperation' /\ AnswerKnown' /\ OkHasNoPrompt'
      BY <2>3, <3>1 DEF Start
    <3> QED BY <3>2, <3>3
  <2> QED BY <1>1, <2>1, <2>2, <2>3 DEF ConfirmPresence
<1>2. CASE ClientTimeout
  BY <1>2 DEF ClientTimeout, reqVars
<1>3. ASSUME NEW r \in Requests, NEW a \in {"confirmed", "denied", "expired"},
             EndPrompt(r, a)
      PROVE  PresenceInv'
  BY <1>3 DEF EndPrompt, clientVars
<1>4. ASSUME NEW r \in Requests, UserAnswers(r) PROVE PresenceInv'
  BY <1>4, <1>3 DEF UserAnswers
<1>5. ASSUME NEW r \in Requests, PromptExpires(r) PROVE PresenceInv'
  BY <1>5, <1>3 DEF PromptExpires
<1>6. ASSUME NEW r \in Requests, Deliver(r) PROVE PresenceInv'
  BY <1>6 DEF Deliver, OutcomeOf, ErrorText
<1>7. ASSUME NEW r \in Requests, GiveUp(r) PROVE PresenceInv'
  BY <1>7 DEF GiveUp, clientVars
<1>8. ASSUME NEW r \in Requests, ClearActive(r) PROVE PresenceInv'
  BY <1>8 DEF ClearActive, clientVars
<1>9. CASE Tick
  <2>1. \A r \in Ticking : timer[r] - 1 \in Nat
    BY <1>9 DEF Tick, CodeReady, Ticking
  <2>2. waiting # None => patience - 1 \in Nat
    BY <1>9 DEF Tick, CodeReady
  <2> QED BY <1>9, <2>1, <2>2 DEF Tick
<1>10. CASE UNCHANGED vars
  BY <1>10 DEF vars
<1> QED
  BY <1>1, <1>2, <1>4, <1>5, <1>6, <1>7, <1>8, <1>9, <1>10
  DEF Next, Goroutine

\* In every behaviour the gate's state has its type.
THEOREM PresenceTypes == Spec => []TypeOK
<1>1. Init => PresenceInv BY PresenceInit
<1>2. PresenceInv /\ [Next]_vars => PresenceInv' BY PresenceStep
<1>3. PresenceInv => TypeOK BY DEF PresenceInv
<1> QED BY <1>1, <1>2, <1>3, PTL DEF Spec

\* There is one prompt at a time, and it is the one activeRequest names:
\* clearing activeRequest without looking (line 119) clears only one's own.
THEOREM OnePrompt == Spec => []OnePromptAtATime
<1>1. Init => PresenceInv BY PresenceInit
<1>2. PresenceInv /\ [Next]_vars => PresenceInv' BY PresenceStep
<1>3. PresenceInv => OnePromptAtATime BY DEF PresenceInv
<1> QED BY <1>1, <1>2, <1>3, PTL DEF Spec

\* A client waits only on the channel of a prompt for its own operation.
THEOREM OwnOperation == Spec => []WaitsForOwnOperation
<1>1. Init => PresenceInv BY PresenceInit
<1>2. PresenceInv /\ [Next]_vars => PresenceInv' BY PresenceStep
<1>3. PresenceInv => WaitsForOwnOperation BY DEF PresenceInv
<1> QED BY <1>1, <1>2, <1>3, PTL DEF Spec

\* Every step that ends a wait ends it by the client's timeout or by the
\* result of a prompt for the client's operation, which succeeds only when
\* the user confirmed that prompt.
LEMMA StepResultIsOwn ==
  ASSUME PresenceInv, [Next]_vars PROVE [ResultIsOwn]_vars
<1> USE PresenceAssumption DEF PresenceInv, TypeOK
<1> SUFFICES ASSUME Next, waiting # None, waiting' = None
             PROVE \/ outcome' = "timeout" /\ patience = 0
                   \/ \E r \in Requests :
                        /\ phase[r] = "sending" /\ phase'[r] = "clearing"
                        /\ params[r] = wanted
                        /\ outcome' = "ok" <=> answer[r] = "confirmed"
  BY DEF ResultIsOwn, vars
<1>1. CASE ClientTimeout
  BY <1>1 DEF ClientTimeout
<1>2. ASSUME NEW r \in Requests, Deliver(r)
      PROVE \E q \in Requests :
              /\ phase[q] = "sending" /\ phase'[q] = "clearing"
              /\ params[q] = wanted
              /\ outcome' = "ok" <=> answer[q] = "confirmed"
  <2>1. phase[r] = "sending" /\ phase'[r] = "clearing" /\ params[r] = wanted
    BY <1>2 DEF Deliver, WaitsForOwnOperation
  <2>2. outcome' = "ok" <=> answer[r] = "confirmed"
    BY <1>2 DEF Deliver, OutcomeOf, ErrorText
  <2> QED BY <2>1, <2>2
<1>3. CASE Tick
  BY <1>3 DEF Tick
<1>4. ASSUME NEW r \in Requests,
             UserAnswers(r) \/ PromptExpires(r) \/ GiveUp(r) \/ ClearActive(r)
      PROVE waiting' = waiting
  BY <1>4 DEF UserAnswers, PromptExpires, EndPrompt, GiveUp, ClearActive, clientVars
<1>5. ASSUME NEW p \in Params, NEW t \in Timeouts, ConfirmPresence(p, t)
      PROVE waiting = None
  BY <1>5 DEF ConfirmPresence
<1> QED BY <1>1, <1>2, <1>3, <1>4, <1>5 DEF Next, Goroutine

\* A wait ends by its own timeout or by the answer to its own prompt, and one
\* confirmation ends one wait.
THEOREM ConsentSpentOnce == Spec => ConsentIsSpentOnce
<1>1. Init => PresenceInv BY PresenceInit
<1>2. PresenceInv /\ [Next]_vars => PresenceInv' BY PresenceStep
<1>3. PresenceInv /\ [Next]_vars => [ResultIsOwn]_vars BY StepResultIsOwn
<1> QED BY <1>1, <1>2, <1>3, PTL DEF Spec, ConsentIsSpentOnce

\* A step leaves no prompt more time than it had, a new one its own.
LEMMA StepTakesTime ==
  ASSUME PresenceInv, [Next]_vars PROVE [TimeRunsOut]_vars
<1> USE PresenceAssumption DEF PresenceInv, TypeOK
<1> SUFFICES ASSUME Next, NEW r \in Requests
             PROVE /\ r \notin Live /\ r \in Live' =>
                         Remaining(r)' <= PromptTimeout + SendGrace
                   /\ r \in Live /\ r \in Live' => Remaining(r)' <= Remaining(r)
                   /\ r \in Live /\ Tick => Remaining(r)' < Remaining(r)
  BY DEF TimeRunsOut
<1>1. timer[r] \in Nat /\ phase[r] \in Phases
  OBVIOUS
<1>2. CASE Tick
  <2>1. phase' = phase
    BY <1>2 DEF Tick
  <2>2. CASE r \in Live
    <3>1. phase[r] # "clearing" /\ r \in Ticking
      BY <1>1, <1>2, <2>2 DEF Tick, CodeReady, Ticking
    <3>2. timer[r] # 0 /\ timer'[r] = timer[r] - 1
      BY <1>2, <3>1 DEF Tick, CodeReady
    <3>3. CASE phase[r] = "prompting"
      <4>1. Remaining(r) = timer[r] + SendGrace /\ Remaining(r)' = timer'[r] + SendGrace
        BY <2>1, <3>3 DEF Remaining
      <4>2. Remaining(r)' < Remaining(r) /\ Remaining(r)' <= Remaining(r)
        BY <1>1, <3>2, <4>1
      <4> QED BY <2>2, <4>2
    <3>4. CASE phase[r] = "sending"
      <4>1. Remaining(r) = timer[r] /\ Remaining(r)' = timer'[r]
        BY <2>1, <3>4 DEF Remaining
      <4>2. Remaining(r)' < Remaining(r) /\ Remaining(r)' <= Remaining(r)
        BY <1>1, <3>2, <4>1
      <4> QED BY <2>2, <4>2
    <3> QED BY <1>1, <2>2, <3>1, <3>3, <3>4
  <2> QED BY <2>1, <2>2
<1>3. CASE ~ Tick
  <2> DEFINE Goal == /\ r \notin Live /\ r \in Live' =>
                          Remaining(r)' <= PromptTimeout + SendGrace
                     /\ r \in Live /\ r \in Live' => Remaining(r)' <= Remaining(r)
  <2> HIDE DEF Goal
  <2>1. Remaining(r) \in Nat
    BY <1>1 DEF Remaining
  <2>2. ASSUME phase'[r] = phase[r], timer'[r] = timer[r] PROVE Goal
    <3>1. Remaining(r)' = Remaining(r)
      BY <2>2 DEF Remaining
    <3> QED BY <2>1, <2>2, <3>1 DEF Goal
  <2>3. ASSUME NEW p \in Params, NEW t \in Timeouts, ConfirmPresence(p, t) PROVE Goal
    <3>1. CASE Refuse(p) \/ Join(p, t)
      BY <2>2, <3>1 DEF Refuse, Join, reqVars
    <3>2. CASE Start(p, t)
      <4>1. PICK q \in Requests : Start(p, t)!2!(q)
        BY <3>2 DEF Start
      <4>2. r \notin Live
        BY <3>2 DEF Start, OnePromptAtATime
      <4>3. CASE q = r
        <5>1. phase'[r] = "prompting" /\ timer'[r] = PromptTimeout
          BY <4>1, <4>3
        <5>2. Remaining(r)' = PromptTimeout + SendGrace
          BY <5>1 DEF Remaining
        <5> QED BY <4>2, <5>2 DEF Goal
      <4>4. CASE q # r
        <5>1. phase'[r] = phase[r] /\ timer'[r] = timer[r]
          BY <4>1, <4>4
        <5> QED BY <2>2, <5>1
      <4> QED BY <4>3, <4>4
    <3>3. Refuse(p) \/ Join(p, t) \/ Start(p, t)
      BY <2>3 DEF ConfirmPresence
    <3> QED BY <3>1, <3>2, <3>3
  <2>4. ASSUME ClientTimeout PROVE Goal
    BY <2>2, <2>4 DEF ClientTimeout, reqVars
  <2>5. ASSUME NEW q \in Requests, NEW a \in Answers, EndPrompt(q, a) PROVE Goal
    <3>1. CASE q = r
      <4>1. /\ phase[r] = "prompting" /\ phase'[r] = "sending" /\ timer'[r] = SendGrace
        BY <2>5, <3>1 DEF EndPrompt
      <4>2. Remaining(r) = timer[r] + SendGrace /\ Remaining(r)' = SendGrace
        BY <4>1 DEF Remaining
      <4> QED BY <1>1, <4>1, <4>2 DEF Goal
    <3>2. CASE q # r
      BY <2>2, <2>5, <3>2 DEF EndPrompt
    <3> QED BY <3>1, <3>2
  <2>6. ASSUME NEW q \in Requests, Deliver(q) \/ GiveUp(q) PROVE Goal
    <3>1. CASE q = r
      <4>1. phase[r] = "sending" /\ phase'[r] = "clearing"
        BY <2>6, <3>1 DEF Deliver, GiveUp
      <4>2. Remaining(r)' = 0
        BY <4>1 DEF Remaining
      <4> QED BY <2>1, <4>1, <4>2 DEF Goal
    <3>2. CASE q # r
      BY <2>2, <2>6, <3>2 DEF Deliver, GiveUp
    <3> QED BY <3>1, <3>2
  <2>7. ASSUME NEW q \in Requests, ClearActive(q) PROVE Goal
    <3>1. CASE q = r
      BY <2>7, <3>1 DEF ClearActive, Goal
    <3>2. CASE q # r
      BY <2>2, <2>7, <3>2 DEF ClearActive
    <3> QED BY <3>1, <3>2
  <2>8. ASSUME NEW q \in Requests, UserAnswers(q) \/ PromptExpires(q) PROVE Goal
    <3>1. \E a \in Answers : EndPrompt(q, a)
      BY <2>8 DEF UserAnswers, PromptExpires
    <3> QED BY <2>5, <3>1
  <2>9. Goal
    <3> QED BY <1>3, <2>3, <2>4, <2>6, <2>7, <2>8 DEF Next, Goroutine
  <2> QED BY <1>3, <2>9 DEF Goal
<1> QED BY <1>2, <1>3

\* A prompt is active for its own time and the grace of its result at most,
\* however many clients share it (lines 85-92, 110-123).
THEOREM HoldIsBounded == Spec => GateRunsOut
<1>1. Init => PresenceInv BY PresenceInit
<1>2. PresenceInv /\ [Next]_vars => PresenceInv' BY PresenceStep
<1>3. PresenceInv /\ [Next]_vars => [TimeRunsOut]_vars BY StepTakesTime
<1> QED BY <1>1, <1>2, <1>3, PTL DEF Spec, GateRunsOut
=============================================================================
