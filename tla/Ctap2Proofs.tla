----------------------------- MODULE Ctap2Proofs -----------------------------
(* Proofs about the CTAP2 command interface, for any number of key pairs,  *)
(* requests and accounts, any bytes in handles, any lists, and whatever    *)
(* fails.                                                                  *)
EXTENDS Ctap2, SignersProofs, CredentialListProofs, FiniteSetTheorems

\* The gate's invariant and what has been proved about its steps.
Gate == INSTANCE UserPresenceProofs WITH
          Timeouts <- {PromptTimeout}, DefaultTimeout <- PromptTimeout

-----------------------------------------------------------------------------
(* The gate inside of the command interface                                *)

\* The constants are such as the gate assumes.
LEMMA GateConstants ==
  /\ PromptTimeout \in Nat \ {0}
  /\ SendGrace \in Nat \ {0}
  /\ {PromptTimeout} \subseteq Nat
  /\ None \notin Requests
  BY CtapAssumption

LEMMA GateInit == ASSUME Init PROVE Gate!PresenceInv
<1>1. Gate!Init
  BY DEF Init, UP!Init, Gate!Init
<1> QED BY <1>1, GateConstants, Gate!PresenceInit

\* What the commands have in common that ask for presence.
Asks(s) ==
  /\ stage = "idle"
  /\ \E p \in Params : AskPresence(p, s)
  /\ UNCHANGED <<signerVars, listVars, agreementVars, granted>>

LEMMA AsksOfCommands ==
  ASSUME NEW p \in Params, NEW l \in Lists
  PROVE  /\ AskMake(p, l) => Asks("make") /\ UNCHANGED seriesVars
         /\ AskGet(p, l) => Asks("get")
  BY DEF AskMake, AskGet, Asks

\* Steps of commands that do not touch the gate.
Inside ==
  \/ \E s \in Immediate : Answer(s)
  \/ \E p \in Params, l \in Lists : ExcludeHit(p, l) \/ NoCredentials(p, l)
  \/ BadHash \/ GetNextAssertion \/ GetKeyAgreement
  \/ CommandStep

LEMMA InsideLeavesGate == ASSUME Inside PROVE UNCHANGED upVars
<1>1. CASE CommandStep
  BY <1>1 DEF CommandStep, Refused, MakeCredential, RegisterFails, GetAssertion
<1>2. CASE ~CommandStep
  BY <1>2 DEF Inside, Answer, ExcludeHit, NoCredentials, BadHash, GetNextAssertion,
     GetKeyAgreement
<1> QED BY <1>1, <1>2

\* Everything that may happen.
LEMMA Steps ==
  ASSUME [Next]_vars
  PROVE  \/ Inside
         \/ \E p \in Params, l \in Lists : AskMake(p, l) \/ AskGet(p, l)
         \/ \E r \in Requests : ResultDropped(r)
         \/ \E r \in Requests, a \in UP!Answers \ {"none"} : PromptEnds(r, a)
         \/ GateStep
         \/ NewProcess
         \/ UNCHANGED vars
  BY DEF Next, HandleCommand, Inside, Restart, Panic

LEMMA GateSteps ==
  ASSUME [Next]_vars
  PROVE  [Gate!Next]_(Gate!vars) \/ NewProcess
<1>1. ASSUME NEW p \in Params, NEW l \in Lists, AskMake(p, l) \/ AskGet(p, l)
      PROVE  Gate!Next
  <2>1. PICK q \in Params : UP!ConfirmPresence(q, PromptTimeout)
    BY <1>1, AsksOfCommands DEF Asks, AskPresence
  <2>2. Gate!ConfirmPresence(q, PromptTimeout)
    BY <2>1 DEF UP!ConfirmPresence, UP!Refuse, UP!Join, UP!Start,
         UP!Patience, UP!Live, UP!reqVars, Gate!ConfirmPresence, Gate!Refuse,
         Gate!Join, Gate!Start, Gate!Patience, Gate!Live, Gate!reqVars
  <2> QED BY <2>2 DEF Gate!Next
<1>2. ASSUME NEW r \in Requests, NEW a \in UP!Answers \ {"none"}, PromptEnds(r, a)
      PROVE  Gate!Next
  <2>1. Gate!EndPrompt(r, a) /\ (a = "expired" => timer[r] = 0)
    BY <1>2 DEF PromptEnds, UP!EndPrompt, Gate!EndPrompt, UP!clientVars, Gate!clientVars
  <2>2. a \in {"confirmed", "denied"} \/ a = "expired"
    BY <1>2 DEF UP!Answers
  <2> QED BY <2>1, <2>2
        DEF Gate!Next, Gate!UserAnswers, Gate!Goroutine, Gate!PromptExpires
<1>3. ASSUME NEW r \in Requests, ResultDropped(r) PROVE Gate!Next
  <2>1. Gate!GiveUp(r)
    BY <1>3 DEF ResultDropped, UP!GiveUp, Gate!GiveUp, UP!clientVars, Gate!clientVars
  <2> QED BY <2>1 DEF Gate!Next, Gate!Goroutine
<1>4. CASE GateStep
  <2>1. CASE UP!ClientTimeout
    BY <2>1 DEF UP!ClientTimeout, UP!reqVars, Gate!Next, Gate!ClientTimeout, Gate!reqVars
  <2>2. CASE UP!Tick
    BY <2>2 DEF UP!Tick, UP!CodeReady, UP!Ticking,
         Gate!Next, Gate!Tick, Gate!CodeReady, Gate!Ticking
  <2>3. ASSUME NEW r \in Requests, UP!Deliver(r) PROVE Gate!Next
    <3>1. Gate!Deliver(r)
      BY <2>3 DEF UP!Deliver, UP!OutcomeOf, UP!ErrorText,
           Gate!Deliver, Gate!OutcomeOf, Gate!ErrorText
    <3> QED BY <3>1 DEF Gate!Next, Gate!Goroutine
  <2>4. ASSUME NEW r \in Requests, UP!ClearActive(r) PROVE Gate!Next
    <3>1. Gate!ClearActive(r)
      BY <2>4 DEF UP!ClearActive, UP!clientVars, Gate!ClearActive, Gate!clientVars
    <3> QED BY <3>1 DEF Gate!Next, Gate!Goroutine
  <2> QED BY <1>4, <2>1, <2>2, <2>3, <2>4 DEF GateStep
<1>5. CASE Inside \/ UNCHANGED vars
  BY <1>5, InsideLeavesGate DEF upVars, vars, Gate!vars
<1> QED BY <1>1, <1>2, <1>3, <1>4, <1>5, Steps

LEMMA GateInvariant ==
  ASSUME Gate!PresenceInv, [Next]_vars PROVE Gate!PresenceInv'
<1>1. CASE [Gate!Next]_(Gate!vars)
  BY <1>1, GateConstants, Gate!PresenceStep
<1>2. CASE NewProcess
  BY <1>2, GateConstants
  DEF NewProcess, Gate!PresenceInv, Gate!TypeOK, Gate!OnePromptAtATime, Gate!Live,
      Gate!WaitsForOwnOperation, Gate!AnswerKnown, Gate!OkHasNoPrompt,
      Gate!Phases, Gate!Answers, Gate!Outcomes
<1> QED BY <1>1, <1>2, GateSteps

-----------------------------------------------------------------------------
(* Confirmations                                                           *)

\* A confirmation on its way to the command, or with it, is noted.
GrantInv ==
  /\ \A r \in Requests :
       phase[r] = "sending" /\ answer[r] = "confirmed" => params[r] \in granted
  /\ stage # "idle" /\ outcome = "ok" => wanted \in granted
  /\ granted \subseteq Params

\* A command ends with or without the confirmation it has, and only a command
\* that waits has one.
LEMMA InsideEnds ==
  ASSUME Inside
  PROVE  /\ stage' = "idle"
         /\ \/ UNCHANGED granted
            \/ stage # "idle" /\ outcome = "ok" /\ granted' = granted \ {wanted}
<1>1. CASE Refused \/ RegisterFails \/ \E q \in Registrations : MakeCredential(q)
  BY <1>1 DEF Refused, RegisterFails, MakeCredential, Confirmed, Respond
<1>2. ASSUME NEW ext \in Extensions, GetAssertion(ext)
      PROVE  stage' = "idle" /\ stage # "idle" /\ outcome = "ok" /\ granted' = granted \ {wanted}
  BY <1>2 DEF GetAssertion, BuildResponse, Confirmed, Respond
<1>3. CASE GetNextAssertion
  BY <1>3 DEF GetNextAssertion, NextOf, EndOf, BuildResponse, Respond
<1>4. CASE GetKeyAgreement \/ BadHash \/ \E s \in Immediate : Answer(s)
  BY <1>4 DEF GetKeyAgreement, BadHash, Answer, Respond
<1>5. ASSUME NEW p \in Params, NEW l \in Lists, ExcludeHit(p, l) \/ NoCredentials(p, l)
      PROVE  stage' = "idle" /\ UNCHANGED granted
  BY <1>5 DEF ExcludeHit, NoCredentials, Respond
<1> QED BY <1>1, <1>2, <1>3, <1>4, <1>5 DEF Inside, CommandStep

LEMMA GrantInit == ASSUME Init PROVE GrantInv
  BY DEF Init, UP!Init, GrantInv

LEMMA GrantStep ==
  ASSUME Gate!PresenceInv, GrantInv, [Next]_vars PROVE GrantInv'
<1> USE DEF GrantInv
<1>1. /\ \A r \in Requests : phase[r] \in {"prompting", "sending"} => activeRequest = r
      /\ outcome = "ok" => \A r \in Requests : phase[r] \notin {"prompting", "sending"}
      /\ waiting # None => params[waiting] = wanted
      /\ phase \in [Requests -> UP!Phases] /\ answer \in [Requests -> UP!Answers]
      /\ params \in [Requests -> Params]
  BY DEF Gate!PresenceInv, Gate!OnePromptAtATime, Gate!Live, Gate!OkHasNoPrompt,
     Gate!WaitsForOwnOperation, Gate!TypeOK, Gate!Phases, Gate!Answers, UP!Phases, UP!Answers
<1>2. ASSUME NEW p \in Params, NEW l \in Lists, AskMake(p, l) \/ AskGet(p, l)
      PROVE  GrantInv'
  <2>1. granted' = granted
    BY <1>2, AsksOfCommands DEF Asks
  <2>2. PICK q \in Params : UP!ConfirmPresence(q, PromptTimeout)
    BY <1>2, AsksOfCommands DEF Asks, AskPresence
  <2>3. CASE UP!Refuse(q) \/ UP!Join(q, PromptTimeout)
    BY <2>1, <2>3 DEF UP!Refuse, UP!Join, UP!reqVars
  <2>4. CASE UP!Start(q, PromptTimeout)
    BY <1>1, <2>1, <2>4 DEF UP!Start
  <2> QED BY <2>2, <2>3, <2>4 DEF UP!ConfirmPresence
<1>3. CASE Inside
  <2>1. /\ UNCHANGED <<phase, answer, params, outcome, wanted>> /\ stage' = "idle"
        /\ \/ UNCHANGED granted
           \/ outcome = "ok" /\ granted' = granted \ {wanted}
    BY <1>3, InsideLeavesGate, InsideEnds DEF upVars
  <2> QED BY <1>1, <2>1
<1>4. ASSUME NEW r \in Requests, NEW a \in UP!Answers \ {"none"}, PromptEnds(r, a)
      PROVE  GrantInv'
  BY <1>1, <1>4 DEF PromptEnds, UP!EndPrompt, UP!clientVars
<1>5. ASSUME NEW r \in Requests, ResultDropped(r) PROVE GrantInv'
  BY <1>1, <1>5 DEF ResultDropped, UP!GiveUp, UP!clientVars
<1>6. CASE GateStep
  <2>1. stage' = stage /\ granted' = granted
    BY <1>6 DEF GateStep
  <2>2. CASE UP!ClientTimeout
    BY <2>1, <2>2 DEF UP!ClientTimeout, UP!reqVars
  <2>3. CASE UP!Tick
    BY <2>1, <2>3 DEF UP!Tick
  <2>4. ASSUME NEW r \in Requests, UP!Deliver(r) PROVE GrantInv'
    <3>1. outcome' = "ok" => answer[r] = "confirmed"
      BY <2>4 DEF UP!Deliver, UP!OutcomeOf
    <3>2. params[r] = wanted
      BY <1>1, <2>4, GateConstants DEF UP!Deliver
    <3> QED BY <1>1, <2>1, <2>4, <3>1, <3>2 DEF UP!Deliver
  <2>5. ASSUME NEW r \in Requests, UP!ClearActive(r) PROVE GrantInv'
    BY <1>1, <2>1, <2>5 DEF UP!ClearActive, UP!clientVars
  <2> QED BY <1>6, <2>2, <2>3, <2>4, <2>5 DEF GateStep
<1>7. CASE UNCHANGED vars
  BY <1>7 DEF vars, upVars
<1>8. CASE NewProcess
  BY <1>8 DEF NewProcess
<1> QED BY <1>2, <1>3, <1>4, <1>5, <1>6, <1>7, <1>8, Steps

-----------------------------------------------------------------------------
(* Keys and lists                                                          *)

\* Keys are never taken back, both lists name keys of their own accounts, and
\* a registration under way finds a key pair.
StockInv ==
  /\ ChipKeepsHandles
  /\ keys \in [Ids -> [rp : RPs, user : Users] \cup {None}]
  /\ lost \subseteq Ids
  /\ credentials \in Seq(Credential) /\ Distinct(credentials)
  /\ durable \in Seq(Credential) /\ Distinct(durable)
  /\ \A c \in Entries(credentials) \cup Entries(durable) :
       keys[c.id] = [rp |-> c.rp, user |-> c.user]
  /\ stage = "make" => Made # Ids

LEMMA EmptyList ==
  <<>> \in Seq(Credential) /\ Distinct(<<>>) /\ Entries(<<>>) = {}
  BY DEF Distinct, Entries

LEMMA StockInit == ASSUME Init PROVE StockInv
  BY EmptyList DEF Init, StockInv, ChipKeepsHandles

\* Only registrations and the end of the process change keys and lists.
LEMMA StockSteps ==
  ASSUME [Next]_vars
  PROVE  \/ \E q \in Registrations : MakeCredential(q)
         \/ NewProcess
         \/ /\ UNCHANGED <<signerVars, listVars>>
            /\ stage' = "make" => Made # Ids \/ stage = "make"
<1>1. ASSUME NEW p \in Params, NEW l \in Lists, AskMake(p, l) \/ AskGet(p, l)
      PROVE  /\ UNCHANGED <<signerVars, listVars>>
             /\ stage' = "make" => Made # Ids
  <2>1. UNCHANGED <<signerVars, listVars>>
    BY <1>1, AsksOfCommands DEF Asks
  <2>2. AskGet(p, l) => stage' # "make"
    BY DEF AskGet, AskPresence, Respond
  <2> QED BY <1>1, <2>1, <2>2 DEF AskMake
<1>2. CASE Inside
  <2>1. stage' # "make"
    BY <1>2, InsideEnds
  <2>2. CASE Refused \/ RegisterFails \/ GetNextAssertion \/ GetKeyAgreement \/ BadHash
    BY <2>1, <2>2 DEF Refused, RegisterFails, GetNextAssertion, GetKeyAgreement, BadHash
  <2>3. CASE \E ext \in Extensions : GetAssertion(ext)
    BY <2>1, <2>3 DEF GetAssertion
  <2>4. CASE \/ \E t \in Immediate : Answer(t)
             \/ \E p \in Params, l \in Lists : ExcludeHit(p, l) \/ NoCredentials(p, l)
    BY <2>1, <2>4 DEF Answer, ExcludeHit, NoCredentials
  <2> QED BY <1>2, <2>2, <2>3, <2>4 DEF Inside, CommandStep
<1>3. CASE \E r \in Requests, a \in UP!Answers \ {"none"} : PromptEnds(r, a)
  BY <1>3 DEF PromptEnds
<1>4. CASE GateStep \/ \E r \in Requests : ResultDropped(r)
  BY <1>4 DEF GateStep, ResultDropped
<1>5. CASE UNCHANGED vars
  BY <1>5 DEF vars
<1> QED BY <1>1, <1>2, <1>3, <1>4, <1>5, Steps

\* The key pair a registration draws, and what it leaves of the others.
LEMMA NewKey ==
  ASSUME StockInv, NEW q \in Registrations, MakeCredential(q)
  PROVE  \E id \in Ids \ Made :
           LET new == [rp |-> q.rp, user |-> q.user, id |-> id]
           IN  /\ new \in Credential
               /\ keys' = [keys EXCEPT ![id] = [rp |-> q.rp, user |-> q.user]]
               /\ credentials' \in {credentials, Stored(credentials, new)}
               /\ durable' \in {durable, credentials'}
<1> DEFINE id == CHOOSE i \in Ids \ Made : TRUE
           new == [rp |-> q.rp, user |-> q.user, id |-> id]
<1>1. id \in Ids \ Made
  BY DEF MakeCredential, Confirmed, StockInv, Made
<1>2. q.rp \in RPs /\ q.user \in Users
  BY CtapAssumption
<1>3. /\ keys' = [keys EXCEPT ![id] = [rp |-> q.rp, user |-> q.user]]
      /\ credentials' \in {credentials, Stored(credentials, new)}
      /\ durable' \in {durable, credentials'}
  BY DEF MakeCredential
<1> HIDE DEF id
<1> QED BY <1>1, <1>2, <1>3 DEF Credential

LEMMA StockStep ==
  ASSUME StockInv, [Next]_vars PROVE StockInv'
<1>1. ASSUME NEW q \in Registrations, MakeCredential(q) PROVE StockInv'
  <2>1. PICK id \in Ids \ Made :
          LET new == [rp |-> q.rp, user |-> q.user, id |-> id]
          IN  /\ new \in Credential
              /\ keys' = [keys EXCEPT ![id] = [rp |-> q.rp, user |-> q.user]]
              /\ credentials' \in {credentials, Stored(credentials, new)}
              /\ durable' \in {durable, credentials'}
    BY <1>1, NewKey
  <2> DEFINE new == [rp |-> q.rp, user |-> q.user, id |-> id]
  <2>2. new.rp = q.rp /\ new.user = q.user /\ new.id = id /\ keys[id] = None
    BY DEF Made
  <2>3. new \in Credential /\ [rp |-> q.rp, user |-> q.user] \in [rp : RPs, user : Users]
    BY <2>1, CtapAssumption
  <2>4. \A c \in Entries(credentials) \cup Entries(durable) : c.id \in Ids /\ c.id # id
    <3> SUFFICES ASSUME NEW c \in Entries(credentials) \cup Entries(durable)
                 PROVE  c.id \in Ids /\ c.id # id
      OBVIOUS
    <3>1. c \in Credential
      BY DEF StockInv, Entries
    <3>2. [rp |-> c.rp, user |-> c.user] \in [rp : RPs, user : Users] /\ c.id \in Ids
      BY <3>1 DEF Credential
    <3>3. keys[c.id] # None
      BY <3>2, SignersAssumption DEF StockInv
    <3> QED BY <2>2, <3>2, <3>3
  <2>5. \A i \in DOMAIN credentials : credentials[i].id # new.id
    BY <2>2, <2>4 DEF Entries
  <2>6. /\ Stored(credentials, new) \in Seq(Credential) /\ Distinct(Stored(credentials, new))
        /\ Entries(Stored(credentials, new)) \subseteq Entries(credentials) \cup {new}
    BY <2>3, <2>5, StoredDistinct, StoredEntries DEF StockInv
  <2>7. /\ keys' \in [Ids -> [rp : RPs, user : Users] \cup {None}]
        /\ keys'[id] = [rp |-> q.rp, user |-> q.user]
        /\ \A i \in Ids \ {id} : keys'[i] = keys[i]
    BY <2>1, <2>3 DEF StockInv
  <2>8. /\ credentials' \in {credentials, Stored(credentials, new)}
        /\ durable' \in {durable, credentials'}
    BY <2>1
  <2>9. UNCHANGED <<backend, lost>> /\ stage' = "idle"
    BY <1>1 DEF MakeCredential, Respond
  <2> HIDE DEF new
  <2>10. \A c \in Entries(credentials') \cup Entries(durable') :
            c = new \/ c \in Entries(credentials) \cup Entries(durable)
    BY <2>6, <2>8
  <2>11. \A c \in Entries(credentials') \cup Entries(durable') :
            keys'[c.id] = [rp |-> c.rp, user |-> c.user]
    BY <2>2, <2>4, <2>7, <2>10 DEF StockInv
  <2>12. /\ credentials' \in Seq(Credential) /\ Distinct(credentials')
         /\ durable' \in Seq(Credential) /\ Distinct(durable')
    BY <2>6, <2>8 DEF StockInv
  <2> QED BY <2>7, <2>9, <2>11, <2>12 DEF StockInv, ChipKeepsHandles
<1>2. CASE NewProcess
  BY <1>2 DEF NewProcess, ClearState, NewSeries, StockInv, ChipKeepsHandles, HandlesLost, Made
<1>3. CASE UNCHANGED <<signerVars, listVars>> /\ (stage' = "make" => Made # Ids \/ stage = "make")
  BY <1>3 DEF signerVars, listVars, StockInv, ChipKeepsHandles, Made
<1> QED BY <1>1, <1>2, <1>3, StockSteps

\* In every behaviour, whatever bytes a platform puts into a list sign exactly
\* if they are a handle of this signer for the relying party
\* (getassertion.go 42, makecredential.go 46).
THEOREM HandlesAreExact == Spec => []HandlesExact
<1>1. Init => StockInv BY StockInit
<1>2. StockInv /\ [Next]_vars => StockInv' BY StockStep
<1>3. StockInv => HandlesExact
  <2> SUFFICES ASSUME StockInv PROVE HandlesExact
    OBVIOUS
  <2>1. \A h \in ListedHandles \cup {Handle(id) : id \in Ids} : h \in Seq(Byte)
    BY HandleBytes, CtapAssumption DEF ListedHandles
  <2> QED BY <2>1, SignsExactlyOwnHandles DEF HandlesExact, StockInv
<1> QED BY <1>1, <1>2, <1>3, PTL DEF Spec

-----------------------------------------------------------------------------
(* The credentials of a series                                             *)

\* A candidate with the handle of a key that has been made, and with no other
\* user than that key's.
Own(c) ==
  \E id \in Made : c.handle = Handle(id) /\ c.user \in {None, keys[id].user}

OwnSeries(s) ==
  /\ s \in Seq(Candidate)
  /\ \A i \in DOMAIN s : Own(s[i])
  /\ \A i, j \in DOMAIN s : s[i].handle = s[j].handle => i = j

LEMMA NoSeries == OwnSeries(<<>>)
  BY DEF OwnSeries

\* The candidates of a command are well formed, and those that sign are keys
\* that have been made.
LEMMA CandidatesOwn ==
  ASSUME StockInv, NEW p \in Params, NEW l \in Lists
  PROVE  LET s == Candidates(l, p.rp)
         IN  \A i \in DOMAIN s :
               s[i] \in Candidate /\ (SignASN1(s[i].handle, p.rp) => Own(s[i]))
<1> DEFINE s == Candidates(l, p.rp)
<1> SUFFICES ASSUME NEW i \in DOMAIN s
             PROVE  s[i] \in Candidate /\ (SignASN1(s[i].handle, p.rp) => Own(s[i]))
  OBVIOUS
<1>1. CASE l # <<>>
  <2>1. i \in DOMAIN l /\ s[i] = [handle |-> l[i], user |-> None]
    BY <1>1 DEF Candidates
  <2>2. l[i] \in Seq(Byte)
    BY <2>1, CtapAssumption
  <2>3. SignsExactly(l[i], p.rp)
    BY <2>2, SignsExactlyOwnHandles DEF StockInv, Params
  <2> HIDE DEF s
  <2> QED BY <2>1, <2>2, <2>3 DEF SignsExactly, Usable, Own, Candidate
<1>2. CASE l = <<>>
  <2> DEFINE c == credentials[i]
  <2>1. i \in DOMAIN credentials /\ s[i] = [handle |-> Handle(c.id), user |-> c.user]
    BY <1>2 DEF Candidates, GetByRPID
  <2>2. c \in Entries(credentials) /\ c \in Credential
    BY <2>1 DEF Entries, StockInv
  <2>3. c.id \in Ids /\ c.user \in Users /\ c.rp \in RPs
    BY <2>2 DEF Credential
  <2>4. keys[c.id] = [rp |-> c.rp, user |-> c.user]
    BY <2>2 DEF StockInv
  <2>5. c.id \in Made
    BY <2>3, <2>4, SignersAssumption DEF Made
  <2>6. Handle(c.id) \in Seq(Byte)
    BY <2>3, HandleBytes
  <2> HIDE DEF s, c
  <2> QED BY <2>1, <2>3, <2>4, <2>5, <2>6 DEF Own, Candidate
<1> QED BY <1>1, <1>2

\* The stored credentials have handles of their own.
LEMMA StoredHandlesDiffer ==
  ASSUME StockInv, NEW i \in DOMAIN credentials, NEW j \in DOMAIN credentials,
         Handle(credentials[i].id) = Handle(credentials[j].id)
  PROVE  i = j
<1>1. credentials[i].id \in Ids /\ credentials[j].id \in Ids
  <2>1. credentials[i] \in Credential /\ credentials[j] \in Credential
    BY DEF StockInv
  <2> QED BY <2>1 DEF Credential
<1>2. credentials[i].id = credentials[j].id
  BY <1>1, HandlesDiffer
<1> QED BY <1>2 DEF StockInv, Distinct

\* What GetAssertion announces are credentials of its own, each one once.
LEMMA MatchesOwn ==
  ASSUME StockInv, NEW p \in Params, NEW l \in Lists, NEW m \in Matches(l, p.rp)
  PROVE  OwnSeries(m)
<1> DEFINE s == Candidates(l, p.rp)
           good == {i \in DOMAIN s : SignASN1(s[i].handle, p.rp)}
           Taken(P) == IF l # <<>> THEN {i \in P : \A j \in P : i <= j} ELSE P
<1>1. PICK P \in SUBSET good : \E f \in InOrder(Taken(P)) :
         m = [k \in DOMAIN f |-> s[f[k]]]
  <2> DEFINE Q == IF SignerMayFail THEN SUBSET good ELSE {good}
  <2>1. m \in {[k \in DOMAIN f |-> s[f[k]]] :
                 f \in UNION {InOrder(Taken(P)) : P \in Q}}
    BY DEF Matches
  <2>2. Q \subseteq SUBSET good
    OBVIOUS
  <2> HIDE DEF s, good, Taken, Q
  <2>3. PICK f \in UNION {InOrder(Taken(P)) : P \in Q} : m = [k \in DOMAIN f |-> s[f[k]]]
    BY <2>1
  <2>4. PICK P \in Q : f \in InOrder(Taken(P))
    BY <2>3
  <2> QED BY <2>2, <2>3, <2>4
<1> DEFINE T == Taken(P)
<1>0. PICK f \in InOrder(T) : m = [k \in DOMAIN f |-> s[f[k]]]
  BY <1>1
<1>2. T \subseteq good
  BY <1>1
<1>3. PICK n \in Nat : DOMAIN s \subseteq 1 .. n
  <2>1. l \in Seq(Seq(Byte)) /\ credentials \in Seq(Credential)
    BY CtapAssumption DEF StockInv
  <2>2. DOMAIN s \subseteq 1 .. Len(l) \/ DOMAIN s \subseteq 1 .. Len(credentials)
    BY <2>1 DEF Candidates, GetByRPID
  <2> HIDE DEF s
  <2> QED BY <2>1, <2>2
<1>4. T \in SUBSET (1 .. n)
  BY <1>2, <1>3
<1>5. \A a, b \in T : s[a].handle = s[b].handle => a = b
  <2>1. CASE l # <<>>
    <3>1. \A a, b \in T : a <= b /\ b <= a
      BY <2>1
    <3> HIDE DEF T
    <3> QED BY <1>4, <3>1
  <2>2. CASE l = <<>>
    <3>1. \A a \in T : a \in DOMAIN credentials /\ s[a].handle = Handle(credentials[a].id)
      BY <1>2, <2>2 DEF Candidates, GetByRPID
    <3> HIDE DEF T, s
    <3> QED BY <3>1, StoredHandlesDiffer
  <2> QED BY <2>1, <2>2
<1>6. \A a \in T : s[a] \in Candidate /\ Own(s[a])
  <2>1. \A a \in DOMAIN s : s[a] \in Candidate /\ (SignASN1(s[a].handle, p.rp) => Own(s[a]))
    BY CandidatesOwn
  <2> HIDE DEF T, s
  <2> QED BY <1>2, <2>1
<1> HIDE DEF T, s
<1>7. Cardinality(T) \in Nat
  <2>1. IsFiniteSet(1 .. n)
    BY FS_Interval
  <2> QED BY <1>4, <2>1, FS_Subset, FS_CardinalityType
<1>8. f \in [1 .. Cardinality(T) -> T] /\ \A i, j \in DOMAIN f : i < j => f[i] < f[j]
  BY <1>0 DEF InOrder
<1>9. \A i, j \in DOMAIN f : f[i] = f[j] => i = j
  <2> SUFFICES ASSUME NEW i \in DOMAIN f, NEW j \in DOMAIN f, f[i] = f[j] PROVE i = j
    OBVIOUS
  <2>1. i \in Int /\ j \in Int /\ f[i] \in T /\ f[j] \in T
    BY <1>7, <1>8
  <2>2. \A a \in T : a \in Int
    BY <1>4
  <2>3. ~(f[i] < f[j]) /\ ~(f[j] < f[i])
    BY <2>1, <2>2
  <2> QED BY <1>8, <2>1, <2>3
<1>10. \A k \in DOMAIN f : f[k] \in T
  BY <1>8
<1>11. DOMAIN m = DOMAIN f /\ DOMAIN f = 1 .. Cardinality(T) /\ \A k \in DOMAIN f : m[k] = s[f[k]]
  BY <1>0, <1>8
<1>12. m \in Seq(Candidate)
  <2>1. m = [k \in 1 .. Cardinality(T) |-> s[f[k]]]
    BY <1>0, <1>11
  <2>2. m \in [1 .. Cardinality(T) -> Candidate]
    BY <1>6, <1>10, <1>11, <2>1
  <2> QED BY <1>7, <2>2
<1> QED BY <1>5, <1>6, <1>9, <1>10, <1>11, <1>12 DEF OwnSeries

-----------------------------------------------------------------------------
(* One response                                                            *)

\* Any key that has been made answers hmac-secret.
LEMMA OwnDerives == ASSUME NEW c, Own(c) PROVE Derives(c.handle)
<1>1. PICK id \in Ids : c.handle = Handle(id)
  BY DEF Own, Made
<1>2. CASE backend = "tpm"
  <2>1. c.handle = TPMHandle[id]
    BY <1>1, <1>2 DEF Handle
  <2> QED BY <2>1, TPMHandleReads DEF Derives
<1> QED BY <1>2 DEF Derives

\* An assertion with the credential is its own.
LEMMA OwnAssertion ==
  ASSUME StockInv, NEW c \in Candidate, Own(c), NEW p \in Params,
         SignASN1(c.handle, p.rp)
  PROVE  \E id \in Ids : /\ c.handle = Handle(id) /\ Usable(id, p.rp)
                         /\ c.user \in {None, keys[id].user}
<1>1. c.handle \in Seq(Byte) /\ p.rp \in RPs
  BY DEF Candidate, Params
<1>2. SignsExactly(c.handle, p.rp)
  BY <1>1, SignsExactlyOwnHandles DEF StockInv
<1>3. PICK id \in Ids : c.handle = Handle(id) /\ Usable(id, p.rp)
  BY <1>2 DEF SignsExactly
<1>4. PICK k \in Made : c.handle = Handle(k) /\ c.user \in {None, keys[k].user}
  BY DEF Own
<1>5. k = id
  BY <1>3, <1>4, HandlesDiffer DEF Made
<1> QED BY <1>3, <1>4, <1>5

-----------------------------------------------------------------------------
(* Steps, as far as series and responses go                                *)

\* Neither an assertion nor a status the properties are about.
Plain(r) ==
  r.params = None /\ r.status \in Statuses \ {"ExtensionFirst", "NotAllowed"}

LEMMA PlainStatus ==
  /\ Plain(NoResponse)
  /\ \A s \in Statuses \ {"ExtensionFirst", "NotAllowed"} : Plain(Status(s))
  BY DEF Plain, NoResponse, Status, Statuses

\* The end of a series without an assertion.
Ends ==
  /\ ClearState /\ NewSeries
  /\ matched' \in {matched, <<>>}
  /\ stage' = "idle"
  /\ Plain(response')

\* A step that leaves the series as it is.
Passes ==
  /\ UNCHANGED <<assertionState, covered, tried>>
  /\ matched' \in {matched, <<>>}
  /\ stage' \in {stage, "idle", "make"}
  /\ stage' = "get" => matched' = matched
  /\ (response' = response /\ stage' = stage) \/ Plain(response')

LEMMA SeriesSteps ==
  ASSUME [Next]_vars
  PROVE  \/ \E ext \in Extensions : GetAssertion(ext)
         \/ GetNextAssertion
         \/ \E p \in Params, l \in Lists : AskGet(p, l)
         \/ Ends
         \/ Passes
<1> USE PlainStatus DEF seriesVars, Respond
<1>1. ASSUME NEW p \in Params, NEW l \in Lists, AskMake(p, l) PROVE Passes
  <2>1. /\ UNCHANGED seriesVars
        /\ response' \in {NoResponse, Status("OperationDenied")}
        /\ stage' \in {"idle", "make"}
    BY <1>1 DEF AskMake, AskPresence
  <2> QED BY <2>1 DEF Passes, Statuses
<1>2. ASSUME NEW p \in Params, NEW l \in Lists, ExcludeHit(p, l) PROVE Passes
  BY <1>2 DEF ExcludeHit, Passes, Statuses
<1>3. ASSUME NEW p \in Params, NEW l \in Lists, NoCredentials(p, l) PROVE Ends
  BY <1>3 DEF NoCredentials, Ends, Statuses
<1>4. ASSUME NEW s \in Immediate, Answer(s) PROVE Passes
  <2>1. s \in Statuses \ {"ExtensionFirst", "NotAllowed"}
    BY CtapAssumption DEF Statuses
  <2> QED BY <1>4, <2>1 DEF Answer, Passes
<1>5. CASE BadHash
  BY <1>5 DEF BadHash, Ends, Statuses
<1>6. CASE GetKeyAgreement
  BY <1>6 DEF GetKeyAgreement, Passes, Statuses
<1>7. CASE Refused
  BY <1>7 DEF Refused, Passes, Statuses
<1>8. CASE RegisterFails \/ \E q \in Registrations : MakeCredential(q)
  BY <1>8 DEF RegisterFails, MakeCredential, Passes, Statuses
<1>9. CASE \E r \in Requests, a \in UP!Answers \ {"none"} : PromptEnds(r, a)
  BY <1>9 DEF PromptEnds, Passes
<1>10. CASE GateStep \/ \E r \in Requests : ResultDropped(r)
  BY <1>10 DEF GateStep, ResultDropped, Passes
<1>11. CASE NewProcess
  BY <1>11 DEF NewProcess, Ends
<1>12. CASE UNCHANGED vars
  BY <1>12 DEF vars, Passes
<1> QED BY <1>1, <1>2, <1>3, <1>4, <1>5, <1>6, <1>7, <1>8, <1>9, <1>10, <1>11, <1>12, Steps
        DEF Inside, CommandStep

\* Keys that have been made stay what they are.
LEMMA KeysKept ==
  ASSUME StockInv, [Next]_vars
  PROVE  backend' = backend /\ \A id \in Made : id \in Made' /\ keys'[id] = keys[id]
<1>1. ASSUME NEW q \in Registrations, MakeCredential(q)
      PROVE  backend' = backend /\ \A id \in Made : id \in Made' /\ keys'[id] = keys[id]
  <2>1. PICK i \in Ids \ Made : keys' = [keys EXCEPT ![i] = [rp |-> q.rp, user |-> q.user]]
    BY <1>1, NewKey
  <2>2. \A id \in Made : id \in Ids /\ keys[id] # None /\ keys'[id] = keys[id]
    BY <2>1 DEF StockInv, Made
  <2>3. backend' = backend
    BY <1>1 DEF MakeCredential
  <2> QED BY <2>2, <2>3 DEF Made
<1>2. CASE NewProcess \/ UNCHANGED <<signerVars, listVars>>
  BY <1>2 DEF NewProcess, signerVars, Made
<1> QED BY <1>1, <1>2, StockSteps

LEMMA OwnSeriesKept ==
  ASSUME StockInv, [Next]_vars
  PROVE  \A s : OwnSeries(s) => OwnSeries(s)'
<1> SUFFICES ASSUME NEW s, OwnSeries(s) PROVE OwnSeries(s)'
  OBVIOUS
<1>1. \A i \in DOMAIN s : Own(s[i])'
  <2> SUFFICES ASSUME NEW i \in DOMAIN s PROVE Own(s[i])'
    OBVIOUS
  <2>1. PICK id \in Made : s[i].handle = Handle(id) /\ s[i].user \in {None, keys[id].user}
    BY DEF OwnSeries, Own
  <2>2. id \in Made' /\ keys'[id] = keys[id] /\ Handle(id)' = Handle(id)
    BY KeysKept DEF Handle
  <2> QED BY <2>1, <2>2 DEF Own
<1> QED BY <1>1 DEF OwnSeries

LEMMA MatchedKept ==
  ASSUME StockInv, [Next]_vars, OwnSeries(matched), matched' = matched
  PROVE  OwnSeries(matched)'
<1>1. PICK m : m = matched
  OBVIOUS
<1>2. OwnSeries(m) /\ m = matched'
  BY <1>1
<1>3. OwnSeries(m)'
  BY <1>2, OwnSeriesKept
<1> QED BY <1>2, <1>3

-----------------------------------------------------------------------------
(* The series                                                              *)

\* A series under way: its place, its operation, and what has been tried.
Running ==
  /\ assertionState \in [credentials : Seq(Candidate), index : Nat,
                         params : Params, ext : Extensions]
  /\ OwnSeries(assertionState.credentials)
  /\ assertionState.index < Len(assertionState.credentials)
  /\ covered = assertionState.params
  /\ tried = {assertionState.credentials[i].handle : i \in 1 .. assertionState.index + 1}

NotRunning == assertionState = NoState /\ covered = None

\* The credentials of a series are its own and differ, those tried are the
\* ones up to its place, and a command that waits has dropped the last one.
SeriesInv ==
  /\ OwnSeries(matched)
  /\ stage \in {"idle", "make", "get"}
  /\ tried \subseteq Seq(Byte)
  /\ stage = "get" => matched # <<>> /\ NotRunning /\ tried = {}
  /\ Running \/ NotRunning

LEMMA SeriesInit == ASSUME Init PROVE SeriesInv
  BY NoSeries DEF Init, SeriesInv, NotRunning

\* A series that is left alone.
LEMMA RunningKept ==
  ASSUME StockInv, [Next]_vars, Running,
         UNCHANGED <<assertionState, covered, tried>>
  PROVE  Running'
<1>1. PICK s : s = assertionState.credentials
  OBVIOUS
<1>2. OwnSeries(s) /\ s = assertionState'.credentials
  BY <1>1 DEF Running
<1>3. OwnSeries(s)'
  BY <1>2, OwnSeriesKept
<1>4. OwnSeries(assertionState.credentials)'
  BY <1>2, <1>3
<1> QED BY <1>4 DEF Running

\* The first response of a series.
LEMMA SeriesStart ==
  ASSUME Gate!PresenceInv, StockInv, SeriesInv, [Next]_vars,
         NEW ext \in Extensions, GetAssertion(ext)
  PROVE  /\ SeriesInv'
         /\ matched[1] \in Candidate /\ Own(matched[1])
         /\ BuildResponse(matched[1], wanted, ext)
<1>1. /\ stage = "get" /\ wanted \in Params
      /\ BuildResponse(matched[1], wanted, ext) /\ StartSeries(ext) /\ matched' = <<>>
  BY DEF GetAssertion, Confirmed, Gate!PresenceInv, Gate!TypeOK
<1>2. OwnSeries(matched) /\ matched # <<>> /\ NotRunning /\ tried = {}
  BY <1>1 DEF SeriesInv
<1>3. Len(matched) \in Nat /\ Len(matched) >= 1 /\ matched \in Seq(Candidate)
  BY <1>2, EmptySeq DEF OwnSeries
<1>4. matched[1] \in Candidate /\ Own(matched[1])
  BY <1>2, <1>3 DEF OwnSeries
<1>5. stage' = "idle" /\ tried' = {matched[1].handle}
  BY <1>1, <1>2 DEF BuildResponse, Respond
<1>6. matched[1].handle \in Seq(Byte)
  BY <1>4 DEF Candidate
<1>7. Running' \/ NotRunning'
  <2>1. CASE Len(matched) > 1
    <3>1. /\ assertionState' = [credentials |-> matched, index |-> 0,
                                params |-> wanted, ext |-> ext]
          /\ covered' = wanted
      BY <1>1, <2>1 DEF StartSeries
    <3>2. PICK s : s = matched
      OBVIOUS
    <3>3. OwnSeries(s)' /\ assertionState'.credentials = s
      BY <1>2, <3>1, <3>2, OwnSeriesKept
    <3>4. OwnSeries(assertionState.credentials)'
      BY <3>3
    <3>5. {assertionState'.credentials[i].handle : i \in 1 .. assertionState'.index + 1}
            = {matched[1].handle}
      BY <3>1
    <3>6. /\ assertionState' \in [credentials : Seq(Candidate), index : Nat,
                                  params : Params, ext : Extensions]
          /\ assertionState'.index < Len(assertionState'.credentials)
          /\ covered' = assertionState'.params
      BY <1>1, <1>3, <2>1, <3>1
    <3> QED BY <1>5, <3>4, <3>5, <3>6 DEF Running
  <2>2. CASE ~(Len(matched) > 1)
    BY <1>1, <1>2, <2>2 DEF StartSeries, NotRunning
  <2> QED BY <2>1, <2>2
<1>8. OwnSeries(matched)'
  BY <1>1, NoSeries, OwnSeriesKept
<1> QED BY <1>1, <1>4, <1>5, <1>6, <1>7, <1>8 DEF SeriesInv

\* The next response of a series.
LEMMA SeriesNext ==
  ASSUME StockInv, SeriesInv, [Next]_vars, GetNextAssertion, NextOf
  PROVE  LET c == CredentialAt(assertionState.index + 1)
         IN  /\ SeriesInv'
             /\ Running
             /\ assertionState'.index = assertionState.index + 1
             /\ c \in Candidate /\ Own(c) /\ c.handle \notin tried
             /\ BuildResponse(c, assertionState.params, assertionState.ext)
<1> DEFINE a == assertionState
           c == CredentialAt(a.index + 1)
<1>1. /\ a.index + 1 < Len(a.credentials)
      /\ a' = [a EXCEPT !.index = @ + 1]
      /\ BuildResponse(c, a.params, a.ext)
      /\ UNCHANGED covered
      /\ matched' = matched
  BY DEF NextOf, GetNextAssertion
<1>2. Running
  <2>1. ~NotRunning
    BY <1>1 DEF NotRunning, NoState
  <2> QED BY <2>1 DEF SeriesInv
<1>3. /\ a \in [credentials : Seq(Candidate), index : Nat,
                params : Params, ext : Extensions]
      /\ OwnSeries(a.credentials)
      /\ tried = {a.credentials[i].handle : i \in 1 .. a.index + 1}
  BY <1>2 DEF Running
<1>4. a.index \in Nat /\ a.credentials \in Seq(Candidate) /\ a.index + 2 \in DOMAIN a.credentials
  BY <1>1, <1>3
<1>5. c = a.credentials[a.index + 2]
  BY <1>4 DEF CredentialAt
<1>6. c \in Candidate /\ Own(c)
  BY <1>3, <1>4, <1>5 DEF OwnSeries
<1>7. c.handle \notin tried
  <2>1. ASSUME NEW i \in 1 .. a.index + 1, a.credentials[i].handle = c.handle
        PROVE  FALSE
    <3>1. i \in DOMAIN a.credentials
      BY <1>1, <1>4
    <3>2. i = a.index + 2
      BY <1>3, <1>4, <1>5, <2>1, <3>1 DEF OwnSeries
    <3> QED BY <1>4, <3>2
  <2> QED BY <1>3, <2>1
<1>8. stage' = "idle" /\ tried' = tried \cup {c.handle}
  BY <1>1 DEF BuildResponse, Respond
<1>9. /\ a'.index = a.index + 1 /\ a'.credentials = a.credentials
      /\ a'.params = a.params /\ a'.ext = a.ext
      /\ a' \in [credentials : Seq(Candidate), index : Nat,
                 params : Params, ext : Extensions]
  BY <1>1, <1>3, <1>4
<1>10. OwnSeries(a.credentials)'
  <2>1. PICK s : s = a.credentials
    OBVIOUS
  <2>2. OwnSeries(s)' /\ s = a'.credentials
    BY <1>3, <1>9, <2>1, OwnSeriesKept
  <2> QED BY <2>2
<1>11. tried' = {a'.credentials[i].handle : i \in 1 .. a'.index + 1}
  <2>1. 1 .. a'.index + 1 = (1 .. a.index + 1) \cup {a.index + 2}
    BY <1>4, <1>9
  <2>2. {a.credentials[i].handle : i \in (1 .. a.index + 1) \cup {a.index + 2}}
          = tried \cup {c.handle}
    BY <1>3, <1>5
  <2> QED BY <1>8, <1>9, <2>1, <2>2
<1>12. Running'
  BY <1>1, <1>2, <1>9, <1>10, <1>11 DEF Running
<1>13. OwnSeries(matched)' /\ c.handle \in Seq(Byte)
  BY <1>1, <1>6, MatchedKept DEF SeriesInv, Candidate
<1>14. SeriesInv'
  BY <1>8, <1>12, <1>13 DEF SeriesInv
<1> QED BY <1>1, <1>2, <1>6, <1>7, <1>9, <1>14

LEMMA SeriesStep ==
  ASSUME Gate!PresenceInv, StockInv, SeriesInv, [Next]_vars PROVE SeriesInv'
<1>1. CASE \E ext \in Extensions : GetAssertion(ext)
  BY <1>1, SeriesStart
<1>2. CASE GetNextAssertion
  <2>1. CASE NextOf
    BY <1>2, <2>1, SeriesNext
  <2>2. CASE EndOf
    <3>1. /\ assertionState' = NoState /\ covered' = None /\ tried' = {}
          /\ matched' = matched /\ stage' = "idle"
      BY <1>2, <2>2 DEF GetNextAssertion, EndOf, ClearState, NewSeries, Respond
    <3>2. OwnSeries(matched)'
      BY <3>1, MatchedKept DEF SeriesInv
    <3> QED BY <3>1, <3>2 DEF SeriesInv, NotRunning
  <2> QED BY <1>2, <2>1, <2>2 DEF GetNextAssertion
<1>3. ASSUME NEW p \in Params, NEW l \in Lists, AskGet(p, l) PROVE SeriesInv'
  <2>1. PICK m \in Matches(l, p.rp) \ {<<>>} : matched' = <<>> \/ matched' = m
    BY <1>3 DEF AskGet
  <2>2. OwnSeries(matched)'
    BY <2>1, NoSeries, MatchesOwn, OwnSeriesKept
  <2>3. NotRunning' /\ tried' = {}
    BY <1>3 DEF AskGet, ClearState, NewSeries, NotRunning
  <2>4. stage' = "idle" \/ (stage' = "get" /\ matched' # <<>>)
    BY <1>3 DEF AskGet, AskPresence, Respond
  <2> QED BY <2>2, <2>3, <2>4 DEF SeriesInv
<1>4. CASE Ends
  <2>1. OwnSeries(matched)'
    BY <1>4, NoSeries, OwnSeriesKept, MatchedKept DEF Ends, SeriesInv
  <2> QED BY <1>4, <2>1 DEF Ends, ClearState, NewSeries, SeriesInv, NotRunning
<1>5. CASE Passes
  <2>1. OwnSeries(matched)'
    BY <1>5, NoSeries, OwnSeriesKept, MatchedKept DEF Passes, SeriesInv
  <2>2. Running' \/ NotRunning'
    BY <1>5, RunningKept DEF Passes, SeriesInv, NotRunning
  <2>3. stage' = "get" => stage = "get" /\ matched' = matched
    BY <1>5 DEF Passes
  <2>4. stage = "get" => NotRunning'
    BY <1>5 DEF Passes, SeriesInv, NotRunning
  <2> QED BY <1>5, <2>1, <2>2, <2>3, <2>4 DEF Passes, SeriesInv
<1> QED BY <1>1, <1>2, <1>3, <1>4, <1>5, SeriesSteps

-----------------------------------------------------------------------------
(* The responses                                                           *)

\* The responses are what they should be, and the one key that has been
\* announced is the handler's.
ReplyInv ==
  /\ AssertionIsOwn
  /\ AnnouncedKeyWorks
  /\ response.status \in Statuses
  /\ ecdhKey \in AgreementKeys \cup {None}
  /\ \A k \in announced : k = ecdhKey /\ k # None

LEMMA PlainReply ==
  ASSUME Plain(response')
  PROVE  AssertionIsOwn' /\ AnnouncedKeyWorks' /\ response'.status \in Statuses
  BY DEF Plain, AssertionIsOwn, AnnouncedKeyWorks

LEMMA ReplyInit == ASSUME Init PROVE ReplyInv
  BY PlainStatus DEF Init, ReplyInv, Plain, AssertionIsOwn, AnnouncedKeyWorks

\* An assertion, a refused extension, or an error of the signer.
LEMMA Built ==
  ASSUME StockInv, ReplyInv, NEW c \in Candidate, Own(c), NEW p \in Params,
         NEW ext \in Extensions, BuildResponse(c, p, ext),
         UNCHANGED <<signerVars, agreementVars>>
  PROVE  /\ AssertionIsOwn' /\ AnnouncedKeyWorks'
         /\ response'.status \in Statuses \ {"NotAllowed"}
         /\ response'.params # None => response'.params = p /\ response'.handle = c.handle
<1>1. CASE HmacFails(ext, c) /\ response' = [Status("ExtensionFirst") EXCEPT !.ext = ext]
  <2>1. /\ response'.params = None /\ response'.ext = ext
        /\ response'.status = "ExtensionFirst"
    BY <1>1 DEF Status, NoResponse
  <2>2. ASSUME ext.form = "valid", ext.key \in announced PROVE FALSE
    <3>1. ext.key = ecdhKey /\ ecdhKey # None
      BY <2>2 DEF ReplyInv
    <3>2. Derives(c.handle)
      BY OwnDerives
    <3> QED BY <1>1, <2>2, <3>1, <3>2 DEF HmacFails
  <2>3. announced' = announced
    BY DEF agreementVars
  <2> QED BY <2>1, <2>2, <2>3 DEF AssertionIsOwn, AnnouncedKeyWorks, Statuses
<1>2. CASE SignASN1(c.handle, p.rp) /\ response' = Assertion(c, p)
  <2>1. /\ response'.params = p /\ response'.handle = c.handle /\ response'.user = c.user
        /\ response'.status = "Success"
    BY <1>2 DEF Assertion
  <2>2. PICK id \in Ids : /\ c.handle = Handle(id) /\ Usable(id, p.rp)
                          /\ c.user \in {None, keys[id].user}
    BY <1>2, OwnAssertion
  <2>3. Handle(id)' = Handle(id) /\ Usable(id, p.rp)' /\ keys' = keys
    BY <2>2 DEF signerVars, Handle, Usable, Made
  <2>4. AssertionIsOwn'
    BY <2>1, <2>2, <2>3 DEF AssertionIsOwn, Usable, Handle, Made
  <2> QED BY <2>1, <2>4 DEF AnnouncedKeyWorks, Statuses
<1>3. CASE response' = Status("Other")
  BY <1>3 DEF Status, NoResponse, AssertionIsOwn, AnnouncedKeyWorks, Statuses
<1> QED BY <1>1, <1>2, <1>3 DEF BuildResponse, Respond

\* Only a plain response comes with another agreement key or a lost master key.
LEMMA ReplySteps ==
  ASSUME StockInv, [Next]_vars
  PROVE  \/ UNCHANGED <<lost, agreementVars>>
         \/ Plain(response') /\ (GetKeyAgreement \/ NewProcess)
<1> USE PlainStatus
<1>1. CASE NewProcess
  BY <1>1 DEF NewProcess
<1>2. CASE GetKeyAgreement
  BY <1>2 DEF GetKeyAgreement, Respond, Statuses
<1>3. CASE ~NewProcess /\ ~GetKeyAgreement
  <2>1. lost' = lost
    BY <1>3, StockSteps DEF MakeCredential, signerVars
  <2>2. UNCHANGED agreementVars
    <3>1. CASE Inside
      BY <1>3, <3>1 DEF Inside, CommandStep, Answer, ExcludeHit, NoCredentials, BadHash,
         GetNextAssertion, Refused, MakeCredential, RegisterFails, GetAssertion
    <3>2. CASE \E p \in Params, l \in Lists : AskMake(p, l) \/ AskGet(p, l)
      BY <3>2 DEF AskMake, AskGet
    <3>3. CASE GateStep \/ UNCHANGED vars
      BY <3>3 DEF GateStep, vars
    <3>4. CASE \/ \E r \in Requests : ResultDropped(r)
               \/ \E r \in Requests, a \in UP!Answers \ {"none"} : PromptEnds(r, a)
      BY <3>4 DEF ResultDropped, PromptEnds
    <3> QED BY <1>3, <3>1, <3>2, <3>3, <3>4, Steps
  <2> QED BY <2>1, <2>2
<1> QED BY <1>1, <1>2, <1>3

\* What a confirmed GetAssertion and a GetNextAssertion answer.
LEMMA FirstReply ==
  ASSUME Gate!PresenceInv, StockInv, SeriesInv, ReplyInv, [Next]_vars,
         NEW ext \in Extensions, GetAssertion(ext)
  PROVE  /\ AssertionIsOwn' /\ AnnouncedKeyWorks'
         /\ response'.status \in Statuses \ {"NotAllowed"}
         /\ response'.params # None => response'.params = wanted
         /\ stage = "get" /\ outcome = "ok" /\ granted' = granted \ {wanted}
         /\ UNCHANGED <<signerVars, agreementVars>>
<1>1. /\ stage = "get" /\ outcome = "ok" /\ granted' = granted \ {wanted}
      /\ UNCHANGED <<signerVars, agreementVars>>
  BY DEF GetAssertion, Confirmed
<1>2. wanted \in Params
  BY DEF Gate!PresenceInv, Gate!TypeOK
<1>3. PICK c \in Candidate : Own(c) /\ BuildResponse(c, wanted, ext)
  BY SeriesStart
<1> QED BY <1>1, <1>2, <1>3, Built

LEMMA NextReply ==
  ASSUME StockInv, SeriesInv, ReplyInv, [Next]_vars, GetNextAssertion, NextOf
  PROVE  /\ AssertionIsOwn' /\ AnnouncedKeyWorks'
         /\ response'.status \in Statuses \ {"NotAllowed"}
         /\ response'.params # None =>
              /\ covered # None /\ response'.params = covered
              /\ response'.handle \notin tried
         /\ UNCHANGED <<signerVars, agreementVars>>
<1>1. UNCHANGED <<signerVars, agreementVars>>
  BY DEF GetNextAssertion
<1>2. /\ assertionState.params \in Params /\ assertionState.ext \in Extensions
      /\ covered = assertionState.params
  BY SeriesNext DEF Running
<1>3. PICK c \in Candidate :
        Own(c) /\ c.handle \notin tried
          /\ BuildResponse(c, assertionState.params, assertionState.ext)
  BY SeriesNext
<1>4. covered # None
  BY <1>2, CtapAssumption
<1> QED BY <1>1, <1>2, <1>3, <1>4, Built

\* The end of a series.
LEMMA LastReply ==
  ASSUME GetNextAssertion, EndOf
  PROVE  /\ response' = Status("NotAllowed") /\ assertionState' = NoState
         /\ AssertionIsOwn' /\ AnnouncedKeyWorks' /\ response'.status \in Statuses
<1>1. response' = Status("NotAllowed") /\ assertionState' = NoState
  BY DEF EndOf, ClearState, Respond
<1>2. response'.status = "NotAllowed" /\ response'.params = None
  BY <1>1 DEF Status, NoResponse
<1> QED BY <1>1, <1>2 DEF AssertionIsOwn, AnnouncedKeyWorks, Statuses

LEMMA AskReply ==
  ASSUME NEW p \in Params, NEW l \in Lists, AskGet(p, l)
  PROVE  Plain(response')
  BY PlainStatus DEF AskGet, AskPresence, Respond, Statuses

LEMMA ReplyStep ==
  ASSUME Gate!PresenceInv, StockInv, SeriesInv, ReplyInv, [Next]_vars
  PROVE  ReplyInv'
<1>1. /\ ecdhKey' \in AgreementKeys \cup {None}
      /\ \A k \in announced' : k = ecdhKey' /\ k # None
  <2>1. CASE UNCHANGED agreementVars
    BY <2>1 DEF agreementVars, ReplyInv
  <2>2. CASE GetKeyAgreement
    <3>1. /\ ecdhKey' \in AgreementKeys /\ ecdhKey' # None
          /\ ecdhKey # None => ecdhKey' = ecdhKey
          /\ announced' = announced \cup {ecdhKey'}
      BY <2>2, CtapAssumption DEF GetKeyAgreement, GetECDHPublicKey, ReplyInv
    <3> QED BY <3>1 DEF ReplyInv
  <2>3. CASE NewProcess
    BY <2>3 DEF NewProcess
  <2> QED BY <2>1, <2>2, <2>3, ReplySteps
<1>2. AssertionIsOwn' /\ AnnouncedKeyWorks' /\ response'.status \in Statuses
  <2>1. CASE Plain(response')
    BY <2>1, PlainReply
  <2>2. CASE response' = response /\ ~Plain(response')
    <3>1. UNCHANGED <<lost, announced, response>>
      BY <2>2, ReplySteps DEF agreementVars
    <3>2. ASSUME NEW id \in Ids, Usable(id, response.params.rp)
          PROVE  /\ Usable(id, response.params.rp)'
                 /\ Handle(id)' = Handle(id) /\ keys'[id] = keys[id]
      BY <3>1, <3>2, KeysKept DEF Usable, Handle
    <3>3. AssertionIsOwn'
      BY <3>1, <3>2 DEF AssertionIsOwn, ReplyInv
    <3> QED BY <3>1, <3>3 DEF AnnouncedKeyWorks, ReplyInv
  <2>3. CASE \E ext \in Extensions : GetAssertion(ext)
    BY <2>3, FirstReply
  <2>4. CASE GetNextAssertion
    BY <2>4, NextReply, LastReply DEF GetNextAssertion
  <2>5. ASSUME NEW p \in Params, NEW l \in Lists, AskGet(p, l) PROVE Plain(response')
    BY <2>5, AskReply
  <2> QED BY <2>1, <2>2, <2>3, <2>4, <2>5, SeriesSteps DEF Ends, Passes
<1> QED BY <1>1, <1>2 DEF ReplyInv

-----------------------------------------------------------------------------
(* The invariant of the command interface, and its theorems                *)

CtapInv == Gate!PresenceInv /\ GrantInv /\ StockInv /\ SeriesInv /\ ReplyInv

LEMMA CtapInit == Init => CtapInv
  BY GateInit, GrantInit, StockInit, SeriesInit, ReplyInit DEF CtapInv

LEMMA CtapStep == CtapInv /\ [Next]_vars => CtapInv'
  BY GateInvariant, GrantStep, StockStep, SeriesStep, ReplyStep DEF CtapInv

LEMMA CtapAlways == Spec => []CtapInv
  BY CtapInit, CtapStep, PTL DEF Spec

\* In every behaviour, an assertion is signed with a live key of its relying
\* party and names that key's user, also when it is the last of a series that
\* began many registrations ago (ctap2.go 218-242, getassertion.go 42-85).
THEOREM AssertionsAreOwn == Spec => []AssertionIsOwn
<1>1. CtapInv => AssertionIsOwn BY DEF CtapInv, ReplyInv
<1> QED BY <1>1, CtapAlways, PTL

\* In every behaviour, a good hmac-secret input made with a key this process
\* has announced is not refused (hmacsecret.go 56, 144-158).
THEOREM AnnouncedKeysWork == Spec => []AnnouncedKeyWorks
<1>1. CtapInv => AnnouncedKeyWorks BY DEF CtapInv, ReplyInv
<1> QED BY <1>1, CtapAlways, PTL

\* In every behaviour, the variables have their types.
THEOREM CtapTypes == Spec => []TypeOK
<1>1. CtapInv => TypeOK
  <2> SUFFICES ASSUME CtapInv PROVE TypeOK
    OBVIOUS
  <2>1. UP!TypeOK
    BY DEF CtapInv, Gate!PresenceInv, Gate!TypeOK, Gate!Phases, Gate!Answers, Gate!Outcomes,
       UP!TypeOK, UP!Phases, UP!Answers, UP!Outcomes
  <2>2. /\ backend \in {"tpm", "memory"}
        /\ keys \in [Ids -> [rp : RPs, user : Users] \cup {None}]
        /\ lost \subseteq Ids
        /\ credentials \in Seq(Credential) /\ durable \in Seq(Credential)
    BY DEF CtapInv, StockInv, ChipKeepsHandles
  <2>3. /\ stage \in {"idle", "make", "get"} /\ matched \in Seq(Candidate)
        /\ tried \subseteq Seq(Byte)
    BY DEF CtapInv, SeriesInv, OwnSeries
  <2>4. /\ ecdhKey \in AgreementKeys \cup {None}
        /\ response.status \in Statuses
        /\ announced \subseteq AgreementKeys
        /\ granted \subseteq Params
    BY DEF CtapInv, ReplyInv, GrantInv
  <2>5. /\ assertionState.credentials \in Seq(Candidate)
        /\ assertionState.index \in 0 .. Len(assertionState.credentials)
        /\ assertionState.params \in Params \cup {None}
        /\ assertionState.ext \in Extensions
        /\ covered \in Params \cup {None}
    <3>1. CASE Running
      <4>1. /\ assertionState.index \in Nat /\ Len(assertionState.credentials) \in Nat
            /\ assertionState.index < Len(assertionState.credentials)
        BY <3>1 DEF Running
      <4> QED BY <3>1, <4>1 DEF Running
    <3>2. CASE NotRunning
      <4>1. <<>> \in Seq(Candidate) /\ Len(<<>>) = 0
        BY EmptySeq
      <4> QED BY <3>2, <4>1 DEF NotRunning, NoState, Extensions
    <3> QED BY <3>1, <3>2 DEF CtapInv, SeriesInv
  <2> QED BY <2>1, <2>2, <2>3, <2>4, <2>5 DEF TypeOK
<1> QED BY <1>1, CtapAlways, PTL

LEMMA ConsentedStep == ASSUME CtapInv, [Next]_vars PROVE Consented
<1> USE DEF CtapInv
<1>1. ASSUME NEW q \in Registrations, MakeCredential(q) PROVE Consented
  <2>1. /\ stage = "make" /\ outcome = "ok" /\ granted' = granted \ {wanted}
        /\ response' = Status("Success")
    BY <1>1 DEF MakeCredential, Confirmed, Respond
  <2>2. response'.params = None
    BY <2>1 DEF Status, NoResponse
  <2> QED BY <2>1, <2>2 DEF GrantInv, Consented, Continues
<1>2. CASE keys' # keys
  BY <1>1, <1>2, StockSteps DEF NewProcess, signerVars
<1>3. ASSUME keys' = keys, NEW ext \in Extensions, GetAssertion(ext) PROVE Consented
  BY <1>3, FirstReply DEF GrantInv, Consented, Continues, Operates
<1>4. ASSUME keys' = keys, GetNextAssertion PROVE Consented
  <2>1. stage = "idle"
    BY <1>4 DEF GetNextAssertion
  <2>2. CASE NextOf
    <3>1. ~Operates
      BY <1>4, <2>1 DEF Operates
    <3>2. response'.params # None => covered # None /\ response'.params = covered
      BY <1>4, <2>2, NextReply
    <3> QED BY <3>1, <3>2 DEF Consented, Continues
  <2>3. CASE EndOf
    <3>1. response'.params = None
      BY <1>4, <2>3, LastReply DEF Status, NoResponse
    <3> QED BY <1>4, <2>1, <3>1 DEF Operates, Consented, Continues
  <2> QED BY <1>4, <2>2, <2>3 DEF GetNextAssertion
<1>5. CASE keys' = keys /\ Plain(response')
  BY <1>5 DEF Plain, Operates, Consented, Continues
<1>6. CASE keys' = keys /\ response' = response /\ stage' = stage
  BY <1>6 DEF Operates, Consented, Continues
<1> QED BY <1>2, <1>3, <1>4, <1>5, <1>6, SeriesSteps, AskReply DEF Ends, Passes

\* In every behaviour, a registration and a first assertion use up the user's
\* confirmation of just that operation, and an assertion that follows is for
\* the operation the series belongs to (getassertion.go 16, ctap2.go 218-242).
THEOREM OperationsHaveConsent == Spec => ConsentForEachOperation
  BY ConsentedStep, CtapAlways, PTL DEF Spec, ConsentForEachOperation

LEMMA FreshHandle ==
  ASSUME CtapInv, [Next]_vars, FollowsSeries PROVE response'.handle \notin tried
<1> USE DEF CtapInv, FollowsSeries
<1>1. ASSUME NEW ext \in Extensions, GetAssertion(ext) PROVE FALSE
  <2>1. stage = "get"
    BY <1>1 DEF GetAssertion, Confirmed
  <2> QED BY <2>1 DEF SeriesInv, NotRunning
<1>2. CASE GetNextAssertion /\ NextOf
  BY <1>2, NextReply
<1>3. ~(GetNextAssertion /\ EndOf)
  BY LastReply DEF Status, NoResponse
<1>4. ~Plain(response')
  BY DEF Plain
<1>5. assertionState' # assertionState
  <2>1. assertionState.index \in Nat
    BY DEF SeriesInv, Running, NotRunning
  <2> QED BY <2>1
<1> QED BY <1>1, <1>2, <1>3, <1>4, <1>5, SeriesSteps, AskReply
        DEF Ends, Passes, GetNextAssertion

\* In every behaviour, no credential comes twice in a series (ctap2.go
\* 227-241).
THEOREM NoCredentialTwice == Spec => NoAssertionTwice
  BY FreshHandle, CtapAlways, PTL DEF Spec, NoAssertionTwice

LEMMA AllTried ==
  ASSUME CtapInv, [Next]_vars, SeriesEnds PROVE SeriesHandles = tried
<1> USE DEF CtapInv, SeriesEnds
<1>1. ASSUME NEW ext \in Extensions, GetAssertion(ext) PROVE FALSE
  BY <1>1, FirstReply
<1>2. ~(GetNextAssertion /\ NextOf)
  BY NextReply
<1>3. CASE GetNextAssertion /\ EndOf
  <2>1. Running
    BY DEF SeriesInv, NotRunning
  <2>2. /\ assertionState.credentials \in Seq(Candidate) /\ assertionState.index \in Nat
        /\ assertionState.index < Len(assertionState.credentials)
        /\ assertionState.index + 1 >= Len(assertionState.credentials)
    BY <1>3, <2>1 DEF Running, EndOf
  <2>3. DOMAIN assertionState.credentials = 1 .. assertionState.index + 1
    BY <2>2
  <2> QED BY <2>1, <2>3 DEF Running, SeriesHandles
<1>4. ~Plain(response')
  BY DEF Plain
<1> QED BY <1>1, <1>2, <1>3, <1>4, SeriesSteps, AskReply DEF Ends, Passes, GetNextAssertion

\* In every behaviour, a series ends only when each of its credentials has had
\* its turn (ctap2.go 220-241).
THEOREM SeriesAreComplete == Spec => AllAnnouncedTried
  BY AllTried, CtapAlways, PTL DEF Spec, AllAnnouncedTried
=============================================================================
