-------------------------- MODULE NativeHostProofs --------------------------
(* Proofs about the host process, for any number of requests, relying      *)
(* parties, users and credentials, any ID lists, and whatever fails.       *)
EXTENDS NativeHost, CredentialListProofs

\* The gate's invariant and what has been proved about its steps.
Gate == INSTANCE UserPresenceProofs

-----------------------------------------------------------------------------
(* The gate inside of the host                                             *)

\* The constants of the host are such as the gate assumes.
LEMMA GateConstants ==
  /\ PromptTimeout \in Nat \ {0}
  /\ SendGrace \in Nat \ {0}
  /\ DefaultTimeout \in Nat \ {0}
  /\ Timeouts \subseteq Nat
  /\ None \notin Requests
  BY HostAssumption

LEMMA GateInit == ASSUME Init PROVE Gate!PresenceInv
<1>1. Gate!Init
  BY DEF Init, UP!Init, Gate!Init
<1> QED BY <1>1, GateConstants, Gate!PresenceInit

\* What the host does with the gate are steps of the gate, but for the end of
\* the process.
LEMMA GateSteps ==
  ASSUME [Next]_vars
  PROVE  [Gate!Next]_(Gate!vars) \/ Stop
<1>1. ASSUME NEW p \in Params, NEW t \in Timeouts, AskPresence(p, t)
      PROVE  Gate!Next
  <2>1. Gate!ConfirmPresence(p, t)
    BY <1>1 DEF AskPresence, UP!ConfirmPresence, UP!Refuse, UP!Join, UP!Start,
         UP!Patience, UP!Live, UP!reqVars, Gate!ConfirmPresence, Gate!Refuse,
         Gate!Join, Gate!Start, Gate!Patience, Gate!Live, Gate!reqVars
  <2> QED BY <2>1 DEF Gate!Next
<1>2. ASSUME NEW r \in Requests, NEW a \in UP!Answers \ {"none"}, PromptEnds(r, a)
      PROVE  Gate!Next
  <2>1. Gate!EndPrompt(r, a) /\ (a = "expired" => timer[r] = 0)
    BY <1>2 DEF PromptEnds, UP!EndPrompt, Gate!EndPrompt, UP!clientVars, Gate!clientVars
  <2>2. a \in {"confirmed", "denied"} \/ a = "expired"
    BY <1>2 DEF UP!Answers
  <2> QED BY <2>1, <2>2
        DEF Gate!Next, Gate!UserAnswers, Gate!Goroutine, Gate!PromptExpires
<1>3. ASSUME NEW r \in Requests, ResultDropped(r) PROVE Gate!Next
  <2>1. Gate!GiveUp(r)
    BY <1>3 DEF ResultDropped, UP!GiveUp, Gate!GiveUp, UP!clientVars, Gate!clientVars
  <2> QED BY <2>1 DEF Gate!Next, Gate!Goroutine
<1>4. CASE GateStep
  <2>1. CASE UP!ClientTimeout
    BY <2>1 DEF UP!ClientTimeout, UP!reqVars, Gate!Next, Gate!ClientTimeout, Gate!reqVars
  <2>2. CASE UP!Tick
    BY <2>2 DEF UP!Tick, UP!CodeReady, UP!Ticking,
         Gate!Next, Gate!Tick, Gate!CodeReady, Gate!Ticking
  <2>3. ASSUME NEW r \in Requests, UP!Deliver(r) PROVE Gate!Next
    <3>1. Gate!Deliver(r)
      BY <2>3 DEF UP!Deliver, UP!OutcomeOf, UP!ErrorText,
           Gate!Deliver, Gate!OutcomeOf, Gate!ErrorText
    <3> QED BY <3>1 DEF Gate!Next, Gate!Goroutine
  <2>4. ASSUME NEW r \in Requests, UP!ClearActive(r) PROVE Gate!Next
    <3>1. Gate!ClearActive(r)
      BY <2>4 DEF UP!ClearActive, UP!clientVars, Gate!ClearActive, Gate!clientVars
    <3> QED BY <3>1 DEF Gate!Next, Gate!Goroutine
  <2> QED BY <1>4, <2>1, <2>2, <2>3, <2>4 DEF GateStep
<1>5. CASE Launch \/ Reject \/ HandlerStep \/ UNCHANGED vars
  <2>1. UNCHANGED upVars
    BY <1>5 DEF Launch, Reject, HandlerStep, Refused, CreateStep, ExcludeHit, RegisterKey,
         RegisterFails, SaveCredential, FinishCreate, PRFFails, GetStep, SignAssertion,
         NoCredentials, GetFails, vars
  <2> QED BY <2>1 DEF upVars, Gate!vars
<1> QED BY <1>1, <1>2, <1>3, <1>4, <1>5 DEF Next

\* The gate's invariant holds in the host, whatever ends the process.
LEMMA GateInvariant ==
  ASSUME Gate!PresenceInv, [Next]_vars PROVE Gate!PresenceInv'
<1>1. CASE [Gate!Next]_(Gate!vars)
  BY <1>1, GateConstants, Gate!PresenceStep
<1>2. CASE Stop
  BY <1>2, GateConstants DEF Stop, Gate!PresenceInv, Gate!TypeOK, Gate!OnePromptAtATime, Gate!Live,
       Gate!WaitsForOwnOperation, Gate!AnswerKnown, Gate!OkHasNoPrompt,
       Gate!Phases, Gate!Answers, Gate!Outcomes
<1> QED BY <1>1, <1>2, GateSteps

-----------------------------------------------------------------------------
(* Consent                                                                 *)

\* A confirmation on its way to the client, or with the client, is noted.
ConsentInv ==
  /\ \A r \in Requests :
       phase[r] = "sending" /\ answer[r] = "confirmed" => params[r] \in granted
  /\ stage = "waiting" /\ outcome = "ok" => wanted \in granted

\* The host's invariant as far as consent goes.
AskedInv == Gate!PresenceInv /\ ConsentInv

\* What the steps after the wait have in common.
LEMMA AfterTheWait ==
  ASSUME HandlerStep
  PROVE  /\ UNCHANGED upVars
         /\ stage' # "waiting"
         /\ \/ UNCHANGED granted
            \/ stage = "waiting" /\ outcome = "ok" /\ granted' = granted \ {wanted}
<1> USE DEF Confirmed, Respond, historyVars
<1>1. CASE Refused
  BY <1>1 DEF Refused
<1>2. CASE CreateStep
  BY <1>2 DEF CreateStep, ExcludeHit, RegisterKey, RegisterFails, SaveCredential,
     FinishCreate, PRFFails
<1>3. CASE GetStep
  BY <1>3 DEF GetStep, SignAssertion, NoCredentials, GetFails
<1> QED BY <1>1, <1>2, <1>3 DEF HandlerStep

LEMMA ConsentInit == ASSUME Init PROVE ConsentInv
  BY DEF Init, UP!Init, ConsentInv

\* A step uses up only the confirmation of its own request, since none but
\* that has been given and not yet been dropped.
LEMMA ConsentStep ==
  ASSUME AskedInv, [Next]_vars PROVE ConsentInv'
<1> USE DEF AskedInv, ConsentInv
<1>1. /\ \A r \in Requests : phase[r] \in {"prompting", "sending"} => activeRequest = r
      /\ outcome = "ok" => \A r \in Requests : phase[r] \notin {"prompting", "sending"}
      /\ waiting # None => params[waiting] = wanted
      /\ phase \in [Requests -> UP!Phases] /\ answer \in [Requests -> UP!Answers]
      /\ params \in [Requests -> Params]
  BY DEF Gate!PresenceInv, Gate!OnePromptAtATime, Gate!Live, Gate!OkHasNoPrompt,
     Gate!WaitsForOwnOperation, Gate!TypeOK, Gate!Phases, Gate!Answers, UP!Phases, UP!Answers
<1>2. ASSUME NEW p \in Params, NEW t \in Timeouts, AskPresence(p, t)
      PROVE  ConsentInv'
  <2>1. outcome' # "ok" /\ granted' = granted
    BY <1>2 DEF AskPresence, UP!ConfirmPresence, UP!Refuse, UP!Join, UP!Start, historyVars
  <2>2. CASE UNCHANGED <<phase, answer, params>>
    BY <2>1, <2>2
  <2>3. CASE UP!Start(p, t)
    BY <1>1, <2>1, <2>3 DEF UP!Start
  <2> QED BY <1>2, <2>2, <2>3 DEF AskPresence, UP!ConfirmPresence, UP!Refuse, UP!Join, UP!reqVars
<1>3. CASE HandlerStep
  <2>1. /\ UNCHANGED <<phase, answer, params, outcome, wanted>> /\ stage' # "waiting"
        /\ \/ UNCHANGED granted
           \/ outcome = "ok" /\ granted' = granted \ {wanted}
    BY <1>3, AfterTheWait DEF upVars
  <2> QED BY <1>1, <2>1
<1>4. ASSUME NEW r \in Requests, NEW a \in UP!Answers \ {"none"}, PromptEnds(r, a)
      PROVE  ConsentInv'
  BY <1>1, <1>4 DEF PromptEnds, UP!EndPrompt, UP!clientVars
<1>5. ASSUME NEW r \in Requests, ResultDropped(r) PROVE ConsentInv'
  BY <1>1, <1>5 DEF ResultDropped, UP!GiveUp, UP!clientVars
<1>6. CASE GateStep
  <2>1. stage' = stage /\ granted' = granted
    BY <1>6 DEF GateStep, hostVars, historyVars
  <2>2. CASE UP!ClientTimeout
    BY <2>1, <2>2 DEF UP!ClientTimeout, UP!reqVars
  <2>3. CASE UP!Tick
    BY <2>1, <2>3 DEF UP!Tick
  <2>4. ASSUME NEW r \in Requests, UP!Deliver(r) PROVE ConsentInv'
    <3>1. outcome' = "ok" => answer[r] = "confirmed"
      BY <2>4 DEF UP!Deliver, UP!OutcomeOf
    <3>2. params[r] = wanted
      BY <1>1, <2>4, HostAssumption DEF UP!Deliver
    <3> QED BY <1>1, <2>1, <2>4, <3>1, <3>2 DEF UP!Deliver
  <2>5. ASSUME NEW r \in Requests, UP!ClearActive(r) PROVE ConsentInv'
    BY <1>1, <2>1, <2>5 DEF UP!ClearActive, UP!clientVars
  <2> QED BY <1>6, <2>2, <2>3, <2>4, <2>5 DEF GateStep
<1>7. CASE Launch \/ Reject \/ UNCHANGED vars
  BY <1>7 DEF Launch, Reject, Respond, vars, upVars, hostVars, historyVars
<1>8. CASE Stop
  BY <1>8 DEF Stop
<1> QED BY <1>2, <1>3, <1>4, <1>5, <1>6, <1>7, <1>8 DEF Next

-----------------------------------------------------------------------------
(* The steps that matter to keys and lists                                 *)

LEMMA ResponseFields ==
  /\ NoResponse.kind = "none"
  /\ \A name : Error(name).kind = "error"
  /\ \A id : Created(id).kind = "created"
  /\ \A id, h, l : /\ Assertion(id, h, l).kind = "assertion"
                   /\ Assertion(id, h, l).id = id
                   /\ Assertion(id, h, l).handle = h
                   /\ Assertion(id, h, l).list = l
  BY DEF NoResponse, Error, Created, Assertion

\* Steps that only refuse, wait, or run in the gate.
Quiet ==
  /\ UNCHANGED <<backend, running, keyVars, listVars, reported, abandoned>>
  /\ \/ UNCHANGED <<response, stage, wanted>>
     \/ stage \in {"idle", "waiting"} /\ stage' = "idle" /\ response'.kind = "error"
     \/ stage = "idle" /\ stage' = "waiting" /\ response'.kind = "none" /\ running

LEMMA OtherStepsAreQuiet ==
  ASSUME [Next]_vars
  PROVE  \/ \E l \in Lists, u \in Users, b \in BOOLEAN : RegisterKey(l, u, b)
         \/ SaveCredential \/ FinishCreate \/ PRFFails \/ Launch \/ Stop
         \/ \E l \in Lists : SignAssertion(l)
         \/ Quiet
<1> USE ResponseFields DEF Quiet
<1>1. CASE Reject \/ Refused \/ RegisterFails
  BY <1>1 DEF Reject, Refused, RegisterFails, Confirmed, Respond, historyVars
<1>2. ASSUME NEW l \in Lists, ExcludeHit(l) \/ NoCredentials(l) \/ GetFails(l) PROVE Quiet
  BY <1>2 DEF ExcludeHit, NoCredentials, GetFails, Confirmed, Respond
<1>3. ASSUME NEW p \in Params, NEW t \in Timeouts, AskPresence(p, t) PROVE Quiet
  BY <1>3 DEF AskPresence, Respond, historyVars
<1>4. ASSUME NEW r \in Requests, NEW a \in UP!Answers \ {"none"}, PromptEnds(r, a)
      PROVE  Quiet
  BY <1>4 DEF PromptEnds, UP!EndPrompt, UP!clientVars
<1>5. ASSUME NEW r \in Requests, ResultDropped(r) PROVE Quiet
  BY <1>5 DEF ResultDropped, UP!GiveUp, UP!clientVars
<1>6. CASE GateStep
  BY <1>6 DEF GateStep, UP!ClientTimeout, UP!Tick, UP!Deliver, UP!ClearActive,
     UP!clientVars, hostVars, historyVars
<1>7. CASE UNCHANGED vars
  BY <1>7 DEF vars, upVars, hostVars, historyVars
<1> QED BY <1>1, <1>2, <1>3, <1>4, <1>5, <1>6, <1>7
        DEF Next, HandlerStep, CreateStep, GetStep

\* Who makes a key or signs an assertion, does it after a confirmation.
LEMMA OperationsAskFirst ==
  ASSUME AskedInv, [Next]_vars
  PROVE  [Operates => wanted \in granted /\ wanted \notin granted']_vars
<1> SUFFICES ASSUME Operates
             PROVE  wanted \in granted /\ wanted \notin granted'
  OBVIOUS
<1>1. ASSUME NEW l \in Lists, SignAssertion(l)
      PROVE  wanted \in granted /\ wanted \notin granted'
  BY <1>1 DEF SignAssertion, Confirmed, AskedInv, ConsentInv
<1>2. ASSUME NEW l \in Lists, NEW u \in Users, NEW b \in BOOLEAN, RegisterKey(l, u, b)
      PROVE  wanted \in granted /\ wanted \notin granted'
  BY <1>2 DEF RegisterKey, Confirmed, AskedInv, ConsentInv
<1>3. ~(SaveCredential \/ FinishCreate \/ PRFFails \/ Launch \/ Stop)
  BY ResponseFields DEF Operates, SaveCredential, FinishCreate, PRFFails, Launch, Stop,
     Respond, keyVars
<1>4. ~Quiet
  BY DEF Operates, Quiet, keyVars
<1> QED BY <1>1, <1>2, <1>3, <1>4, OtherStepsAreQuiet

\* Each key and each assertion uses up a confirmation of its own: whatever
\* prompts outlive their requests, expire or are answered late (handler.go
\* 145-170, userpresence.go 75-120), none serves twice or for another request.
THEOREM OperationsHaveConsent == Spec => ConsentForEachOperation
<1>1. Init => AskedInv
  BY GateInit, ConsentInit DEF AskedInv
<1>2. AskedInv /\ [Next]_vars => AskedInv'
  BY GateInvariant, ConsentStep DEF AskedInv
<1>3. AskedInv /\ [Next]_vars
        => [Operates => wanted \in granted /\ wanted \notin granted']_vars
  BY OperationsAskFirst
<1> QED BY <1>1, <1>2, <1>3, PTL DEF Spec, ConsentForEachOperation
-----------------------------------------------------------------------------
(* Keys                                                                    *)

\* Where the loop is says whether a key is being made, and whether an answer
\* has been given.
KeyInv ==
  /\ keys \in [Ids -> [rp : RPs, user : Users] \cup {None}]
  /\ newKey \in Ids \cup {None}
  /\ stage \in Stages
  /\ newKey # None <=> stage \in {"save", "finish"}
  /\ stage # "idle" => running /\ response.kind = "none"
  /\ KeysAccountedFor

LEMMA KeyInit == ASSUME Init PROVE KeyInv
  BY HostAssumption, ResponseFields DEF Init, KeyInv, KeysAccountedFor, Stages

LEMMA KeyStep ==
  ASSUME Gate!PresenceInv, KeyInv, [Next]_vars PROVE KeyInv'
<1> USE HostAssumption, ResponseFields DEF KeyInv, KeysAccountedFor, Stages
<1>1. ASSUME NEW l \in Lists, NEW u \in Users, NEW b \in BOOLEAN, RegisterKey(l, u, b)
      PROVE  KeyInv'
  <2>1. stage = "waiting" /\ wanted \in Params
    BY <1>1 DEF RegisterKey, Confirmed, Gate!PresenceInv, Gate!TypeOK
  <2>2. PICK id \in FreshIds : newKey' = id /\ HandleMade(id, wanted.rp, u)
    BY <1>1 DEF RegisterKey
  <2>3. id \in Ids /\ keys[id] = None /\ wanted.rp \in RPs /\ id # None
    BY <2>1, <2>2 DEF FreshIds, Params
  <2>4. [rp |-> wanted.rp, user |-> u] \in [rp : RPs, user : Users]
    BY <2>3
  <2>5. /\ keys' \in [Ids -> [rp : RPs, user : Users] \cup {None}]
        /\ \A i \in Ids : keys'[i] # None <=> keys[i] # None \/ i = id
    BY <2>2, <2>3, <2>4 DEF HandleMade
  <2>6. /\ stage' \in {"save", "finish"} /\ newKey = None
        /\ UNCHANGED <<running, response, reported, abandoned>>
    BY <1>1, <2>1 DEF RegisterKey
  <2> QED BY <2>1, <2>2, <2>3, <2>5, <2>6
<1>2. CASE SaveCredential
  BY <1>2 DEF SaveCredential, keyVars, historyVars
<1>3. CASE FinishCreate \/ PRFFails
  BY <1>3 DEF FinishCreate, PRFFails, Respond
<1>4. CASE Launch
  BY <1>4 DEF Launch, keyVars, historyVars
<1>5. CASE Stop
  BY <1>5 DEF Stop
<1>6. ASSUME NEW l \in Lists, SignAssertion(l) PROVE KeyInv'
  BY <1>6 DEF SignAssertion, Confirmed, Respond, keyVars
<1>7. CASE Quiet
  BY <1>7 DEF Quiet, keyVars
<1> QED BY <1>1, <1>2, <1>3, <1>4, <1>5, <1>6, <1>7, OtherStepsAreQuiet

\* No request leaves a key behind unless a response has named it, or it is
\* one of those known to be abandoned (handler.go 157-196).
THEOREM NoStrayKeys == Spec => []KeysAccountedFor
<1>1. Init => Gate!PresenceInv /\ KeyInv BY GateInit, KeyInit
<1>2. Gate!PresenceInv /\ KeyInv /\ [Next]_vars => (Gate!PresenceInv /\ KeyInv)'
  BY GateInvariant, KeyStep
<1>3. KeyInv => KeysAccountedFor BY DEF KeyInv
<1> QED BY <1>1, <1>2, <1>3, PTL DEF Spec

-----------------------------------------------------------------------------
(* Lists                                                                   *)

\* The lists repeat nothing and name keys of their own accounts; a key about
\* to be stored is in neither; memory has whatever the file has.
ListInv ==
  /\ credentials \in Seq(Credential) /\ Distinct(credentials)
  /\ durable \in Seq(Credential) /\ Distinct(durable)
  /\ ListsMatchKeys
  /\ stage = "save" =>
       \A c \in Entries(credentials) \cup Entries(durable) : c.id # newKey
  /\ running => \A i \in DOMAIN durable : HasAccount(credentials, durable[i])

LEMMA EmptyList ==
  <<>> \in Seq(Credential) /\ Distinct(<<>>) /\ Entries(<<>>) = {} /\ DOMAIN <<>> = {}
  BY DEF Distinct, Entries

LEMMA ListInit == ASSUME Init PROVE ListInv
  BY EmptyList DEF Init, ListInv, ListsMatchKeys

\* What Save stores is a credential of the account its key was made for.
LEMMA NewCredentialFits ==
  ASSUME KeyInv, ListInv, stage = "save"
  PROVE  /\ NewCredential \in Credential /\ NewCredential.id = newKey
         /\ keys[newKey] = [rp |-> NewCredential.rp, user |-> NewCredential.user]
         /\ \A i \in DOMAIN credentials : credentials[i].id # NewCredential.id
<1>1. newKey \in Ids /\ keys[newKey] \in [rp : RPs, user : Users]
  BY HostAssumption DEF KeyInv, KeysAccountedFor
<1> QED BY <1>1 DEF NewCredential, Credential, ListInv, Entries

LEMMA ListStep ==
  ASSUME KeyInv, ListInv, [Next]_vars PROVE ListInv'
<1> USE DEF ListInv, ListsMatchKeys
<1>1. ASSUME NEW l \in Lists, NEW u \in Users, NEW b \in BOOLEAN, RegisterKey(l, u, b)
      PROVE  ListInv'
  <2>1. PICK id \in FreshIds : newKey' = id /\ HandleMade(id, wanted.rp, u)
    BY <1>1 DEF RegisterKey
  <2>2. ASSUME NEW c \in Entries(credentials) \cup Entries(durable)
        PROVE  c.id \in Ids /\ c.id # id
    <3>1. c \in Credential
      BY DEF Entries
    <3>2. [rp |-> c.rp, user |-> c.user] \in [rp : RPs, user : Users] /\ c.id \in Ids
      BY <3>1 DEF Credential
    <3>3. keys[c.id] # None
      BY <3>2, HostAssumption
    <3> QED BY <2>1, <3>2, <3>3 DEF FreshIds
  <2>3. \A i \in Ids \ {id} : keys'[i] = keys[i]
    BY <2>1 DEF HandleMade, KeyInv
  <2>4. UNCHANGED <<credentials, durable, running>>
    BY <1>1 DEF RegisterKey, listVars
  <2> QED BY <2>1, <2>2, <2>3, <2>4
<1>2. CASE SaveCredential
  <2> DEFINE new == Stored(credentials, NewCredential)
  <2>1. stage = "save" /\ running
    BY <1>2 DEF SaveCredential, KeyInv
  <2>2. /\ NewCredential \in Credential /\ NewCredential.id = newKey
        /\ keys[newKey] = [rp |-> NewCredential.rp, user |-> NewCredential.user]
        /\ new \in Seq(Credential) /\ Distinct(new)
    BY <2>1, NewCredentialFits, StoredDistinct
  <2>3. Entries(new) \subseteq Entries(credentials) \cup {NewCredential}
    BY <2>2, StoredEntries
  <2>4. /\ credentials' = new /\ durable' \in {new, durable} /\ stage' = "finish"
        /\ UNCHANGED <<keys, running>>
    BY <1>2 DEF SaveCredential, keyVars
  <2>5. ASSUME NEW d \in Credential, HasAccount(credentials, d)
        PROVE  HasAccount(new, d)
    BY <2>2, <2>5, StoredAccounts
  <2>6. \A i \in DOMAIN new : HasAccount(new, new[i])
    BY DEF HasAccount, SameAccount
  <2>7. \A i \in DOMAIN durable : durable[i] \in Credential /\ HasAccount(new, durable[i])
    BY <2>1, <2>5
  <2> HIDE DEF new
  <2>8. /\ credentials' \in Seq(Credential) /\ Distinct(credentials')
        /\ durable' \in Seq(Credential) /\ Distinct(durable')
    BY <2>2, <2>4
  <2>9. ListsMatchKeys'
    <3> SUFFICES ASSUME NEW c \in Entries(credentials') \cup Entries(durable')
                 PROVE  keys[c.id] = [rp |-> c.rp, user |-> c.user]
      BY <2>4
    <3>1. c \in Entries(credentials) \cup Entries(durable) \/ c = NewCredential
      BY <2>3, <2>4
    <3> QED BY <2>2, <3>1
  <2>10. \A i \in DOMAIN durable' : HasAccount(credentials', durable'[i])
    BY <2>4, <2>6, <2>7
  <2> QED BY <2>4, <2>8, <2>9, <2>10
<1>3. CASE FinishCreate \/ PRFFails
  BY <1>3 DEF FinishCreate, PRFFails, Respond, listVars
<1>4. CASE Launch
  <2>1. credentials' = durable /\ UNCHANGED <<durable, keys, stage>> /\ stage = "idle"
    BY <1>4 DEF Launch, keyVars, KeyInv
  <2>2. \A i \in DOMAIN durable : HasAccount(durable, durable[i])
    BY DEF HasAccount, SameAccount
  <2> QED BY <2>1, <2>2
<1>5. CASE Stop
  BY <1>5, EmptyList DEF Stop
<1>6. ASSUME NEW l \in Lists, SignAssertion(l) PROVE ListInv'
  BY <1>6 DEF SignAssertion, Respond, keyVars, listVars
<1>7. CASE Quiet
  BY <1>7 DEF Quiet, keyVars, listVars
<1> QED BY <1>1, <1>2, <1>3, <1>4, <1>5, <1>6, <1>7, OtherStepsAreQuiet

\* The keys and lists of the host in every reachable state.
StockInv == Gate!PresenceInv /\ KeyInv /\ ListInv

LEMMA StockInvariant == Spec => []StockInv
<1>1. Init => StockInv BY GateInit, KeyInit, ListInit DEF StockInv
<1>2. StockInv /\ [Next]_vars => StockInv'
  BY GateInvariant, KeyStep, ListStep DEF StockInv
<1> QED BY <1>1, <1>2, PTL DEF Spec

\* Discoverable login looks up keys that were made for the very account
\* (getassertion.go 332-347), through restarts and failed saves.
THEOREM ListsNameOwnKeys == Spec => []ListsMatchKeys
<1>1. StockInv => ListsMatchKeys BY DEF StockInv, ListInv
<1> QED BY <1>1, StockInvariant, PTL

\* Nothing takes an account's credential off the disk without putting another
\* there: Save writes back all that was loaded (storage.go 108-140).
THEOREM AccountsStayOnDisk == Spec => AccountsKeepKeys
<1>1. StockInv /\ [Next]_vars
        => [\A i \in DOMAIN durable : HasAccount(durable', durable[i])]_durable
  <2> SUFFICES ASSUME StockInv, [Next]_vars, durable' # durable, NEW i \in DOMAIN durable
               PROVE  HasAccount(durable', durable[i])
    OBVIOUS
  <2>1. SaveCredential
    BY OtherStepsAreQuiet DEF RegisterKey, FinishCreate, PRFFails, Launch, Stop,
       SignAssertion, Quiet, listVars
  <2>2. stage = "save" /\ running /\ durable' = Stored(credentials, NewCredential)
    BY <2>1 DEF SaveCredential, StockInv, KeyInv
  <2>3. NewCredential \in Credential
    BY <2>2, NewCredentialFits DEF StockInv
  <2>4. HasAccount(credentials, durable[i]) /\ durable[i] \in Credential
    BY <2>2 DEF StockInv, ListInv
  <2> QED BY <2>2, <2>3, <2>4, StoredAccounts DEF StockInv, ListInv
<1> QED BY <1>1, StockInvariant, PTL DEF Spec, AccountsKeepKeys
-----------------------------------------------------------------------------
(* Assertions                                                              *)

\* A candidate the loop may take is a key of the relying party, from the
\* decoded list or, with its user, from the stored ones.
LEMMA CandidatesAreOwn ==
  ASSUME StockInv, NEW l \in Lists, NEW rp \in RPs,
         NEW i \in Usable(Candidates(l, rp), rp)
  PROVE  LET c == Candidates(l, rp)[i]
         IN  /\ c.id \in Ids /\ CanSign(c.id, rp)
             /\ c.handle \in Users \cup {None}
             /\ IF Decoded(l) = {}
                THEN c.handle = keys[c.id].user
                ELSE c.handle = None /\ \E k \in Decoded(l) : l[k].id = c.id
<1> DEFINE s == Candidates(l, rp)
<1>1. i \in DOMAIN s /\ CanSign(s[i].id, rp)
  BY DEF Usable
<1>2. CASE Decoded(l) # {}
  <2>1. i \in Decoded(l) /\ s[i] = [id |-> l[i].id, handle |-> None]
    BY <1>1, <1>2 DEF Candidates
  <2>2. l[i] \in Entry
    BY <2>1, HostAssumption DEF Decoded
  <2> QED BY <1>1, <1>2, <2>1, <2>2 DEF Entry
<1>3. CASE Decoded(l) = {}
  <2>1. /\ i \in DOMAIN credentials
        /\ s[i] = [id |-> credentials[i].id, handle |-> credentials[i].user]
    BY <1>1, <1>3 DEF Candidates, GetByRPID
  <2>2. credentials[i] \in Credential /\ credentials[i] \in Entries(credentials)
    BY <2>1 DEF StockInv, ListInv, Entries
  <2>3. keys[credentials[i].id] = [rp |-> credentials[i].rp, user |-> credentials[i].user]
    BY <2>2 DEF StockInv, ListInv, ListsMatchKeys
  <2> QED BY <1>1, <1>3, <2>1, <2>2, <2>3 DEF Credential
<1> QED BY <1>2, <1>3

LEMMA AssertionStep ==
  ASSUME StockInv, AssertionIsOwn, [Next]_vars PROVE AssertionIsOwn'
<1> USE ResponseFields
<1>1. ASSUME NEW l \in Lists, SignAssertion(l) PROVE AssertionIsOwn'
  <2> DEFINE s == Candidates(l, wanted.rp)
  <2>1. wanted.rp \in RPs /\ UNCHANGED <<keys, lost, wanted>>
    BY <1>1 DEF SignAssertion, keyVars, upVars, StockInv, Gate!PresenceInv, Gate!TypeOK, Params
  <2>2. PICK i \in Usable(s, wanted.rp) : response' = Assertion(s[i].id, s[i].handle, l)
    BY <1>1 DEF SignAssertion, Respond
  <2>3. /\ response'.id = s[i].id /\ response'.handle = s[i].handle
        /\ response'.list = l
    BY <2>2
  <2>4. /\ CanSign(s[i].id, wanted.rp)
        /\ IF Decoded(l) = {}
           THEN s[i].handle = keys[s[i].id].user
           ELSE s[i].handle = None /\ \E k \in Decoded(l) : l[k].id = s[i].id
    BY <2>1, <2>2, CandidatesAreOwn
  <2> HIDE DEF s
  <2> QED BY <2>1, <2>3, <2>4 DEF AssertionIsOwn, CanSign, Decoded
<1>2. CASE Quiet
  <2>1. CASE response'.kind # "assertion"
    BY <2>1 DEF AssertionIsOwn
  <2>2. CASE UNCHANGED <<response, wanted, keys, lost>>
    BY <2>2 DEF AssertionIsOwn, CanSign
  <2> QED BY <1>2, <2>1, <2>2 DEF Quiet, keyVars
<1>3. CASE FinishCreate \/ PRFFails \/ Stop
  BY <1>3 DEF FinishCreate, PRFFails, Stop, Respond, AssertionIsOwn
<1>4. CASE SaveCredential \/ \E l \in Lists, u \in Users, b \in BOOLEAN : RegisterKey(l, u, b)
  <2>1. response'.kind = "none"
    BY <1>4 DEF SaveCredential, RegisterKey, Confirmed, StockInv, KeyInv
  <2> QED BY <2>1 DEF AssertionIsOwn
<1>5. CASE Launch
  BY <1>5 DEF Launch, keyVars, upVars, AssertionIsOwn, CanSign
<1> QED BY <1>1, <1>2, <1>3, <1>4, <1>5, OtherStepsAreQuiet

\* Whatever the lists hold and whichever trial signatures fail, an assertion
\* is made with a live key of its relying party and names that key's user.
THEOREM AssertionsAreOwn == Spec => []AssertionIsOwn
<1>1. Init => AssertionIsOwn
  BY ResponseFields DEF Init, AssertionIsOwn
<1>2. StockInv /\ AssertionIsOwn /\ [Next]_vars => AssertionIsOwn'
  BY AssertionStep
<1> QED BY <1>1, <1>2, StockInvariant, PTL DEF Spec

-----------------------------------------------------------------------------
(* Types                                                                   *)

\* What is not yet said by the invariants above.
RestTypes ==
  /\ backend \in {"tpm", "memory"}
  /\ running \in BOOLEAN
  /\ lost \subseteq Ids
  /\ response.kind \in {"none", "error", "created", "assertion"}
  /\ response.name \in ErrorNames \cup {None}
  /\ response.id \in Ids \cup {None}
  /\ response.handle \in Users \cup {None}
  /\ granted \subseteq Params
  /\ reported \subseteq Ids
  /\ abandoned \subseteq Ids

LEMMA ResponseTypes ==
  /\ NoResponse.name = None /\ NoResponse.id = None /\ NoResponse.handle = None
  /\ \A name : Error(name).name = name /\ Error(name).id = None /\ Error(name).handle = None
  /\ \A id : Created(id).name = None /\ Created(id).id = id /\ Created(id).handle = None
  /\ \A id, h, l : Assertion(id, h, l).name = None
  BY DEF NoResponse, Error, Created, Assertion

LEMMA RestStep ==
  ASSUME StockInv, RestTypes, [Next]_vars PROVE RestTypes'
<1> USE ResponseFields, ResponseTypes DEF RestTypes, ErrorNames
<1> USE DEF keyVars, listVars, historyVars
<1>1. CASE Reject \/ Refused \/ RegisterFails
  BY <1>1 DEF Reject, Refused, RegisterFails, Respond
<1>2. ASSUME NEW l \in Lists, ExcludeHit(l) \/ NoCredentials(l) \/ GetFails(l)
      PROVE  RestTypes'
  BY <1>2 DEF ExcludeHit, NoCredentials, GetFails, Respond
<1>3. ASSUME NEW p \in Params, NEW t \in Timeouts, AskPresence(p, t) PROVE RestTypes'
  BY <1>3 DEF AskPresence, Respond
<1>4. ASSUME NEW r \in Requests, NEW a \in UP!Answers \ {"none"}, PromptEnds(r, a)
      PROVE  RestTypes'
  <2>1. params[r] \in Params
    BY DEF StockInv, Gate!PresenceInv, Gate!TypeOK
  <2> QED BY <1>4, <2>1 DEF PromptEnds
<1>5. ASSUME NEW r \in Requests, ResultDropped(r) PROVE RestTypes'
  BY <1>5 DEF ResultDropped
<1>6. CASE GateStep \/ UNCHANGED vars
  BY <1>6 DEF GateStep, vars, hostVars
<1>7. ASSUME NEW l \in Lists, NEW u \in Users, NEW b \in BOOLEAN, RegisterKey(l, u, b)
      PROVE  RestTypes'
  BY <1>7 DEF RegisterKey
<1>8. CASE SaveCredential \/ Launch
  BY <1>8 DEF SaveCredential, Launch
<1>9. CASE FinishCreate \/ PRFFails
  <2>1. newKey \in Ids
    BY <1>9 DEF FinishCreate, PRFFails, StockInv, KeyInv
  <2> QED BY <1>9, <2>1 DEF FinishCreate, PRFFails, Respond
<1>10. ASSUME NEW l \in Lists, SignAssertion(l) PROVE RestTypes'
  <2> DEFINE s == Candidates(l, wanted.rp)
  <2>1. wanted.rp \in RPs
    BY DEF StockInv, Gate!PresenceInv, Gate!TypeOK, Params
  <2>2. PICK i \in Usable(s, wanted.rp) : response' = Assertion(s[i].id, s[i].handle, l)
    BY <1>10 DEF SignAssertion, Respond
  <2>3. s[i].id \in Ids /\ s[i].handle \in Users \cup {None}
    BY <2>1, <2>2, CandidatesAreOwn
  <2> HIDE DEF s
  <2> QED BY <1>10, <2>2, <2>3 DEF SignAssertion
<1>11. CASE Stop
  <2>1. newKey \in Ids \cup {None}
    BY DEF StockInv, KeyInv
  <2> QED BY <1>11, <2>1 DEF Stop, HandlesLost, FreshIds
<1> QED BY <1>1, <1>2, <1>3, <1>4, <1>5, <1>6, <1>7, <1>8, <1>9, <1>10, <1>11
        DEF Next, HandlerStep, CreateStep, GetStep

\* In every behaviour the host's state has its type.
THEOREM HostTypes == Spec => []TypeOK
<1>1. Init => RestTypes
  BY HostAssumption, ResponseFields, ResponseTypes DEF Init, RestTypes
<1>2. StockInv /\ RestTypes /\ [Next]_vars => RestTypes'
  BY RestStep
<1>3. StockInv /\ RestTypes => TypeOK
  BY DEF StockInv, KeyInv, ListInv, RestTypes, TypeOK, UP!TypeOK, UP!Phases, UP!Answers,
     UP!Outcomes, Gate!PresenceInv, Gate!TypeOK, Gate!Phases, Gate!Answers, Gate!Outcomes
<1> QED BY <1>1, <1>2, <1>3, StockInvariant, PTL DEF Spec
=============================================================================
