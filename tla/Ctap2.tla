------------------------------- MODULE Ctap2 -------------------------------
(***************************************************************************)
(* The CTAP2 command interface of ctap2/: HandleCommand (ctap2.go),        *)
(* MakeCredential, GetAssertion and GetNextAssertion, the key agreement of *)
(* ClientPIN and the hmac-secret extension, on top of the presence gate    *)
(* (UserPresence), a signer (Signers) and the credential list.             *)
(*                                                                         *)
(* Commands come one at a time: the handler has no lock of its own.  The   *)
(* goroutine of a prompt may outlive the command that asked.  A command is *)
(* reduced to its client data hash, relying party and credential list;     *)
(* what it holds besides is drawn when the code looks at it.               *)
(*                                                                         *)
(* The hash is whatever the platform sends: unlike NativeHost's, it does   *)
(* not tell a registration from an assertion.                              *)
(***************************************************************************)
EXTENDS Signers, FiniteSets

CONSTANTS
  Hashes,          \* client data hashes of 32 bytes
  Registrations,   \* what MakeCredential asks for: relying party, user, "rk"
  Lists,           \* allowList and excludeList: sequences of handles
  AgreementKeys,   \* key pairs for the key agreement; two are enough
  Immediate,       \* the statuses commands that do nothing are answered with
  StorageFaults,   \* TRUE: Save may fail to write
  Requests, PromptTimeout, SendGrace

\* What the presence gate compares.
Params == [hash : Hashes, rp : RPs]

ASSUME CtapAssumption ==
  /\ Registrations \subseteq [rp : RPs, user : Users, rk : BOOLEAN]
  /\ \A l \in Lists : l \in Seq(Seq(Byte))
  /\ Immediate \subseteq {"Success", "InvalidCommand", "PINNotSet", "InvalidCBOR",
                          "InvalidParameter", "UnsupportedExtension"}
  /\ StorageFaults \in BOOLEAN
  /\ AgreementKeys # {}
  /\ {PromptTimeout, SendGrace} \subseteq Nat \ {0}
  /\ None \notin AgreementKeys \cup Params \cup Requests

VARIABLES
  activeRequest, phase, params, answer, timer, waiting, wanted, patience, outcome

\* The commands wait 30 s, exactly as long as the prompt stays open.
UP == INSTANCE UserPresence WITH
        Timeouts <- {PromptTimeout}, DefaultTimeout <- PromptTimeout

VARIABLES
  stage,           \* "idle", or what the running command waits for presence for
  matched,         \* GetAssertion: the candidates that passed the trial signature
  assertionState,  \* h.assertionState
  ecdhKey,         \* h.ecdhKey
  credentials,     \* the list in memory
  durable,         \* the list in the file
  response,        \* the last response; none while a command runs
  announced,       \* history: the keys getKeyAgreement has answered with
  granted,         \* history: operations the user confirmed and not yet done
  covered,         \* history: the confirmed operation a series belongs to
  tried            \* history: the handles of the series a response was built for

upVars == <<activeRequest, phase, params, answer, timer,
            waiting, wanted, patience, outcome>>
signerVars == <<backend, keys, lost>>
listVars == <<credentials, durable>>
agreementVars == <<ecdhKey, announced>>
seriesVars == <<matched, assertionState, covered, tried>>
vars == <<upVars, signerVars, listVars, agreementVars, seriesVars,
          stage, response, granted>>

\* The hmac-secret input of a request: the agreement key the platform used
\* and how the code finds the rest of it.
Forms == {"valid",      \* made with that key, one or two salts
          "unaligned",  \* made with that key, the salts are no whole blocks
          "refused",    \* no EC2 key on P-256, no saltAuth or salts of its size
          "off curve"}  \* the platform's point is not on the curve
NoExtension == [key |-> None, form |-> "absent"]
Extensions ==
  {NoExtension} \cup [key : AgreementKeys, form : {"valid", "unaligned"}]
    \cup [key : {None}, form : {"refused", "off curve"}]

Candidate == [handle : Seq(Byte), user : Users \cup {None}]

NoState == [credentials |-> <<>>, index |-> 0, params |-> None, ext |-> NoExtension]

Statuses ==
  {"none", "Success", "InvalidCommand", "InvalidCBOR", "InvalidParameter",
   "UnsupportedExtension", "CredentialExcluded", "OperationDenied",
   "UserActionTimeout", "NoCredentials", "NotAllowed", "PINNotSet",
   "ExtensionFirst", "Other"}

NoResponse == [status |-> "none", handle |-> None, user |-> None,
               params |-> None, ext |-> NoExtension]
Status(s) == [NoResponse EXCEPT !.status = s]
Assertion(c, p) ==
  [status |-> "Success", handle |-> c.handle, user |-> c.user, params |-> p,
   ext |-> NoExtension]

TypeOK ==
  /\ UP!TypeOK
  /\ backend \in {"tpm", "memory"}
  /\ keys \in [Ids -> [rp : RPs, user : Users] \cup {None}]
  /\ lost \subseteq Ids
  /\ credentials \in Seq(Credential) /\ durable \in Seq(Credential)
  /\ stage \in {"idle", "make", "get"}
  /\ matched \in Seq(Candidate)
  /\ assertionState.credentials \in Seq(Candidate)
  /\ assertionState.index \in 0 .. Len(assertionState.credentials)
  /\ assertionState.params \in Params \cup {None}
  /\ assertionState.ext \in Extensions
  /\ ecdhKey \in AgreementKeys \cup {None}
  /\ response.status \in Statuses
  /\ announced \subseteq AgreementKeys
  /\ granted \subseteq Params
  /\ covered \in Params \cup {None}
  /\ tried \subseteq Seq(Byte)

Init ==
  /\ UP!Init
  /\ backend \in {"tpm", "memory"}
  /\ keys = [id \in Ids |-> None]
  /\ lost = {}
  /\ credentials = <<>>
  /\ durable = <<>>
  /\ stage = "idle"
  /\ matched = <<>>
  /\ assertionState = NoState
  /\ ecdhKey = None
  /\ response = NoResponse
  /\ announced = {}
  /\ granted = {}
  /\ covered = None
  /\ tried = {}

-----------------------------------------------------------------------------
(* Answers that look at nothing and change nothing                         *)

\* Only the chip's calls fail for passing reasons (open, CreatePrimary, ...).
SignerMayFail == backend = "tpm"

Respond(r) == response' = r /\ stage' = "idle"

\* getInfo, commands and subcommands there are none of, CBOR that does not
\* decode (a GetAssertion's too: the state of the last one is kept), and a
\* MakeCredential without a hash of 32 bytes or ES256.
Answer(s) ==
  /\ stage = "idle"
  /\ Respond(Status(s))
  /\ UNCHANGED <<upVars, signerVars, listVars, agreementVars, seriesVars, granted>>


-----------------------------------------------------------------------------
(* The presence gate, as both commands use it                              *)

\* ConfirmPresence: refused at once, or the command waits.
AskPresence(p, s) ==
  /\ UP!ConfirmPresence(p, PromptTimeout)
  /\ IF outcome' = "busy"
     THEN Respond(Status("OperationDenied"))
     ELSE response' = NoResponse /\ stage' = s

\* Fault: only the prompt's answer ends the command.
RefusedIfDenied ==
  /\ stage # "idle" /\ waiting = None /\ outcome = "denied"
  /\ Respond(Status("OperationDenied"))
  /\ matched' = <<>>
  /\ UNCHANGED <<upVars, signerVars, listVars, agreementVars,
                 assertionState, covered, tried, granted>>

\* The wait ends without a confirmation.
Refused ==
  /\ stage # "idle" /\ waiting = None /\ outcome # "ok"
  /\ Respond(Status(IF outcome = "timeout" THEN "UserActionTimeout"
                                           ELSE "OperationDenied"))
  /\ matched' = <<>>
  /\ UNCHANGED <<upVars, signerVars, listVars, agreementVars,
                 assertionState, covered, tried, granted>>

\* Fault: the end of the wait is taken for a confirmation.
WaitEnded(s) == stage = s /\ waiting = None /\ outcome \in {"ok", "timeout"}

Confirmed(s) == stage = s /\ waiting = None /\ outcome = "ok"

-----------------------------------------------------------------------------
(* MakeCredential                                                          *)

Excluded(l, rp) == \E i \in DOMAIN l : SignASN1(l[i], rp)

\* An entry signs: the command ends here, and the user is not asked.
ExcludeHit(p, l) ==
  /\ stage = "idle"
  /\ Excluded(l, p.rp)
  /\ Respond(Status("CredentialExcluded"))
  /\ UNCHANGED <<upVars, signerVars, listVars, agreementVars, seriesVars, granted>>

AskMake(p, l) ==
  /\ stage = "idle"
  /\ \E q \in Registrations : q.rp = p.rp
  /\ Made # Ids                      \* bound: the key pairs of the model
  /\ ~Excluded(l, p.rp) \/ SignerMayFail
  /\ AskPresence(p, "make")
  /\ UNCHANGED <<signerVars, listVars, agreementVars, seriesVars, granted>>

\* RegisterKey draws a new pair (which one does not matter), and Save changes
\* the list in memory in any case; its error is logged and forgotten.  What
\* follows (public key, attestation, CBOR) is taken to succeed.
MakeCredential(q) ==
  /\ Confirmed("make")
  /\ q.rp = wanted.rp
  /\ LET id == CHOOSE i \in Ids \ Made : TRUE
         new == [rp |-> q.rp, user |-> q.user, id |-> id]
     IN  /\ keys' = [keys EXCEPT ![id] = [rp |-> q.rp, user |-> q.user]]
         /\ credentials' = IF q.rk THEN Stored(credentials, new) ELSE credentials
  /\ durable' \in IF q.rk
                  THEN {credentials'} \cup (IF StorageFaults THEN {durable} ELSE {})
                  ELSE {durable}
  /\ granted' = granted \ {wanted}
  /\ Respond(Status("Success"))
  /\ UNCHANGED <<upVars, backend, lost, agreementVars, seriesVars>>

RegisterFails ==
  /\ Confirmed("make") /\ SignerMayFail
  /\ granted' = granted \ {wanted}
  /\ Respond(Status("Other"))
  /\ UNCHANGED <<upVars, signerVars, listVars, agreementVars, seriesVars>>

-----------------------------------------------------------------------------
(* GetAssertion: the look-up, then presence                                *)

\* Fault: the state of the last GetAssertion is kept.
KeepState == UNCHANGED <<assertionState>>

\* h.assertionState = nil, the first thing GetAssertion does.
ClearState == assertionState' = NoState

\* The histories of a series end with the next GetAssertion.
NewSeries == covered' = None /\ tried' = {}

\* Fault: every entry gets the user of the last one.
CandidatesOneUser(l, rp) ==
  IF l # <<>>
  THEN [i \in DOMAIN l |-> [handle |-> l[i], user |-> None]]
  ELSE LET found == GetByRPID(credentials, rp)
       IN  [i \in found |->
              [handle |-> Handle(credentials[i].id),
               user |-> credentials[CHOOSE j \in found : \A k \in found : k <= j].user]]

\* The credentials looked at, each at its place and with the user its response
\* will name.
Candidates(l, rp) ==
  IF l # <<>>
  THEN [i \in DOMAIN l |-> [handle |-> l[i], user |-> None]]
  ELSE [i \in GetByRPID(credentials, rp) |->
          [handle |-> Handle(credentials[i].id), user |-> credentials[i].user]]

\* The one way to go through places in their order.
InOrder(P) ==
  {f \in [1 .. Cardinality(P) -> P] : \A i, j \in DOMAIN f : i < j => f[i] < f[j]}

\* Those whose trial signature succeeds: the first one of an allow list, all
\* of the stored ones.
Matches(l, rp) ==
  LET s == Candidates(l, rp)
      good == {i \in DOMAIN s : SignASN1(s[i].handle, rp)}
      Taken(P) == IF l # <<>> THEN {i \in P : \A j \in P : i <= j} ELSE P
  IN  {[k \in DOMAIN f |-> s[f[k]]] :
         f \in UNION {InOrder(Taken(P)) :
                        P \in IF SignerMayFail THEN SUBSET good ELSE {good}}}

\* A client data hash that is not 32 bytes long: only the state is cleared.
BadHash ==
  /\ stage = "idle"
  /\ ClearState /\ NewSeries
  /\ Respond(Status("InvalidParameter"))
  /\ UNCHANGED <<upVars, signerVars, listVars, agreementVars, matched, granted>>

NoCredentials(p, l) ==
  /\ stage = "idle"
  /\ <<>> \in Matches(l, p.rp)
  /\ ClearState /\ NewSeries
  /\ Respond(Status("NoCredentials"))
  /\ UNCHANGED <<upVars, signerVars, listVars, agreementVars, matched, granted>>

AskGet(p, l) ==
  /\ stage = "idle"
  /\ \E m \in Matches(l, p.rp) \ {<<>>} :
       /\ AskPresence(p, "get")
       /\ matched' = IF outcome' = "busy" THEN <<>> ELSE m
  /\ ClearState /\ NewSeries
  /\ UNCHANGED <<signerVars, listVars, agreementVars, granted>>

-----------------------------------------------------------------------------
(* hmac-secret, and building a response                                    *)

\* processHmacSecret returns an error.
HmacFails(ext, c) ==
  /\ ext # NoExtension
  /\ \/ ext.form = "refused"
     \/ ecdhKey = None
     \/ ext.form # "off curve" /\ ext.key # ecdhKey
     \/ ext.form = "valid" /\ ~Derives(c.handle)

\* ScalarMult or CryptBlocks panics, which nothing recovers.
HmacPanics(ext) ==
  /\ ecdhKey # None
  /\ \/ ext.form = "off curve"
     \/ ext.form = "unaligned" /\ ext.key = ecdhKey

\* buildAssertionResponse and buildNonResidentAssertionResponse, as far as
\* they return.
BuildResponse(c, p, ext) ==
  /\ tried' = tried \cup {c.handle}
  /\ \/ /\ HmacFails(ext, c)
        /\ Respond([Status("ExtensionFirst") EXCEPT !.ext = ext])
     \/ /\ ~HmacFails(ext, c) /\ ~HmacPanics(ext)
        /\ SignASN1(c.handle, p.rp)
        /\ Respond(Assertion(c, p))
     \/ /\ ~HmacFails(ext, c) /\ ~HmacPanics(ext)
        /\ SignerMayFail \/ ~SignASN1(c.handle, p.rp)
        /\ Respond(Status("Other"))

-----------------------------------------------------------------------------
(* GetAssertion after presence, and GetNextAssertion                       *)

\* Several credentials: the state is set before the first response is built,
\* and stays when that fails.
StartSeries(ext) ==
  IF Len(matched) > 1
  THEN /\ assertionState' = [credentials |-> matched, index |-> 0,
                             params |-> wanted, ext |-> ext]
       /\ covered' = wanted
  ELSE UNCHANGED <<assertionState, covered>>

GetAssertion(ext) ==
  /\ Confirmed("get")
  /\ StartSeries(ext)
  /\ BuildResponse(matched[1], wanted, ext)
  /\ matched' = <<>>
  /\ granted' = granted \ {wanted}
  /\ UNCHANGED <<upVars, signerVars, listVars, agreementVars>>

\* currentIndex counts from 0.
CredentialAt(i) == assertionState.credentials[i + 1]

\* Fault: the credential is read before the index is advanced.
NextOffAgain ==
  /\ assertionState.index + 1 < Len(assertionState.credentials)
  /\ assertionState' = [assertionState EXCEPT !.index = @ + 1]
  /\ BuildResponse(CredentialAt(assertionState.index), assertionState.params,
                   assertionState.ext)
  /\ UNCHANGED covered

\* The next credential of the series.
NextOf ==
  /\ assertionState.index + 1 < Len(assertionState.credentials)
  /\ assertionState' = [assertionState EXCEPT !.index = @ + 1]
  /\ BuildResponse(CredentialAt(assertionState.index + 1), assertionState.params,
                   assertionState.ext)
  /\ UNCHANGED covered

\* Fault: the last credential is left out.
EndsEarly ==
  /\ assertionState.index + 2 >= Len(assertionState.credentials)
  /\ Respond(Status("NotAllowed"))
  /\ ClearState /\ NewSeries

\* Fault: the state is not dropped at the end.
EndKeepsState ==
  /\ assertionState.index + 1 >= Len(assertionState.credentials)
  /\ Respond(Status("NotAllowed"))
  /\ assertionState' = [assertionState EXCEPT !.index = @ + 1]
  /\ UNCHANGED <<covered, tried>>

\* No state, or no credential left: the state is dropped.
EndOf ==
  /\ assertionState.index + 1 >= Len(assertionState.credentials)
  /\ Respond(Status("NotAllowed"))
  /\ ClearState /\ NewSeries

GetNextAssertion ==
  /\ stage = "idle"
  /\ NextOf \/ EndOf
  /\ UNCHANGED <<upVars, signerVars, listVars, agreementVars, matched, granted>>

-----------------------------------------------------------------------------
(* ClientPIN getKeyAgreement                                               *)

\* Fault: every call draws a new pair, as its comments say.
FreshPublicKey == ecdhKey' = CHOOSE k \in AgreementKeys : k # ecdhKey

\* GetECDHPublicKey: a pair is drawn (which one does not matter) and kept.
GetECDHPublicKey ==
  ecdhKey' = IF ecdhKey = None THEN CHOOSE k \in AgreementKeys : TRUE ELSE ecdhKey

GetKeyAgreement ==
  /\ stage = "idle"
  /\ GetECDHPublicKey
  /\ announced' = announced \cup {ecdhKey'}
  /\ Respond(Status("Success"))
  /\ UNCHANGED <<upVars, signerVars, listVars, seriesVars, granted>>

-----------------------------------------------------------------------------
(* The gate's own steps, and the life of the process                       *)

\* The prompt's tool ends; the history notes what the user confirmed.
PromptEnds(r, a) ==
  /\ UP!EndPrompt(r, a)
  /\ a = "expired" => timer[r] = 0
  /\ granted' = IF a = "confirmed" THEN granted \cup {params[r]} ELSE granted
  /\ UNCHANGED <<signerVars, listVars, agreementVars, seriesVars, stage, response>>

\* A result nobody receives is dropped, and the consent with it.
ResultDropped(r) ==
  /\ UP!GiveUp(r)
  /\ granted' = granted \ {params[r]}
  /\ UNCHANGED <<signerVars, listVars, agreementVars, seriesVars, stage, response>>

GateStep ==
  /\ \/ UP!ClientTimeout \/ UP!Tick
     \/ \E r \in Requests : UP!Deliver(r) \/ UP!ClearActive(r)
  /\ UNCHANGED <<signerVars, listVars, agreementVars, seriesVars, stage,
                 response, granted>>

\* The process ends and a new one starts: the list is the file's, the master
\* key of the memory backend and everything of the handler are gone.
NewProcess ==
  /\ activeRequest' = None
  /\ phase' = [r \in Requests |-> "done"]
  /\ answer' = [r \in Requests |-> "none"]
  /\ timer' = [r \in Requests |-> 0]
  /\ waiting' = None
  /\ patience' = 0
  /\ outcome' = "none"
  /\ UNCHANGED <<params, wanted>>
  /\ lost' = HandlesLost
  /\ credentials' = durable
  /\ stage' = "idle"
  /\ matched' = <<>>
  /\ ClearState /\ NewSeries
  /\ ecdhKey' = None
  /\ announced' = {}
  /\ response' = NoResponse
  /\ granted' = {}
  /\ UNCHANGED <<backend, keys, durable>>

Restart == NewProcess

\* The input of a confirmed GetAssertion, or of the state, makes the process
\* panic.
Panic ==
  /\ \/ Confirmed("get") /\ \E ext \in Extensions : HmacPanics(ext)
     \/ /\ stage = "idle" /\ HmacPanics(assertionState.ext)
        /\ assertionState.index + 1 < Len(assertionState.credentials)
  /\ NewProcess

-----------------------------------------------------------------------------
CommandStep ==
  \/ Refused
  \/ \E q \in Registrations : MakeCredential(q)
  \/ RegisterFails
  \/ \E ext \in Extensions : GetAssertion(ext)

HandleCommand ==
  \/ \E s \in Immediate : Answer(s)
  \/ \E p \in Params, l \in Lists :
       ExcludeHit(p, l) \/ AskMake(p, l) \/ NoCredentials(p, l) \/ AskGet(p, l)
  \/ BadHash \/ GetNextAssertion \/ GetKeyAgreement

Next ==
  \/ HandleCommand \/ CommandStep
  \/ \E r \in Requests : ResultDropped(r) \/ \E a \in UP!Answers \ {"none"} : PromptEnds(r, a)
  \/ GateStep
  \/ Restart \/ Panic

\* Fair: the steps of the running command, of the goroutines and of the clock.
Fairness ==
  /\ WF_vars(CommandStep)
  /\ WF_vars(GateStep)
  /\ \A r \in Requests : WF_vars(ResultDropped(r)) /\ WF_vars(PromptEnds(r, "expired"))

Spec == Init /\ [][Next]_vars /\ Fairness

-----------------------------------------------------------------------------
(* Safety                                                                  *)

ListedHandles == UNION {{l[i] : i \in DOMAIN l} : l \in Lists}

\* Whatever a platform puts into a list, only handles this signer has made
\* for the relying party sign, all of them and byte for byte (the trial
\* signatures of getassertion.go:42 and makecredential.go:46 rely on it).
HandlesExact ==
  \A h \in ListedHandles \cup {Handle(id) : id \in Ids}, rp \in RPs : SignsExactly(h, rp)

\* A step that does what the user has to be asked for.
Operates ==
  \/ keys' # keys
  \/ stage = "get" /\ stage' = "idle" /\ response'.params # None

Continues == stage = "idle" /\ response' # response /\ response'.params # None

Consented ==
  /\ Operates => wanted \in granted /\ wanted \notin granted'
  /\ Operates /\ response'.params # None => response'.params = wanted
  /\ Continues => covered # None /\ response'.params = covered

\* A registration and a first assertion use up a confirmation of their own
\* hash and relying party; the assertions that follow it are made for just
\* that operation, and for none any more once another GetAssertion has begun,
\* whatever commands and late answers came between (getassertion.go:16,
\* ctap2.go:218-242).
ConsentForEachOperation == [][Consented]_vars

\* An assertion is signed with a live key of the relying party it is for, and
\* names the user of that very key: the credentials of a series are still
\* good when their turn comes, replaced or not.
AssertionIsOwn ==
  response.params # None =>
    \E id \in Ids :
      /\ response.handle = Handle(id)
      /\ Usable(id, response.params.rp)
      /\ response.user \in {None, keys[id].user}

\* The next assertion of a series.
FollowsSeries ==
  /\ assertionState # NoState
  /\ assertionState'.index > assertionState.index
  /\ response'.params # None

\* No credential comes twice in a series (ctap2.go:227-241).
NoAssertionTwice == [][FollowsSeries => response'.handle \notin tried]_vars

SeriesEnds ==
  /\ assertionState # NoState /\ assertionState' = NoState
  /\ response'.status = "NotAllowed"

SeriesHandles ==
  {assertionState.credentials[i].handle : i \in DOMAIN assertionState.credentials}

\* A series says it has ended only when each of the credentials announced by
\* numberOfCredentials has had its turn.
AllAnnouncedTried == [][SeriesEnds => SeriesHandles = tried]_vars

\* A good hmac-secret input made with a key this process has announced is not
\* refused, be it in the third response of a series, and however often the
\* key was asked for in between (hmacsecret.go:56, 144-158).
AnnouncedKeyWorks ==
  response.status = "ExtensionFirst" =>
    ~(response.ext.form = "valid" /\ response.ext.key \in announced)

(* Liveness                                                                *)

\* Every command is answered, or the process ends: also where the command's
\* 30 s and the prompt's end together.
CommandAnswered == stage # "idle" ~> stage = "idle"
=============================================================================
