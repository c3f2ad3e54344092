----------------------------- MODULE NativeHost -----------------------------
(***************************************************************************)
(* The native-messaging host as one process: the loop of tpmfido.go, the   *)
(* handlers of webauthn/handler.go, MakeCredentialDirect and               *)
(* GetAssertionDirect of ctap2/, the presence gate (UserPresence), the     *)
(* signer backends and the list of resident credentials.                   *)
(*                                                                         *)
(* The loop handles one request at a time; the goroutine of a prompt may   *)
(* outlive the request that started it and meet the next one.  A request   *)
(* is reduced to what the gate compares (its type and relying party, which *)
(* make up clientDataHash and rpIDHash with the challenge).  Options the   *)
(* handler looks at only after the gate are drawn when it does.            *)
(*                                                                         *)
(* A key handle carries its wrapped key, so signing with it works whenever *)
(* the handle was made for the relying party and the wrapping key still    *)
(* exists: always with the TPM, until the process ends with the memory     *)
(* backend.  CredentialStorage justifies taking Save as one step that      *)
(* reaches the disk as a whole or not at all.                              *)
(***************************************************************************)
EXTENDS CredentialList, FiniteSets

CONSTANTS
  Challenges,      \* challenges of requests
  Lists,           \* allowCredentials and excludeCredentials, as sent
  Backends,        \* subset of {"tpm", "memory"}
  SignerFaults,    \* TRUE: a call of the signer may fail
  StorageFaults,   \* TRUE: Save may fail to write
  Requests, Timeouts, PromptTimeout, SendGrace, DefaultTimeout, None

\* What decides clientDataHash and rpIDHash.
Params == [type : {"create", "get"}, rp : RPs, challenge : Challenges]

\* An entry of an ID list: decodable is whether RawURLEncoding accepts it.
Entry == [id : Ids, decodable : BOOLEAN]

ASSUME HostAssumption ==
  /\ Lists \subseteq Seq(Entry)
  /\ Backends \subseteq {"tpm", "memory"}
  /\ SignerFaults \in BOOLEAN
  /\ StorageFaults \in BOOLEAN
  /\ None \notin Ids \cup Users \cup Requests \cup [rp : RPs, user : Users]
  /\ {PromptTimeout, SendGrace, DefaultTimeout} \subseteq Nat \ {0}
  /\ Timeouts \subseteq Nat

VARIABLES
  activeRequest, phase, params, answer, timer, waiting, wanted, patience, outcome

UP == INSTANCE UserPresence

VARIABLES
  backend,      \* the -backend flag
  running,      \* the process exists
  stage,        \* where the loop is in the handling of a request
  newKey,       \* the credential ID the running create has made, or None
  keys,         \* what the key handles were made for: [rp, user], or None
  lost,         \* IDs whose wrapping key is gone
  credentials,  \* the list in memory
  durable,      \* the list in the file
  response,     \* the last response written; none while a request is handled
  granted,      \* history: operations the user confirmed and not yet done
  reported,     \* history: IDs a success response has named
  abandoned     \* history: IDs whose create ended without one

upVars == <<activeRequest, phase, params, answer, timer,
            waiting, wanted, patience, outcome>>
keyVars == <<keys, lost, newKey>>
listVars == <<credentials, durable>>
historyVars == <<granted, reported, abandoned>>
hostVars == <<backend, running, stage, keyVars, listVars, response, historyVars>>
vars == <<upVars, hostVars>>

Stages == {"idle", "waiting", "save", "finish"}
ErrorNames ==
  {"NotAllowedError", "InvalidStateError", "TypeError", "UnknownError"}

NoResponse ==
  [kind |-> "none", name |-> None, id |-> None, handle |-> None, list |-> <<>>]
Error(name) == [NoResponse EXCEPT !.kind = "error", !.name = name]
Created(id) == [NoResponse EXCEPT !.kind = "created", !.id = id]
Assertion(id, handle, l) ==
  [NoResponse EXCEPT !.kind = "assertion", !.id = id, !.handle = handle, !.list = l]

TypeOK ==
  /\ UP!TypeOK
  /\ backend \in {"tpm", "memory"}
  /\ running \in BOOLEAN
  /\ stage \in Stages
  /\ newKey \in Ids \cup {None}
  /\ keys \in [Ids -> [rp : RPs, user : Users] \cup {None}]
  /\ lost \subseteq Ids
  /\ credentials \in Seq(Credential)
  /\ durable \in Seq(Credential)
  /\ response.kind \in {"none", "error", "created", "assertion"}
  /\ response.name \in ErrorNames \cup {None}
  /\ response.id \in Ids \cup {None}
  /\ response.handle \in Users \cup {None}
  /\ granted \subseteq Params
  /\ reported \subseteq Ids
  /\ abandoned \subseteq Ids

Init ==
  /\ UP!Init
  /\ backend \in Backends
  /\ running = FALSE
  /\ stage = "idle"
  /\ newKey = None
  /\ keys = [id \in Ids |-> None]
  /\ lost = {}
  /\ credentials = <<>>
  /\ durable = <<>>
  /\ response = NoResponse
  /\ granted = {}
  /\ reported = {}
  /\ abandoned = {}

-----------------------------------------------------------------------------
(* The signer backends                                                     *)

\* SignASN1 finds the key in the handle: the relying party's hash is part of
\* the parent key's template (TPM) or of the sealed data (memory).
CanSign(id, rp) == keys[id] # None /\ id \notin lost /\ keys[id].rp = rp

\* Handles never made before.
FreshIds == {id \in Ids : keys[id] = None}

\* RegisterKey of a backend: a new key pair, wrapped for the relying party.
\* (The user is the handler's; it is kept here for the properties.)
HandleMade(id, rp, u) == keys' = [keys EXCEPT ![id] = [rp |-> rp, user |-> u]]

\* The handles the end of the process makes useless: memory.New draws a new
\* master key every time, the TPM derives its parent key from its own seed.
HandlesLost == IF backend = "memory" THEN Ids \ FreshIds ELSE lost

-----------------------------------------------------------------------------
(* Reading a request, and the presence gate                                *)

Respond(r) == response' = r /\ stage' = "idle"

\* Envelope, type, options, challenge, user ID or algorithms are refused
\* (39-93 and 228-241): nothing but the response changes.
Reject ==
  /\ running /\ stage = "idle"
  /\ Respond(Error("TypeError"))
  /\ UNCHANGED <<upVars, backend, running, keyVars, listVars, historyVars>>

\* The handler asks for presence.  An error of ConfirmPresence is answered
\* as a denial; else the handler waits.
AskPresence(p, t) ==
  /\ running /\ stage = "idle"
  /\ p.type = "create" => FreshIds # {}   \* bound: the IDs of the model
  /\ UP!ConfirmPresence(p, t)
  /\ IF outcome' = "busy"
     THEN Respond(Error("NotAllowedError"))
     ELSE response' = NoResponse /\ stage' = "waiting"
  /\ UNCHANGED <<backend, running, keyVars, listVars, historyVars>>

\* Fault: an expired wait is forgotten.
RefusedIfDenied ==
  /\ stage = "waiting" /\ waiting = None /\ outcome = "denied"
  /\ Respond(Error("NotAllowedError"))
  /\ UNCHANGED <<upVars, backend, running, keyVars, listVars, historyVars>>

\* The wait has ended without a confirmation: denied, or timed out.
Refused ==
  /\ stage = "waiting" /\ waiting = None /\ outcome # "ok"
  /\ Respond(Error("NotAllowedError"))
  /\ UNCHANGED <<upVars, backend, running, keyVars, listVars, historyVars>>

\* Fault: a timeout is taken for a confirmation.
ConfirmedOrLate(type) ==
  /\ stage = "waiting" /\ waiting = None /\ wanted.type = type
  /\ outcome \in {"ok", "timeout"}

\* The wait has ended with a confirmation of this request.
Confirmed(type) ==
  stage = "waiting" /\ waiting = None /\ outcome = "ok" /\ wanted.type = type

-----------------------------------------------------------------------------
(* create: MakeCredentialDirect                                            *)

\* The places of the entries that survive the decoding loop (121-128, 289-296).
Decoded(l) == {i \in DOMAIN l : l[i].decodable}

\* The trial signature of the exclude loop succeeds for some entry.
Excluded(l, rp) == \E i \in Decoded(l) : CanSign(l[i].id, rp)

\* Fault: the exclude list is looked at after the key has been made.
ExcludeHitLate(l) ==
  /\ Confirmed("create")
  /\ Excluded(l, wanted.rp)
  /\ \E id \in FreshIds, u \in Users :
       HandleMade(id, wanted.rp, u)
  /\ Respond(Error("InvalidStateError"))
  /\ granted' = granted \ {wanted}
  /\ UNCHANGED <<upVars, backend, running, lost, newKey, listVars, reported, abandoned>>

ExcludeHit(l) ==
  /\ Confirmed("create")
  /\ Excluded(l, wanted.rp)
  /\ Respond(Error("InvalidStateError"))
  /\ granted' = granted \ {wanted}
  /\ UNCHANGED <<upVars, backend, running, keyVars, listVars, reported, abandoned>>

\* No trial signature succeeds, be it that the signer failed, and RegisterKey
\* makes a handle.  Only a resident credential is saved.
RegisterKey(l, u, resident) ==
  /\ Confirmed("create")
  /\ ~Excluded(l, wanted.rp) \/ SignerFaults
  /\ \E id \in FreshIds :
       /\ newKey' = id
       /\ HandleMade(id, wanted.rp, u)
  /\ stage' = IF resident THEN "save" ELSE "finish"
  /\ granted' = granted \ {wanted}
  /\ UNCHANGED <<upVars, backend, running, lost, listVars, response,
                 reported, abandoned>>

RegisterFails ==
  /\ Confirmed("create") /\ SignerFaults
  /\ Respond(Error("UnknownError"))
  /\ granted' = granted \ {wanted}
  /\ UNCHANGED <<upVars, backend, running, keyVars, listVars, reported, abandoned>>

\* Fault: the fields are filled in the wrong order.
NewCredentialSwapped ==
  [rp |-> keys[newKey].user, user |-> keys[newKey].rp, id |-> newKey]

\* Fault: every credential is stored for the same user.
NewCredentialOneUser ==
  [rp |-> keys[newKey].rp, user |-> CHOOSE u \in Users : TRUE, id |-> newKey]

NewCredential == [rp |-> keys[newKey].rp, user |-> keys[newKey].user, id |-> newKey]

\* storage.Save: the list in memory changes in any case, and an error is
\* logged and forgotten (259-275).
SaveCredential ==
  /\ stage = "save"
  /\ credentials' = Stored(credentials, NewCredential)
  /\ durable' \in {credentials'} \cup (IF StorageFaults THEN {durable} ELSE {})
  /\ stage' = "finish"
  /\ UNCHANGED <<upVars, backend, running, keyVars, response, historyVars>>

\* No PRF requested, or salts that decode: the response names the credential.
FinishCreate ==
  /\ stage = "finish"
  /\ Respond(Created(newKey))
  /\ reported' = reported \cup {newKey}
  /\ newKey' = None
  /\ UNCHANGED <<upVars, backend, running, keys, lost, listVars, granted, abandoned>>

\* A PRF salt that does not decode, or a handle without a seed, is found only
\* now that the credential exists (192-196, 385-413).
PRFFails ==
  /\ stage = "finish"
  /\ \E name \in {"TypeError"} \cup (IF SignerFaults THEN {"UnknownError"} ELSE {}) :
       Respond(Error(name))
  /\ abandoned' = abandoned \cup {newKey}
  /\ newKey' = None
  /\ UNCHANGED <<upVars, backend, running, keys, lost, listVars, granted, reported>>

-----------------------------------------------------------------------------
(* get: GetAssertionDirect                                                 *)

\* The credentials tried, each at its place and with the user handle a
\* success would give: the decoded list, or the stored ones of the relying party.
Candidates(l, rp) ==
  IF Decoded(l) # {}
  THEN [i \in Decoded(l) |-> [id |-> l[i].id, handle |-> None]]
  ELSE [i \in GetByRPID(credentials, rp) |->
          [id |-> credentials[i].id, handle |-> credentials[i].user]]

\* Fault: the first candidate is taken untried.
UsableUntried(s, rp) == {i \in DOMAIN s : \A j \in DOMAIN s : i <= j}

\* The loop takes the first candidate whose trial signature succeeds.
Usable(s, rp) ==
  {i \in DOMAIN s :
     /\ CanSign(s[i].id, rp)
     /\ SignerFaults \/ \A j \in DOMAIN s : CanSign(s[j].id, rp) => i <= j}

\* The second signature succeeds too.
SignAssertion(l) ==
  /\ Confirmed("get")
  /\ LET s == Candidates(l, wanted.rp)
     IN  \E i \in Usable(s, wanted.rp) : Respond(Assertion(s[i].id, s[i].handle, l))
  /\ granted' = granted \ {wanted}
  /\ UNCHANGED <<upVars, backend, running, keyVars, listVars, reported, abandoned>>

\* No candidate can sign.
NoCredentials(l) ==
  /\ Confirmed("get")
  /\ SignerFaults \/ Usable(Candidates(l, wanted.rp), wanted.rp) = {}
  /\ Respond(Error("NotAllowedError"))
  /\ granted' = granted \ {wanted}
  /\ UNCHANGED <<upVars, backend, running, keyVars, listVars, reported, abandoned>>

\* A candidate is found, and then evalByCredential comes without a usable
\* list or a salt does not decode (329-355), or the signer fails.
GetFails(l) ==
  /\ Confirmed("get")
  /\ Usable(Candidates(l, wanted.rp), wanted.rp) # {}
  /\ \E name \in {"TypeError"} \cup (IF SignerFaults THEN {"UnknownError"} ELSE {}) :
       Respond(Error(name))
  /\ granted' = granted \ {wanted}
  /\ UNCHANGED <<upVars, backend, running, keyVars, listVars, reported, abandoned>>

-----------------------------------------------------------------------------
(* The gate's own steps, and the life of the process                       *)

\* The prompt's tool ends; the history notes what the user confirmed.
PromptEnds(r, a) ==
  /\ running
  /\ UP!EndPrompt(r, a)
  /\ a = "expired" => timer[r] = 0
  /\ granted' = IF a = "confirmed" THEN granted \cup {params[r]} ELSE granted
  /\ UNCHANGED <<backend, running, stage, keyVars, listVars, response,
                 reported, abandoned>>

\* A result nobody receives is dropped, and the consent with it.
ResultDropped(r) ==
  /\ running
  /\ UP!GiveUp(r)
  /\ granted' = granted \ {params[r]}
  /\ UNCHANGED <<backend, running, stage, keyVars, listVars, response,
                 reported, abandoned>>

GateStep ==
  /\ running
  /\ \/ UP!ClientTimeout \/ UP!Tick
     \/ \E r \in Requests : UP!Deliver(r) \/ UP!ClearActive(r)
  /\ UNCHANGED hostVars

\* Fault: the file is not loaded.
LaunchEmpty ==
  /\ ~running
  /\ running' = TRUE
  /\ credentials' = <<>>
  /\ UNCHANGED <<upVars, backend, stage, keyVars, durable, response, historyVars>>

\* main: the gate is new, the list is the file's.
Launch ==
  /\ ~running
  /\ running' = TRUE
  /\ credentials' = durable
  /\ UNCHANGED <<upVars, backend, stage, keyVars, durable, response, historyVars>>

\* The process ends at any point: the port closed, a write failed, a kill.
\* The memory backend's wrapping key goes with it.
Stop ==
  /\ running
  /\ running' = FALSE
  /\ activeRequest' = None
  /\ phase' = [r \in Requests |-> "done"]
  /\ waiting' = None
  /\ patience' = 0
  /\ answer' = [r \in Requests |-> "none"]
  /\ timer' = [r \in Requests |-> 0]
  /\ outcome' = "none"
  /\ UNCHANGED <<params, wanted>>
  /\ stage' = "idle"
  /\ newKey' = None
  /\ abandoned' = abandoned \cup ({newKey} \ {None})
  /\ lost' = HandlesLost
  /\ credentials' = <<>>
  /\ response' = NoResponse
  /\ granted' = {}
  /\ UNCHANGED <<backend, keys, durable, reported>>

-----------------------------------------------------------------------------
CreateStep ==
  \/ \E l \in Lists : ExcludeHit(l)
  \/ \E l \in Lists, u \in Users, b \in BOOLEAN : RegisterKey(l, u, b)
  \/ RegisterFails \/ SaveCredential \/ FinishCreate \/ PRFFails

GetStep == \E l \in Lists : SignAssertion(l) \/ NoCredentials(l) \/ GetFails(l)

HandlerStep == Refused \/ CreateStep \/ GetStep

Next ==
  \/ Launch \/ Stop
  \/ Reject
  \/ \E p \in Params, t \in Timeouts : AskPresence(p, t)
  \/ HandlerStep
  \/ \E r \in Requests : ResultDropped(r) \/ \E a \in UP!Answers \ {"none"} : PromptEnds(r, a)
  \/ GateStep

\* Fair: the steps of the loop, of the goroutines and of the clock.  Not fair:
\* the user, the extension, the start and the end of the process.
Fairness ==
  /\ WF_vars(HandlerStep)
  /\ WF_vars(GateStep)
  /\ \A r \in Requests : WF_vars(ResultDropped(r)) /\ WF_vars(PromptEnds(r, "expired"))

Spec == Init /\ [][Next]_vars /\ Fairness

-----------------------------------------------------------------------------
(* Safety                                                                  *)

\* Each registration and each assertion uses up a confirmation the user gave
\* to a prompt for that very request, and a confirmation serves once ("User
\* presence ... required for all operations"): no late, dropped or repeated
\* answer of a prompt, and no timeout, lets another operation through.
Operates ==
  \/ keys' # keys
  \/ stage = "waiting" /\ stage' = "idle" /\ response'.kind = "assertion"

ConsentForEachOperation ==
  [][Operates => wanted \in granted /\ wanted \notin granted']_vars

\* A key exists only because a success response named it, or a create is at
\* work on it, or a create failed late or was cut short: denials, timeouts,
\* exclusions and signer errors leave nothing behind.
KeysAccountedFor ==
  \A id \in Ids : keys[id] # None <=> id \in reported \cup abandoned \cup {newKey}

\* The lists name keys made for exactly their account (what discoverable
\* login relies on), also after restarts and failed saves.
ListsMatchKeys ==
  \A c \in Entries(credentials) \cup Entries(durable) :
    keys[c.id] = [rp |-> c.rp, user |-> c.user]

\* An assertion is made with a live key of the request's relying party, one
\* of the decoded allow list if there is one; a user handle is the one the
\* key was registered with, and comes exactly with a discovered credential.
AssertionIsOwn ==
  response.kind = "assertion" =>
    /\ CanSign(response.id, wanted.rp)
    /\ IF Decoded(response.list) = {}
       THEN response.handle = keys[response.id].user
       ELSE /\ response.handle = None
            /\ \E i \in Decoded(response.list) : response.list[i].id = response.id

\* An account with a resident credential on disk never loses it without
\* getting another, whatever fails and whenever the process ends.
AccountsKeepKeys ==
  [][\A i \in DOMAIN durable : HasAccount(durable', durable[i])]_durable

(* Liveness                                                                *)

\* Every request that asks for presence is answered, or the process ends.
RequestAnswered == stage # "idle" ~> stage = "idle"

(* What the protocol document says, and the code does not do               *)

\* EXTENSION_PROTOCOL.md:141 "Allowed credentials (empty for discoverable)":
\* an assertion for a list that is not empty uses a credential of the list.
AllowListRespected ==
  response.kind = "assertion" /\ response.list # <<>> =>
    \E i \in DOMAIN response.list : response.list[i].id = response.id

\* EXTENSION_PROTOCOL.md:93 "Credentials to exclude (prevent
\* re-registration)": no key is made when the list names a usable one.
ExcludeRespected ==
  [][\A l \in Lists, u \in Users, b \in BOOLEAN :
       RegisterKey(l, u, b) => \A i \in DOMAIN l : ~CanSign(l[i].id, wanted.rp)]_vars
=============================================================================
