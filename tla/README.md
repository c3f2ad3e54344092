# tpm-fido2-prf: specifications, model checking and proofs

The program is a native-messaging host: a browser extension starts it, sends it
`create` and `get` requests over stdin, and reads responses from stdout. The
host asks the user to confirm (fingerprint or a dialog), makes or uses a key of
the TPM, and keeps a file of discoverable credentials. This directory holds
TLA+ modules that model it, the TLC runs that check them on small instances, and
TLAPS proofs of what matters most.

## 1. The system

| Part | Source | State it keeps | Operations | Talks to |
|---|---|---|---|---|
| main loop | `tpmfido.go` | the `-backend` flag | start, read-handle-write, end on EOF or error | framing, handlers |
| framing | `nativemsg/io.go` | none | `Read`, `Write` with a 4-byte length | stdin, stdout |
| request handlers | `webauthn/handler.go` | none beyond a call | `handleCreate`, `handleGet`, `computePRFResult` | presence gate, direct operations |
| presence gate | `userpresence/userpresence.go` | `activeRequest`, its channel, one goroutine per prompt with timers | `ConfirmPresence`, `confirmPrompt`, `sendResult` | fprintd-verify or zenity; whoever receives |
| direct operations | `ctap2/makecredential.go:226`, `getassertion.go:303` | none | `MakeCredentialDirect`, `GetAssertionDirect` | signer, storage |
| CTAP2 commands | `ctap2/ctap2.go` | `assertionState`, `ecdhKey` | `HandleCommand` and its five commands | presence gate, signer, storage |
| credential storage | `ctap2/storage.go` | the list, two indexes, the JSON file | `Save`, `Delete`, `GetByRPID`, `load`, `save` | the file system, other host processes |
| signers | `tpm/tpm.go`, `memory/memory.go` | the TPM; a master key and a counter | `RegisterKey`, `SignASN1`, `Counter`, `DeriveCredRandom` | handle encoding |
| handle encoding | `internal/lencode` | none | `Encode`, `Decode` | |

What is hard here:

* **Concurrency.** The loop handles one request at a time, but the goroutine of a
  prompt outlives the request that asked: its prompt is open for 30 s, its
  result waits 2 s for a receiver, and only then is `activeRequest` cleared,
  unconditionally. The next request can arrive anywhere in between, refused,
  joined to the old prompt, or starting a new one.
* **Processes.** Browsers start a process per port, and the installer registers
  the host with several browsers. All of them use one credential file and one
  `<file>.tmp`, without a lock between them.
* **Failure and ordering.** A process can end between any two system calls of
  `save()`; `Save` changes memory before it writes; a registration that fails
  late has already made a key and perhaps replaced a credential; ID entries
  that do not decode are dropped, and an empty list means something else.
* **Series.** `GetNextAssertion` goes on with what an earlier `GetAssertion` left:
  its credentials, its index, its hash and its extension input, while other
  commands register, replace credentials, ask for the key agreement or fail.
* **Bytes from outside.** Handles come back from anybody and carry their own
  lengths; messages carry their length in front, and a refused length leaves its
  payload in the pipe.
* **Time.** Three timeouts race: the client's (60 s or `options.timeout`), the
  prompt's (30 s) and the result's (2 s).

What makes each part correct:

* gate: one prompt at a time; an answer goes to a client that asked for exactly
  that operation, once; nobody waits for ever and the gate opens again;
* storage: the file is a whole list at every moment, an account has one
  credential, a success is on disk, and no other credential is lost;
* handlers: each operation uses up one confirmation of its own, a request that is
  refused, times out or is excluded leaves no key, assertions use live keys of the right
  relying party, and every request is answered;
* commands: registrations and assertions use up their own confirmation,
  `GetNextAssertion` continues the assertion it belongs to and gives each
  credential once, and a platform's hmac-secret input keeps working for as long
  as the process lives;
* signers and encoding: exactly the handles that were made sign, whatever bytes
  come in;
* framing: requests and responses stay whole and in step, and a closed port ends
  the process.

## 2. The modules

```
ResidentKeys                 abstract durable map: what the storage promises
   ^ refined by
CredentialStorage            extends CredentialList (pure list operations)

MessagePort                  abstract port: what framing and loop promise
   ^ refined by
NativeMessaging              extends Frames (lengths and frames as bytes)

UserPresence                 the presence gate
   ^ instance UP                ^ instance UP
NativeHost                   Ctap2 extends Signers extends CredentialList, Lencode
   extends CredentialList

proofs:  CredentialListProofs <- CredentialStorageProofs
         UserPresenceProofs (instance Gate) and CredentialListProofs <- NativeHostProofs
         SignersProofs, CredentialListProofs and UserPresenceProofs (Gate) <- Ctap2Proofs
         FramesProofs <- NativeMessagingProofs
runs:    MCUserPresence, MCCredentialStorage, MCNativeHost, MCCtap2,
         MCNativeMessaging: constants and symmetry
```

**UserPresence** models `userpresence.go` with the only thing that ever waits
on it, a handler's `select`. A request object is in one of the places of its
goroutine (`prompting`, `sending`, `clearing`); `Refuse`, `Join` and `Start` are
the three outcomes of `ConfirmPresence`; `EndPrompt`, `Deliver`, `GiveUp` and
`ClearActive` are the steps of `confirmPrompt` and `sendResult`;
`ClientTimeout` is the other branch of the client's `select`. `Tick` is the
clock: code takes no time, so that the clock waits while a timer has fired and
not been served (`CodeReady`). Objects whose goroutine has ended are reused, as
a garbage collector would.

**CredentialList** has the operations on the list as operators: `Stored` is the
loop of `Save`, `RemoveIndex` that of `Delete`, `GetByRPID` the index by relying
party. **CredentialStorage** runs them in several processes (`Hosts`) over one
file system: names lead to inodes, `save()` is the three steps `OpenTmp`,
`WriteTmp` and `RenameTmp`, each of which may fail when it is in `Faults`
(`CallFails`, `WriteFails`, `RenameMissing`), and `Stop` ends a process
anywhere. The member `"read"` of `Faults` lets a load fail, which the code
answers with an empty list. Within a process `cs.mu` excludes other calls until
`save()` has returned: `Save` and `Delete` need `step[h] = "idle"`.
**ResidentKeys** is what this amounts to for a process that has the file to
itself: a map from accounts to IDs with a working copy, committed as a whole.

**NativeHost** is one process: the loop, both handlers, the direct operations,
the gate (an INSTANCE of UserPresence, whose steps interleave with the loop's),
a signer of either backend, and the list. Where a request is in its handling is
`stage`; the steps in which other goroutines can run are separate actions
(waiting for presence; key made; saved; answered). `keys`, `granted`,
`reported` and `abandoned` record what keys were made for and how the
confirmations were used; no guard of the host's code reads `granted`,
`reported` or `abandoned`.

**Lencode** has the encoder and the decoder over sequences of bytes: each part
with one length byte, the first one after the separator, errors that stick, and
`EOF` only at a boundary. **Signers** is `RegisterKey`, `SignASN1` and
`DeriveCredRandom` of both backends with handles made of bytes: `TPMHandle` is
three encoded parts and `TPMSigns` takes a handle apart again and has the chip
load it; `MemHandle` is a nonce and a sealed key. A member of `Ids` is a key
pair with everything random drawn for it, `Wrapped` its bytes. The chip (`Loads`)
and the AEAD are external: they accept what was made, under the parent of the
same seed and relying party, or with the same master key.

**Ctap2** is the command interface on the gate, a signer and the list. The
running command waits in `stage`; `AskMake`/`MakeCredential` and
`AskGet`/`GetAssertion` are the halves of the two commands before and after the
user's answer, `Answer`, `BadHash`, `ExcludeHit`, `NoCredentials` the ways they
end before it. `Matches` are the credentials whose trial signature succeeds, in
the order of the list, and with a chip any part of them, since a signature may
fail for a passing reason. `BuildResponse` has the three outcomes of building a
response (the extension fails, the assertion, the signer fails), `Panic` the
inputs that end the process. A command's fields are drawn when the code looks
at them; the hash and the relying party, which the gate compares, are drawn
first. `announced`, `granted`, `covered` and `tried` are histories that no guard
reads. Nothing in the program calls the handler yet, and the repository has no
tests of it; the model takes one command at a time, since the handler has no lock.

**NativeMessaging** is `Read`, `Write` and the loop over two pipes of bytes:
`ReadLength` and `ReadPayload` with their failures at an end of the stream,
`Handle`, `WriteLength`, `WritePayload`, a response above the limit, and writes
that stop after some bytes when nobody reads any more. The extension frames
correctly and may close at a boundary or within a frame. **Frames** has what
both sides agree on: `LittleEndian` and `Value`, the two directions of
`encoding/binary`, and `Unframed`, the messages a reader finds. **MessagePort** is
what this amounts to: messages answered one by one, or the end.

Operators commented "Fault:" are not part of any specification: each is a
definition as a plausible bug would have it, used to confirm that the
properties notice (the table of mutants in PROJECT.json).

## 3. Runs

| Run | Instance | States | Shows |
|---|---|---|---|
| `presence` | 2 objects, 2 operations, client timeouts 1 3 4 5 and 8 ticks, prompt 4, grace 2 | 1 280 | all gate properties, with liveness |
| `presence_expiry` | the same | | `ExpiryIsATimeout` fails |
| `storage_one` | 1 process, 2 relying parties x 2 users, 4 IDs, list up to 2, all three calls of `save()` may fail | 155 000 | a durable map: refinement of ResidentKeys, `FileIsWhole`, `OthersSurvive`, `OkMeansDurable`, `OneCredentialPerAccount` |
| `storage_two` | 2 processes, 2 accounts, failing loads and writes | 595 000 | `OneCredentialPerAccount` survives sharing |
| `storage_torn` | 2 processes, no failing call | | `FileIsWhole` fails |
| `storage_lost` | 2 processes, no failing call | | `OthersSurvive` fails |
| `storage_listed` | 1 process, failing calls | | `FailedSaveNotListed` fails |
| `host` | 1 object, 2 relying parties, 2 users, 2 IDs, 1 challenge, lists of up to 2 entries, both backends, failing signer and storage | 640 000 | consent, keys, lists, assertions, answers |
| `host_allow` | the same, nothing fails | | `AllowListRespected` fails |
| `host_exclude` | the same, nothing fails | | `ExcludeRespected` fails |
| `ctap2` | 1 object, 2 relying parties, 3 accounts (one of them not resident), 3 key pairs, 1 hash, 2 agreement keys, 9 lists, both backends, failing chip, restarts | 175 000 | handles, consent, series, key agreement, answers |
| `messaging` | bytes 0 and 1, lengths of 2 bytes, messages up to 2 bytes, 3 messages | 40 000 | refinement of MessagePort, framing, the end and how far off it is |

The properties:

* `OnePromptAtATime`: `activeRequest` is set exactly while its goroutine lives.
  This is what makes the unconditional `activeRequest = nil` of line 119 right.
* `WaitsForOwnOperation`, `ConsentIsSpentOnce`: a client waits on, and is
  answered by, a prompt for its own parameters only.
* `GateRunsOut`: a prompt keeps the gate for its own time and the grace of its
  result at most. The code looks as if a client that shares a prompt extended it
  (`extendTimeout`); nobody receives from that channel, and the mutant in which
  it works holds the gate as long as clients come.
* `ClientAnswered`, `GateReopens`, `RequestAnswered`: liveness.
* `FileIsWhole`, `OkMeansDurable`, `OthersSurvive`, `OneCredentialPerAccount`,
  `ImplementsResidentKeys`: the storage promises of section 1.
* `ConsentForEachOperation`: a key or an assertion is made only by a request
  whose own prompt the user confirmed, and the confirmation is then gone.
* `KeysAccountedFor`: denials, timeouts and exclusions leave no key. A
  registration that fails after the key is made (a PRF salt that does not
  decode) does leave one; it is in `abandoned`.
* `ListsMatchKeys`, `AccountsKeepKeys`: the list names keys of the right
  account, and an account with a credential on disk keeps having one.
* `AssertionIsOwn`: an assertion is signed by a live key of the right relying
  party and from the decoded allow list; a user handle comes with a discovered
  credential and is its key's.

In `ctap2`:

* `HandlesExact`: whole handles of this signer for the relying party sign, and
  nothing else does: no cut, lengthened or foreign one.
* `ConsentForEachOperation`: as above, with the assertions of a series added:
  they are for the operation the user confirmed at its beginning, and for none
  once another `GetAssertion` has begun, even one that was refused.
* `AssertionIsOwn`: a series announced before a registration replaced one of its
  credentials still signs with live keys and names their users.
* `NoAssertionTwice`, `AllAnnouncedTried`: each credential of a series has exactly
  one turn, also when responses fail in between.
* `AnnouncedKeyWorks`: a good hmac-secret input made with an announced agreement
  key is not refused. It holds because `GetECDHPublicKey` keeps its pair,
  contrary to the comments that promise a new one.
* `CommandAnswered`: liveness; the command's 30 s and the prompt's end together.

In `messaging`:

* `InSync`: before a length is read the pipe holds the frames of exactly the
  messages not answered yet, whatever bytes they are made of.
* `OutputWhole`: only the last frame ever written may be torn.
* `ImplementsPort`: each answer is a whole answer to the next message, and none
  follows a refused length.
* `RunsOut`: once the port is closed every step uses something up: five steps
  for each byte left in the pipe and one round are the most there can be. With
  it goes `EndsAfterClose`: the process ends when the port closes, wherever it
  does. The first is a bound that holds without fairness, and is proved.

**Bounds.** *Objects*: the gate's invariant says only one is ever live, and the
`presence` run has room for a second, so that a violation would show; `host`
then needs one. *Time*: one tick is about 8 s; what matters is the order in which
the three timers end and whether a client arrives before, during or at the end
of the 2 s grace, and each of these orders occurs: client timeouts lie below, at
and above the prompt's, and at both ends of the grace. A tick at which two
timers end is served in every order. *IDs*: a new handle is random, so `Save`
takes one that is nowhere in use (`KnownIds`); four leave one free beside two in
memory and two on disk in a list of `MaxStored` = 2. In `host` IDs are not used
again, and two registrations suffice for a replaced credential, two accounts,
and a pair of candidates. *Inodes*: a process holds one open, two names lead to
one each. *Lists*: single entries and pairs, decodable or not, in both orders.

In `ctap2`: three key pairs make a series of two of which one is replaced while
the series runs. Which unused pair or agreement key is drawn does not matter, as
they are only compared; two agreement keys show whether it is a new one. The
lists pair handles of both backends, cut and lengthened ones, and two keys of
which either may be for the other relying party; bytes 0 to 3 let the separator
and the length bytes occur within parts. One hash suffices, because two commands
with the same hash and relying party are the case where the gate joins them, and
the two relying parties are the case where it refuses. `Immediate` has one
status: commands that only answer differ in nothing else. `StorageFaults` is
FALSE, since `host` has saves that fail; the proofs cover both. In `messaging`
the bytes 0 and 1 and lengths of two bytes make messages that look like lengths
and a length that is too long; three messages are one answered, one under way
and one waiting.

**Symmetry.** `IdSymmetry` and `StorageSymmetry` permute IDs, processes and
inodes. The runs that use it check no liveness. IDs are only compared for
equality, inodes are picked freely from those not in use. `storage_one` also
checks a refinement whose mapping chooses an entry by its account, which a
permutation of IDs commutes with; the same run without symmetry (3.5 million
states) gives the same result.

**Deadlock** is checked in every run but `messaging`, whose host ends.

**Fairness.** Weak fairness of the steps of goroutines (`Goroutine`), of the
handler (`HandlerStep`), of the client's timer and of the clock: the Go
scheduler runs what can run, and timers fire. None for the user, for the tool to
exit by itself, for requests to come, or for the process to start or end.
`RequestAnswered` also counts as done when the process ends. `ctap2` likewise:
the running command (`CommandStep`), the goroutines and the clock. In `messaging`
the loop is fair (`Host`), and its step `Handle` always ends a request, which is
`RequestAnswered` of the run `host`; the extension need never send or close.

## 4. What the violated properties say

Each of these runs checks a sentence of the repository and ends with a trace:

* `presence_expiry`: an expired prompt carries "confirmation timed out"; the
  handlers look for "fingerprint verification timed out". The client is told
  the user denied (`docs/EXTENSION_PROTOCOL.md:227` says it timed out).
* `storage_torn`: "Write atomically using temp file + rename" (`storage.go:88`)
  is not so for two processes: one renames what the other has just truncated.
* `storage_lost`: "replacing any existing credential with same user ID for same
  RP" (`storage.go:108`): a process also removes what others stored after it
  started.
* `storage_listed`: "still valid, just not discoverable" (`makecredential.go:273`):
  the credential stays in memory, is discoverable, and the next `Save` that
  works writes it.
* `host_allow`: an allow list of which nothing decodes is an empty one
  (`docs/EXTENSION_PROTOCOL.md:141`).
* `host_exclude`: an exclude entry that does not decode excludes nothing
  (`docs/EXTENSION_PROTOCOL.md:93`).

## 5. Proofs

The only assumptions are those the modules state on their constants:
`PresenceAssumption`, `StorageAssumption`, `HostAssumption` and `CtapAssumption`
(timers are natural numbers, the fixed ones positive; `None` is none of the
values; registrations and lists are well formed), `LencodeAssumption` (bytes are
`0 .. MaxByte`, the separator is bytes), `SignersAssumption` (the parts of a
handle fit in one length byte; what is random about two key pairs differs),
`FramesAssumption` (a base of at least two, lengths of at least one byte) and
`MessagingAssumption` (the limit and what the extension sends are below what a
length can say, as 1 MiB is; a response is JSON and not empty).

**UserPresenceProofs**, for any set of objects and any timeouts. The invariant
`PresenceInv` conjoins the types, `OnePromptAtATime`, `WaitsForOwnOperation`,
`AnswerKnown` (the place of a goroutine says whether its prompt has ended) and
`OkHasNoPrompt` (a confirmation that has reached its client was the end of its
prompt, and no other is open). The parts need each other: `Start` overwrites
`params[r]` only where nothing runs and only when the client is not waiting;
`ClearActive` sets `activeRequest` to nil for whatever it is, which is right
because a live object is the active one. The types need care in one place, the
clock: `timer` and `patience` stay natural because `Tick` is blocked by
`CodeReady`. Theorems: `PresenceTypes`, `OnePrompt`, `OwnOperation`,
`ConsentSpentOnce` (an action property, from the invariant and `AnswerKnown`) and
`HoldIsBounded` (no step adds to what `Remaining` says a prompt has left, and
every tick takes of it: the part of `GateReopens` that needs no fairness).

**CredentialListProofs**: what the list operators do to lists of any length
(`StoredDistinct`, `StoredKeeps`, `StoredEntries`, `StoredAccounts`,
`RemoveDistinct`, `RemoveKeeps`), cited by everything below.

**CredentialStorageProofs**, for any set of processes, inodes and faults.
`StoreInv` strengthens the types by: every list in memory and in every inode,
named or not, has distinct accounts and IDs, and a process about to write has a
file open. It gives `StorageTypes` and `OnePerAccount`, for any number of
processes. `SoloInv` adds what holds for one process whose loads do not fail:
the file is whole; the inode of `<file>.tmp` is not the file's and, before the
rename, holds exactly the list in memory; between calls after a success memory
and disk agree; what is on disk and not in memory has been retired. It gives
`FileWhole`, `OkDurable` and `OthersAlwaysSurvive`, the last from the fact that
only the rename changes the durable list. For two processes these three are
false: the runs of section 4 show it.

The refinement of ResidentKeys follows from the same invariants. One part
says what map a list stands for (`MapOfStored`, `MapOfRemoved`: one account put
in, one taken out, provided that the list has distinct accounts); another
maps the steps (`StepMaps`): `Save` to `Put`, `Delete` to `Remove`, the rename to
`Commit`, the end and the start of a process to `Stop` and `Start`, and every
other system call, failing or not, to a stutter, because before the rename only
`<file>.tmp` changes. Theorem: `StoreIsDurableMap`.

**NativeHostProofs**, for any requests, accounts, IDs and lists, whatever fails.
The gate's proofs are used, not repeated: `Gate` is an INSTANCE of
UserPresenceProofs, `GateSteps` shows that what the host does with the gate are
steps of the gate or the end of the process, and `GateInvariant` follows. On it
stands `ConsentInv`: a confirmation on its way to the client or with it is in
`granted`. That a step uses up no other's confirmation needs `OkHasNoPrompt`: while
the client has one, no goroutine can still be sending another. `KeyInv` says where
the loop is when a key has been made and not yet answered with, and `ListInv`
that memory and file list distinct accounts with keys of their own. Theorems:
`OperationsHaveConsent`, `NoStrayKeys`, `ListsNameOwnKeys`, `AccountsStayOnDisk`,
`AssertionsAreOwn`, `HostTypes`.

**SignersProofs**, for any bytes. `DecodeFramed` (what was
framed is read back, and the rest is left) and `DecodedIsFramed` (what is read
without an error was framed just so) are the two directions; three times over
they give `TPMHandleReads` and `TPMSignsExactly`. Theorem
`SignsExactlyOwnHandles`: a sequence of bytes signs if and only if it is a handle
made for the relying party that can still be opened. The trailing read of an
`EOF` is what makes it exact.

**Ctap2Proofs**, for any keys, accounts, lists, bytes, agreement keys, both
values of `StorageFaults` and series of any length. Five invariants, each
inductive with the help of those before it, make up `CtapInv`:

1. `Gate!PresenceInv`, through the gate's proofs as in NativeHostProofs;
2. `GrantInv`: confirmations on their way or in the command's hands are noted;
3. `StockInv`: keys are never taken back, both lists are distinct and name keys
   of their own accounts. It gives `HandlesAreExact`;
4. `SeriesInv`: the candidates a command waits with, and those of the state, are
   handles of keys that have been made, each once and with its own user; a state
   is either empty or *running*: its index is inside, `covered` is its operation,
   `tried` are exactly the handles up to the index; a waiting `GetAssertion` has
   dropped the last state. That the credentials differ comes from the list's
   distinct IDs and from `HandlesDiffer`; that they stay good while registrations
   replace entries, from keys never being taken back (`KeysKept`);
5. `ReplyInv`: the responses themselves, and that the announced agreement key is
   the handler's.

Theorems: `HandlesAreExact`, `AssertionsAreOwn`, `OperationsHaveConsent`,
`NoCredentialTwice`, `SeriesAreComplete`, `AnnouncedKeysWork`, `CtapTypes`.

**FramesProofs**, for any base and any width of lengths. Two functions of the
model are recursive: the sum in `Value`, over the bytes of a length, and
`Unframed`, over the bytes of a pipe. Every induction is an application of
`Induction`, which says of a *set* of numbers that it is all of them; it comes
from `LeastNumber`, and that from the library's fact that strict inclusion of
finite sets is well-founded. `Recursion` and `Agreement` do the same for
definitions: there is one function that satisfies the equations. They give
`ValueDef`, and `UnframedDef` by putting the readers of longer and longer bytes
together (`ReaderExists`, `ReadersAgree`). On these stand the two theorems:
`LengthReadBack` (a length below the capacity is read as it was written; the
digits of `Division` add up) and `StreamReadBack` (a reader of any number of
frames, with torn bytes behind them, finds exactly the messages). The second is
what the framing is for: no byte of a message is taken for a length.

**NativeMessagingProofs**, for any messages, responses, limit and number of
messages. `MessagingInv` conjoins the types with three parts, in which `Found` is
what the extension finds in stdout and `Answered` its length:

1. `InputInv`: the pipe holds the frames of the messages that come after
   `Answered`, and behind them a torn frame only if the port is closed (`Holds`).
   Between the length and the payload the message itself comes first. The other
   case of `reading payload` is a length whose message was cut: then the pipe is
   closed and has fewer bytes than the length says, so that only the failing read
   is left. While a request is handled `message` is the next one, then one of its
   responses.
2. `OutputInv`: stdout is `Stream(Found)`, while a payload is written followed by
   its length.
3. `AnswersInv`: each response found is one to the message in its place, within
   the limit, and that message was not refused.

`InSync` alone is not inductive: it says nothing while a request is read or
handled. `OutputWhole` alone is not either: that a length and a payload make one
more frame needs the frame's beginning. The steps of the extension use
`HoldsSend` and `HoldsCut`, those of Read `HoldsLength`, `HoldsTail` and
`HoldsPayload`, those of Write `WrittenTorn` and `WrittenWhole`, all of which
follow from the two theorems of FramesProofs. `WritePayload` is MessagePort's
`Answer`, a step to the end its `End`, and every other step of the host changes
nothing the port shows (`PortStep`). Theorems: `TypeCorrect`, `ReadingInSync`,
`WritingWhole`, `HostIsPort` (the refinement) and `HostRunsOut` (`StepsLeft` goes
down with every step after the close). The same invariant was model-checked
before it was proved, with the tail that `Holds` asks for computed.

For the sake of these proofs the modules write filters as sets of places and
`InOrder` (the one increasing enumeration) instead of `SelectSeq`, which is
recursive and of which the provers know nothing.

Only model-checked: liveness (`ClientAnswered`, `GateReopens`,
`RequestAnswered`, `CommandAnswered`, `EndsAfterClose`), which is out of the
prover's reach together with ENABLED. Every invariant and every action property
of the runs, and both refinements, are proved.

## 6. Not modelled

* Bytes other than those of handles and frames: authenticator data, COSE keys,
  CBOR, JSON, attestation, client data, texts. A request's hash is the value the
  gate compares; in NativeHost equal requests have equal hashes and different
  ones different hashes, in Ctap2 the platform chooses it.
* Cryptography: signatures, key agreement and hmac-secret are abstracted to which
  key something was made with. The random source does not fail.
* Signature counters: the TPM's is the clock in seconds, the memory backend's a
  number that starts again together with its keys; nothing compares them.
* Subcommands of ClientPIN other than getKeyAgreement, `getInfo` and unknown
  commands: they answer and change nothing (`Answer`).
* `Count`, `GetAll`, `GetByCredentialID` and `FindCredentials`, which only read, and
  empty user IDs, which give no user handle.
* Power cuts: nothing is synced, and what the disk then keeps is not in the source.
* Detection of the confirmation tool at start: without any, the process ends
  before it has state.
* In NativeHost and Ctap2, loads that fail and other processes on the same file;
  both are in CredentialStorage. `Save` is one step there, which `storage_one`
  justifies: it reaches the disk as a whole or not at all.
* Cancellation of a command by its caller's context: nobody cancels one.
* Errors of `MakeCredential` after the key exists: the COSE key, the attestation
  signature and the CBOR of the response (`makecredential.go:117-183`). They are
  computed from values the code has just made and cannot fail in practice; if one
  did, the key would exist, its credential be listed, and the answer be "Other".
* Scripts, manifests, the extension.

Modelled, but without a property, since the code lets it happen and no text of
the repository says otherwise: a list that cannot be loaded is lost
(`storage.go:53`); a registration whose PRF salt does not decode keeps its key
(`handler.go:193`); a signer that fails in a trial hides an excluded credential
(`makecredential.go:242`) or brings the next candidate forward
(`getassertion.go:324`). A null entry of `evalByCredential` (`handler.go:341`) is
one of the ends of the process (`Stop`), not a step of its own.

## 7. Plan

Done: all parts of section 1 that keep state or decide by it, alone and composed;
proofs of every safety property the passing runs check: of the gate, the storage,
the host, the commands and the framing, and of both refinements.

Left:

1. Bounds like `GateRunsOut` and `RunsOut` for what else is only known as liveness:
   how many ticks and steps a request and a command can still take.
2. Authenticator data as bytes: that flags, extension data and credential data
   are laid out so that a reader finds them, over small instances.
3. Two processes that run NativeHost on one credential file. CredentialStorage
   says what the file then loses; what a user's requests see of it is open.
