------------------------- MODULE CredentialStorage --------------------------
(***************************************************************************)
(* ctap2/storage.go: resident credentials, held in memory by every running *)
(* host process and kept in one JSON file under the user's home directory. *)
(* The browser starts a process for every port, and three browsers may be  *)
(* registered, so Hosts are processes that share the file and the name     *)
(* <file>.tmp, and nothing else.  Within a process cs.mu lets one Save or  *)
(* Delete run at a time; between processes there is no lock.               *)
(*                                                                         *)
(* save() is three system calls a process can die between: WriteFile's     *)
(* open with O_TRUNC, its write, and Rename.  A file name leads to an      *)
(* inode; a process that has opened <file>.tmp goes on writing to the      *)
(* inode, whatever becomes of the name.                                    *)
(***************************************************************************)
EXTENDS CredentialList, FiniteSets

CONSTANTS
  Hosts,      \* host processes
  Inodes,     \* files the file system can hold at a time
  Faults,     \* system calls that may fail: "open", "write", "rename", "read"
  MaxStored,  \* bound: no Save appends to a list of this length
  None

ASSUME StorageAssumption ==
  /\ None \notin Inodes
  /\ Faults \subseteq {"open", "write", "rename", "read"}
  /\ MaxStored \in Nat

VARIABLES
  running,      \* running[h]: the process exists
  credentials,  \* credentials[h]: cs.credentials
  step,         \* step[h]: the next system call of save(), or "idle"
  fd,           \* fd[h]: the inode open for writing
  result,       \* result[h]: what the last Save or Delete returned
  data,         \* data[i]: contents of an inode
  file, tmp,    \* the inodes the two names lead to, or None
  retired       \* history: IDs some Save replaced or some Delete removed,
                \* as long as memory or disk still holds them

memVars == <<running, credentials, step, fd, result>>
diskVars == <<data, file, tmp>>
vars == <<running, credentials, step, fd, result, data, file, tmp, retired>>

\* Contents: no bytes, the JSON text of a list, or anything else.
Empty == [kind |-> "empty", list |-> <<>>]
Garbage == [kind |-> "garbage", list |-> <<>>]
Json(l) == [kind |-> "json", list |-> l]
Content ==
  [kind : {"empty", "json", "garbage"}, list : Seq(Credential)]

TypeOK ==
  /\ running \in [Hosts -> BOOLEAN]
  /\ credentials \in [Hosts -> Seq(Credential)]
  /\ step \in [Hosts -> {"idle", "open", "write", "rename"}]
  /\ fd \in [Hosts -> Inodes \cup {None}]
  /\ result \in [Hosts -> {"none", "ok", "gone", "error"}]
  /\ data \in [Inodes -> Content]
  /\ file \in Inodes \cup {None}
  /\ tmp \in Inodes \cup {None}
  /\ retired \subseteq Ids

Init ==
  /\ running = [h \in Hosts |-> FALSE]
  /\ credentials = [h \in Hosts |-> <<>>]
  /\ step = [h \in Hosts |-> "idle"]
  /\ fd = [h \in Hosts |-> None]
  /\ result = [h \in Hosts |-> "none"]
  /\ data = [i \in Inodes |-> Empty]
  /\ file = None
  /\ tmp = None
  /\ retired = {}

-----------------------------------------------------------------------------
(* Process start and end                                                   *)

\* The list a new process loads: the file's; or an empty one if there is no
\* file, or if load() fails and NewCredentialStorage goes on without (52-56).
Durable ==
  IF file # None /\ data[file].kind = "json" THEN data[file].list ELSE <<>>

\* Stat or ReadFile may fail for another reason than the file's absence.
Loads == {Durable} \cup (IF "read" \in Faults THEN {<<>>} ELSE {})

\* Fault: a complete <file>.tmp is preferred to the file.
NewStorageFromTmp(h) ==
  /\ ~running[h]
  /\ running' = [running EXCEPT ![h] = TRUE]
  /\ credentials' = [credentials EXCEPT ![h] =
       IF tmp # None THEN data[tmp].list ELSE Durable]
  /\ result' = [result EXCEPT ![h] = "none"]
  /\ UNCHANGED <<step, fd, diskVars, retired>>

\* NewCredentialStorage.
NewStorage(h) ==
  /\ ~running[h]
  /\ running' = [running EXCEPT ![h] = TRUE]
  /\ \E l \in Loads : credentials' = [credentials EXCEPT ![h] = l]
  /\ result' = [result EXCEPT ![h] = "none"]
  /\ UNCHANGED <<step, fd, diskVars, retired>>

\* The process ends, at any point: the port closed, or it was killed.
Stop(h) ==
  /\ running[h]
  /\ running' = [running EXCEPT ![h] = FALSE]
  /\ credentials' = [credentials EXCEPT ![h] = <<>>]
  /\ step' = [step EXCEPT ![h] = "idle"]
  /\ fd' = [fd EXCEPT ![h] = None]
  /\ result' = [result EXCEPT ![h] = "none"]
  /\ UNCHANGED <<diskVars, retired>>

-----------------------------------------------------------------------------
(* Save and Delete up to the call of save()                                *)

\* IDs found anywhere; a new credential's ID is none of these.
KnownIds ==
  {c.id : c \in UNION {Entries(credentials[h]) : h \in Hosts}}
    \cup {c.id : c \in UNION {Entries(data[i].list) : i \in Inodes}}

\* The memory is updated first and stays so even if save() fails.
BeginSave(h, l) ==
  /\ credentials' = [credentials EXCEPT ![h] = l]
  /\ step' = [step EXCEPT ![h] = "open"]
  /\ result' = [result EXCEPT ![h] = "none"]

Save(h, c) ==
  /\ running[h] /\ step[h] = "idle"
  /\ c.id \notin KnownIds
  /\ HasAccount(credentials[h], c) \/ Len(credentials[h]) < MaxStored
  /\ BeginSave(h, Stored(credentials[h], c))
  /\ retired' = ((retired \cup Replaced(credentials[h], c)) \cap KnownIds) \ {c.id}
  /\ UNCHANGED <<running, fd, diskVars>>

Delete(h, id) ==
  /\ running[h] /\ step[h] = "idle"
  /\ \E i \in DOMAIN credentials[h] :
       /\ credentials[h][i].id = id
       /\ BeginSave(h, RemoveIndex(credentials[h], i))
  /\ retired' = retired \cup {id}
  /\ UNCHANGED <<running, fd, diskVars>>

\* Line 172: nothing in memory has the ID; nil is returned, nothing written.
DeleteNothing(h, id) ==
  /\ running[h] /\ step[h] = "idle"
  /\ ~HasId(credentials[h], id)
  /\ result' = [result EXCEPT ![h] = "gone"]
  /\ UNCHANGED <<running, credentials, step, fd, diskVars, retired>>

-----------------------------------------------------------------------------
(* save(): the lock is held, the list does not change                      *)

Return(h, r) ==
  /\ step' = [step EXCEPT ![h] = "idle"]
  /\ fd' = [fd EXCEPT ![h] = None]
  /\ result' = [result EXCEPT ![h] = r]

\* Fault: save() drops the error.
CallFailureIgnored(h) ==
  /\ step[h] \in Faults
  /\ Return(h, "ok")
  /\ UNCHANGED <<running, credentials, diskVars, retired>>

\* A system call fails and save() returns its error.
CallFails(h) ==
  /\ step[h] \in Faults
  /\ Return(h, "error")
  /\ UNCHANGED <<running, credentials, diskVars, retired>>

\* Inodes some name or open file leads to.
Used == {file, tmp} \cup {fd[h] : h \in Hosts}

\* Fault: the credentials are written to the file in place.
OpenInPlace(h) ==
  /\ step[h] = "open"
  /\ \E i \in IF file # None THEN {file} ELSE Inodes \ Used :
       /\ file' = i
       /\ data' = [data EXCEPT ![i] = Empty]
       /\ fd' = [fd EXCEPT ![h] = i]
  /\ step' = [step EXCEPT ![h] = "write"]
  /\ UNCHANGED <<running, credentials, result, tmp, retired>>

\* WriteFile opens <file>.tmp, creating it or cutting it to no bytes.
OpenTmp(h) ==
  /\ step[h] = "open"
  /\ \E i \in IF tmp # None THEN {tmp} ELSE Inodes \ Used :
       /\ tmp' = i
       /\ data' = [data EXCEPT ![i] = Empty]
       /\ fd' = [fd EXCEPT ![h] = i]
  /\ step' = [step EXCEPT ![h] = "write"]
  /\ UNCHANGED <<running, credentials, result, file, retired>>

\* WriteFile writes from offset 0.  Over bytes another process has written
\* the outcome depends on the lengths: the new text, or it and a remainder.
Overwrite(old, l) ==
  IF old.kind = "empty" THEN {Json(l)} ELSE {Json(l), Garbage}

WriteTmp(h) ==
  /\ step[h] = "write"
  /\ \E new \in Overwrite(data[fd[h]], credentials[h]) :
       data' = [data EXCEPT ![fd[h]] = new]
  /\ step' = [step EXCEPT ![h] = "rename"]
  /\ fd' = [fd EXCEPT ![h] = None]
  /\ UNCHANGED <<running, credentials, result, file, tmp, retired>>

\* A write that fails may leave part of the text behind.
WriteFails(h) ==
  /\ step[h] = "write" /\ "write" \in Faults
  /\ data' = [data EXCEPT ![fd[h]] = Garbage]
  /\ Return(h, "error")
  /\ UNCHANGED <<running, credentials, file, tmp, retired>>

\* Rename: the name of the file now leads to the inode of <file>.tmp.  An
\* inode nothing leads to any more is freed.
RenameTmp(h) ==
  /\ step[h] = "rename" /\ tmp # None
  /\ file' = tmp
  /\ tmp' = None
  /\ data' = [i \in Inodes |->
               IF i = tmp \/ \E g \in Hosts : fd[g] = i THEN data[i] ELSE Empty]
  /\ Return(h, "ok")
  /\ UNCHANGED <<running, credentials, retired>>

\* Another process has renamed <file>.tmp already.
RenameMissing(h) ==
  /\ step[h] = "rename" /\ tmp = None
  /\ Return(h, "error")
  /\ UNCHANGED <<running, credentials, diskVars, retired>>

SaveStep(h) ==
  \/ CallFails(h) \/ WriteFails(h)
  \/ OpenTmp(h) \/ WriteTmp(h) \/ RenameTmp(h) \/ RenameMissing(h)

Next ==
  \E h \in Hosts :
    \/ NewStorage(h)
    \/ Stop(h)
    \/ \E c \in Credential : Save(h, c)
    \/ \E id \in Ids : Delete(h, id) \/ DeleteNothing(h, id)
    \/ SaveStep(h)

Spec == Init /\ [][Next]_vars

-----------------------------------------------------------------------------
\* In memory and on disk, an account has one credential and a credential ID
\* belongs to one credential ("replacing any existing credential", line 108).
OneCredentialPerAccount ==
  /\ \A h \in Hosts : Distinct(credentials[h])
  /\ Distinct(Durable)

\* A call that returned nil is on disk: Save's credential is there, with all
\* the others the process knows (one process at a time; lines 133-138).
OkMeansDurable ==
  \A h \in Hosts : result[h] = "ok" /\ step[h] = "idle" => credentials[h] = Durable

\* storage.go:88 "Write atomically using temp file + rename": the file holds a
\* complete list or does not exist, whenever a process looks.
FileIsWhole == file # None => data[file].kind = "json"

\* storage.go:108 "replacing any existing credential with same user ID for
\* same RP": and no other one.  A credential leaves the disk only if a Save
\* for its account or a Delete of its ID asked for that (a file that two
\* processes have garbled is FileIsWhole's concern).
OthersSurvive ==
  [][FileIsWhole' =>
       \A c \in Entries(Durable) \ Entries(Durable') : c.id \in retired]_vars

\* makecredential.go:273 "Credential is still valid, just not discoverable":
\* after a Save that failed the credential is not in the list.
FailedSaveNotListed ==
  [][\A h \in Hosts : result[h] # "error" /\ result'[h] = "error"
       => Entries(credentials'[h]) \subseteq Entries(Durable')]_vars

-----------------------------------------------------------------------------
(* The store as an implementation of ResidentKeys                          *)

Accounts == RPs \X Users
AccountOf(c) == <<c.rp, c.user>>

\* The map a list stands for.
AsMap(l) ==
  [a \in {AccountOf(c) : c \in Entries(l)} |->
     (CHOOSE c \in Entries(l) : AccountOf(c) = a).id]

\* The process whose promise it is, when there is only one.
TheHost == CHOOSE h \in Hosts : TRUE

Keys == INSTANCE ResidentKeys WITH
          up <- running[TheHost],
          view <- AsMap(credentials[TheHost]),
          durable <- AsMap(Durable)

\* A process that has the file to itself works on a map that reaches the disk
\* as a whole: the store implements ResidentKeys (for a single host).
ImplementsResidentKeys == Keys!Spec
=============================================================================
