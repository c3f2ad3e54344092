---------------------- MODULE CredentialStorageProofs -----------------------
(* Proofs about the credential store: what holds for any number of         *)
(* processes that share the file, what holds when there is one, and that   *)
(* the store of that one implements the durable map of ResidentKeys.       *)
EXTENDS CredentialStorage, CredentialListProofs

-----------------------------------------------------------------------------
(* Any number of processes                                                 *)

\* No list repeats an account or an ID, in memory or in any inode.
ListsDistinct ==
  /\ \A h \in Hosts : Distinct(credentials[h])
  /\ \A i \in Inodes : Distinct(data[i].list)

\* A process about to write has an inode open.
WriterHasFile == \A h \in Hosts : step[h] = "write" => fd[h] \in Inodes

\* The inductive invariant for any number of processes.
StoreInv == TypeOK /\ ListsDistinct /\ WriterHasFile

LEMMA EmptyDistinct == <<>> \in Seq(Credential) /\ Distinct(<<>>)
  BY DEF Distinct

LEMMA ContentTypes ==
  /\ Empty \in Content /\ Garbage \in Content
  /\ Distinct(Empty.list) /\ Distinct(Garbage.list)
  /\ \A l \in Seq(Credential) : Json(l) \in Content /\ Json(l).list = l
  BY EmptyDistinct DEF Content, Empty, Garbage, Json

\* Whatever a process loads is a list without repetitions.
LEMMA LoadsDistinct ==
  ASSUME StoreInv
  PROVE  \A l \in {Durable} \cup Loads : l \in Seq(Credential) /\ Distinct(l)
  BY EmptyDistinct DEF StoreInv, TypeOK, ListsDistinct, Durable, Loads, Content

LEMMA EntryTypes ==
  ASSUME NEW l \in Seq(Credential)
  PROVE  \A e \in Entries(l) : e \in Credential /\ e.id \in Ids
<1>1. \A e \in Entries(l) : e \in Credential
  BY DEF Entries
<1>2. \A e \in Credential : e.id \in Ids
  BY DEF Credential
<1> QED BY <1>1, <1>2

LEMMA StoreInit == ASSUME Init PROVE StoreInv
  BY ContentTypes, EmptyDistinct
  DEF Init, StoreInv, TypeOK, ListsDistinct, WriterHasFile, Empty

LEMMA SaveStepInv ==
  ASSUME StoreInv, NEW h \in Hosts, SaveStep(h) PROVE StoreInv'
<1> USE DEF StoreInv, TypeOK, ListsDistinct, WriterHasFile
<1>1. CASE CallFails(h)
  BY <1>1 DEF CallFails, Return, diskVars
<1>2. CASE WriteFails(h)
  BY <1>2, ContentTypes DEF WriteFails, Return
<1>3. CASE OpenTmp(h)
  <2>1. PICK i \in Inodes : /\ tmp' = i
                            /\ data' = [data EXCEPT ![i] = Empty]
                            /\ fd' = [fd EXCEPT ![h] = i]
    BY <1>3 DEF OpenTmp
  <2> QED BY <1>3, <2>1, ContentTypes DEF OpenTmp
<1>4. CASE WriteTmp(h)
  <2>1. PICK new \in {Json(credentials[h]), Garbage} :
          data' = [data EXCEPT ![fd[h]] = new]
    BY <1>4 DEF WriteTmp, Overwrite
  <2>2. new \in Content /\ Distinct(new.list)
    BY ContentTypes
  <2>3. fd[h] \in Inodes
    BY <1>4 DEF WriteTmp
  <2> QED BY <1>4, <2>1, <2>2, <2>3 DEF WriteTmp
<1>5. CASE RenameTmp(h)
  BY <1>5, ContentTypes DEF RenameTmp, Return
<1>6. CASE RenameMissing(h)
  BY <1>6 DEF RenameMissing, Return, diskVars
<1> QED BY <1>1, <1>2, <1>3, <1>4, <1>5, <1>6 DEF SaveStep

LEMMA StoreStep ==
  ASSUME StoreInv, [Next]_vars PROVE StoreInv'
<1> USE DEF StoreInv, TypeOK, ListsDistinct, WriterHasFile
<1>1. ASSUME NEW h \in Hosts, NewStorage(h) PROVE StoreInv'
  <2>1. PICK l \in Loads : credentials' = [credentials EXCEPT ![h] = l]
    BY <1>1 DEF NewStorage
  <2>2. l \in Seq(Credential) /\ Distinct(l)
    BY LoadsDistinct
  <2> QED BY <1>1, <2>1, <2>2 DEF NewStorage, diskVars
<1>2. ASSUME NEW h \in Hosts, Stop(h) PROVE StoreInv'
  BY <1>2, EmptyDistinct DEF Stop, diskVars
<1>3. ASSUME NEW h \in Hosts, NEW c \in Credential, Save(h, c) PROVE StoreInv'
  <2>1. \A i \in DOMAIN credentials[h] : credentials[h][i].id # c.id
    BY <1>3 DEF Save, KnownIds, Entries
  <2>2. /\ Stored(credentials[h], c) \in Seq(Credential)
        /\ Distinct(Stored(credentials[h], c))
    BY <2>1, StoredDistinct
  <2>3. KnownIds \subseteq Ids
    <3>1. \A i \in Inodes : data[i].list \in Seq(Credential)
      BY DEF Content
    <3> QED BY <3>1, EntryTypes DEF KnownIds
  <2> QED BY <1>3, <2>2, <2>3 DEF Save, BeginSave, diskVars
<1>4. ASSUME NEW h \in Hosts, NEW id \in Ids, Delete(h, id) PROVE StoreInv'
  <2>1. PICK i \in DOMAIN credentials[h] :
          BeginSave(h, RemoveIndex(credentials[h], i))
    BY <1>4 DEF Delete
  <2>2. /\ RemoveIndex(credentials[h], i) \in Seq(Credential)
        /\ Distinct(RemoveIndex(credentials[h], i))
    BY RemoveDistinct
  <2> QED BY <1>4, <2>1, <2>2 DEF Delete, BeginSave, diskVars
<1>5. ASSUME NEW h \in Hosts, NEW id \in Ids, DeleteNothing(h, id) PROVE StoreInv'
  BY <1>5 DEF DeleteNothing, diskVars
<1>6. CASE UNCHANGED vars
  BY <1>6 DEF vars
<1> QED BY <1>1, <1>2, <1>3, <1>4, <1>5, <1>6, SaveStepInv DEF Next

\* In every behaviour of any number of processes the store has its type.
THEOREM StorageTypes == Spec => []TypeOK
<1>1. Init => StoreInv BY StoreInit
<1>2. StoreInv /\ [Next]_vars => StoreInv' BY StoreStep
<1>3. StoreInv => TypeOK BY DEF StoreInv
<1> QED BY <1>1, <1>2, <1>3, PTL DEF Spec

\* However the processes interleave, whatever fails and whenever they die, no
\* list in memory and no list on disk has two credentials for an account.
THEOREM OnePerAccount == Spec => []OneCredentialPerAccount
<1>1. Init => StoreInv BY StoreInit
<1>2. StoreInv /\ [Next]_vars => StoreInv' BY StoreStep
<1>3. StoreInv => OneCredentialPerAccount
  BY LoadsDistinct DEF StoreInv, ListsDistinct, OneCredentialPerAccount
<1> QED BY <1>1, <1>2, <1>3, PTL DEF Spec

-----------------------------------------------------------------------------
(* One process at a time, on a disk that can be read                       *)

\* What a single process keeps true of the two names, of the file's contents
\* and of its place in save(): <file>.tmp is never the file, the file is a
\* complete list, the list in memory is what <file>.tmp gets, and whatever
\* the file holds and the memory does not was asked to go.
SoloInv(h) ==
  /\ tmp # None => tmp # file
  /\ FileIsWhole
  /\ step[h] = "write" => fd[h] = tmp /\ tmp # None /\ data[tmp] = Empty
  /\ step[h] = "rename" => tmp # None /\ data[tmp] = Json(credentials[h])
  /\ step[h] # "idle" => running[h] /\ result[h] = "none"
  /\ result[h] = "ok" => credentials[h] = Durable
  /\ running[h] => \A c \in Entries(Durable) :
                     c \in Entries(credentials[h]) \/ c.id \in retired

\* The step of save() that moves the list to the file.
LEMMA SoloRename ==
  ASSUME NEW h \in Hosts, StoreInv, SoloInv(h), RenameTmp(h)
  PROVE  file' \in Inodes /\ file' # None /\ data'[file'] = Json(credentials[h])
  BY StorageAssumption DEF StoreInv, TypeOK, SoloInv, RenameTmp

LEMMA SoloSaveStep ==
  ASSUME NEW h \in Hosts, Hosts = {h}, StoreInv, SoloInv(h), SaveStep(h)
  PROVE  SoloInv(h)'
<1> USE StorageAssumption
    DEF StoreInv, TypeOK, SoloInv, FileIsWhole, Durable
<1>1. CASE CallFails(h)
  BY <1>1 DEF CallFails, Return, diskVars
<1>2. CASE WriteFails(h)
  BY <1>2 DEF WriteFails, Return
<1>3. CASE OpenTmp(h)
  <2>1. PICK i \in Inodes : /\ tmp # None => i = tmp
                            /\ i # file
                            /\ tmp' = i
                            /\ data' = [data EXCEPT ![i] = Empty]
                            /\ fd' = [fd EXCEPT ![h] = i]
    BY <1>3 DEF OpenTmp, Used
  <2> QED BY <1>3, <2>1 DEF OpenTmp
<1>4. CASE WriteTmp(h)
  <2>1. Overwrite(data[fd[h]], credentials[h]) = {Json(credentials[h])}
    BY <1>4 DEF WriteTmp, Overwrite, Empty
  <2>2. data' = [data EXCEPT ![tmp] = Json(credentials[h])]
    BY <1>4, <2>1 DEF WriteTmp
  <2> QED BY <1>4, <2>2 DEF WriteTmp
<1>5. CASE RenameTmp(h)
  <2>1. file' \in Inodes /\ file' # None /\ data'[file'] = Json(credentials[h])
    BY <1>5, SoloRename
  <2>2. FileIsWhole' /\ Durable' = credentials[h]
    BY <2>1 DEF Json
  <2> QED BY <1>5, <2>1, <2>2 DEF RenameTmp, Return
<1>6. CASE RenameMissing(h)
  BY <1>6 DEF RenameMissing, Return, diskVars
<1> QED BY <1>1, <1>2, <1>3, <1>4, <1>5, <1>6 DEF SaveStep

LEMMA SoloStep ==
  ASSUME NEW h \in Hosts, Hosts = {h}, "read" \notin Faults,
         StoreInv, SoloInv(h), [Next]_vars
  PROVE  SoloInv(h)'
<1> USE StorageAssumption
    DEF StoreInv, TypeOK, SoloInv, FileIsWhole, Durable
<1>1. CASE NewStorage(h)
  BY <1>1 DEF NewStorage, Loads, diskVars
<1>2. CASE Stop(h)
  BY <1>2 DEF Stop, diskVars
<1>3. ASSUME NEW c \in Credential, Save(h, c) PROVE SoloInv(h)'
  <2>1. Distinct(credentials[h])
    BY DEF ListsDistinct
  <2>2. \A e \in Entries(Durable) : e.id \in KnownIds /\ e.id # c.id
    <3>1. \A e \in Entries(Durable) : e.id \in KnownIds
      BY DEF KnownIds, Entries
    <3> QED BY <1>3, <3>1 DEF Save
  <2>3. \A e \in Entries(Durable) :
          e \in Entries(Stored(credentials[h], c)) \/ e.id \in retired'
    <3> TAKE e \in Entries(Durable)
    <3>1. CASE e.id \in retired \/ e.id \in Replaced(credentials[h], c)
      BY <1>3, <2>2, <3>1 DEF Save
    <3>2. CASE e \in Entries(credentials[h]) /\ e.id \notin Replaced(credentials[h], c)
      BY <2>1, <3>2, StoredKeeps
    <3> QED BY <1>3, <3>1, <3>2 DEF Save
  <2> QED BY <1>3, <2>3 DEF Save, BeginSave, diskVars
<1>4. ASSUME NEW id \in Ids, Delete(h, id) PROVE SoloInv(h)'
  <2>1. PICK i \in DOMAIN credentials[h] :
          /\ credentials[h][i].id = id
          /\ BeginSave(h, RemoveIndex(credentials[h], i))
    BY <1>4 DEF Delete
  <2>2. \A e \in Entries(credentials[h]) :
          e \in Entries(RemoveIndex(credentials[h], i)) \/ e.id = id
    BY <2>1, RemoveKeeps
  <2> QED BY <1>4, <2>1, <2>2 DEF Delete, BeginSave, diskVars
<1>5. ASSUME NEW id \in Ids, DeleteNothing(h, id) PROVE SoloInv(h)'
  BY <1>5 DEF DeleteNothing, diskVars
<1>6. CASE UNCHANGED vars
  BY <1>6 DEF vars
<1> QED BY <1>1, <1>2, <1>3, <1>4, <1>5, <1>6, SoloSaveStep DEF Next

\* The one host of the theorems below, and the disk it runs on.
Solo(h) == Hosts = {h} /\ "read" \notin Faults

LEMMA SoloInvariant ==
  ASSUME NEW h, Solo(h) PROVE Spec => [](StoreInv /\ SoloInv(h))
<1>1. Init => StoreInv /\ SoloInv(h)
  BY StoreInit DEF Init, Solo, SoloInv, FileIsWhole, Durable, Entries
<1>2. StoreInv /\ SoloInv(h) /\ [Next]_vars => StoreInv' /\ SoloInv(h)'
  BY StoreStep, SoloStep DEF Solo
<1> QED BY <1>1, <1>2, PTL DEF Spec

\* A process that has the file to itself never leaves anything but a complete
\* list in it, wherever in save() it dies and whichever call fails.
THEOREM FileWhole == ASSUME NEW h, Solo(h) PROVE Spec => []FileIsWhole
<1>1. SoloInv(h) => FileIsWhole BY DEF SoloInv
<1> QED BY <1>1, SoloInvariant, PTL

\* When Save or Delete has returned nil after writing, a new process would
\* load exactly the list this one has.
THEOREM OkDurable == ASSUME NEW h, Solo(h) PROVE Spec => []OkMeansDurable
<1>1. SoloInv(h) => OkMeansDurable BY DEF Solo, SoloInv, OkMeansDurable
<1> QED BY <1>1, SoloInvariant, PTL

\* Only a rename changes the durable list, and what it drops was replaced or
\* deleted on request.
LEMMA SoloOthersStep ==
  ASSUME NEW h, Solo(h), StoreInv, SoloInv(h), [Next]_vars,
         NEW c \in Entries(Durable), c \notin Entries(Durable')
  PROVE  c.id \in retired
<1> USE StorageAssumption DEF StoreInv, TypeOK, SoloInv, FileIsWhole, Solo
<1>1. CASE RenameTmp(h)
  <2>1. file' # None /\ data'[file'] = Json(credentials[h])
    BY <1>1, SoloRename
  <2>2. Durable' = credentials[h]
    BY <2>1 DEF Durable, Json
  <2>3. running[h]
    BY <1>1 DEF RenameTmp
  <2> QED BY <2>2, <2>3
<1>2. CASE WriteTmp(h) \/ OpenTmp(h) \/ WriteFails(h)
  <2>1. file' = file /\ (file # None => data'[file] = data[file])
    BY <1>2 DEF WriteTmp, OpenTmp, WriteFails, Used, Return
  <2> QED BY <2>1 DEF Durable
<1>3. CASE UNCHANGED <<file, data>>
  BY <1>3 DEF Durable
<1>4. CASE CallFails(h) \/ RenameMissing(h) \/ NewStorage(h) \/ Stop(h)
  BY <1>3, <1>4 DEF CallFails, RenameMissing, NewStorage, Stop, diskVars
<1>5. CASE \/ \E d \in Credential : Save(h, d)
           \/ \E id \in Ids : Delete(h, id) \/ DeleteNothing(h, id)
  BY <1>3, <1>5 DEF Save, Delete, DeleteNothing, diskVars
<1>6. CASE UNCHANGED vars
  BY <1>3, <1>6 DEF vars
<1> QED BY <1>1, <1>2, <1>4, <1>5, <1>6 DEF Next, SaveStep

\* A credential of another account is never lost: whatever leaves the disk
\* was replaced by a Save for its account or named in a Delete.
THEOREM OthersAlwaysSurvive == ASSUME NEW h, Solo(h) PROVE Spec => OthersSurvive
<1>1. StoreInv /\ SoloInv(h) /\ [Next]_vars
        => [FileIsWhole' =>
              \A c \in Entries(Durable) \ Entries(Durable') : c.id \in retired]_vars
  BY SoloOthersStep
<1> QED BY <1>1, SoloInvariant, PTL DEF Spec, OthersSurvive

-----------------------------------------------------------------------------
(* The map a list stands for                                               *)

\* An account with an entry is in the map, with the ID of that entry.
LEMMA MapOfEntry ==
  ASSUME NEW l, Distinct(l), NEW e \in Entries(l)
  PROVE  AccountOf(e) \in DOMAIN AsMap(l) /\ AsMap(l)[AccountOf(e)] = e.id
<1>1. \A d \in Entries(l) : AccountOf(d) = AccountOf(e) => d = e
  BY DEF Entries, AccountOf, Distinct, SameAccount
<1>2. (CHOOSE d \in Entries(l) : AccountOf(d) = AccountOf(e)) = e
  BY <1>1
<1> QED BY <1>2 DEF AsMap

LEMMA MapDomain ==
  ASSUME NEW l
  PROVE  DOMAIN AsMap(l) = {AccountOf(e) : e \in Entries(l)}
  BY DEF AsMap

\* A function is the map of a list if it has its accounts and their IDs.
LEMMA MapIs ==
  ASSUME NEW l, Distinct(l), NEW S, NEW f, f = [a \in S |-> f[a]],
         \A e \in Entries(l) : AccountOf(e) \in S /\ f[AccountOf(e)] = e.id,
         \A a \in S : \E e \in Entries(l) : AccountOf(e) = a
  PROVE  AsMap(l) = f
<1>1. DOMAIN AsMap(l) = S
  BY MapDomain
<1>2. \A a \in S : AsMap(l)[a] = f[a]
  BY MapOfEntry
<1>3. AsMap(l) = [a \in S |-> AsMap(l)[a]]
  BY <1>1 DEF AsMap
<1> QED BY <1>2, <1>3

LEMMA MapOfEmpty == AsMap(<<>>) = Keys!NoKeys
  BY DEF AsMap, Entries, Keys!NoKeys

\* The entries after a Delete: all but the deleted one.
LEMMA RemovedEntries ==
  ASSUME NEW l \in Seq(Credential), Distinct(l), NEW i \in DOMAIN l
  PROVE  /\ \A e \in Entries(RemoveIndex(l, i)) : e \in Entries(l) /\ e # l[i]
         /\ \A e \in Entries(l) : e # l[i] => e \in Entries(RemoveIndex(l, i))
<1> DEFINE at(j) == IF j < i THEN j ELSE j + 1
<1>1. /\ DOMAIN RemoveIndex(l, i) = 1 .. Len(l) - 1
      /\ \A j \in 1 .. Len(l) - 1 :
           at(j) \in DOMAIN l \ {i} /\ RemoveIndex(l, i)[j] = l[at(j)]
  BY DEF RemoveIndex
<1>2. \A j, k \in DOMAIN l : l[j] = l[k] => j = k
  BY DEF Distinct
<1>3. \A e \in Entries(RemoveIndex(l, i)) : e \in Entries(l) /\ e # l[i]
  <2> HIDE DEF at
  <2> QED BY <1>1, <1>2 DEF Entries
<1>4. \A e \in Entries(l) : e # l[i] => e.id # l[i].id
  BY DEF Entries, Distinct
<1> QED BY <1>3, <1>4, RemoveKeeps

\* Save puts one account into the map.
LEMMA MapOfStored ==
  ASSUME NEW l \in Seq(Credential), Distinct(l), NEW c \in Credential,
         \A i \in DOMAIN l : l[i].id # c.id
  PROVE  AsMap(Stored(l, c)) =
           [b \in DOMAIN AsMap(l) \cup {AccountOf(c)} |->
              IF b = AccountOf(c) THEN c.id ELSE AsMap(l)[b]]
<1> DEFINE S == DOMAIN AsMap(l) \cup {AccountOf(c)}
           f == [b \in S |-> IF b = AccountOf(c) THEN c.id ELSE AsMap(l)[b]]
           n == Stored(l, c)
<1>1. Distinct(n)
  BY StoredDistinct
<1>2. \A e \in Entries(n) : AccountOf(e) \in S /\ f[AccountOf(e)] = e.id
  <2> TAKE e \in Entries(n)
  <2>1. CASE e = c
    BY <2>1
  <2>2. CASE e # c
    <3>1. e \in Entries(l)
      BY <2>2, StoredEntries
    <3>2. AccountOf(e) # AccountOf(c)
      BY <1>1, <2>2, StoredEntries DEF Entries, Distinct, AccountOf, SameAccount
    <3> QED BY <3>1, <3>2, MapOfEntry
  <2> QED BY <2>1, <2>2
<1>3. \A a \in S : \E e \in Entries(n) : AccountOf(e) = a
  <2> TAKE a \in S
  <2>1. CASE a = AccountOf(c)
    BY <2>1, StoredEntries
  <2>2. CASE a # AccountOf(c)
    <3>1. a \in {AccountOf(e) : e \in Entries(l)}
      BY <2>2, MapDomain
    <3>2. PICK e \in Entries(l) : AccountOf(e) = a
      BY <3>1
    <3>3. ~SameAccount(e, c)
      BY <2>2, <3>2 DEF AccountOf, SameAccount
    <3> QED BY <3>2, <3>3, StoredEntries
  <2> QED BY <2>1, <2>2
<1> QED
  <2>1. f = [a \in S |-> f[a]]
    OBVIOUS
  <2> HIDE DEF S, f, n
  <2>2. AsMap(n) = f
    BY <1>1, <1>2, <1>3, <2>1, MapIs
  <2> QED BY <2>2 DEF S, f, n

\* Delete takes one account out of it.
LEMMA MapOfRemoved ==
  ASSUME NEW l \in Seq(Credential), Distinct(l), NEW i \in DOMAIN l
  PROVE  AsMap(RemoveIndex(l, i)) =
           [b \in DOMAIN AsMap(l) \ {AccountOf(l[i])} |-> AsMap(l)[b]]
<1> DEFINE S == DOMAIN AsMap(l) \ {AccountOf(l[i])}
           f == [b \in S |-> AsMap(l)[b]]
           n == RemoveIndex(l, i)
<1>1. Distinct(n)
  BY RemoveDistinct
<1>2. \A e \in Entries(n) : AccountOf(e) \in S /\ f[AccountOf(e)] = e.id
  <2> TAKE e \in Entries(n)
  <2>1. e \in Entries(l) /\ e # l[i]
    BY RemovedEntries
  <2>2. AccountOf(e) # AccountOf(l[i])
    BY <2>1 DEF Entries, Distinct, AccountOf, SameAccount
  <2> QED BY <2>1, <2>2, MapOfEntry
<1>3. \A a \in S : \E e \in Entries(n) : AccountOf(e) = a
  <2> TAKE a \in S
  <2>1. a \in {AccountOf(e) : e \in Entries(l)} /\ a # AccountOf(l[i])
    BY MapDomain
  <2>2. PICK e \in Entries(l) : AccountOf(e) = a
    BY <2>1
  <2> QED BY <2>1, <2>2, RemovedEntries
<1> QED
  <2>1. f = [a \in S |-> f[a]]
    OBVIOUS
  <2> HIDE DEF S, f, n
  <2>2. AsMap(n) = f
    BY <1>1, <1>2, <1>3, <2>1, MapIs
  <2> QED BY <2>2 DEF S, f, n

-----------------------------------------------------------------------------
(* The steps                                                               *)

\* The state the mapping gives, for the one host.
LEMMA SoloHost == ASSUME NEW h, Solo(h) PROVE TheHost = h
  BY DEF Solo, TheHost

\* save() moves nothing on disk that counts, until its rename commits.
LEMMA SaveStepMaps ==
  ASSUME NEW h, Solo(h), StoreInv, SoloInv(h), SaveStep(h)
  PROVE  \/ Keys!Commit
         \/ UNCHANGED <<running, credentials, Durable>>
<1> USE StorageAssumption DEF StoreInv, TypeOK, SoloInv, FileIsWhole, Solo
<1>1. CASE RenameTmp(h)
  <2>1. file' # None /\ data'[file'] = Json(credentials[h])
    BY <1>1, SoloRename
  <2>2. Durable' = credentials[h]
    BY <2>1 DEF Durable, Json
  <2>3. running[h] /\ UNCHANGED <<running, credentials>>
    BY <1>1 DEF RenameTmp
  <2>4. AsMap(Durable)' = AsMap(credentials[h])
    BY <2>2 DEF AsMap
  <2> QED BY <2>3, <2>4, SoloHost DEF Keys!Commit
<1>2. CASE WriteTmp(h) \/ OpenTmp(h) \/ WriteFails(h)
  <2>1. file' = file /\ (file # None => data'[file] = data[file])
    BY <1>2 DEF WriteTmp, OpenTmp, WriteFails, Used, Return
  <2>2. UNCHANGED <<running, credentials>>
    BY <1>2 DEF WriteTmp, OpenTmp, WriteFails
  <2> QED BY <2>1, <2>2 DEF Durable
<1>3. CASE CallFails(h) \/ RenameMissing(h)
  BY <1>3 DEF CallFails, RenameMissing, diskVars, Durable
<1> QED BY <1>1, <1>2, <1>3 DEF SaveStep

\* The variables of ResidentKeys under the mapping.
KeysVars == <<running[TheHost], AsMap(credentials[TheHost]), AsMap(Durable)>>

\* Durable depends on nothing but the file.
LEMMA DurableSame ==
  ASSUME UNCHANGED <<file, data>> PROVE AsMap(Durable)' = AsMap(Durable)
  BY DEF Durable, AsMap

\* A step that leaves the processes' memory and the file alone is a stutter.
LEMMA Stutters ==
  ASSUME UNCHANGED <<running, credentials, AsMap(Durable)>>
  PROVE  UNCHANGED KeysVars
<1>1. TheHost' = TheHost
  BY DEF TheHost
<1>2. AsMap(credentials[TheHost])' = AsMap(credentials[TheHost])
  BY <1>1 DEF AsMap
<1> QED BY <1>1, <1>2 DEF KeysVars

LEMMA InitMaps == ASSUME NEW h, Solo(h), Init PROVE Keys!Init
<1>1. Durable = <<>> /\ credentials[TheHost] = <<>> /\ running[TheHost] = FALSE
  BY SoloHost DEF Init, Durable, Solo
<1> QED BY <1>1, MapOfEmpty DEF Keys!Init

LEMMA StepMaps ==
  ASSUME NEW h, Solo(h), StoreInv, SoloInv(h), [Next]_vars
  PROVE  [Keys!Next]_KeysVars
<1>0. TheHost = h /\ TheHost \in Hosts /\ Hosts = {h}
  BY SoloHost DEF Solo
<1>1. CASE NewStorage(h)
  <2>1. /\ ~running[h] /\ running'[h] = TRUE
        /\ credentials'[h] = Durable
        /\ UNCHANGED <<file, data>>
    BY <1>0, <1>1 DEF NewStorage, Loads, Solo, diskVars, StoreInv, TypeOK
  <2>2. AsMap(credentials[h])' = AsMap(Durable)
    BY <2>1 DEF AsMap
  <2> QED BY <1>0, <2>1, <2>2, DurableSame DEF Keys!Next, Keys!Start
<1>2. CASE Stop(h)
  <2>1. /\ running[h] /\ running'[h] = FALSE
        /\ credentials'[h] = <<>>
        /\ UNCHANGED <<file, data>>
    BY <1>0, <1>2 DEF Stop, diskVars, StoreInv, TypeOK
  <2>2. AsMap(credentials[h])' = Keys!NoKeys
    BY <2>1, MapOfEmpty DEF AsMap
  <2> QED BY <1>0, <2>1, <2>2, DurableSame DEF Keys!Next, Keys!Stop
<1>3. ASSUME NEW c \in Credential, Save(h, c) PROVE Keys!Next
  <2>1. /\ running[h] /\ UNCHANGED <<running, file, data>>
        /\ credentials'[h] = Stored(credentials[h], c)
    BY <1>0, <1>3 DEF Save, BeginSave, diskVars, StoreInv, TypeOK
  <2>2. credentials[h] \in Seq(Credential) /\ Distinct(credentials[h])
    BY <1>0 DEF StoreInv, TypeOK, ListsDistinct
  <2>3. \A i \in DOMAIN credentials[h] : credentials[h][i].id # c.id
    BY <1>0, <1>3 DEF Save, KnownIds, Entries
  <2>4. AsMap(credentials[h])' =
          [b \in DOMAIN AsMap(credentials[h]) \cup {AccountOf(c)} |->
             IF b = AccountOf(c) THEN c.id ELSE AsMap(credentials[h])[b]]
    <3>1. AsMap(credentials[h])' = AsMap(Stored(credentials[h], c))
      BY <2>1 DEF AsMap
    <3> QED BY <2>2, <2>3, <3>1, MapOfStored
  <2>5. AccountOf(c) \in Accounts /\ c.id \in Ids
    BY DEF AccountOf, Accounts, Credential
  <2>6. Keys!Put(AccountOf(c), c.id)
    BY <1>0, <2>1, <2>4, DurableSame DEF Keys!Put
  <2> QED BY <2>5, <2>6 DEF Keys!Next
<1>4. ASSUME NEW id \in Ids, Delete(h, id) PROVE Keys!Next
  <2>1. PICK i \in DOMAIN credentials[h] : BeginSave(h, RemoveIndex(credentials[h], i))
    BY <1>4 DEF Delete
  <2>2. /\ running[h] /\ UNCHANGED <<running, file, data>>
        /\ credentials'[h] = RemoveIndex(credentials[h], i)
    BY <1>0, <1>4, <2>1 DEF Delete, BeginSave, diskVars, StoreInv, TypeOK
  <2>3. credentials[h] \in Seq(Credential) /\ Distinct(credentials[h])
    BY <1>0 DEF StoreInv, TypeOK, ListsDistinct
  <2> DEFINE c == credentials[h][i]
  <2>4. AsMap(credentials[h])' =
          [b \in DOMAIN AsMap(credentials[h]) \ {AccountOf(c)} |->
             AsMap(credentials[h])[b]]
    <3>1. AsMap(credentials[h])' = AsMap(RemoveIndex(credentials[h], i))
      BY <2>2 DEF AsMap
    <3> QED BY <2>3, <3>1, MapOfRemoved
  <2>5. AccountOf(c) \in Accounts
    <3>1. c \in Credential
      BY <2>1, <2>3
    <3> QED BY <3>1 DEF AccountOf, Accounts, Credential
  <2>6. Keys!Remove(AccountOf(c))
    BY <1>0, <2>2, <2>4, DurableSame DEF Keys!Remove
  <2> QED BY <2>5, <2>6 DEF Keys!Next
<1>5. ASSUME NEW id \in Ids, DeleteNothing(h, id) PROVE UNCHANGED KeysVars
  BY <1>5, DurableSame, Stutters DEF DeleteNothing, diskVars
<1>6. CASE SaveStep(h)
  <2>1. CASE Keys!Commit
    BY <2>1 DEF Keys!Next
  <2>2. CASE UNCHANGED <<running, credentials, Durable>>
    <3>1. AsMap(Durable)' = AsMap(Durable)
      BY <2>2 DEF AsMap
    <3> QED BY <2>2, <3>1, Stutters
  <2> QED BY <1>6, <2>1, <2>2, SaveStepMaps
<1>7. CASE UNCHANGED vars
  BY <1>7, DurableSame, Stutters DEF vars
<1> QED
  BY <1>0, <1>1, <1>2, <1>3, <1>4, <1>5, <1>6, <1>7 DEF Next

\* What storage.go promises its process: every behaviour of the store, with its
\* failing calls and crashes between system calls, is a behaviour of a map
\* whose working copy is committed as a whole (NewCredentialStorage, Save,
\* Delete and save as seen by a process that has the file to itself).
THEOREM StoreIsDurableMap ==
  ASSUME NEW h, Solo(h) PROVE Spec => ImplementsResidentKeys
<1>1. Init => Keys!Init
  BY InitMaps
<1>2. StoreInv /\ SoloInv(h) /\ [Next]_vars => [Keys!Next]_KeysVars
  BY StepMaps
<1> QED
  BY <1>1, <1>2, SoloInvariant, PTL
  DEF Spec, ImplementsResidentKeys, Keys!Spec, KeysVars
=============================================================================
