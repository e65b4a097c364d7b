------------------------------ MODULE TDesktop ------------------------------
(***************************************************************************)
(* A TDesktop client (td/tdesktop.py), the accounts it holds               *)
(* (td/account.py) and the tdata folders it is loaded from and saved to    *)
(* (td/storage.py).  One process uses one client at a time; the calls are  *)
(* synchronous, so nothing runs between the steps of a load or of a save,  *)
(* but a save is a sequence of file writes and may stop between any two of *)
(* them, or inside one.                                                    *)
(*                                                                         *)
(* A passcode, a key, a user's authorization and a path are opaque values. *)
(* A file is represented by the local key that opens it, NoKey when it is  *)
(* missing, truncated or fails its checksum: readers treat these alike.    *)
(***************************************************************************)
EXTENDS Integers, Sequences, FiniteSets

CONSTANTS
  Users,           \* authorizations (user id, main DC, auth keys) of accounts
  Passcodes,       \* local passcodes
  NoPasscode,      \* the empty passcode
  Folders,         \* tdata folders
  NoFolder,        \* no folder given (None)
  KeyFiles,        \* values of keyFile
  DefaultKeyFile,  \* kDefaultKeyFile, "data"
  NoArg,           \* an optional argument left out (None)
  RandomKeys,      \* local keys drawn from os.urandom: a bound of the model
  PerfKey,         \* the constant local key of performance mode
  NoKey,           \* no key
  NoUser,          \* no user
  MaxAccounts,     \* kMaxAccounts
  ForeignLists,    \* account lists another program may have left in a folder
  Uses             \* optional calls and faults this instance allows

AllUses == {"performance", "keyFile", "reload", "fault", "crash"}

ASSUME ConstantsAssumption ==
  /\ NoPasscode \in Passcodes
  /\ DefaultKeyFile \in KeyFiles
  /\ NoFolder \notin Folders
  /\ NoArg \notin KeyFiles \cup Passcodes
  /\ PerfKey \notin RandomKeys
  /\ NoKey \notin RandomKeys \cup {PerfKey}
  /\ NoUser \notin Users
  /\ MaxAccounts \in Nat \ {0}
  /\ ForeignLists \subseteq Seq(Nat)
  /\ Uses \subseteq AllUses

VARIABLES
  perf,     \* TDesktop.kPerformanceMode
  client,   \* the fields of the client object
  pc,       \* where the process stands, see Places
  job,      \* the local variables of the running LoadTData or SaveTData
  keyData,  \* the key_<keyFile> file of each folder
  mapFile,  \* the map file of each data name of each folder
  mtpFile,  \* the authorization file of each data name of each folder
  saved     \* history: what the last completed save put into each slot

disk == <<keyData, mapFile, mtpFile>>
vars == <<perf, client, pc, job, keyData, mapFile, mtpFile, saved>>

SaveStages == {"map", "config", "mtp", "key"}
Places == {"none", "idle", "loading"} \cup SaveStages

Keys      == RandomKeys \cup {PerfKey, NoKey}
Indices   == 0 .. (MaxAccounts - 1)
DataNames == KeyFiles \X Indices
Slots     == Folders \X KeyFiles
Files     == Folders \X DataNames

\* Mutant: the index is left out of the name.
ComposeDataStringNoIndex(k, i) == <<k, 0>>

\* The name an account's files are derived from: the keyFile for index 0,
\* keyFile#<index + 1> for the others.
ComposeDataString(k, i) == <<k, i>>

NoMain    == 0    \* mainAccount is None
StaleMain == -1   \* mainAccount is an object that left the accounts list

NoJob == [folder |-> NoFolder, arg |-> NoArg, pos |-> 0, opened |-> FALSE,
          name |-> ComposeDataString(DefaultKeyFile, 0), ctor |-> FALSE,
          before |-> {}]

NoKeyData == [pass |-> NoPasscode, wrapped |-> NoKey, infoKey |-> NoKey,
              indices |-> <<>>, active |-> -1]
NoMtp     == [key |-> NoKey, user |-> NoUser]
NotSaved  == [pass |-> NoPasscode, accounts |-> <<>>]

\* TDesktop.__init__ up to the load.
NewClient(p, k) ==
  [passcode |-> p, keyFile |-> k, basePath |-> NoFolder, localKey |-> NoKey,
   wrap |-> [pass |-> NoPasscode, key |-> NoKey], isLoaded |-> FALSE,
   activeIndex |-> -1, accounts |-> <<>>, mainAccount |-> NoMain]

NoClient == NewClient(NoPasscode, DefaultKeyFile)

\* The folders start empty, or hold what Telegram Desktop or another tool
\* left there: unlocked by the empty passcode, with its own list of indices.
Left(list, key) ==
  IF list = <<>> THEN NoKeyData
  ELSE [pass |-> NoPasscode, wrapped |-> key, infoKey |-> key,
        indices |-> list, active |-> 0]

Listed(list, n) == n[2][1] = DefaultKeyFile /\ \E j \in DOMAIN list : list[j] = n[2][2]

Init ==
  /\ perf = FALSE
  /\ client = NoClient
  /\ pc = "none"
  /\ job = NoJob
  /\ \E list \in ForeignLists \cup {<<>>}, key \in RandomKeys, user \in Users :
       /\ keyData = [s \in Slots |->
            IF s[2] = DefaultKeyFile THEN Left(list, key) ELSE NoKeyData]
       /\ mapFile = [n \in Files |-> IF Listed(list, n) THEN key ELSE NoKey]
       /\ mtpFile = [n \in Files |->
            IF Listed(list, n) THEN [key |-> key, user |-> user] ELSE NoMtp]
  /\ saved = [s \in Slots |-> NotSaved]

(***************************************************************************)
(* Local keys and accounts                                                 *)
(***************************************************************************)

\* os.urandom never repeats a key that is still stored somewhere.
KeysInUse ==
  {client.localKey, client.wrap.key}
    \cup {client.accounts[i].localKey : i \in DOMAIN client.accounts}
    \cup {keyData[s].wrapped : s \in Slots}
    \cup {mapFile[n] : n \in Files} \cup {mtpFile[n].key : n \in Files}

FreshKeys == RandomKeys \ KeysInUse

\* Mutant: the loop that hands the new key to the accounts is missing.
GenerateLocalKeyOnly(c, key) ==
  [c EXCEPT !.localKey = key, !.isLoaded = TRUE,
            !.wrap = [pass |-> c.passcode, key |-> key]]

\* Mutant: the new key is not wrapped again.
GenerateLocalKeyUnwrapped(c, key) ==
  [c EXCEPT !.localKey = key, !.isLoaded = TRUE]

\* Performance mode with an empty passcode installs the constant key and
\* returns before the loop that hands the new key to the accounts.
GenerateLocalKey(c, key) ==
  IF perf /\ c.passcode = NoPasscode
  THEN [c EXCEPT !.localKey = PerfKey, !.isLoaded = TRUE,
                 !.wrap = [pass |-> NoPasscode, key |-> PerfKey]]
  ELSE [c EXCEPT !.localKey = key, !.isLoaded = TRUE,
                 !.wrap = [pass |-> c.passcode, key |-> key],
                 !.accounts = [i \in DOMAIN c.accounts |->
                                 [c.accounts[i] EXCEPT !.localKey = key]]]

NewAccount(c, user, index) ==
  LET name == ComposeDataString(c.keyFile, index)
  IN  [user |-> user, index |-> index, keyFile |-> name, dataName |-> name,
       localKey |-> c.localKey]

\* Mutant: the index is taken after the account before it.
AddSingleAccountReusing(c, user) ==
  [c EXCEPT !.accounts = Append(@, NewAccount(c, user, IF @ = <<>> THEN 0 ELSE Len(@) - 1)),
            !.mainAccount = IF @ = NoMain THEN 1 ELSE @]

\* Mutant: the first account does not become the main account.
AddSingleAccountNoMain(c, user) ==
  [c EXCEPT !.accounts = Append(@, NewAccount(c, user, Len(@)))]

\* _addSingleAccount
AddSingleAccount(c, user) ==
  [c EXCEPT !.accounts = Append(@, NewAccount(c, user, Len(@))),
            !.mainAccount = IF @ = NoMain THEN 1 ELSE @]

(***************************************************************************)
(* Creating clients, adding accounts, leaving                              *)
(***************************************************************************)

\* TDesktop(passcode=p, keyFile=k)
Create(p, k) ==
  /\ pc = "none"
  /\ client' = NewClient(p, k)
  /\ pc' = "idle"
  /\ UNCHANGED <<perf, job, disk, saved>>

\* TDesktop.FromTelethon(user) and TDesktop.FromPyrogram(user)
CreateFromSession(user) ==
  /\ pc = "none"
  /\ \E key \in FreshKeys :
       client' = AddSingleAccount(GenerateLocalKey(NoClient, key), user)
  /\ pc' = "idle"
  /\ UNCHANGED <<perf, job, disk, saved>>

\* Mutant: the limit is not tested.
AddAccountUnlimited(user) ==
  /\ pc = "idle"
  /\ client' = AddSingleAccount(client, user)
  /\ UNCHANGED <<perf, pc, job, disk, saved>>

\* Account.FromTelethon(..., owner=client): the limit, the index and the
\* keyFile are read after the last await, so the addition is one step.
AddAccount(user) ==
  /\ pc = "idle"
  /\ Len(client.accounts) < MaxAccounts
  /\ client' = AddSingleAccount(client, user)
  /\ UNCHANGED <<perf, pc, job, disk, saved>>

\* TDesktop.PerformanceMode(enabled)
PerformanceMode(enabled) ==
  /\ "performance" \in Uses
  /\ pc \in {"none", "idle"}
  /\ perf' = enabled
  /\ UNCHANGED <<client, pc, job, disk, saved>>

\* The program is done with the object.
Drop ==
  /\ pc = "idle"
  /\ client' = NoClient
  /\ pc' = "none"
  /\ UNCHANGED <<perf, job, disk, saved>>

(***************************************************************************)
(* Loading                                                                 *)
(***************************************************************************)

\* An exception leaves a constructed object as far as it came, and leaves
\* no object behind when it comes out of the constructor.
LoadFails(c, ctor) ==
  /\ client' = IF ctor THEN NoClient ELSE c
  /\ pc' = IF ctor THEN "none" ELSE "idle"
  /\ job' = NoJob

\* __loadFromTData up to the loop over the account indices.
LoadKeyData(c, ctor) ==
  LET data     == keyData[<<c.basePath, c.keyFile>>]
      cleared  == [c EXCEPT !.accounts = <<>>,
                            !.mainAccount = IF @ = NoMain THEN @ ELSE StaleMain]
      unlocked == [cleared EXCEPT !.localKey = data.wrapped,
                                  !.wrap = [pass |-> data.pass,
                                            key |-> data.wrapped]]
  IN  \/ /\ data.wrapped = NoKey \/ data.pass # c.passcode
         /\ LoadFails(cleared, ctor)
      \/ /\ data.wrapped # NoKey /\ data.pass = c.passcode
         /\ \/ data.infoKey # data.wrapped
            \/ Len(data.indices) \notin 1 .. MaxAccounts
         /\ LoadFails(unlocked, ctor)
      \/ /\ data.wrapped # NoKey /\ data.pass = c.passcode
         /\ data.infoKey = data.wrapped
         /\ Len(data.indices) \in 1 .. MaxAccounts
         /\ client' = unlocked
         /\ pc' = "loading"
         /\ job' = [NoJob EXCEPT !.pos = 1, !.ctor = ctor]

\* TDesktop(basePath=f, passcode=p, keyFile=k)
Open(f, p, k) ==
  /\ pc = "none"
  /\ LoadKeyData([NewClient(p, k) EXCEPT !.basePath = f], TRUE)
  /\ UNCHANGED <<perf, disk, saved>>

\* LoadTData(basePath=f, passcode=p, keyFile=k): f is only tested for None,
\* the folder read is the one of the constructor or of the first save.
LoadTData(f, p, k) ==
  /\ "reload" \in Uses
  /\ pc = "idle"
  /\ f # NoFolder \/ client.basePath # NoFolder
  /\ LET c == [client EXCEPT !.keyFile  = IF k = NoArg THEN @ ELSE k,
                             !.passcode = IF p = NoArg THEN @ ELSE p]
     IN  IF c.basePath = NoFolder THEN LoadFails(c, FALSE)
                                  ELSE LoadKeyData(c, FALSE)
  /\ UNCHANGED <<perf, disk, saved>>

LoadedData == keyData[<<client.basePath, client.keyFile>>]

\* The map and the authorization of an account open with the local key.
Opens(f, name, key) ==
  /\ mapFile[<<f, name>>] = key
  /\ mtpFile[<<f, name>>].key = key

\* One turn of the loop: an account that does not load is skipped.
LoadAccount ==
  /\ pc = "loading"
  /\ job.pos <= Len(LoadedData.indices)
  /\ LET index == LoadedData.indices[job.pos]
         name  == ComposeDataString(client.keyFile, index)
         user  == mtpFile[<<client.basePath, name>>].user
     IN  client' = IF /\ index \in Indices
                      /\ Opens(client.basePath, name, client.localKey)
                   THEN [client EXCEPT !.accounts =
                           Append(@, NewAccount(client, user, index))]
                   ELSE client
  /\ job' = [job EXCEPT !.pos = @ + 1]
  /\ UNCHANGED <<perf, pc, disk, saved>>

\* The first account with the active index becomes the main account; with
\* none, a main account that is already set is kept.
FinishLoad ==
  /\ pc = "loading"
  /\ job.pos > Len(LoadedData.indices)
  /\ \/ client.accounts = <<>> /\ LoadFails(client, job.ctor)
     \/ /\ client.accounts # <<>>
        /\ LET active  == LoadedData.active
               matches == {i \in DOMAIN client.accounts :
                             client.accounts[i].index = active}
               first   == {i \in matches : \A j \in matches : i <= j}
           IN \E main \in IF matches # {} THEN first
                          ELSE IF client.mainAccount = NoMain THEN {1}
                          ELSE {client.mainAccount} :
                client' = [client EXCEPT !.activeIndex = active,
                                         !.mainAccount = main,
                                         !.isLoaded = TRUE]
        /\ pc' = "idle"
        /\ job' = NoJob
  /\ UNCHANGED <<perf, disk, saved>>

(***************************************************************************)
(* Saving                                                                  *)
(***************************************************************************)

\* StorageAccount._writeData: a keyFile that differs from the account's own
\* composed name replaces it for this save, without the index, and leaves
\* the stored data name alone.
Renamed(account, k) == k # NoArg /\ account.keyFile # ComposeDataString(k, 0)

WriteName(account, k) ==
  IF Renamed(account, k) THEN ComposeDataString(k, 0) ELSE account.dataName

RenameAccount(c, i, k) ==
  IF Renamed(c.accounts[i], k)
  THEN [c EXCEPT !.accounts[i].keyFile = ComposeDataString(k, 0)]
  ELSE c

\* The indices of slot s whose accounts the key would open.
ReadableIndices(s, key) ==
  IF keyData[s].wrapped # key THEN {}
  ELSE {i \in Indices :
          /\ \E j \in DOMAIN keyData[s].indices : keyData[s].indices[j] = i
          /\ Opens(s[1], ComposeDataString(s[2], i), key)}

\* SaveTData without any folder: the keyFile argument has been taken over.
SaveWithoutFolder(k) ==
  /\ pc = "idle"
  /\ client.basePath = NoFolder
  /\ client' = [client EXCEPT !.keyFile = IF k = NoArg THEN @ ELSE k]
  /\ UNCHANGED <<perf, pc, job, disk, saved>>

\* Mutant: a new passcode does not get a new local key.
PreparedKeepingKey(f, p, k, key) ==
  LET c == [client EXCEPT !.keyFile = IF k = NoArg THEN @ ELSE k,
                          !.passcode = IF p = NoArg THEN @ ELSE p,
                          !.basePath = IF @ = NoFolder THEN f ELSE @]
  IN  IF c.isLoaded THEN c ELSE GenerateLocalKey(c, key)

\* The client as SaveTData(basePath=f, passcode=p, keyFile=k) makes it before
\* the first file: the keyFile is taken over, the folder only by a client that
\* has none, and a new passcode or a client without a local key gets one.
Prepared(f, p, k, key) ==
  LET c0 == [client EXCEPT !.keyFile = IF k = NoArg THEN @ ELSE k,
                           !.basePath = IF @ = NoFolder THEN f ELSE @]
      c1 == IF p # NoArg /\ p # c0.passcode
            THEN [c0 EXCEPT !.passcode = p, !.isLoaded = FALSE] ELSE c0
  IN  IF c1.isLoaded THEN c1 ELSE GenerateLocalKey(c1, key)

\* SaveTData up to the first file; without accounts it ends there.
SaveTData(f, p, k) ==
  /\ pc = "idle"
  /\ \E key \in FreshKeys :
       LET c    == Prepared(f, p, k, key)
           slot == <<f, c.keyFile>>
       IN  IF c.accounts = <<>>
           THEN client' = c /\ UNCHANGED <<pc, job, saved>>
           ELSE /\ client' = RenameAccount(c, 1, k)
                /\ pc' = "map"
                /\ job' = [NoJob EXCEPT
                             !.folder = f, !.arg = k, !.pos = 1,
                             !.name = WriteName(c.accounts[1], k),
                             !.before = ReadableIndices(slot, c.localKey)]
                /\ saved' = [saved EXCEPT ![slot] = NotSaved]
  /\ UNCHANGED <<perf, disk>>

CurrentFile == <<job.folder, job.name>>
CurrentSlot == <<job.folder, client.keyFile>>
Current     == client.accounts[job.pos]

\* Mutant: the key file is opened together with the first file.
OpenFileAndKey ==
  /\ pc \in SaveStages
  /\ ~job.opened
  /\ job' = [job EXCEPT !.opened = TRUE]
  /\ mapFile' = IF pc = "map" THEN [mapFile EXCEPT ![CurrentFile] = NoKey]
                              ELSE mapFile
  /\ keyData' = [keyData EXCEPT ![CurrentSlot] = NoKeyData]
  /\ UNCHANGED <<perf, client, pc, mtpFile, saved>>

\* Storage.WriteFile opens the file for writing, which empties it.  The
\* config file is not tracked: whether it can be read never decides whether
\* an account loads.
OpenFile ==
  /\ pc \in SaveStages
  /\ ~job.opened
  /\ pc = "map" => Current.localKey # NoKey
  /\ job' = [job EXCEPT !.opened = TRUE]
  /\ mapFile' = IF pc = "map" THEN [mapFile EXCEPT ![CurrentFile] = NoKey]
                              ELSE mapFile
  /\ mtpFile' = IF pc = "mtp" THEN [mtpFile EXCEPT ![CurrentFile] = NoMtp]
                              ELSE mtpFile
  /\ keyData' = IF pc = "key" THEN [keyData EXCEPT ![CurrentSlot] = NoKeyData]
                              ELSE keyData
  /\ UNCHANGED <<perf, client, pc, saved>>

FileClosed(stage) == pc = stage /\ job.opened

WriteMap ==
  /\ FileClosed("map")
  /\ mapFile' = [mapFile EXCEPT ![CurrentFile] = Current.localKey]
  /\ pc' = "config"
  /\ job' = [job EXCEPT !.opened = FALSE]
  /\ UNCHANGED <<perf, client, keyData, mtpFile, saved>>

WriteMtpConfig ==
  /\ FileClosed("config")
  /\ pc' = "mtp"
  /\ job' = [job EXCEPT !.opened = FALSE]
  /\ UNCHANGED <<perf, client, disk, saved>>

\* Mutant: the loop over the accounts ends with the first.
WriteMtpDataOnce ==
  /\ FileClosed("mtp")
  /\ mtpFile' = [mtpFile EXCEPT ![CurrentFile] =
                   [key |-> Current.localKey, user |-> Current.user]]
  /\ job' = [job EXCEPT !.opened = FALSE]
  /\ pc' = "key"
  /\ UNCHANGED <<perf, client, keyData, mapFile, saved>>

\* writeMtpData, then the next turn of the loop of __writeAccounts.
WriteMtpData ==
  /\ FileClosed("mtp")
  /\ mtpFile' = [mtpFile EXCEPT ![CurrentFile] =
                   [key |-> Current.localKey, user |-> Current.user]]
  /\ IF job.pos < Len(client.accounts)
     THEN LET next == job.pos + 1
          IN  /\ client' = RenameAccount(client, next, job.arg)
              /\ job' = [job EXCEPT !.opened = FALSE, !.pos = next,
                           !.name = WriteName(client.accounts[next], job.arg)]
              /\ pc' = "map"
     ELSE /\ job' = [job EXCEPT !.opened = FALSE]
          /\ pc' = "key"
          /\ UNCHANGED client
  /\ UNCHANGED <<perf, keyData, mapFile, saved>>

\* The key file is written last; then SaveTData returns True.
WriteKeyData ==
  /\ FileClosed("key")
  /\ keyData' = [keyData EXCEPT ![CurrentSlot] =
       [pass |-> client.wrap.pass, wrapped |-> client.wrap.key,
        infoKey |-> client.localKey, active |-> client.activeIndex,
        indices |-> [i \in DOMAIN client.accounts |-> client.accounts[i].index]]]
  /\ saved' = [saved EXCEPT ![CurrentSlot] =
       [pass |-> client.passcode,
        accounts |-> [i \in DOMAIN client.accounts |->
                        [index |-> client.accounts[i].index,
                         user  |-> client.accounts[i].user]]]]
  /\ pc' = "idle"
  /\ job' = NoJob
  /\ UNCHANGED <<perf, client, mapFile, mtpFile>>

\* A file that cannot be opened or written, or an account that has no local
\* key: the exception leaves SaveTData, what is on disk stays there.
SaveFails ==
  /\ pc \in SaveStages
  /\ \/ "fault" \in Uses
     \/ pc = "map" /\ Current.localKey = NoKey
  /\ pc' = "idle"
  /\ job' = NoJob
  /\ UNCHANGED <<perf, client, disk, saved>>

\* The process dies inside a save; the next one starts with the defaults.
Crash ==
  /\ "crash" \in Uses
  /\ pc \in SaveStages
  /\ client' = NoClient
  /\ pc' = "none"
  /\ job' = NoJob
  /\ perf' = FALSE
  /\ UNCHANGED <<disk, saved>>

SaveKeyFiles == {NoArg} \cup (IF "keyFile" \in Uses THEN KeyFiles ELSE {})

Next ==
  \/ \E p \in Passcodes, k \in KeyFiles : Create(p, k)
  \/ \E u \in Users : CreateFromSession(u)
  \/ \E u \in Users : AddAccount(u)
  \/ \E b \in BOOLEAN : PerformanceMode(b)
  \/ Drop
  \/ \E f \in Folders, p \in Passcodes, k \in KeyFiles : Open(f, p, k)
  \/ \E f \in Folders \cup {NoFolder}, p \in Passcodes \cup {NoArg},
        k \in KeyFiles \cup {NoArg} : LoadTData(f, p, k)
  \/ LoadAccount
  \/ FinishLoad
  \/ \E k \in SaveKeyFiles : SaveWithoutFolder(k)
  \/ \E f \in Folders, p \in Passcodes \cup {NoArg}, k \in SaveKeyFiles :
        SaveTData(f, p, k)
  \/ OpenFile
  \/ WriteMap
  \/ WriteMtpConfig
  \/ WriteMtpData
  \/ WriteKeyData
  \/ SaveFails
  \/ Crash

Spec == Init /\ [][Next]_vars

(***************************************************************************)
(* Properties                                                              *)
(***************************************************************************)

AccountType == [user : Users, index : Indices, keyFile : DataNames,
                dataName : DataNames, localKey : Keys]
ClientType  == [passcode : Passcodes, keyFile : KeyFiles,
                basePath : Folders \cup {NoFolder}, localKey : Keys,
                wrap : [pass : Passcodes, key : Keys], isLoaded : BOOLEAN,
                activeIndex : Int, accounts : Seq(AccountType),
                mainAccount : Int]
JobType     == [folder : Folders \cup {NoFolder}, arg : KeyFiles \cup {NoArg},
                pos : Nat, opened : BOOLEAN, name : DataNames,
                ctor : BOOLEAN, before : SUBSET Indices]
KeyDataType == [pass : Passcodes, wrapped : Keys, infoKey : Keys,
                indices : Seq(Nat), active : Int]
MtpType     == [key : Keys \ {NoKey}, user : Users] \cup {NoMtp}
EntryType   == [index : Indices, user : Users]
SavedType   == [pass : Passcodes, accounts : Seq(EntryType)]

\* The types of the state: a client never holds more than kMaxAccounts
\* accounts, its main account is one of them, None or a leftover, and a
\* running load or save is at one of the accounts it goes through.
TypeOK ==
  /\ perf \in BOOLEAN
  /\ client \in ClientType
  /\ Len(client.accounts) <= MaxAccounts
  /\ client.mainAccount \in {StaleMain} \cup 0 .. Len(client.accounts)
  /\ pc \in Places
  /\ job \in JobType
  /\ pc \in SaveStages => /\ job.pos \in DOMAIN client.accounts
                          /\ job.folder \in Folders
  /\ pc = "loading" => client.basePath \in Folders /\ job.pos > 0
  /\ keyData \in [Slots -> KeyDataType]
  /\ mapFile \in [Files -> Keys]
  /\ mtpFile \in [Files -> MtpType]
  /\ saved \in [Slots -> SavedType]

\* No two of the accounts have the same index.
Distinct(accounts) ==
  \A i, j \in DOMAIN accounts : accounts[i].index = accounts[j].index => i = j

\* Whenever SaveTData has returned True, and until the next save into the
\* same folder and keyFile begins, what is on disk opens with the client's
\* passcode, lists exactly the accounts of the client, and the files of every
\* one of them open with the local key the key file wraps -- whatever was
\* saved elsewhere, failed or was cut short before or since.
SlotIntact(s) ==
  LET data == keyData[s]
  IN  /\ data.pass = saved[s].pass
      /\ data.wrapped # NoKey
      /\ data.infoKey = data.wrapped
      /\ Len(data.indices) = Len(saved[s].accounts)
      /\ \A i \in DOMAIN saved[s].accounts :
           LET name == ComposeDataString(s[2], saved[s].accounts[i].index)
           IN  /\ data.indices[i] = saved[s].accounts[i].index
               /\ Opens(s[1], name, data.wrapped)
               /\ mtpFile[<<s[1], name>>].user = saved[s].accounts[i].user

SavedSlotsOpen ==
  \A s \in Slots :
    saved[s].accounts # <<>> /\ Distinct(saved[s].accounts) => SlotIntact(s)

\* The same without the proviso on indices: a save that returned True kept
\* every account (the first line of SaveTData's description).
EveryAccountSaved ==
  \A s \in Slots : saved[s].accounts # <<>> => SlotIntact(s)

\* The two parts of a key file always agree: the local key wrapped by the
\* passcode is the one the account list is encrypted with, in memory (a client
\* that is loaded, loading or saving) and on disk, whatever the calls, the
\* faults and the mode.
WrapsLocalKey ==
  /\ client.isLoaded \/ pc \notin {"none", "idle"} =>
       /\ client.wrap.key = client.localKey
       /\ client.localKey # NoKey
  /\ \A s \in Slots : keyData[s].infoKey = keyData[s].wrapped

\* Between calls the accounts of a loaded client carry its local key, so the
\* next save writes files that the key file opens.
AccountsShareLocalKey ==
  client.isLoaded /\ pc = "idle" =>
    \A i \in DOMAIN client.accounts :
      client.accounts[i].localKey = client.localKey

\* mainAccount is one of the accounts of the client as soon as it has any.
MainAccountListed ==
  pc = "idle" /\ client.accounts # <<>> =>
    client.mainAccount \in DOMAIN client.accounts

\* A save over a slot whose key it keeps never has more than one of the
\* accounts stored there unreadable at a time, until it comes to the key
\* file: cut short there, it costs one account.
ResaveRisksOneAccount ==
  pc \in SaveStages \ {"key"} =>
    Cardinality(job.before \ ReadableIndices(CurrentSlot, client.localKey)) <= 1

\* Loading a slot that was saved completely succeeds and restores the saved
\* accounts, in their order.
LoadRestores ==
  [][pc = "loading" /\ pc' # "loading" =>
       LET s == <<client.basePath, client.keyFile>>
       IN  saved[s].accounts # <<>> /\ Distinct(saved[s].accounts) =>
             /\ pc' = "idle"
             /\ [i \in DOMAIN client'.accounts |->
                   [index |-> client'.accounts[i].index,
                    user  |-> client'.accounts[i].user]] = saved[s].accounts]_vars

\* Every account's index is its own (index's description in Account).
IndicesDistinct == Distinct(client.accounts)
=============================================================================
