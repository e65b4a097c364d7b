------------------------- MODULE TDesktopVaultProofs ------------------------
(***************************************************************************)
(* TDesktop implements SessionVault, for every value of its constants and  *)
(* with any failure and crash, as long as the client is in plain use: the  *)
(* file writes of a save are seen as one commit into one slot.             *)
(***************************************************************************)
EXTENDS TDesktopVault, TDesktopProofs, FiniteSetTheorems

(***************************************************************************)
(* What the mapping needs to know                                          *)
(***************************************************************************)

\* Between two clients there is nothing left of the first.
NoneInv == pc = "none" => client = NoClient

\* A slot that does not open shows no passcode.
ClosedInv == \A s \in Slots : keyData[s].wrapped = NoKey => keyData[s].pass = NoPasscode

\* What the files of a slot say of the accounts with the given indices.
Entries(s, indices) == {<<i, mtpFile[SlotFile(s, i)].user>> : i \in indices}

\* The readable indices in the list of slot s before turn n of a load.
Seen(s, n) ==
  {i \in ReadableIndices(s, keyData[s].wrapped) :
     \E j \in DOMAIN keyData[s].indices : j < n /\ keyData[s].indices[j] = i}

\* A load has found exactly the readable accounts of the turns so far.
LoadExact ==
  pc = "loading" =>
    /\ client.localKey = keyData[LoadSlot].wrapped
    /\ client.passcode = keyData[LoadSlot].pass
    /\ AccountsOf(client.accounts) = Entries(LoadSlot, Seen(LoadSlot, job.pos))

\* The files of account i open and are of an account with its index.
Held(i) ==
  /\ mapFile[AccountFile(i)] = client.localKey
  /\ mtpFile[AccountFile(i)].key = client.localKey
  /\ \E j \in DOMAIN client.accounts :
       /\ client.accounts[j].index = client.accounts[i].index
       /\ client.accounts[j].user = mtpFile[AccountFile(i)].user

\* Accounts that a save has come past are on disk, also when two of them have
\* one index, but for the files that are being written.
SaveExact ==
  pc \in SaveStages =>
    /\ \A i \in 1 .. job.pos :
         pc = "key" \/ AccountFile(i) # CurrentFile => Held(i)
    /\ pc \in {"config", "mtp"} => mapFile[CurrentFile] = client.localKey

VaultInv == NoneInv /\ ClosedInv /\ LoadExact /\ SaveExact

(***************************************************************************)
(* A save                                                                  *)
(***************************************************************************)

\* What is known of the locals of a save.
LEMMA SaveFacts ==
  ASSUME TypeInv, ClientInv, SaveInv, pc \in SaveStages
  PROVE  /\ job \in JobType
         /\ client \in ClientType
         /\ client.accounts \in Seq(AccountType)
         /\ job.pos \in 1 .. Len(client.accounts)
         /\ Current.localKey = client.localKey
         /\ CurrentFile = AccountFile(job.pos)
         /\ CurrentFile \in Files
         /\ CurrentSlot \in Slots
         /\ Keyed(client)
         /\ pc = "key" => job.pos = Len(client.accounts)
<1>1. /\ client \in ClientType
      /\ job \in JobType
      /\ job.folder \in Folders
      /\ job.pos \in DOMAIN client.accounts
  BY DEF TypeInv, PlaceOK, ClientOK
<1>2. client.accounts \in Seq(AccountType)
  BY <1>1 DEF ClientType
<1> QED
  BY <1>1, <1>2
  DEF ClientInv, Keyed, Current, CurrentFile, CurrentSlot, SaveInv, Files, Slots, JobType,
      ClientType

\* The steps within a save: one of four writes.
LEMMA SaveSteps ==
  ASSUME pc \in SaveStages, pc' \in SaveStages, [Next]_vars
  PROVE  OpenFile \/ WriteMap \/ WriteMtpConfig \/ WriteMtpData \/ UNCHANGED vars
<1> USE DEF SaveStages
<1>1. ~(LoadAccount \/ FinishLoad \/ Drop \/ Crash \/ SaveFails \/ WriteKeyData)
  BY DEF LoadAccount, FinishLoad, Drop, Crash, SaveFails, WriteKeyData
<1>2. \A f, p, k : ~(Open(f, p, k) \/ LoadTData(f, p, k) \/ SaveTData(f, p, k))
  <2>1. \A f, p, k : Open(f, p, k) => pc = "none"
    BY Zenon DEF Open
  <2>2. \A f, p, k : LoadTData(f, p, k) => pc = "idle"
    BY Zenon DEF LoadTData
  <2>3. \A f, p, k : SaveTData(f, p, k) => pc = "idle"
    BY Zenon DEF SaveTData
  <2> QED
    BY <2>1, <2>2, <2>3
<1>3. \A u, p, k : ~(\/ Create(p, k)
                    \/ CreateFromSession(u)
                    \/ AddAccount(u)
                    \/ PerformanceMode(u)
                    \/ SaveWithoutFolder(k))
  BY DEF Create, CreateFromSession, AddAccount, PerformanceMode, SaveWithoutFolder
<1> QED
  BY <1>1, <1>2, <1>3 DEF Next

\* A save is begun by SaveTData.
LEMMA SaveBegins ==
  ASSUME TypeInv, pc \notin SaveStages, pc' \in SaveStages, [Next]_vars
  PROVE  \E f \in Folders, p \in Passcodes \cup {NoArg}, k \in SaveKeyFiles :
           SaveTData(f, p, k)
<1> USE DEF SaveStages
<1>1. ASSUME NEW c, NEW ctor, LoadKeyData(c, ctor) \/ LoadFails(c, ctor)
      PROVE  FALSE
  BY <1>1 DEF LoadKeyData, LoadFails
<1>2. ~(LoadAccount \/ FinishLoad)
  BY <1>1 DEF LoadAccount, FinishLoad
<1>3. \A f, p, k : ~(Open(f, p, k) \/ LoadTData(f, p, k))
  BY <1>1 DEF Open, LoadTData
<1>4. ~(Drop \/ Crash \/ SaveFails \/ OpenFile \/ UNCHANGED vars)
  BY DEF Drop, Crash, SaveFails, OpenFile, vars
<1>5. ~(WriteMap \/ WriteMtpConfig \/ WriteMtpData \/ WriteKeyData)
  BY DEF WriteMap, WriteMtpConfig, WriteMtpData, WriteKeyData, FileClosed
<1>6. \A u, p, k : ~(\/ Create(p, k)
                    \/ CreateFromSession(u)
                    \/ AddAccount(u)
                    \/ PerformanceMode(u)
                    \/ SaveWithoutFolder(k))
  BY DEF Create, CreateFromSession, AddAccount, PerformanceMode, SaveWithoutFolder
<1> QED
  BY <1>2, <1>3, <1>4, <1>5, <1>6 DEF Next

\* A step within a save leaves the client alone and writes, of all files, one
\* of the current account or the key file of the slot, which it empties.
LEMMA FileStep ==
  ASSUME TypeInv, NoArgInv, ClientInv, SaveInv, pc \in SaveStages, pc' \in SaveStages,
         [Next]_vars
  PROVE  /\ UNCHANGED <<client, job.folder>>
         /\ \A n \in Files : n # CurrentFile => UNCHANGED <<mapFile[n], mtpFile[n]>>
         /\ \A s \in Slots : s # CurrentSlot => UNCHANGED keyData[s]
         /\ keyData'[CurrentSlot] \in {keyData[CurrentSlot], NoKeyData}
<1> USE SaveFacts DEF TypeInv, FilesOK, SlotsOK
<1>1. CASE OpenFile
  <2>1. job' = [job EXCEPT !.opened = TRUE] /\ UNCHANGED client
    BY <1>1 DEF OpenFile
  <2>2. job'.folder = job.folder
    BY <2>1 DEF JobType
  <2> QED
    BY <1>1, <2>1, <2>2 DEF OpenFile
<1>2. CASE WriteMap
  <2>1. job' = [job EXCEPT !.opened = FALSE] /\ UNCHANGED client
    BY <1>2 DEF WriteMap
  <2>2. job'.folder = job.folder
    BY <2>1 DEF JobType
  <2> QED
    BY <1>2, <2>1, <2>2 DEF WriteMap
<1>3. CASE WriteMtpConfig
  <2>1. job' = [job EXCEPT !.opened = FALSE] /\ UNCHANGED client
    BY <1>3 DEF WriteMtpConfig
  <2>2. job'.folder = job.folder
    BY <2>1 DEF JobType
  <2> QED
    BY <1>3, <2>1, <2>2 DEF WriteMtpConfig, disk
<1>4. CASE WriteMtpData
  <2>1. UNCHANGED client
    BY <1>4, NoRename DEF WriteMtpData, FileClosed, SaveStages, NoArgInv
  <2>2. job'.folder = job.folder
    BY <1>4 DEF WriteMtpData, JobType
  <2> QED
    BY <1>4, <2>1, <2>2 DEF WriteMtpData
<1>5. CASE UNCHANGED vars
  BY <1>5 DEF vars, disk
<1> QED
  BY <1>1, <1>2, <1>3, <1>4, <1>5, SaveSteps

\* A step within a save leaves what was written for the other files.
LEMMA HeldStays ==
  ASSUME TypeInv, NoArgInv, ClientInv, SaveInv, pc \in SaveStages, pc' \in SaveStages,
         [Next]_vars, NEW i \in 1 .. Len(client.accounts),
         AccountFile(i) # CurrentFile, Held(i)
  PROVE  Held(i)'
<1>1. AccountFile(i) \in Files
  <2>1. client.accounts[i] \in AccountType /\ CurrentFile \in Files /\ client \in ClientType
    BY SaveFacts
  <2> QED
    BY <2>1 DEF AccountType, AccountFile, ComposeDataString, Files, DataNames, ClientType,
       TypeInv, PlaceOK
<1>2. PICK n \in Files : n = AccountFile(i)
  BY <1>1
<1>3. UNCHANGED <<client, job.folder>> /\ UNCHANGED <<mapFile[n], mtpFile[n]>>
  BY <1>2, FileStep
<1>4. AccountFile(i)' = n
  BY <1>2, <1>3 DEF AccountFile
<1> QED
  BY <1>2, <1>3, <1>4 DEF Held

\* A save, one file further.
LEMMA NextSaveExact ==
  ASSUME Plain, TypeInv, NoArgInv, ClientInv, SaveInv, SaveExact, [Next]_vars
  PROVE  SaveExact'
<1> USE DEF SaveStages
<1>1. CASE pc' \notin SaveStages
  BY <1>1 DEF SaveExact
<1>2. CASE pc \notin SaveStages /\ pc' \in SaveStages
  <2>1. PICK f \in Folders, p \in Passcodes \cup {NoArg}, k \in SaveKeyFiles :
          SaveTData(f, p, k)
    BY <1>2, SaveBegins
  <2>2. pc' = "map" /\ job'.pos = 1
    BY <1>2, <2>1 DEF SaveTData, NoJob
  <2>3. TypeInv' /\ NoArgInv' /\ ClientInv' /\ SaveInv'
    BY NextType, NextNoArg, NextKeys, NextSave
  <2>4. CurrentFile' = AccountFile(1)'
    BY <2>2, <2>3 DEF SaveInv
  <2> QED
    BY <2>2, <2>4 DEF SaveExact
<1>3. CASE pc \in SaveStages /\ pc' \in SaveStages
  <2>1. /\ job \in JobType
        /\ job.pos \in 1 .. Len(client.accounts)
        /\ Len(client.accounts) \in Nat
        /\ Current.localKey = client.localKey
        /\ CurrentFile = AccountFile(job.pos)
        /\ CurrentFile \in Files
    BY <1>3, SaveFacts
  <2>2. /\ UNCHANGED <<client, job.folder>>
        /\ \A i : AccountFile(i)' = AccountFile(i)
    BY <1>3, FileStep DEF AccountFile
  <2>3. ASSUME NEW i \in 1 .. job.pos, AccountFile(i) # CurrentFile
        PROVE  Held(i)'
    <3>1. i \in 1 .. Len(client.accounts)
      BY <2>1
    <3>2. Held(i)
      BY <1>3, <2>3 DEF SaveExact
    <3> QED
      BY <1>3, <2>3, <3>1, <3>2, HeldStays
  <2>4. CASE OpenFile
    <3>1. UNCHANGED <<pc, job.pos, job.name>>
      BY <2>1, <2>4 DEF OpenFile, JobType
    <3>2. CurrentFile' = CurrentFile
      BY <2>2, <3>1 DEF CurrentFile
    <3>3. ASSUME pc = "key", NEW i \in 1 .. job.pos
          PROVE  Held(i)'
      <4>1. UNCHANGED <<mapFile, mtpFile>> /\ Held(i)
        BY <1>3, <2>4, <3>3 DEF OpenFile, SaveExact
      <4> QED
        BY <2>2, <4>1 DEF Held
    <3>4. pc \in {"config", "mtp"} => mapFile'[CurrentFile] = client.localKey
      BY <1>3, <2>4 DEF OpenFile, SaveExact
    <3> QED
      BY <2>2, <2>3, <3>1, <3>2, <3>3, <3>4 DEF SaveExact
  <2>5. CASE WriteMap
    <3>1. pc' = "config" /\ UNCHANGED <<job.pos, job.name>>
      BY <2>1, <2>5 DEF WriteMap, JobType
    <3>2. CurrentFile' = CurrentFile
      BY <2>2, <3>1 DEF CurrentFile
    <3>3. mapFile'[CurrentFile] = client.localKey
      BY <2>1, <2>5 DEF WriteMap, TypeInv, FilesOK
    <3> QED
      BY <2>2, <2>3, <3>1, <3>2, <3>3 DEF SaveExact
  <2>6. CASE WriteMtpConfig
    <3>1. /\ pc' = "mtp" /\ pc = "config"
          /\ UNCHANGED <<job.pos, job.name, mapFile>>
      BY <2>1, <2>6 DEF WriteMtpConfig, FileClosed, JobType, disk
    <3>2. CurrentFile' = CurrentFile
      BY <2>2, <3>1 DEF CurrentFile
    <3>3. mapFile'[CurrentFile] = client.localKey
      BY <1>3, <3>1 DEF SaveExact
    <3> QED
      BY <2>2, <2>3, <3>1, <3>2, <3>3 DEF SaveExact
  <2>7. CASE WriteMtpData
    <3>1. /\ pc = "mtp"
          /\ UNCHANGED mapFile
          /\ mtpFile' = [mtpFile EXCEPT ![CurrentFile] =
                           [key |-> client.localKey, user |-> client.accounts[job.pos].user]]
      BY <2>1, <2>7 DEF WriteMtpData, FileClosed, Current
    <3>2. mapFile[CurrentFile] = client.localKey
      BY <1>3, <3>1 DEF SaveExact
    <3>3. ASSUME NEW i \in 1 .. job.pos
          PROVE  Held(i)'
      <4>1. CASE AccountFile(i) = CurrentFile
        <5>1. client.accounts[i].index = client.accounts[job.pos].index
          BY <2>1, <4>1 DEF AccountFile, ComposeDataString
        <5>2. mtpFile'[CurrentFile] = [key  |-> client.localKey,
                                       user |-> client.accounts[job.pos].user]
          BY <2>1, <3>1 DEF TypeInv, FilesOK
        <5>3. job.pos \in DOMAIN client'.accounts
          BY <1>3, <2>2, SaveFacts
        <5> QED
          BY <2>2, <3>1, <3>2, <4>1, <5>1, <5>2, <5>3 DEF Held
      <4> QED
        BY <2>3, <4>1
    <3>4. CASE pc' = "key"
      <4>1. job'.pos = job.pos
        BY <2>1, <2>7, <3>4 DEF WriteMtpData, JobType
      <4> QED
        BY <3>3, <3>4, <4>1 DEF SaveExact
    <3>5. CASE pc' # "key"
      <4>1. pc' = "map" /\ job'.pos = job.pos + 1
        BY <2>1, <2>7, <3>5 DEF WriteMtpData, JobType
      <4>2. CurrentFile' = AccountFile(job.pos)'
        <5>1. SaveInv'
          BY NextSave
        <5> QED
          BY <4>1, <5>1, Zenon DEF SaveInv, SaveStages
      <4>3. ASSUME NEW i \in 1 .. job.pos + 1, AccountFile(i)' # CurrentFile'
            PROVE  Held(i)'
        <5>1. i # job.pos + 1
          BY <4>1, <4>2, <4>3 DEF AccountFile
        <5>2. i \in 1 .. job.pos
          BY <2>1, <4>3, <5>1
        <5> QED
          BY <3>3, <5>2
      <4> QED
        BY <4>1, <4>3 DEF SaveExact
    <3> QED
      BY <3>4, <3>5
  <2>8. CASE UNCHANGED vars
    BY <2>8 DEF vars, disk, SaveExact, Held, AccountFile, CurrentFile
  <2> QED
    BY <1>3, <2>4, <2>5, <2>6, <2>7, <2>8, SaveSteps
<1> QED
  BY <1>1, <1>2, <1>3

\* A save ends with the key file, an exception or the process.
LEMMA SaveEnds ==
  ASSUME TypeInv, pc \in SaveStages, pc' \notin SaveStages, [Next]_vars
  PROVE  WriteKeyData \/ SaveFails \/ Crash
<1> USE DEF SaveStages
<1>1. ~(LoadAccount \/ FinishLoad \/ Drop \/ UNCHANGED vars)
  BY DEF LoadAccount, FinishLoad, Drop, vars
<1>2. ~(OpenFile \/ WriteMap \/ WriteMtpConfig)
  BY DEF OpenFile, WriteMap, WriteMtpConfig
<1>3. ~WriteMtpData
  BY DEF WriteMtpData
<1>4. \A f, p, k : ~(Open(f, p, k) \/ LoadTData(f, p, k) \/ SaveTData(f, p, k))
  <2>1. \A f, p, k : Open(f, p, k) => pc = "none"
    BY Zenon DEF Open
  <2>2. \A f, p, k : LoadTData(f, p, k) => pc = "idle"
    BY Zenon DEF LoadTData
  <2>3. \A f, p, k : SaveTData(f, p, k) => pc = "idle"
    BY Zenon DEF SaveTData
  <2> QED
    BY <2>1, <2>2, <2>3
<1>5. \A u, p, k : ~(\/ Create(p, k)
                    \/ CreateFromSession(u)
                    \/ AddAccount(u)
                    \/ PerformanceMode(u)
                    \/ SaveWithoutFolder(k))
  BY DEF Create, CreateFromSession, AddAccount, PerformanceMode, SaveWithoutFolder
<1> QED
  BY <1>1, <1>2, <1>3, <1>4, <1>5 DEF Next

\* Only a save writes.
LEMMA CallsKeepDisk ==
  ASSUME TypeInv, pc \notin SaveStages, [Next]_vars
  PROVE  UNCHANGED disk
<1>1. ~(\/ OpenFile \/ WriteMap \/ WriteMtpConfig \/ WriteMtpData \/ WriteKeyData
        \/ SaveFails \/ Crash)
  BY DEF OpenFile, WriteMap, WriteMtpConfig, WriteMtpData, WriteKeyData, SaveFails, Crash,
     FileClosed, SaveStages
<1>2. LoadAccount \/ FinishLoad \/ Drop \/ UNCHANGED vars => UNCHANGED disk
  BY DEF LoadAccount, FinishLoad, Drop, vars, disk
<1>3. /\ \A p, k : Create(p, k) => UNCHANGED disk
      /\ \A k : SaveWithoutFolder(k) => UNCHANGED disk
      /\ \A u : CreateFromSession(u) => UNCHANGED disk
      /\ \A u : AddAccount(u) => UNCHANGED disk
      /\ \A b : PerformanceMode(b) => UNCHANGED disk
  BY Zenon DEF Create, CreateFromSession, AddAccount, PerformanceMode, SaveWithoutFolder
<1>4. /\ \A f, p, k : Open(f, p, k) => UNCHANGED disk
      /\ \A f, p, k : LoadTData(f, p, k) => UNCHANGED disk
      /\ \A f, p, k : SaveTData(f, p, k) => UNCHANGED disk
  BY Zenon DEF Open, LoadTData, SaveTData
<1> QED
  BY <1>1, <1>2, <1>3, <1>4 DEF Next

(***************************************************************************)
(* Objects that are gone, and slots that do not open                       *)
(***************************************************************************)

\* A step to no client leaves nothing of the client.
LEMMA NextNone ==
  ASSUME Plain, TypeInv, NoneInv, [Next]_vars
  PROVE  NoneInv'
<1> SUFFICES ASSUME pc' = "none"
             PROVE  client' = NoClient
  BY DEF NoneInv
<1>1. ASSUME NEW c, NEW ctor, LoadKeyData(c, ctor) \/ LoadFails(c, ctor)
      PROVE  client' = NoClient
  BY <1>1 DEF LoadKeyData, LoadFails
<1>2. CASE LoadAccount \/ FinishLoad
  BY <1>1, <1>2 DEF LoadAccount, FinishLoad
<1>3. ASSUME NEW f, NEW p, NEW k, Open(f, p, k) \/ LoadTData(f, p, k)
      PROVE  client' = NoClient
  BY <1>1, <1>3 DEF Open, LoadTData
<1>4. CASE Drop \/ Crash \/ UNCHANGED vars
  BY <1>4 DEF Drop, Crash, vars, NoneInv
<1>5. ~(SaveFails \/ OpenFile \/ WriteMap \/ WriteMtpConfig \/ WriteMtpData \/ WriteKeyData)
  BY DEF SaveFails, OpenFile, WriteMap, WriteMtpConfig, WriteMtpData, WriteKeyData,
     SaveStages
<1>6. ASSUME NEW u, NEW p, NEW k,
             \/ Create(p, k)
             \/ CreateFromSession(u)
             \/ AddAccount(u)
             \/ PerformanceMode(u)
             \/ SaveWithoutFolder(k)
      PROVE  client' = NoClient
  BY <1>6
  DEF Create, CreateFromSession, AddAccount, PerformanceMode, SaveWithoutFolder, NoneInv
<1>7. \A f, p, k : ~SaveTData(f, p, k)
  BY DEF SaveTData
<1> QED
  BY <1>2, <1>3, <1>4, <1>5, <1>6, <1>7 DEF Next

\* Every step keeps closed slots without a passcode.
LEMMA NextClosed ==
  ASSUME TypeInv, NoArgInv, ClientInv, SaveInv, ClosedInv, [Next]_vars
  PROVE  ClosedInv'
<1>1. CASE UNCHANGED keyData
  BY <1>1 DEF ClosedInv
<1>2. CASE pc \in SaveStages /\ pc' \in SaveStages
  BY <1>2, FileStep DEF ClosedInv, NoKeyData
<1>3. CASE WriteKeyData
  <2>1. CurrentSlot \in Slots /\ client.wrap.key # NoKey
    BY <1>3, SaveFacts DEF WriteKeyData, FileClosed, SaveStages, Keyed, Wrapped
  <2>2. \A s \in Slots : s # CurrentSlot => keyData'[s] = keyData[s]
    BY <1>3 DEF WriteKeyData, TypeInv, SlotsOK
  <2>3. keyData'[CurrentSlot].wrapped = client.wrap.key
    BY <1>3, <2>1 DEF WriteKeyData, TypeInv, SlotsOK
  <2> QED
    BY <2>1, <2>2, <2>3 DEF ClosedInv
<1>4. CASE SaveFails \/ Crash
  BY <1>1, <1>4 DEF SaveFails, Crash, disk
<1> QED
  BY <1>1, <1>2, <1>3, <1>4, SaveEnds, CallsKeepDisk DEF disk

(***************************************************************************)
(* A load                                                                  *)
(***************************************************************************)

\* An account that is appended is one more pair of an index and a user.
LEMMA AccountsAppend ==
  ASSUME NEW accounts \in Seq(AccountType), NEW a \in AccountType
  PROVE  AccountsOf(Append(accounts, a)) = AccountsOf(accounts) \cup {<<a.index, a.user>>}
<1> DEFINE more == Append(accounts, a)
<1>1. /\ more \in Seq(AccountType)
      /\ Len(more) = Len(accounts) + 1
      /\ \A i \in 1 .. Len(accounts) : more[i] = accounts[i]
      /\ more[Len(accounts) + 1] = a
  BY AppendProperties
<1>2. /\ DOMAIN accounts = 1 .. Len(accounts)
      /\ DOMAIN more = 1 .. Len(accounts) + 1
      /\ Len(accounts) \in Nat
  BY <1>1
<1> HIDE DEF more
<1>3. AccountsOf(more) \subseteq AccountsOf(accounts) \cup {<<a.index, a.user>>}
  BY <1>1, <1>2 DEF AccountsOf
<1>4. AccountsOf(accounts) \subseteq AccountsOf(more)
  BY <1>1, <1>2 DEF AccountsOf
<1>5. <<a.index, a.user>> \in AccountsOf(more)
  <2>1. Len(accounts) + 1 \in DOMAIN more
    BY <1>2
  <2> QED
    BY <1>1, <2>1 DEF AccountsOf
<1> QED
  BY <1>3, <1>4, <1>5 DEF more

\* The next turn sees the account at its index, if that opens.
LEMMA SeenNext ==
  ASSUME NEW s, NEW n \in DOMAIN keyData[s].indices, keyData[s].indices \in Seq(Nat)
  PROVE  LET index == keyData[s].indices[n]
         IN  Seen(s, n + 1) =
               Seen(s, n) \cup
                 IF index \in Indices /\ Opens(s[1], ComposeDataString(s[2], index),
                                               keyData[s].wrapped)
                 THEN {index} ELSE {}
<1> DEFINE list == keyData[s].indices
           key  == keyData[s].wrapped
           R    == ReadableIndices(s, key)
<1>1. \A j \in DOMAIN list : j < n + 1 <=> j < n \/ j = n
  OBVIOUS
<1>2. list[n] \in R <=>
        list[n] \in Indices /\ Opens(s[1], ComposeDataString(s[2], list[n]), key)
  BY DEF ReadableIndices
<1>3. Seen(s, n + 1) = Seen(s, n) \cup {i \in R : i = list[n]}
  BY <1>1 DEF Seen
<1> HIDE DEF list, key, R
<1>4. {i \in R : i = list[n]} = IF list[n] \in R THEN {list[n]} ELSE {}
  OBVIOUS
<1> QED
  BY <1>2, <1>3, <1>4 DEF list, key

\* Every step keeps a load exact.
LEMMA NextLoadExact ==
  ASSUME Plain, TypeInv, LoadExact, [Next]_vars
  PROVE  LoadExact'
<1> SUFFICES ASSUME pc' = "loading"
             PROVE  LoadExact'
  BY DEF LoadExact
<1>1. CASE UNCHANGED vars
  <2>1. UNCHANGED <<client, job, pc, keyData, mapFile, mtpFile>>
    BY <1>1 DEF vars, disk
  <2>2. UNCHANGED <<LoadSlot, AccountsOf(client.accounts)>>
    BY <2>1 DEF LoadSlot, AccountsOf
  <2>3. Seen(LoadSlot, job.pos)' = Seen(LoadSlot, job.pos)
    BY <2>1, <2>2 DEF Seen, ReadableIndices, Opens
  <2>4. Entries(LoadSlot, Seen(LoadSlot, job.pos))' = Entries(LoadSlot, Seen(LoadSlot, job.pos))
    BY <2>1, <2>2, <2>3 DEF Entries
  <2> QED
    BY <2>1, <2>2, <2>4 DEF LoadExact
<1>2. ASSUME NEW f \in Folders, NEW p \in Passcodes, NEW k \in KeyFiles, Open(f, p, k)
      PROVE  LoadExact'
  <2>1. PICK c : c = [NewClient(p, k) EXCEPT !.basePath = f]
    OBVIOUS
  <2>2. c \in ClientType /\ c.basePath = f /\ c.keyFile = k
    BY <2>1, NewClientType DEF ClientOK, ClientType, NewClient
  <2>3. LoadKeyData(c, TRUE) /\ UNCHANGED keyData
    BY <1>2, <2>1 DEF Open, disk
  <2>4. PICK cleared : cleared = [c EXCEPT !.accounts = <<>>,
           !.mainAccount = IF @ = NoMain THEN @ ELSE StaleMain]
    OBVIOUS
  <2>5. /\ client' = [cleared EXCEPT !.localKey = keyData[<<f, k>>].wrapped,
                        !.wrap = [pass |-> keyData[<<f, k>>].pass,
                                  key |-> keyData[<<f, k>>].wrapped]]
        /\ keyData[<<f, k>>].pass = c.passcode
        /\ job' = [NoJob EXCEPT !.pos = 1, !.ctor = TRUE]
    BY <2>2, <2>3, <2>4 DEF LoadKeyData, LoadFails
  <2>6. /\ LoadSlot' = <<f, k>>
        /\ client'.accounts = <<>>
        /\ client'.localKey = keyData[<<f, k>>].wrapped
        /\ client'.passcode = keyData[<<f, k>>].pass
    BY <2>2, <2>4, <2>5 DEF ClientType, LoadSlot
  <2>7. job'.pos = 1
    BY <2>5 DEF NoJob
  <2>8. <<f, k>> \in Slots
    BY DEF Slots
  <2>9. Seen(LoadSlot, job.pos)' = {}
    <3>1. keyData'[<<f, k>>].indices \in Seq(Nat)
      BY <2>3, <2>8 DEF TypeInv, SlotsOK, KeyDataType
    <3>2. \A j \in DOMAIN keyData'[<<f, k>>].indices : ~(j < 1)
      BY <3>1
    <3> QED
      BY <2>6, <2>7, <3>2 DEF Seen
  <2>10. AccountsOf(client.accounts)' = {}
    BY <2>6, EmptySeq DEF AccountsOf
  <2> QED
    BY <2>3, <2>6, <2>9, <2>10 DEF LoadExact, Entries
<1>3. CASE LoadAccount
  <2>1. PICK s \in Slots : s = LoadSlot
    BY <1>3 DEF LoadAccount, TypeInv, PlaceOK, ClientOK, ClientType, LoadSlot, Slots
  <2>2. /\ client \in ClientType /\ job \in JobType
        /\ client.accounts \in Seq(AccountType)
        /\ LoadedData = keyData[s]
        /\ s[1] = client.basePath /\ s[2] = client.keyFile
        /\ keyData[s].indices \in Seq(Nat)
    BY <2>1
    DEF TypeInv, ClientOK, PlaceOK, LoadedData, LoadSlot, ClientType, SlotsOK, KeyDataType
  <2>3. PICK index, user :
          /\ index = keyData[s].indices[job.pos]
          /\ user = mtpFile[SlotFile(s, index)].user
    OBVIOUS
  <2>4. /\ job.pos \in DOMAIN keyData[s].indices
        /\ job'.pos = job.pos + 1
        /\ client.localKey = keyData[s].wrapped
        /\ client.passcode = keyData[s].pass
        /\ AccountsOf(client.accounts) = Entries(s, Seen(s, job.pos))
    BY <1>3, <2>1, <2>2 DEF LoadAccount, LoadExact, JobType, TypeInv, PlaceOK
  <2>5. UNCHANGED <<keyData, mapFile, mtpFile>>
    BY <1>3 DEF LoadAccount, disk
  <2>6. Seen(s, job.pos)' = Seen(s, job.pos + 1)
    BY <2>4, <2>5 DEF Seen, ReadableIndices, Opens
  <2>7. \A is : Entries(s, is)' = Entries(s, is)
    BY <2>5 DEF Entries
  <2>8. CASE index \in Indices /\ Opens(s[1], ComposeDataString(s[2], index), keyData[s].wrapped)
    <3>1. client' = [client EXCEPT !.accounts = Append(@, NewAccount(client, user, index))]
      BY <1>3, <2>2, <2>3, <2>4, <2>8 DEF LoadAccount, SlotFile
    <3>2. user \in Users
      <4>1. SlotFile(s, index) \in Files
        BY <2>2, <2>8 DEF SlotFile, Files, DataNames, ComposeDataString, Slots
      <4>2. mtpFile[SlotFile(s, index)] \in MtpType
        BY <4>1 DEF TypeInv, FilesOK
      <4>3. client.localKey # NoKey
        BY <1>3 DEF TypeInv, RunBounded, LoadAccount
      <4> QED
        BY <2>3, <2>4, <2>8, <4>2, <4>3 DEF Opens, SlotFile, MtpType, NoMtp
    <3>3. PICK a \in AccountType : a = NewAccount(client, user, index)
      BY <2>8, <3>2, NewAccountType DEF TypeInv
    <3>4. a.index = index /\ a.user = user
      BY <3>3 DEF NewAccount
    <3>5. /\ client'.accounts = Append(client.accounts, a)
          /\ client'.localKey = client.localKey
          /\ client'.passcode = client.passcode
          /\ LoadSlot' = s
      BY <2>1, <2>2, <3>1, <3>3 DEF ClientType, LoadSlot
    <3>6. Seen(s, job.pos + 1) = Seen(s, job.pos) \cup {index}
      BY <2>2, <2>3, <2>4, <2>8, SeenNext
    <3>7. AccountsOf(client'.accounts) = AccountsOf(client.accounts) \cup {<<index, user>>}
      BY <2>2, <3>4, <3>5, AccountsAppend
    <3>8. Entries(s, Seen(s, job.pos + 1)) = Entries(s, Seen(s, job.pos)) \cup {<<index, user>>}
      BY <2>3, <3>6 DEF Entries
    <3> QED
      BY <2>4, <2>5, <2>6, <2>7, <3>5, <3>7, <3>8 DEF LoadExact, AccountsOf
  <2>9. CASE ~(index \in Indices /\ Opens(s[1], ComposeDataString(s[2], index),
                                          keyData[s].wrapped))
    <3>1. client' = client
      BY <1>3, <2>2, <2>3, <2>4, <2>9 DEF LoadAccount
    <3>2. Seen(s, job.pos + 1) = Seen(s, job.pos)
      <4>1. PICK n \in DOMAIN keyData[s].indices : n = job.pos
        BY <2>4
      <4>2. Seen(s, n + 1) =
              Seen(s, n) \cup
                IF index \in Indices /\ Opens(s[1], ComposeDataString(s[2], index),
                                              keyData[s].wrapped)
                THEN {index} ELSE {}
        BY <2>2, <2>3, <4>1, SeenNext
      <4>3. Seen(s, n + 1) = Seen(s, n) \cup {}
        BY <2>9, <4>2
      <4> QED
        BY <4>1, <4>3
    <3>3. LoadSlot' = s
      BY <2>1, <3>1 DEF LoadSlot
    <3> QED
      BY <2>4, <2>5, <2>6, <2>7, <3>1, <3>2, <3>3 DEF LoadExact, AccountsOf
  <2> QED
    BY <2>8, <2>9
<1> QED
  BY <1>1, <1>2, <1>3, LoadSteps

(***************************************************************************)
(* The steps of the vault                                                  *)
(***************************************************************************)

\* What the vault sees of a client.
Owned == IF pc = "loading" THEN {} ELSE AccountsOf(client.accounts)

\* What is seen of a slot is of its type.
ViewsOK == \A s \in Slots : View(s) \in Vault!Views

LEMMA ViewType == TypeInv => ViewsOK
<1> SUFFICES ASSUME TypeInv, NEW s \in Slots
             PROVE  View(s) \in Vault!Views
  BY DEF ViewsOK
<1>1. keyData[s] \in KeyDataType
  BY DEF TypeInv, SlotsOK
<1>2. ASSUME NEW i \in ReadableIndices(s, keyData[s].wrapped), keyData[s].wrapped # NoKey
      PROVE  <<i, mtpFile[SlotFile(s, i)].user>> \in Indices \X Users
  <2>1. i \in Indices /\ mtpFile[SlotFile(s, i)].key = keyData[s].wrapped
    BY <1>2 DEF ReadableIndices, Opens, SlotFile
  <2>2. SlotFile(s, i) \in Files
    BY <2>1 DEF SlotFile, Files, DataNames, ComposeDataString, Slots
  <2>3. mtpFile[SlotFile(s, i)] \in MtpType
    BY <2>2 DEF TypeInv, FilesOK
  <2> QED
    BY <1>2, <2>1, <2>3 DEF MtpType, NoMtp
<1>3. View(s).members \subseteq Indices \X Users
  BY <1>2 DEF View, SlotFile
<1> QED
  BY <1>1, <1>3 DEF View, Vault!Views, KeyDataType

\* The slots look the same as long as nothing is written.
LEMMA SameVault ==
  ASSUME UNCHANGED disk
  PROVE  [s \in Slots |-> View(s)]' = [s \in Slots |-> View(s)]
  BY DEF disk, View, ReadableIndices, Opens

\* The client is without accounts after a step that writes nothing.
LEMMA StepLeave ==
  ASSUME pc \notin SaveStages, pc' \notin SaveStages, UNCHANGED disk,
         pc' = "loading" \/ client'.accounts = <<>>,
         client'.passcode \in Passcodes
  PROVE  Vault!Leave
<1>1. AccountsOf(<<>>) = {}
  BY EmptySeq DEF AccountsOf
<1>2. Owned' = {}
  BY <1>1 DEF Owned, AccountsOf
<1> QED
  BY <1>2, SameVault DEF Vault!Leave, Owned

\* The client has one account more.
LEMMA StepJoin ==
  ASSUME pc \notin SaveStages, pc # "loading", pc' = "idle", UNCHANGED disk,
         NEW i \in Indices, NEW u \in Users,
         AccountsOf(client'.accounts) = AccountsOf(client.accounts) \cup {<<i, u>>},
         client'.passcode = client.passcode
  PROVE  Vault!Join(<<i, u>>)
<1>1. Owned' = Owned \cup {<<i, u>>}
  BY DEF Owned, AccountsOf
<1> QED
  BY <1>1, SameVault DEF Vault!Join, Owned, SaveStages

\* Nothing that counts has changed.
LEMMA StepStutter ==
  ASSUME pc \notin SaveStages, pc' = pc, UNCHANGED disk,
         pc = "loading" \/ client'.accounts = client.accounts,
         client'.passcode = client.passcode
  PROVE  UNCHANGED Vault!vars
<1>1. Owned' = Owned
  BY DEF Owned, AccountsOf
<1> QED
  BY <1>1, SameVault DEF Vault!vars, Owned

\* Neither a new local key nor a new passcode changes whose accounts there are.
LEMMA GenerateLocalKeyAccounts ==
  ASSUME NEW c, ClientOK(c), NEW key, NEW d, d = GenerateLocalKey(c, key)
  PROVE  /\ AccountsOf(d.accounts) = AccountsOf(c.accounts)
         /\ DOMAIN d.accounts = DOMAIN c.accounts
         /\ d.passcode = c.passcode
<1>1. c \in ClientType /\ c.accounts \in Seq(AccountType)
  BY DEF ClientOK, ClientType
<1>2. PICK accounts : accounts = [i \in DOMAIN c.accounts |->
                                    [c.accounts[i] EXCEPT !.localKey = key]]
  OBVIOUS
<1>3. \A i \in DOMAIN c.accounts :
        /\ accounts[i].index = c.accounts[i].index
        /\ accounts[i].user = c.accounts[i].user
  <2>1. \A i \in DOMAIN c.accounts : c.accounts[i] \in AccountType
    BY <1>1
  <2> QED
    BY <1>2, <2>1 DEF AccountType
<1>4. DOMAIN accounts = DOMAIN c.accounts
  BY <1>2
<1>5. AccountsOf(accounts) = AccountsOf(c.accounts)
  BY <1>3, <1>4 DEF AccountsOf
<1>6. \/ d = [c EXCEPT !.localKey = PerfKey, !.isLoaded = TRUE,
                       !.wrap = [pass |-> NoPasscode, key |-> PerfKey]]
      \/ d = [c EXCEPT !.localKey = key, !.isLoaded = TRUE,
                       !.wrap = [pass |-> c.passcode, key |-> key], !.accounts = accounts]
  BY <1>2 DEF GenerateLocalKey
<1>7. /\ d.accounts = c.accounts \/ d.accounts = accounts
      /\ d.passcode = c.passcode
  BY <1>1, <1>6 DEF ClientType
<1> QED
  BY <1>4, <1>5, <1>7

\* SaveTData goes to the files with the accounts the client had.
LEMMA PreparedAccounts ==
  ASSUME ClientOK(client), NEW f \in Folders, NEW p \in Passcodes \cup {NoArg},
         NEW k \in SaveKeyFiles, NEW key \in RandomKeys, NEW d, d = Prepared(f, p, k, key)
  PROVE  /\ AccountsOf(d.accounts) = AccountsOf(client.accounts)
         /\ DOMAIN d.accounts = DOMAIN client.accounts
<1>1. PICK c0 : c0 = [client EXCEPT !.keyFile = IF k = NoArg THEN @ ELSE k,
                                    !.basePath = IF @ = NoFolder THEN f ELSE @]
  OBVIOUS
<1>2. PICK c1 : c1 = IF p # NoArg /\ p # c0.passcode
                     THEN [c0 EXCEPT !.passcode = p, !.isLoaded = FALSE] ELSE c0
  OBVIOUS
<1>3. ClientOK(c0) /\ c0.accounts = client.accounts
  BY <1>1 DEF ClientOK, ClientType, SaveKeyFiles
<1>4. ClientOK(c1) /\ c1.accounts = client.accounts
  BY <1>2, <1>3 DEF ClientOK, ClientType
<1>5. d = IF c1.isLoaded THEN c1 ELSE GenerateLocalKey(c1, key)
  BY <1>1, <1>2 DEF Prepared
<1> QED
  BY <1>4, <1>5, GenerateLocalKeyAccounts

\* A new account joins under the next index.
LEMMA AddSingleAccountJoins ==
  ASSUME NEW c, ClientOK(c), Len(c.accounts) < MaxAccounts, NEW u \in Users,
         NEW d, d = AddSingleAccount(c, u)
  PROVE  /\ AccountsOf(d.accounts) = AccountsOf(c.accounts) \cup {<<Len(c.accounts), u>>}
         /\ Len(c.accounts) \in Indices
         /\ d.passcode = c.passcode
<1>1. c \in ClientType /\ c.accounts \in Seq(AccountType) /\ Len(c.accounts) \in Nat
  BY DEF ClientOK, ClientType
<1>2. Len(c.accounts) \in Indices
  BY <1>1, ConstantsAssumption DEF ConstantsAssumption, Indices
<1>3. PICK a \in AccountType : a = NewAccount(c, u, Len(c.accounts))
  BY <1>2, NewAccountType
<1>4. a.index = Len(c.accounts) /\ a.user = u
  BY <1>3 DEF NewAccount
<1>5. d.accounts = Append(c.accounts, a) /\ d.passcode = c.passcode
  BY <1>1, <1>3 DEF AddSingleAccount, ClientType
<1> QED
  BY <1>1, <1>2, <1>4, <1>5, AccountsAppend

\* A client made of a session joins its account to no other.
LEMMA StepCreateFromSession ==
  ASSUME TypeInv, NoneInv, NEW u \in Users, CreateFromSession(u)
  PROVE  Vault!Next
<1>1. pc = "none" /\ pc' = "idle" /\ UNCHANGED disk /\ client = NoClient
  BY DEF CreateFromSession, NoneInv
<1>2. PICK key : client' = AddSingleAccount(GenerateLocalKey(NoClient, key), u)
                 /\ key \in RandomKeys
  BY DEF CreateFromSession, FreshKeys
<1>3. PICK c : c = GenerateLocalKey(client, key)
  OBVIOUS
<1>4. /\ ClientOK(c)
      /\ Len(c.accounts) = Len(client.accounts)
      /\ AccountsOf(c.accounts) = AccountsOf(client.accounts)
      /\ c.passcode = client.passcode
  BY <1>2, <1>3, GenerateLocalKeyType, GenerateLocalKeyAccounts DEF TypeInv
<1>5. Len(client.accounts) < MaxAccounts
  BY <1>1, EmptySeq, ConstantsAssumption DEF ConstantsAssumption, NoClient, NewClient
<1>6. /\ AccountsOf(client'.accounts) = AccountsOf(c.accounts) \cup {<<Len(c.accounts), u>>}
      /\ Len(c.accounts) \in Indices
      /\ client'.passcode = c.passcode
  BY <1>1, <1>2, <1>3, <1>4, <1>5, AddSingleAccountJoins
<1>7. Vault!Join(<<Len(c.accounts), u>>)
  BY <1>1, <1>4, <1>6, StepJoin DEF SaveStages
<1> QED
  BY <1>6, <1>7 DEF Vault!Next

\* An added account joins.
LEMMA StepAddAccount ==
  ASSUME TypeInv, NEW u \in Users, AddAccount(u)
  PROVE  Vault!Next
<1>1. /\ pc = "idle" /\ pc' = "idle" /\ UNCHANGED disk
      /\ Len(client.accounts) < MaxAccounts
      /\ client' = AddSingleAccount(client, u)
  BY DEF AddAccount
<1>2. PICK n : n = Len(client.accounts)
  OBVIOUS
<1>3. /\ AccountsOf(client'.accounts) = AccountsOf(client.accounts) \cup {<<n, u>>}
      /\ n \in Indices
      /\ client'.passcode = client.passcode
  BY <1>1, <1>2, AddSingleAccountJoins DEF TypeInv
<1>4. Vault!Join(<<n, u>>)
  BY <1>1, <1>3, StepJoin DEF SaveStages
<1> QED
  BY <1>3, <1>4 DEF Vault!Next

\* A client is opened, or the folder does not open.
LEMMA StepOpen ==
  ASSUME TypeInv, TypeInv', NEW f, NEW p \in Passcodes, NEW k \in KeyFiles, Open(f, p, k)
  PROVE  Vault!Leave
<1>1. pc = "none" /\ UNCHANGED disk
  BY Zenon DEF Open
<1>2. PICK c : c = [NewClient(p, k) EXCEPT !.basePath = f]
  OBVIOUS
<1>3. LoadKeyData(c, TRUE)
  BY <1>2, Zenon DEF Open
<1>4. pc' = "loading" \/ (pc' = "none" /\ client' = NoClient)
  BY <1>3 DEF LoadKeyData, LoadFails
<1>5. NoClient.accounts = <<>>
  BY DEF NoClient, NewClient
<1>6. client'.passcode \in Passcodes
  BY DEF TypeInv, ClientOK, ClientType
<1> QED
  BY <1>1, <1>4, <1>5, <1>6, StepLeave DEF SaveStages

\* The last turn of a load has opened the slot, or leaves no accounts.
LEMMA StepFinishLoad ==
  ASSUME TypeInv, TypeInv', LoadExact, FinishLoad
  PROVE  Vault!Next
<1>1. pc = "loading" /\ UNCHANGED disk /\ job.pos > Len(LoadedData.indices)
  BY DEF FinishLoad
<1>2. CASE client.accounts = <<>>
  <2>1. LoadFails(client, job.ctor)
    BY <1>2 DEF FinishLoad
  <2>2. NoClient.accounts = <<>>
    BY DEF NoClient, NewClient
  <2>3. pc' \notin SaveStages /\ client'.accounts = <<>>
    BY <1>2, <2>1, <2>2 DEF LoadFails, SaveStages
  <2>4. client'.passcode \in Passcodes
    BY DEF TypeInv, ClientOK, ClientType
  <2> QED
    BY <1>1, <2>3, <2>4, StepLeave DEF Vault!Next, SaveStages
<1>3. CASE client.accounts # <<>>
  <2>1. PICK s \in Slots : s = LoadSlot
    BY <1>1 DEF TypeInv, PlaceOK, ClientOK, ClientType, LoadSlot, Slots
  <2>2. /\ keyData[s].indices \in Seq(Nat)
        /\ job.pos > Len(keyData[s].indices)
        /\ job.pos \in Nat
    BY <1>1, <2>1
    DEF TypeInv, SlotsOK, KeyDataType, PlaceOK, JobType, LoadedData, LoadSlot
  <2>3. /\ client.localKey = keyData[s].wrapped
        /\ client.localKey # NoKey
        /\ client.passcode = keyData[s].pass
        /\ AccountsOf(client.accounts) = Entries(s, Seen(s, job.pos))
    BY <1>1, <2>1 DEF LoadExact, TypeInv, RunBounded
  <2>4. Seen(s, job.pos) = ReadableIndices(s, keyData[s].wrapped)
    <3>1. \A j \in DOMAIN keyData[s].indices : j < job.pos
      BY <2>2
    <3> QED
      BY <3>1 DEF Seen, ReadableIndices
  <2>5. PICK main \in Int, active \in Int :
          client' = [client EXCEPT !.activeIndex = active, !.mainAccount = main,
                                   !.isLoaded = TRUE]
    <3>1. PICK main, active :
            client' = [client EXCEPT !.activeIndex = active, !.mainAccount = main,
                                     !.isLoaded = TRUE]
      BY <1>3, Zenon DEF FinishLoad
    <3>2. client'.activeIndex = active /\ client'.mainAccount = main
      BY <3>1 DEF TypeInv, ClientOK, ClientType
    <3> QED
      BY <3>1, <3>2 DEF TypeInv, ClientOK, ClientType
  <2>6. /\ client'.accounts = client.accounts
        /\ client'.passcode = client.passcode
        /\ pc' = "idle"
    BY <1>3, <2>5 DEF FinishLoad, TypeInv, ClientOK, ClientType
  <2>7. View(s) = [open |-> TRUE, pass |-> client.passcode,
                   members |-> AccountsOf(client.accounts)]
    BY <2>3, <2>4 DEF View, Entries, SlotFile
  <2>8. Owned' = AccountsOf(client.accounts)
    BY <2>6 DEF Owned, AccountsOf
  <2>9. Vault!OpenSlot(s)
    BY <1>1, <2>6, <2>7, <2>8, SameVault DEF Vault!OpenSlot, Owned, SaveStages
  <2> QED
    BY <2>9 DEF Vault!Next
<1> QED
  BY <1>2, <1>3

\* A save is under way.
LEMMA SaveIsOn ==
  ASSUME TypeInv, ClientInv, SaveInv, pc \in SaveStages
  PROVE  CurrentSlot # NoSlot
  BY SaveFacts, ConstantsAssumption
  DEF ConstantsAssumption, CurrentSlot, NoSlot, Slots

\* SaveTData begins a save of the accounts of the client, or has none to save.
LEMMA StepSaveTData ==
  ASSUME Plain, TypeInv, TypeInv', ClientInv, NEW f \in Folders,
         NEW p \in Passcodes \cup {NoArg}, NEW k \in SaveKeyFiles, SaveTData(f, p, k)
  PROVE  Vault!Next
<1>1. pc = "idle" /\ UNCHANGED disk
  BY Zenon DEF SaveTData
<1>2. PICK key \in FreshKeys :
        LET c == Prepared(f, p, k, key)
        IN  IF c.accounts = <<>>
            THEN client' = c /\ UNCHANGED <<pc, job>>
            ELSE /\ client' = RenameAccount(c, 1, k)
                 /\ pc' = "map"
                 /\ job'.folder = f
  <2>1. PICK key \in FreshKeys :
          LET c == Prepared(f, p, k, key)
          IN  IF c.accounts = <<>>
              THEN client' = c /\ UNCHANGED <<pc, job, saved>>
              ELSE /\ client' = RenameAccount(c, 1, k)
                   /\ pc' = "map"
                   /\ job' = [NoJob EXCEPT
                                !.folder = f, !.arg = k, !.pos = 1,
                                !.name = WriteName(c.accounts[1], k),
                                !.before = ReadableIndices(<<f, c.keyFile>>, c.localKey)]
    BY DEF SaveTData
  <2> QED
    BY <2>1 DEF NoJob
<1>3. PICK c : c = Prepared(f, p, k, key)
  OBVIOUS
<1>4. /\ k = NoArg
      /\ ClientOK(c)
      /\ AccountsOf(c.accounts) = AccountsOf(client.accounts)
  BY <1>2, <1>3, PreparedKeys, PreparedType, PreparedAccounts DEF TypeInv, FreshKeys
<1>5. client' = c
  BY <1>2, <1>3, <1>4, NoRename
<1>6. client'.passcode \in Passcodes
  BY DEF TypeInv, ClientOK, ClientType
<1>7. CASE c.accounts = <<>>
  BY <1>1, <1>2, <1>3, <1>5, <1>6, <1>7, StepLeave DEF Vault!Next, SaveStages
<1>8. CASE c.accounts # <<>>
  <2>1. pc' = "map" /\ job'.folder = f
    BY <1>2, <1>3, <1>8
  <2>2. CurrentSlot' = <<f, c.keyFile>>
    BY <1>5, <2>1 DEF CurrentSlot
  <2>3. PICK s \in Slots : s = CurrentSlot'
    BY <1>4, <2>2 DEF ClientOK, ClientType, Slots
  <2>4. Owned # {}
    <3>1. 1 \in DOMAIN c.accounts
      BY <1>4, <1>8 DEF ClientOK, ClientType
    <3>2. AccountsOf(c.accounts) # {}
      BY <3>1 DEF AccountsOf
    <3> QED
      BY <1>1, <1>4, <3>2 DEF Owned
  <2>5. Owned' = Owned
    BY <1>1, <1>4, <1>5, <2>1 DEF Owned, AccountsOf
  <2>6. Vault!BeginSave(s, client'.passcode)
    BY <1>1, <2>1, <2>3, <2>4, <2>5, SameVault DEF Vault!BeginSave, Owned, SaveStages
  <2> QED
    BY <1>6, <2>6 DEF Vault!Next
<1> QED
  BY <1>7, <1>8

\* A file is written: only the slot of the save can look different, and stays
\* closed if it was.
LEMMA StepWrite ==
  ASSUME TypeInv, TypeInv', NoArgInv, ClientInv, SaveInv, ClosedInv,
         pc \in SaveStages, pc' \in SaveStages, [Next]_vars
  PROVE  Vault!Write \/ UNCHANGED Vault!vars
<1>1. PICK s \in Slots : s = CurrentSlot
  BY SaveFacts
<1>2. /\ UNCHANGED <<client, job.folder>>
      /\ CurrentSlot' = s
      /\ keyData'[s] \in {keyData[s], NoKeyData}
  BY <1>1, FileStep DEF CurrentSlot
<1>3. UNCHANGED <<Owned, client.passcode>>
  BY <1>2 DEF Owned, AccountsOf, SaveStages
<1>4. ASSUME NEW t \in Slots, t # s
      PROVE  View(t)' = View(t)
  <2>1. keyData'[t] = keyData[t]
    BY <1>1, <1>4, FileStep
  <2>2. ASSUME NEW i \in Indices
        PROVE  UNCHANGED <<mapFile[SlotFile(t, i)], mtpFile[SlotFile(t, i)]>>
    <3>1. PICK n : n = SlotFile(t, i)
      OBVIOUS
    <3>2. n \in Files
      BY <3>1 DEF SlotFile, Files, DataNames, ComposeDataString, Slots
    <3>3. n # CurrentFile
      BY <1>1, <1>4, <3>1, OtherSlot
    <3>4. UNCHANGED <<mapFile[n], mtpFile[n]>>
      BY <3>2, <3>3, FileStep
    <3> QED
      BY <3>1, <3>4 DEF SlotFile
  <2>3. ReadableIndices(t, keyData[t].wrapped)' = ReadableIndices(t, keyData[t].wrapped)
    BY <2>1, <2>2 DEF ReadableIndices, Opens, SlotFile
  <2>4. \A i \in ReadableIndices(t, keyData[t].wrapped) :
          mtpFile'[SlotFile(t, i)] = mtpFile[SlotFile(t, i)]
    BY <2>2 DEF ReadableIndices, SlotFile
  <2> QED
    BY <2>1, <2>3, <2>4 DEF View, SlotFile
<1>5. PICK old, new : old = [t \in Slots |-> View(t)] /\ new = [t \in Slots |-> View(t)']
  OBVIOUS
<1>6. new = [old EXCEPT ![s] = View(s)']
  BY <1>4, <1>5
<1>7. View(s)' \in Vault!Views
  <2>1. ViewsOK'
    BY ViewType, PTL
  <2> QED
    BY <2>1 DEF ViewsOK, Vault!Views
<1>8. CASE keyData[s].wrapped = NoKey
  <2>1. keyData'[s].wrapped = NoKey /\ keyData'[s].pass = keyData[s].pass
    BY <1>2, <1>8 DEF NoKeyData, ClosedInv
  <2>2. View(s)' = View(s)
    BY <1>8, <2>1 DEF View
  <2>3. [t \in Slots |-> View(t)]' = [t \in Slots |-> View(t)]
    BY <1>4, <2>2
  <2> QED
    BY <1>1, <1>2, <1>3, <2>3 DEF Vault!vars, Owned
<1>9. CASE keyData[s].wrapped # NoKey
  <2>1. View(s).open /\ View(s).pass = keyData[s].pass
    BY <1>9 DEF View
  <2>2. \/ View(s)' = [open |-> FALSE, pass |-> NoPasscode, members |-> {}]
        \/ View(s)' \in [open : {TRUE}, pass : {View(s).pass}, members : SUBSET (Indices \X Users)]
    <3>1. CASE keyData'[s] = NoKeyData
      <4>1. keyData'[s].wrapped = NoKey /\ keyData'[s].pass = NoPasscode
        BY <3>1 DEF NoKeyData
      <4> QED
        BY <4>1 DEF View
    <3>2. CASE keyData'[s] = keyData[s]
      <4>1. View(s)'.open = TRUE /\ View(s)'.pass = View(s).pass
        BY <1>9, <2>1, <3>2 DEF View
      <4> QED
        BY <1>7, <4>1 DEF Vault!Views
    <3> QED
      BY <1>2, <3>1, <3>2
  <2>3. s # NoSlot
    BY <1>1, SaveIsOn
  <2>4. Vault!Write
    BY <1>1, <1>2, <1>3, <1>5, <1>6, <2>1, <2>2, <2>3 DEF Vault!Write, Vault!Closed, Owned
  <2> QED
    BY <2>4
<1> QED
  BY <1>8, <1>9

\* The key file commits what the save wrote.
LEMMA StepWriteKeyData ==
  ASSUME TypeInv, ClientInv, SaveInv, SaveExact, WriteKeyData
  PROVE  Vault!Commit
<1>1. pc = "key" /\ pc' = "idle" /\ UNCHANGED <<client, mapFile, mtpFile>>
  BY DEF WriteKeyData, FileClosed
<1>2. /\ client.accounts \in Seq(AccountType)
      /\ job.pos = Len(client.accounts)
      /\ Keyed(client)
  BY <1>1, SaveFacts DEF SaveStages
<1>3. PICK s \in Slots : s = CurrentSlot
  BY <1>1, SaveFacts DEF SaveStages
<1>4. /\ DOMAIN client.accounts = 1 .. job.pos
      /\ \A j \in DOMAIN client.accounts :
           client.accounts[j] \in AccountType /\ client.accounts[j].index \in Indices
  <2>1. \A j \in DOMAIN client.accounts : client.accounts[j] \in AccountType
    BY <1>2
  <2> QED
    BY <1>2, <2>1 DEF AccountType
<1>5. /\ keyData'[s].wrapped = client.localKey
      /\ client.localKey # NoKey
      /\ keyData'[s].pass = client.passcode
      /\ keyData'[s].indices = [j \in DOMAIN client.accounts |-> client.accounts[j].index]
      /\ \A t \in Slots : t # s => keyData'[t] = keyData[t]
  BY <1>2, <1>3 DEF WriteKeyData, Keyed, Wrapped, TypeInv, SlotsOK
<1>6. \A j \in DOMAIN client.accounts : AccountFile(j) = SlotFile(s, client.accounts[j].index)
  BY <1>3 DEF AccountFile, SlotFile, CurrentSlot
<1>7. ASSUME NEW j \in DOMAIN client.accounts
      PROVE  LET file == SlotFile(s, client.accounts[j].index)
             IN  /\ mapFile[file] = client.localKey
                 /\ mtpFile[file].key = client.localKey
                 /\ \E i \in DOMAIN client.accounts :
                      /\ client.accounts[i].index = client.accounts[j].index
                      /\ client.accounts[i].user = mtpFile[file].user
  <2>1. Held(j)
    BY <1>1, <1>4 DEF SaveExact, SaveStages
  <2> QED
    BY <1>6, <2>1 DEF Held
<1>8. ReadableIndices(s, client.localKey)' =
        {client.accounts[j].index : j \in DOMAIN client.accounts}
  <2>1. \A i \in Indices :
          (\E j \in DOMAIN client.accounts : client.accounts[j].index = i) =>
            Opens(s[1], ComposeDataString(s[2], i), client.localKey)'
    BY <1>1, <1>7 DEF Opens, SlotFile
  <2> QED
    BY <1>1, <1>4, <1>5, <2>1 DEF ReadableIndices
<1>9. PICK kept : kept = {<<client.accounts[j].index,
                            mtpFile[SlotFile(s, client.accounts[j].index)].user>> :
                             j \in DOMAIN client.accounts}
  OBVIOUS
<1>10. View(s)' = [open |-> TRUE, pass |-> client.passcode, members |-> kept]
  <2>1. ReadableIndices(s, keyData[s].wrapped)' = ReadableIndices(s, client.localKey)'
    BY <1>1, <1>5 DEF ReadableIndices, Opens
  <2>2. kept = {<<i, mtpFile[SlotFile(s, i)].user>> :
                   i \in {client.accounts[j].index : j \in DOMAIN client.accounts}}
    BY <1>9
  <2> QED
    BY <1>1, <1>5, <1>8, <2>1, <2>2, ZenonT(40) DEF View, SlotFile
<1>11. kept \subseteq AccountsOf(client.accounts)
  BY <1>7, <1>9 DEF AccountsOf
<1>12. (\A m, n \in AccountsOf(client.accounts) : m[1] = n[1] => m = n) =>
          AccountsOf(client.accounts) \subseteq kept
  <2> SUFFICES ASSUME \A m, n \in AccountsOf(client.accounts) : m[1] = n[1] => m = n,
                      NEW j \in DOMAIN client.accounts
               PROVE  <<client.accounts[j].index, client.accounts[j].user>> \in kept
    BY DEF AccountsOf
  <2>1. PICK n : n = <<client.accounts[j].index,
                       mtpFile[SlotFile(s, client.accounts[j].index)].user>>
    OBVIOUS
  <2>2. n \in kept /\ n \in AccountsOf(client.accounts)
    BY <1>9, <1>11, <2>1
  <2>3. PICK m : m = <<client.accounts[j].index, client.accounts[j].user>>
    OBVIOUS
  <2>4. m \in AccountsOf(client.accounts) /\ m[1] = n[1]
    BY <2>1, <2>3 DEF AccountsOf
  <2> QED
    BY <2>2, <2>3, <2>4
<1>13. [t \in Slots |-> View(t)]' =
         [[t \in Slots |-> View(t)] EXCEPT ![s] =
            [open |-> TRUE, pass |-> client.passcode, members |-> kept]]
  <2>1. ASSUME NEW t \in Slots, t # s
        PROVE  View(t)' = View(t)
    <3>1. UNCHANGED <<keyData[t], mapFile, mtpFile>>
      BY <1>1, <1>5, <2>1
    <3>2. UNCHANGED ReadableIndices(t, keyData[t].wrapped)
      BY <3>1 DEF ReadableIndices, Opens
    <3> QED
      BY <3>1, <3>2 DEF View
  <2> QED
    BY <1>10, <2>1
<1>14. Owned = AccountsOf(client.accounts) /\ Owned' = Owned
  BY <1>1 DEF Owned, AccountsOf
<1>15. s # NoSlot
  BY <1>1, <1>3, SaveIsOn DEF SaveStages
<1>16. kept \in IF Vault!IndicesClash THEN SUBSET Owned ELSE {Owned}
  <2>1. ~Vault!IndicesClash =>
          \A m, n \in AccountsOf(client.accounts) : m[1] = n[1] => m = n
    BY <1>1, Zenon DEF Vault!IndicesClash
  <2> QED
    BY <1>11, <1>12, <1>14, <2>1
<1> QED
  BY <1>1, <1>3, <1>13, <1>14, <1>15, <1>16 DEF Vault!Commit, Owned, SaveStages

\* An exception or the death of the process abandons the save.
LEMMA StepAbandon ==
  ASSUME TypeInv, TypeInv', ClientInv, SaveInv, SaveFails \/ Crash
  PROVE  Vault!Abandon
<1>1. pc \in SaveStages /\ pc' \in {"idle", "none"} /\ UNCHANGED disk
  BY DEF SaveFails, Crash
<1>2. CurrentSlot # NoSlot
  BY <1>1, SaveIsOn
<1>3. \/ client' = client
      \/ client'.accounts = <<>> /\ client'.passcode \in Passcodes
  <2>1. NoClient.accounts = <<>>
    BY DEF NoClient, NewClient
  <2>2. client'.passcode \in Passcodes
    BY DEF TypeInv, ClientOK, ClientType
  <2> QED
    BY <2>1, <2>2 DEF SaveFails, Crash
<1>4. client' = client => UNCHANGED <<Owned, client.passcode>>
  BY <1>1 DEF Owned, AccountsOf, SaveStages
<1>5. client'.accounts = <<>> => Owned' = {}
  <2>1. AccountsOf(<<>>) = {}
    BY EmptySeq DEF AccountsOf
  <2> QED
    BY <1>1, <2>1 DEF Owned, AccountsOf
<1> QED
  BY <1>1, <1>2, <1>3, <1>4, <1>5, SameVault DEF Vault!Abandon, Owned, SaveStages

(***************************************************************************)
(* The implementation                                                      *)
(***************************************************************************)

\* At the start the client is empty and the folders are slots.
LEMMA InitVault == Init => VaultInv /\ Vault!Init
<1> SUFFICES ASSUME Init PROVE VaultInv /\ Vault!Init
  OBVIOUS
<1>1. pc = "none" /\ client = NoClient
  BY DEF Init
<1>2. NoneInv /\ LoadExact /\ SaveExact
  BY <1>1 DEF NoneInv, LoadExact, SaveExact, SaveStages
<1>3. ClosedInv
  <2>1. PICK list, key : keyData = [s \in Slots |->
                           IF s[2] = DefaultKeyFile THEN Left(list, key) ELSE NoKeyData]
    BY DEF Init
  <2>2. Left(list, key).pass = NoPasscode /\ NoKeyData.pass = NoPasscode
    BY DEF Left, NoKeyData
  <2> QED
    BY <2>1, <2>2 DEF ClosedInv
<1>4. ViewsOK
  BY InitType, ViewType
<1>5. AccountsOf(client.accounts) = {} /\ client.passcode = NoPasscode
  BY <1>1, EmptySeq DEF NoClient, NewClient, AccountsOf
<1> QED
  BY <1>1, <1>2, <1>3, <1>4, <1>5 DEF VaultInv, ViewsOK, Vault!Init, SaveStages

\* Every step of a plain client is one of the vault or invisible.
LEMMA StepVault ==
  ASSUME Plain, TypeInv, TypeInv', NoArgInv, ClientInv, SaveInv, VaultInv, [Next]_vars
  PROVE  [Vault!Next]_(Vault!vars)
<1> USE DEF VaultInv
<1>1. CASE pc \in SaveStages /\ pc' \in SaveStages
  BY <1>1, StepWrite DEF Vault!Next
<1>2. CASE pc \in SaveStages /\ pc' \notin SaveStages
  BY <1>2, SaveEnds, StepWriteKeyData, StepAbandon DEF Vault!Next
<1>3. CASE pc \notin SaveStages
  <2>1. ASSUME NEW p \in Passcodes, NEW k \in KeyFiles, Create(p, k)
        PROVE  Vault!Next
    <3>1. /\ pc' = "idle" /\ UNCHANGED disk
          /\ client'.accounts = <<>> /\ client'.passcode = p
      BY <2>1 DEF Create, NewClient
    <3> QED
      BY <1>3, <3>1, StepLeave DEF Vault!Next, SaveStages
  <2>2. ASSUME NEW k \in SaveKeyFiles, SaveWithoutFolder(k)
        PROVE  UNCHANGED Vault!vars
    <3>1. /\ pc = "idle" /\ pc' = pc /\ UNCHANGED disk
          /\ client'.accounts = client.accounts /\ client'.passcode = client.passcode
      BY <2>2 DEF SaveWithoutFolder, TypeInv, ClientOK, ClientType
    <3> QED
      BY <1>3, <3>1, StepStutter
  <2>3. CASE Drop
    <3>1. /\ pc' = "none" /\ UNCHANGED disk
          /\ client'.accounts = <<>> /\ client'.passcode = NoPasscode
      BY <2>3 DEF Drop, NoClient, NewClient
    <3> QED
      BY <1>3, <3>1, StepLeave, ConstantsAssumption
      DEF Vault!Next, SaveStages, ConstantsAssumption
  <2>4. ASSUME NEW f \in Folders, NEW p \in Passcodes, NEW k \in KeyFiles, Open(f, p, k)
        PROVE  Vault!Next
    BY <2>4, StepOpen DEF Vault!Next
  <2>5. CASE LoadAccount
    <3>1. pc = "loading" /\ pc' = pc /\ UNCHANGED disk
      BY <2>5 DEF LoadAccount
    <3>2. client'.passcode = client.passcode
      BY <2>5 DEF LoadAccount, TypeInv, ClientOK, ClientType
    <3> QED
      BY <1>3, <3>1, <3>2, StepStutter
  <2>6. CASE UNCHANGED vars
    BY <2>6, SameVault DEF vars, disk, Vault!vars, AccountsOf, CurrentSlot
  <2>7. /\ \A f, p, k : ~LoadTData(f, p, k)
        /\ \A b : ~PerformanceMode(b)
    BY Zenon DEF Plain, LoadTData, PerformanceMode
  <2>8. ~(OpenFile \/ WriteMap \/ WriteMtpConfig \/ WriteMtpData \/ WriteKeyData
          \/ SaveFails \/ Crash)
    BY <1>3 DEF OpenFile, WriteMap, WriteMtpConfig, WriteMtpData, WriteKeyData,
       SaveFails, Crash, FileClosed, SaveStages
  <2>9. ASSUME NEW u \in Users, CreateFromSession(u) \/ AddAccount(u)
        PROVE  Vault!Next
    BY <2>9, StepCreateFromSession, StepAddAccount
  <2>10. CASE FinishLoad
    BY <2>10, StepFinishLoad
  <2>11. ASSUME NEW f \in Folders, NEW p \in Passcodes \cup {NoArg}, NEW k \in SaveKeyFiles,
                SaveTData(f, p, k)
         PROVE  Vault!Next
    BY <2>11, StepSaveTData
  <2> QED
    BY <2>1, <2>2, <2>3, <2>4, <2>5, <2>6, <2>7, <2>8, <2>9, <2>10, <2>11 DEF Next
<1> QED
  BY <1>1, <1>2, <1>3

\* A plainly used client implements the vault: a save that returns puts the
\* accounts and the passcode of the client into its slot at once, a load gives
\* them back, and what fails or dies in between touches that slot only.
THEOREM Implementation == ASSUME Plain PROVE Spec => ImplementsVault
<1> DEFINE Inv == TypeInv /\ NoArgInv /\ ClientInv /\ SaveInv /\ VaultInv
<1>1. Init => Inv
  <2>1. Init => NoArgInv /\ ClientInv /\ SaveInv
    BY DEF Init, NoArgInv, ClientInv, SaveInv, Named, NoClient, NewClient, SaveStages
  <2> QED
    BY <2>1, InitType, InitVault
<1>2. Inv /\ [Next]_vars => Inv'
  BY NextType, NextNoArg, NextKeys, NextSave, NextNone, NextClosed, NextLoadExact,
     NextSaveExact
  DEF VaultInv
<1>3. Init => Vault!Init
  BY InitVault
<1>4. Inv /\ Inv' /\ [Next]_vars => [Vault!Next]_(Vault!vars)
  BY StepVault
<1> QED
  BY <1>1, <1>2, <1>3, <1>4, PTL DEF Spec, ImplementsVault, Vault!Spec

(***************************************************************************)
(* What a save puts at risk                                                *)
(***************************************************************************)

\* Until the key file is written, the slot's list and key are as the save found
\* them, and of the accounts that opened then, all but the current one still do.
RiskInv ==
  pc \in SaveStages \ {"key"} =>
    /\ job.before # {} => keyData[CurrentSlot].wrapped = client.localKey
    /\ \A i \in job.before :
         /\ \E j \in DOMAIN keyData[CurrentSlot].indices :
              keyData[CurrentSlot].indices[j] = i
         /\ SlotFile(CurrentSlot, i) # CurrentFile =>
              Opens(CurrentSlot[1], ComposeDataString(CurrentSlot[2], i), client.localKey)

\* A save starts from what its slot holds.
LEMMA SaveBeginsRisk ==
  ASSUME Plain, TypeInv, ClientInv, NEW f \in Folders, NEW p \in Passcodes \cup {NoArg},
         NEW k \in SaveKeyFiles, SaveTData(f, p, k), pc' \in SaveStages
  PROVE  RiskInv'
<1>1. PICK key \in FreshKeys :
        LET c    == Prepared(f, p, k, key)
            slot == <<f, c.keyFile>>
        IN  IF c.accounts = <<>>
            THEN client' = c /\ UNCHANGED <<pc, job, saved>>
            ELSE /\ client' = RenameAccount(c, 1, k)
                 /\ pc' = "map"
                 /\ job' = [NoJob EXCEPT
                              !.folder = f, !.arg = k, !.pos = 1,
                              !.name = WriteName(c.accounts[1], k),
                              !.before = ReadableIndices(slot, c.localKey)]
                 /\ saved' = [saved EXCEPT ![slot] = NotSaved]
  BY DEF SaveTData
<1>2. PICK c : c = Prepared(f, p, k, key)
  OBVIOUS
<1>3. pc = "idle" /\ UNCHANGED disk
  BY DEF SaveTData
<1>4. c.accounts # <<>>
  BY <1>1, <1>2, <1>3 DEF SaveStages
<1>5. k = NoArg
  BY DEF Plain, SaveKeyFiles
<1>6. client' = c
  BY <1>1, <1>2, <1>4, <1>5, NoRename
<1>7. /\ job'.folder = f
      /\ job'.before = ReadableIndices(<<f, c.keyFile>>, c.localKey)
  BY <1>1, <1>2, <1>4 DEF NoJob
<1>8. CurrentSlot' = <<f, c.keyFile>>
  BY <1>6, <1>7 DEF CurrentSlot
<1>9. PICK s : s = <<f, c.keyFile>>
  OBVIOUS
<1>10. keyData'[s] = keyData[s]
  BY <1>3 DEF disk
<1>11. \A i \in ReadableIndices(s, c.localKey) :
         /\ keyData[s].wrapped = c.localKey
         /\ \E j \in DOMAIN keyData[s].indices : keyData[s].indices[j] = i
         /\ Opens(s[1], ComposeDataString(s[2], i), c.localKey)
  BY DEF ReadableIndices
<1>12. \A i : Opens(s[1], ComposeDataString(s[2], i), c.localKey) =>
                Opens(s[1], ComposeDataString(s[2], i), c.localKey)'
  BY <1>3, <1>6 DEF Opens, disk
<1> QED
  BY <1>6, <1>7, <1>8, <1>9, <1>10, <1>11, <1>12 DEF RiskInv

\* A step within a save, and what it found there.
LEMMA NextRisk ==
  ASSUME Plain, TypeInv, NoArgInv, ClientInv, SaveInv, SaveExact, RiskInv, [Next]_vars
  PROVE  RiskInv'
<1> USE DEF SaveStages
<1>1. CASE pc' \notin SaveStages \ {"key"}
  BY <1>1 DEF RiskInv
<1>2. CASE pc \notin SaveStages /\ pc' \in SaveStages
  BY <1>2, SaveBegins, SaveBeginsRisk
<1>3. CASE pc \in SaveStages /\ pc' \in SaveStages \ {"key"}
  <2>1. pc \in SaveStages \ {"key"} /\ job'.before = job.before
    <3>1. job \in JobType
      BY <1>3, SaveFacts
    <3>2. OpenFile \/ WriteMap \/ WriteMtpConfig \/ WriteMtpData \/ UNCHANGED vars
      BY <1>3, SaveSteps
    <3>3. job'.before = job.before
      BY <3>1, <3>2 DEF OpenFile, WriteMap, WriteMtpConfig, WriteMtpData, JobType, vars
    <3> QED
      BY <1>3, <3>2, <3>3
      DEF OpenFile, WriteMap, WriteMtpConfig, WriteMtpData, FileClosed, vars
  <2>2. UNCHANGED <<client, job.folder>> /\ UNCHANGED CurrentSlot
    BY <1>3, FileStep DEF CurrentSlot
  <2>3. PICK s \in Slots : s = CurrentSlot
    BY <1>3, SaveFacts
  <2>4. CurrentSlot' = s
    BY <2>2, <2>3
  <2>5. keyData' = keyData
    BY <1>3, <2>1, SaveSteps
    DEF OpenFile, WriteMap, WriteMtpConfig, WriteMtpData, vars, disk
  <2>6. ASSUME NEW i \in job.before, SlotFile(s, i) # CurrentFile'
        PROVE  /\ mapFile'[SlotFile(s, i)] = client.localKey
               /\ mtpFile'[SlotFile(s, i)].key = client.localKey
    <3>1. PICK n \in Files : n = SlotFile(s, i)
      <4>1. i \in Indices
        BY <1>3, <2>6, SaveFacts DEF JobType
      <4> QED
        BY <4>1 DEF SlotFile, Slots, Files, DataNames, ComposeDataString
    <3>2. CASE n # CurrentFile
      <4>1. mapFile[n] = client.localKey /\ mtpFile[n].key = client.localKey
        BY <2>1, <2>3, <3>1, <3>2 DEF RiskInv, Opens, SlotFile
      <4>2. UNCHANGED <<mapFile[n], mtpFile[n]>>
        BY <1>3, <3>1, <3>2, FileStep
      <4> QED
        BY <3>1, <4>1, <4>2
    <3>3. CASE n = CurrentFile
      <4>1. CurrentFile' # CurrentFile
        BY <2>6, <3>1, <3>3
      <4>2. UNCHANGED <<job.name, job.folder>> => CurrentFile' = CurrentFile
        BY DEF CurrentFile
      <4>3. job'.name # job.name
        BY <2>2, <4>1, <4>2
      <4>4. WriteMtpData
        BY <1>3, <4>3, SaveFacts, SaveSteps
        DEF OpenFile, WriteMap, WriteMtpConfig, JobType, vars
      <4>5. /\ pc = "mtp"
            /\ UNCHANGED mapFile
            /\ mtpFile' = [mtpFile EXCEPT ![CurrentFile] =
                             [key |-> Current.localKey, user |-> Current.user]]
        BY <4>4 DEF WriteMtpData, FileClosed
      <4>6. mapFile[n] = client.localKey
        BY <1>3, <3>3, <4>5 DEF SaveExact
      <4>7. mtpFile'[n].key = client.localKey
        BY <1>3, <3>3, <4>5, SaveFacts DEF TypeInv, FilesOK
      <4> QED
        BY <3>1, <4>5, <4>6, <4>7
    <3> QED
      BY <3>2, <3>3
  <2>7. ASSUME NEW i \in job.before, SlotFile(s, i) # CurrentFile'
        PROVE  Opens(s[1], ComposeDataString(s[2], i), client.localKey)'
    BY <2>2, <2>6, <2>7 DEF Opens, SlotFile
  <2> QED
    BY <2>1, <2>2, <2>3, <2>4, <2>5, <2>7 DEF RiskInv
<1> QED
  BY <1>1, <1>2, <1>3

\* Of the accounts that opened when a save began, the current one is the only
\* one that may not open now.
LEMMA RiskIsOne ==
  ASSUME TypeInv, ClientInv, SaveInv, RiskInv
  PROVE  ResaveRisksOneAccount
<1> SUFFICES ASSUME pc \in SaveStages \ {"key"}
             PROVE  Cardinality(job.before \
                                ReadableIndices(CurrentSlot, client.localKey)) <= 1
  BY DEF ResaveRisksOneAccount
<1>1. PICK s \in Slots : s = CurrentSlot
  BY SaveFacts
<1>2. PICK lost : lost = job.before \ ReadableIndices(s, client.localKey)
  OBVIOUS
<1>3. PICK k : k = client.accounts[job.pos].index
  OBVIOUS
<1>4. lost \subseteq {k}
  <2> SUFFICES ASSUME NEW i \in lost PROVE i = k
    OBVIOUS
  <2>1. /\ i \in Indices
        /\ keyData[s].wrapped = client.localKey
        /\ \E j \in DOMAIN keyData[s].indices : keyData[s].indices[j] = i
    <3>1. job \in JobType
      BY SaveFacts
    <3> QED
      BY <1>1, <1>2, <3>1 DEF RiskInv, JobType
  <2>2. SlotFile(s, i) = CurrentFile
    BY <1>1, <1>2, <2>1 DEF RiskInv, ReadableIndices
  <2> QED
    BY <1>1, <1>3, <2>2, SaveFacts DEF SlotFile, AccountFile, CurrentSlot, ComposeDataString
<1>5. IsFiniteSet({k}) /\ Cardinality({k}) = 1
  BY FS_Singleton
<1>6. Cardinality(lost) <= 1
  BY <1>4, <1>5, FS_Subset
<1> QED
  BY <1>1, <1>2, <1>6

\* A save into a slot whose key it keeps has, until it comes to the key file,
\* at most one account of the slot unreadable, wherever it is cut short.
THEOREM RiskIsOneAccount == ASSUME Plain PROVE Spec => []ResaveRisksOneAccount
<1> DEFINE Inv == TypeInv /\ NoArgInv /\ ClientInv /\ SaveInv /\ SaveExact /\ RiskInv
<1>1. Init => Inv
  <2>1. Init => NoArgInv /\ ClientInv /\ SaveInv /\ RiskInv
    BY DEF Init, NoArgInv, ClientInv, SaveInv, RiskInv, Named, NoClient, NewClient,
       SaveStages
  <2> QED
    BY <2>1, InitType, InitVault DEF VaultInv
<1>2. Inv /\ [Next]_vars => Inv'
  BY NextType, NextNoArg, NextKeys, NextSave, NextSaveExact, NextRisk
<1>3. Inv => ResaveRisksOneAccount
  BY RiskIsOne
<1> QED
  BY <1>1, <1>2, <1>3, PTL DEF Spec
=============================================================================
