--------------------------- MODULE TDesktopProofs ---------------------------
(***************************************************************************)
(* Theorems about TDesktop, for every value of its constants.              *)
(***************************************************************************)
EXTENDS TDesktop, SequenceTheorems, TLAPS

(***************************************************************************)
(* Types                                                                   *)
(***************************************************************************)

\* While a folder loads there are fewer accounts than turns of the loop, the
\* list of indices passed the test against kMaxAccounts, and there is a key.
\* While an account is saved it has one: the map is not written without it.
RunBounded ==
  /\ pc = "loading" => /\ Len(client.accounts) < job.pos
                       /\ Len(LoadedData.indices) <= MaxAccounts
                       /\ client.localKey # NoKey
  /\ pc \in {"config", "mtp"} \/ (pc = "map" /\ job.opened) =>
       Current.localKey # NoKey

\* A client with at most kMaxAccounts accounts and a main account among them.
ClientOK(c) ==
  /\ c \in ClientType
  /\ Len(c.accounts) <= MaxAccounts
  /\ c.mainAccount \in {StaleMain} \cup 0 .. Len(c.accounts)

\* The local variables of no load and no save are of their types.
LEMMA NoJobType == NoJob \in JobType
  BY ConstantsAssumption
  DEF ConstantsAssumption, NoJob, JobType, DataNames, Indices, ComposeDataString

\* A new client (TDesktop.__init__) is well formed.
LEMMA NewClientType ==
  ASSUME NEW p \in Passcodes, NEW k \in KeyFiles
  PROVE  ClientOK(NewClient(p, k))
  BY ConstantsAssumption
  DEF ConstantsAssumption, ClientOK, NewClient, ClientType, Keys, NoMain, StaleMain

\* __generateLocalKey keeps a client well formed, and keeps its accounts'
\* number, its paths and its main account.
LEMMA GenerateLocalKeyType ==
  ASSUME NEW c, ClientOK(c), NEW key \in RandomKeys,
         NEW d, d = GenerateLocalKey(c, key)
  PROVE  /\ ClientOK(d)
         /\ Len(d.accounts) = Len(c.accounts)
         /\ d.keyFile = c.keyFile
         /\ d.basePath = c.basePath
<1>1. /\ c \in ClientType
      /\ c.mainAccount \in {StaleMain} \cup 0 .. Len(c.accounts)
      /\ Len(c.accounts) <= MaxAccounts
  BY DEF ClientOK
<1>2. CASE perf /\ c.passcode = NoPasscode
  BY <1>1, <1>2, ConstantsAssumption
  DEF ConstantsAssumption, ClientOK, ClientType, GenerateLocalKey, Keys
<1>3. CASE ~(perf /\ c.passcode = NoPasscode)
  <2> DEFINE accounts == [i \in DOMAIN c.accounts |->
                            [c.accounts[i] EXCEPT !.localKey = key]]
  <2>1. key \in Keys
    BY DEF Keys
  <2>2. /\ c.accounts \in Seq(AccountType)
        /\ Len(c.accounts) \in Nat
        /\ DOMAIN c.accounts = 1 .. Len(c.accounts)
    BY <1>1 DEF ClientType
  <2>3. ASSUME NEW i \in 1 .. Len(c.accounts)
        PROVE  [c.accounts[i] EXCEPT !.localKey = key] \in AccountType
    <3>1. c.accounts[i] \in AccountType
      BY <2>2
    <3> QED
      BY <2>1, <3>1 DEF AccountType
  <2>4. /\ accounts \in Seq(AccountType)
        /\ Len(accounts) = Len(c.accounts)
    BY <2>2, <2>3
  <2>5. d = [c EXCEPT !.localKey = key, !.isLoaded = TRUE,
                      !.wrap = [pass |-> c.passcode, key |-> key],
                      !.accounts = accounts]
    BY <1>3 DEF GenerateLocalKey
  <2> HIDE DEF accounts
  <2>6. d \in ClientType
    <3>1. c \in ClientType
      BY <1>1
    <3>2. accounts \in Seq(AccountType)
      BY <2>4
    <3>3. [c EXCEPT !.localKey = key, !.isLoaded = TRUE,
                    !.wrap = [pass |-> c.passcode, key |-> key],
                    !.accounts = accounts] \in ClientType
      BY <2>1, <3>1, <3>2 DEF ClientType
    <3> QED
      BY <2>5, <3>3
  <2>7. /\ d.accounts = accounts
        /\ d.mainAccount = c.mainAccount
        /\ d.keyFile = c.keyFile
        /\ d.basePath = c.basePath
    BY <1>1, <2>5 DEF ClientType
  <2> QED
    BY <1>1, <2>4, <2>6, <2>7 DEF ClientOK
<1> QED
  BY <1>2, <1>3

\* A new account is well formed when its index is one.
LEMMA NewAccountType ==
  ASSUME NEW c, ClientOK(c), NEW user \in Users, NEW index \in Indices
  PROVE  NewAccount(c, user, index) \in AccountType
  BY DEF ClientOK, ClientType, NewAccount, AccountType, DataNames, ComposeDataString

\* _addSingleAccount on a client below the limit.
LEMMA AddSingleAccountType ==
  ASSUME NEW c, ClientOK(c), Len(c.accounts) < MaxAccounts, NEW user \in Users,
         NEW d, d = AddSingleAccount(c, user)
  PROVE  ClientOK(d)
<1>1. /\ c \in ClientType
      /\ c.accounts \in Seq(AccountType)
      /\ Len(c.accounts) \in Nat
      /\ c.mainAccount \in Int
  BY DEF ClientOK, ClientType
<1>2. PICK a \in AccountType : a = NewAccount(c, user, Len(c.accounts))
  <2>1. Len(c.accounts) \in Indices
    BY <1>1, ConstantsAssumption DEF ConstantsAssumption, Indices
  <2> QED
    BY <2>1, NewAccountType
<1>3. PICK accounts \in Seq(AccountType) :
        accounts = Append(c.accounts, a) /\ Len(accounts) = Len(c.accounts) + 1
  <2>1. /\ Append(c.accounts, a) \in Seq(AccountType)
        /\ Len(Append(c.accounts, a)) = Len(c.accounts) + 1
    BY <1>1, AppendProperties
  <2> QED
    BY <2>1
<1>4. PICK main \in Int : main = IF c.mainAccount = NoMain THEN 1 ELSE c.mainAccount
  BY <1>1
<1>5. d = [c EXCEPT !.accounts = accounts, !.mainAccount = main]
  BY <1>1, <1>2, <1>3, <1>4 DEF AddSingleAccount, ClientType
<1>6. d \in ClientType
  <2>1. [c EXCEPT !.accounts = accounts, !.mainAccount = main] \in ClientType
    BY <1>1 DEF ClientType
  <2> QED
    BY <1>5, <2>1
<1>7. d.accounts = accounts /\ d.mainAccount = main
  BY <1>1, <1>5 DEF ClientType
<1> QED
  BY <1>1, <1>3, <1>4, <1>6, <1>7, ConstantsAssumption
  DEF ConstantsAssumption, ClientOK, NoMain, StaleMain

\* The fields of an account do not decide where a rename may write.
LEMMA RenameAccountType ==
  ASSUME NEW c, ClientOK(c), NEW i \in DOMAIN c.accounts,
         NEW k \in KeyFiles \cup {NoArg}, NEW d, d = RenameAccount(c, i, k)
  PROVE  /\ ClientOK(d)
         /\ Len(d.accounts) = Len(c.accounts)
         /\ WriteName(c.accounts[i], k) \in DataNames
<1>1. /\ c \in ClientType
      /\ c.accounts \in Seq(AccountType)
      /\ Len(c.accounts) \in Nat
      /\ DOMAIN c.accounts = 1 .. Len(c.accounts)
  BY DEF ClientOK, ClientType
<1>2. c.accounts[i] \in AccountType
  BY <1>1
<1>3. k # NoArg => ComposeDataString(k, 0) \in DataNames
  BY ConstantsAssumption DEF ConstantsAssumption, ComposeDataString, DataNames, Indices
<1>4. WriteName(c.accounts[i], k) \in DataNames
  BY <1>2, <1>3 DEF WriteName, Renamed, AccountType
<1>5. CASE ~Renamed(c.accounts[i], k)
  BY <1>4, <1>5 DEF RenameAccount
<1>6. CASE Renamed(c.accounts[i], k)
  <2>1. PICK a \in AccountType :
          a = [c.accounts[i] EXCEPT !.keyFile = ComposeDataString(k, 0)]
    BY <1>2, <1>3, <1>6 DEF AccountType, Renamed
  <2>2. PICK accounts \in Seq(AccountType) :
          accounts = [c.accounts EXCEPT ![i] = a] /\ Len(accounts) = Len(c.accounts)
    <3>1. /\ [c.accounts EXCEPT ![i] = a] \in Seq(AccountType)
          /\ Len([c.accounts EXCEPT ![i] = a]) = Len(c.accounts)
      BY <1>1, ExceptSeq
    <3> QED
      BY <3>1
  <2>3. d = [c EXCEPT !.accounts = accounts]
    BY <1>1, <1>6, <2>1, <2>2 DEF RenameAccount, ClientType
  <2>4. d \in ClientType
    <3>1. [c EXCEPT !.accounts = accounts] \in ClientType
      BY <1>1 DEF ClientType
    <3> QED
      BY <2>3, <3>1
  <2>5. d.accounts = accounts /\ d.mainAccount = c.mainAccount
    BY <1>1, <2>3 DEF ClientType
  <2> QED
    BY <1>4, <2>2, <2>4, <2>5 DEF ClientOK
<1> QED
  BY <1>5, <1>6

\* What SaveTData does to the client before the files.
LEMMA PreparedType ==
  ASSUME ClientOK(client), NEW f \in Folders, NEW p \in Passcodes \cup {NoArg},
         NEW k \in SaveKeyFiles, NEW key \in RandomKeys,
         NEW d, d = Prepared(f, p, k, key)
  PROVE  ClientOK(d)
<1>1. PICK c0 : c0 = [client EXCEPT !.keyFile = IF k = NoArg THEN @ ELSE k,
                                    !.basePath = IF @ = NoFolder THEN f ELSE @]
  OBVIOUS
<1>2. PICK c1 : c1 = IF p # NoArg /\ p # c0.passcode
                     THEN [c0 EXCEPT !.passcode = p, !.isLoaded = FALSE] ELSE c0
  OBVIOUS
<1>3. ClientOK(c0)
  BY <1>1 DEF ClientOK, ClientType, SaveKeyFiles
<1>4. ClientOK(c1)
  BY <1>2, <1>3 DEF ClientOK, ClientType
<1>5. d = IF c1.isLoaded THEN c1 ELSE GenerateLocalKey(c1, key)
  BY <1>1, <1>2 DEF Prepared
<1> QED
  BY <1>4, <1>5, GenerateLocalKeyType

\* The parts of TypeOK a step can disturb on its own.
PlaceOK ==
  /\ pc \in Places
  /\ job \in JobType
  /\ pc \in SaveStages => /\ job.pos \in DOMAIN client.accounts
                          /\ job.folder \in Folders
  /\ pc = "loading" => client.basePath \in Folders /\ job.pos > 0

FilesOK ==
  /\ mapFile \in [Files -> Keys]
  /\ mtpFile \in [Files -> MtpType]

SlotsOK ==
  /\ keyData \in [Slots -> KeyDataType]
  /\ saved \in [Slots -> SavedType]

TypeInv ==
  /\ perf \in BOOLEAN
  /\ ClientOK(client)
  /\ PlaceOK
  /\ FilesOK
  /\ SlotsOK
  /\ RunBounded

\* The inductive invariant is TypeOK and the bound of the load.
LEMMA TypeParts == TypeInv <=> TypeOK /\ RunBounded
  BY DEF TypeInv, TypeOK, ClientOK, PlaceOK, FilesOK, SlotsOK

\* The folders a program finds are of their types.
LEMMA InitType == Init => TypeInv
<1> SUFFICES ASSUME Init PROVE TypeInv
  OBVIOUS
<1>1. perf \in BOOLEAN /\ ClientOK(client)
  BY NewClientType, ConstantsAssumption DEF Init, NoClient, ConstantsAssumption
<1>2. PlaceOK /\ RunBounded
  BY NoJobType DEF Init, PlaceOK, RunBounded, Places, SaveStages
<1>3. PICK list \in ForeignLists \cup {<<>>}, key \in RandomKeys, user \in Users :
       /\ keyData = [s \in Slots |->
            IF s[2] = DefaultKeyFile THEN Left(list, key) ELSE NoKeyData]
       /\ mapFile = [n \in Files |-> IF Listed(list, n) THEN key ELSE NoKey]
       /\ mtpFile = [n \in Files |->
            IF Listed(list, n) THEN [key |-> key, user |-> user] ELSE NoMtp]
  BY DEF Init
<1>4. NoKeyData \in KeyDataType
  BY ConstantsAssumption, EmptySeq DEF ConstantsAssumption, NoKeyData, KeyDataType, Keys
<1>5. Left(list, key) \in KeyDataType
  <2>1. list \in Seq(Nat)
    BY ConstantsAssumption, EmptySeq DEF ConstantsAssumption
  <2> QED
    BY <1>4, <2>1, ConstantsAssumption DEF ConstantsAssumption, Left, KeyDataType, Keys
<1>6. keyData \in [Slots -> KeyDataType]
  BY <1>3, <1>4, <1>5
<1>7. saved \in [Slots -> SavedType]
  <2>1. NotSaved \in SavedType
    BY ConstantsAssumption, EmptySeq DEF ConstantsAssumption, NotSaved, SavedType
  <2> QED
    BY <2>1 DEF Init
<1>8. FilesOK
  BY <1>3, ConstantsAssumption DEF ConstantsAssumption, FilesOK, MtpType, Keys, NoMtp
<1> QED
  BY <1>1, <1>2, <1>6, <1>7, <1>8 DEF TypeInv, SlotsOK

\* __loadFromTData up to its loop, on whatever object it is called.
LEMMA LoadKeyDataType ==
  ASSUME TypeInv, NEW c, ClientOK(c), c.basePath \in Folders, NEW ctor \in BOOLEAN,
         LoadKeyData(c, ctor), UNCHANGED <<perf, disk, saved>>
  PROVE  TypeInv'
<1> DEFINE data == keyData[<<c.basePath, c.keyFile>>]
<1>1. c \in ClientType
  BY DEF ClientOK
<1>2. data \in KeyDataType
  BY <1>1 DEF TypeInv, SlotsOK, Slots, ClientType
<1>3. PICK cleared : cleared = [c EXCEPT !.accounts = <<>>,
         !.mainAccount = IF @ = NoMain THEN @ ELSE StaleMain]
  OBVIOUS
<1>4. PICK unlocked : unlocked = [cleared EXCEPT !.localKey = data.wrapped,
         !.wrap = [pass |-> data.pass, key |-> data.wrapped]]
  OBVIOUS
<1>5. /\ ClientOK(cleared)
      /\ cleared.accounts = <<>>
      /\ cleared.basePath = c.basePath
      /\ cleared.keyFile = c.keyFile
  <2>1. PICK main \in {NoMain, StaleMain} :
          cleared = [c EXCEPT !.accounts = <<>>, !.mainAccount = main]
    BY <1>1, <1>3 DEF ClientType
  <2>2. [c EXCEPT !.accounts = <<>>, !.mainAccount = main] \in ClientType
    <3>1. main \in Int /\ <<>> \in Seq(AccountType)
      BY EmptySeq DEF NoMain, StaleMain
    <3> QED
      BY <1>1, <3>1 DEF ClientType
  <2> QED
    BY <1>1, <2>1, <2>2, EmptySeq, ConstantsAssumption
    DEF ConstantsAssumption, ClientOK, ClientType, NoMain, StaleMain
<1>6. /\ ClientOK(unlocked)
      /\ unlocked.accounts = <<>>
      /\ unlocked.basePath = c.basePath
      /\ unlocked.keyFile = c.keyFile
      /\ unlocked.localKey = data.wrapped
  <2>1. cleared \in ClientType
    BY <1>5 DEF ClientOK
  <2>2. [cleared EXCEPT !.localKey = data.wrapped,
         !.wrap = [pass |-> data.pass, key |-> data.wrapped]] \in ClientType
    BY <1>2, <2>1 DEF ClientType, KeyDataType
  <2> QED
    BY <1>4, <1>5, <2>1, <2>2 DEF ClientOK, ClientType
<1>7. \/ \E d \in {cleared, unlocked} : LoadFails(d, ctor)
      \/ /\ client' = unlocked
         /\ pc' = "loading"
         /\ job' = [NoJob EXCEPT !.pos = 1, !.ctor = ctor]
         /\ Len(data.indices) <= MaxAccounts
         /\ data.wrapped # NoKey
  BY <1>3, <1>4, <1>5, ConstantsAssumption DEF LoadKeyData, ConstantsAssumption
<1>8. (perf \in BOOLEAN /\ FilesOK /\ SlotsOK)'
  BY DEF TypeInv, FilesOK, SlotsOK, disk
<1>9. CASE \E d \in {cleared, unlocked} : LoadFails(d, ctor)
  <2>1. ClientOK(client)'
    BY <1>5, <1>6, <1>9, NewClientType, ConstantsAssumption
    DEF LoadFails, NoClient, ConstantsAssumption, ClientOK
  <2>2. PlaceOK' /\ RunBounded'
    BY <1>9, NoJobType DEF LoadFails, PlaceOK, RunBounded, Places, SaveStages
  <2> QED
    BY <1>8, <2>1, <2>2 DEF TypeInv
<1>10. CASE /\ client' = unlocked
            /\ pc' = "loading"
            /\ job' = [NoJob EXCEPT !.pos = 1, !.ctor = ctor]
            /\ Len(data.indices) <= MaxAccounts
            /\ data.wrapped # NoKey
  <2>1. ClientOK(client)'
    BY <1>6, <1>10 DEF ClientOK
  <2>2. job' \in JobType /\ job'.pos = 1
    BY <1>10, NoJobType DEF JobType
  <2>3. PlaceOK'
    BY <1>6, <1>10, <2>2 DEF PlaceOK, Places, SaveStages
  <2>4. RunBounded'
    <3>1. LoadedData' = data
      BY <1>6, <1>10 DEF LoadedData, disk
    <3>2. Len(client'.accounts) = 0
      BY <1>6, <1>10, EmptySeq
    <3> QED
      BY <1>6, <1>10, <2>2, <3>1, <3>2 DEF RunBounded
  <2> QED
    BY <1>8, <2>1, <2>3, <2>4 DEF TypeInv
<1> QED
  BY <1>7, <1>9, <1>10

\* Every step keeps the types: the limit on accounts is tested where accounts
\* are added and where a list of indices is read.
LEMMA NextType == TypeInv /\ [Next]_vars => TypeInv'
<1> SUFFICES ASSUME TypeInv, [Next]_vars
             PROVE  TypeInv'
  OBVIOUS
<1> USE DEF disk
<1>0. /\ ClientOK(client)
      /\ client \in ClientType
      /\ client.accounts \in Seq(AccountType)
      /\ Len(client.accounts) \in Nat
      /\ DOMAIN client.accounts = 1 .. Len(client.accounts)
  BY DEF TypeInv, ClientOK, ClientType
<1>1. ASSUME NEW p \in Passcodes, NEW k \in KeyFiles, Create(p, k)
      PROVE  TypeInv'
  BY <1>1, NewClientType
  DEF Create, TypeInv, PlaceOK, FilesOK, SlotsOK, RunBounded, Places, SaveStages, ClientOK
<1>2. ASSUME NEW u \in Users, CreateFromSession(u)
      PROVE  TypeInv'
  <2>1. PICK key \in RandomKeys :
          client' = AddSingleAccount(GenerateLocalKey(NoClient, key), u)
    BY <1>2 DEF CreateFromSession, FreshKeys
  <2>2. ClientOK(NoClient) /\ Len(NoClient.accounts) = 0
    BY NewClientType, ConstantsAssumption, EmptySeq
    DEF NoClient, NewClient, ConstantsAssumption
  <2>3. PICK c : c = GenerateLocalKey(NoClient, key)
    OBVIOUS
  <2>4. ClientOK(c) /\ Len(c.accounts) < MaxAccounts
    BY <2>2, <2>3, GenerateLocalKeyType, ConstantsAssumption DEF ConstantsAssumption
  <2>5. ClientOK(client')
    BY <2>1, <2>3, <2>4, AddSingleAccountType
  <2> QED
    BY <1>2, <2>5
    DEF CreateFromSession, TypeInv, PlaceOK, FilesOK, SlotsOK, RunBounded, Places,
        SaveStages, ClientOK
<1>3. ASSUME NEW u \in Users, AddAccount(u)
      PROVE  TypeInv'
  <2>1. ClientOK(client')
    BY <1>0, <1>3, AddSingleAccountType DEF AddAccount
  <2> QED
    BY <1>3, <2>1
    DEF AddAccount, TypeInv, PlaceOK, FilesOK, SlotsOK, RunBounded, Places,
        SaveStages, ClientOK
<1>4. ASSUME NEW b \in BOOLEAN, PerformanceMode(b)
      PROVE  TypeInv'
  BY <1>4
  DEF PerformanceMode, TypeInv, PlaceOK, FilesOK, SlotsOK, RunBounded, ClientOK,
      LoadedData
<1>5. CASE Drop
  BY <1>5, NewClientType, ConstantsAssumption
  DEF Drop, TypeInv, PlaceOK, FilesOK, SlotsOK, RunBounded, Places, SaveStages,
      NoClient, ConstantsAssumption, ClientOK
<1>6. ASSUME NEW f \in Folders, NEW p \in Passcodes, NEW k \in KeyFiles, Open(f, p, k)
      PROVE  TypeInv'
  <2>1. PICK c : c = [NewClient(p, k) EXCEPT !.basePath = f]
    OBVIOUS
  <2>2. ClientOK(c) /\ c.basePath \in Folders
    BY <2>1, NewClientType DEF ClientOK, ClientType
  <2>3. LoadKeyData(c, TRUE) /\ UNCHANGED <<perf, disk, saved>>
    BY <1>6, <2>1 DEF Open
  <2> QED
    BY <2>2, <2>3, LoadKeyDataType
<1>7. ASSUME NEW f \in Folders \cup {NoFolder}, NEW p \in Passcodes \cup {NoArg},
             NEW k \in KeyFiles \cup {NoArg}, LoadTData(f, p, k)
      PROVE  TypeInv'
  <2>1. PICK c : c = [client EXCEPT !.keyFile  = IF k = NoArg THEN @ ELSE k,
                                    !.passcode = IF p = NoArg THEN @ ELSE p]
    OBVIOUS
  <2>2. ClientOK(c) /\ c.basePath = client.basePath
    BY <1>0, <2>1 DEF ClientOK, ClientType
  <2>3. CASE c.basePath = NoFolder
    <3>1. LoadFails(c, FALSE) /\ UNCHANGED <<perf, disk, saved>>
      BY <1>7, <2>1, <2>3 DEF LoadTData
    <3> QED
      BY <2>2, <3>1, NoJobType
      DEF LoadFails, TypeInv, PlaceOK, FilesOK, SlotsOK, RunBounded, Places,
          SaveStages, ClientOK
  <2>4. CASE c.basePath # NoFolder
    <3>1. LoadKeyData(c, FALSE) /\ UNCHANGED <<perf, disk, saved>>
      BY <1>7, <2>1, <2>4 DEF LoadTData
    <3>2. c.basePath \in Folders
      BY <1>0, <2>2, <2>4 DEF ClientType
    <3> QED
      BY <2>2, <3>1, <3>2, LoadKeyDataType
  <2> QED
    BY <2>3, <2>4
<1>8. CASE LoadAccount
  <2>1. PICK index \in Nat : index = LoadedData.indices[job.pos]
    <3>1. LoadedData \in KeyDataType
      BY <1>0, <1>8 DEF LoadAccount, LoadedData, TypeInv, PlaceOK, SlotsOK, Slots, ClientType
    <3>2. job.pos \in 1 .. Len(LoadedData.indices)
      BY <1>8, <3>1 DEF LoadAccount, TypeInv, PlaceOK, JobType, KeyDataType
    <3> QED
      BY <3>1, <3>2 DEF KeyDataType
  <2>2. /\ Len(client.accounts) < job.pos
        /\ job.pos <= MaxAccounts
        /\ job.pos \in Nat
        /\ client.localKey # NoKey
    <3>1. LoadedData \in KeyDataType
      BY <1>0, <1>8 DEF LoadAccount, LoadedData, TypeInv, PlaceOK, SlotsOK, Slots, ClientType
    <3> QED
      BY <1>8, <3>1, ConstantsAssumption
      DEF ConstantsAssumption, LoadAccount, TypeInv, RunBounded, PlaceOK, JobType, KeyDataType
  <2>3. /\ ClientOK(client')
        /\ Len(client'.accounts) <= Len(client.accounts) + 1
        /\ client'.basePath = client.basePath
        /\ client'.keyFile = client.keyFile
        /\ client'.localKey = client.localKey
    <3>1. CASE client' = client
      BY <1>0, <3>1
    <3>2. CASE client' # client
      <4> DEFINE name == ComposeDataString(client.keyFile, index)
                 user == mtpFile[<<client.basePath, name>>].user
      <4>1. /\ index \in Indices
            /\ Opens(client.basePath, name, client.localKey)
            /\ client' = [client EXCEPT !.accounts =
                            Append(@, NewAccount(client, user, index))]
        BY <1>8, <2>1, <3>2 DEF LoadAccount
      <4>2. <<client.basePath, name>> \in Files
        BY <1>0, <1>8, <4>1
        DEF LoadAccount, TypeInv, PlaceOK, Files, DataNames, ComposeDataString, ClientType
      <4>3. user \in Users
        BY <2>2, <4>1, <4>2 DEF TypeInv, FilesOK, MtpType, NoMtp, Opens
      <4> HIDE DEF user
      <4>4. PICK a \in AccountType : a = NewAccount(client, user, index)
        BY <1>0, <4>1, <4>3, NewAccountType
      <4>5. PICK accounts \in Seq(AccountType) :
              /\ accounts = Append(client.accounts, a)
              /\ Len(accounts) = Len(client.accounts) + 1
        <5>1. /\ Append(client.accounts, a) \in Seq(AccountType)
              /\ Len(Append(client.accounts, a)) = Len(client.accounts) + 1
          BY <1>0, AppendProperties
        <5> QED
          BY <5>1
      <4>6. client' = [client EXCEPT !.accounts = accounts]
        BY <1>0, <4>1, <4>4, <4>5 DEF ClientType
      <4>7. [client EXCEPT !.accounts = accounts] \in ClientType
        BY <1>0 DEF ClientType
      <4>8. /\ client' \in ClientType
            /\ client'.accounts = accounts
            /\ client'.mainAccount = client.mainAccount
            /\ client'.basePath = client.basePath
            /\ client'.keyFile = client.keyFile
            /\ client'.localKey = client.localKey
        BY <1>0, <4>6, <4>7 DEF ClientType
      <4> QED
        BY <1>0, <2>2, <4>5, <4>8, ConstantsAssumption
        DEF ConstantsAssumption, ClientOK
    <3> QED
      BY <3>1, <3>2
  <2>4. job' \in JobType /\ job'.pos = job.pos + 1
    BY <1>8, <2>2 DEF LoadAccount, TypeInv, PlaceOK, JobType
  <2>5. Len(client'.accounts) \in Nat
    BY <2>3 DEF ClientOK, ClientType
  <2>6. PlaceOK'
    BY <1>8, <2>2, <2>3, <2>4
    DEF LoadAccount, TypeInv, PlaceOK, Places, SaveStages
  <2>7. RunBounded'
    <3>1. LoadedData' = LoadedData
      BY <1>8, <2>3 DEF LoadAccount, LoadedData
    <3>2. Len(client'.accounts) < job'.pos
      BY <1>0, <2>2, <2>3, <2>4, <2>5
    <3> QED
      BY <1>8, <2>2, <2>3, <3>1, <3>2 DEF LoadAccount, TypeInv, RunBounded
  <2> QED
    BY <1>8, <2>3, <2>6, <2>7
    DEF LoadAccount, TypeInv, FilesOK, SlotsOK, ClientOK
<1>9. CASE FinishLoad
  <2>1. CASE client.accounts = <<>>
    <3>1. ClientOK(client')
      BY <1>0, <1>9, <2>1, NewClientType, ConstantsAssumption
      DEF ConstantsAssumption, FinishLoad, LoadFails, NoClient
    <3> QED
      BY <1>9, <2>1, <3>1, NoJobType
      DEF FinishLoad, LoadFails, TypeInv, PlaceOK, FilesOK, SlotsOK, RunBounded,
          Places, SaveStages, ClientOK
  <2>2. CASE client.accounts # <<>>
    <3>1. PICK main \in DOMAIN client.accounts \cup {client.mainAccount},
               active \in Int :
            client' = [client EXCEPT !.activeIndex = active, !.mainAccount = main,
                                     !.isLoaded = TRUE]
      <4>1. LoadedData.active \in Int
        BY <1>0, <1>9
        DEF FinishLoad, LoadedData, TypeInv, PlaceOK, SlotsOK, Slots, ClientType, KeyDataType
      <4>2. 1 \in DOMAIN client.accounts
        BY <1>0, <2>2, EmptySeq
      <4> QED
        BY <1>9, <2>2, <4>1, <4>2 DEF FinishLoad
    <3>2. main \in {StaleMain} \cup 0 .. Len(client.accounts)
      BY <1>0 DEF ClientOK
    <3>3. [client EXCEPT !.activeIndex = active, !.mainAccount = main,
                         !.isLoaded = TRUE] \in ClientType
      <4>1. main \in Int
        BY <1>0, <3>2 DEF StaleMain
      <4> QED
        BY <1>0, <4>1 DEF ClientType
    <3>4. ClientOK(client')
      BY <1>0, <3>1, <3>2, <3>3 DEF ClientOK, ClientType
    <3> QED
      BY <1>9, <2>2, <3>4, NoJobType
      DEF FinishLoad, TypeInv, PlaceOK, FilesOK, SlotsOK, RunBounded,
          Places, SaveStages, ClientOK
  <2> QED
    BY <2>1, <2>2
<1>10. ASSUME NEW k \in SaveKeyFiles, SaveWithoutFolder(k)
       PROVE  TypeInv'
  <2>1. ClientOK(client')
    BY <1>0, <1>10 DEF SaveWithoutFolder, SaveKeyFiles, ClientOK, ClientType
  <2> QED
    BY <1>10, <2>1
    DEF SaveWithoutFolder, TypeInv, PlaceOK, FilesOK, SlotsOK, RunBounded, Places,
        SaveStages, ClientOK
<1>11. ASSUME NEW f \in Folders, NEW p \in Passcodes \cup {NoArg},
              NEW k \in SaveKeyFiles, SaveTData(f, p, k)
       PROVE  TypeInv'
  <2>1. k \in KeyFiles \cup {NoArg}
    BY DEF SaveKeyFiles
  <2>2. PICK key \in FreshKeys :
          LET c    == Prepared(f, p, k, key)
              slot == <<f, c.keyFile>>
          IN  IF c.accounts = <<>>
              THEN client' = c /\ UNCHANGED <<pc, job, saved>>
              ELSE /\ client' = RenameAccount(c, 1, k)
                   /\ pc' = "map"
                   /\ job' = [NoJob EXCEPT
                                !.folder = f, !.arg = k, !.pos = 1,
                                !.name = WriteName(c.accounts[1], k),
                                !.before = ReadableIndices(slot, c.localKey)]
                   /\ saved' = [saved EXCEPT ![slot] = NotSaved]
    BY <1>11 DEF SaveTData
  <2>3. PICK c : c = Prepared(f, p, k, key)
    OBVIOUS
  <2>4. ClientOK(c)
    BY <1>0, <2>3, PreparedType DEF FreshKeys
  <2>5. CASE c.accounts = <<>>
    <3>1. client' = c /\ UNCHANGED <<pc, job, saved>>
      BY <2>2, <2>3, <2>5
    <3> QED
      BY <1>11, <2>4, <3>1
      DEF SaveTData, TypeInv, PlaceOK, FilesOK, SlotsOK, RunBounded, SaveStages, ClientOK
  <2>6. CASE c.accounts # <<>>
    <3> DEFINE slot == <<f, c.keyFile>>
    <3>1. /\ client' = RenameAccount(c, 1, k)
          /\ pc' = "map"
          /\ job' = [NoJob EXCEPT
                       !.folder = f, !.arg = k, !.pos = 1,
                       !.name = WriteName(c.accounts[1], k),
                       !.before = ReadableIndices(slot, c.localKey)]
          /\ saved' = [saved EXCEPT ![slot] = NotSaved]
      BY <2>2, <2>3, <2>6
    <3>2. /\ c \in ClientType
          /\ DOMAIN c.accounts = 1 .. Len(c.accounts)
          /\ Len(c.accounts) \in Nat
          /\ 1 \in DOMAIN c.accounts
      <4>1. c \in ClientType /\ c.accounts \in Seq(AccountType)
        BY <2>4 DEF ClientOK, ClientType
      <4> QED
        BY <2>6, <4>1, EmptySeq
    <3>3. /\ ClientOK(client')
          /\ Len(client'.accounts) = Len(c.accounts)
          /\ WriteName(c.accounts[1], k) \in DataNames
      BY <2>1, <2>4, <3>1, <3>2, RenameAccountType
    <3>4. DOMAIN client'.accounts = 1 .. Len(client'.accounts)
      BY <3>3 DEF ClientOK, ClientType
    <3>5. job' \in JobType /\ job'.pos = 1 /\ job'.folder = f /\ ~job'.opened
      <4>1. ReadableIndices(slot, c.localKey) \in SUBSET Indices
        BY DEF ReadableIndices
      <4> QED
        BY <2>1, <3>1, <3>3, <4>1, NoJobType DEF JobType, NoJob
    <3>6. SlotsOK'
      <4>1. NotSaved \in SavedType
        BY ConstantsAssumption, EmptySeq DEF ConstantsAssumption, NotSaved, SavedType
      <4> QED
        BY <1>11, <3>1, <4>1 DEF SaveTData, TypeInv, SlotsOK
    <3>7. PlaceOK'
      BY <3>1, <3>2, <3>3, <3>4, <3>5 DEF PlaceOK, Places, SaveStages
    <3>8. RunBounded'
      BY <3>1, <3>5 DEF RunBounded
    <3> QED
      BY <1>11, <3>3, <3>6, <3>7, <3>8 DEF SaveTData, TypeInv, FilesOK, ClientOK
  <2> QED
    BY <2>5, <2>6
<1>12. pc \in SaveStages =>
          /\ job.pos \in DOMAIN client.accounts
          /\ Current \in AccountType
          /\ CurrentFile \in Files
          /\ CurrentSlot \in Slots
  BY <1>0
  DEF TypeInv, PlaceOK, JobType, Current, CurrentFile, CurrentSlot, Files, Slots, ClientType
<1>13. NoKeyData \in KeyDataType
  BY ConstantsAssumption, EmptySeq DEF ConstantsAssumption, NoKeyData, KeyDataType, Keys
<1>14. CASE OpenFile
  <2>1. FilesOK'
    BY <1>14 DEF OpenFile, TypeInv, FilesOK, MtpType, Keys
  <2>2. SlotsOK'
    BY <1>13, <1>14 DEF OpenFile, TypeInv, SlotsOK
  <2>3. PlaceOK'
    BY <1>14 DEF OpenFile, TypeInv, PlaceOK, JobType
  <2>4. RunBounded'
    BY <1>14
    DEF OpenFile, TypeInv, RunBounded, LoadedData, PlaceOK, JobType, Current, SaveStages
  <2> QED
    BY <1>14, <2>1, <2>2, <2>3, <2>4 DEF OpenFile, TypeInv, ClientOK
<1>15. CASE WriteMap
  <2>1. Current.localKey \in Keys
    BY <1>12, <1>15 DEF WriteMap, FileClosed, SaveStages, AccountType
  <2>2. FilesOK'
    BY <1>15, <2>1 DEF WriteMap, TypeInv, FilesOK
  <2>3. PlaceOK' /\ RunBounded'
    BY <1>15
    DEF WriteMap, FileClosed, TypeInv, PlaceOK, RunBounded, JobType, Current, Places,
        SaveStages
  <2> QED
    BY <1>15, <2>2, <2>3 DEF WriteMap, TypeInv, SlotsOK, ClientOK
<1>16. CASE WriteMtpConfig
  <2>1. PlaceOK' /\ RunBounded'
    BY <1>16
    DEF WriteMtpConfig, FileClosed, TypeInv, PlaceOK, RunBounded, JobType, Current,
        Places, SaveStages
  <2> QED
    BY <1>16, <2>1 DEF WriteMtpConfig, TypeInv, FilesOK, SlotsOK, ClientOK
<1>17. CASE WriteMtpData
  <2>1. [key |-> Current.localKey, user |-> Current.user] \in MtpType
    BY <1>12, <1>17
    DEF WriteMtpData, FileClosed, SaveStages, AccountType, TypeInv, RunBounded, MtpType
  <2>2. FilesOK'
    BY <1>17, <2>1 DEF WriteMtpData, TypeInv, FilesOK
  <2>3. CASE job.pos < Len(client.accounts)
    <3>1. job.pos + 1 \in DOMAIN client.accounts /\ job.pos + 1 \in Nat
      BY <1>0, <1>12, <1>17, <2>3 DEF WriteMtpData, FileClosed, SaveStages
    <3>2. /\ client' = RenameAccount(client, job.pos + 1, job.arg)
          /\ job' = [job EXCEPT !.opened = FALSE, !.pos = job.pos + 1,
                        !.name = WriteName(client.accounts[job.pos + 1], job.arg)]
          /\ pc' = "map"
      BY <1>17, <2>3 DEF WriteMtpData
    <3>3. /\ ClientOK(client')
          /\ Len(client'.accounts) = Len(client.accounts)
          /\ WriteName(client.accounts[job.pos + 1], job.arg) \in DataNames
      <4>1. job.arg \in KeyFiles \cup {NoArg}
        BY DEF TypeInv, PlaceOK, JobType
      <4> QED
        BY <1>0, <3>1, <3>2, <4>1, RenameAccountType
    <3>4. /\ job' \in JobType
          /\ job'.pos = job.pos + 1
          /\ job'.folder = job.folder
          /\ ~job'.opened
      BY <3>1, <3>2, <3>3 DEF TypeInv, PlaceOK, JobType
    <3>5. DOMAIN client'.accounts = DOMAIN client.accounts
      BY <1>0, <3>3 DEF ClientOK, ClientType
    <3>6. PlaceOK'
      BY <1>17, <3>1, <3>2, <3>4, <3>5
      DEF WriteMtpData, FileClosed, TypeInv, PlaceOK, Places, SaveStages
    <3>7. RunBounded'
      BY <3>2, <3>4 DEF RunBounded
    <3> QED
      BY <1>17, <2>2, <3>3, <3>6, <3>7 DEF WriteMtpData, TypeInv, SlotsOK, ClientOK
  <2>4. CASE ~(job.pos < Len(client.accounts))
    <3>1. PlaceOK' /\ RunBounded'
      BY <1>17, <2>4
      DEF WriteMtpData, FileClosed, TypeInv, PlaceOK, RunBounded, JobType, Places,
          SaveStages
    <3> QED
      BY <1>17, <2>2, <2>4, <3>1 DEF WriteMtpData, TypeInv, SlotsOK, ClientOK
  <2> QED
    BY <2>3, <2>4
<1>18. CASE WriteKeyData
  <2>1. \A i \in DOMAIN client.accounts :
          client.accounts[i].index \in Indices /\ client.accounts[i].user \in Users
    <3>1. \A i \in DOMAIN client.accounts : client.accounts[i] \in AccountType
      BY <1>0
    <3> QED
      BY <3>1 DEF AccountType
  <2>2. Indices \subseteq Nat
    BY DEF Indices
  <2>3. [i \in DOMAIN client.accounts |-> client.accounts[i].index] \in Seq(Nat)
    <3>1. \A i \in DOMAIN client.accounts : client.accounts[i].index \in Nat
      BY <2>1, <2>2
    <3> QED
      BY <1>0, <3>1
  <2>4. [i \in DOMAIN client.accounts |->
           [index |-> client.accounts[i].index, user |-> client.accounts[i].user]]
          \in Seq(EntryType)
    <3>1. \A i \in DOMAIN client.accounts :
            [index |-> client.accounts[i].index, user |-> client.accounts[i].user]
              \in EntryType
      BY <2>1 DEF EntryType
    <3> QED
      BY <1>0, <3>1
  <2>5. [pass |-> client.wrap.pass, wrapped |-> client.wrap.key,
         infoKey |-> client.localKey, active |-> client.activeIndex,
         indices |-> [i \in DOMAIN client.accounts |-> client.accounts[i].index]]
          \in KeyDataType
    BY <1>0, <2>3 DEF ClientType, KeyDataType
  <2>6. [pass |-> client.passcode,
         accounts |-> [i \in DOMAIN client.accounts |->
                         [index |-> client.accounts[i].index,
                          user  |-> client.accounts[i].user]]] \in SavedType
    BY <1>0, <2>4 DEF ClientType, SavedType
  <2>7. SlotsOK'
    BY <1>18, <2>5, <2>6 DEF WriteKeyData, TypeInv, SlotsOK
  <2>8. PlaceOK' /\ RunBounded'
    BY <1>18, NoJobType
    DEF WriteKeyData, PlaceOK, RunBounded, Places, SaveStages
  <2> QED
    BY <1>18, <2>7, <2>8 DEF WriteKeyData, TypeInv, FilesOK, ClientOK
<1>19. CASE SaveFails
  BY <1>19, NoJobType
  DEF SaveFails, TypeInv, PlaceOK, FilesOK, SlotsOK, RunBounded, Places, SaveStages,
      ClientOK
<1>20. CASE Crash
  <2>1. ClientOK(client')
    BY <1>20, NewClientType, ConstantsAssumption DEF Crash, NoClient, ConstantsAssumption
  <2> QED
    BY <1>20, <2>1, NoJobType
    DEF Crash, TypeInv, PlaceOK, FilesOK, SlotsOK, RunBounded, Places, SaveStages,
        ClientOK
<1>21. CASE UNCHANGED vars
  BY <1>21
  DEF vars, TypeInv, PlaceOK, FilesOK, SlotsOK, RunBounded, ClientOK, LoadedData, Current
<1> QED
  BY <1>1, <1>2, <1>3, <1>4, <1>5, <1>6, <1>7, <1>8, <1>9, <1>10, <1>11, <1>14,
     <1>15, <1>16, <1>17, <1>18, <1>19, <1>20, <1>21 DEF Next

\* Every state of every client, mode and folder is of its type: in particular
\* no sequence of calls gives a client more than kMaxAccounts accounts or
\* writes an account that has no local key.
THEOREM TypeCorrect == Spec => []TypeOK
<1>1. TypeInv => TypeOK
  BY TypeParts
<1> QED
  BY <1>1, InitType, NextType, PTL DEF Spec

(***************************************************************************)
(* The passcode key always wraps the local key                             *)
(***************************************************************************)

Wrapped(c) == c.wrap.key = c.localKey /\ c.localKey # NoKey

\* __generateLocalKey leaves the client loaded with a key of its own.
LEMMA GenerateLocalKeyWraps ==
  ASSUME NEW c \in ClientType, NEW key \in RandomKeys,
         NEW d, d = GenerateLocalKey(c, key)
  PROVE  Wrapped(d) /\ d.isLoaded
<1>1. CASE perf /\ c.passcode = NoPasscode
  BY <1>1, ConstantsAssumption
  DEF ConstantsAssumption, ClientType, GenerateLocalKey, Wrapped
<1>2. CASE ~(perf /\ c.passcode = NoPasscode)
  BY <1>2, ConstantsAssumption
  DEF ConstantsAssumption, ClientType, GenerateLocalKey, Wrapped
<1> QED
  BY <1>1, <1>2

\* Adding or renaming an account leaves the keys alone.
LEMMA AccountsLeaveKeys ==
  ASSUME NEW c \in ClientType, NEW d,
         \/ \E u \in Users : d = AddSingleAccount(c, u)
         \/ \E i \in DOMAIN c.accounts, k \in KeyFiles : d = RenameAccount(c, i, k)
         \/ \E i \in DOMAIN c.accounts : d = RenameAccount(c, i, NoArg)
  PROVE  d.wrap = c.wrap /\ d.localKey = c.localKey /\ d.isLoaded = c.isLoaded
  BY DEF ClientType, AddSingleAccount, RenameAccount

\* A load that gets as far as the key file's wrapped key takes it over; one
\* that does not leaves the keys of the object alone.
LEMMA LoadKeyDataWraps ==
  ASSUME NEW c \in ClientType, c.isLoaded => Wrapped(c), NEW ctor \in BOOLEAN,
         LoadKeyData(c, ctor)
  PROVE  client'.isLoaded \/ pc' \notin {"none", "idle"} => Wrapped(client')
<1> DEFINE data == keyData[<<c.basePath, c.keyFile>>]
<1>1. PICK cleared : cleared = [c EXCEPT !.accounts = <<>>,
         !.mainAccount = IF @ = NoMain THEN @ ELSE StaleMain]
  OBVIOUS
<1>2. PICK unlocked : unlocked = [cleared EXCEPT !.localKey = data.wrapped,
         !.wrap = [pass |-> data.pass, key |-> data.wrapped]]
  OBVIOUS
<1>3. cleared.isLoaded => Wrapped(cleared)
  BY <1>1 DEF ClientType, Wrapped
<1>4. data.wrapped # NoKey => Wrapped(unlocked)
  BY <1>1, <1>2 DEF ClientType, Wrapped
<1>5. \/ LoadFails(cleared, ctor)
      \/ data.wrapped # NoKey /\ LoadFails(unlocked, ctor)
      \/ data.wrapped # NoKey /\ client' = unlocked
  BY <1>1, <1>2 DEF LoadKeyData
<1>6. ~NoClient.isLoaded
  BY DEF NoClient, NewClient
<1> QED
  BY <1>3, <1>4, <1>5, <1>6 DEF LoadFails

\* The step that matters is SaveTData's: it never gets to the files with a
\* local key the passcode does not wrap.
LEMMA NextWraps == TypeInv /\ WrapsLocalKey /\ [Next]_vars => WrapsLocalKey'
<1> SUFFICES ASSUME TypeInv, WrapsLocalKey, [Next]_vars
             PROVE  WrapsLocalKey'
  OBVIOUS
<1> USE DEF disk
<1>0. client \in ClientType /\ (client.isLoaded => Wrapped(client))
  BY DEF TypeInv, ClientOK, WrapsLocalKey, Wrapped
<1>1. CASE UNCHANGED <<client, pc, keyData>>
  BY <1>1 DEF WrapsLocalKey
<1>2. CASE keyData' = keyData /\ client'.isLoaded = FALSE /\ pc' \in {"none", "idle"}
  BY <1>2 DEF WrapsLocalKey
<1>3. CASE /\ keyData' = keyData
           /\ pc' \in {"none", "idle"} \/ pc \notin {"none", "idle"}
           /\ client'.wrap = client.wrap
           /\ client'.localKey = client.localKey
           /\ client'.isLoaded = client.isLoaded
  BY <1>3 DEF WrapsLocalKey
<1>4. CASE keyData' = keyData /\ Wrapped(client')
  BY <1>4 DEF WrapsLocalKey, Wrapped
<1>5. ASSUME NEW p \in Passcodes, NEW k \in KeyFiles, Create(p, k)
      PROVE  WrapsLocalKey'
  BY <1>2, <1>5 DEF Create, NewClient
<1>6. ASSUME NEW u \in Users, CreateFromSession(u)
      PROVE  WrapsLocalKey'
  <2>1. PICK key \in RandomKeys :
          client' = AddSingleAccount(GenerateLocalKey(NoClient, key), u)
    BY <1>6 DEF CreateFromSession, FreshKeys
  <2>2. ClientOK(NoClient)
    BY NewClientType, ConstantsAssumption DEF NoClient, ConstantsAssumption
  <2>3. PICK c : c = GenerateLocalKey(NoClient, key)
    OBVIOUS
  <2>4. ClientOK(c) /\ Wrapped(c)
    BY <2>2, <2>3, GenerateLocalKeyType, GenerateLocalKeyWraps DEF ClientOK
  <2>5. client'.wrap = c.wrap /\ client'.localKey = c.localKey
    BY <2>1, <2>3, <2>4, AccountsLeaveKeys DEF ClientOK
  <2> QED
    BY <1>4, <1>6, <2>4, <2>5 DEF CreateFromSession, Wrapped
<1>7. ASSUME NEW u \in Users, AddAccount(u)
      PROVE  WrapsLocalKey'
  BY <1>0, <1>3, <1>7, AccountsLeaveKeys DEF AddAccount
<1>8. CASE Drop
  BY <1>2, <1>8 DEF Drop, NoClient, NewClient
<1>9. ASSUME NEW f \in Folders, NEW p \in Passcodes, NEW k \in KeyFiles, Open(f, p, k)
      PROVE  WrapsLocalKey'
  <2>1. PICK c : c = [NewClient(p, k) EXCEPT !.basePath = f]
    OBVIOUS
  <2>2. c \in ClientType /\ ~c.isLoaded
    BY <2>1, NewClientType DEF ClientOK, ClientType, NewClient
  <2>3. LoadKeyData(c, TRUE) /\ keyData' = keyData
    BY <1>9, <2>1 DEF Open
  <2> QED
    BY <2>2, <2>3, LoadKeyDataWraps DEF WrapsLocalKey, Wrapped
<1>10. ASSUME NEW f \in Folders \cup {NoFolder}, NEW p \in Passcodes \cup {NoArg},
              NEW k \in KeyFiles \cup {NoArg}, LoadTData(f, p, k)
       PROVE  WrapsLocalKey'
  <2>1. PICK c : c = [client EXCEPT !.keyFile  = IF k = NoArg THEN @ ELSE k,
                                    !.passcode = IF p = NoArg THEN @ ELSE p]
    OBVIOUS
  <2>2. c \in ClientType /\ (c.isLoaded => Wrapped(c))
    BY <1>0, <2>1 DEF ClientType, Wrapped
  <2>3. keyData' = keyData /\ (LoadFails(c, FALSE) \/ LoadKeyData(c, FALSE))
    BY <1>10, <2>1 DEF LoadTData
  <2>4. CASE LoadFails(c, FALSE)
    BY <2>2, <2>3, <2>4 DEF LoadFails, WrapsLocalKey, Wrapped
  <2>5. CASE LoadKeyData(c, FALSE)
    BY <2>2, <2>3, <2>5, LoadKeyDataWraps DEF WrapsLocalKey, Wrapped
  <2> QED
    BY <2>3, <2>4, <2>5
<1>11. CASE LoadAccount
  <2>1. client' = client \/ \E a : client' = [client EXCEPT !.accounts = Append(@, a)]
    BY <1>11 DEF LoadAccount
  <2>2. /\ client'.wrap = client.wrap
        /\ client'.localKey = client.localKey
        /\ client'.isLoaded = client.isLoaded
    BY <1>0, <2>1 DEF ClientType
  <2> QED
    BY <1>3, <1>11, <2>2 DEF LoadAccount
<1>12. CASE FinishLoad
  <2>1. Wrapped(client)
    BY <1>12 DEF FinishLoad, WrapsLocalKey, Wrapped
  <2>2. CASE LoadFails(client, job.ctor)
    BY <1>12, <2>1, <2>2 DEF FinishLoad, LoadFails, WrapsLocalKey, Wrapped, NoClient, NewClient
  <2>3. CASE ~LoadFails(client, job.ctor)
    <3>1. \E main, active : client' = [client EXCEPT !.activeIndex = active,
                               !.mainAccount = main, !.isLoaded = TRUE]
      BY <1>12, <2>3 DEF FinishLoad
    <3> QED
      BY <1>0, <1>4, <1>12, <2>1, <3>1 DEF FinishLoad, ClientType, Wrapped
  <2> QED
    BY <2>2, <2>3
<1>13. ASSUME NEW k \in SaveKeyFiles, SaveWithoutFolder(k)
       PROVE  WrapsLocalKey'
  BY <1>0, <1>3, <1>13 DEF SaveWithoutFolder, ClientType
<1>14. ASSUME NEW f \in Folders, NEW p \in Passcodes \cup {NoArg},
              NEW k \in SaveKeyFiles, SaveTData(f, p, k)
       PROVE  WrapsLocalKey'
  <2>0. PICK key \in RandomKeys : \E d :
          /\ d = Prepared(f, p, k, key)
          /\ client' = IF d.accounts = <<>> THEN d ELSE RenameAccount(d, 1, k)
    BY <1>14 DEF SaveTData, FreshKeys
  <2>1. PICK c :
          /\ c = Prepared(f, p, k, key)
          /\ client' = IF c.accounts = <<>> THEN c ELSE RenameAccount(c, 1, k)
    BY <2>0
  <2>2. c \in ClientType
    BY <2>1, PreparedType DEF TypeInv, ClientOK
  <2>3. Wrapped(c)
    <3>1. PICK c0 : c0 = [client EXCEPT !.keyFile = IF k = NoArg THEN @ ELSE k,
                                        !.basePath = IF @ = NoFolder THEN f ELSE @]
      OBVIOUS
    <3>2. PICK c1 : c1 = IF p # NoArg /\ p # c0.passcode
                         THEN [c0 EXCEPT !.passcode = p, !.isLoaded = FALSE] ELSE c0
      OBVIOUS
    <3>3. c0 \in ClientType /\ (c0.isLoaded => Wrapped(c0))
      BY <1>0, <3>1 DEF ClientType, Wrapped, SaveKeyFiles
    <3>4. c1 \in ClientType /\ (c1.isLoaded => Wrapped(c1))
      BY <3>2, <3>3 DEF ClientType, Wrapped
    <3>5. c = IF c1.isLoaded THEN c1 ELSE GenerateLocalKey(c1, key)
      BY <2>1, <3>1, <3>2 DEF Prepared
    <3> QED
      BY <3>4, <3>5, GenerateLocalKeyWraps
  <2>4. Wrapped(client')
    BY <2>1, <2>2, <2>3 DEF RenameAccount, ClientType, Wrapped
  <2> QED
    BY <1>4, <1>14, <2>4 DEF SaveTData
<1>15. CASE OpenFile \/ WriteMap \/ WriteMtpConfig
  <2>1. NoKeyData.infoKey = NoKeyData.wrapped
    BY DEF NoKeyData
  <2> QED
    BY <1>15, <2>1
    DEF OpenFile, WriteMap, WriteMtpConfig, FileClosed, SaveStages, WrapsLocalKey,
        TypeInv, SlotsOK, KeyDataType
<1>16. CASE WriteMtpData
  <2>1. client' = client \/ \E i : client' = RenameAccount(client, i, job.arg)
    BY <1>16 DEF WriteMtpData
  <2>2. /\ client'.wrap = client.wrap
        /\ client'.localKey = client.localKey
        /\ client'.isLoaded = client.isLoaded
    BY <1>0, <2>1 DEF RenameAccount, ClientType
  <2> QED
    BY <1>3, <1>16, <2>2 DEF WriteMtpData, FileClosed
<1>17. CASE WriteKeyData
  BY <1>17
  DEF WriteKeyData, FileClosed, WrapsLocalKey, TypeInv, SlotsOK, KeyDataType
<1>18. CASE SaveFails
  BY <1>3, <1>18 DEF SaveFails
<1>19. CASE Crash
  BY <1>2, <1>19 DEF Crash, NoClient, NewClient
<1>20. CASE UNCHANGED vars \/ \E b \in BOOLEAN : PerformanceMode(b)
  BY <1>1, <1>20 DEF vars, PerformanceMode
<1> QED
  BY <1>5, <1>6, <1>7, <1>8, <1>9, <1>10, <1>11, <1>12, <1>13, <1>14, <1>15, <1>16,
     <1>17, <1>18, <1>19, <1>20 DEF Next

\* Whatever is called, in any mode, and wherever a save stops: a key file never
\* wraps another key than the one its account list is encrypted with.
THEOREM KeysWrapped == Spec => []WrapsLocalKey
<1>1. Init => WrapsLocalKey
  BY DEF Init, WrapsLocalKey, NoClient, NewClient, Left, NoKeyData
<1> QED
  BY <1>1, InitType, NextType, NextWraps, PTL DEF Spec

(***************************************************************************)
(* What a completed save put into a slot opens there and is restored by a  *)
(* load, and all accounts of a client carry its local key: for clients     *)
(* that are not switched to performance mode, do not name another key file *)
(* when saving and do not call LoadTData on an object (Plain).  The main   *)
(* account is in the account list, unless LoadTData is called on an        *)
(* object.  Indices are distinct and a save that reports success saved     *)
(* every account, if account lists left by other programs have no gaps     *)
(* either (Undisturbed). The uses that are excluded have counterexamples.  *)
(***************************************************************************)

Plain == Uses \cap {"performance", "keyFile", "reload"} = {}

(***************************************************************************)
(* The client                                                              *)
(***************************************************************************)

\* The passcode in force wraps the local key, and all accounts carry it.
Keyed(c) ==
  /\ Wrapped(c)
  /\ c.wrap.pass = c.passcode
  /\ \A i \in DOMAIN c.accounts : c.accounts[i].localKey = c.localKey

\* An account's files are those its client looks for when loading its index.
Named(c) ==
  \A i \in DOMAIN c.accounts :
    c.accounts[i].dataName = ComposeDataString(c.keyFile, c.accounts[i].index)

\* Two clients differ in their accounts at most, as far as keys go.
SameKeys(c, d) ==
  /\ d.localKey = c.localKey
  /\ d.wrap = c.wrap
  /\ d.passcode = c.passcode
  /\ d.keyFile = c.keyFile

ClientInv ==
  /\ perf = FALSE
  /\ client.isLoaded \/ pc \in SaveStages \cup {"loading"} => Keyed(client)
  /\ Named(client)

\* __generateLocalKey, outside performance mode, rekeys every account.
LEMMA GenerateLocalKeyKeys ==
  ASSUME NEW c, ClientOK(c), Named(c), ~perf, NEW key \in RandomKeys,
         NEW d, d = GenerateLocalKey(c, key)
  PROVE  Keyed(d) /\ Named(d)
<1>1. c \in ClientType /\ c.accounts \in Seq(AccountType)
  BY DEF ClientOK, ClientType
<1>2. PICK accounts : accounts = [i \in DOMAIN c.accounts |->
                                    [c.accounts[i] EXCEPT !.localKey = key]]
  OBVIOUS
<1>3. /\ DOMAIN accounts = DOMAIN c.accounts
      /\ \A i \in DOMAIN accounts :
           /\ accounts[i].localKey = key
           /\ accounts[i].dataName = c.accounts[i].dataName
           /\ accounts[i].index = c.accounts[i].index
  <2>1. \A i \in DOMAIN c.accounts : c.accounts[i] \in AccountType
    BY <1>1
  <2> QED
    BY <1>2, <2>1 DEF AccountType
<1>4. d = [c EXCEPT !.localKey = key, !.isLoaded = TRUE,
                    !.wrap = [pass |-> c.passcode, key |-> key],
                    !.accounts = accounts]
  BY <1>2 DEF GenerateLocalKey
<1>5. /\ d.localKey = key
      /\ d.wrap = [pass |-> c.passcode, key |-> key]
      /\ d.accounts = accounts
      /\ d.passcode = c.passcode
      /\ d.keyFile = c.keyFile
  BY <1>1, <1>4 DEF ClientType
<1> QED
  BY <1>3, <1>5, ConstantsAssumption DEF ConstantsAssumption, Keyed, Wrapped, Named

\* A new account joins under the client's key and name.
LEMMA NewAccountKeys ==
  ASSUME NEW c, ClientOK(c), Named(c), NEW user \in Users, NEW index \in Indices,
         NEW d, SameKeys(c, d),
         d.accounts = Append(c.accounts, NewAccount(c, user, index))
  PROVE  Named(d) /\ (Keyed(c) => Keyed(d))
<1>1. c \in ClientType /\ c.accounts \in Seq(AccountType) /\ Len(c.accounts) \in Nat
  BY DEF ClientOK, ClientType
<1>2. PICK a \in AccountType : a = NewAccount(c, user, index)
  BY NewAccountType
<1>3. PICK accounts \in Seq(AccountType) :
        /\ accounts = Append(c.accounts, a)
        /\ Len(accounts) = Len(c.accounts) + 1
        /\ \A i \in 1 .. Len(c.accounts) : accounts[i] = c.accounts[i]
        /\ accounts[Len(c.accounts) + 1] = a
  <2>1. /\ Append(c.accounts, a) \in Seq(AccountType)
        /\ Len(Append(c.accounts, a)) = Len(c.accounts) + 1
        /\ \A i \in 1 .. Len(c.accounts) : Append(c.accounts, a)[i] = c.accounts[i]
        /\ Append(c.accounts, a)[Len(c.accounts) + 1] = a
    BY <1>1, AppendProperties
  <2> QED
    BY <2>1
<1>4. d.accounts = accounts
  BY <1>2, <1>3
<1>5. /\ a.localKey = c.localKey
      /\ a.dataName = ComposeDataString(c.keyFile, a.index)
  BY <1>2 DEF NewAccount
<1>6. \A i \in DOMAIN accounts :
        (i \in DOMAIN c.accounts /\ accounts[i] = c.accounts[i]) \/ accounts[i] = a
  <2>1. DOMAIN accounts = 1 .. Len(accounts) /\ DOMAIN c.accounts = 1 .. Len(c.accounts)
    BY <1>1
  <2> QED
    BY <1>1, <1>3, <2>1
<1> QED
  BY <1>4, <1>5, <1>6 DEF Named, Keyed, Wrapped, SameKeys

\* A save that names no key file renames nothing.
LEMMA NoRename ==
  ASSUME NEW c, NEW i
  PROVE  /\ RenameAccount(c, i, NoArg) = c
         /\ WriteName(c.accounts[i], NoArg) = c.accounts[i].dataName
  BY DEF RenameAccount, WriteName, Renamed

\* SaveTData goes to the files with a client whose accounts carry its key.
LEMMA PreparedKeys ==
  ASSUME Plain, ClientOK(client), ClientInv, NEW f \in Folders,
         NEW p \in Passcodes \cup {NoArg}, NEW k \in SaveKeyFiles,
         NEW key \in RandomKeys, NEW d, d = Prepared(f, p, k, key)
  PROVE  Keyed(d) /\ Named(d) /\ k = NoArg
<1>1. k = NoArg
  BY DEF SaveKeyFiles, Plain
<1>2. PICK c0 : c0 = [client EXCEPT !.keyFile = IF k = NoArg THEN @ ELSE k,
                                    !.basePath = IF @ = NoFolder THEN f ELSE @]
  OBVIOUS
<1>3. PICK c1 : c1 = IF p # NoArg /\ p # c0.passcode
                     THEN [c0 EXCEPT !.passcode = p, !.isLoaded = FALSE] ELSE c0
  OBVIOUS
<1>4. d = IF c1.isLoaded THEN c1 ELSE GenerateLocalKey(c1, key)
  BY <1>2, <1>3 DEF Prepared
<1>5. /\ ClientOK(c0)
      /\ c0.accounts = client.accounts
      /\ c0.localKey = client.localKey
      /\ c0.wrap = client.wrap
      /\ c0.passcode = client.passcode
      /\ c0.keyFile = client.keyFile
      /\ c0.isLoaded = client.isLoaded
  BY <1>1, <1>2 DEF ClientOK, ClientType
<1>6. Named(c0) /\ (c0.isLoaded => Keyed(c0))
  BY <1>5 DEF ClientInv, Named, Keyed, Wrapped
<1>7. ClientOK(c1) /\ Named(c1) /\ (c1.isLoaded => Keyed(c1))
  BY <1>3, <1>5, <1>6 DEF ClientOK, ClientType, Named
<1> QED
  BY <1>1, <1>4, <1>7, GenerateLocalKeyKeys DEF ClientInv

\* A load that gets to its loop has taken the key over with its passcode.
LEMMA LoadKeyDataKeys ==
  ASSUME NEW c, ClientOK(c), ~c.isLoaded, LoadKeyData(c, TRUE)
  PROVE  /\ client'.isLoaded \/ pc' \in SaveStages \cup {"loading"} => Keyed(client')
         /\ Named(client')
<1> DEFINE data == keyData[<<c.basePath, c.keyFile>>]
<1>1. c \in ClientType
  BY DEF ClientOK
<1>2. PICK cleared : cleared = [c EXCEPT !.accounts = <<>>,
         !.mainAccount = IF @ = NoMain THEN @ ELSE StaleMain]
  OBVIOUS
<1>3. PICK unlocked : unlocked = [cleared EXCEPT !.localKey = data.wrapped,
         !.wrap = [pass |-> data.pass, key |-> data.wrapped]]
  OBVIOUS
<1>4. \/ client' = NoClient /\ pc' = "none"
      \/ /\ client' = unlocked
         /\ data.wrapped # NoKey
         /\ data.pass = c.passcode
  BY <1>2, <1>3 DEF LoadKeyData, LoadFails
<1>5. /\ unlocked.accounts = <<>>
      /\ unlocked.passcode = c.passcode
      /\ unlocked.localKey = data.wrapped
      /\ unlocked.wrap = [pass |-> data.pass, key |-> data.wrapped]
  BY <1>1, <1>2, <1>3 DEF ClientType
<1>6. Named(NoClient) /\ ~NoClient.isLoaded
  BY DEF Named, NoClient, NewClient
<1> QED
  BY <1>4, <1>5, <1>6 DEF Keyed, Wrapped, Named, SaveStages

NoArgInv == pc \in SaveStages => job.arg = NoArg

\* No save names another key file.
LEMMA NextNoArg == Plain /\ TypeInv /\ NoArgInv /\ [Next]_vars => NoArgInv'
<1> SUFFICES ASSUME Plain, TypeInv, NoArgInv, [Next]_vars
             PROVE  NoArgInv'
  OBVIOUS
<1>1. ASSUME NEW f \in Folders, NEW p \in Passcodes \cup {NoArg},
             NEW k \in SaveKeyFiles, SaveTData(f, p, k)
      PROVE  NoArgInv'
  BY <1>1, ZenonT(40) DEF SaveTData, Plain, SaveKeyFiles, NoArgInv, NoJob
<1>2. CASE pc' \notin SaveStages
  BY <1>2 DEF NoArgInv
<1>3. CASE pc \in SaveStages /\ job'.arg = job.arg
  BY <1>3 DEF NoArgInv
<1>4. CASE OpenFile \/ WriteMap \/ WriteMtpConfig \/ WriteMtpData
  BY <1>3, <1>4
  DEF OpenFile, WriteMap, WriteMtpConfig, WriteMtpData, FileClosed, SaveStages, TypeInv,
      PlaceOK, JobType
<1>5. CASE UNCHANGED <<pc, job>>
  BY <1>5 DEF NoArgInv
<1>6. ASSUME NEW c, NEW ctor, LoadKeyData(c, ctor) \/ LoadFails(c, ctor)
      PROVE  NoArgInv'
  BY <1>2, <1>6 DEF LoadKeyData, LoadFails, SaveStages
<1>7. CASE LoadAccount \/ FinishLoad
  BY <1>2, <1>6, <1>7 DEF LoadAccount, FinishLoad, SaveStages
<1>8. ASSUME NEW f, NEW p, NEW k, Open(f, p, k) \/ LoadTData(f, p, k)
      PROVE  NoArgInv'
  BY <1>6, <1>8 DEF Open, LoadTData
<1>9. CASE Drop \/ Crash \/ WriteKeyData \/ SaveFails
  BY <1>2, <1>9 DEF Drop, Crash, WriteKeyData, SaveFails, SaveStages
<1>10. ASSUME NEW u, NEW p, NEW k,
              \/ Create(p, k)
              \/ CreateFromSession(u)
              \/ AddAccount(u)
              \/ PerformanceMode(u)
              \/ SaveWithoutFolder(k)
       PROVE  NoArgInv'
  BY <1>2, <1>5, <1>10
  DEF Create, CreateFromSession, AddAccount, PerformanceMode, SaveWithoutFolder, SaveStages
<1> QED
  BY <1>1, <1>4, <1>5, <1>7, <1>8, <1>9, <1>10 DEF Next, vars

\* Every step keeps the accounts under the key and the name of their client.
LEMMA NextKeys == Plain /\ TypeInv /\ NoArgInv /\ ClientInv /\ [Next]_vars => ClientInv'
<1> SUFFICES ASSUME Plain, TypeInv, NoArgInv, ClientInv, [Next]_vars
             PROVE  ClientInv'
  OBVIOUS
<1>0. ClientOK(client) /\ client \in ClientType
  BY DEF TypeInv, ClientOK
<1>1. CASE /\ UNCHANGED <<perf, client>>
           /\ client.isLoaded \/ pc \in SaveStages \cup {"loading"}
  BY <1>1 DEF ClientInv
<1>2. CASE perf' = FALSE /\ Keyed(client') /\ Named(client')
  BY <1>2 DEF ClientInv, Keyed, Wrapped, Named
<1>3. CASE perf' = FALSE /\ pc' \in {"none", "idle"} /\ \E p, k : client' = NewClient(p, k)
  BY <1>3 DEF ClientInv, Named, NewClient, SaveStages
<1>4. ASSUME NEW p \in Passcodes, NEW k \in KeyFiles, Create(p, k)
      PROVE  ClientInv'
  BY <1>3, <1>4 DEF Create, ClientInv
<1>5. ASSUME NEW u \in Users, CreateFromSession(u)
      PROVE  ClientInv'
  <2>1. PICK key \in RandomKeys :
          client' = AddSingleAccount(GenerateLocalKey(NoClient, key), u)
    BY <1>5 DEF CreateFromSession, FreshKeys
  <2>2. ClientOK(NoClient) /\ NoClient.accounts = <<>> /\ Named(NoClient)
    BY NewClientType, ConstantsAssumption DEF NoClient, NewClient, Named, ConstantsAssumption
  <2>3. PICK c : c = GenerateLocalKey(NoClient, key)
    OBVIOUS
  <2>4. ClientOK(c) /\ Keyed(c) /\ Named(c) /\ Len(c.accounts) = 0
    BY <2>2, <2>3, GenerateLocalKeyType, GenerateLocalKeyKeys, EmptySeq DEF ClientInv
  <2>5. Len(c.accounts) \in Indices
    BY <2>4, ConstantsAssumption DEF Indices, ConstantsAssumption
  <2>6. /\ client'.accounts = Append(c.accounts, NewAccount(c, u, Len(c.accounts)))
        /\ SameKeys(c, client')
    BY <2>1, <2>3, <2>4 DEF AddSingleAccount, ClientOK, ClientType, SameKeys
  <2>7. Named(client') /\ Keyed(client')
    BY <2>4, <2>5, <2>6, NewAccountKeys
  <2> QED
    BY <1>2, <1>5, <2>7 DEF CreateFromSession, ClientInv
<1>6. ASSUME NEW u \in Users, AddAccount(u)
      PROVE  ClientInv'
  <2>1. Len(client.accounts) \in Indices
    <3>1. Len(client.accounts) \in Nat
      BY <1>0 DEF ClientType
    <3> QED
      BY <1>6, <3>1, ConstantsAssumption DEF AddAccount, Indices, ConstantsAssumption
  <2>2. /\ client'.accounts =
             Append(client.accounts, NewAccount(client, u, Len(client.accounts)))
        /\ SameKeys(client, client')
        /\ client'.isLoaded = client.isLoaded
    BY <1>0, <1>6 DEF AddAccount, AddSingleAccount, ClientType, SameKeys
  <2>3. Named(client') /\ (Keyed(client) => Keyed(client'))
    BY <1>0, <2>1, <2>2, NewAccountKeys DEF ClientInv
  <2> QED
    BY <1>6, <2>2, <2>3 DEF AddAccount, ClientInv, Keyed, Wrapped, Named, SaveStages
<1>7. CASE Drop
  BY <1>3, <1>7 DEF Drop, NoClient, ClientInv
<1>8. ASSUME NEW f \in Folders, NEW p \in Passcodes, NEW k \in KeyFiles, Open(f, p, k)
      PROVE  ClientInv'
  <2>1. PICK c : c = [NewClient(p, k) EXCEPT !.basePath = f]
    OBVIOUS
  <2>2. ClientOK(c) /\ ~c.isLoaded
    BY <2>1, NewClientType DEF ClientOK, ClientType, NewClient
  <2>3. LoadKeyData(c, TRUE) /\ perf' = perf
    BY <1>8, <2>1 DEF Open
  <2> QED
    BY <2>2, <2>3, LoadKeyDataKeys DEF ClientInv, Keyed, Wrapped, Named
<1>9. CASE LoadAccount
  <2>1. CASE client' = client
    BY <1>1, <1>9, <2>1 DEF LoadAccount
  <2>2. CASE client' # client
    <3> DEFINE index == LoadedData.indices[job.pos]
               name  == ComposeDataString(client.keyFile, index)
               user  == mtpFile[<<client.basePath, name>>].user
    <3>1. /\ index \in Indices
          /\ Opens(client.basePath, name, client.localKey)
          /\ client' = [client EXCEPT !.accounts =
                          Append(@, NewAccount(client, user, index))]
      BY <1>9, <2>2 DEF LoadAccount
    <3>2. <<client.basePath, name>> \in Files /\ client.localKey # NoKey
      BY <1>0, <1>9, <3>1
      DEF LoadAccount, TypeInv, PlaceOK, RunBounded, Files, DataNames, ComposeDataString,
          ClientType
    <3>3. user \in Users
      BY <3>1, <3>2 DEF TypeInv, FilesOK, MtpType, NoMtp, Opens
    <3> HIDE DEF user, index
    <3>4. /\ client'.accounts = Append(client.accounts, NewAccount(client, user, index))
          /\ SameKeys(client, client')
      BY <1>0, <3>1 DEF ClientType, SameKeys
    <3>5. Named(client') /\ (Keyed(client) => Keyed(client'))
      BY <1>0, <3>1, <3>3, <3>4, NewAccountKeys DEF ClientInv
    <3>6. Keyed(client)
      BY <1>9 DEF LoadAccount, ClientInv
    <3> QED
      BY <1>2, <1>9, <3>5, <3>6 DEF LoadAccount, ClientInv
  <2> QED
    BY <2>1, <2>2
<1>10. CASE FinishLoad
  <2>1. Keyed(client)
    BY <1>10 DEF FinishLoad, ClientInv
  <2>2. CASE client' = NoClient /\ pc' = "none"
    BY <1>3, <1>10, <2>2 DEF FinishLoad, NoClient, ClientInv
  <2>3. CASE client' = client
    BY <1>2, <1>10, <2>1, <2>3 DEF FinishLoad, ClientInv
  <2>4. CASE \E main, active : client' = [client EXCEPT !.activeIndex = active,
                               !.mainAccount = main, !.isLoaded = TRUE]
    <3>1. /\ client'.accounts = client.accounts
          /\ client'.localKey = client.localKey
          /\ client'.wrap = client.wrap
          /\ client'.passcode = client.passcode
          /\ client'.keyFile = client.keyFile
      BY <1>0, <2>4 DEF ClientType
    <3>2. Keyed(client') /\ Named(client')
      BY <2>1, <3>1 DEF ClientInv, Keyed, Wrapped, Named
    <3> QED
      BY <1>2, <1>10, <3>2 DEF FinishLoad, ClientInv
  <2> QED
    BY <1>10, <2>2, <2>3, <2>4 DEF FinishLoad, LoadFails
<1>11. ASSUME NEW k \in SaveKeyFiles, SaveWithoutFolder(k)
       PROVE  ClientInv'
  <2>1. k = NoArg
    BY DEF Plain, SaveKeyFiles
  <2>2. client' = client
    BY <1>0, <1>11, <2>1 DEF SaveWithoutFolder, ClientType
  <2> QED
    BY <1>11, <2>2 DEF SaveWithoutFolder, ClientInv
<1>12. ASSUME NEW f \in Folders, NEW p \in Passcodes \cup {NoArg},
              NEW k \in SaveKeyFiles, SaveTData(f, p, k)
       PROVE  ClientInv'
  <2>0. PICK key \in RandomKeys : \E d :
          /\ d = Prepared(f, p, k, key)
          /\ client' = IF d.accounts = <<>> THEN d ELSE RenameAccount(d, 1, k)
    BY <1>12 DEF SaveTData, FreshKeys
  <2>1. PICK c :
          /\ c = Prepared(f, p, k, key)
          /\ client' = IF c.accounts = <<>> THEN c ELSE RenameAccount(c, 1, k)
    BY <2>0
  <2>2. Keyed(c) /\ Named(c) /\ k = NoArg
    BY <1>0, <2>1, PreparedKeys
  <2>3. client' = c
    BY <2>1, <2>2, NoRename
  <2> QED
    BY <1>2, <1>12, <2>2, <2>3 DEF SaveTData, ClientInv
<1>13. CASE OpenFile \/ WriteMap \/ WriteMtpConfig \/ UNCHANGED vars
  BY <1>13
  DEF OpenFile, WriteMap, WriteMtpConfig, FileClosed, vars, ClientInv, Keyed, Wrapped,
      Named, SaveStages
<1>14. CASE WriteMtpData
  <2>1. client' = client
    <3>1. RenameAccount(client, job.pos + 1, job.arg) = client
      BY <1>14, NoRename DEF WriteMtpData, FileClosed, SaveStages, NoArgInv
    <3> QED
      BY <1>14, <3>1 DEF WriteMtpData
  <2> QED
    BY <1>14, <2>1
    DEF WriteMtpData, FileClosed, SaveStages, ClientInv, Keyed, Wrapped, Named
<1>15. CASE WriteKeyData \/ SaveFails
  BY <1>15
  DEF WriteKeyData, SaveFails, FileClosed, SaveStages, ClientInv, Keyed, Wrapped, Named
<1>16. CASE Crash
  BY <1>3, <1>16 DEF Crash, NoClient
<1>17. ASSUME NEW b \in BOOLEAN, PerformanceMode(b)
       PROVE  ClientInv'
  BY <1>17 DEF PerformanceMode, Plain
<1>18. ASSUME NEW f \in Folders \cup {NoFolder}, NEW p \in Passcodes \cup {NoArg},
              NEW k \in KeyFiles \cup {NoArg}, LoadTData(f, p, k)
       PROVE  ClientInv'
  BY <1>18 DEF LoadTData, Plain
<1> QED
  BY <1>4, <1>5, <1>6, <1>7, <1>8, <1>9, <1>10, <1>11, <1>12, <1>13, <1>14, <1>15,
     <1>16, <1>17, <1>18 DEF Next

(***************************************************************************)
(* The files of a save under way                                           *)
(***************************************************************************)

AccountFile(i) ==
  <<job.folder, ComposeDataString(client.keyFile, client.accounts[i].index)>>

Stored(i) ==
  /\ mapFile[AccountFile(i)] = client.localKey
  /\ mtpFile[AccountFile(i)].key = client.localKey
  /\ mtpFile[AccountFile(i)].user = client.accounts[i].user

\* The accounts before the current one are on disk, the current one as far as
\* the stage says, unless two accounts share an index and so their files.
Progress ==
  Distinct(client.accounts) =>
    /\ \A i \in DOMAIN client.accounts : i < job.pos => Stored(i)
    /\ pc \in {"config", "mtp"} => mapFile[CurrentFile] = client.localKey
    /\ pc = "key" => Stored(job.pos)

SaveInv ==
  pc \in SaveStages =>
    /\ CurrentFile = AccountFile(job.pos)
    /\ saved[CurrentSlot].accounts = <<>>
    /\ pc = "key" => job.pos = Len(client.accounts)
    /\ Progress

\* Accounts with different indices have different files.
LEMMA FilesApart ==
  ASSUME TypeInv, pc \in SaveStages, Distinct(client.accounts),
         NEW i \in DOMAIN client.accounts, i # job.pos
  PROVE  AccountFile(i) # AccountFile(job.pos)
<1>1. job.pos \in DOMAIN client.accounts
  BY DEF TypeInv, PlaceOK
<1>2. client.accounts[i].index # client.accounts[job.pos].index
  BY <1>1 DEF Distinct
<1> QED
  BY <1>2 DEF AccountFile, ComposeDataString

\* A save in progress, one file further.
LEMMA NextSave ==
  Plain /\ TypeInv /\ NoArgInv /\ ClientInv /\ SaveInv /\ [Next]_vars => SaveInv'
<1> SUFFICES ASSUME Plain, TypeInv, NoArgInv, ClientInv, SaveInv, [Next]_vars
             PROVE  SaveInv'
  OBVIOUS
<1>0. /\ ClientOK(client)
      /\ client \in ClientType
      /\ Len(client.accounts) \in Nat
      /\ DOMAIN client.accounts = 1 .. Len(client.accounts)
  BY DEF TypeInv, ClientOK, ClientType
<1>1. pc \in SaveStages =>
        /\ job \in JobType
        /\ job.pos \in DOMAIN client.accounts
        /\ Current.localKey = client.localKey
        /\ CurrentFile \in Files
  BY <1>0
  DEF TypeInv, PlaceOK, JobType, ClientInv, Keyed, Current, CurrentFile, Files
<1>2. CASE pc' \notin SaveStages
  BY <1>2 DEF SaveInv
<1>3. ASSUME NEW f \in Folders, NEW p \in Passcodes \cup {NoArg},
             NEW k \in SaveKeyFiles, SaveTData(f, p, k)
      PROVE  SaveInv'
  <2>1. PICK key \in FreshKeys :
          LET c    == Prepared(f, p, k, key)
              slot == <<f, c.keyFile>>
          IN  IF c.accounts = <<>>
              THEN client' = c /\ UNCHANGED <<pc, job, saved>>
              ELSE /\ client' = RenameAccount(c, 1, k)
                   /\ pc' = "map"
                   /\ job' = [NoJob EXCEPT
                                !.folder = f, !.arg = k, !.pos = 1,
                                !.name = WriteName(c.accounts[1], k),
                                !.before = ReadableIndices(slot, c.localKey)]
                   /\ saved' = [saved EXCEPT ![slot] = NotSaved]
    BY <1>3 DEF SaveTData
  <2>2. PICK c : c = Prepared(f, p, k, key)
    OBVIOUS
  <2>3. ClientOK(c) /\ Named(c) /\ k = NoArg
    BY <1>0, <2>2, PreparedType, PreparedKeys DEF FreshKeys
  <2>4. CASE c.accounts = <<>>
    BY <1>2, <1>3, <2>1, <2>2, <2>4 DEF SaveTData, SaveStages
  <2>5. CASE c.accounts # <<>>
    <3>1. /\ client' = c
          /\ pc' = "map"
          /\ job' = [NoJob EXCEPT
                       !.folder = f, !.arg = k, !.pos = 1,
                       !.name = c.accounts[1].dataName,
                       !.before = ReadableIndices(<<f, c.keyFile>>, c.localKey)]
          /\ saved' = [saved EXCEPT ![<<f, c.keyFile>>] = NotSaved]
      <4>1. /\ client' = RenameAccount(c, 1, NoArg)
            /\ pc' = "map"
            /\ job' = [NoJob EXCEPT
                         !.folder = f, !.arg = k, !.pos = 1,
                         !.name = WriteName(c.accounts[1], NoArg),
                         !.before = ReadableIndices(<<f, c.keyFile>>, c.localKey)]
            /\ saved' = [saved EXCEPT ![<<f, c.keyFile>>] = NotSaved]
        BY <2>1, <2>2, <2>3, <2>5
      <4> QED
        BY <4>1, NoRename
    <3>2. 1 \in DOMAIN c.accounts /\ DOMAIN c.accounts = 1 .. Len(c.accounts)
      <4>1. c.accounts \in Seq(AccountType)
        BY <2>3 DEF ClientOK, ClientType
      <4> QED
        BY <2>5, <4>1, EmptySeq
    <3>3. job'.folder = f /\ job'.pos = 1 /\ job'.name = c.accounts[1].dataName
      BY <3>1 DEF NoJob
    <3>4. CurrentFile' = AccountFile(job.pos)'
      BY <2>3, <3>1, <3>2, <3>3 DEF CurrentFile, AccountFile, Named
    <3>5. saved'[CurrentSlot'].accounts = <<>>
      <4>1. <<f, c.keyFile>> \in Slots
        BY <2>3 DEF ClientOK, ClientType, Slots
      <4> QED
        BY <3>1, <3>3, <4>1 DEF CurrentSlot, NotSaved, TypeInv, SlotsOK
    <3>6. Progress'
      BY <3>1, <3>2, <3>3 DEF Progress
    <3> QED
      BY <3>1, <3>4, <3>5, <3>6 DEF SaveInv
  <2> QED
    BY <2>4, <2>5
<1>4. ASSUME pc \in SaveStages, UNCHANGED <<client, saved>>,
             UNCHANGED <<job.folder, job.pos, job.name>>
      PROVE  /\ CurrentFile' = CurrentFile
             /\ CurrentSlot' = CurrentSlot
             /\ \A i : AccountFile(i)' = AccountFile(i)
             /\ CurrentFile = AccountFile(job.pos)
             /\ saved'[CurrentSlot'].accounts = <<>>
             /\ Progress
  BY <1>4 DEF SaveInv, CurrentFile, CurrentSlot, AccountFile
<1>5. ASSUME pc \in SaveStages, Distinct(client.accounts),
             NEW i \in DOMAIN client.accounts, i < job.pos
      PROVE  AccountFile(i) # CurrentFile /\ Stored(i)
  <2>1. i # job.pos
    BY <1>0, <1>1, <1>5
  <2> QED
    BY <1>5, <2>1, FilesApart DEF SaveInv, Progress
<1>6. CASE OpenFile
  <2>1. /\ pc \in SaveStages
        /\ UNCHANGED <<client, saved, pc>>
        /\ UNCHANGED <<job.folder, job.pos, job.name>>
    BY <1>1, <1>6 DEF OpenFile, JobType
  <2>2. Progress'
    <3> SUFFICES ASSUME Distinct(client.accounts)
                 PROVE  /\ \A i \in DOMAIN client.accounts : i < job.pos => Stored(i)'
                        /\ pc \in {"config", "mtp"} => mapFile'[CurrentFile] = client.localKey
                        /\ pc = "key" => Stored(job.pos)'
      BY <1>4, <2>1 DEF Progress, Stored
    <3>1. ASSUME NEW i \in DOMAIN client.accounts, i < job.pos
          PROVE  Stored(i)'
      BY <1>4, <1>5, <1>6, <2>1, <3>1 DEF OpenFile, Stored, TypeInv, FilesOK
    <3>2. pc \in {"config", "mtp"} => mapFile'[CurrentFile] = client.localKey
      BY <1>4, <1>6, <2>1 DEF OpenFile, Progress
    <3>3. pc = "key" => Stored(job.pos)'
      BY <1>4, <1>6, <2>1 DEF OpenFile, Progress, Stored
    <3> QED
      BY <3>1, <3>2, <3>3
  <2> QED
    BY <1>4, <2>1, <2>2 DEF SaveInv
<1>7. CASE WriteMap
  <2>1. /\ pc = "map"
        /\ pc' = "config"
        /\ UNCHANGED <<client, saved, mtpFile>>
        /\ UNCHANGED <<job.folder, job.pos, job.name>>
        /\ mapFile' = [mapFile EXCEPT ![CurrentFile] = client.localKey]
    BY <1>1, <1>7 DEF WriteMap, FileClosed, SaveStages, JobType
  <2>2. mapFile'[CurrentFile] = client.localKey
    BY <1>1, <2>1 DEF TypeInv, FilesOK, SaveStages
  <2>3. ASSUME Distinct(client.accounts), NEW i \in DOMAIN client.accounts, i < job.pos
        PROVE  Stored(i)'
    BY <1>4, <1>5, <2>1, <2>3 DEF Stored, TypeInv, FilesOK, SaveStages
  <2>4. Progress'
    BY <1>4, <2>1, <2>2, <2>3 DEF Progress, SaveStages
  <2> QED
    BY <1>4, <2>1, <2>4 DEF SaveInv, SaveStages
<1>8. CASE WriteMtpConfig
  <2>1. /\ pc = "config"
        /\ pc' = "mtp"
        /\ UNCHANGED <<client, saved, mapFile, mtpFile>>
        /\ UNCHANGED <<job.folder, job.pos, job.name>>
    BY <1>1, <1>8 DEF WriteMtpConfig, FileClosed, SaveStages, JobType, disk
  <2>2. Progress'
    BY <1>4, <2>1 DEF Progress, Stored, SaveStages
  <2> QED
    BY <1>4, <2>1, <2>2 DEF SaveInv, SaveStages
<1>9. CASE WriteMtpData
  <2>1. /\ pc = "mtp"
        /\ job \in JobType
        /\ job.pos \in DOMAIN client.accounts
        /\ UNCHANGED <<saved, mapFile>>
        /\ CurrentFile = AccountFile(job.pos)
        /\ mtpFile' = [mtpFile EXCEPT ![CurrentFile] =
                         [key |-> client.localKey, user |-> client.accounts[job.pos].user]]
    BY <1>1, <1>9 DEF WriteMtpData, FileClosed, SaveStages, SaveInv, Current
  <2>2. UNCHANGED client
    BY <1>9, NoRename DEF WriteMtpData, FileClosed, SaveStages, NoArgInv
  <2>3. job'.folder = job.folder
    BY <1>9, <2>1 DEF WriteMtpData, JobType
  <2>4. CurrentSlot' = CurrentSlot /\ saved'[CurrentSlot'].accounts = <<>>
    BY <2>1, <2>2, <2>3 DEF CurrentSlot, SaveInv, SaveStages
  <2>5. \A i : AccountFile(i)' = AccountFile(i)
    BY <2>2, <2>3 DEF AccountFile
  <2>6. ASSUME Distinct(client.accounts), NEW i \in DOMAIN client.accounts, i <= job.pos
        PROVE  Stored(i)'
    <3>1. CASE i = job.pos
      <4>1. mapFile[CurrentFile] = client.localKey
        BY <2>1, <2>6 DEF SaveInv, Progress, SaveStages
      <4> QED
        BY <1>1, <2>1, <2>2, <2>5, <3>1, <4>1 DEF Stored, TypeInv, FilesOK, SaveStages
    <3>2. CASE i # job.pos
      <4>1. i < job.pos
        BY <1>0, <2>1, <2>6, <3>2
      <4> QED
        BY <1>5, <2>1, <2>2, <2>5, <2>6, <4>1 DEF Stored, TypeInv, FilesOK, SaveStages
    <3> QED
      BY <3>1, <3>2
  <2>7. CASE job.pos < Len(client.accounts)
    <3>1. /\ pc' = "map"
          /\ job'.pos = job.pos + 1
          /\ job'.name = WriteName(client.accounts[job.pos + 1], NoArg)
      BY <1>9, <2>1, <2>7 DEF WriteMtpData, JobType, NoArgInv, SaveStages
    <3>2. CurrentFile' = AccountFile(job.pos)'
      <4>1. job.pos + 1 \in DOMAIN client.accounts
        BY <1>0, <2>1, <2>7
      <4>2. job'.name = client.accounts[job.pos + 1].dataName
        BY <3>1, NoRename
      <4> QED
        BY <2>2, <2>3, <3>1, <4>1, <4>2 DEF CurrentFile, AccountFile, ClientInv, Named
    <3>3. Progress'
      <4>1. \A i \in DOMAIN client.accounts : i < job'.pos => i <= job.pos
        BY <1>0, <2>1, <3>1
      <4> QED
        BY <2>2, <2>6, <3>1, <4>1 DEF Progress
    <3> QED
      BY <2>4, <3>1, <3>2, <3>3 DEF SaveInv
  <2>8. CASE ~(job.pos < Len(client.accounts))
    <3>1. /\ pc' = "key"
          /\ job'.pos = job.pos
          /\ job'.name = job.name
          /\ job.pos = Len(client.accounts)
      BY <1>0, <1>9, <2>1, <2>8 DEF WriteMtpData, JobType
    <3>2. CurrentFile' = AccountFile(job.pos)'
      BY <2>1, <2>3, <2>5, <3>1 DEF CurrentFile
    <3>3. Progress'
      <4>1. \A i \in DOMAIN client.accounts : i < job.pos => i <= job.pos
        BY <1>0, <2>1
      <4>2. job.pos <= job.pos
        BY <1>0, <2>1
      <4> QED
        BY <2>1, <2>2, <2>6, <3>1, <4>1, <4>2 DEF Progress
    <3> QED
      BY <2>2, <2>4, <3>1, <3>2, <3>3 DEF SaveInv
  <2> QED
    BY <2>7, <2>8
<1>10. CASE UNCHANGED vars
  BY <1>10
  DEF vars, SaveInv, Progress, Stored, AccountFile, CurrentFile, CurrentSlot
<1>11. ASSUME pc \in {"none", "idle", "loading"}, pc' \in SaveStages
       PROVE  \E f \in Folders, p \in Passcodes \cup {NoArg}, k \in SaveKeyFiles :
                SaveTData(f, p, k)
  <2> USE DEF SaveStages
  <2>1. ASSUME NEW c, NEW ctor, LoadKeyData(c, ctor) \/ LoadFails(c, ctor)
        PROVE  FALSE
    BY <1>11, <2>1 DEF LoadKeyData, LoadFails
  <2>2. ~(LoadAccount \/ FinishLoad)
    BY <1>11, <2>1 DEF LoadAccount, FinishLoad
  <2>3. \A f, p, k : ~(Open(f, p, k) \/ LoadTData(f, p, k))
    BY <2>1 DEF Open, LoadTData
  <2>4. ~(Drop \/ Crash \/ SaveFails \/ OpenFile \/ UNCHANGED vars)
    BY <1>11 DEF Drop, Crash, SaveFails, OpenFile, vars
  <2>5. ~(WriteMap \/ WriteMtpConfig \/ WriteMtpData \/ WriteKeyData)
    BY <1>11 DEF WriteMap, WriteMtpConfig, WriteMtpData, WriteKeyData, FileClosed
  <2>6. \A u, p, k : ~(\/ Create(p, k)
                      \/ CreateFromSession(u)
                      \/ AddAccount(u)
                      \/ PerformanceMode(u)
                      \/ SaveWithoutFolder(k))
    BY <1>11
    DEF Create, CreateFromSession, AddAccount, PerformanceMode, SaveWithoutFolder
  <2> QED
    BY <2>2, <2>3, <2>4, <2>5, <2>6 DEF Next
<1>12. ASSUME pc \in SaveStages, pc' \in SaveStages
       PROVE  OpenFile \/ WriteMap \/ WriteMtpConfig \/ WriteMtpData \/ UNCHANGED vars
  <2> USE DEF SaveStages
  <2>1. ~(LoadAccount \/ FinishLoad \/ Drop \/ Crash \/ SaveFails \/ WriteKeyData)
    BY <1>12 DEF LoadAccount, FinishLoad, Drop, Crash, SaveFails, WriteKeyData
  <2>2. \A f, p, k : ~(Open(f, p, k) \/ LoadTData(f, p, k) \/ SaveTData(f, p, k))
    BY <1>12, ZenonT(40) DEF Open, LoadTData, SaveTData
  <2>3. \A u, p, k : ~(\/ Create(p, k)
                      \/ CreateFromSession(u)
                      \/ AddAccount(u)
                      \/ PerformanceMode(u)
                      \/ SaveWithoutFolder(k))
    BY <1>12
    DEF Create, CreateFromSession, AddAccount, PerformanceMode, SaveWithoutFolder
  <2> QED
    BY <2>1, <2>2, <2>3 DEF Next
<1>13. pc \in {"none", "idle", "loading"} \cup SaveStages
  BY DEF TypeInv, PlaceOK, Places
<1> QED
  BY <1>2, <1>3, <1>6, <1>7, <1>8, <1>9, <1>10, <1>11, <1>12, <1>13

(***************************************************************************)
(* The slots                                                               *)
(***************************************************************************)

\* The files a slot's accounts are in.
SlotFile(s, i) == <<s[1], ComposeDataString(s[2], i)>>

\* A step that leaves a slot and its files alone leaves it intact.
LEMMA SlotFrame ==
  ASSUME TypeInv, NEW s \in Slots,
         UNCHANGED <<keyData[s], saved[s].pass, saved[s].accounts>>,
         \A i \in Indices : UNCHANGED <<mapFile[SlotFile(s, i)], mtpFile[SlotFile(s, i)]>>,
         SlotIntact(s)
  PROVE  SlotIntact(s)'
<1>1. PICK accounts \in Seq(EntryType) :
        accounts = saved[s].accounts /\ accounts = saved'[s].accounts
  BY DEF TypeInv, SlotsOK, SavedType
<1>2. ASSUME NEW i \in DOMAIN accounts
      PROVE  LET file == SlotFile(s, accounts[i].index)
             IN  mapFile'[file] = mapFile[file] /\ mtpFile'[file] = mtpFile[file]
  <2>1. accounts[i] \in EntryType
    BY <1>1
  <2> QED
    BY <2>1 DEF EntryType
<1>3. keyData'[s] = keyData[s] /\ saved'[s].pass = saved[s].pass
  OBVIOUS
<1> QED
  BY <1>1, <1>2, <1>3 DEF SlotIntact, Opens, SlotFile

\* The files of another slot are not those being written.
LEMMA OtherSlot ==
  ASSUME TypeInv, SaveInv, pc \in SaveStages, NEW s \in Slots, s # CurrentSlot, NEW i
  PROVE  SlotFile(s, i) # CurrentFile
  BY DEF SaveInv, AccountFile, SlotFile, ComposeDataString, CurrentSlot, Slots

\* Only a save under way touches a slot, its last file makes the slot whole.
LEMMA NextSlots ==
  /\ Plain /\ TypeInv /\ NoArgInv /\ ClientInv /\ SaveInv /\ SavedSlotsOpen
  /\ [Next]_vars
  => SavedSlotsOpen'
<1> SUFFICES ASSUME Plain, TypeInv, NoArgInv, ClientInv, SaveInv, SavedSlotsOpen,
                    [Next]_vars,
                    NEW s \in Slots,
                    saved'[s].accounts # <<>>, Distinct(saved'[s].accounts)
             PROVE  SlotIntact(s)'
  BY DEF SavedSlotsOpen
<1> USE DEF disk
<1>1. CASE UNCHANGED <<keyData, mapFile, mtpFile, saved>>
  BY <1>1, SlotFrame DEF SavedSlotsOpen
<1>2. ASSUME NEW f \in Folders, NEW p \in Passcodes \cup {NoArg},
             NEW k \in SaveKeyFiles, SaveTData(f, p, k)
      PROVE  SlotIntact(s)'
  <2>1. \/ saved' = saved
        \/ \E slot : saved' = [saved EXCEPT ![slot] = NotSaved]
    BY <1>2 DEF SaveTData
  <2>2. saved'[s] = saved[s]
    BY <2>1 DEF NotSaved, TypeInv, SlotsOK
  <2> QED
    BY <1>2, <2>2, SlotFrame DEF SaveTData, SavedSlotsOpen
<1>3. CASE OpenFile \/ WriteMap \/ WriteMtpConfig \/ WriteMtpData
  <2>1. pc \in SaveStages /\ saved' = saved
    BY <1>3
    DEF OpenFile, WriteMap, WriteMtpConfig, WriteMtpData, FileClosed, SaveStages
  <2>2. s # CurrentSlot
    BY <2>1 DEF SaveInv
  <2>3. keyData'[s] = keyData[s]
    BY <1>3, <2>2
    DEF OpenFile, WriteMap, WriteMtpConfig, WriteMtpData, TypeInv, SlotsOK
  <2>4. /\ mapFile' = mapFile \/ \E v : mapFile' = [mapFile EXCEPT ![CurrentFile] = v]
        /\ mtpFile' = mtpFile \/ \E v : mtpFile' = [mtpFile EXCEPT ![CurrentFile] = v]
    BY <1>3 DEF OpenFile, WriteMap, WriteMtpConfig, WriteMtpData
  <2>5. ASSUME NEW i \in Indices
        PROVE  UNCHANGED <<mapFile[SlotFile(s, i)], mtpFile[SlotFile(s, i)]>>
    <3>1. SlotFile(s, i) # CurrentFile
      BY <2>1, <2>2, OtherSlot
    <3>2. SlotFile(s, i) \in Files
      BY DEF SlotFile, Slots, Files, DataNames, ComposeDataString
    <3> QED
      BY <2>4, <3>1, <3>2 DEF TypeInv, FilesOK
  <2> QED
    BY <2>1, <2>3, <2>5, SlotFrame DEF SavedSlotsOpen
<1>4. CASE WriteKeyData
  <2>1. pc = "key" /\ pc \in SaveStages
    BY <1>4 DEF WriteKeyData, FileClosed, SaveStages
  <2>2. CASE s # CurrentSlot
    <3>1. UNCHANGED <<keyData[s], saved[s], mapFile, mtpFile>>
      BY <1>4, <2>2 DEF WriteKeyData, TypeInv, SlotsOK
    <3> QED
      BY <3>1, SlotFrame DEF SavedSlotsOpen
  <2>3. CASE s = CurrentSlot
    <3>1. keyData'[s] =
            [pass |-> client.wrap.pass, wrapped |-> client.wrap.key,
             infoKey |-> client.localKey, active |-> client.activeIndex,
             indices |-> [i \in DOMAIN client.accounts |-> client.accounts[i].index]]
      BY <1>4, <2>3 DEF WriteKeyData, TypeInv, SlotsOK
    <3>2. saved'[s] =
            [pass |-> client.passcode,
             accounts |-> [i \in DOMAIN client.accounts |->
                             [index |-> client.accounts[i].index,
                              user  |-> client.accounts[i].user]]]
      BY <1>4, <2>3 DEF WriteKeyData, TypeInv, SlotsOK
    <3>3. Keyed(client)
      BY <2>1 DEF ClientInv
    <3>4. /\ DOMAIN saved'[s].accounts = DOMAIN client.accounts
          /\ DOMAIN keyData'[s].indices = DOMAIN client.accounts
          /\ \A i \in DOMAIN client.accounts :
               /\ saved'[s].accounts[i].index = client.accounts[i].index
               /\ saved'[s].accounts[i].user = client.accounts[i].user
               /\ keyData'[s].indices[i] = client.accounts[i].index
          /\ Distinct(client.accounts)
      <4>1. PICK accounts : accounts = [i \in DOMAIN client.accounts |->
                             [index |-> client.accounts[i].index,
                              user  |-> client.accounts[i].user]]
        OBVIOUS
      <4>2. saved'[s].accounts = accounts
        BY <3>2, <4>1
      <4>3. PICK indices : indices = [i \in DOMAIN client.accounts |->
                                        client.accounts[i].index]
        OBVIOUS
      <4>4. keyData'[s].indices = indices
        BY <3>1, <4>3
      <4>5. Distinct(accounts)
        BY <4>2
      <4>6. /\ DOMAIN accounts = DOMAIN client.accounts
            /\ \A i \in DOMAIN client.accounts :
                 /\ accounts[i].index = client.accounts[i].index
                 /\ accounts[i].user = client.accounts[i].user
        BY <4>1
      <4>7. Distinct(client.accounts)
        BY <4>5, <4>6 DEF Distinct
      <4> QED
        BY <4>2, <4>3, <4>4, <4>6, <4>7
    <3>5. \A i \in DOMAIN client.accounts : Stored(i)
      <4>1. /\ Progress
            /\ job.pos = Len(client.accounts)
            /\ Len(client.accounts) \in Nat
            /\ DOMAIN client.accounts = 1 .. Len(client.accounts)
        BY <2>1 DEF SaveInv, TypeInv, ClientOK, ClientType
      <4>2. \A i \in DOMAIN client.accounts : i < job.pos \/ i = job.pos
        BY <4>1
      <4> QED
        BY <2>1, <3>4, <4>1, <4>2 DEF Progress
    <3>6. \A i \in DOMAIN client.accounts :
            SlotFile(s, client.accounts[i].index) = AccountFile(i)
      BY <2>3 DEF SlotFile, AccountFile, CurrentSlot
    <3>7. Len(keyData'[s].indices) = Len(saved'[s].accounts)
      <4>1. client.accounts \in Seq(AccountType)
        BY DEF TypeInv, ClientOK, ClientType
      <4> QED
        BY <3>1, <3>2, <4>1
    <3>8. /\ keyData'[s].pass = saved'[s].pass
          /\ keyData'[s].wrapped = client.localKey
          /\ keyData'[s].infoKey = client.localKey
          /\ client.localKey # NoKey
      BY <3>1, <3>2, <3>3 DEF Keyed, Wrapped
    <3>9. ASSUME NEW i \in DOMAIN client.accounts
          PROVE  LET file == SlotFile(s, saved'[s].accounts[i].index)
                 IN  /\ mapFile'[file] = client.localKey
                     /\ mtpFile'[file].key = client.localKey
                     /\ mtpFile'[file].user = saved'[s].accounts[i].user
      <4>1. SlotFile(s, saved'[s].accounts[i].index) = AccountFile(i)
        BY <3>4, <3>6
      <4>2. mapFile' = mapFile /\ mtpFile' = mtpFile
        BY <1>4 DEF WriteKeyData
      <4>3. /\ mapFile[AccountFile(i)] = client.localKey
            /\ mtpFile[AccountFile(i)].key = client.localKey
            /\ mtpFile[AccountFile(i)].user = client.accounts[i].user
        BY <3>5 DEF Stored
      <4> QED
        BY <3>4, <4>1, <4>2, <4>3
    <3> QED
      BY <3>4, <3>7, <3>8, <3>9 DEF SlotIntact, Opens, SlotFile
  <2> QED
    BY <2>2, <2>3
<1>5. ASSUME ~UNCHANGED <<keyData, mapFile, mtpFile, saved>>
      PROVE  \/ \E f \in Folders, p \in Passcodes \cup {NoArg}, k \in SaveKeyFiles :
                  SaveTData(f, p, k)
             \/ OpenFile \/ WriteMap \/ WriteMtpConfig \/ WriteMtpData \/ WriteKeyData
  BY <1>5
  DEF Next, vars, Create, CreateFromSession, AddAccount, PerformanceMode, Drop, Open,
      LoadTData, LoadAccount, FinishLoad, SaveWithoutFolder, SaveFails, Crash
<1> QED
  BY <1>1, <1>2, <1>3, <1>4, <1>5

\* A slot that SaveTData reported as saved opens and holds exactly the saved
\* accounts until the next save into it begins, whatever other calls, failed
\* saves and crashes happen -- for clients used plainly.
THEOREM SavedSlots == ASSUME Plain PROVE Spec => []SavedSlotsOpen
<1> DEFINE Inv == TypeInv /\ NoArgInv /\ ClientInv /\ SaveInv /\ SavedSlotsOpen
<1>1. Init => Inv
  <2> SUFFICES ASSUME Init PROVE Inv
    OBVIOUS
  <2>1. NoArgInv /\ ClientInv /\ SaveInv
    BY DEF Init, NoArgInv, ClientInv, SaveInv, Named, NoClient, NewClient, SaveStages
  <2>2. SavedSlotsOpen
    BY DEF Init, SavedSlotsOpen, NotSaved
  <2> QED
    BY <2>1, <2>2, InitType
<1>2. Inv /\ [Next]_vars => Inv'
  BY NextType, NextNoArg, NextKeys, NextSave, NextSlots
<1>3. Inv => SavedSlotsOpen
  OBVIOUS
<1> QED
  BY <1>1, <1>2, <1>3, PTL DEF Spec

\* Between calls every account of a plainly used client carries its local key.
THEOREM AccountsKeyed == ASSUME Plain PROVE Spec => []AccountsShareLocalKey
<1> DEFINE KeyInv == TypeInv /\ NoArgInv /\ ClientInv
<1>1. Init => KeyInv
  <2>1. Init => NoArgInv /\ ClientInv
    BY DEF Init, NoArgInv, ClientInv, Named, NoClient, NewClient, SaveStages
  <2> QED
    BY <2>1, InitType
<1>2. KeyInv /\ [Next]_vars => KeyInv'
  BY NextType, NextNoArg, NextKeys
<1>3. KeyInv => AccountsShareLocalKey
  BY DEF ClientInv, Keyed, AccountsShareLocalKey
<1> QED
  BY <1>1, <1>2, <1>3, PTL DEF Spec

(***************************************************************************)
(* The main account                                                        *)
(***************************************************************************)

\* No account that left the list, and none missing outside of a load.
MainInv ==
  /\ client.mainAccount # StaleMain
  /\ pc # "loading" /\ client.accounts # <<>> => client.mainAccount # NoMain

\* Two clients have as many accounts and the same main account.
SameMain(c, d) ==
  /\ d.mainAccount = c.mainAccount
  /\ d.accounts # <<>> => c.accounts # <<>>

LEMMA GenerateLocalKeyMain ==
  ASSUME NEW c, ClientOK(c), NEW key, NEW d, d = GenerateLocalKey(c, key)
  PROVE  SameMain(c, d)
<1>1. c \in ClientType /\ c.accounts \in Seq(AccountType)
  BY DEF ClientOK, ClientType
<1> DEFINE accounts == [i \in DOMAIN c.accounts |-> [c.accounts[i] EXCEPT !.localKey = key]]
<1>2. accounts # <<>> => c.accounts # <<>>
  BY <1>1
<1> HIDE DEF accounts
<1>3. \/ d = [c EXCEPT !.localKey = PerfKey, !.isLoaded = TRUE,
                       !.wrap = [pass |-> NoPasscode, key |-> PerfKey]]
      \/ d = [c EXCEPT !.localKey = key, !.isLoaded = TRUE,
                       !.wrap = [pass |-> c.passcode, key |-> key], !.accounts = accounts]
  BY DEF GenerateLocalKey, accounts
<1>4. d.mainAccount = c.mainAccount /\ (d.accounts = c.accounts \/ d.accounts = accounts)
  BY <1>1, <1>3 DEF ClientType
<1> QED
  BY <1>2, <1>4 DEF SameMain

LEMMA RenameAccountMain ==
  ASSUME NEW c, ClientOK(c), NEW i \in DOMAIN c.accounts, NEW k
  PROVE  SameMain(c, RenameAccount(c, i, k))
<1>1. c \in ClientType /\ c.accounts \in Seq(AccountType)
  BY DEF ClientOK, ClientType
<1>2. c.accounts # <<>>
  BY <1>1
<1>3. RenameAccount(c, i, k).mainAccount = c.mainAccount
  BY <1>1 DEF RenameAccount, ClientType
<1> QED
  BY <1>2, <1>3 DEF SameMain

LEMMA AddSingleAccountMain ==
  ASSUME NEW c, ClientOK(c), c.mainAccount # StaleMain, NEW user,
         c.accounts # <<>> => c.mainAccount # NoMain
  PROVE  /\ AddSingleAccount(c, user).mainAccount # StaleMain
         /\ AddSingleAccount(c, user).mainAccount # NoMain
BY DEF ClientOK, ClientType, AddSingleAccount, NoMain, StaleMain

LEMMA PreparedMain ==
  ASSUME ClientOK(client), NEW f \in Folders, NEW p \in Passcodes \cup {NoArg},
         NEW k \in SaveKeyFiles, NEW key \in RandomKeys
  PROVE  SameMain(client, Prepared(f, p, k, key))
<1> DEFINE c0 == [client EXCEPT !.keyFile = IF k = NoArg THEN @ ELSE k,
                                !.basePath = IF @ = NoFolder THEN f ELSE @]
           c1 == IF p # NoArg /\ p # c0.passcode
                 THEN [c0 EXCEPT !.passcode = p, !.isLoaded = FALSE] ELSE c0
<1>1. client \in ClientType
  BY DEF ClientOK
<1>2. /\ c1 \in ClientType /\ c1.accounts = client.accounts
      /\ c1.mainAccount = client.mainAccount
  BY <1>1 DEF ClientType, SaveKeyFiles
<1>3. ClientOK(c1)
  BY <1>2 DEF ClientOK
<1>4. Prepared(f, p, k, key) = IF c1.isLoaded THEN c1 ELSE GenerateLocalKey(c1, key)
  BY DEF Prepared
<1> HIDE DEF c1
<1> QED
  BY <1>2, <1>3, <1>4, GenerateLocalKeyMain DEF SameMain

LEMMA NextMain == "reload" \notin Uses /\ TypeInv /\ MainInv /\ [Next]_vars => MainInv'
<1> SUFFICES ASSUME "reload" \notin Uses, TypeInv, MainInv, [Next]_vars
             PROVE  MainInv'
  OBVIOUS
<1>0. ClientOK(client) /\ client \in ClientType /\ client.accounts \in Seq(AccountType)
  BY DEF TypeInv, ClientOK, ClientType
<1>1. CASE SameMain(client, client') /\ (pc' # "loading" => pc # "loading")
  BY <1>1 DEF MainInv, SameMain
<1>2. CASE client' = NoClient
  BY <1>2 DEF MainInv, NoClient, NewClient, NoMain, StaleMain
<1>3. ASSUME NEW p \in Passcodes, NEW k \in KeyFiles, Create(p, k)
      PROVE  MainInv'
  BY <1>3 DEF Create, MainInv, NewClient, NoMain, StaleMain
<1>4. ASSUME NEW u \in Users, CreateFromSession(u)
      PROVE  MainInv'
  <2>1. PICK key \in RandomKeys :
          client' = AddSingleAccount(GenerateLocalKey(NoClient, key), u)
    BY <1>4 DEF CreateFromSession, FreshKeys
  <2>2. ClientOK(NoClient) /\ NoClient.accounts = <<>> /\ NoClient.mainAccount = NoMain
    BY NewClientType, ConstantsAssumption DEF NoClient, NewClient, ConstantsAssumption
  <2>3. PICK c : c = GenerateLocalKey(NoClient, key)
    OBVIOUS
  <2>4. ClientOK(c) /\ SameMain(NoClient, c)
    BY <2>2, <2>3, GenerateLocalKeyType, GenerateLocalKeyMain
  <2>5. c.mainAccount # StaleMain /\ c.accounts = <<>>
    BY <2>2, <2>4 DEF SameMain, NoMain, StaleMain
  <2> QED
    BY <2>1, <2>3, <2>4, <2>5, AddSingleAccountMain DEF MainInv
<1>5. ASSUME NEW u \in Users, AddAccount(u)
      PROVE  MainInv'
  <2>1. client' = AddSingleAccount(client, u) /\ pc = "idle"
    BY <1>5 DEF AddAccount
  <2> QED
    BY <1>0, <2>1, AddSingleAccountMain DEF MainInv
<1>6. CASE Drop \/ Crash
  BY <1>2, <1>6 DEF Drop, Crash
<1>7. ASSUME NEW f \in Folders, NEW p \in Passcodes, NEW k \in KeyFiles, Open(f, p, k)
      PROVE  MainInv'
  <2> DEFINE c == [NewClient(p, k) EXCEPT !.basePath = f]
             data     == keyData[<<c.basePath, c.keyFile>>]
             cleared  == [c EXCEPT !.accounts = <<>>,
                                   !.mainAccount = IF @ = NoMain THEN @ ELSE StaleMain]
             unlocked == [cleared EXCEPT !.localKey = data.wrapped,
                                         !.wrap = [pass |-> data.pass,
                                                   key |-> data.wrapped]]
  <2>1. \/ client' = NoClient
        \/ client' = unlocked /\ pc' = "loading"
    BY <1>7 DEF Open, LoadKeyData, LoadFails
  <2>2. unlocked.mainAccount = NoMain
    BY DEF NewClient
  <2> HIDE DEF unlocked
  <2> QED
    BY <1>2, <2>1, <2>2 DEF MainInv, NoMain, StaleMain
<1>8. ASSUME NEW f, NEW p, NEW k, LoadTData(f, p, k)
      PROVE  MainInv'
  BY <1>8 DEF LoadTData
<1>9. CASE LoadAccount
  <2>1. client'.mainAccount = client.mainAccount /\ pc' = "loading"
    BY <1>0, <1>9 DEF LoadAccount, ClientType
  <2> QED
    BY <2>1 DEF MainInv
<1>10. CASE FinishLoad
  <2>1. CASE client.accounts = <<>> /\ LoadFails(client, job.ctor)
    BY <1>2, <2>1 DEF LoadFails, MainInv
  <2>2. CASE client.accounts # <<>>
    <3> DEFINE active  == LoadedData.active
               matches == {i \in DOMAIN client.accounts :
                             client.accounts[i].index = active}
               first   == {i \in matches : \A j \in matches : i <= j}
               choice  == IF matches # {} THEN first
                          ELSE IF client.mainAccount = NoMain THEN {1}
                          ELSE {client.mainAccount}
    <3>1. PICK main \in choice :
            client' = [client EXCEPT !.activeIndex = active, !.mainAccount = main,
                                     !.isLoaded = TRUE]
      BY <1>10, <2>2 DEF FinishLoad
    <3>2. client'.mainAccount = main
      BY <1>0, <3>1 DEF ClientType
    <3>3. main # NoMain /\ main # StaleMain
      <4>1. 0 \notin DOMAIN client.accounts /\ -1 \notin DOMAIN client.accounts
        BY <1>0
      <4>2. choice \subseteq DOMAIN client.accounts \/ (choice = {1} /\ 1 # 0)
            \/ (choice = {client.mainAccount} /\ client.mainAccount # NoMain)
        OBVIOUS
      <4> QED
        BY <4>1, <4>2 DEF MainInv, NoMain, StaleMain
    <3> QED
      BY <3>1, <3>2, <3>3 DEF MainInv, NoMain, StaleMain
  <2> QED
    BY <1>10, <2>1, <2>2 DEF FinishLoad
<1>11. ASSUME NEW k \in SaveKeyFiles, SaveWithoutFolder(k)
       PROVE  MainInv'
  BY <1>0, <1>1, <1>11 DEF SaveWithoutFolder, SameMain, ClientType
<1>12. ASSUME NEW f \in Folders, NEW p \in Passcodes \cup {NoArg}, NEW k \in SaveKeyFiles,
              SaveTData(f, p, k)
       PROVE  MainInv'
  <2>1. PICK key \in FreshKeys : LET c == Prepared(f, p, k, key) IN
          /\ client' = IF c.accounts = <<>> THEN c ELSE RenameAccount(c, 1, k)
          /\ pc = "idle"
    BY <1>12 DEF SaveTData
  <2>2. key \in RandomKeys
    BY <2>1 DEF FreshKeys
  <2>3. PICK c : c = Prepared(f, p, k, key)
    OBVIOUS
  <2>4. ClientOK(c) /\ SameMain(client, c)
    BY <1>0, <2>2, <2>3, PreparedType, PreparedMain
  <2>5. c.accounts # <<>> => 1 \in DOMAIN c.accounts
    BY <2>4 DEF ClientOK, ClientType
  <2>6. SameMain(client, client')
    BY <2>1, <2>3, <2>4, <2>5, RenameAccountMain DEF SameMain
  <2> QED
    BY <1>1, <2>1, <2>6
<1>13. CASE WriteMtpData
  <2>1. pc' # "loading" /\ pc # "loading"
    BY <1>13 DEF WriteMtpData, FileClosed
  <2>2. CASE client' = client
    BY <1>1, <2>1, <2>2 DEF SameMain
  <2>3. CASE client' # client
    <3>1. job.pos + 1 \in DOMAIN client.accounts
          /\ client' = RenameAccount(client, job.pos + 1, job.arg)
      BY <1>0, <1>13, <2>3
      DEF WriteMtpData, FileClosed, TypeInv, PlaceOK, SaveStages
    <3> QED
      BY <1>0, <1>1, <2>1, <3>1, RenameAccountMain
  <2> QED
    BY <2>2, <2>3
<1>14. CASE OpenFile \/ WriteMap \/ WriteMtpConfig \/ WriteKeyData \/ SaveFails
  BY <1>1, <1>14
  DEF OpenFile, WriteMap, WriteMtpConfig, WriteKeyData, SaveFails, FileClosed, SaveStages,
      SameMain
<1>15. CASE UNCHANGED vars \/ \E b \in BOOLEAN : PerformanceMode(b)
  BY <1>1, <1>15 DEF vars, PerformanceMode, SameMain
<1> QED
  BY <1>3, <1>4, <1>5, <1>6, <1>7, <1>8, <1>9, <1>10, <1>11, <1>12, <1>13, <1>14, <1>15
  DEF Next

\* Without LoadTData on an object, a client with accounts has one of them as
\* its main account, whatever is loaded, added, saved or fails.
THEOREM MainListed == ASSUME "reload" \notin Uses PROVE Spec => []MainAccountListed
<1> DEFINE MainKept == TypeInv /\ MainInv
<1>1. Init => MainKept
  <2>1. Init => MainInv
    BY DEF Init, MainInv, NoClient, NewClient, NoMain, StaleMain
  <2> QED
    BY <2>1, InitType
<1>2. MainKept /\ [Next]_vars => MainKept'
  BY NextType, NextMain
<1>3. MainKept => MainAccountListed
  <2> SUFFICES ASSUME MainKept, client.accounts # <<>>, pc = "idle"
               PROVE  client.mainAccount \in DOMAIN client.accounts
    BY DEF MainAccountListed
  <2>1. client.mainAccount \in {StaleMain} \cup 0 .. Len(client.accounts)
        /\ client.accounts \in Seq(AccountType)
    BY DEF TypeInv, ClientOK, ClientType
  <2>2. client.mainAccount \in 1 .. Len(client.accounts)
    BY <2>1 DEF MainInv, NoMain
  <2> QED
    BY <2>1, <2>2
<1> QED
  BY <1>1, <1>2, <1>3, PTL DEF Spec

(***************************************************************************)
(* Loading what was saved                                                  *)
(***************************************************************************)

LoadSlot == <<client.basePath, client.keyFile>>

SavedWhole(s) == saved[s].accounts # <<>> /\ Distinct(saved[s].accounts)

\* A load has the key of the slot and, if that was saved, every account
\* before the current turn.
LoadInv ==
  pc = "loading" =>
    /\ client.localKey = LoadedData.wrapped
    /\ SavedWhole(LoadSlot) =>
         /\ job.pos <= Len(saved[LoadSlot].accounts) + 1
         /\ Len(client.accounts) = job.pos - 1
         /\ \A i \in 1 .. job.pos - 1 :
              /\ client.accounts[i].index = saved[LoadSlot].accounts[i].index
              /\ client.accounts[i].user = saved[LoadSlot].accounts[i].user

\* Only three steps end in a load.
LEMMA LoadSteps ==
  ASSUME Plain, [Next]_vars, pc' = "loading"
  PROVE  \/ \E f \in Folders, p \in Passcodes, k \in KeyFiles : Open(f, p, k)
         \/ LoadAccount
         \/ UNCHANGED vars
<1> USE DEF SaveStages
<1>1. \A u, p, k : ~(\/ Create(p, k) \/ CreateFromSession(u) \/ AddAccount(u)
                     \/ PerformanceMode(u) \/ SaveWithoutFolder(k))
  BY DEF Create, CreateFromSession, AddAccount, PerformanceMode, SaveWithoutFolder
<1>2. ~(Drop \/ Crash \/ SaveFails \/ OpenFile \/ WriteMap \/ WriteMtpConfig
        \/ WriteMtpData \/ WriteKeyData)
  BY DEF Drop, Crash, SaveFails, OpenFile, WriteMap, WriteMtpConfig, WriteMtpData,
     WriteKeyData, FileClosed
<1>3. \A f, p, k : ~(LoadTData(f, p, k) \/ SaveTData(f, p, k))
  <2>1. "reload" \notin Uses
    BY DEF Plain
  <2>2. \A f, p, k : ~LoadTData(f, p, k)
    BY <2>1, Zenon DEF LoadTData
  <2>3. ASSUME NEW f, NEW p, NEW k, SaveTData(f, p, k)
        PROVE  FALSE
    <3>1. pc = "idle" /\ (pc' = pc \/ pc' = "map")
      BY <2>3 DEF SaveTData
    <3> QED
      BY <3>1
  <2> QED
    BY <2>2, <2>3
<1>4. ~FinishLoad
  BY DEF FinishLoad, LoadFails
<1> QED
  BY <1>1, <1>2, <1>3, <1>4 DEF Next

\* A turn of the load finds the account that was saved.
LEMMA TurnRestores ==
  ASSUME TypeInv, SavedSlotsOpen, LoadInv, LoadAccount, SavedWhole(LoadSlot)
  PROVE  LET entry == saved[LoadSlot].accounts[job.pos]
         IN  /\ job.pos \in 1 .. Len(saved[LoadSlot].accounts)
             /\ entry \in EntryType
             /\ client' = [client EXCEPT !.accounts =
                             Append(@, NewAccount(client, entry.user, entry.index))]
<1> DEFINE s == LoadSlot
           entry == saved[s].accounts[job.pos]
<1>1. pc = "loading" /\ job \in JobType /\ client \in ClientType /\ s \in Slots
      /\ job.pos \in Nat /\ job.pos > 0
  BY DEF LoadAccount, TypeInv, PlaceOK, ClientOK, ClientType, LoadSlot, Slots, JobType
<1>2. saved[s].accounts \in Seq(EntryType)
  BY <1>1 DEF TypeInv, SlotsOK, SavedType
<1>3. SlotIntact(s)
  BY <1>1 DEF SavedSlotsOpen, SavedWhole
<1>4. LoadedData = keyData[s]
  BY DEF LoadedData, LoadSlot
<1>5. job.pos \in 1 .. Len(saved[s].accounts)
  BY <1>1, <1>2, <1>3, <1>4 DEF LoadAccount, SlotIntact
<1>6. entry \in EntryType
  BY <1>2, <1>5
<1>7. /\ LoadedData.indices[job.pos] = entry.index
      /\ Opens(s[1], ComposeDataString(s[2], entry.index), keyData[s].wrapped)
      /\ mtpFile[<<s[1], ComposeDataString(s[2], entry.index)>>].user = entry.user
  <2>1. job.pos \in DOMAIN saved[s].accounts
    BY <1>2, <1>5
  <2> QED
    BY <1>3, <1>4, <2>1 DEF SlotIntact
<1>8. client.localKey = keyData[s].wrapped /\ s[1] = client.basePath /\ s[2] = client.keyFile
  BY <1>1, <1>4 DEF LoadInv, LoadSlot
<1>9. entry.index \in Indices
  BY <1>6 DEF EntryType
<1> HIDE DEF s, entry
<1>10. client' = [client EXCEPT !.accounts =
                    Append(@, NewAccount(client, entry.user, entry.index))]
  BY <1>7, <1>8, <1>9 DEF LoadAccount
<1> QED
  BY <1>5, <1>6, <1>10 DEF s, entry

LEMMA NextLoad ==
  Plain /\ TypeInv /\ SavedSlotsOpen /\ LoadInv /\ [Next]_vars => LoadInv'
<1> SUFFICES ASSUME Plain, TypeInv, SavedSlotsOpen, LoadInv, [Next]_vars, pc' = "loading"
             PROVE  LoadInv'
  BY DEF LoadInv
<1>1. CASE UNCHANGED vars
  BY <1>1 DEF vars, disk, LoadInv, LoadSlot, SavedWhole, LoadedData
<1>2. ASSUME NEW f \in Folders, NEW p \in Passcodes, NEW k \in KeyFiles, Open(f, p, k)
      PROVE  LoadInv'
  <2>1. PICK c : c = [NewClient(p, k) EXCEPT !.basePath = f]
    OBVIOUS
  <2>2. c \in ClientType /\ c.basePath = f /\ c.keyFile = k
    BY <2>1, NewClientType DEF ClientOK, ClientType, NewClient
  <2>3. LoadKeyData(c, TRUE) /\ UNCHANGED <<keyData, saved>>
    BY <1>2, <2>1 DEF Open, disk
  <2>4. PICK cleared : cleared = [c EXCEPT !.accounts = <<>>,
           !.mainAccount = IF @ = NoMain THEN @ ELSE StaleMain]
    OBVIOUS
  <2>5. /\ client' = [cleared EXCEPT !.localKey = keyData[<<f, k>>].wrapped,
                        !.wrap = [pass |-> keyData[<<f, k>>].pass,
                                  key |-> keyData[<<f, k>>].wrapped]]
        /\ job' = [NoJob EXCEPT !.pos = 1, !.ctor = TRUE]
    BY <2>2, <2>3, <2>4 DEF LoadKeyData, LoadFails
  <2>6. /\ client'.basePath = f /\ client'.keyFile = k /\ client'.accounts = <<>>
        /\ client'.localKey = keyData[<<f, k>>].wrapped
    BY <2>2, <2>4, <2>5 DEF ClientType
  <2>7. job'.pos = 1
    BY <2>5 DEF NoJob
  <2>8. saved[<<f, k>>].accounts \in Seq(EntryType)
    BY DEF TypeInv, SlotsOK, SavedType, Slots
  <2>9. Len(saved[<<f, k>>].accounts) \in Nat
    BY <2>8
  <2> QED
    BY <2>3, <2>6, <2>7, <2>9, EmptySeq DEF LoadInv, LoadSlot, LoadedData
<1>3. CASE LoadAccount
  <2>1. /\ UNCHANGED <<keyData, saved>> /\ pc = "loading"
        /\ job' = [job EXCEPT !.pos = @ + 1]
    BY <1>3 DEF LoadAccount, disk
  <2>2. client \in ClientType /\ job \in JobType
    BY DEF TypeInv, ClientOK, PlaceOK
  <2>3. job'.pos = job.pos + 1
    BY <2>1, <2>2 DEF JobType
  <2>4. client' = client \/ \E accounts : client' = [client EXCEPT !.accounts = accounts]
    BY <1>3 DEF LoadAccount
  <2>5. /\ client'.basePath = client.basePath /\ client'.keyFile = client.keyFile
        /\ client'.localKey = client.localKey
    BY <2>2, <2>4 DEF ClientType
  <2>6. LoadSlot' = LoadSlot /\ LoadedData' = LoadedData
        /\ SavedWhole(LoadSlot)' = SavedWhole(LoadSlot)
    BY <2>1, <2>5 DEF LoadSlot, LoadedData, SavedWhole, Distinct
  <2>7. ASSUME SavedWhole(LoadSlot)
        PROVE  /\ job'.pos <= Len(saved[LoadSlot].accounts) + 1
               /\ Len(client'.accounts) = job'.pos - 1
               /\ \A i \in 1 .. job'.pos - 1 :
                    /\ client'.accounts[i].index = saved[LoadSlot].accounts[i].index
                    /\ client'.accounts[i].user = saved[LoadSlot].accounts[i].user
    <3>1. PICK entry \in EntryType :
            /\ entry = saved[LoadSlot].accounts[job.pos]
            /\ job.pos \in 1 .. Len(saved[LoadSlot].accounts)
            /\ client' = [client EXCEPT !.accounts =
                            Append(@, NewAccount(client, entry.user, entry.index))]
      BY <1>3, <2>7, TurnRestores
    <3>2. PICK a \in AccountType : a = NewAccount(client, entry.user, entry.index)
      BY <3>1, NewAccountType DEF EntryType, TypeInv
    <3>3. a.index = entry.index /\ a.user = entry.user
      BY <3>2 DEF NewAccount
    <3>4. client.accounts \in Seq(AccountType) /\ client'.accounts = Append(client.accounts, a)
      BY <2>2, <3>1, <3>2 DEF ClientType
    <3>5. /\ Len(client'.accounts) = Len(client.accounts) + 1
          /\ \A i \in 1 .. Len(client.accounts) : client'.accounts[i] = client.accounts[i]
          /\ client'.accounts[Len(client.accounts) + 1] = a
      BY <3>4, AppendProperties
    <3>6. /\ Len(client.accounts) = job.pos - 1
          /\ \A i \in 1 .. job.pos - 1 :
               /\ client.accounts[i].index = saved[LoadSlot].accounts[i].index
               /\ client.accounts[i].user = saved[LoadSlot].accounts[i].user
      BY <2>1, <2>7 DEF LoadInv
    <3>7. job.pos \in Nat /\ Len(saved[LoadSlot].accounts) \in Nat
      <4>1. LoadSlot \in Slots
        BY <2>1, <2>2 DEF TypeInv, PlaceOK, LoadSlot, Slots, ClientType
      <4>2. saved[LoadSlot].accounts \in Seq(EntryType)
        BY <4>1 DEF TypeInv, SlotsOK, SavedType
      <4> QED
        BY <2>2, <4>2 DEF JobType
    <3>8. ASSUME NEW i \in 1 .. job.pos
          PROVE  /\ client'.accounts[i].index = saved[LoadSlot].accounts[i].index
                 /\ client'.accounts[i].user = saved[LoadSlot].accounts[i].user
      <4>1. CASE i = job.pos
        BY <3>1, <3>3, <3>5, <3>6, <3>7, <4>1
      <4>2. CASE i # job.pos
        <5>1. i \in 1 .. job.pos - 1
          BY <3>7, <4>2
        <5> QED
          BY <3>5, <3>6, <5>1
      <4> QED
        BY <4>1, <4>2
    <3> QED
      BY <2>3, <3>1, <3>5, <3>6, <3>7, <3>8
  <2> QED
    BY <2>1, <2>5, <2>6, <2>7 DEF LoadInv
<1> QED
  BY <1>1, <1>2, <1>3, LoadSteps

\* The end of a load of a saved slot.
LEMMA StepRestores ==
  TypeInv /\ SavedSlotsOpen /\ LoadInv /\ [Next]_vars =>
    (pc = "loading" /\ pc' # "loading" =>
       LET s == <<client.basePath, client.keyFile>>
       IN  saved[s].accounts # <<>> /\ Distinct(saved[s].accounts) =>
             /\ pc' = "idle"
             /\ [i \in DOMAIN client'.accounts |->
                   [index |-> client'.accounts[i].index,
                    user  |-> client'.accounts[i].user]] = saved[s].accounts)
<1> SUFFICES ASSUME TypeInv, SavedSlotsOpen, LoadInv, [Next]_vars,
                    pc = "loading", pc' # "loading", SavedWhole(LoadSlot)
             PROVE  /\ pc' = "idle"
                    /\ [i \in DOMAIN client'.accounts |->
                          [index |-> client'.accounts[i].index,
                           user  |-> client'.accounts[i].user]] = saved[LoadSlot].accounts
  BY DEF LoadSlot, SavedWhole
<1>1. FinishLoad
  <2> USE DEF SaveStages
  <2>1. \A u, p, k : ~(\/ Create(p, k) \/ CreateFromSession(u) \/ AddAccount(u)
                       \/ PerformanceMode(u) \/ SaveWithoutFolder(k))
    BY DEF Create, CreateFromSession, AddAccount, PerformanceMode, SaveWithoutFolder
  <2>2. ~(Drop \/ Crash \/ SaveFails \/ OpenFile \/ WriteMap \/ WriteMtpConfig
          \/ WriteMtpData \/ WriteKeyData \/ LoadAccount \/ UNCHANGED vars)
    BY DEF Drop, Crash, SaveFails, OpenFile, WriteMap, WriteMtpConfig, WriteMtpData,
       WriteKeyData, FileClosed, LoadAccount, vars
  <2>3. \A f, p, k : ~(Open(f, p, k) \/ LoadTData(f, p, k) \/ SaveTData(f, p, k))
    BY DEF Open, LoadTData, SaveTData
  <2> QED
    BY <2>1, <2>2, <2>3 DEF Next
<1>2. client \in ClientType /\ job \in JobType /\ LoadSlot \in Slots
  BY DEF TypeInv, ClientOK, PlaceOK, LoadSlot, Slots, ClientType
<1>3. SlotIntact(LoadSlot)
  BY <1>2 DEF SavedSlotsOpen, SavedWhole
<1>4. PICK entries \in Seq(EntryType) : entries = saved[LoadSlot].accounts
  BY <1>2 DEF TypeInv, SlotsOK, SavedType
<1>5. /\ job.pos > Len(entries) /\ job.pos <= Len(entries) + 1
      /\ Len(client.accounts) = job.pos - 1
      /\ \A i \in 1 .. job.pos - 1 :
           /\ client.accounts[i].index = entries[i].index
           /\ client.accounts[i].user = entries[i].user
  BY <1>1, <1>3, <1>4 DEF LoadInv, FinishLoad, SlotIntact, LoadedData, LoadSlot
<1>6. /\ client.accounts \in Seq(AccountType)
      /\ Len(entries) \in Nat /\ job.pos \in Nat
      /\ DOMAIN client.accounts = 1 .. Len(client.accounts)
      /\ DOMAIN entries = 1 .. Len(entries)
  BY <1>2, <1>4 DEF ClientType, JobType
<1>7. Len(client.accounts) = Len(entries) /\ entries # <<>> /\ job.pos - 1 = Len(entries)
  BY <1>4, <1>5, <1>6 DEF SavedWhole
<1>8. client.accounts # <<>>
  BY <1>6, <1>7, EmptySeq
<1>9. pc' = "idle" /\ \E main, active : client' = [client EXCEPT !.activeIndex = active,
                               !.mainAccount = main, !.isLoaded = TRUE]
  BY <1>1, <1>8 DEF FinishLoad
<1>10. client'.accounts = client.accounts
  BY <1>2, <1>9 DEF ClientType
<1>11. ASSUME NEW i \in 1 .. Len(entries)
       PROVE  entries[i] = [index |-> client'.accounts[i].index,
                            user  |-> client'.accounts[i].user]
  <2>1. entries[i] \in EntryType
    BY <1>4, <1>6
  <2>2. entries[i].index = client'.accounts[i].index /\ entries[i].user = client'.accounts[i].user
    BY <1>5, <1>7, <1>10
  <2> QED
    BY <2>1, <2>2 DEF EntryType
<1>12. entries = [i \in 1 .. Len(entries) |-> entries[i]]
  BY <1>4, <1>6
<1>13. entries = [i \in DOMAIN client'.accounts |->
                    [index |-> client'.accounts[i].index,
                     user  |-> client'.accounts[i].user]]
  BY <1>6, <1>7, <1>10, <1>11, <1>12
<1> QED
  BY <1>4, <1>9, <1>13

\* Opening a slot that was saved completely succeeds and restores the saved
\* accounts in their order, for every plainly used client and whatever failed
\* or was cut short since.
THEOREM LoadsRestore == ASSUME Plain PROVE Spec => LoadRestores
<1> DEFINE Inv == TypeInv /\ NoArgInv /\ ClientInv /\ SaveInv /\ SavedSlotsOpen /\ LoadInv
<1>1. Init => Inv
  <2> SUFFICES ASSUME Init PROVE Inv
    OBVIOUS
  <2>1. NoArgInv /\ ClientInv /\ SaveInv /\ LoadInv
    BY DEF Init, NoArgInv, ClientInv, SaveInv, LoadInv, Named, NoClient, NewClient, SaveStages
  <2>2. SavedSlotsOpen
    BY DEF Init, SavedSlotsOpen, NotSaved
  <2> QED
    BY <2>1, <2>2, InitType
<1>2. Inv /\ [Next]_vars => Inv'
  BY NextType, NextNoArg, NextKeys, NextSave, NextSlots, NextLoad
<1> QED
  BY <1>1, <1>2, StepRestores, PTL DEF Spec, LoadRestores

(***************************************************************************)
(* The indices                                                             *)
(***************************************************************************)

\* Nothing fails, and what other programs left in the folders is numbered
\* without gaps: a gap, or an account that a load skips, is what the index of
\* the next account can run into (account.py:1475).
Undisturbed ==
  /\ Uses = {}
  /\ \A list \in ForeignLists : \A i \in DOMAIN list : list[i] = i - 1

InOrder(accounts) == \A i \in DOMAIN accounts : accounts[i].index = i - 1

\* A slot lists its accounts without gaps, and all of them open.
SlotDense(s) ==
  keyData[s].wrapped # NoKey /\ Len(keyData[s].indices) <= MaxAccounts =>
    \A i \in DOMAIN keyData[s].indices :
      /\ keyData[s].indices[i] = i - 1
      /\ Opens(s[1], ComposeDataString(s[2], i - 1), keyData[s].wrapped)

\* Every slot but the one that is being saved is dense, and a load skips no
\* account.
DenseInv ==
  /\ InOrder(client.accounts)
  /\ \A s \in Slots : (pc \in SaveStages /\ s = CurrentSlot) \/ SlotDense(s)
  /\ \A s \in Slots : InOrder(saved[s].accounts)
  /\ pc = "loading" => /\ client.localKey = LoadedData.wrapped
                       /\ Len(client.accounts) = job.pos - 1
                       /\ job.pos <= Len(LoadedData.indices) + 1

LEMMA UndisturbedIsPlain == Undisturbed => Plain
  BY DEF Undisturbed, Plain

LEMMA OrderIsDistinct ==
  ASSUME NEW S, NEW accounts \in Seq(S), InOrder(accounts)
  PROVE  Distinct(accounts)
  BY DEF InOrder, Distinct

LEMMA InitDense == Undisturbed /\ Init => DenseInv
<1> SUFFICES ASSUME Undisturbed, Init PROVE DenseInv
  OBVIOUS
<1>1. InOrder(client.accounts) /\ pc = "none"
  BY DEF Init, NoClient, NewClient, InOrder
<1>2. \A s \in Slots : InOrder(saved[s].accounts)
  BY DEF Init, NotSaved, InOrder
<1>3. ASSUME NEW s \in Slots
      PROVE  SlotDense(s)
  <2>1. PICK list \in ForeignLists \cup {<<>>}, key \in RandomKeys, user \in Users :
       /\ keyData = [t \in Slots |->
            IF t[2] = DefaultKeyFile THEN Left(list, key) ELSE NoKeyData]
       /\ mapFile = [n \in Files |-> IF Listed(list, n) THEN key ELSE NoKey]
       /\ mtpFile = [n \in Files |->
            IF Listed(list, n) THEN [key |-> key, user |-> user] ELSE NoMtp]
    BY DEF Init
  <2>2. CASE keyData[s] = NoKeyData
    BY <2>2 DEF SlotDense, NoKeyData
  <2>3. CASE keyData[s] # NoKeyData
    <3>1. s[2] = DefaultKeyFile /\ list # <<>>
          /\ keyData[s].wrapped = key /\ keyData[s].indices = list
      BY <2>1, <2>3 DEF Left
    <3>2. list \in Seq(Nat) /\ \A i \in DOMAIN list : list[i] = i - 1
      BY <3>1, ConstantsAssumption DEF Undisturbed, ConstantsAssumption
    <3>3. ASSUME Len(list) <= MaxAccounts, NEW i \in DOMAIN list
          PROVE  Opens(s[1], ComposeDataString(s[2], i - 1), key)
      <4>1. i - 1 \in Indices
        BY <3>2, <3>3, ConstantsAssumption DEF ConstantsAssumption, Indices
      <4>2. PICK n : n = <<s[1], <<s[2], i - 1>>>>
        OBVIOUS
      <4>3. n \in Files
        BY <4>1, <4>2 DEF Files, DataNames, Slots
      <4>4. Listed(list, n)
        BY <3>1, <3>2, <3>3, <4>2 DEF Listed
      <4>5. mapFile[n] = key /\ mtpFile[n].key = key
        BY <2>1, <4>3, <4>4
      <4> QED
        BY <4>2, <4>5 DEF Opens, ComposeDataString
    <3> QED
      BY <3>1, <3>2, <3>3 DEF SlotDense
  <2> QED
    BY <2>2, <2>3
<1> QED
  BY <1>1, <1>2, <1>3 DEF DenseInv

\* A step that leaves a slot and its files alone leaves it dense.
LEMMA DenseFrame ==
  ASSUME TypeInv, NEW s \in Slots, SlotDense(s), UNCHANGED keyData[s],
         \A i \in Indices : UNCHANGED <<mapFile[SlotFile(s, i)], mtpFile[SlotFile(s, i)]>>
  PROVE  SlotDense(s)'
<1>1. keyData[s].indices \in Seq(Nat)
  BY DEF TypeInv, SlotsOK, KeyDataType
<1>2. ASSUME Len(keyData[s].indices) <= MaxAccounts, NEW i \in DOMAIN keyData[s].indices
      PROVE  i - 1 \in Indices
  BY <1>1, <1>2, ConstantsAssumption DEF Indices, ConstantsAssumption
<1> QED
  BY <1>2 DEF SlotDense, Opens, SlotFile

\* An account that is added takes the next number.
LEMMA AppendInOrder ==
  ASSUME NEW accounts \in Seq(AccountType), InOrder(accounts), NEW a \in AccountType,
         a.index = Len(accounts)
  PROVE  InOrder(Append(accounts, a))
<1>1. /\ Append(accounts, a) \in Seq(AccountType)
      /\ Len(Append(accounts, a)) = Len(accounts) + 1
      /\ \A i \in 1 .. Len(accounts) : Append(accounts, a)[i] = accounts[i]
      /\ Append(accounts, a)[Len(accounts) + 1] = a
  BY AppendProperties
<1>2. DOMAIN Append(accounts, a) = 1 .. Len(accounts) + 1
  BY <1>1
<1>3. ASSUME NEW i \in 1 .. Len(accounts) + 1
      PROVE  Append(accounts, a)[i].index = i - 1
  <2>1. CASE i = Len(accounts) + 1
    BY <1>1, <2>1
  <2>2. CASE i # Len(accounts) + 1
    BY <1>1, <2>2 DEF InOrder
  <2> QED
    BY <2>1, <2>2
<1> QED
  BY <1>2, <1>3 DEF InOrder

\* A client that gets a new local key keeps its numbers.
LEMMA GenerateLocalKeyInOrder ==
  ASSUME NEW c, ClientOK(c), InOrder(c.accounts), NEW key, NEW d, d = GenerateLocalKey(c, key)
  PROVE  InOrder(d.accounts)
<1>1. c \in ClientType /\ c.accounts \in Seq(AccountType)
  BY DEF ClientOK, ClientType
<1>2. PICK accounts : accounts = [i \in DOMAIN c.accounts |->
                                    [c.accounts[i] EXCEPT !.localKey = key]]
  OBVIOUS
<1>3. \A i \in DOMAIN c.accounts : c.accounts[i] \in AccountType
  BY <1>1
<1>4. InOrder(accounts)
  BY <1>2, <1>3 DEF InOrder, AccountType
<1>5. \/ d = [c EXCEPT !.localKey = PerfKey, !.isLoaded = TRUE,
                       !.wrap = [pass |-> NoPasscode, key |-> PerfKey]]
      \/ d = [c EXCEPT !.localKey = key, !.isLoaded = TRUE,
                       !.wrap = [pass |-> c.passcode, key |-> key], !.accounts = accounts]
  BY <1>2 DEF GenerateLocalKey
<1>6. d.accounts = c.accounts \/ d.accounts = accounts
  BY <1>1, <1>5 DEF ClientType
<1> QED
  BY <1>4, <1>6

LEMMA PreparedInOrder ==
  ASSUME ClientOK(client), InOrder(client.accounts), NEW f \in Folders,
         NEW p \in Passcodes \cup {NoArg}, NEW k \in SaveKeyFiles, NEW key \in RandomKeys
  PROVE  InOrder(Prepared(f, p, k, key).accounts)
<1> DEFINE c0 == [client EXCEPT !.keyFile = IF k = NoArg THEN @ ELSE k,
                                !.basePath = IF @ = NoFolder THEN f ELSE @]
           c1 == IF p # NoArg /\ p # c0.passcode
                 THEN [c0 EXCEPT !.passcode = p, !.isLoaded = FALSE] ELSE c0
<1>1. client \in ClientType
  BY DEF ClientOK
<1>2. /\ c1 \in ClientType /\ c1.accounts = client.accounts
      /\ c1.mainAccount = client.mainAccount
  BY <1>1 DEF ClientType, SaveKeyFiles
<1>3. ClientOK(c1)
  BY <1>2 DEF ClientOK
<1>4. Prepared(f, p, k, key) = IF c1.isLoaded THEN c1 ELSE GenerateLocalKey(c1, key)
  BY DEF Prepared
<1> HIDE DEF c1
<1> QED
  BY <1>2, <1>3, <1>4, GenerateLocalKeyInOrder

\* A turn of the load of a dense slot finds its account.
LEMMA TurnDense ==
  ASSUME TypeInv, DenseInv, LoadAccount
  PROVE  /\ InOrder(client.accounts)'
         /\ Len(client'.accounts) = job.pos
         /\ job.pos <= Len(LoadedData.indices)
<1>1. pc = "loading" /\ job.pos \in Nat /\ job.pos > 0 /\ client \in ClientType
      /\ client.accounts \in Seq(AccountType) /\ LoadSlot \in Slots
      /\ LoadedData = keyData[LoadSlot]
  BY DEF LoadAccount, TypeInv, PlaceOK, JobType, ClientOK, ClientType, LoadSlot, Slots, LoadedData
<1>2. /\ LoadedData.indices \in Seq(Nat) /\ Len(LoadedData.indices) <= MaxAccounts
      /\ client.localKey # NoKey /\ client.localKey = LoadedData.wrapped
      /\ Len(client.accounts) = job.pos - 1
  BY <1>1 DEF TypeInv, RunBounded, SlotsOK, KeyDataType, DenseInv
<1>3. job.pos \in DOMAIN LoadedData.indices /\ job.pos <= Len(LoadedData.indices)
  BY <1>1, <1>2 DEF LoadAccount
<1>4. SlotDense(LoadSlot)
  BY <1>1 DEF DenseInv, SaveStages
<1> DEFINE name == ComposeDataString(client.keyFile, job.pos - 1)
<1>5. /\ LoadedData.indices[job.pos] = job.pos - 1
      /\ Opens(client.basePath, name, client.localKey)
  BY <1>1, <1>2, <1>3, <1>4 DEF SlotDense, LoadSlot
<1>6. job.pos - 1 \in Indices
  BY <1>1, <1>2, <1>3, ConstantsAssumption DEF Indices, ConstantsAssumption
<1>7. PICK user : user = mtpFile[<<client.basePath, name>>].user
  OBVIOUS
<1>8. user \in Users
  <2>1. <<client.basePath, name>> \in Files
    BY <1>1, <1>6 DEF Files, DataNames, ComposeDataString, LoadSlot, Slots
  <2> QED
    BY <1>2, <1>5, <1>7, <2>1 DEF Opens, TypeInv, FilesOK, MtpType, NoMtp
<1>9. PICK a \in AccountType : a = NewAccount(client, user, job.pos - 1)
  BY <1>6, <1>8, NewAccountType DEF TypeInv
<1>10. client' = [client EXCEPT !.accounts = Append(@, a)]
  BY <1>5, <1>6, <1>7, <1>9 DEF LoadAccount
<1>11. client'.accounts = Append(client.accounts, a)
  BY <1>1, <1>10 DEF ClientType
<1>12. a.index = Len(client.accounts)
  BY <1>2, <1>9 DEF NewAccount
<1>13. InOrder(client'.accounts) /\ Len(client'.accounts) = Len(client.accounts) + 1
  BY <1>1, <1>11, <1>12, AppendInOrder, AppendProperties DEF DenseInv
<1> QED
  BY <1>1, <1>2, <1>3, <1>13 DEF InOrder

LEMMA NextDense ==
  /\ Undisturbed /\ TypeInv /\ NoArgInv /\ ClientInv /\ SaveInv /\ DenseInv
  /\ [Next]_vars
  => DenseInv'
<1> SUFFICES ASSUME Undisturbed, TypeInv, NoArgInv, ClientInv, SaveInv, DenseInv, [Next]_vars
             PROVE  DenseInv'
  OBVIOUS
<1> USE DEF disk
<1>0. /\ ClientOK(client) /\ client \in ClientType /\ client.accounts \in Seq(AccountType)
      /\ Len(client.accounts) \in Nat /\ job \in JobType /\ Plain
  BY UndisturbedIsPlain DEF TypeInv, ClientOK, ClientType, PlaceOK
\* Steps that touch no file.
<1>1. ASSUME UNCHANGED <<disk, saved>>, pc \notin SaveStages, pc' \notin SaveStages,
             InOrder(client'.accounts), pc' # "loading"
      PROVE  DenseInv'
  <2>1. ASSUME NEW s \in Slots PROVE SlotDense(s)'
    BY <1>1, DenseFrame DEF DenseInv
  <2> QED
    BY <1>1, <2>1 DEF DenseInv, InOrder
<1>2. ASSUME UNCHANGED <<disk, saved>>, pc \notin SaveStages, pc' = "loading",
             InOrder(client'.accounts), client'.localKey = LoadedData'.wrapped,
             Len(client'.accounts) = job'.pos - 1,
             job'.pos <= Len(LoadedData'.indices) + 1
      PROVE  DenseInv'
  <2>1. ASSUME NEW s \in Slots PROVE SlotDense(s)'
    BY <1>2, DenseFrame DEF DenseInv
  <2> QED
    BY <1>2, <2>1 DEF DenseInv, InOrder
<1>3. InOrder(NoClient.accounts) /\ \A p, k : InOrder(NewClient(p, k).accounts)
  BY DEF InOrder, NoClient, NewClient
<1>4. ASSUME NEW p \in Passcodes, NEW k \in KeyFiles, Create(p, k)
      PROVE  DenseInv'
  BY <1>1, <1>3, <1>4 DEF Create, SaveStages
<1>5. ASSUME NEW u \in Users, CreateFromSession(u)
      PROVE  DenseInv'
  <2>1. PICK key \in RandomKeys :
          client' = AddSingleAccount(GenerateLocalKey(NoClient, key), u)
    BY <1>5 DEF CreateFromSession, FreshKeys
  <2>2. ClientOK(NoClient) /\ NoClient.accounts = <<>>
    BY NewClientType, ConstantsAssumption DEF NoClient, NewClient, ConstantsAssumption
  <2>3. PICK c : c = GenerateLocalKey(NoClient, key)
    OBVIOUS
  <2>4. ClientOK(c) /\ InOrder(c.accounts) /\ Len(c.accounts) = 0
    BY <1>3, <2>2, <2>3, GenerateLocalKeyType, GenerateLocalKeyInOrder, EmptySeq
  <2>5. c \in ClientType /\ c.accounts \in Seq(AccountType) /\ 0 \in Indices
    BY <2>4, ConstantsAssumption DEF ClientOK, ClientType, Indices, ConstantsAssumption
  <2>6. PICK a \in AccountType : a = NewAccount(c, u, Len(c.accounts))
    BY <2>4, <2>5, NewAccountType
  <2>7. client'.accounts = Append(c.accounts, a) /\ a.index = Len(c.accounts)
    BY <2>1, <2>3, <2>5, <2>6 DEF AddSingleAccount, ClientType, NewAccount
  <2>8. InOrder(client'.accounts)
    BY <2>4, <2>5, <2>7, AppendInOrder
  <2> QED
    BY <1>1, <1>5, <2>8 DEF CreateFromSession, SaveStages
<1>6. ASSUME NEW u \in Users, AddAccount(u)
      PROVE  DenseInv'
  <2>1. Len(client.accounts) \in Indices
    BY <1>0, <1>6, ConstantsAssumption DEF AddAccount, Indices, ConstantsAssumption
  <2>2. PICK a \in AccountType : a = NewAccount(client, u, Len(client.accounts))
    BY <1>0, <2>1, NewAccountType
  <2>3. client'.accounts = Append(client.accounts, a) /\ a.index = Len(client.accounts)
    BY <1>0, <1>6, <2>2 DEF AddAccount, AddSingleAccount, ClientType, NewAccount
  <2>4. InOrder(client'.accounts)
    BY <1>0, <2>3, AppendInOrder DEF DenseInv
  <2> QED
    BY <1>1, <1>6, <2>4 DEF AddAccount, SaveStages
<1>7. CASE Drop
  BY <1>1, <1>3, <1>7 DEF Drop, SaveStages
<1>8. ASSUME NEW f \in Folders, NEW p \in Passcodes, NEW k \in KeyFiles, Open(f, p, k)
      PROVE  DenseInv'
  <2>1. PICK c : c = [NewClient(p, k) EXCEPT !.basePath = f]
    OBVIOUS
  <2>2. c \in ClientType /\ c.basePath = f /\ c.keyFile = k
    BY <2>1, NewClientType DEF ClientOK, ClientType, NewClient
  <2>3. LoadKeyData(c, TRUE) /\ UNCHANGED <<disk, saved>> /\ pc = "none"
    BY <1>8, <2>1 DEF Open
  <2>4. PICK cleared : cleared = [c EXCEPT !.accounts = <<>>,
           !.mainAccount = IF @ = NoMain THEN @ ELSE StaleMain]
    OBVIOUS
  <2>5. PICK unlocked : unlocked = [cleared EXCEPT !.localKey = keyData[<<f, k>>].wrapped,
                        !.wrap = [pass |-> keyData[<<f, k>>].pass,
                                  key |-> keyData[<<f, k>>].wrapped]]
    OBVIOUS
  <2>6. \/ client' = NoClient /\ pc' = "none"
        \/ /\ client' = unlocked /\ pc' = "loading"
           /\ job' = [NoJob EXCEPT !.pos = 1, !.ctor = TRUE]
    BY <2>2, <2>3, <2>4, <2>5 DEF LoadKeyData, LoadFails
  <2>7. CASE client' = NoClient /\ pc' = "none"
    BY <1>1, <1>3, <2>3, <2>7 DEF SaveStages
  <2>8. CASE client' = unlocked /\ pc' = "loading"
    <3>1. /\ client'.basePath = f /\ client'.keyFile = k /\ client'.accounts = <<>>
          /\ client'.localKey = keyData[<<f, k>>].wrapped
      BY <2>2, <2>4, <2>5, <2>8 DEF ClientType
    <3>2. job'.pos = 1
      BY <2>6, <2>8 DEF NoJob
    <3>3. LoadedData' = keyData[<<f, k>>]
      BY <2>3, <3>1 DEF LoadedData
    <3>4. Len(LoadedData'.indices) \in Nat
      <4>1. keyData[<<f, k>>].indices \in Seq(Nat)
        BY DEF TypeInv, SlotsOK, KeyDataType, Slots
      <4> QED
        BY <3>3, <4>1
    <3>5. InOrder(client'.accounts) /\ Len(client'.accounts) = 0
      BY <3>1, EmptySeq DEF InOrder
    <3> QED
      BY <1>2, <2>3, <2>8, <3>1, <3>2, <3>3, <3>4, <3>5 DEF SaveStages
  <2> QED
    BY <2>6, <2>7, <2>8
<1>9. CASE LoadAccount
  <2>1. /\ UNCHANGED <<disk, saved, pc>> /\ pc = "loading"
        /\ job' = [job EXCEPT !.pos = @ + 1]
    BY <1>9 DEF LoadAccount
  <2>2. client' = client \/ \E accounts : client' = [client EXCEPT !.accounts = accounts]
    BY <1>9 DEF LoadAccount
  <2>3. /\ client'.basePath = client.basePath /\ client'.keyFile = client.keyFile
        /\ client'.localKey = client.localKey
    BY <1>0, <2>2 DEF ClientType
  <2>4. LoadedData' = LoadedData /\ job'.pos = job.pos + 1 /\ job.pos \in Nat
    BY <1>0, <2>1, <2>3 DEF LoadedData, JobType
  <2>5. Len(LoadedData.indices) \in Nat
    <3>1. <<client.basePath, client.keyFile>> \in Slots
      BY <1>0, <2>1 DEF TypeInv, PlaceOK, ClientType, Slots
    <3>2. LoadedData.indices \in Seq(Nat)
      BY <3>1 DEF LoadedData, TypeInv, SlotsOK, KeyDataType
    <3> QED
      BY <3>2
  <2> QED
    BY <1>2, <1>9, <2>1, <2>3, <2>4, <2>5, TurnDense DEF DenseInv, SaveStages, InOrder
<1>10. CASE FinishLoad
  <2>1. client' = NoClient \/ client' = client
        \/ \E main, active : client' = [client EXCEPT !.activeIndex = active,
                               !.mainAccount = main, !.isLoaded = TRUE]
    BY <1>10 DEF FinishLoad, LoadFails
  <2>2. client' = NoClient \/ client'.accounts = client.accounts
    BY <1>0, <2>1 DEF ClientType
  <2>3. InOrder(client'.accounts)
    BY <1>3, <2>2 DEF DenseInv
  <2> QED
    BY <1>1, <1>10, <2>3 DEF FinishLoad, LoadFails, SaveStages
<1>11. ASSUME NEW k \in SaveKeyFiles, SaveWithoutFolder(k)
       PROVE  DenseInv'
  <2>1. client'.accounts = client.accounts
    BY <1>0, <1>11 DEF SaveWithoutFolder, ClientType
  <2> QED
    BY <1>1, <1>11, <2>1 DEF SaveWithoutFolder, SaveStages, DenseInv
<1>12. ASSUME NEW f \in Folders, NEW p \in Passcodes \cup {NoArg}, NEW k \in SaveKeyFiles,
              SaveTData(f, p, k)
       PROVE  DenseInv'
  <2>1. PICK key \in FreshKeys :
          LET c    == Prepared(f, p, k, key)
              slot == <<f, c.keyFile>>
          IN  IF c.accounts = <<>>
              THEN client' = c /\ UNCHANGED <<pc, job, saved>>
              ELSE /\ client' = RenameAccount(c, 1, k)
                   /\ pc' = "map"
                   /\ job' = [NoJob EXCEPT
                                !.folder = f, !.arg = k, !.pos = 1,
                                !.name = WriteName(c.accounts[1], k),
                                !.before = ReadableIndices(slot, c.localKey)]
                   /\ saved' = [saved EXCEPT ![slot] = NotSaved]
    BY <1>12 DEF SaveTData
  <2>2. PICK c : c = Prepared(f, p, k, key)
    OBVIOUS
  <2>3. InOrder(c.accounts) /\ k = NoArg
    BY <1>0, <2>2, PreparedInOrder, PreparedKeys DEF FreshKeys, DenseInv
  <2>4. client' = c
    BY <2>1, <2>2, <2>3, NoRename
  <2>5. UNCHANGED disk /\ pc = "idle" /\ pc' \in {"idle", "map"}
    BY <1>12, <2>1 DEF SaveTData
  <2>6. ASSUME NEW s \in Slots PROVE SlotDense(s)'
    BY <2>5, DenseFrame DEF DenseInv, SaveStages
  <2>7. saved' = saved \/ \E slot : saved' = [saved EXCEPT ![slot] = NotSaved]
    BY <2>1
  <2>8. ASSUME NEW s \in Slots PROVE InOrder(saved'[s].accounts)
    <3>1. saved'[s] = saved[s] \/ saved'[s] = NotSaved
      BY <2>7 DEF TypeInv, SlotsOK
    <3> QED
      BY <3>1 DEF DenseInv, InOrder, NotSaved
  <2> QED
    BY <2>3, <2>4, <2>5, <2>6, <2>8 DEF DenseInv, InOrder, SaveStages
<1>13. CASE OpenFile \/ WriteMap \/ WriteMtpConfig \/ WriteMtpData
  <2>1. pc \in SaveStages /\ pc' \in SaveStages /\ saved' = saved
    BY <1>13
    DEF OpenFile, WriteMap, WriteMtpConfig, WriteMtpData, FileClosed, SaveStages
  <2>2. client' = client
    <3>1. RenameAccount(client, job.pos + 1, job.arg) = client
      BY <2>1, NoRename DEF NoArgInv
    <3> QED
      BY <1>13, <3>1 DEF OpenFile, WriteMap, WriteMtpConfig, WriteMtpData
  <2>3. CurrentSlot' = CurrentSlot
    <3>1. job'.folder = job.folder
      BY <1>0, <1>13 DEF OpenFile, WriteMap, WriteMtpConfig, WriteMtpData, JobType
    <3> QED
      BY <2>2, <3>1 DEF CurrentSlot
  <2>4. ASSUME NEW s \in Slots, s # CurrentSlot
        PROVE  SlotDense(s)'
    <3>1. keyData'[s] = keyData[s]
      BY <1>13, <2>4
      DEF OpenFile, WriteMap, WriteMtpConfig, WriteMtpData, TypeInv, SlotsOK
    <3>2. /\ mapFile' = mapFile \/ \E v : mapFile' = [mapFile EXCEPT ![CurrentFile] = v]
          /\ mtpFile' = mtpFile \/ \E v : mtpFile' = [mtpFile EXCEPT ![CurrentFile] = v]
      BY <1>13 DEF OpenFile, WriteMap, WriteMtpConfig, WriteMtpData
    <3>3. ASSUME NEW i \in Indices
          PROVE  UNCHANGED <<mapFile[SlotFile(s, i)], mtpFile[SlotFile(s, i)]>>
      <4>1. SlotFile(s, i) # CurrentFile
        BY <2>1, <2>4, OtherSlot
      <4>2. SlotFile(s, i) \in Files
        BY DEF SlotFile, Slots, Files, DataNames, ComposeDataString
      <4> QED
        BY <3>2, <4>1, <4>2 DEF TypeInv, FilesOK
    <3>4. SlotDense(s)
      BY <2>4 DEF DenseInv
    <3> QED
      BY <3>1, <3>3, <3>4, DenseFrame
  <2> QED
    BY <2>1, <2>2, <2>3, <2>4 DEF DenseInv, InOrder, SaveStages
<1>14. CASE WriteKeyData
  <2>1. /\ pc = "key" /\ pc \in SaveStages /\ pc' = "idle" /\ client' = client
        /\ mapFile' = mapFile /\ mtpFile' = mtpFile
        /\ keyData' = [keyData EXCEPT ![CurrentSlot] =
             [pass |-> client.wrap.pass, wrapped |-> client.wrap.key,
              infoKey |-> client.localKey, active |-> client.activeIndex,
              indices |-> [i \in DOMAIN client.accounts |-> client.accounts[i].index]]]
        /\ saved' = [saved EXCEPT ![CurrentSlot] =
             [pass |-> client.passcode,
              accounts |-> [i \in DOMAIN client.accounts |->
                              [index |-> client.accounts[i].index,
                               user  |-> client.accounts[i].user]]]]
    BY <1>14 DEF WriteKeyData, FileClosed, SaveStages
  <2>2. ASSUME NEW s \in Slots, s # CurrentSlot
        PROVE  SlotDense(s)' /\ InOrder(saved'[s].accounts)
    <3>1. keyData'[s] = keyData[s] /\ saved'[s] = saved[s] /\ SlotDense(s)
      BY <2>1, <2>2 DEF TypeInv, SlotsOK, DenseInv
    <3> QED
      BY <2>1, <3>1, DenseFrame DEF DenseInv, InOrder
  <2>3. ASSUME NEW s \in Slots, s = CurrentSlot
        PROVE  SlotDense(s)' /\ InOrder(saved'[s].accounts)
    <3>1. /\ keyData'[s].wrapped = client.wrap.key
          /\ keyData'[s].indices = [i \in DOMAIN client.accounts |-> client.accounts[i].index]
          /\ saved'[s].accounts = [i \in DOMAIN client.accounts |->
                              [index |-> client.accounts[i].index,
                               user  |-> client.accounts[i].user]]
      BY <2>1, <2>3 DEF TypeInv, SlotsOK
    <3>2. client.wrap.key = client.localKey
      BY <2>1 DEF ClientInv, Keyed, Wrapped
    <3>3. \A i \in DOMAIN client.accounts : client.accounts[i].index = i - 1
      BY DEF DenseInv, InOrder
    <3>4. \A i \in DOMAIN client.accounts : Stored(i)
      <4>1. Distinct(client.accounts)
        BY <1>0, OrderIsDistinct DEF DenseInv
      <4>2. /\ Progress
            /\ job.pos = Len(client.accounts)
            /\ DOMAIN client.accounts = 1 .. Len(client.accounts)
        BY <1>0, <2>1 DEF SaveInv
      <4>3. \A i \in DOMAIN client.accounts : i < job.pos \/ i = job.pos
        BY <1>0, <4>2
      <4> QED
        BY <2>1, <4>1, <4>2, <4>3 DEF Progress
    <3>5. ASSUME NEW i \in DOMAIN client.accounts
          PROVE  Opens(s[1], ComposeDataString(s[2], i - 1), client.localKey)
      <4>1. AccountFile(i) = <<s[1], ComposeDataString(s[2], i - 1)>>
        BY <2>3, <3>3 DEF AccountFile, CurrentSlot
      <4>2. mapFile[AccountFile(i)] = client.localKey /\ mtpFile[AccountFile(i)].key = client.localKey
        BY <3>4 DEF Stored
      <4> QED
        BY <4>1, <4>2 DEF Opens
    <3>6. \A i \in DOMAIN client.accounts :
            Opens(s[1], ComposeDataString(s[2], i - 1), client.localKey)'
      BY <2>1, <3>5 DEF Opens
    <3>7. SlotDense(s)'
      <4>1. PICK indices : indices = [i \in DOMAIN client.accounts |-> client.accounts[i].index]
        OBVIOUS
      <4>2. DOMAIN indices = DOMAIN client.accounts
            /\ \A i \in DOMAIN indices : indices[i] = i - 1
        BY <3>3, <4>1
      <4> QED
        BY <2>1, <3>1, <3>2, <3>6, <4>1, <4>2 DEF SlotDense
    <3>8. InOrder(saved'[s].accounts)
      <4>1. PICK entries : entries = [i \in DOMAIN client.accounts |->
                              [index |-> client.accounts[i].index,
                               user  |-> client.accounts[i].user]]
        OBVIOUS
      <4>2. DOMAIN entries = DOMAIN client.accounts
            /\ \A i \in DOMAIN entries : entries[i].index = i - 1
        BY <3>3, <4>1
      <4> QED
        BY <3>1, <4>1, <4>2 DEF InOrder
    <3> QED
      BY <3>7, <3>8
  <2> QED
    BY <2>1, <2>2, <2>3 DEF DenseInv, InOrder, SaveStages
<1>15. ~SaveFails
  <2> SUFFICES ASSUME SaveFails PROVE FALSE
    OBVIOUS
  <2>1. pc = "map" /\ Current.localKey = NoKey
    BY DEF SaveFails, Undisturbed
  <2>2. job.pos \in DOMAIN client.accounts /\ Keyed(client)
    BY <2>1 DEF TypeInv, PlaceOK, SaveStages, ClientInv
  <2> QED
    BY <2>1, <2>2 DEF Current, Keyed, Wrapped
<1>16. ~Crash /\ (\A b : ~PerformanceMode(b)) /\ \A f, p, k : ~LoadTData(f, p, k)
  <2>1. "crash" \notin Uses /\ "performance" \notin Uses /\ "reload" \notin Uses
    BY DEF Undisturbed
  <2> QED
    BY <2>1, Zenon DEF Crash, PerformanceMode, LoadTData
<1>17. CASE UNCHANGED vars
  BY <1>17 DEF vars, DenseInv, InOrder, SlotDense, Opens, CurrentSlot, LoadedData
<1> QED
  BY <1>4, <1>5, <1>6, <1>7, <1>8, <1>9, <1>10, <1>11, <1>12, <1>13, <1>14, <1>15,
     <1>16, <1>17 DEF Next

\* Where nothing fails and no foreign list has a gap, every account's index is
\* its own.
THEOREM IndicesOwn == ASSUME Undisturbed PROVE Spec => []IndicesDistinct
<1> DEFINE Inv == TypeInv /\ NoArgInv /\ ClientInv /\ SaveInv /\ DenseInv
<1>1. Init => Inv
  <2> SUFFICES ASSUME Init PROVE Inv
    OBVIOUS
  <2>1. NoArgInv /\ ClientInv /\ SaveInv
    BY DEF Init, NoArgInv, ClientInv, SaveInv, Named, NoClient, NewClient, SaveStages
  <2> QED
    BY <2>1, InitType, InitDense
<1>2. Inv /\ [Next]_vars => Inv'
  BY UndisturbedIsPlain, NextType, NextNoArg, NextKeys, NextSave, NextDense
<1>3. Inv => IndicesDistinct
  BY OrderIsDistinct DEF DenseInv, TypeInv, ClientOK, ClientType, IndicesDistinct
<1> QED
  BY <1>1, <1>2, <1>3, PTL DEF Spec

\* There, a save that returned True kept every account.
THEOREM AccountsSaved == ASSUME Undisturbed PROVE Spec => []EveryAccountSaved
<1> DEFINE Inv == /\ TypeInv /\ NoArgInv /\ ClientInv /\ SaveInv /\ SavedSlotsOpen
                  /\ DenseInv
<1>1. Init => Inv
  <2> SUFFICES ASSUME Init PROVE Inv
    OBVIOUS
  <2>1. NoArgInv /\ ClientInv /\ SaveInv /\ SavedSlotsOpen
    BY DEF Init, NoArgInv, ClientInv, SaveInv, SavedSlotsOpen, NotSaved, Named, NoClient,
       NewClient, SaveStages
  <2> QED
    BY <2>1, InitType, InitDense
<1>2. Inv /\ [Next]_vars => Inv'
  BY UndisturbedIsPlain, NextType, NextNoArg, NextKeys, NextSave, NextSlots, NextDense
<1>3. Inv => EveryAccountSaved
  <2> SUFFICES ASSUME Inv, NEW s \in Slots, saved[s].accounts # <<>>
               PROVE  SlotIntact(s)
    BY DEF EveryAccountSaved
  <2>1. saved[s].accounts \in Seq(EntryType)
    BY DEF TypeInv, SlotsOK, SavedType
  <2> QED
    BY <2>1, OrderIsDistinct DEF DenseInv, SavedSlotsOpen
<1> QED
  BY <1>1, <1>2, <1>3, PTL DEF Spec
=============================================================================
