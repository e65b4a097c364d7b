------------------------ MODULE PyrogramBridgeProofs ------------------------
(***************************************************************************)
(* No session file and no open storage ever blends two accounts, no        *)
(* session is replaced unasked, an account read from a session is one      *)
(* account's, and reading leaves the storage as it was found: for any set  *)
(* of authorizations and whatever a new storage announces as its data      *)
(* center.  The first invariant splits into what the two sessions are      *)
(* (StorageInv), which every step of Pyrogram keeps, and what make_client  *)
(* knows of the file at each of its awaits (Filling).                      *)
(***************************************************************************)
EXTENDS PyrogramBridge, TLAPS

StorageInv ==
  /\ disk \in Sessions
  /\ client \in Clients
  /\ (client.kind = "string") <=> (client.auth # Unset)
  /\ client.own.exists <=> client.storage = "own"
  /\ client.storage = "file" => client.kind = "file" /\ disk.exists
  /\ ~disk.exists => disk = NoSession
  /\ NeverBlended

Filling ==
  /\ pc \in {"idle"} \cup MakeStages \cup ReadStages
  /\ job \in Jobs
  /\ pc \in MakeStages \ {"login"} => job.auth \in Auths
  /\ pc \in MakeStages \ {"populate", "save", "close"} => job.pos = 1
  /\ pc = "open" => ~disk.exists
  /\ pc = "populate" => /\ disk.exists
                        /\ OfOne(job.auth, disk)
                        /\ job.pos <= 6

Inv == StorageInv /\ Filling

LEMMA Orders == Len(FieldOrder) = 6
BY DEF FieldOrder

\* What a storage is created with, and a populated one, belong to one account.
LEMMA NewSessions ==
  /\ NoSession \in Sessions /\ ~NoSession.exists
  /\ \A a \in Auths : OfOne(a, NoSession)
  /\ \A dc \in FreshDcs : /\ Fresh(dc) \in Sessions
                          /\ Fresh(dc).exists
                          /\ \A a \in Auths : OfOne(a, Fresh(dc))
  /\ \A a \in Auths : /\ Populated(a) \in Sessions
                      /\ Populated(a).exists
                      /\ OfOne(a, Populated(a))
<1>1. NoSession \in Sessions /\ ~NoSession.exists
      /\ \A a \in Auths : OfOne(a, NoSession)
  BY DEF NoSession, Sessions, Flags, OfOne
<1>2. ASSUME NEW dc \in FreshDcs
      PROVE  /\ Fresh(dc) \in Sessions
             /\ Fresh(dc).exists
             /\ \A a \in Auths : OfOne(a, Fresh(dc))
  BY BridgeAssumption DEF Fresh, NoSession, Sessions, Flags, OfOne
<1>3. ASSUME NEW a \in Auths
      PROVE  Populated(a) \in Sessions /\ Populated(a).exists /\ OfOne(a, Populated(a))
  BY DEF Populated, Sessions, Flags, OfOne
<1> QED BY <1>1, <1>2, <1>3

LEMMA NewClients ==
  /\ FileClient \in Clients
  /\ FileClient.kind = "file" /\ FileClient.auth = Unset
  /\ FileClient.storage = "closed" /\ FileClient.own = NoSession
  /\ \A a \in Auths : /\ StringClient(a) \in Clients
                      /\ StringClient(a).kind = "string" /\ StringClient(a).auth = a
                      /\ StringClient(a).storage = "closed"
                      /\ StringClient(a).own = NoSession
BY NewSessions DEF FileClient, StringClient, Clients, Storages

LEMMA NewJob == NoJob \in Jobs /\ NoJob.auth = Unset /\ NoJob.pos = 1
BY Orders DEF NoJob, Jobs, Flags, Storages

\* The local variables a call starts with.
LEMMA UseJobs ==
  ASSUME NEW j \in Jobs, NEW a \in Auths, NEW memory \in BOOLEAN,
         NEW overwrite \in BOOLEAN, NEW existed \in BOOLEAN
  PROVE  [j EXCEPT !.auth = a, !.memory = memory,
                   !.overwrite = overwrite, !.existed = existed] \in Jobs
BY DEF Jobs

LEMMA CreateJobs ==
  ASSUME NEW j \in Jobs, NEW memory \in BOOLEAN,
         NEW overwrite \in BOOLEAN, NEW existed \in BOOLEAN
  PROVE  [j EXCEPT !.memory = memory, !.overwrite = overwrite,
                   !.existed = existed] \in Jobs
BY DEF Jobs

LEMMA ReadJobs ==
  ASSUME NEW j \in Jobs, NEW found \in Storages, NEW stale \in BOOLEAN
  PROVE  [j EXCEPT !.found = found, !.stale = stale] \in Jobs
BY DEF Jobs

LEMMA InitInv == Init => Inv
<1> SUFFICES ASSUME Init PROVE Inv
  OBVIOUS
<1> USE DEF Init
<1>1. disk \in Sessions /\ (~disk.exists => disk = NoSession)
      /\ \E a \in Auths : OfOne(a, disk)
  <2>1. CASE disk = NoSession
    BY <2>1, NewSessions, BridgeAssumption
  <2>2. CASE \E dc \in FreshDcs : disk = Fresh(dc)
    BY <2>2, NewSessions, BridgeAssumption
  <2>3. ASSUME NEW a \in Auths, disk \in SessionsOf(a)
        PROVE  disk \in Sessions /\ disk.exists /\ OfOne(a, disk)
    BY <2>3 DEF SessionsOf, OfOne
  <2>4. \/ disk = NoSession
        \/ \E dc \in FreshDcs : disk = Fresh(dc)
        \/ \E a \in Auths : disk \in SessionsOf(a)
    BY DEF LeftSessions
  <2> QED BY <2>1, <2>2, <2>3, <2>4
<1>2. StorageInv
  BY <1>1, NewClients, NewSessions, BridgeAssumption DEF StorageInv, NeverBlended
<1>3. Filling
  BY Orders, NewJob DEF Filling, MakeStages
<1> QED BY <1>2, <1>3 DEF Inv

-----------------------------------------------------------------------------
(* What the steps do to the file and the client's storage.                  *)

LEMMA OpenKeeps ==
  ASSUME StorageInv, OpenStorage
  PROVE  StorageInv' /\ (disk.exists => disk' = disk)
<1> USE DEF StorageInv, NeverBlended
<1>1. CASE client.kind = "string"
  <2>1. client' = [client EXCEPT !.storage = "own", !.own = Populated(client.auth)]
        /\ disk' = disk /\ client.auth \in Auths
    BY <1>1 DEF OpenStorage, Clients
  <2>2. client' \in Clients /\ client'.kind = "string" /\ client'.auth = client.auth
        /\ client'.storage = "own" /\ client'.own = Populated(client.auth)
    BY <2>1, <1>1, NewSessions DEF Clients, Storages
  <2> QED BY <2>1, <2>2, NewSessions
<1>2. CASE client.kind = "file"
  <2>1. client' = [client EXCEPT !.storage = "file", !.own = NoSession]
        /\ \/ disk.exists /\ disk' = disk
           \/ ~disk.exists /\ \E dc \in FreshDcs : disk' = Fresh(dc)
    BY <1>2 DEF OpenStorage
  <2>2. client' \in Clients /\ client'.kind = "file" /\ client'.auth = client.auth
        /\ client'.storage = "file" /\ client'.own = NoSession
    BY <2>1, <1>2, NewSessions DEF Clients, Storages
  <2>3. disk' \in Sessions /\ disk'.exists /\ \E a \in Auths : OfOne(a, disk')
    BY <2>1, NewSessions, BridgeAssumption
  <2> QED BY <2>1, <2>2, <2>3, <1>2, NewSessions, BridgeAssumption
<1> QED BY <1>1, <1>2 DEF Clients

LEMMA CutShortKeeps ==
  ASSUME StorageInv, OpenCutShort
  PROVE  StorageInv' /\ (disk.exists => disk' = disk)
<1> USE DEF StorageInv, NeverBlended
<1>1. CASE disk' = disk /\ client' = client
  BY <1>1
<1>2. CASE ~disk.exists /\ client' = client /\ \E dc \in FreshDcs : disk' = Fresh(dc)
  BY <1>2, NewSessions, BridgeAssumption
<1>3. ASSUME NEW dc \in FreshDcs, client.kind = "string", disk' = disk,
             client' = [client EXCEPT !.storage = "own", !.own = Fresh(dc)]
      PROVE  StorageInv'
  <2>1. client' \in Clients /\ client'.kind = "string" /\ client'.auth = client.auth
        /\ client'.storage = "own" /\ client'.own = Fresh(dc)
    BY <1>3, NewSessions DEF Clients, Storages
  <2> QED BY <1>3, <2>1, NewSessions, BridgeAssumption
<1> QED BY <1>1, <1>2, <1>3 DEF OpenCutShort

LEMMA CloseKeeps ==
  ASSUME StorageInv, client' = Closed(client), disk' = disk
  PROVE  StorageInv'
<1>1. client' \in Clients /\ client'.kind = client.kind /\ client'.auth = client.auth
      /\ client'.storage = "closed" /\ client'.own = NoSession
  BY NewSessions DEF StorageInv, Closed, Clients, Storages
<1> QED BY <1>1, NewSessions, BridgeAssumption DEF StorageInv, NeverBlended

LEMMA UnlinkKeeps ==
  ASSUME StorageInv, disk.exists, Unlink
  PROVE  StorageInv' /\ ~disk'.exists
<1> USE DEF StorageInv, NeverBlended
<1>1. disk' = NoSession /\ disk' \in Sessions /\ ~disk'.exists
      /\ \E a \in Auths : OfOne(a, disk')
  BY NewSessions, BridgeAssumption DEF Unlink
<1>2. CASE client.storage = "file"
  <2>1. client' \in Clients /\ client'.kind = client.kind /\ client'.auth = client.auth
        /\ client'.storage = "own" /\ client'.own = disk
    BY <1>2 DEF Unlink, Clients, Storages
  <2> QED BY <1>1, <2>1
<1>3. CASE client.storage # "file"
  BY <1>1, <1>3 DEF Unlink
<1> QED BY <1>2, <1>3

LEMMA NewClientKeeps ==
  ASSUME StorageInv, disk' = disk,
         client' = FileClient \/ (\E a \in Auths : client' = StringClient(a))
                              \/ client' = client
  PROVE  StorageInv'
BY NewClients, NewSessions, BridgeAssumption DEF StorageInv, NeverBlended

\* A peer is cached beside the key of its own account.
LEMMA CacheKeeps ==
  ASSUME NEW s \in Sessions, NEW a \in Auths, OfOne(a, s), s.auth_key # Unset
  PROVE  LET t == [s EXCEPT !.peers = @ \cup {s.auth_key}]
         IN  t \in Sessions /\ OfOne(a, t) /\ t.exists = s.exists
BY DEF Sessions, OfOne

\* A setter writes what belongs to the account.
LEMMA SetterKeeps ==
  ASSUME NEW s \in Sessions, NEW a \in Auths, OfOne(a, s), s.exists,
         NEW i \in 1 .. 6
  PROVE  LET f == FieldOrder[i]
             t == [s EXCEPT ![f] = Populated(a)[f]]
         IN  t \in Sessions /\ OfOne(a, t) /\ t.exists
<1>1. CASE i = 1
  BY <1>1 DEF FieldOrder, Populated, Sessions, OfOne
<1>2. CASE i = 2
  BY <1>2 DEF FieldOrder, Populated, Sessions, OfOne
<1>3. CASE i = 3
  BY <1>3 DEF FieldOrder, Populated, Sessions, Flags, OfOne
<1>4. CASE i = 4
  BY <1>4 DEF FieldOrder, Populated, Sessions, OfOne
<1>5. CASE i = 5
  BY <1>5 DEF FieldOrder, Populated, Sessions, OfOne
<1>6. CASE i = 6
  BY <1>6 DEF FieldOrder, Populated, Sessions, Flags, OfOne
<1> QED BY <1>1, <1>2, <1>3, <1>4, <1>5, <1>6

-----------------------------------------------------------------------------
(* The invariant is kept.                                                   *)

LEMMA MakeKeeps == Inv /\ MakeSteps => Inv'
<1> SUFFICES ASSUME Inv, MakeSteps PROVE Inv'
  OBVIOUS
<1> USE Orders DEF Inv, Filling, MakeStages, ReadStages, GoTo, Leave
<1>1. CASE ExportSessionString
  <2>1. disk' = disk /\ job.auth \in Auths
        /\ (client' = client \/ client' = StringClient(job.auth))
    BY <1>1 DEF ExportSessionString, Return
  <2>2. StorageInv'
    BY <2>1, NewClientKeeps
  <2>3. Filling'
    BY <1>1 DEF ExportSessionString, Return
  <2> QED BY <2>2, <2>3
<1>2. CASE CheckFile
  <2>1. CASE disk.exists /\ ~job.overwrite
    BY <1>2, <2>1 DEF CheckFile, StorageInv, NeverBlended
  <2>2. CASE disk.exists /\ job.overwrite
    <3>1. Unlink /\ pc = "check" /\ pc' = "open" /\ job' = job
      BY <1>2, <2>2 DEF CheckFile
    <3> QED BY <3>1, <2>2, UnlinkKeeps
  <2>3. CASE ~disk.exists
    BY <1>2, <2>3 DEF CheckFile, StorageInv, NeverBlended
  <2> QED BY <2>1, <2>2, <2>3, <1>2 DEF CheckFile
<1>3. CASE OpenSession
  <2>1. PICK dc \in FreshDcs : disk' = Fresh(dc)
    BY <1>3 DEF OpenSession
  <2>2. client' = client /\ job' = job /\ pc = "open" /\ pc' = "populate"
    BY <1>3 DEF OpenSession
  <2>3. StorageInv'
    BY <2>1, <2>2, NewSessions, BridgeAssumption DEF StorageInv, NeverBlended
  <2>4. Filling'
    BY <2>1, <2>2, NewSessions
  <2> QED BY <2>3, <2>4
<1>4. CASE OpenSessionFails
  <2>1. client' = client /\ job' = job /\ pc' = "idle"
        /\ (disk' = disk \/ \E dc \in FreshDcs : disk' = Fresh(dc))
    BY <1>4 DEF OpenSessionFails
  <2>2. StorageInv'
    BY <2>1, NewSessions, BridgeAssumption DEF StorageInv, NeverBlended
  <2>3. Filling'
    BY <2>1
  <2> QED BY <2>2, <2>3
<1>5. CASE Populate
  <2> DEFINE f == FieldOrder[job.pos]
  <2>0. disk' = [disk EXCEPT ![f] = Populated(job.auth)[f]]
    BY <1>5, Zenon DEF Populate
  <2> HIDE DEF f
  <2>1. client' = client /\ job' = [job EXCEPT !.pos = job.pos + 1] /\ pc = "populate"
        /\ \/ pc' = "populate" /\ job.pos < 6
           \/ pc' = "save" /\ job.pos = 6
    <3>1. client' = client /\ job' = [job EXCEPT !.pos = @ + 1] /\ pc = "populate"
          /\ \/ pc' = "populate" /\ job.pos < Len(FieldOrder)
             \/ pc' = "save" /\ job.pos = Len(FieldOrder)
      BY <1>5, Zenon DEF Populate
    <3> QED BY <3>1
  <2>2. job.auth \in Auths /\ job.pos \in 1 .. 6 /\ disk.exists /\ OfOne(job.auth, disk)
    BY <2>1 DEF Jobs
  <2>3. disk' \in Sessions /\ disk'.exists /\ OfOne(job.auth, disk')
    BY <2>0, <2>2, SetterKeeps DEF StorageInv, f
  <2>4. job' \in Jobs /\ job'.auth = job.auth /\ job'.pos = job.pos + 1
    BY <2>1, <2>2 DEF Jobs
  <2>5. StorageInv'
    BY <2>1, <2>2, <2>3 DEF StorageInv, NeverBlended
  <2>6. Filling'
    <3>1. CASE pc' = "populate"
      <4>1. disk'.exists /\ OfOne(job'.auth, disk') /\ job'.pos <= 6
        BY <2>1, <2>2, <2>3, <2>4, <3>1
      <4> QED BY <2>2, <2>4, <3>1, <4>1 DEF OfOne
    <3>2. CASE pc' = "save"
      BY <2>2, <2>4, <3>2
    <3> QED BY <2>1, <3>1, <3>2
  <2> QED BY <2>5, <2>6
<1>6. CASE Save
  BY <1>6 DEF Save, StorageInv, NeverBlended
<1>7. CASE PopulateFails
  <2>1. disk' = disk /\ client' = client /\ pc' = "close" /\ pc \in {"populate", "save"}
        /\ job' = [job EXCEPT !.failed = "Error"]
    BY <1>7 DEF PopulateFails
  <2>2. job' \in Jobs /\ job'.auth = job.auth
    BY <2>1 DEF Jobs, Errors
  <2> QED BY <2>1, <2>2 DEF StorageInv, NeverBlended
<1>8. CASE CloseSession
  <2>1. disk' = disk /\ job' = job /\ pc' = "idle"
        /\ (client' = client \/ client' = FileClient)
    BY <1>8 DEF CloseSession, Return
  <2>2. StorageInv'
    BY <2>1, NewClientKeeps
  <2> QED BY <2>1, <2>2
<1> QED BY <1>1, <1>2, <1>3, <1>4, <1>5, <1>6, <1>7, <1>8 DEF MakeSteps

\* Reading opens and closes the storage, and keeps to its own variables.
LEMMA ReadKeeps == Inv /\ ReadSteps => Inv'
<1> SUFFICES ASSUME Inv, ReadSteps PROVE Inv'
  OBVIOUS
<1> USE Orders DEF Inv, Filling, MakeStages, ReadStages, GoTo, Leave
<1>0. Stored \in Sessions
  BY DEF Stored, StorageInv, Clients
<1>1. CASE Probe
  <2>1. disk' = disk /\ client' = client /\ pc' \in {"auth_key", "reopen"}
        /\ (job' = job \/ job' = [job EXCEPT !.dc_id = Stored.dc_id])
    BY <1>1 DEF Probe
  <2>2. job' \in Jobs
    BY <2>1, <1>0, ZenonT(40) DEF Jobs, Sessions
  <2> QED BY <2>1, <2>2 DEF StorageInv, NeverBlended
<1>2. CASE Reopen
  <2>1. OpenStorage /\ pc' = "dc_id" /\ job' = [job EXCEPT !.opened = TRUE]
    BY <1>2 DEF Reopen
  <2>2. job' \in Jobs
    BY <2>1 DEF Jobs
  <2> QED BY <2>1, <2>2, OpenKeeps
<1>3. CASE ReadDcFails
  BY <1>3 DEF ReadDcFails, Raise, StorageInv, NeverBlended
<1>4. CASE ReadCredential
  <2>1. ASSUME NEW to \in ReadStages,
               NEW f \in {"dc_id", "auth_key", "user_id", "test_mode", "is_bot"},
               Read(f, to)
        PROVE  Inv'
    <3>1. disk' = disk /\ client' = client /\ pc' = to
          /\ job' = [job EXCEPT ![f] = Stored[f]]
      BY <2>1 DEF Read
    <3>2. job' \in Jobs
      BY <3>1, <1>0 DEF Jobs, Sessions
    <3> QED BY <3>1, <3>2 DEF StorageInv, NeverBlended
  <2>2. CASE ReadKey /\ Stored.auth_key = Unset
    <3>1. disk' = disk /\ client' = client /\ pc' = "finally"
          /\ job' = [job EXCEPT !.failed = "PyrogramUnauthorized"]
      BY <2>2 DEF ReadKey
    <3>2. job' \in Jobs
      BY <3>1 DEF Jobs, Errors
    <3> QED BY <3>1, <3>2 DEF StorageInv, NeverBlended
  <2> QED BY <1>4, <2>1, <2>2 DEF ReadCredential, ReadKey
<1>5. CASE ReadFails
  <2>1. disk' = disk /\ client' = client /\ pc' = "finally"
        /\ job' = [job EXCEPT !.failed = "Error"]
    BY <1>5 DEF ReadFails
  <2>2. job' \in Jobs
    BY <2>1 DEF Jobs, Errors
  <2> QED BY <2>1, <2>2 DEF StorageInv, NeverBlended
<1>6. CASE CloseRead
  <2>1. disk' = disk /\ job' = job /\ pc' = "expects"
        /\ (client' = Closed(client) \/ client' = client)
    BY <1>6 DEF CloseRead
  <2>2. StorageInv'
    BY <2>1, CloseKeeps DEF StorageInv, NeverBlended
  <2> QED BY <2>1, <2>2
<1>7. CASE ReturnCredentials
  BY <1>7 DEF ReturnCredentials, StorageInv, NeverBlended
<1>8. CASE Start
  <2>1. OpenStorage /\ pc' = "me" /\ job' = job
    BY <1>8 DEF Start
  <2> QED BY <2>1, OpenKeeps
<1>9. CASE GetMe
  <2>1. disk' = disk /\ (client' = Closed(client) \/ client' = client) /\ pc' = "idle"
        /\ (job' = job \/ job' = [job EXCEPT !.user_id = Stored.auth_key])
    BY <1>9 DEF GetMe
  <2>2. job' \in Jobs
    BY <2>1, <1>0 DEF Jobs, Sessions
  <2>3. StorageInv'
    BY <2>1, CloseKeeps DEF StorageInv, NeverBlended
  <2> QED BY <2>1, <2>2, <2>3
<1>10. CASE ReopenFails \/ StartFails \/ CloseReadFails
  <2>1. job' = job /\ pc' = "idle"
        /\ \/ OpenStorage \/ OpenCutShort
           \/ disk' = disk /\ (client' = Closed(client) \/ client' = client)
    BY <1>10 DEF ReopenFails, StartFails, CloseReadFails
  <2>2. StorageInv'
    BY <2>1, OpenKeeps, CutShortKeeps, CloseKeeps DEF StorageInv, NeverBlended
  <2> QED BY <2>1, <2>2
<1> QED BY <1>1, <1>2, <1>3, <1>4, <1>5, <1>6, <1>7, <1>8, <1>9, <1>10 DEF ReadSteps

LEMMA NextInv == Inv /\ [Next]_vars => Inv'
<1> SUFFICES ASSUME Inv, [Next]_vars PROVE Inv'
  OBVIOUS
<1> USE DEF Inv, Filling, MakeStages, ReadStages, GoTo, Leave
<1>0. disk.exists \in BOOLEAN /\ client.storage \in Storages
  <2>1. disk.exists \in BOOLEAN
    BY DEF StorageInv, Sessions
  <2>2. client.storage \in Storages
    BY DEF StorageInv, Clients
  <2> QED BY <2>1, <2>2
<1>1. CASE UNCHANGED vars
  <2>1. StorageInv'
    BY <1>1 DEF vars, StorageInv, NeverBlended
  <2>2. Filling'
    BY <1>1 DEF vars, OfOne
  <2> QED BY <2>1, <2>2
<1>2. CASE NewClient
  <2>1. disk' = disk /\ client' = FileClient /\ job' = job /\ pc' = pc /\ pc = "idle"
    BY <1>2 DEF NewClient
  <2>2. StorageInv'
    BY <2>1, NewClientKeeps
  <2> QED BY <2>1, <2>2
<1>3. CASE Connect
  <2>1. (OpenStorage \/ OpenCutShort) /\ job' = job /\ pc' = pc /\ pc = "idle"
    BY <1>3 DEF Connect
  <2> QED BY <2>1, OpenKeeps, CutShortKeeps
<1>4. CASE Disconnect
  <2>1. disk' = disk /\ client' = Closed(client) /\ job' = job /\ pc' = pc /\ pc = "idle"
    BY <1>4 DEF Disconnect
  <2> QED BY <2>1, CloseKeeps
<1>5. CASE CachePeers
  <2>1. job' = job /\ pc' = pc
    BY <1>5 DEF CachePeers
  <2>2. CASE client.storage = "file"
    <3>1. disk' = [disk EXCEPT !.peers = @ \cup {disk.auth_key}] /\ client' = client
          /\ disk \in Sessions /\ disk.auth_key # Unset /\ disk.exists
      BY <1>5, <2>2 DEF CachePeers, Stored, StorageInv
    <3>2. ASSUME NEW a \in Auths, OfOne(a, disk)
          PROVE  OfOne(a, disk') /\ disk' \in Sessions /\ disk'.exists
      BY <3>1, <3>2, CacheKeeps
    <3>3. StorageInv'
      BY <3>1, <3>2 DEF StorageInv, NeverBlended
    <3>4. pc = "populate" => OfOne(job.auth, disk')
      BY <3>2
    <3>5. CASE pc = "populate"
      BY <2>1, <3>2, <3>3, <3>4, <3>5 DEF OfOne
    <3>6. CASE pc # "populate"
      BY <2>1, <3>1, <3>3, <3>6
    <3> QED BY <3>5, <3>6
  <2>3. CASE client.storage = "own"
    <3>1. disk' = disk /\ client' = [client EXCEPT !.own.peers = @ \cup {client.own.auth_key}]
          /\ client.own \in Sessions /\ client.own.auth_key # Unset
      BY <1>5, <2>3 DEF CachePeers, Stored, StorageInv, Clients
    <3>2. client' \in Clients /\ client'.kind = client.kind /\ client'.auth = client.auth
          /\ client'.storage = "own"
          /\ client'.own = [client.own EXCEPT !.peers = @ \cup {client.own.auth_key}]
      BY <3>1, <2>3 DEF StorageInv, Clients, Sessions
    <3>3. ASSUME NEW a \in Auths, OfOne(a, client.own)
          PROVE  OfOne(a, client'.own) /\ client'.own.exists = client.own.exists
      BY <3>1, <3>2, <3>3, CacheKeeps
    <3>4. StorageInv'
      BY <3>1, <3>2, <3>3, <2>3 DEF StorageInv, NeverBlended
    <3> QED BY <2>1, <3>1, <3>4 DEF OfOne
  <2> QED BY <1>5, <2>2, <2>3 DEF CachePeers
<1>6. CASE Crash
  <2>1. disk' = disk /\ client' = FileClient /\ job' = NoJob /\ pc' = "idle"
    BY <1>6 DEF Crash
  <2>2. StorageInv'
    BY <2>1, NewClientKeeps
  <2> QED BY <2>1, <2>2, NewJob
<1>7. CASE UseCurrentSession
  <2>1. PICK a \in Auths, memory \in BOOLEAN, overwrite \in BOOLEAN :
          /\ job' = [NoJob EXCEPT !.auth = a, !.memory = memory,
                                  !.overwrite = overwrite, !.existed = disk.exists]
          /\ pc' = MakeFrom(memory)
    BY <1>7 DEF UseCurrentSession
  <2>2. job' \in Jobs /\ job'.auth = a /\ job'.pos = 1
    <3>1. job' \in Jobs
      BY <2>1, <1>0, NewJob, UseJobs
    <3>2. job'.auth = a /\ job'.pos = 1
      BY <2>1, NewJob DEF Jobs
    <3> QED BY <3>1, <3>2
  <2>3. disk' = disk /\ client' = client /\ pc' \in {"export", "check"}
    BY <1>7, <2>1 DEF UseCurrentSession, MakeFrom
  <2> QED BY <2>2, <2>3 DEF StorageInv, NeverBlended
<1>8. CASE CreateNewSession
  <2>1. PICK memory \in BOOLEAN, overwrite \in BOOLEAN :
          job' = [NoJob EXCEPT !.memory = memory, !.overwrite = overwrite,
                               !.existed = disk.exists]
    BY <1>8 DEF CreateNewSession
  <2>2. job' \in Jobs /\ job'.pos = 1
    <3>1. job' \in Jobs
      BY <2>1, <1>0, NewJob, CreateJobs
    <3>2. job'.pos = 1
      BY <2>1, NewJob DEF Jobs
    <3> QED BY <3>1, <3>2
  <2>3. disk' = disk /\ client' = client /\ pc' = "login"
    BY <1>8 DEF CreateNewSession
  <2> QED BY <2>2, <2>3 DEF StorageInv, NeverBlended
<1>9. CASE Login
  <2>1. PICK a \in Auths : job' = [job EXCEPT !.auth = a]
    BY <1>9 DEF Login
  <2>2. job' \in Jobs /\ job'.auth = a /\ job'.pos = job.pos
    BY <2>1 DEF Jobs
  <2>3. disk' = disk /\ client' = client /\ pc = "login" /\ pc' \in {"get_me", "disconnect"}
    BY <1>9 DEF Login
  <2> QED BY <2>2, <2>3 DEF StorageInv, NeverBlended
<1>10. CASE LoginUser
  <2>1. PICK failed \in {"no", "Error"} : job' = [job EXCEPT !.failed = failed]
    BY <1>10 DEF LoginUser
  <2>2. job' \in Jobs /\ job'.auth = job.auth /\ job'.pos = job.pos
    BY <2>1 DEF Jobs, Errors
  <2>3. disk' = disk /\ client' = client /\ pc = "get_me" /\ pc' = "disconnect"
    BY <1>10 DEF LoginUser
  <2> QED BY <2>2, <2>3 DEF StorageInv, NeverBlended
<1>11. CASE LoginDisconnect
  BY <1>11 DEF LoginDisconnect, MakeFrom, StorageInv, NeverBlended
<1>12. CASE MakeSteps
  BY <1>12, MakeKeeps
<1>13. CASE FromPyrogram
  <2>1. job' = [NoJob EXCEPT !.found = client.storage,
                  !.stale = client.kind = "file" /\ client.storage = "own"]
        /\ disk' = disk /\ client' = client /\ pc' = "probe"
    BY <1>13 DEF FromPyrogram
  <2>2. (client.kind = "file" /\ client.storage = "own") \in BOOLEAN
    OBVIOUS
  <2>3. job' \in Jobs
    BY <2>1, <2>2, <1>0, NewJob, ReadJobs
  <2> QED BY <2>1, <2>3 DEF StorageInv, NeverBlended
<1>14. CASE ReadSteps
  BY <1>14, ReadKeeps
<1>15. CASE AwaitFails
  BY <1>15 DEF AwaitFails, Raise, StorageInv, NeverBlended
<1> QED BY <1>1, <1>2, <1>3, <1>4, <1>5, <1>6, <1>7, <1>8, <1>9, <1>10, <1>11,
      <1>12, <1>13, <1>14, <1>15 DEF Next

LEMMA InvType == Inv => TypeOK
BY DEF Inv, StorageInv, Filling, TypeOK

\* The states are well typed, and an open storage is always that of a file
\* that is there, of a file that was unlinked, or of a string.
THEOREM BridgeTypes == Spec => []TypeOK
<1> QED BY InitInv, NextInv, InvType, PTL DEF Spec

\* No session ever mixes the credentials or cached peers of two accounts,
\* whatever calls fail, die or are repeated ("mixing the previous account's
\* cached data into this session" is what make_client guards against).
THEOREM Unblended == Spec => []NeverBlended
<1>1. Inv => NeverBlended
  BY DEF Inv, StorageInv
<1> QED BY InitInv, NextInv, <1>1, PTL DEF Spec

-----------------------------------------------------------------------------
(* What make_client leaves alone, and what it returns.                      *)

Filled == {"populate", "save", "close"}

\* Without overwrite, a call never comes beyond the check of a session that
\* was there when it began.
Kept ==
  pc \in MakeStages /\ job.existed /\ ~job.overwrite =>
    disk.exists /\ pc \notin {"open"} \cup Filled

\* The fields before the next setter are those of the account, and no other
\* client has the file open: nothing else is written.
Progress ==
  /\ pc \in {"open"} \cup Filled => client.storage # "file"
  /\ pc = "save" => job.pos = 7
  /\ pc \in {"populate", "save"} \/ (pc = "close" /\ job.failed = "no") =>
       /\ disk.exists /\ disk.peers = {}
       /\ \A i \in 1 .. 6 :
            i < job.pos => disk[FieldOrder[i]] = Populated(job.auth)[FieldOrder[i]]
  /\ pc = "close" /\ job.failed = "no" => job.pos = 7

CallInv == Kept /\ Progress

LEMMA CallBegins == Init => CallInv
BY DEF Init, CallInv, Kept, Progress, MakeStages, Filled

\* Outside make_client nothing is to be shown: the call has not come to the
\* file, or has left it.
LEMMA CallOutside ==
  ASSUME Inv, pc' \notin MakeStages
  PROVE  CallInv'
BY DEF CallInv, Kept, Progress, MakeStages, Filled

\* The credentials but one are those before a setter.
LEMMA SetterOnly ==
  ASSUME NEW s \in Sessions, NEW a \in Auths, NEW i \in 1 .. 6
  PROVE  LET f == FieldOrder[i]
             t == [s EXCEPT ![f] = Populated(a)[f]]
         IN  /\ t.exists = s.exists /\ t.peers = s.peers
             /\ \A k \in 1 .. 6 : t[FieldOrder[k]] =
                  IF k = i THEN Populated(a)[f] ELSE s[FieldOrder[k]]
<1>1. CASE i = 1
  BY <1>1 DEF FieldOrder, Sessions
<1>2. CASE i = 2
  BY <1>2 DEF FieldOrder, Sessions
<1>3. CASE i = 3
  BY <1>3 DEF FieldOrder, Sessions
<1>4. CASE i = 4
  BY <1>4 DEF FieldOrder, Sessions
<1>5. CASE i = 5
  BY <1>5 DEF FieldOrder, Sessions
<1>6. CASE i = 6
  BY <1>6 DEF FieldOrder, Sessions
<1> QED BY <1>1, <1>2, <1>3, <1>4, <1>5, <1>6

\* A session with every field of the account and no peers is that of the
\* account.
LEMMA AllFields ==
  ASSUME NEW s \in Sessions, NEW a \in Auths, s.exists, s.peers = {},
         \A i \in 1 .. 6 : s[FieldOrder[i]] = Populated(a)[FieldOrder[i]]
  PROVE  s = Populated(a)
<1>1. s.dc_id = a /\ s.api_id = "api" /\ s.test_mode = "no" /\ s.auth_key = a
      /\ s.user_id = a /\ s.is_bot = "no"
  BY DEF FieldOrder, Populated
<1>2. s.exists = TRUE
  BY DEF Sessions
<1> QED BY <1>1, <1>2 DEF Sessions, Populated

LEMMA MakeCall == Inv /\ CallInv /\ MakeSteps => CallInv'
<1> SUFFICES ASSUME Inv, CallInv, MakeSteps PROVE CallInv'
  OBVIOUS
<1> USE DEF CallInv, Kept, Progress, Filled, MakeStages, GoTo, Leave
<1>1. CASE ExportSessionString
  BY <1>1, CallOutside DEF ExportSessionString, Return, MakeStages
<1>2. CASE CheckFile
  <2>1. CASE disk.exists /\ job.overwrite
    <3>1. Unlink /\ pc = "check" /\ pc' = "open" /\ job' = job
      BY <1>2, <2>1 DEF CheckFile
    <3>2. client'.storage # "file"
      BY <3>1 DEF Unlink, Inv, StorageInv, Clients
    <3> QED BY <3>1, <3>2, <2>1
  <2>2. CASE ~disk.exists
    <3>1. pc = "check" /\ pc' = "open" /\ UNCHANGED <<disk, client, job>>
      BY <1>2, <2>2 DEF CheckFile
    <3>2. client.storage # "file"
      BY <2>2 DEF Inv, StorageInv
    <3> QED BY <3>1, <3>2, <2>2
  <2>3. CASE pc' = "idle"
    BY <2>3, CallOutside
  <2> QED BY <1>2, <2>1, <2>2, <2>3 DEF CheckFile
<1>3. CASE OpenSession
  <2>1. PICK dc \in FreshDcs : disk' = Fresh(dc)
    BY <1>3 DEF OpenSession, Inv, Filling
  <2>2. client' = client /\ job' = job /\ pc = "open" /\ pc' = "populate" /\ job.pos = 1
    BY <1>3 DEF OpenSession, Inv, Filling
  <2>3. disk'.exists /\ disk'.peers = {}
    BY <2>1 DEF Fresh, NoSession
  <2> QED BY <2>2, <2>3
<1>4. CASE OpenSessionFails
  BY <1>4, CallOutside DEF OpenSessionFails
<1>5. CASE Populate
  <2> DEFINE f == FieldOrder[job.pos]
  <2>0. disk' = [disk EXCEPT ![f] = Populated(job.auth)[f]]
    BY <1>5, Zenon DEF Populate
  <2> HIDE DEF f
  <2>1. client' = client /\ job' = [job EXCEPT !.pos = job.pos + 1] /\ pc = "populate"
        /\ \/ pc' = "populate" /\ job.pos < 6
           \/ pc' = "save" /\ job.pos = 6
    <3>1. client' = client /\ job' = [job EXCEPT !.pos = @ + 1] /\ pc = "populate"
          /\ \/ pc' = "populate" /\ job.pos < Len(FieldOrder)
             \/ pc' = "save" /\ job.pos = Len(FieldOrder)
      BY <1>5, Zenon DEF Populate
    <3> QED BY <3>1, Orders
  <2>2. job.auth \in Auths /\ job.pos \in 1 .. 6 /\ disk \in Sessions
    BY <2>1, Orders DEF Jobs, Inv, Filling, StorageInv
  <2>3. job'.auth = job.auth /\ job'.pos = job.pos + 1
        /\ job'.existed = job.existed /\ job'.overwrite = job.overwrite
    BY <2>1 DEF Jobs, Inv, Filling
  <2>4. /\ disk'.exists = disk.exists /\ disk'.peers = disk.peers
        /\ \A k \in 1 .. 6 : disk'[FieldOrder[k]] =
             IF k = job.pos THEN Populated(job.auth)[f] ELSE disk[FieldOrder[k]]
    BY <2>0, <2>2, SetterOnly DEF f
  <2>5. ASSUME NEW k \in 1 .. 6, k < job'.pos
        PROVE  disk'[FieldOrder[k]] = Populated(job'.auth)[FieldOrder[k]]
    <3>1. CASE k = job.pos
      BY <3>1, <2>4, <2>3 DEF f
    <3>2. CASE k # job.pos
      <4>1. k < job.pos
        BY <3>2, <2>2, <2>3, <2>5
      <4> QED BY <4>1, <2>1, <2>3, <2>4, <3>2
    <3> QED BY <3>1, <3>2
  <2>6. Progress'
    BY <2>1, <2>2, <2>3, <2>4, <2>5
  <2>7. Kept'
    BY <2>1, <2>3
  <2> QED BY <2>6, <2>7
<1>6. CASE Save
  BY <1>6 DEF Save
<1>7. CASE PopulateFails
  <2>1. client' = client /\ pc' = "close" /\ pc \in {"populate", "save"}
        /\ job' = [job EXCEPT !.failed = "Error"]
    BY <1>7 DEF PopulateFails
  <2>2. job'.failed = "Error" /\ job'.existed = job.existed /\ job'.overwrite = job.overwrite
    BY <2>1 DEF Jobs, Inv, Filling
  <2> QED BY <2>1, <2>2
<1>8. CASE CloseSession
  BY <1>8, CallOutside DEF CloseSession, Return
<1> QED BY <1>1, <1>2, <1>3, <1>4, <1>5, <1>6, <1>7, <1>8 DEF MakeSteps

LEMMA NextCall == Inv /\ CallInv /\ [Next]_vars => CallInv'
<1> SUFFICES ASSUME Inv, CallInv, [Next]_vars PROVE CallInv'
  OBVIOUS
<1>1. CASE UNCHANGED vars
  BY <1>1 DEF vars, CallInv, Kept, Progress
<1>2. CASE NewClient \/ Connect \/ Disconnect
  BY <1>2, CallOutside DEF NewClient, Connect, Disconnect, MakeStages
<1>3. CASE CachePeers
  <2>1. job' = job /\ pc' = pc
    BY <1>3 DEF CachePeers
  <2>2. CASE client.storage = "file"
    <3>1. disk' = [disk EXCEPT !.peers = @ \cup {disk.auth_key}] /\ client' = client
          /\ disk \in Sessions
      BY <1>3, <2>2 DEF CachePeers, Inv, StorageInv
    <3>2. disk'.exists = disk.exists
      BY <3>1 DEF Sessions
    <3> QED BY <2>1, <2>2, <3>1, <3>2 DEF CallInv, Kept, Progress, Filled
  <2>3. CASE client.storage = "own"
    <3>1. disk' = disk /\ client' = [client EXCEPT !.own.peers = @ \cup {client.own.auth_key}]
      BY <1>3, <2>3 DEF CachePeers
    <3>2. client'.storage = client.storage
      BY <3>1 DEF Inv, StorageInv, Clients
    <3> QED BY <2>1, <3>1, <3>2 DEF CallInv, Kept, Progress
  <2> QED BY <1>3, <2>2, <2>3 DEF CachePeers
<1>4. CASE Crash
  BY <1>4, CallOutside DEF Crash, Leave, MakeStages
<1>5. CASE UseCurrentSession
  <2>1. PICK a \in Auths, memory \in BOOLEAN, overwrite \in BOOLEAN :
          /\ job' = [NoJob EXCEPT !.auth = a, !.memory = memory,
                                  !.overwrite = overwrite, !.existed = disk.exists]
          /\ pc' = MakeFrom(memory)
    BY <1>5 DEF UseCurrentSession
  <2>2. job'.existed = disk.exists /\ disk' = disk /\ pc' \in {"export", "check"}
    BY <1>5, <2>1 DEF UseCurrentSession, MakeFrom, NoJob
  <2> QED BY <2>2 DEF CallInv, Kept, Progress, Filled
<1>6. CASE CreateNewSession
  <2>1. job'.existed = disk.exists /\ disk' = disk /\ pc' = "login"
    BY <1>6 DEF CreateNewSession, NoJob
  <2> QED BY <2>1 DEF CallInv, Kept, Progress, Filled
<1>7. CASE Login \/ LoginUser \/ LoginDisconnect
  <2>1. disk' = disk /\ pc \in {"login", "get_me", "disconnect"}
        /\ pc' \in {"get_me", "disconnect", "export", "check", "idle"}
    BY <1>7 DEF Login, LoginUser, LoginDisconnect, GoTo, Leave, MakeFrom
  <2>2. job'.existed = job.existed /\ job'.overwrite = job.overwrite
    BY <1>7 DEF Login, LoginUser, LoginDisconnect, Jobs, Inv, Filling
  <2> QED BY <2>1, <2>2 DEF CallInv, Kept, Progress, Filled, MakeStages
<1>8. CASE MakeSteps
  BY <1>8, MakeCall
<1>9. CASE FromPyrogram
  BY <1>9, CallOutside DEF FromPyrogram, MakeStages
<1>10. CASE ReadSteps
  <2>1. pc' \notin MakeStages
    BY <1>10 DEF ReadSteps, Probe, Reopen, ReopenFails, ReadDcFails, ReadCredential, ReadKey, Read,
         ReadFails, CloseRead, CloseReadFails, ReturnCredentials, Start,
         StartFails, GetMe, GoTo, Leave, Raise, MakeStages
  <2> QED BY <2>1, CallOutside
<1>11. CASE AwaitFails
  BY <1>11, CallOutside DEF AwaitFails, Raise, Leave, MakeStages
<1> QED BY <1>1, <1>2, <1>3, <1>4, <1>5, <1>6, <1>7, <1>8, <1>9, <1>10, <1>11 DEF Next

\* A step of a call that may not overwrite changes no credential.
LEMMA StepKeeps ==
  Inv /\ CallInv /\ [Next]_vars =>
    (job.existed /\ ~job.overwrite /\ pc \in MakeStages =>
       WithoutPeers(disk') = WithoutPeers(disk))
<1> SUFFICES ASSUME Inv, CallInv, [Next]_vars, job.existed, ~job.overwrite, pc \in MakeStages
             PROVE  WithoutPeers(disk') = WithoutPeers(disk)
  OBVIOUS
<1>1. disk.exists /\ pc \notin {"open", "populate", "save", "close"}
  BY DEF CallInv, Kept, Filled
<1>2. disk' = disk \/ disk' = [disk EXCEPT !.peers = @ \cup {disk.auth_key}]
  <2>1. CASE UNCHANGED vars
    BY <2>1 DEF vars
  <2>2. CASE NewClient \/ Connect \/ Disconnect \/ UseCurrentSession \/ CreateNewSession
             \/ FromPyrogram
    BY <2>2 DEF NewClient, Connect, Disconnect, UseCurrentSession, CreateNewSession,
         FromPyrogram, MakeStages
  <2>3. CASE CachePeers
    BY <2>3 DEF CachePeers
  <2>4. CASE Crash \/ Login \/ LoginUser \/ LoginDisconnect \/ AwaitFails
    BY <2>4 DEF Crash, Login, LoginUser, LoginDisconnect, AwaitFails, Raise
  <2>5. CASE MakeSteps
    BY <2>5, <1>1 DEF MakeSteps, ExportSessionString, CheckFile, OpenSession,
         OpenSessionFails, Populate, Save, PopulateFails, CloseSession, GoTo
  <2>6. CASE ReadSteps
    BY <2>6 DEF ReadSteps, Probe, Reopen, ReopenFails, ReadDcFails, ReadCredential, ReadKey, Read,
         ReadFails, CloseRead, CloseReadFails, ReturnCredentials, Start,
         StartFails, GetMe, GoTo, Raise, MakeStages
  <2> QED BY <2>1, <2>2, <2>3, <2>4, <2>5, <2>6 DEF Next
<1> QED BY <1>2 DEF WithoutPeers, Inv, StorageInv, Sessions

\* A client that is returned for a file finds the account's session in it.
LEMMA StepReturns ==
  Inv /\ CallInv /\ [Next]_vars =>
    (pc = "close" /\ result' = "client" /\ pc' = "idle" => disk' = Populated(job.auth))
<1> SUFFICES ASSUME Inv, CallInv, [Next]_vars, pc = "close", result' = "client", pc' = "idle"
             PROVE  disk' = Populated(job.auth)
  OBVIOUS
<1>1. CloseSession
  <2>1. ~UNCHANGED vars
    BY DEF vars
  <2>2. ~(NewClient \/ Connect \/ Disconnect \/ CachePeers \/ Crash \/ UseCurrentSession
          \/ CreateNewSession \/ Login \/ LoginUser \/ LoginDisconnect \/ FromPyrogram
          \/ AwaitFails)
    BY DEF NewClient, Connect, Disconnect, CachePeers, Crash, UseCurrentSession,
         CreateNewSession, Login, LoginUser, LoginDisconnect, FromPyrogram, AwaitFails,
         Raise, GoTo, Leave
  <2>3. ~ReadSteps
    BY DEF ReadSteps, Probe, Reopen, ReopenFails, ReadDcFails, ReadCredential, ReadKey, Read,
         ReadFails, CloseRead, CloseReadFails, ReturnCredentials, Start,
         StartFails, GetMe, GoTo, Raise
  <2>4. MakeSteps
    BY <2>1, <2>2, <2>3 DEF Next
  <2> QED BY <2>4 DEF MakeSteps, ExportSessionString, CheckFile, OpenSession,
         OpenSessionFails, Populate, Save, PopulateFails, GoTo
<1>2. job.failed = "no"
  BY <1>1 DEF CloseSession, Leave, Inv, Filling, Jobs, Errors
<1>3. disk' = disk
  BY <1>1 DEF CloseSession
<1>4. job.auth \in Auths /\ disk \in Sessions
  BY DEF Inv, StorageInv, Filling, MakeStages
<1>5. disk.exists /\ disk.peers = {}
      /\ \A i \in 1 .. 6 : disk[FieldOrder[i]] = Populated(job.auth)[FieldOrder[i]]
  BY <1>2 DEF CallInv, Progress
<1> QED BY <1>3, <1>4, <1>5, AllFields

\* Without overwrite, make_client and ToPyrogram change no credential of a
\* session that is there when they are called ("An existing file of that name
\* raises FileExistsError unless overwrite=True"), wherever they fail.
THEOREM SessionsKept == Spec => KeptWithoutOverwrite
<1> QED BY InitInv, NextInv, CallBegins, NextCall, StepKeeps, PTL
      DEF Spec, KeptWithoutOverwrite

\* The client make_client returns for a file opens the session of the account
\* and nothing of what was in the file before.
THEOREM OwnSessions == Spec => ReturnsOwnSession
<1> QED BY InitInv, NextInv, CallBegins, NextCall, StepReturns, PTL
      DEF Spec, ReturnsOwnSession

-----------------------------------------------------------------------------
(* What FromPyrogram reads.  A key is in a file only beside its data center *)
(* (_populate writes that first), so that whatever a call that failed or    *)
(* died has left, the credentials that are read belong together; and the    *)
(* storage that is read is that of the file or of the string throughout.    *)

DiskKeyed ==
  /\ disk.auth_key # Unset => disk.dc_id = disk.auth_key
  /\ pc = "populate" /\ job.pos <= 4 => disk.auth_key = Unset

\* The storage of a session string holds the string, or no key yet.
OwnIsString ==
  client.kind = "string" /\ client.storage = "own" /\ client.own.auth_key # Unset =>
    /\ client.own.dc_id = client.auth
    /\ client.own.auth_key = client.auth
    /\ client.own.user_id = client.auth

\* The session a client that is not stale is opened on.
Source == IF client.kind = "file" THEN disk ELSE Populated(client.auth)

Late    == pc \in {"finally", "expects", "async with", "me"} /\ job.failed = "no"
GotUser == pc \in {"test_mode", "is_bot"} \/ Late
GotKey  == pc = "user_id" \/ GotUser
GotDc   == (pc = "auth_key" /\ Stored.auth_key # Unset) \/ GotKey

Reading ==
  pc \in ReadStages /\ ~job.stale =>
    /\ client.kind = "file" => client.storage # "own"
    /\ pc \in {"dc_id", "auth_key", "user_id", "test_mode", "is_bot", "me"} => Open(client)
    /\ pc \in {"async with", "me"} => job.failed = "no"
    /\ pc = "user_id" => Stored.auth_key # Unset
    /\ GotDc => job.dc_id = Source.dc_id
    /\ GotKey => job.auth_key = Source.auth_key /\ job.auth_key # Unset
    /\ GotUser => job.user_id = Source.user_id

ReadInv == DiskKeyed /\ OwnIsString /\ Reading /\ AccountIsOne

LEMMA FreshKeyless ==
  NoSession.auth_key = Unset /\ \A dc \in FreshDcs : Fresh(dc).auth_key = Unset
BY DEF NoSession, Fresh

LEMMA ReadBegins == Init => ReadInv
<1> SUFFICES ASSUME Init PROVE ReadInv
  OBVIOUS
<1>1. DiskKeyed
  <2>1. disk = NoSession \/ (\E dc \in FreshDcs : disk = Fresh(dc))
        \/ (\E a \in Auths : disk.dc_id = a /\ disk.auth_key = a)
    BY DEF Init, LeftSessions, SessionsOf
  <2>2. disk.auth_key # Unset => disk.dc_id = disk.auth_key
    BY <2>1, FreshKeyless
  <2> QED BY <2>2 DEF DiskKeyed, Init
<1>2. OwnIsString
  BY DEF Init, OwnIsString, FileClient
<1> QED BY <1>1, <1>2 DEF Init, ReadInv, Reading, ReadStages, AccountIsOne

\* What is stored is what the source holds.
LEMMA StoredIsSource ==
  ASSUME Inv, ReadInv, pc \in ReadStages, ~job.stale, Open(client),
         Stored.auth_key # Unset
  PROVE  /\ Stored.dc_id = Source.dc_id
         /\ Stored.auth_key = Source.auth_key
         /\ Stored.user_id = Source.user_id
<1>1. CASE client.kind = "file"
  <2>1. client.storage = "file"
    BY <1>1 DEF ReadInv, Reading, Open, Inv, StorageInv, Clients, Storages
  <2> QED BY <1>1, <2>1 DEF Stored, Source
<1>2. CASE client.kind = "string"
  <2>1. client.storage = "own"
    BY <1>2 DEF Open, Inv, StorageInv, Clients, Storages
  <2> QED BY <1>2, <2>1 DEF Stored, Source, ReadInv, OwnIsString, Populated
<1> QED BY <1>1, <1>2 DEF Inv, StorageInv, Clients

\* The credentials of the source belong together.
LEMMA SourceKeyed ==
  ASSUME Inv, ReadInv, Source.auth_key # Unset
  PROVE  /\ Source.auth_key \in Auths
         /\ Source.dc_id = Source.auth_key
         /\ Source.user_id \in {Source.auth_key, Unset}
<1>1. CASE client.kind = "file"
  <2>1. PICK a \in Auths : OfOne(a, disk)
    BY DEF Inv, StorageInv, NeverBlended
  <2> QED BY <1>1, <2>1 DEF Source, OfOne, ReadInv, DiskKeyed
<1>2. CASE client.kind # "file"
  <2>1. client.auth \in Auths
    BY <1>2 DEF Inv, StorageInv, Clients
  <2> QED BY <1>2, <2>1 DEF Source, Populated
<1> QED BY <1>1, <1>2

\* Steps that leave the source alone keep what was read.
LEMMA SameSource ==
  ASSUME client'.kind = client.kind, client'.auth = client.auth,
         disk'.dc_id = disk.dc_id, disk'.auth_key = disk.auth_key,
         disk'.user_id = disk.user_id
  PROVE  /\ Source'.dc_id = Source.dc_id
         /\ Source'.auth_key = Source.auth_key
         /\ Source'.user_id = Source.user_id
BY DEF Source, Populated

\* Opening a storage.
LEMMA OpenReads ==
  ASSUME Inv, ReadInv, OpenStorage
  PROVE  /\ OwnIsString' /\ Open(client)'
         /\ client'.kind = client.kind /\ client'.auth = client.auth
         /\ client'.kind = "file" => client'.storage = "file"
         /\ disk'.auth_key # Unset => disk'.dc_id = disk'.auth_key
         /\ disk.exists \/ client.kind # "file" => disk' = disk
<1>1. CASE client.kind = "string"
  <2>1. client' = [client EXCEPT !.storage = "own", !.own = Populated(client.auth)]
        /\ disk' = disk
    BY <1>1 DEF OpenStorage
  <2>2. client'.storage = "own" /\ client'.own = Populated(client.auth)
        /\ client'.kind = client.kind /\ client'.auth = client.auth
    BY <2>1 DEF Inv, StorageInv, Clients
  <2> QED BY <1>1, <2>1, <2>2 DEF OwnIsString, Open, Populated, ReadInv, DiskKeyed
<1>2. CASE client.kind = "file"
  <2>1. client' = [client EXCEPT !.storage = "file", !.own = NoSession]
        /\ \/ disk.exists /\ disk' = disk
           \/ ~disk.exists /\ \E dc \in FreshDcs : disk' = Fresh(dc)
    BY <1>2 DEF OpenStorage
  <2>2. client'.storage = "file" /\ client'.kind = client.kind /\ client'.auth = client.auth
    BY <2>1 DEF Inv, StorageInv, Clients
  <2>3. disk'.auth_key # Unset => disk'.dc_id = disk'.auth_key
    BY <2>1, FreshKeyless DEF ReadInv, DiskKeyed
  <2> QED BY <1>2, <2>1, <2>2, <2>3 DEF OwnIsString, Open
<1> QED BY <1>1, <1>2 DEF Inv, StorageInv, Clients

LEMMA CutShortReads ==
  ASSUME Inv, ReadInv, OpenCutShort
  PROVE  /\ OwnIsString'
         /\ disk'.auth_key # Unset => disk'.dc_id = disk'.auth_key
<1>1. disk'.auth_key # Unset => disk'.dc_id = disk'.auth_key
  BY FreshKeyless DEF OpenCutShort, ReadInv, DiskKeyed
<1>2. CASE client' = client
  BY <1>1, <1>2 DEF OwnIsString, ReadInv
<1>3. ASSUME NEW dc \in FreshDcs,
             client' = [client EXCEPT !.storage = "own", !.own = Fresh(dc)]
      PROVE  OwnIsString'
  <2>1. client'.own = Fresh(dc)
    BY <1>3 DEF Inv, StorageInv, Clients
  <2> QED BY <2>1, FreshKeyless DEF OwnIsString
<1> QED BY <1>1, <1>2, <1>3 DEF OpenCutShort

LEMMA CloseReads ==
  ASSUME Inv, ReadInv, client' = Closed(client)
  PROVE  /\ OwnIsString'
         /\ client'.kind = client.kind /\ client'.auth = client.auth
         /\ client'.storage = "closed"
BY DEF Closed, OwnIsString, Inv, StorageInv, Clients

LEMMA MakeReads == Inv /\ CallInv /\ ReadInv /\ MakeSteps => ReadInv'
<1> SUFFICES ASSUME Inv, CallInv, ReadInv, MakeSteps PROVE ReadInv'
  OBVIOUS
<1>1. Reading' /\ AccountIsOne'
  <2>1. pc' \notin ReadStages
    BY DEF MakeSteps, ExportSessionString, CheckFile, OpenSession, OpenSessionFails,
       Populate, Save, PopulateFails, CloseSession, Return, GoTo, Leave, ReadStages
  <2>2. pc' = "idle" => result' # "account"
    BY DEF MakeSteps, ExportSessionString, CheckFile, OpenSession, OpenSessionFails,
       Populate, Save, PopulateFails, CloseSession, Return, GoTo, Leave, Inv, Filling,
       Jobs, Errors
  <2> QED BY <2>1, <2>2 DEF Reading, AccountIsOne
<1>2. OwnIsString'
  <2>1. CASE client' = client
    BY <2>1 DEF OwnIsString, ReadInv
  <2>2. CASE client'.storage = "closed"
    BY <2>2 DEF OwnIsString
  <2>3. CASE client.storage = "file" /\ client' = [client EXCEPT !.storage = "own", !.own = disk]
    <3>1. client'.kind = "file"
      BY <2>3 DEF Inv, StorageInv, Clients
    <3> QED BY <3>1 DEF OwnIsString
  <2>4. client' = client \/ client'.storage = "closed"
        \/ (client.storage = "file" /\ client' = [client EXCEPT !.storage = "own", !.own = disk])
    BY NewClients DEF MakeSteps, ExportSessionString, CheckFile, Unlink, OpenSession,
       OpenSessionFails, Populate, Save, PopulateFails, CloseSession, Return, Inv, Filling,
       MakeStages
  <2> QED BY <2>1, <2>2, <2>3, <2>4
<1>3. DiskKeyed'
  <2>1. CASE Populate
    <3> DEFINE f == FieldOrder[job.pos]
    <3>0. disk' = [disk EXCEPT ![f] = Populated(job.auth)[f]]
      BY <2>1, Zenon DEF Populate
    <3> HIDE DEF f
    <3>1. pc = "populate" /\ job' = [job EXCEPT !.pos = job.pos + 1]
      BY <2>1 DEF Populate, GoTo
    <3>2. job.auth \in Auths /\ job.pos \in 1 .. 6 /\ disk \in Sessions
      BY <3>1, Orders DEF Jobs, Inv, Filling, StorageInv, MakeStages
    <3>3. job'.pos = job.pos + 1
      BY <3>1, <3>2 DEF Jobs, Inv, Filling
    <3>4. \A k \in 1 .. 6 : disk'[FieldOrder[k]] =
            IF k = job.pos THEN Populated(job.auth)[f] ELSE disk[FieldOrder[k]]
      BY <3>0, <3>2, SetterOnly DEF f
    <3>5. FieldOrder[1] = "dc_id" /\ FieldOrder[4] = "auth_key"
      BY DEF FieldOrder
    <3>6. Populated(job.auth).auth_key = job.auth /\ Populated(job.auth).dc_id = job.auth
      BY DEF Populated
    <3>7. disk'.dc_id = (IF job.pos = 1 THEN job.auth ELSE disk.dc_id)
          /\ disk'.auth_key = (IF job.pos = 4 THEN job.auth ELSE disk.auth_key)
      BY <3>4, <3>5, <3>6 DEF f
    <3>8. job.pos > 1 => disk.dc_id = job.auth
      BY <3>1, <3>2, <3>5, <3>6 DEF CallInv, Progress
    <3> QED BY <3>1, <3>2, <3>3, <3>7, <3>8 DEF DiskKeyed, ReadInv
  <2>2. CASE OpenSession \/ OpenSessionFails
    <3>1. disk' = disk \/ \E dc \in FreshDcs : disk' = Fresh(dc)
      BY <2>2 DEF OpenSession, OpenSessionFails
    <3>2. pc' = "populate" => \E dc \in FreshDcs : disk' = Fresh(dc)
      BY <2>2 DEF OpenSession, OpenSessionFails, GoTo, Leave, Inv, Filling
    <3> QED BY <3>1, <3>2, FreshKeyless DEF DiskKeyed, ReadInv
  <2>3. CASE CheckFile
    <3>1. (disk' = disk \/ disk' = NoSession) /\ pc' # "populate"
      BY <2>3 DEF CheckFile, Unlink, GoTo, Leave
    <3> QED BY <3>1 DEF DiskKeyed, ReadInv, NoSession
  <2>4. CASE ExportSessionString \/ Save \/ PopulateFails \/ CloseSession
    <3>1. disk' = disk /\ pc' # "populate"
      BY <2>4 DEF ExportSessionString, Save, PopulateFails, CloseSession, Return, GoTo, Leave
    <3> QED BY <3>1 DEF DiskKeyed, ReadInv
  <2> QED BY <2>1, <2>2, <2>3, <2>4 DEF MakeSteps
<1> QED BY <1>1, <1>2, <1>3 DEF ReadInv

\* Every request reads a field of the source; what is returned is of one
\* account.
LEMMA ReadReads == Inv /\ ReadInv /\ ReadSteps => ReadInv'
<1> SUFFICES ASSUME Inv, ReadInv, ReadSteps PROVE ReadInv'
  OBVIOUS
<1> USE DEF ReadStages
<1>0. /\ pc \in ReadStages /\ pc' \in ReadStages \cup {"idle"}
      /\ job \in Jobs
  BY DEF ReadSteps, Probe, Reopen, ReopenFails, ReadDcFails, ReadCredential, ReadKey, Read,
     ReadFails, CloseRead, CloseReadFails, ReturnCredentials, Start,
     StartFails, GetMe, GoTo, Leave, Raise, Inv, Filling
<1>a. ASSUME disk' = disk, pc' # "populate" PROVE DiskKeyed'
  BY <1>a DEF DiskKeyed, ReadInv
<1>b. ASSUME client' = client PROVE OwnIsString'
  BY <1>b DEF OwnIsString, ReadInv
<1>1. CASE Probe
  <2>1. disk' = disk /\ client' = client /\ pc' \in {"auth_key", "reopen"} /\ pc = "probe"
        /\ \/ Open(client) /\ pc' = "auth_key" /\ job' = [job EXCEPT !.dc_id = Stored.dc_id]
           \/ pc' = "reopen" /\ job' = job
    BY <1>1 DEF Probe, GoTo
  <2>2. job'.stale = job.stale /\ (pc' = "auth_key" => job'.dc_id = Stored.dc_id)
    BY <2>1, <1>0 DEF Jobs
  <2>3. Source' = Source /\ Open(client)' = Open(client) /\ Stored' = Stored
    BY <2>1 DEF Source, Open, Stored
  <2>4. Reading'
    BY <2>1, <2>2, <2>3, StoredIsSource DEF Reading, ReadInv, GotDc, GotKey, GotUser, Late
  <2> QED BY <2>1, <2>4, <1>a, <1>b DEF ReadInv, AccountIsOne
<1>2. CASE Reopen
  <2>1. OpenStorage /\ pc' = "dc_id" /\ job' = [job EXCEPT !.opened = TRUE]
    BY <1>2 DEF Reopen, GoTo
  <2>2. Reading'
    BY <2>1, OpenReads DEF Reading, GotDc, GotKey, GotUser, Late
  <2>3. DiskKeyed'
    BY <2>1, OpenReads DEF DiskKeyed
  <2> QED BY <2>1, <2>2, <2>3, OpenReads DEF ReadInv, AccountIsOne
<1>3. CASE ReadDcFails
  <2>1. disk' = disk /\ client' = client /\ pc' = "idle" /\ result' = "DcError"
    BY <1>3 DEF ReadDcFails, Raise, Leave
  <2> QED BY <2>1, <1>a, <1>b DEF ReadInv, Reading, AccountIsOne
<1>4. CASE ReadCredential \/ ReadFails
  <2>1. /\ disk' = disk /\ client' = client
        /\ pc \in {"dc_id", "auth_key", "user_id", "test_mode", "is_bot"}
        /\ \/ pc = "dc_id" /\ pc' = "auth_key" /\ job' = [job EXCEPT !.dc_id = Stored.dc_id]
           \/ /\ pc = "auth_key" /\ pc' = "user_id" /\ Stored.auth_key # Unset
              /\ job' = [job EXCEPT !.auth_key = Stored.auth_key]
           \/ pc = "user_id" /\ pc' = "test_mode" /\ job' = [job EXCEPT !.user_id = Stored.user_id]
           \/ /\ pc = "test_mode" /\ pc' = "is_bot"
              /\ job' = [job EXCEPT !.test_mode = Stored.test_mode]
           \/ pc = "is_bot" /\ pc' = "finally" /\ job' = [job EXCEPT !.is_bot = Stored.is_bot]
           \/ pc' = "finally" /\ job' = [job EXCEPT !.failed = "PyrogramUnauthorized"]
           \/ pc' = "finally" /\ job' = [job EXCEPT !.failed = "Error"]
    BY <1>4 DEF ReadCredential, ReadKey, Read, ReadFails, GoTo
  <2>2. Source' = Source /\ Open(client)' = Open(client) /\ Stored' = Stored
    BY <2>1 DEF Source, Open, Stored
  <2>3. /\ job'.stale = job.stale
        /\ \/ pc' = "finally" /\ job'.failed # "no"
           \/ /\ job'.dc_id = IF pc = "dc_id" THEN Stored.dc_id ELSE job.dc_id
              /\ job'.auth_key = IF pc = "auth_key" THEN Stored.auth_key ELSE job.auth_key
              /\ job'.user_id = IF pc = "user_id" THEN Stored.user_id ELSE job.user_id
              /\ pc = "auth_key" => Stored.auth_key # Unset
              /\ \/ pc = "dc_id" /\ pc' = "auth_key"
                 \/ pc = "auth_key" /\ pc' = "user_id"
                 \/ pc = "user_id" /\ pc' = "test_mode"
                 \/ pc = "test_mode" /\ pc' = "is_bot"
                 \/ pc = "is_bot" /\ pc' = "finally"
    BY <2>1, <1>0 DEF Jobs
  <2>4. Reading'
    <3> SUFFICES ASSUME ~job'.stale PROVE Reading'
      BY DEF Reading
    <3>1. Open(client) /\ ~job.stale
      BY <2>1, <2>3 DEF ReadInv, Reading
    <3>2. Stored.auth_key # Unset =>
            /\ Stored.dc_id = Source.dc_id /\ Stored.auth_key = Source.auth_key
            /\ Stored.user_id = Source.user_id
      BY <1>0, <3>1, StoredIsSource
    <3>3. CASE pc' = "finally" /\ job'.failed # "no"
      BY <2>1, <2>2, <3>1, <3>3 DEF Reading, ReadInv, GotDc, GotKey, GotUser, Late
    <3>4. CASE ~(pc' = "finally" /\ job'.failed # "no")
      BY <1>0, <2>1, <2>2, <2>3, <3>1, <3>2, <3>4
         DEF Reading, ReadInv, GotDc, GotKey, GotUser, Late
    <3> QED BY <3>3, <3>4
  <2> QED BY <2>1, <2>3, <2>4, <1>a, <1>b DEF ReadInv, AccountIsOne
<1>5. CASE CloseRead
  <2>1. disk' = disk /\ job' = job /\ pc = "finally" /\ pc' = "expects"
        /\ (client' = Closed(client) \/ client' = client)
    BY <1>5 DEF CloseRead, GoTo
  <2>2. /\ client'.kind = client.kind /\ client'.auth = client.auth
        /\ client'.storage \in {client.storage, "closed"}
        /\ OwnIsString'
    BY <2>1, <1>b, CloseReads
  <2>3. Source' = Source
    BY <2>1, <2>2 DEF Source
  <2>4. Reading'
    BY <2>1, <2>2, <2>3 DEF Reading, ReadInv, GotDc, GotKey, GotUser, Late
  <2> QED BY <2>1, <2>2, <2>4, <1>a DEF ReadInv, AccountIsOne
<1>6. CASE ReturnCredentials
  <2>1. disk' = disk /\ client' = client /\ job' = job /\ pc = "expects"
        /\ \/ pc' = "idle" /\ result' # "account"
           \/ pc' = "idle" /\ job.failed = "no" /\ job.user_id # Unset
           \/ pc' = "async with" /\ job.failed = "no"
    BY <1>6, <1>0 DEF ReturnCredentials, GoTo, Leave, Jobs, Errors
  <2>2. Source' = Source
    BY <2>1 DEF Source
  <2>3. Reading'
    BY <2>1, <2>2 DEF Reading, ReadInv, GotDc, GotKey, GotUser, Late
  <2>4. AccountIsOne'
    <3> SUFFICES ASSUME job.failed = "no", job.user_id # Unset, ~job.stale
                 PROVE  AccountIsOne'
      BY <2>1 DEF AccountIsOne
    <3>1. job.auth_key = Source.auth_key /\ job.auth_key # Unset
          /\ job.dc_id = Source.dc_id /\ job.user_id = Source.user_id
      BY <2>1 DEF Reading, ReadInv, GotDc, GotKey, GotUser, Late
    <3>2. job.auth_key \in Auths /\ job.dc_id = job.auth_key /\ job.user_id = job.auth_key
      BY <3>1, SourceKeyed
    <3> QED BY <2>1, <3>2 DEF AccountIsOne
  <2> QED BY <2>1, <2>3, <2>4, <1>a, <1>b DEF ReadInv
<1>7. CASE Start
  <2>1. OpenStorage /\ pc = "async with" /\ pc' = "me" /\ job' = job
    BY <1>7 DEF Start, GoTo
  <2>2. DiskKeyed'
    BY <2>1, OpenReads DEF DiskKeyed
  <2>3. Reading'
    <3> SUFFICES ASSUME ~job.stale PROVE Reading'
      BY <2>1 DEF Reading
    <3>1. job.failed = "no" /\ job.auth_key = Source.auth_key /\ job.auth_key # Unset
          /\ job.dc_id = Source.dc_id /\ job.user_id = Source.user_id
      BY <2>1 DEF Reading, ReadInv, GotDc, GotKey, GotUser, Late
    <3>2. disk' = disk
      <4>1. CASE client.kind = "file"
        <5>1. disk # NoSession
          BY <3>1, <4>1 DEF Source, NoSession
        <5> QED BY <5>1, <2>1, OpenReads DEF Inv, StorageInv
      <4> QED BY <4>1, <2>1, OpenReads
    <3>3. Source' = Source
      BY <3>2, <2>1, OpenReads DEF Source
    <3> QED BY <2>1, <3>1, <3>3, OpenReads DEF Reading, GotDc, GotKey, GotUser, Late
  <2> QED BY <2>1, <2>2, <2>3, OpenReads DEF ReadInv, AccountIsOne
<1>8. CASE GetMe
  <2>1. disk' = disk /\ (client' = Closed(client) \/ client' = client) /\ pc = "me" /\ pc' = "idle"
        /\ \/ /\ Stored.auth_key # Unset
              /\ job' = [job EXCEPT !.user_id = Stored.auth_key]
              /\ result' = "account"
           \/ result' = "Error" /\ job' = job
    BY <1>8 DEF GetMe, Leave
  <2>2. AccountIsOne'
    <3> SUFFICES ASSUME result' = "account", ~job'.stale PROVE AccountIsOne'
      BY DEF AccountIsOne
    <3>1. job' = [job EXCEPT !.user_id = Stored.auth_key] /\ Stored.auth_key # Unset
      BY <2>1
    <3>2. job'.user_id = Stored.auth_key /\ job'.auth_key = job.auth_key
          /\ job'.dc_id = job.dc_id /\ ~job.stale
      BY <3>1, <1>0 DEF Jobs
    <3>3. job.failed = "no" /\ Open(client)
      BY <1>0, <2>1, <3>2 DEF Reading, ReadInv
    <3>4. job.auth_key = Source.auth_key /\ job.auth_key # Unset /\ job.dc_id = Source.dc_id
      BY <1>0, <2>1, <3>2, <3>3 DEF Reading, ReadInv, GotDc, GotKey, GotUser, Late
    <3>5. Stored.auth_key = Source.auth_key
      BY <1>0, <3>1, <3>2, <3>3, StoredIsSource
    <3>6. Source.auth_key \in Auths /\ Source.dc_id = Source.auth_key
      BY <3>4, SourceKeyed
    <3> QED BY <3>2, <3>4, <3>5, <3>6 DEF AccountIsOne
  <2>3. OwnIsString'
    BY <2>1, <1>b, CloseReads
  <2> QED BY <2>1, <2>2, <2>3, <1>a DEF ReadInv, Reading
<1>9. CASE ReopenFails \/ StartFails \/ CloseReadFails
  <2>1. pc' = "idle" /\ result' # "account"
        /\ \/ OpenStorage \/ OpenCutShort
           \/ disk' = disk /\ (client' = Closed(client) \/ client' = client)
    BY <1>9 DEF ReopenFails, StartFails, CloseReadFails, Leave
  <2>2. DiskKeyed'
    BY <2>1, <1>a, OpenReads, CutShortReads DEF DiskKeyed
  <2>3. OwnIsString'
    BY <2>1, <1>b, OpenReads, CutShortReads, CloseReads
  <2> QED BY <2>1, <2>2, <2>3 DEF ReadInv, Reading, AccountIsOne
<1> QED BY <1>1, <1>2, <1>3, <1>4, <1>5, <1>6, <1>7, <1>8, <1>9 DEF ReadSteps

LEMMA NextRead == Inv /\ CallInv /\ ReadInv /\ [Next]_vars => ReadInv'
<1> SUFFICES ASSUME Inv, CallInv, ReadInv, [Next]_vars PROVE ReadInv'
  OBVIOUS
<1>1. CASE UNCHANGED vars
  BY <1>1 DEF vars, ReadInv, DiskKeyed, OwnIsString, Reading, AccountIsOne, Source, Late,
     GotUser, GotKey, GotDc, Open, Stored
<1>2. CASE NewClient
  <2>1. disk' = disk /\ client' = FileClient /\ job' = job /\ pc' = pc /\ pc = "idle"
        /\ result' = result
    BY <1>2 DEF NewClient
  <2> QED BY <2>1, NewClients DEF ReadInv, DiskKeyed, OwnIsString, Reading, AccountIsOne, ReadStages
<1>3. CASE Connect
  <2>1. (OpenStorage \/ OpenCutShort) /\ job' = job /\ pc' = pc /\ pc = "idle"
        /\ result' = result
    BY <1>3 DEF Connect
  <2> QED BY <2>1, OpenReads, CutShortReads
       DEF ReadInv, DiskKeyed, Reading, AccountIsOne, ReadStages
<1>4. CASE Disconnect
  <2>1. disk' = disk /\ client' = Closed(client) /\ job' = job /\ pc' = pc /\ pc = "idle"
        /\ result' = result
    BY <1>4 DEF Disconnect
  <2> QED BY <2>1, CloseReads DEF ReadInv, DiskKeyed, Reading, AccountIsOne, ReadStages
<1>5. CASE CachePeers
  <2>1. job' = job /\ pc' = pc /\ result' = result
    BY <1>5 DEF CachePeers
  <2>2. /\ client'.kind = client.kind /\ client'.auth = client.auth
        /\ client'.storage = client.storage
        /\ disk'.dc_id = disk.dc_id /\ disk'.auth_key = disk.auth_key
        /\ disk'.user_id = disk.user_id
        /\ Stored'.auth_key = Stored.auth_key
        /\ OwnIsString'
    <3>1. CASE client.storage = "file"
      <4>1. disk' = [disk EXCEPT !.peers = @ \cup {disk.auth_key}] /\ client' = client
            /\ disk \in Sessions
        BY <1>5, <3>1 DEF CachePeers, Inv, StorageInv
      <4> QED BY <4>1, <3>1 DEF Sessions, OwnIsString, ReadInv, Stored
    <3>2. CASE client.storage = "own"
      <4>1. disk' = disk /\ client' = [client EXCEPT !.own.peers = @ \cup {client.own.auth_key}]
        BY <1>5, <3>2 DEF CachePeers
      <4> QED BY <4>1, <3>2 DEF Inv, StorageInv, Clients, Sessions, OwnIsString, ReadInv,
             Stored
    <3> QED BY <1>5, <3>1, <3>2 DEF CachePeers
  <2>3. /\ Source'.dc_id = Source.dc_id /\ Source'.auth_key = Source.auth_key
        /\ Source'.user_id = Source.user_id
    BY <2>2, SameSource
  <2>4. Reading'
    BY <2>1, <2>2, <2>3 DEF Reading, ReadInv, GotDc, GotKey, GotUser, Late, Open
  <2> QED BY <2>1, <2>2, <2>4 DEF ReadInv, DiskKeyed, AccountIsOne
<1>6. CASE Crash
  <2>1. disk' = disk /\ client' = FileClient /\ pc' = "idle" /\ result' = "none"
    BY <1>6 DEF Crash, Leave
  <2> QED BY <2>1, NewClients DEF ReadInv, DiskKeyed, OwnIsString, Reading, AccountIsOne, ReadStages
<1>7. CASE UseCurrentSession \/ CreateNewSession \/ Login \/ LoginUser \/ LoginDisconnect
           \/ AwaitFails
  <2>1. disk' = disk /\ client' = client /\ pc' \notin ReadStages \cup {"populate"}
    BY <1>7 DEF UseCurrentSession, CreateNewSession, Login, LoginUser, LoginDisconnect,
       AwaitFails, Raise, Leave, GoTo, MakeFrom, ReadStages
  <2>2. pc' = "idle" => result' # "account"
    BY <1>7 DEF UseCurrentSession, CreateNewSession, Login, LoginUser, LoginDisconnect,
       AwaitFails, Raise, Leave, GoTo, MakeFrom, Inv, Filling, Jobs, Errors
  <2> QED BY <2>1, <2>2 DEF ReadInv, DiskKeyed, OwnIsString, Reading, AccountIsOne
<1>8. CASE MakeSteps
  BY <1>8, MakeReads
<1>9. CASE FromPyrogram
  <2>1. disk' = disk /\ client' = client /\ pc' = "probe"
        /\ job' = [NoJob EXCEPT !.found = client.storage,
                     !.stale = client.kind = "file" /\ client.storage = "own"]
    BY <1>9 DEF FromPyrogram
  <2>2. job'.stale = (client.kind = "file" /\ client.storage = "own")
    BY <2>1 DEF NoJob
  <2>3. Reading'
    BY <2>1, <2>2 DEF Reading, GotDc, GotKey, GotUser, Late
  <2> QED BY <2>1, <2>3 DEF ReadInv, DiskKeyed, OwnIsString, AccountIsOne
<1>10. CASE ReadSteps
  BY <1>10, ReadReads
<1> QED BY <1>1, <1>2, <1>3, <1>4, <1>5, <1>6, <1>7, <1>8, <1>9, <1>10 DEF Next

\* An account made from a Pyrogram client has the key, the data center and the
\* user of one authorization, whatever make_client calls failed or died in the
\* file before: dc_id is written before auth_key, and nothing is read of a
\* session without a key.
THEOREM AccountsOfOne == Spec => []AccountIsOne
<1>1. ReadInv => AccountIsOne
  BY DEF ReadInv
<1> QED BY InitInv, NextInv, CallBegins, NextCall, ReadBegins, NextRead, <1>1, PTL DEF Spec

-----------------------------------------------------------------------------
(* read_credentials and the storage it is given.                            *)

\* A storage that was not opened here is as it was found; one that was is
\* open until it is closed again, and closed when anything is returned.
Leaving ==
  pc \in ReadStages \ {"async with", "me"} =>
    /\ ~job.opened => client.storage = job.found
    /\ job.opened => IF pc = "expects" THEN client.storage = "closed" ELSE Open(client)
    /\ pc \in {"probe", "reopen"} => ~job.opened

LEMMA LeavingBegins == Init => Leaving
BY DEF Init, Leaving, ReadStages

LEMMA NextLeaving == Inv /\ Leaving /\ [Next]_vars => Leaving'
<1> SUFFICES ASSUME Inv, Leaving, [Next]_vars PROVE Leaving'
  OBVIOUS
<1> USE DEF ReadStages
<1>1. CASE UNCHANGED vars
  BY <1>1 DEF vars, Leaving, Open
<1>2. CASE NewClient \/ Connect \/ Disconnect
  BY <1>2 DEF NewClient, Connect, Disconnect, Leaving
<1>3. CASE CachePeers
  <2>1. job' = job /\ pc' = pc
    BY <1>3 DEF CachePeers
  <2>2. client'.storage = client.storage
    BY <1>3 DEF CachePeers, Inv, StorageInv, Clients
  <2> QED BY <2>1, <2>2 DEF Leaving, Open
<1>4. CASE Crash \/ UseCurrentSession \/ CreateNewSession \/ Login \/ LoginUser
           \/ LoginDisconnect \/ AwaitFails \/ MakeSteps \/ ReopenFails
           \/ CloseReadFails \/ StartFails
  <2>1. pc' \notin ReadStages
    BY <1>4 DEF Crash, UseCurrentSession, CreateNewSession, Login, LoginUser,
       LoginDisconnect, AwaitFails, Raise, MakeSteps, ExportSessionString, CheckFile,
       OpenSession, OpenSessionFails, Populate, Save, PopulateFails, CloseSession,
       ReopenFails, CloseReadFails, StartFails, Return, GoTo, Leave, MakeFrom
  <2> QED BY <2>1 DEF Leaving
<1>5. CASE FromPyrogram
  <2>1. client' = client /\ pc' = "probe"
        /\ job' = [NoJob EXCEPT !.found = client.storage,
                     !.stale = client.kind = "file" /\ client.storage = "own"]
    BY <1>5 DEF FromPyrogram
  <2>2. job'.found = client.storage /\ ~job'.opened
    BY <2>1 DEF NoJob
  <2> QED BY <2>1, <2>2 DEF Leaving
<1>6. CASE Reopen
  <2>1. pc' = "dc_id" /\ job' = [job EXCEPT !.opened = TRUE] /\ OpenStorage
    BY <1>6 DEF Reopen, GoTo
  <2>2. job'.opened
    BY <2>1 DEF Inv, Filling, Jobs
  <2>3. client'.storage \in {"own", "file"}
    BY <2>1 DEF OpenStorage, Inv, StorageInv, Clients
  <2> QED BY <2>1, <2>2, <2>3 DEF Leaving, Open
<1>7. CASE Probe \/ ReadCredential \/ ReadFails
  <2>1. client' = client /\ pc \in ReadStages \ {"expects", "async with", "me"}
        /\ pc' \notin {"probe", "expects"} /\ (pc' = "reopen" => pc = "probe")
    BY <1>7 DEF Probe, ReadCredential, ReadKey, Read, ReadFails, GoTo
  <2>2. job'.opened = job.opened /\ job'.found = job.found
    BY <1>7 DEF Probe, ReadCredential, ReadKey, Read, ReadFails, Inv, Filling, Jobs
  <2> QED BY <2>1, <2>2 DEF Leaving, Open
<1>8. CASE CloseRead
  <2>1. job' = job /\ pc = "finally" /\ pc' = "expects"
        /\ client' = IF job.opened THEN Closed(client) ELSE client
    BY <1>8 DEF CloseRead, GoTo
  <2>2. Closed(client).storage = "closed"
    BY DEF Closed, Inv, StorageInv, Clients
  <2> QED BY <2>1, <2>2 DEF Leaving
<1>9. CASE ReadDcFails \/ ReturnCredentials \/ Start \/ GetMe
  BY <1>9 DEF ReadDcFails, ReturnCredentials, Start, GetMe, Raise, Leave, GoTo, Leaving
<1> QED BY <1>1, <1>2, <1>3, <1>4, <1>5, <1>6, <1>7, <1>8, <1>9 DEF Next, ReadSteps

\* The steps that end the reading, and what they do to the storage.
LEMMA StepLeaves ==
  Inv /\ Leaving /\ [Next]_vars =>
    (ReadEnds => \/ client'.storage = job.found
                 \/ job.opened /\ job.found # "closed" /\ ~Open(client')
                 \/ result' \in {"OpenError", "DcError", "CloseError"} /\ Open(client'))
<1> SUFFICES ASSUME Inv, Leaving, [Next]_vars, ReadEnds
             PROVE  \/ client'.storage = job.found
                    \/ job.opened /\ job.found # "closed" /\ ~Open(client')
                    \/ result' \in {"OpenError", "DcError", "CloseError"} /\ Open(client')
  OBVIOUS
<1>1. pc \in ReadStages \ {"async with", "me"}
  BY DEF ReadEnds
<1>2. \/ AwaitFails /\ pc = "probe"
      \/ ReturnCredentials \/ ReadDcFails \/ ReopenFails \/ CloseReadFails
  <2>1. CASE UNCHANGED vars
    BY <2>1, <1>1 DEF vars, ReadEnds, ReadStages
  <2>2. CASE NewClient \/ Connect \/ Disconnect \/ CachePeers \/ UseCurrentSession
             \/ CreateNewSession \/ Login \/ LoginUser \/ LoginDisconnect \/ FromPyrogram
             \/ MakeSteps
    BY <2>2, <1>1 DEF NewClient, Connect, Disconnect, CachePeers, UseCurrentSession,
       CreateNewSession, Login, LoginUser, LoginDisconnect, FromPyrogram, GoTo, MakeSteps,
       ExportSessionString, CheckFile, OpenSession, OpenSessionFails, Populate, Save,
       PopulateFails, CloseSession, ReadStages, ReadEnds
  <2>3. CASE Crash
    BY <2>3 DEF Crash, Leave, ReadEnds
  <2>4. CASE AwaitFails
    BY <2>4, <1>1 DEF AwaitFails, Raise, ReadStages
  <2>5. CASE ReadSteps
    <3>1. ~(Probe \/ Reopen \/ ReadCredential \/ ReadFails \/ CloseRead)
      BY <1>1 DEF Probe, Reopen, ReadCredential, ReadKey, Read, ReadFails, CloseRead,
         GoTo, ReadStages, ReadEnds
    <3>2. ~(Start \/ StartFails \/ GetMe)
      BY <1>1 DEF Start, StartFails, GetMe, GoTo
    <3> QED BY <2>5, <3>1, <3>2 DEF ReadSteps
  <2> QED BY <2>1, <2>2, <2>3, <2>4, <2>5 DEF Next
<1>3. CASE AwaitFails /\ pc = "probe"
  BY <1>3, <1>1 DEF AwaitFails, Raise, Leaving
<1>4. CASE ReturnCredentials
  BY <1>4, <1>1 DEF ReturnCredentials, GoTo, Leaving, Open
<1>5. CASE ReadDcFails
  BY <1>5, <1>1 DEF ReadDcFails, Raise, Leave, Leaving
<1>6. CASE ReopenFails
  <2>1. ~job.opened /\ client.storage = job.found /\ result' = "OpenError"
    BY <1>6, <1>1 DEF ReopenFails, Leave, Leaving
  <2>2. CASE client' = client
    BY <2>1, <2>2
  <2>3. CASE client' # client
    <3>1. client'.storage \in {"own", "file"}
      BY <1>6, <2>3 DEF ReopenFails, OpenStorage, OpenCutShort, Inv, StorageInv, Clients
    <3> QED BY <2>1, <3>1 DEF Open
  <2> QED BY <2>2, <2>3
<1>7. CASE CloseReadFails
  <2>1. job.opened /\ Open(client) /\ result' = "CloseError"
        /\ (client' = client \/ client' = Closed(client))
    BY <1>7, <1>1 DEF CloseReadFails, Leave, Leaving
  <2>2. Closed(client).storage = "closed"
    BY DEF Closed, Inv, StorageInv, Clients
  <2> QED BY <2>1, <2>2 DEF Open
<1> QED BY <1>2, <1>3, <1>4, <1>5, <1>6, <1>7

\* read_credentials leaves the storage as it was found, but for one found open
\* that counted as not open and is closed, and for a failing open(), first
\* request after it or close(), which may leave it open.
THEOREM StorageLeft == Spec => ReadLeavesStorage
<1> QED BY InitInv, NextInv, LeavingBegins, NextLeaving, StepLeaves, PTL
      DEF Spec, ReadLeavesStorage
=============================================================================
