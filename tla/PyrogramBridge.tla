-------------------------- MODULE PyrogramBridge ---------------------------
(***************************************************************************)
(* Conversion to and from Pyrogram sessions: Account.ToPyrogram and        *)
(* FromPyrogram (td/account.py), make_client and read_credentials          *)
(* (tl/pyrogram_bridge.py).  One caller makes one call after the other;    *)
(* every await of a call is a step; it may fail, before or after it had an *)
(* effect, or be the last one of the process.  The client the caller holds *)
(* goes on running meanwhile.                                              *)
(*                                                                         *)
(* Pyrogram is external: a session is the credentials and the cached peers *)
(* a storage holds, and every write of a credential is durable at once.    *)
(* Fingerprint and layer of the client are left out.                       *)
(***************************************************************************)
EXTENDS Integers, Sequences

CONSTANTS
  Auths,     \* authorizations: a key, with its data center and its user
  Unset,     \* a credential that is not there (None)
  FreshDcs   \* dc_id of a storage that was just created: depends on Pyrogram

ASSUME BridgeAssumption ==
  /\ Auths # {}
  /\ Unset \notin Auths
  /\ FreshDcs # {}
  /\ FreshDcs \subseteq Auths \cup {Unset}

VARIABLES
  disk,    \* the session in <name>.session
  client,  \* the Pyrogram client the caller holds
  pc,      \* the await the call is in
  job,     \* the local variables of the call
  result   \* how the last call ended

vars == <<disk, client, pc, job, result>>

Flags == {"yes", "no", Unset}

\* dc_id, api_id, ... as the columns are named in Pyrogram's storage; exists
\* is FALSE when there is no file.
Sessions == [exists : BOOLEAN, dc_id : Auths \cup {Unset},
             api_id : {"api", Unset}, test_mode : Flags,
             auth_key : Auths \cup {Unset}, user_id : Auths \cup {Unset},
             is_bot : Flags, peers : SUBSET Auths]

NoSession == [exists |-> FALSE, dc_id |-> Unset, api_id |-> Unset,
              test_mode |-> Unset, auth_key |-> Unset, user_id |-> Unset,
              is_bot |-> Unset, peers |-> {}]

\* What a storage holds when Pyrogram has just created it.
Fresh(dc) == [NoSession EXCEPT !.exists = TRUE, !.dc_id = dc]

\* The session of account a.
Populated(a) == [exists |-> TRUE, dc_id |-> a, api_id |-> "api",
                 test_mode |-> "no", auth_key |-> a, user_id |-> a,
                 is_bot |-> "no", peers |-> {}]

\* Mutant: the key is written first.
FieldOrderKeyFirst ==
  <<"auth_key", "api_id", "test_mode", "dc_id", "user_id", "is_bot">>

\* _populate
FieldOrder ==
  <<"dc_id", "api_id", "test_mode", "auth_key", "user_id", "is_bot">>

(***************************************************************************)
(* Clients: kind is "file" for Client(name), whose storage opens the file, *)
(* or "string" for one made from the session string of auth.  storage is   *)
(* "closed", open on the "file", or open on its "own": in memory, or a     *)
(* file that was unlinked since.                                           *)
(***************************************************************************)
Storages == {"closed", "file", "own"}

Clients == [kind : {"file", "string"}, auth : Auths \cup {Unset},
            storage : Storages, own : Sessions]

FileClient      == [kind |-> "file", auth |-> Unset, storage |-> "closed",
                    own |-> NoSession]
StringClient(a) == [FileClient EXCEPT !.kind = "string", !.auth = a]

Open(c)   == c.storage # "closed"
Stored    == IF client.storage = "file" THEN disk ELSE client.own

\* client.storage.open(): a session string is parsed again, a file is
\* created when it is not there.
OpenStorage ==
  \/ /\ client.kind = "string"
     /\ client' = [client EXCEPT !.storage = "own", !.own = Populated(client.auth)]
     /\ UNCHANGED disk
  \/ /\ client.kind = "file"
     /\ client' = [client EXCEPT !.storage = "file", !.own = NoSession]
     /\ \/ disk.exists /\ UNCHANGED disk
        \/ ~disk.exists /\ \E dc \in FreshDcs : disk' = Fresh(dc)

\* open() raises half way: nothing was done, the file was created, or the
\* session string was not parsed yet.
OpenCutShort ==
  \/ UNCHANGED <<disk, client>>
  \/ /\ client.kind = "file"
     /\ ~disk.exists
     /\ \E dc \in FreshDcs : disk' = Fresh(dc)
     /\ UNCHANGED client
  \/ /\ client.kind = "string"
     /\ \E dc \in FreshDcs :
          client' = [client EXCEPT !.storage = "own", !.own = Fresh(dc)]
     /\ UNCHANGED disk

Closed(c) == [c EXCEPT !.storage = "closed", !.own = NoSession]

Errors   == {"Error", "PyrogramUnauthorized"}

Jobs == [auth : Auths \cup {Unset}, overwrite : BOOLEAN, memory : BOOLEAN,
         pos : 1 .. Len(FieldOrder) + 1, failed : {"no"} \cup Errors,
         existed : BOOLEAN, found : Storages, stale : BOOLEAN,
         opened : BOOLEAN, dc_id : Auths \cup {Unset},
         auth_key : Auths \cup {Unset}, user_id : Auths \cup {Unset},
         test_mode : Flags, is_bot : Flags]

NoJob == [auth |-> Unset, overwrite |-> FALSE, memory |-> FALSE, pos |-> 1,
          failed |-> "no", existed |-> FALSE, found |-> "closed",
          stale |-> FALSE, opened |-> FALSE, dc_id |-> Unset,
          auth_key |-> Unset, user_id |-> Unset, test_mode |-> Unset,
          is_bot |-> Unset]

\* A session file that Pyrogram, or an earlier version of this code, left.
SessionsOf(a) ==
  {s \in Sessions : /\ s.exists
                    /\ s.api_id = "api"
                    /\ s.test_mode # Unset
                    /\ s.dc_id = a /\ s.auth_key = a
                    /\ s.user_id \in {a, Unset}
                    /\ s.peers = {a}}

LeftSessions == {NoSession} \cup {Fresh(dc) : dc \in FreshDcs}
                \cup UNION {SessionsOf(a) : a \in Auths}

Init ==
  /\ disk \in LeftSessions
  /\ client = FileClient
  /\ pc = "idle"
  /\ job = NoJob
  /\ result = "none"

GoTo(from, to) ==
  /\ pc = from
  /\ pc' = to
  /\ UNCHANGED result

\* The call ends; its local variables stay visible until the next one.
Leave(r) ==
  /\ pc' = "idle"
  /\ result' = r

Raise(from, error) ==
  /\ pc = from
  /\ Leave(error)
  /\ UNCHANGED <<disk, client, job>>

(***************************************************************************)
(* The caller and Pyrogram                                                 *)
(***************************************************************************)

NewClient ==
  /\ pc = "idle"
  /\ client' = FileClient
  /\ UNCHANGED <<disk, pc, job, result>>

Connect ==
  /\ pc = "idle"
  /\ ~Open(client)
  /\ OpenStorage \/ OpenCutShort
  /\ UNCHANGED <<pc, job, result>>

Disconnect ==
  /\ pc = "idle"
  /\ Open(client)
  /\ client' = Closed(client)
  /\ UNCHANGED <<disk, pc, job, result>>

\* A client that is running caches the peers its account meets, at any time.
CachePeers ==
  /\ Open(client)
  /\ Stored.auth_key # Unset
  /\ \/ /\ client.storage = "file"
        /\ disk' = [disk EXCEPT !.peers = @ \cup {disk.auth_key}]
        /\ UNCHANGED client
     \/ /\ client.storage = "own"
        /\ client' = [client EXCEPT !.own.peers = @ \cup {client.own.auth_key}]
        /\ UNCHANGED disk
  /\ UNCHANGED <<pc, job, result>>

\* The process dies; what was written stays.
Crash ==
  /\ pc # "idle"
  /\ client' = FileClient
  /\ job' = NoJob
  /\ Leave("none")
  /\ UNCHANGED disk

(***************************************************************************)
(* Account.ToPyrogram                                                      *)
(***************************************************************************)

MakeFrom(memory) == IF memory THEN "export" ELSE "check"

\* UseCurrentSession: the authorization of the account.
UseCurrentSession ==
  /\ pc = "idle"
  /\ \E a \in Auths, memory \in BOOLEAN, overwrite \in BOOLEAN :
       /\ job' = [NoJob EXCEPT !.auth = a, !.memory = memory,
                               !.overwrite = overwrite, !.existed = disk.exists]
       /\ pc' = MakeFrom(memory)
  /\ UNCHANGED <<disk, client, result>>

\* CreateNewSession: a QR login over Telethon comes first.
CreateNewSession ==
  /\ pc = "idle"
  /\ \E memory \in BOOLEAN, overwrite \in BOOLEAN :
       job' = [NoJob EXCEPT !.memory = memory, !.overwrite = overwrite,
                            !.existed = disk.exists]
  /\ pc' = "login"
  /\ UNCHANGED <<disk, client, result>>

\* ToTelethon, and its client connects.
Login ==
  /\ \/ GoTo("login", "get_me") \/ GoTo("login", "disconnect")
  /\ \E a \in Auths : job' = [job EXCEPT !.auth = a]
  /\ UNCHANGED <<disk, client>>

\* get_me, when the user is not known; the client disconnects in any case.
LoginUser ==
  /\ GoTo("get_me", "disconnect")
  /\ \E failed \in {"no", "Error"} : job' = [job EXCEPT !.failed = failed]
  /\ UNCHANGED <<disk, client>>

LoginDisconnect ==
  /\ pc = "disconnect"
  /\ \/ job.failed = "no" /\ GoTo("disconnect", MakeFrom(job.memory))
     \/ job.failed # "no" /\ Leave(job.failed)
  /\ UNCHANGED <<disk, client, job>>

(***************************************************************************)
(* make_client                                                             *)
(***************************************************************************)

\* The caller goes on with the client that is returned, or with the old one.
Return(c) ==
  /\ Leave("client")
  /\ client' \in {client, c}

\* Mutant: the session string is not handed to the client.
ExportWithoutString ==
  /\ pc = "export"
  /\ Return([StringClient(job.auth) EXCEPT !.auth = Unset])
  /\ UNCHANGED <<disk, job>>

\* In memory: export_session_string, whose storage is private to the call.
ExportSessionString ==
  /\ pc = "export"
  /\ Return(StringClient(job.auth))
  /\ UNCHANGED <<disk, job>>

\* A client that has the file open keeps the file that is unlinked.
Unlink ==
  /\ disk' = NoSession
  /\ client' = IF client.storage = "file"
               THEN [client EXCEPT !.storage = "own", !.own = disk] ELSE client

\* Mutant: the file is overwritten in place.
CheckFileInPlace ==
  /\ \/ disk.exists /\ ~job.overwrite /\ Leave("FileExistsError")
     \/ disk.exists /\ job.overwrite /\ GoTo("check", "open")
     \/ ~disk.exists /\ GoTo("check", "open")
  /\ pc = "check"
  /\ UNCHANGED <<disk, client, job>>

\* Mutant: overwrite is not looked at.
CheckFileAlways ==
  /\ GoTo("check", "open")
  /\ Unlink
  /\ UNCHANGED job

\* The file the client will use: an existing one is refused, or unlinked.
CheckFile ==
  /\ pc = "check"
  /\ \/ disk.exists /\ ~job.overwrite
        /\ Leave("FileExistsError") /\ UNCHANGED <<disk, client>>
     \/ disk.exists /\ job.overwrite /\ GoTo("check", "open") /\ Unlink
     \/ ~disk.exists /\ GoTo("check", "open") /\ UNCHANGED <<disk, client>>
  /\ UNCHANGED job

\* client.storage.open() of the new client.
OpenSession ==
  /\ GoTo("open", "populate")
  /\ \/ disk.exists /\ UNCHANGED disk
     \/ ~disk.exists /\ \E dc \in FreshDcs : disk' = Fresh(dc)
  /\ UNCHANGED <<client, job>>

\* It may fail after the file was created.
OpenSessionFails ==
  /\ pc = "open"
  /\ Leave("Error")
  /\ disk' \in {disk} \cup
       (IF disk.exists THEN {} ELSE {Fresh(dc) : dc \in FreshDcs})
  /\ UNCHANGED <<client, job>>

\* Mutant: the last field is forgotten.
PopulateShort ==
  /\ \/ job.pos < Len(FieldOrder) - 1 /\ GoTo("populate", "populate")
     \/ job.pos = Len(FieldOrder) - 1 /\ GoTo("populate", "save")
  /\ LET f == FieldOrder[job.pos]
     IN  disk' = [disk EXCEPT ![f] = Populated(job.auth)[f]]
  /\ job' = [job EXCEPT !.pos = @ + 1]
  /\ UNCHANGED client

\* One setter of _populate.
Populate ==
  /\ \/ job.pos < Len(FieldOrder) /\ GoTo("populate", "populate")
     \/ job.pos = Len(FieldOrder) /\ GoTo("populate", "save")
  /\ LET f == FieldOrder[job.pos]
     IN  disk' = [disk EXCEPT ![f] = Populated(job.auth)[f]]
  /\ job' = [job EXCEPT !.pos = @ + 1]
  /\ UNCHANGED client

Save ==
  /\ GoTo("save", "close")
  /\ UNCHANGED <<disk, client, job>>

\* A setter or save() raises: the storage is closed, what was written stays.
PopulateFails ==
  /\ pc \in {"populate", "save"}
  /\ GoTo(pc, "close")
  /\ job' = [job EXCEPT !.failed = "Error"]
  /\ UNCHANGED <<disk, client>>

CloseSession ==
  /\ pc = "close"
  /\ \/ job.failed = "no" /\ Return(FileClient)
     \/ job.failed # "no" /\ Leave(job.failed) /\ UNCHANGED client
  /\ UNCHANGED <<disk, job>>

(***************************************************************************)
(* Account.FromPyrogram and read_credentials                               *)
(***************************************************************************)

FromPyrogram ==
  /\ pc = "idle"
  /\ pc' = "probe"
  /\ job' = [NoJob EXCEPT !.found = client.storage,
               !.stale = client.kind = "file" /\ client.storage = "own"]
  /\ UNCHANGED <<disk, client, result>>

\* A storage that raises, has no dc_id or is closed counts as not open.
Probe ==
  /\ \/ /\ Open(client)
        /\ Stored.dc_id # Unset
        /\ GoTo("probe", "auth_key")
        /\ job' = [job EXCEPT !.dc_id = Stored.dc_id]
     \/ GoTo("probe", "reopen") /\ UNCHANGED job
  /\ UNCHANGED <<disk, client>>

Reopen ==
  /\ GoTo("reopen", "dc_id")
  /\ OpenStorage
  /\ job' = [job EXCEPT !.opened = TRUE]

\* open() raises, also after it has opened the storage; opened_here is FALSE.
ReopenFails ==
  /\ pc = "reopen"
  /\ Leave("OpenError")
  /\ OpenStorage \/ OpenCutShort
  /\ UNCHANGED job

\* A request of the storage: the field is read into the local variable.
Read(field, to) ==
  /\ GoTo(field, to)
  /\ job' = [job EXCEPT ![field] = Stored[field]]
  /\ UNCHANGED <<disk, client>>

\* Outside the try block: when this request fails nothing is closed.
ReadDcFails == Raise("dc_id", "DcError")

ReadKey ==
  \/ Stored.auth_key # Unset /\ Read("auth_key", "user_id")
  \/ /\ Stored.auth_key = Unset
     /\ GoTo("auth_key", "finally")
     /\ job' = [job EXCEPT !.failed = "PyrogramUnauthorized"]
     /\ UNCHANGED <<disk, client>>

ReadFails ==
  /\ pc \in {"auth_key", "user_id", "test_mode", "is_bot"}
  /\ GoTo(pc, "finally")
  /\ job' = [job EXCEPT !.failed = "Error"]
  /\ UNCHANGED <<disk, client>>

ReadCredential ==
  \/ Read("dc_id", "auth_key")
  \/ ReadKey
  \/ Read("user_id", "test_mode")
  \/ Read("test_mode", "is_bot")
  \/ Read("is_bot", "finally")

\* Mutant: the storage is closed in any case.
CloseReadAlways ==
  /\ GoTo("finally", "expects")
  /\ client' = Closed(client)
  /\ UNCHANGED <<disk, job>>

\* finally: closed only if it was opened here.
CloseRead ==
  /\ GoTo("finally", "expects")
  /\ client' = IF job.opened THEN Closed(client) ELSE client
  /\ UNCHANGED <<disk, job>>

\* close() raises, before or after the storage is closed.
CloseReadFails ==
  /\ pc = "finally"
  /\ job.opened
  /\ Leave("CloseError")
  /\ client' \in {client, Closed(client)}
  /\ UNCHANGED <<disk, job>>

Refused == "yes" \in {job.test_mode, job.is_bot}

\* Test and bot sessions are refused, a dc_id that is None cannot be one; a
\* user that is not stored is asked for.
ReturnCredentials ==
  /\ pc = "expects"
  /\ \/ job.failed # "no" /\ Leave(job.failed)
     \/ job.failed = "no" /\ Refused /\ Leave("PyrogramSessionUnsupported")
     \/ job.failed = "no" /\ ~Refused /\ job.dc_id = Unset /\ Leave("Error")
     \/ /\ job.failed = "no" /\ ~Refused /\ job.dc_id # Unset
        /\ \/ job.user_id # Unset /\ Leave("account")
           \/ job.user_id = Unset /\ GoTo("expects", "async with")
  /\ UNCHANGED <<disk, client, job>>

\* async with pyrogramClient: the client connects, which opens its storage.
Start ==
  /\ GoTo("async with", "me")
  /\ OpenStorage
  /\ UNCHANGED job

\* connect() raises, and Pyrogram may have disconnected the client since.
StartFails ==
  /\ pc = "async with"
  /\ Leave("Error")
  /\ \/ OpenStorage \/ OpenCutShort
     \/ client' = Closed(client) /\ UNCHANGED disk
  /\ UNCHANGED job

\* get_me, and the client disconnects, which may fail like get_me itself.
GetMe ==
  /\ pc = "me"
  /\ \/ /\ Stored.auth_key # Unset
        /\ job' = [job EXCEPT !.user_id = Stored.auth_key]
        /\ Leave("account")
     \/ Leave("Error") /\ UNCHANGED job
  /\ client' \in {client, Closed(client)}
  /\ UNCHANGED disk

\* Any other await raises; the one of the probe is caught unless it is a
\* cancellation.
AwaitFails ==
  \E from \in {"login", "disconnect", "export", "check", "close", "probe"} :
    Raise(from, "Error")

MakeSteps == ExportSessionString \/ CheckFile \/ OpenSession
             \/ OpenSessionFails \/ Populate \/ Save \/ PopulateFails
             \/ CloseSession

ReadSteps == Probe \/ Reopen \/ ReopenFails \/ ReadDcFails \/ ReadCredential
             \/ ReadFails \/ CloseRead \/ CloseReadFails \/ ReturnCredentials
             \/ Start \/ StartFails \/ GetMe

Next ==
  \/ NewClient \/ Connect \/ Disconnect \/ CachePeers \/ Crash
  \/ UseCurrentSession \/ CreateNewSession
  \/ Login \/ LoginUser \/ LoginDisconnect \/ MakeSteps
  \/ FromPyrogram \/ ReadSteps
  \/ AwaitFails

Spec == Init /\ [][Next]_vars

(***************************************************************************)
(* Properties                                                              *)
(***************************************************************************)

MakeStages == {"login", "get_me", "disconnect", "export", "check", "open",
               "populate", "save", "close"}
ReadStages == {"probe", "reopen", "dc_id", "auth_key", "user_id", "test_mode",
               "is_bot", "finally", "expects", "async with", "me"}

\* The types of the state; a storage is its client's own only when it is in
\* memory or its file was unlinked.
TypeOK ==
  /\ disk \in Sessions
  /\ client \in Clients
  /\ (client.kind = "string") <=> (client.auth # Unset)
  /\ client.own.exists <=> client.storage = "own"
  /\ client.storage = "file" => client.kind = "file" /\ disk.exists
  /\ pc \in {"idle"} \cup MakeStages \cup ReadStages
  /\ job \in Jobs

OfOne(a, s) ==
  /\ s.auth_key \in {a, Unset}
  /\ s.user_id \in {a, Unset}
  /\ s.dc_id \in {a, Unset} \cup FreshDcs
  /\ s.peers \subseteq {a}

\* A session never blends two accounts: not its credentials, and not the
\* credentials of one with the peers cached for the other ("mixing the
\* previous account's cached data into this session", the message of
\* FileExistsError), whatever failed or died on the way.
NeverBlended ==
  /\ \E a \in Auths : OfOne(a, disk)
  /\ \E a \in Auths : OfOne(a, client.own)

WithoutPeers(s) == [s EXCEPT !.peers = {}]

\* Without overwrite a session that exists when make_client or ToPyrogram is
\* called keeps its credentials ("An existing file of that name raises
\* FileExistsError unless overwrite=True", make_client).
KeptWithoutOverwrite ==
  [][job.existed /\ ~job.overwrite /\ pc \in MakeStages =>
       WithoutPeers(disk') = WithoutPeers(disk)]_vars

\* A client that make_client returns for a file has all credentials of the
\* account in it and nothing else (overwrite replaces the file wholesale).
ReturnsOwnSession ==
  [][pc = "close" /\ result' = "client" /\ pc' = "idle" =>
       disk' = Populated(job.auth)]_vars

\* An account made from a Pyrogram client has the key, the data center and
\* the user of one authorization, also when the session is what a failed or
\* interrupted make_client left behind; unless the client is still open on a
\* file that was replaced.
AccountIsOne ==
  result = "account" /\ pc = "idle" /\ ~job.stale =>
    /\ job.auth_key \in Auths
    /\ job.dc_id = job.auth_key
    /\ job.user_id = job.auth_key

\* read_credentials returns or raises.
ReadEnds ==
  /\ pc \in ReadStages \ {"async with", "me"}
  /\ pc' = "async with" \/ (pc' = "idle" /\ result' # "none")

\* When read_credentials returns or raises, the storage is as it was found
\* ("Opens the storage if the client has not done so yet, and closes it again
\* in that case"); but one found open that did not tell its dc_id counts as
\* not open and ends closed, and where open(), the first request after it, or
\* close() raises, the storage may stay open.
ReadLeavesStorage ==
  [][ReadEnds =>
       \/ client'.storage = job.found
       \/ job.opened /\ job.found # "closed" /\ ~Open(client')
       \/ result' \in {"OpenError", "DcError", "CloseError"} /\ Open(client')]_vars
=============================================================================
