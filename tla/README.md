# A TLA+ verification of opentele

opentele turns Telegram sessions from one form into another: the `tdata` folders
of Telegram Desktop, Telethon sessions and Pyrogram sessions. A session is the
only proof that a user is logged in, so the questions asked here are: does a
session survive every conversion, failure and repeated call; is it ever mixed
with another; does a call that reports success leave what it reports?

The TLA+ modules are translated from the Python source (`src/src/`). TLC checks
them on small instances, and TLAPS checks proofs of the most important
properties for every value of their constants. `PROJECT.json` lists the runs,
which source lines every definition stands for, the hazards found in the code
and which property covers each, and the theorems.

To run it: `tlc -config TDesktop_calls.cfg MCTDesktop.tla` (module and
configuration of every run are in the table below), `tlapm TDesktopProofs.tla`.

## 1. The system

| part (source) | state it keeps | operations | interacts with |
|---|---|---|---|
| TDesktop client (`td/tdesktop.py`) | passcode, key file name, folder, local key and its wrapped form, account list, main account, `isLoaded` | constructor, `LoadTData`, `SaveTData`, `FromTelethon`/`FromPyrogram`, `PerformanceMode` | owns accounts; reads and writes folders through storage |
| Account, StorageAccount (`td/account.py`) | index, key file and data name, its own copy of the local key, authorization keys, map, MTP configuration | creation, `start`, `readMapWith`, `readMtpData`, `readMtpConfig`, `_writeData`, `ToTelethon`, `FromTelethon`, `ToPyrogram`, `FromPyrogram` | shares the client's local key; its files are named after the client's key file and its index |
| MapData (`td/account.py`) | keys of further files, drafts, tokens | `read`, `prepareToWrite` | an account whose map does not open is not read |
| storage (`td/storage.py`) | none; files | `ReadFile`, `WriteFile`, `PrepareEncrypted`, `DecryptLocal`, `CreateLocalKey` | every file of a folder |
| MTP configuration (`td/mtp.py`) | endpoints, thirty settings | `Serialize`, `FromSerialized` | one file per account |
| Qt streams (`td/qdatastream.py`), identifiers (`td/configs.py`, `td/auth.py`) | position in a buffer | typed reads and writes, `PeerId` forms | all serialized data |
| Telethon wrapper (`tl/telethon.py`, `Account.FromTelethon`, `TDesktop.FromTelethon`) | a client's key and API, the session file, the accounts of TDesktop objects | `FromTDesktop`, `FromTelethon`, `FromBundle`, `TerminateAllSessions`, `QRLoginToNewClient` | Telegram's servers, which keep for every key whose it is and which API authorized it; other tasks of the event loop; sessions on other devices |
| Pyrogram bridge (`tl/pyrogram_bridge.py`) | none; a Pyrogram storage | `make_client`, `export_session_string`, `read_credentials` | called by `Account`; the session file, clients that have it open |
| command line (`__main__.py`) | a temporary folder | `convert`, `info` | other commands with the same output |
| fork and release watch (`scripts/fork_watch.py`, `scripts/release_watch.py`, `.github/workflows/forks-watch.yml`) | heads and verdicts of forks, pins of versions | `list_forks`, `divergence_sweep`, `--print-heads`, `check_releases`, filing an issue | GitHub, owners of forks, the maintainer |
| API profiles, devices (`api.py`, `devices.py`) | tables | seeded choice of a device | parameters of a client |
| helpers (`utils.py`, `exception.py`, `debug.py`) | none | metaclass wiring, error classes, logging | everything |

What makes them hard, and what makes them correct:

* **Client, accounts and folders.** Every account carries a copy of the client's
  local key, the key file wraps that key with the passcode, and every account's
  files are encrypted with the copy. A save is a sequence of files, each emptied
  before it is written, and any of them can fail or be the last. *Correct:* what
  `SaveTData` reported as saved opens with its passcode, whole and in order,
  until the next save over it; a re-save that keeps the local key has, up to its
  key file, at most one account of the slot unreadable at a time (one that
  changes the key, cut short, loses every account it has rewritten, and a key
  file that is cut short the whole slot); two accounts never share files; a load
  restores what was saved.
* **The files' contents.** The same list of fields is written in one method and
  read in another; counts and sizes come out of the file; an error in the middle
  of the map leaves half of it in local variables. *Correct:* what is written is
  what is read, a damaged map is not half an account.
* **QR login.** Up to ten awaits, each may fail or time out although the server
  acted; the call retries and may start over; the session it has open may be
  ended on another device. *Correct:* with one retry or more a returned client
  is authorized with the api asked for, and the call ends.
* **Telethon.** A conversion that creates a session awaits the server up to a
  dozen times between reading what it converts and writing the result; meanwhile
  other tasks add accounts to the same object, give the client another session,
  and sessions are ended elsewhere. An account, its owner and all its other
  accounts share one API. *Correct:* no session is used with two APIs (but for
  one that a failed call leaves in its file, see below), no session is held
  twice by what should be its copy, accounts keep their numbers and limit, no
  reported termination leaves a listed session alive, every call ends.
* **Fork watch.** A list read page by page while forks come and go, one request
  per fork, a verdict that belongs to a commit the owner can move away from, a
  run that may die between its steps. *Correct:* work nobody has read is named
  or the issue says the scan failed, in that run or, if that run dies, in a
  later one.
* **Pyrogram.** Five to ten awaits between "the file is not there" and "the
  session is complete"; a file that failed calls left; clients that have the
  file open while it is replaced. *Correct:* credentials and cached peers of two
  accounts never mix, nothing is replaced unasked, reading leaves the storage as
  it was found unless opening or closing it fails.
* **Command line.** Several commands publish to one output by different means
  (rename, hard link, exclusive creation and copy), and any may be interrupted
  or killed. *Correct:* a fragment that remains is that of a command that was
  killed, or that could not remove it and did not report success; no output is
  lost without `--force`; success means that the session is there.

## 2. The modules

| module | models | about |
|---|---|---|
| `TDesktop` | `td/tdesktop.py`, the account and storage calls it makes | the client's life: create, add, load, save, fail, die |
| `SessionVault` | (specification) | what a client promises: slots that open with a passcode, one commit per save |
| `TDesktopVault` | refinement mapping | `TDesktop` implements `SessionVault` |
| `MCTDesktop` | instances | symmetry, account lists left by other programs |
| `QDataStream` | `td/qdatastream.py` | words, arrays, sequences of 64-bit values |
| `LocalFiles` | `td/storage.py` | size, padding and checks of the encrypted envelope |
| `MapData` | `td/account.py` MapData, `td/configs.py` PeerId | the map: parser of all blocks, writer, `mapSize` |
| `MtpData` | `td/account.py`, `td/mtp.py` | authorization block and MTP configuration |
| `StorageAccount` | `td/account.py` StorageAccount | an account opens what Telegram Desktop wrote, is saved and opened again |
| `MCStorageAccount` | instances | maps of up to two blocks, of every kind, whole, damaged and unknown |
| `QRLogin` | `tl/telethon.py` QRLoginToNewClient | every await of the login |
| `TelethonBridge` | `tl/telethon.py`, `Account.FromTelethon`, `TDesktop.FromTelethon` | conversions around the login, with other tasks and the server's record |
| `ForkWatch` | `scripts/fork_watch.py`, `release_watch.py`, the workflow | months of runs, with forks that change under them |
| `PyrogramBridge` | `tl/pyrogram_bridge.py`, `Account.ToPyrogram`, `FromPyrogram` | every await of the conversions, with clients that are running |
| `CliConvert`, `MCCliConvert` | `__main__.py` | several `convert` commands with one output |
| `TDesktopProofs`, `TDesktopVaultProofs`, `StorageMapProofs`, `StorageAccountProofs`, `TelethonBridgeProofs`, `PyrogramBridgeProofs`, `CliConvertProofs`, `ForkWatchProofs` | | theorems (section 5) |

How they compose: `TDesktop` takes a file for the key that opens it, and
`StorageAccount` (over `MapData`, `MtpData`, `LocalFiles`, `QDataStream`) takes
the key for granted and looks inside. `TelethonBridge` EXTENDS `QRLogin`: a
conversion with `CreateNewSession` sets up the login's state, every step of the
login is a step of the conversion (`LoginStep`), and what it leaves goes into
the server's record (`EndLogin`), so the login is checked as part of its
callers. `PyrogramBridge` takes the same login as its one step `login`.
`SessionVault` is the abstract specification over `TDesktop`.

### TDesktop

State: `client` has the object's fields under their names in the source
(`localKey`; `wrap` is the pair of fields that hold the wrapped key;
`mainAccount` is a position in `accounts`, 0 for None, -1 for an object that
left the list); `job` has the local variables of a running load or save; `pc` is
where it stands. A folder is three functions: `keyData` (the `key_...` file),
`mapFile`, `mtpFile`. A file is the local key that opens it, or `NoKey` when it
is missing, truncated or does not pass its checksum, which readers treat alike.
The configuration file never decides whether an account loads and is a step
without an effect here.

`Create`, `Open`, `CreateFromSession`, `AddAccount`, `LoadTData`,
`PerformanceMode` are calls; `LoadAccount` is one turn of the loop in
`__loadFromTData` and `FinishLoad` what follows it. A save is `SaveTData`
(everything before the first file) and then, for each file, `OpenFile` (which
empties it) and the write that closes it, in the order of `_writeData` and
`__writeAccounts`: map, configuration, authorization of each account, key file
last. `SaveFails` leaves between any two of these, `Crash` kills the process
there. `saved` is a history variable: what the last completed save put into each
slot; `SaveTData` forgets it for the slot it begins to write. `Uses` switches
rarely used calls on, so that a run can say of which uses its properties speak.

### StorageAccount and the files

A file is a sequence of 4-byte words: 64-bit values are two words, arrays and
texts are a size in bytes and whole words, an authorization key has `KeyWords`
words. `ReadMapBlock` is one turn of the loop in `MapData.read`, so an error in
the middle is a state; the local variables of `read` (`partial`) become the
account's map in `FinishMap` only. `draftsNotReadMap` is the domain of `drafts`
and left out. What Telegram Desktop writes is external, modelled from what the
readers accept: any sequence of blocks, unknown blocks of newer versions, a
damaged one at the end, ids in the old and in the wide form. `lenient` is the
environment variable that makes unknown keys end the reading instead of raising.
Files always decrypt here; wrong and missing keys are `TDesktop`'s subject.

### QRLogin

`pc` names the await the coroutine is in. The server grants an accepted token
(`Grant`) and lets tokens expire (`Expire`) between any two steps, and the
session that was found may be ended on another device (`EndedElsewhere`). Every
await may raise any other error or be cancelled (`OtherError`), and those in the
`try` block may time out although the request was carried out (`TimesOut`).
`Retries` is any integer: for 0 or less, which the constructor's documentation
calls legal (`telethon.py:219-228`), `range` is empty, `Attempt` goes past the
loop, and the client comes back unauthorized. `ReturnsAuthorized` therefore
supposes one retry or more. (None, the other value named there, makes `range`
raise and is not modelled.)

### TelethonBridge

An auth key is a number. `server` holds for each key whose it is (`whose`), the
API that authorized it (`by`), whether it is `live`, and every API it has been
used `with`, which is what the ban warnings of the documentation are about.
`desktops` are the TDesktop objects with the accounts' keys, APIs and indices;
`client` is the Telethon client the caller holds, `file` the key in the session
file. One coroutine is in a conversion: `call` is the await, `op` its locals.
Calls that await nothing (`FromTDesktopUse`, `FromTelethonUse`) are
`Synchronous`: another task can make them at any await of the conversion, also
on the same objects. `Revoke` ends a session on another device at any moment;
when a login has that session open it is told (`EndedElsewhere`). Only the
session a login itself is about to make cannot be ended before the login
returns, since it has no number yet. `ConnectClient` connects the client,
`AwaitFails` lets an await outside of the login raise. A login that raises after
it opened a session of another API in the file leaves that session there: the
history field `left` of `server` marks it (`LeftInFile`), and `FromBundle` takes
whatever session the file has.
`AllWithApi` is what the chain of setters that an account's constructor runs
through does to the owner's accounts. `TerminateAll` lists the other sessions
and ends one after the other. `Uses` allows what the passing run leaves out:
`"mix"` lets `CreateNewSession` add to a TDesktop of another API, `"share"` lets
it have a session file that is in use.

### ForkWatch

`network`, `tip` and `recent` are GitHub's side and change between any two
requests (`Push`, `ResetTip`, `CreateFork`, `DeleteFork`, `GrowOld`); a commit
is a number. Which forks were pushed to lately is taken page by page, as the
list has it (`Pushed`), against a date that is fixed before the list is read.
`at` is the step of the workflow or of `--print-heads`, the rest of `job` its
variables. `ListPage` is one request of `list_forks`, `Compare` and
`CompareError` are one of the sweep, `ScanFails` is any error that reaches
`main`. `Named` is what `has_activity` and the report depend on. The maintainer
reads what an issue names (`ReadFork`) and updates pins. `print_heads` prints
the head of every fork that is ahead, ready to paste; that only the heads that
were read are taken over (`Reviewed`) is the maintainer's act and an assumption
of `Paste`, not something the script sees to. `read`, `unseen` and `issue` are
history variables: what was read, what the run under way has to report, what the
last issue named.

### PyrogramBridge

`disk` is the session in `<name>.session`, `client` the Pyrogram client the
caller holds; its storage is closed, open on the file, or its own (in memory, or
a file that has been unlinked since). `pc` is the await a call is in, `job` its
local variables. A running client may cache peers at any moment (`CachePeers`),
every await may fail or be cancelled, and the process may die in any of them
(`Crash`). An `open()` that fails may have opened the storage, created its file,
or neither (`OpenSessionFails`, `ReopenFails`, `StartFails` over the external
`OpenStorage` and `OpenCutShort`), and a `close()` that fails may have closed it
or not (`CloseReadFails`). Pyrogram
is external: setters are durable at once, opening a file that is not there
creates one, and what `dc_id` a new one announces is a constant (`FreshDcs`:
versions differ; Pyrogram writes 2, which is some account's data center). One
caller makes one call after the other. A client returned for a file is a new
object that is not connected.

### CliConvert

One `pc` per command. `out` is the file at `<output>.session`: who wrote it and
whether all of it; `temp` the session in the command's own folder; `bare` a file
without the suffix, which the early test looks at too. `links` says that
`os.link` fails for no reason but a file at the output; otherwise it may work or
fail with any error, on volumes with or without hard links, and the code falls
back to the exclusive creation. The removal of a fragment may fail
(`UnlinkFails`), and a command may be interrupted in each call it waits in (exit
code 130), between `os.open` and the `try` that removes what it made
(`CreateInterrupted`), and during the removal; it may be killed anywhere.
`unremoved` is a history variable: the commands that left without having removed
their fragment.

## 3. What is checked

| run | module | states | properties |
|---|---|---|---|
| `TDesktop_calls` | MCTDesktop | 605,873 | `EveryAccountSaved`, `IndicesDistinct`, `MainAccountListed`, `LoadRestores` |
| `TDesktop_faults` | MCTDesktop | 132,395 | `SavedSlotsOpen`, `AccountsShareLocalKey`, `ResaveRisksOneAccount`, `ImplementsVault` |
| `TDesktop_anyuse` | MCTDesktop | 133,588 | `TypeOK`, `WrapsLocalKey` |
| `StorageAccount_files` | MCStorageAccount | 24,302 | `TypeOK`, `MapIsRead`, `ResaveKeepsMap`, `AuthorizationKept`, `ConfigIsRead` |
| `TelethonBridge_calls` | TelethonBridge | 296,154 | `BridgeTypeOK`, `ReturnsAuthorized`, `OneApiPerSession`, `AccountsNumbered`, `CreatedIsNew`, `AllListedGone`, `CallEnds` |
| `PyrogramBridge_sessions` | PyrogramBridge | 415,165 | `TypeOK`, `NeverBlended`, `AccountIsOne`, `KeptWithoutOverwrite`, `ReturnsOwnSession`, `ReadLeavesStorage` |
| `CliConvert_volumes` | MCCliConvert | 266,225 | `TypeOK`, `FragmentIsTemporary`, `ReportedIsPublished`, `OutputPreservedPlain` |
| `ForkWatch_months` | ForkWatch | 251,389 | `TypeOK`, `ReportsUnread`, `UnreadIsReported`, `OutdatedIsReported` |

The states are distinct states, up to symmetry where a configuration declares it
(users, random keys and commands are interchangeable). Every property is stated
in words in the module that defines it. What the runs show:

* **calls**: without faults, in two folders and over account lists without gaps,
  every save that returned True kept every account, and loading it again
  restores them in their order; indices never collide.
* **faults**: with files that cannot be written and a process that dies inside a
  save, a slot that was saved stays intact until the next save over it; that
  one, as long as it keeps the local key, makes at most one account unreadable
  at a time before it comes to the key file; the client implements the vault.
  The run has one folder: that a save elsewhere leaves a slot alone is shown by
  `LoadRestores` in the two folders of `TDesktop_calls`, and by `SavedSlots` of
  section 5 for any number.
* **anyuse**: with performance mode, renamed key files and manual reloads in any
  order the types hold and a key file never wraps another key than the one its
  account list is encrypted with.
* **files**: an account holds exactly what the blocks of a map say, or nothing;
  a save and a reload keep it (but for the background keys, which are read and
  never written); authorization keys survive in both forms of the user id.
  `Meaning` states what a map says without a parser.
* **calls** (Telethon): whatever other tasks do while a conversion waits, and
  whichever of the sessions that are there are ended elsewhere meanwhile, no
  session that an account or the client holds is used with two APIs, but for one
  that a failed `CreateNewSession` has left in its file; accounts keep their
  numbers and their limit, a created account has a key of its own, a termination
  that returns has ended what it listed; a client the login returns is
  authorized with the api asked for, for the account of the current session, or
  is the session that was found; and every call ends, the login in it included.
* **sessions**: Pyrogram conversions that fail or die at any await and are
  called again over what they left never mix two accounts, replace nothing
  unasked, and an account read from a session is one account's, also when a
  failed call left it; the storage is left as found unless `open()`, the first
  request after it or `close()` fails.
* **volumes**: of three commands at once, one that leaves a fragment was killed
  or did not get to remove it, and reports that it failed; where `os.link` is
  relied on, or as long as none of them has `--force`, they report nothing that
  is not there and lose no output (the section below says why).
* **months**: a run names every fork whose unread work it began with, or says
  that it failed, although forks move while it compares them; over several runs
  no unread work and no passed pin stays unnamed, although a list may be cut
  short and a run may die.

### Runs that find a disagreement

Each of these checks one property that a comment, document or test of the
repository states, and TLC finds a behaviour of the code that violates it.

| run | property | what happens |
|---|---|---|
| `TDesktop_gap` | `EveryAccountSaved` | After loading a folder whose indices have a gap, the index of an added account (`account.py:1475`) can be in use: one of the two is overwritten and the save returns True. |
| `StorageAccount_config` | `ConfigKept` | Endpoints are written without a port and read with one (`mtp.py:160`): no saved configuration can be read, and the account silently gets the default. |
| `QRLogin_retry` | `RetryReturnsClient` | A login that succeeds in a later turn still raises the timeout of an earlier one (`telethon.py:735`). |
| `TelethonBridge_mix` | `OneApiPerSession` | An account created with another API gives that API to its owner and to every account there is (`account.py:871`, `886`, `tdesktop.py:816`), so sessions authorized with one API are used with another, while `api.py:895` says "You can always use `CreateNewSessions` with any APIs". |

Because of the gap, `SavedSlotsOpen` and `LoadRestores` speak of account lists
without repeated indices.

Other disagreements have no run of their own. Where it takes other bounds or
`Uses` for TLC to show one, they are named.

* With performance mode on and no passcode, a new local key does not reach the
  accounts that are already there (`tdesktop.py:313`): the folder just saved
  opens without any. `Uses = {"performance"}` violates `SavedSlotsOpen`; the
  proof of it assumes plain use.
* After a failed copy the output is unlinked by name (`__main__.py:122`),
  although a concurrent `--force` may have put its session there: where `os.link`
  fails `OutputPreserved` fails, and `OutputPreservedPlain` and
  `ReportedIsPublished` speak of volumes where it is relied on or of commands
  none of which has `--force`.
* The removal of a fragment may fail itself, typically for the reason that broke
  the copy, and an interrupt may come between `os.open` and the `try`
  (`__main__.py:117-122`): an empty or partial output stays.
  `FragmentIsTemporary` says that only a command that was killed or that exits
  with 4 or 130 leaves one.
* `request_retries` of 0 or less makes `QRLoginToNewClient` return a client that
  is not authorized (`telethon.py:644`, `738`), while the documentation of the
  parameter allows negative values "for infinite retries" (226).
* `CreateNewSession` opens the session file it is given with the new API before
  it looks whose it is (`telethon.py:595`): given a file in use (`Uses =
  {"share"}`), `OneApiPerSession` fails. Given a file of another API that nobody
  uses it may raise after that and leave the session, used with two APIs, to a
  later `FromBundle`; `OneApiPerSession` names these sessions (`left`) as its
  exception.
* `--print-heads` records the heads as they are when it runs
  (`fork_watch.py:384`), also with the marker `unknown`: a maintainer who takes
  over every line (`Reviewed == rows`, with which `ReportsUnread` fails) hides
  commits nobody has read.
* A page that is no list, a fork that moves to an earlier page, and forks beyond
  the last page asked for are skipped with a log line at most
  (`fork_watch.py:190-196`), although "a silently unchecked fork is the failure
  this sweep exists to prevent" (364). `UnreadIsReported` holds because a later
  run makes up for the first two; the last is outside of the bounds.
* An answer of one fork that is no JSON or breaks off aborts the whole sweep
  (`ScanFails`), although "One unreachable fork must not cost us the other 130"
  (`fork_watch.py:245`).
* `LoadTData(basePath)` reads the folder of the object (`tdesktop.py:403`), not
  the one it is given, although the class comment (line 60) says to call it "if
  you didn't set the basePath when initializing the client". `LoadFails` models
  it.
* `read_credentials` "opens the storage if the client has not done so yet, and
  closes it again in that case", but its `try` begins after the first request
  (`pyrogram_bridge.py:278-282`): when `open()` fails after it has opened, or
  that request fails, the storage stays open; so it does when `close()` fails
  (297).
* A storage found open that does not tell its `dc_id` is opened once more by the
  same function, and closed at the end. `ReadLeavesStorage` names these cases as
  its exceptions.

### Bounds, and why they are enough

* `TDesktop`: two users, two passcodes, one or two folders, `MaxAccounts` = 2 (6
  in the program) and three or four local keys. A key is drawn fresh only if it
  is stored nowhere; two accounts are the first number where one can be lost
  beside another, two passcodes and two folders the first where a save elsewhere
  or under another passcode matters. The number of keys bounds how often a
  client can be rekeyed, and every pair (old key on disk, new key in memory)
  occurs with three. Foreign lists are dense (`calls`) or have gaps (`anyuse`,
  `gap`).
* `StorageAccount`: one and two blocks of every kind. A block only acts on its
  own fields, on the fields a second block shares with it, and on where the next
  begins, so that pairs suffice. One save, since what is saved the second time
  is what was read after the first. `KeyWords` = 1: a key is copied, never
  looked into. The theorems of section 5 hold without any of these bounds.
* `QRLogin_retry`: three retries, so that a timeout can lie before, between and
  after turns that do something; every kind of session found, of password and
  two-step verification.
* `TelethonBridge`: three calls and three keys: the one in the TDesktop object,
  the one in the file, and one that is made, so that every pair of conversions
  is followed or interrupted by a third. `Retries` = 2: one turn that fails and
  one that may not (with 0 the other properties hold too, over fewer states);
  `kMaxAccounts` = 2: the limit is met within the calls; two TDesktop objects:
  one that is there and one that is created.
* `ForkWatch`: one fork and the repository's own, pages of one fork, three
  changes (a push, a move back and another push; or a deletion and a new fork),
  one fault. Forks are compared one by one and meet only in the pages of the
  list and in what the issue names; the list has one page more than the forks.
* `PyrogramBridge`: two accounts, the first number that can be mixed, a data
  center that a new storage announces and that belongs to one of them, and no
  announcement.
* `CliConvert`: three commands: one that writes, one that interferes, one that
  observes or interferes too.

### Fairness

Three properties need any.

* `CallEnds`: weak fairness of the conversion's own steps
  (`WF_bridgeVars(CallStep)`). Each await ends, because Telethon answers, raises
  or runs into the timeout of the request; errors and timeouts are among the
  fair steps. Neither the server, nor the user who accepts a token, nor the
  caller is assumed to do anything. It is checked for session names: with a
  Session object of another api the login starts over without end
  (`telethon.py:629`; `SessionKinds` with `"object"` shows it), which the source
  does not claim to support.
* `UnreadIsReported` and `OutdatedIsReported`: weak fairness of the steps of a
  run (`WF_vars(Scan)`), since every request has a timeout and gives up after
  its retries, and strong fairness of `StartWatch`, since the schedule starts a
  run every month, between whatever the maintainer does with the scripts. Owners
  and maintainer need not act, and faults are bounded: a workflow that dies
  every month reports nothing.

## 4. Mutants

Every property of every passing run has a mutant in `PROJECT.json`: an operator
next to the definition it replaces, changed as a plausible bug would change it
(a loop that ends early, a guard that is dropped, a field out of order). TLC
finds the property violated with it, so none of them holds by the shape of the
model.

## 5. What is proved

| theorem | module | statement |
|---|---|---|
| `TypeCorrect` | TDesktopProofs | `Spec => []TypeOK` |
| `KeysWrapped` | TDesktopProofs | `Spec => []WrapsLocalKey` |
| `SavedSlots` | TDesktopProofs | `Plain` gives `Spec => []SavedSlotsOpen` |
| `AccountsKeyed` | TDesktopProofs | `Plain` gives `Spec => []AccountsShareLocalKey` |
| `MainListed` | TDesktopProofs | without reloads `Spec => []MainAccountListed` |
| `LoadsRestore` | TDesktopProofs | `Plain` gives `Spec => LoadRestores` |
| `IndicesOwn`, `AccountsSaved` | TDesktopProofs | `Undisturbed` gives `Spec => []IndicesDistinct`, `Spec => []EveryAccountSaved` |
| `RiskIsOneAccount` | TDesktopVaultProofs | `Plain` gives `Spec => []ResaveRisksOneAccount` |
| `Implementation` | TDesktopVaultProofs | `Plain` gives `Spec => ImplementsVault` (the refinement) |
| `ClientsAuthorized` | TelethonBridgeProofs | `Spec => []ReturnsAuthorized` (which supposes `Retries >= 1`) |
| `BridgeTypes`, `LoginReturns`, `Numbered` | TelethonBridgeProofs | `BridgeSpec =>` `[]BridgeTypeOK`, `[]ReturnsAuthorized`, `[]AccountsNumbered` |
| `CreatedAreNew`, `ListedAreGone` | TelethonBridgeProofs | `BridgeSpec =>` `CreatedIsNew`, `AllListedGone` |
| `OneApi` | TelethonBridgeProofs | `Uses = {} /\ Retries >= 1 /\ BridgeSpec => []OneApiPerSession` |
| `BridgeTypes`, `Unblended`, `AccountsOfOne` | PyrogramBridgeProofs | `Spec =>` `[]TypeOK`, `[]NeverBlended`, `[]AccountIsOne` |
| `SessionsKept`, `OwnSessions`, `StorageLeft` | PyrogramBridgeProofs | `Spec =>` `KeptWithoutOverwrite`, `ReturnsOwnSession`, `ReadLeavesStorage` |
| `TypeCorrect`, `FragmentsVanish`, `SuccessIsPublished` | CliConvertProofs | `Spec =>` `[]TypeOK`, `[]FragmentIsTemporary`, `[]ReportedIsPublished` |
| `OutputsPreserved` | CliConvertProofs | `Spec => OutputPreservedPlain` |
| `TypeCorrect`, `UnreadReported` | ForkWatchProofs | `Spec => []TypeOK`, `Spec => ReportsUnread` |
| `SealedIsRead` | StorageMapProofs | every sealed payload is read back |
| `TypeCorrect`, `MapReadWhole`, `MapSurvivesSave` | StorageAccountProofs | `Spec =>` `[]TypeOK`, `[]MapIsRead`, `[]ResaveKeepsMap` |
| `AuthorizationIsKept`, `ConfigReadWhole` | StorageAccountProofs | `Spec =>` `[]AuthorizationKept`, `[]ConfigIsRead` |

They hold for any finite or infinite set of users, keys, folders, accounts and
commands, any finite set of forks, any integer as the number of retries unless
the table says more, and any number of accounts, calls and pages; each rests on
the named assumptions on the constants in its module, which TLC evaluates in
every run. Most say that "none" values are not values and that bounds are
natural numbers. `WatchAssumption` adds that there are finitely many forks,
since GitHub lists them on pages. Two describe data: `GivensAssumption` says
what Telegram Desktop may have written (`IsMap`: typed blocks in any number and
order; one of a known kind is as long as its kind demands, with counts that
agree with what follows, or damaged, and then it is the last one and cannot be
read; `IsAuthorization`: keys of `KeyWords` words, and a user id that fits the
form it is written in; `IsConfig`: a configuration within the limits the reader
tests, addresses of 1 to 45 bytes and secrets of at most 32, with the endpoints
of a data center together, as the source's map of data centers keeps them), and
`DefaultAssumption` that the built-in configuration is such a configuration. A
map with unknown blocks is among the givens, and what follows an unknown block
is arbitrary.

* **Types of TDesktop.** `TypeOK` is not inductive: that a load never exceeds
  `kMaxAccounts` needs that it has fewer accounts than turns and that the list
  it walks through passed the test, and that a written authorization has a key
  needs that the map before it was not written without one. `TypeInv` adds both
  (`RunBounded`).
* **Wrapped keys.** `Wrapped` of the client while it is loaded, loading or
  saving, kept by key generation and load, is what makes the key file consistent
  when it is written.
* **Saved slots.** The invariant has three parts. `ClientInv`: outside
  performance mode all accounts carry the local key the passcode wraps, and
  their data names are those a load will look for. `SaveInv`: while a save runs
  its slot counts as not saved, and every account before the current one has its
  map and authorization under the current key (`Progress`). And the slots that
  count as saved are intact: a step of a save writes into files of its own slot
  only. `Plain` excludes performance mode, renamed key files and manual reloads:
  for each of them TLC has a counterexample.
* **Loads.** `LoadInv` says of a running load, for a slot that counts as saved,
  that the turns so far have restored the accounts before the current one under
  the key of the slot; `StepRestores` that no turn then fails and that the last
  one leaves the whole list.
* **Main account.** `MainInv`: no account that left the list is the main one,
  and a list that is not being loaded has one; a reload breaks it because the
  object of the earlier load stays.
* **Indices.** A new account gets the number of accounts as its index, which is
  free only if the list has no gap. `DenseInv` follows that through the folders:
  every slot but the one being saved lists accounts without gaps that all open,
  so a load skips none and leaves none out. `Undisturbed` says that nothing
  fails (a save that is cut short leaves an account that does not open, hence a
  gap) and that the lists of other programs have no gaps; the run `TDesktop_gap`
  is the counterexample otherwise.
* **The vault.** That `TDesktop` implements `SessionVault` needs more than
  `SavedSlots`, since the vault also speaks of slots nobody saved completely and
  of accounts that share an index. `SaveExact`: every account a save has come
  past has files that open and are of an account with its index. `LoadExact`: a
  load has found exactly the accounts that open at the indices of its turns,
  duplicates included. `ClosedInv`: a slot that does not open shows no passcode.
  `NoneInv`: nothing is left of a client that is gone. Each action is then
  mapped in a lemma of its own: a file write is `Write` or invisible, the key
  file `Commit`, an exception or the death of the process `Abandon`, the last
  turn of a load `OpenSlot`.
* **QR login.** `BeforeLoop` and `InLoop` say which authorization the session
  can have at each await: the one found, none, or the granted one.
* **Telethon conversions.** `CallInv` combines the types, the numbers of the
  accounts, what each await knows of its locals (`PlaceInv`), the invariant of
  the login while it runs (`LoginInv`), that the key of a copy is held by
  nothing yet (`CopyIsFree`), and that the sessions a termination has passed are
  gone (`PassedAreGone`). For the APIs it is strengthened by `ApiInv`: every
  holder of a key names the API that authorized it (`AccountsHonest`,
  `ClientHonest`, `CallHonest`), a key has been used with that API or with the
  one logins are made with at most (`ServerHonest`), and with the second only if
  a login has it open or has left it in the file (`FileHonest`), and a file that
  a login opens is held by nothing else (`FileIsFree`), which is where
  `Uses = {}` is needed. `Retries >= 1` leaves out logins without
  a turn, which return a client on a key nobody authorized.
* **A save cut short.** `RiskInv` of a save that keeps the local key, until it
  comes to the key file: every account the slot had before the save is
  still listed by its key file and, unless its file is the one being written,
  opens under the client's key; so the unreadable ones are at most the current
  one.
* **Fork watch.** `SweepInv`: what a run waits for is still unread
  (`StillUnread`), a verdict was recorded with a head that was read
  (`VerdictsRead`), and every fork that is waited for is still to be compared,
  among the errors, in a row that no verdict settles, or named (`Accounted`).
* **Pyrogram.** `StorageInv` says what the two sessions are (an open file
  exists; an own storage belongs to one account), `Filling` what `make_client`
  knows at each await: no file when it opens one, one account's file while it
  fills it. One lemma per part of the call shows that it keeps both. Of an
  account that is read: `DiskKeyed` says that a key is in a storage only beside
  its own data center (the order of the fields in `_populate`), `Reading` what
  has been read so far, `Kept` that a call without overwrite never comes
  past the test for a file that was there, and `Leaving` how a storage was found.
* **Command line.** `PlaceInv` says what a command's place tells of its options
  and of the volume; a command is in `unremoved` only after it has left with the
  code of a failure or an interrupt.
* **Envelope.** Padding is at most three words, so the three tests of
  `DecryptLocal` pass for every length, the empty map included, whose writer has
  no stream.
* **The files of an account.** The state has the words of the files; the
  properties speak of blocks, keys and fields. `IInv` connects the two: there
  are blocks `bs`, words `w` and a form of the ids such that the three files say
  them (`FilesSay`), the blocks are the given ones or, once the map was written,
  whole blocks that mean `Saved` of the map written (`BlocksSay`), and the
  account has at each place of its way what the blocks mean (`AccountHas`). In
  the loop of `MapData.read` that is `AtBlock`: for some `k`, `partial` is the
  meaning of the first `k` blocks and `left` the words of the others. A step of
  the loop that reads a block takes `k` to `k + 1`; one that raises has met a
  damaged block or a key it does not know, so the map is not `Readable` and the
  account keeps its empty map. A save exhibits the blocks it wrote, and nothing
  is left to show of the next load that the first one did not need.
* **What is read means what was written** (`StorageMapProofs`). The lemmas under
  that invariant are about the words: a block that is whole is read in full,
  leaves the words behind it and changes the map by what it means (one lemma per
  kind of block); a stored number is read as a peer exactly if Telegram Desktop
  stores it for that peer (`StoredIsRead`); the last block that carries a field,
  and the last pair of a peer, decide its value; `MapSize` is 0 only for a map
  that writes no block, so no write is lost; what `prepareToWrite` writes is a
  list of whole blocks that mean `Saved`. For the authorization and the
  configuration (`StorageAccountProofs`): `AuthorizationRead` and `ConfigRead`,
  the inverse of the writer for each form.
* **Induction over data.** What a loop computes for every input is proved by
  induction over the length of a sequence. The library's induction theorems take
  an operator, which the provers cannot instantiate; `SetInduction`,
  `BoundedInduction` and `SeqInduction` take the set of the good indices
  instead, and `Recursion` takes the turns of a loop as a function and gives its
  run. They follow from the well-foundedness of the natural numbers, which the
  library states without an operator. That is why the loops of `MapData` and
  `MtpData` are recursive functions.

Only model-checked: `CallEnds`, `UnreadIsReported` and `OutdatedIsReported`
(liveness under fairness is out of the prover's reach) and the counterexamples.

## 6. What is not modelled

* Cryptography (AES-IGE, SHA1, MD5, PBKDF2): a key is opaque, a wrong one is
  recognized.
* File names of older versions (suffixes `0`, `1`, `s` that `ReadFile` tries in
  turn) and the old map that carries its own key: a file is there and opens or
  it does not.
* `ToTelethon`, `ToTDesktop`, `ToPyrogram` of a client: they walk over the
  accounts and call what is modelled.
* The shapes of arguments the Telethon constructor takes, the parameters of
  `InitConnection`, the table of `PrintSessions`, user ids of Telethon accounts.
* Parameters of a Pyrogram client (device, app version that fits the layer,
  `pyrogram_bridge.py:74`), `api.py` and `devices.py`: tables and seeded
  choices.
* Two `make_client` calls at a time, and a storage the caller supplies.
* Time: that a token's remaining time is taken as `.seconds` of a difference
  (`telethon.py:672`) only shortens or prolongs a wait.
* Cached keys of custom `Session` objects, public keys of `mtp.py` (placeholders
  in the source), `info`, the scripts that build documentation, logging and the
  metaclass helpers.

## 7. Plan

Done, in this order: the client and its folders; the command line; the QR login;
the files' contents; the Pyrogram bridge; the Telethon bridge around the login;
the fork and release watch; the theorems above.

Left, most important first:

1. The choice of an app version that fits a layer (`pyrogram_bridge.py:75`) over
   the tables of `api.py`, against a reference definition.
2. `ReadFile` with its fallbacks between the files of two versions, and writes
   that die between them.
3. Two `make_client` calls at a time, with one name.
