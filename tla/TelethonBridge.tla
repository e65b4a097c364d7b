--------------------------- MODULE TelethonBridge ---------------------------
(***************************************************************************)
(* The conversions between TDesktop objects and Telethon clients:          *)
(* TelegramClient.FromTDesktop, FromBundle and TerminateAllSessions        *)
(* (tl/telethon.py), Account.FromTelethon (td/account.py) and              *)
(* TDesktop.FromTelethon (td/tdesktop.py), around the QR login of QRLogin. *)
(*                                                                         *)
(* One coroutine is in a conversion and awaits the server; other tasks of  *)
(* the event loop run the conversions that await nothing meanwhile.  The   *)
(* server keeps, for every auth key, the account and the API it was        *)
(* authorized with and the APIs that have connected with it.  An auth key  *)
(* is a number, 0 stands for none; the caller has one session file and     *)
(* one client, a list of TDesktop objects.                                 *)
(***************************************************************************)
EXTENDS QRLogin, Sequences

CONSTANTS
  kMaxAccounts,  \* accounts of a TDesktop
  Uses,          \* uses beyond one API and one session file per TDesktop:
                 \* "mix": CreateNewSession adds to a TDesktop of another API,
                 \* "share": CreateNewSession is given a file that is in use,
                 \* or its file is written while it runs
  MaxKeys,       \* bound: auth keys
  MaxDesktops,   \* bound: TDesktop objects
  MaxCalls       \* bound: calls that are made

ASSUME BridgeAssumption ==
  /\ kMaxAccounts \in Nat \ {0}
  /\ Uses \subseteq {"mix", "share"}
  /\ MaxKeys \in Nat \ {0, 1}
  /\ MaxDesktops \in Nat \ {0}
  /\ MaxCalls \in Nat

VARIABLES
  desktops,  \* TDesktop objects: api and accounts, each with key, api, index
  client,    \* the caller's client: key, api, connected, UserId known
  file,      \* the key in the session file
  server,    \* per key: whose and by which api it was authorized, whether it
             \* is live, with which apis it was used, and whether a
             \* CreateNewSession that raised has left it in the session file
             \* after opening it with another api (history)
  made,      \* the keys made so far are 1 .. made
  call,      \* where the coroutine is in a conversion, "none" outside
  op,        \* its locals
  calls      \* calls so far

login  == <<kind, found, session, twoFactor, password, token, pc, attempt,
            timeoutErr, result>>
caller == <<desktops, client, file>>
cloud  == <<server, made>>
bridgeVars == <<login, caller, cloud, call, op, calls>>

Apis == {Api, OtherApi}
Keys == 1 .. MaxKeys

NoClient == [key |-> 0, api |-> Api, connected |-> FALSE, known |-> FALSE]
NoOp     == [flow |-> "none", key |-> 0, api |-> Api, into |-> 0, listed |-> {},
             todo |-> {}]

AuthOf(k) == IF k # 0 /\ server[k].live THEN <<server[k].whose, server[k].by>>
                                        ELSE Nobody

\* The keys that accounts and the client hold.
HeldBy(ds) == UNION {{ds[d].accounts[i].key : i \in DOMAIN ds[d].accounts} : d \in DOMAIN ds}
Held == HeldBy(desktops) \cup ({client.key} \ {0})

NewAccount(key, api, index) == [key |-> key, api |-> api, index |-> index]

Use(k, api) == server' = [server EXCEPT ![k].with = @ \cup {api}]

NoLogin ==
  /\ kind = "file" /\ found = Nobody /\ session = Nobody
  /\ twoFactor = "off" /\ password = "none" /\ token = "none"
  /\ pc = "done" /\ attempt = 0 /\ timeoutErr = "None" /\ result = "none"

LeaveLogin ==
  /\ kind' = "file" /\ found' = Nobody /\ session' = Nobody
  /\ twoFactor' = "off" /\ password' = "none" /\ token' = "none"
  /\ pc' = "done" /\ attempt' = 0 /\ timeoutErr' = "None" /\ result' = "none"

\* A TDesktop with one account was loaded; the session file is empty or is
\* authorized for the same or another account, with either API.
BridgeInit ==
  /\ NoLogin
  /\ \E api \in Apis, auth \in Auths \cup {Nobody} :
       /\ desktops = <<[api |-> api, accounts |-> <<NewAccount(1, api, 0)>>]>>
       /\ file = IF auth = Nobody THEN 0 ELSE 2
       /\ made = IF auth = Nobody THEN 1 ELSE 2
       /\ server = [k \in Keys |->
            CASE k = 1 -> [whose |-> Me, by |-> api, live |-> TRUE, with |-> {api},
                         left |-> FALSE]
              [] k = 2 /\ auth # Nobody ->
                   [whose |-> auth[1], by |-> auth[2], live |-> TRUE, with |-> {auth[2]},
                    left |-> FALSE]
              [] OTHER -> [whose |-> Me, by |-> Api, live |-> FALSE, with |-> {},
                             left |-> FALSE]]
  /\ client = NoClient
  /\ call = "none"
  /\ op = NoOp
  /\ calls = 0

Begin(place, locals) ==
  /\ call = "none"
  /\ calls < MaxCalls
  /\ calls' = calls + 1
  /\ call' = place
  /\ op' = locals

\* A call that awaits nothing, in whatever task.
Synchronous ==
  /\ calls < MaxCalls
  /\ calls' = calls + 1
  /\ UNCHANGED <<login, cloud, call, op>>

End ==
  /\ call' = "none"
  /\ op' = NoOp
  /\ UNCHANGED calls

(***************************************************************************)
(* The server and the network                                              *)
(***************************************************************************)

\* The session a login found in the file, and has neither left nor replaced.
FoundInFile(k) ==
  /\ call = "login" /\ pc # "done" /\ op.flow = "FromTDesktop"
  /\ k = file /\ token # "used" /\ session # Nobody

\* The user ends a session on another device; a login may have it open.
Revoke(k) ==
  /\ k \in 1 .. made /\ server[k].live
  /\ server' = [server EXCEPT ![k].live = FALSE]
  /\ IF FoundInFile(k) THEN EndedElsewhere ELSE UNCHANGED login
  /\ UNCHANGED <<caller, made, call, op, calls>>

\* The caller connects the client it holds.
ConnectClient ==
  /\ client.key # 0 /\ ~client.connected
  /\ client' = [client EXCEPT !.connected = TRUE]
  /\ Use(client.key, client.api)
  /\ UNCHANGED <<login, desktops, file, made, call, op, calls>>

\* A connection that cannot be made, or any other error of an await outside
\* of the login, ends the call.
AwaitFails ==
  /\ call \notin {"none", "login"}
  /\ End
  /\ UNCHANGED <<login, caller, cloud>>

(***************************************************************************)
(* Adding an account to a TDesktop                                         *)
(***************************************************************************)

\* accountsCount, read after the last await.
NextIndex(d) == Len(desktops[d].accounts)

\* Mutant: the limit is checked before the awaits only.
FullBeforeTheAwaits(d) == call = "none" /\ NextIndex(d) >= kMaxAccounts

Full(d) == NextIndex(d) >= kMaxAccounts

\* Account.__init__ sets the api of the account and thereby, when it is
\* another one, of the owner and of all its accounts.
AllWithApi(accounts, api) ==
  [i \in DOMAIN accounts |-> [accounts[i] EXCEPT !.api = api]]

\* The part of Account.FromTelethon after the awaits, with an owner, or with a
\* new one when into is 0.
AddAccount(into, key, api) ==
  \/ /\ into = 0
     /\ desktops' = Append(desktops,
          [api |-> api, accounts |-> <<NewAccount(key, api, 0)>>])
  \/ /\ into # 0
     /\ ~Full(into)
     /\ desktops' = [desktops EXCEPT ![into] =
          [api      |-> api,
           accounts |-> Append(AllWithApi(@.accounts, api),
                               NewAccount(key, api, NextIndex(into)))]]

\* Where accounts of an api are added: to a TDesktop there is, or, in bound
\* and when no other call may do so, to a new one.
Owners(api) ==
  (IF Len(desktops) < MaxDesktops /\ call = "none" THEN {0} ELSE {})
    \cup {d \in DOMAIN desktops : desktops[d].api = api}

\* "You can always use CreateNewSessions with any APIs."
OwnersOfNew == Owners(Api) \cup (IF "mix" \in Uses THEN DOMAIN desktops ELSE {})

(***************************************************************************)
(* UseCurrentSession                                                       *)
(***************************************************************************)

\* Mutant: the client gets the api it is asked for, not that of the account.
ApiAskedFor(account) == Api

ApiOfAccount(account) == account.api

\* FromTDesktop: the key of the main account, in the session file and in a
\* client that has not connected.
FromTDesktopUse(d) ==
  /\ Synchronous
  /\ op.flow # "FromTDesktop" \/ "share" \in Uses
  /\ LET account == desktops[d].accounts[1] IN
       /\ client' = [key |-> account.key, api |-> ApiOfAccount(account),
                     connected |-> FALSE, known |-> TRUE]
       /\ file' = account.key
  /\ UNCHANGED desktops

\* FromTelethon of a client that knows its user; the caller names the API the
\* client uses, as UseCurrentSession demands.
FromTelethonUse(into) ==
  /\ client.key # 0 /\ client.known
  /\ Synchronous
  /\ AddAccount(into, client.key, client.api)
  /\ UNCHANGED <<client, file>>

\* The limit: MaxAccountLimit.
FromTelethonUseFails(into) ==
  /\ client.key # 0 /\ client.known
  /\ Synchronous
  /\ into # 0 /\ Full(into)
  /\ UNCHANGED caller

\* Otherwise the user is asked for first: connect and get_me.
FromTelethonAsk(into) ==
  /\ client.key # 0 /\ ~client.known
  /\ Begin("get_me", [NoOp EXCEPT !.key = client.key, !.api = client.api,
                                  !.into = into])
  /\ UNCHANGED <<login, caller, cloud>>

\* The account is added, or the limit refuses it: MaxAccountLimit.
AddOrFail ==
  /\ \/ AddAccount(op.into, op.key, op.api)
     \/ /\ op.into # 0 /\ Full(op.into)
        /\ UNCHANGED desktops
  /\ End

\* get_me answers None for a client that is not authorized; the account is
\* added all the same.  The key was read before the await.
GetMe ==
  /\ call = "get_me"
  /\ Use(op.key, op.api)
  /\ client' = IF client.key = op.key
                 THEN [client EXCEPT !.connected = TRUE, !.known = server[op.key].live]
                 ELSE client
  /\ AddOrFail
  /\ UNCHANGED <<login, file, made>>

(***************************************************************************)
(* CreateNewSession                                                        *)
(***************************************************************************)

\* FromTDesktop: a client in memory takes the key of the main account, to
\* accept the login of the client that is returned.
FromTDesktopCreate(d) ==
  /\ made < MaxKeys
  /\ file \notin Held \/ "share" \in Uses
  /\ LET account == desktops[d].accounts[1] IN
       Begin("authorize", [NoOp EXCEPT !.flow = "FromTDesktop", !.key = account.key,
                                       !.api = ApiOfAccount(account)])
  /\ UNCHANGED <<login, caller, cloud>>

\* FromTelethon: only a client that is not connected is connected and asked
\* whether it is authorized.
FromTelethonCreate(into) ==
  /\ made < MaxKeys
  /\ client.key # 0 /\ ~client.connected
  /\ Begin("authorize", [NoOp EXCEPT !.flow = "FromTelethon", !.key = client.key,
                                     !.api = client.api, !.into = into])
  /\ UNCHANGED <<login, caller, cloud>>

\* QRLoginToNewClient(session): the state of QRLogin at its beginning.
LoginWith(auth) ==
  /\ kind' = "file" /\ found' = auth /\ session' = auth
  /\ \E secret \in {<<"off", "none">>, <<"on", "none">>, <<"on", "wrong">>, <<"on", "right">>} :
       twoFactor' = secret[1] /\ password' = secret[2]
  /\ token' = "none" /\ pc' = "connect" /\ attempt' = 0
  /\ timeoutErr' = "None" /\ result' = "none"

FromTelethonLogin(into) ==
  /\ made < MaxKeys
  /\ client.key # 0 /\ client.connected
  /\ Begin("login", [NoOp EXCEPT !.flow = "FromTelethon", !.key = client.key,
                                 !.api = client.api, !.into = into])
  /\ LoginWith(Nobody)
  /\ UNCHANGED <<caller, cloud>>

\* connect and is_user_authorized; the session file is opened with Api.
Authorize ==
  /\ call = "authorize"
  /\ LET opened == IF op.flow = "FromTDesktop" THEN {file} \ {0} ELSE {} IN
     \/ /\ server[op.key].live
        /\ server' = [k \in Keys |->
             [server[k] EXCEPT !.with = @ \cup (IF k = op.key THEN {op.api} ELSE {})
                                          \cup (IF k \in opened THEN {Api} ELSE {})]]
        /\ LoginWith(IF opened = {} THEN Nobody ELSE AuthOf(file))
        /\ call' = "login"
        /\ UNCHANGED <<op, calls>>
     \/ /\ ~server[op.key].live
        /\ Use(op.key, op.api)
        /\ End
        /\ UNCHANGED login
  /\ client' = IF op.flow = "FromTelethon" /\ client.key = op.key
                 THEN [client EXCEPT !.connected = TRUE] ELSE client
  /\ UNCHANGED <<desktops, file, made>>

\* A step of QRLogin; a token is accepted by a session that is live.
LoginStep ==
  /\ call = "login" /\ pc # "done"
  /\ Step \/ Grant \/ Expire
  /\ token # "accepted" /\ token' = "accepted" => server[op.key].live
  /\ UNCHANGED <<caller, cloud, call, op, calls>>

\* The key an authorized login has made; the key of a session that has ended
\* is not used again.
MadeKey == made + 1

\* A client without a session is returned when no turn was to be made.
MakesKey == token = "used" \/ (result = "client" /\ session = Nobody)

\* A session of another api that was found in the file and opened with Api is
\* still there when the login raises before it has replaced it.
LeftInFile(k) ==
  /\ op.flow = "FromTDesktop" /\ result # "client"
  /\ token # "used" /\ session # Nobody
  /\ k = file /\ server[k].by # Api

\* QRLoginToNewClient returns or raises: a key that was authorized stays so on
\* the server either way, and the session file keeps what the login left in it,
\* where a session that has ended is as good as none.
EndLogin ==
  /\ call = "login" /\ pc = "done"
  /\ LeaveLogin
  /\ made' = IF MakesKey THEN MadeKey ELSE made
  /\ server' = [k \in Keys |->
       IF MakesKey /\ k = MadeKey
         THEN [whose |-> Me, by |-> Api, live |-> token = "used", with |-> {Api},
               left |-> FALSE]
         ELSE [server[k] EXCEPT !.left = @ \/ LeftInFile(k)]]
  /\ IF op.flow = "FromTDesktop"
       THEN /\ file' = IF MakesKey THEN MadeKey ELSE IF session = Nobody THEN 0 ELSE file
            /\ IF result = "client"
                 THEN client' \in [key : {file'}, api : {Api}, connected : {TRUE},
                                   known : BOOLEAN]
                 ELSE UNCHANGED client
            /\ End
       ELSE /\ UNCHANGED <<client, file>>
            /\ IF result = "client"
                 THEN /\ call' = "copy"
                      /\ op' = [op EXCEPT !.key = MadeKey, !.api = Api]
                      /\ UNCHANGED calls
                 ELSE End
  /\ UNCHANGED desktops

\* Mutant: the client given is converted, not the copy that was made.
NotTheCopy == client.key

TheCopy == op.key

\* Account.FromTelethon after get_me of the copy.
AddCopy ==
  /\ call = "copy"
  /\ \/ AddAccount(op.into, TheCopy, op.api)
     \/ /\ op.into # 0 /\ Full(op.into)
        /\ UNCHANGED desktops
  /\ End
  /\ UNCHANGED <<login, client, file, cloud>>

(***************************************************************************)
(* FromBundle                                                              *)
(***************************************************************************)

\* A bundle is the session file, with the API that authorized it in the JSON.
FromBundle ==
  /\ file # 0
  /\ Begin("bundle", [NoOp EXCEPT !.key = file, !.api = server[file].by])
  /\ UNCHANGED <<login, caller, cloud>>

\* connect and is_user_authorized; otherwise disconnect, TelethonUnauthorized.
OpenBundle ==
  /\ call = "bundle"
  /\ Use(op.key, op.api)
  /\ client' = IF server[op.key].live
                 THEN [key |-> op.key, api |-> op.api, connected |-> TRUE, known |-> FALSE]
                 ELSE client
  /\ End
  /\ UNCHANGED <<login, desktops, file, made>>

(***************************************************************************)
(* TerminateAllSessions                                                    *)
(***************************************************************************)

TerminateAll ==
  /\ client.connected
  /\ Begin("list", [NoOp EXCEPT !.key = client.key])
  /\ UNCHANGED <<login, caller, cloud>>

\* GetSessions: the live sessions of the account, without the current one.
ListSessions ==
  /\ call = "list"
  /\ LET others == {k \in 1 .. made : /\ k # op.key /\ server[k].live
                                      /\ server[k].whose = server[op.key].whose} IN
     \/ /\ server[op.key].live
        /\ op' = [op EXCEPT !.listed = others, !.todo = others]
        /\ call' = "reset"
        /\ UNCHANGED calls
     \/ ~server[op.key].live /\ End
  /\ UNCHANGED <<login, caller, cloud>>

\* Mutant: a refusal is logged and the loop goes on.
RefusalIgnored ==
  \E k \in op.todo :
    /\ op' = [op EXCEPT !.todo = @ \ {k}]
    /\ \/ server' = [server EXCEPT ![k].live = FALSE]
       \/ UNCHANGED server
    /\ UNCHANGED <<call, calls>>

\* TerminateSession, for one hash after the other: a session that is gone, or
\* a current session younger than a day (AwaitFails), raises out of the loop.
TerminateSession ==
  \E k \in op.todo :
    \/ /\ server[k].live
       /\ server' = [server EXCEPT ![k].live = FALSE]
       /\ op' = [op EXCEPT !.todo = @ \ {k}]
       /\ UNCHANGED <<call, calls>>
    \/ ~server[k].live /\ End /\ UNCHANGED server

Terminate ==
  /\ call = "reset"
  /\ TerminateSession
  /\ UNCHANGED <<login, caller, made>>

Terminated ==
  /\ call = "reset" /\ op.todo = {}
  /\ End
  /\ UNCHANGED <<login, caller, cloud>>

(***************************************************************************)
(* Specification                                                           *)
(***************************************************************************)

CallStep ==
  \/ LoginStep \/ EndLogin \/ AddCopy \/ Authorize \/ GetMe \/ OpenBundle
  \/ ListSessions \/ Terminate \/ Terminated \/ AwaitFails

Calls ==
  \/ \E d \in DOMAIN desktops : FromTDesktopUse(d) \/ FromTDesktopCreate(d)
  \/ \E into \in Owners(client.api) : \/ FromTelethonUse(into)
                                      \/ FromTelethonUseFails(into)
                                      \/ FromTelethonAsk(into)
  \/ \E into \in OwnersOfNew : FromTelethonCreate(into) \/ FromTelethonLogin(into)
  \/ FromBundle \/ TerminateAll

BridgeNext == CallStep \/ Calls \/ ConnectClient \/ \E k \in Keys : Revoke(k)

\* Every await of a call ends: with an answer, an error, or the timeout of
\* Telethon.  Nothing makes the caller call or the user end a session.
BridgeSpec == BridgeInit /\ [][BridgeNext]_bridgeVars /\ WF_bridgeVars(CallStep)

(***************************************************************************)
(* Properties                                                              *)
(***************************************************************************)

Accounts == [key : Keys, api : Apis, index : Nat]
Places   == {"none", "get_me", "authorize", "login", "copy", "bundle", "list", "reset"}

\* The types of the state; the API of a TDesktop is that of its accounts.
BridgeTypeOK ==
  /\ TypeOK
  /\ \A d \in DOMAIN desktops :
       /\ desktops[d].api \in Apis
       /\ desktops[d].accounts \in Seq(Accounts)
       /\ \A i \in DOMAIN desktops[d].accounts : desktops[d].accounts[i].api = desktops[d].api
  /\ client \in [key : {0} \cup Keys, api : Apis, connected : BOOLEAN, known : BOOLEAN]
  /\ file \in {0} \cup 1 .. made
  /\ made \in 1 .. MaxKeys
  /\ server \in [Keys -> [whose : {Me, Stranger}, by : Apis, live : BOOLEAN,
                          with : SUBSET Apis, left : BOOLEAN]]
  /\ call \in Places
  /\ op \in [flow : {"none", "FromTDesktop", "FromTelethon"}, key : {0} \cup Keys,
             api : Apis, into : 0 .. MaxDesktops, listed : SUBSET Keys,
             todo : SUBSET Keys]
  /\ calls \in 0 .. MaxCalls

\* A session that an account or the client holds was used with no API but the
\* one that authorized it: "Don't use a same session with multiple different
\* APIs, you might be banned" (UseCurrentSession in api.py), while "you can
\* always use CreateNewSessions with any APIs".  One kind of session is
\* excepted, for the code does mix it: a session of another API in the file
\* that CreateNewSession is to overwrite is opened with the new API before it
\* is replaced, and when the call raises in between the file can be used again.
OneApiPerSession ==
  \A k \in Held : server[k].with \subseteq {server[k].by} \/ server[k].left

\* The accounts of a TDesktop are numbered in their order and are no more than
\* kMaxAccounts, also when other tasks add accounts while a conversion waits.
AccountsNumbered ==
  \A d \in DOMAIN desktops :
    /\ Len(desktops[d].accounts) <= kMaxAccounts
    /\ \A i \in DOMAIN desktops[d].accounts : desktops[d].accounts[i].index = i - 1

\* CreateNewSession gives the TDesktop a key that nothing held before: the
\* session that authorized it and the new one can be used side by side.
CreatedIsNew ==
  [][\A d \in DOMAIN desktops' :
       call = "copy" /\ call' = "none" /\ desktops' # desktops =>
         HeldBy(desktops') \ Held # {}]_bridgeVars

\* When TerminateAllSessions returns, every session it had listed is gone.
AllListedGone ==
  [][call = "reset" /\ call' = "none" /\ op.todo = {}
       => \A k \in op.listed : ~server'[k].live]_bridgeVars

\* Every call ends, with the login it waits for, whatever was in the session
\* file and whatever other tasks do.
CallEnds == call # "none" ~> call = "none"
=============================================================================
