------------------------------ MODULE QRLogin -------------------------------
(***************************************************************************)
(* TelegramClient.QRLoginToNewClient (tl/telethon.py): the current session *)
(* authorizes a new one by accepting its QR login token.  Every await of   *)
(* the coroutine is a step; between them the server grants an accepted     *)
(* token or lets a token expire, and the user may end the session that was *)
(* found.                                                                  *)
(*                                                                         *)
(* Telethon and the server are external: their answers are modelled from   *)
(* how the code uses them.  Warnings and the QR code itself are left out.  *)
(***************************************************************************)
EXTENDS Integers

CONSTANTS
  Me,           \* the account of the current session
  Stranger,     \* another account
  Api,          \* the api_id the new session is asked for
  OtherApi,     \* another api_id
  Nobody,       \* the authorization of a session that has none
  Retries,      \* request_retries, which may be 0 or negative
  SessionKinds  \* the sessions passed: "file" by name, "object" as a Session

ASSUME LoginAssumption ==
  /\ Me # Stranger
  /\ Api # OtherApi
  /\ Nobody \notin {Me, Stranger} \X {Api, OtherApi}
  /\ Retries \in Int
  /\ SessionKinds \subseteq {"file", "object"}

VARIABLES
  kind,       \* what the argument session is
  found,      \* the authorization the session had when the call began
  session,    \* the authorization the session has
  twoFactor,  \* two-step verification of the account: "on" or "off"
  password,   \* the argument password: "none", "right" or "wrong"
  token,      \* the server's state of the login token
  pc,         \* the await the coroutine is in
  attempt,    \* turns of the retry loop that timed out
  timeoutErr, \* timeout_err: "None" or the "TimeoutError" to raise
  result      \* "client" or the exception raised

vars == <<kind, found, session, twoFactor, password, token, pc, attempt,
          timeoutErr, result>>
args == <<kind, found, twoFactor, password>>

Auths   == {Me, Stranger} \X {Api, OtherApi}
WithApi == {Me, Stranger} \X {Api}
Granted == <<Me, Api>>

Init ==
  /\ kind \in SessionKinds
  /\ found \in Auths \cup {Nobody}
  /\ session = found
  /\ twoFactor \in {"off", "on"}
  /\ password \in {"none", "right", "wrong"}
  /\ token = "none"
  /\ pc = "connect"
  /\ attempt = 0
  /\ timeoutErr = "None"
  /\ result = "none"

GoTo(from, to) ==
  /\ pc = from
  /\ pc' = to
  /\ UNCHANGED <<args, attempt, timeoutErr, result>>

Leave(r) ==
  /\ pc' = "done"
  /\ result' = r
  /\ UNCHANGED <<args, attempt, timeoutErr>>

Raise(from, error) ==
  /\ pc = from
  /\ Leave(error)
  /\ UNCHANGED <<session, token>>

(***************************************************************************)
(* The server                                                              *)
(***************************************************************************)

\* An accepted token authorizes the session, unless a password is missing.
Grant ==
  /\ pc # "done"
  /\ token = "accepted"
  /\ twoFactor = "off"
  /\ session' = Granted
  /\ token' = "used"
  /\ UNCHANGED <<args, pc, attempt, timeoutErr, result>>

Expire ==
  /\ pc # "done"
  /\ token = "shown"
  /\ token' = "expired"
  /\ UNCHANGED <<args, session, pc, attempt, timeoutErr, result>>

\* The user ends the session that was found, on another device.
EndedElsewhere ==
  /\ pc # "done"
  /\ token # "used" /\ session # Nobody
  /\ session' = Nobody
  /\ UNCHANGED <<args, token, pc, attempt, timeoutErr, result>>

(***************************************************************************)
(* Before the loop                                                         *)
(***************************************************************************)

\* A session of another data center is moved to the one of the current
\* session, which drops its key and with it its authorization.
Connect ==
  /\ GoTo("connect", "check")
  /\ session' \in {session, Nobody}
  /\ UNCHANGED token

ConnectFails ==
  /\ pc = "connect"
  /\ session' \in {session, Nobody}
  /\ Leave("CannotConnect")
  /\ UNCHANGED token

\* is_user_authorized
CheckAuthorized ==
  /\ GoTo("check", IF session = Nobody THEN "attempt" ELSE "current")
  /\ UNCHANGED <<session, token>>

\* Mutant: the api_id is not compared.
CurrentSessionOfAnyApi ==
  /\ pc = "current"
  /\ Leave("client")
  /\ UNCHANGED <<session, token>>

\* The session the server flags as the current one; Nobody when it flags none.
GetCurrentSession == {session, Nobody}

\* A session that was authorized with the api asked for is returned as it is;
\* when there is no current one, the login goes on.
CurrentSession ==
  /\ \E currentAuth \in GetCurrentSession :
       \/ currentAuth = Nobody /\ GoTo("current", "attempt")
       \/ currentAuth \in Auths \ WithApi /\ GoTo("current", "delete")
       \/ currentAuth \in WithApi /\ pc = "current" /\ Leave("client")
  /\ UNCHANGED <<session, token>>

\* Mutant: the session is only closed.
CloseSession ==
  /\ GoTo("delete", "connect")
  /\ UNCHANGED <<session, token>>

\* The session is disconnected, closed and deleted, and the call starts over
\* with the same argument: a name now stands for an empty file, while a
\* Session object keeps what it holds in memory.
DeleteSession ==
  /\ GoTo("delete", "connect")
  /\ session' = IF kind = "file" THEN Nobody ELSE session
  /\ UNCHANGED token

(***************************************************************************)
(* The loop                                                                *)
(***************************************************************************)

\* Mutant: one turn too many.
AttemptOnceMore ==
  /\ \/ attempt > Retries /\ GoTo("attempt", "exhausted")
     \/ attempt \in 1 .. Retries /\ session # Nobody /\ GoTo("attempt", "break")
     \/ attempt <= Retries /\ (attempt = 0 \/ session = Nobody)
        /\ GoTo("attempt", "export")
  /\ UNCHANGED <<session, token>>

\* The next turn, of which there is none when request_retries is not positive.
\* From the second turn on, the session may be authorized by now.
Attempt ==
  /\ \/ attempt >= Retries /\ GoTo("attempt", "exhausted")
     \/ attempt \in 1 .. Retries - 1 /\ session # Nobody
        /\ GoTo("attempt", "break")
     \/ attempt < Retries /\ (attempt = 0 \/ session = Nobody)
        /\ GoTo("attempt", "export")
  /\ UNCHANGED <<session, token>>

\* _on_login, and out of the loop.
Login(from) ==
  /\ GoTo(from, "break")
  /\ session' = Granted
  /\ token' = "used"

\* The answer to an export or import: a token that was accepted before
\* authorizes the session or asks for the password, otherwise a token is shown.
Answer(from) ==
  \/ token \in {"accepted", "used"} /\ twoFactor = "off" /\ Login(from)
  \/ token = "accepted" /\ twoFactor = "on"
     /\ GoTo(from, "password") /\ UNCHANGED <<session, token>>
  \/ token \in {"none", "shown", "expired"}
     /\ GoTo(from, "accept") /\ token' = "shown" /\ UNCHANGED session

\* qr_login; LoginTokenMigrateTo moves the session to the account's own data
\* center, which drops its key.
ExportToken ==
  \/ Answer("export")
  \/ GoTo("export", "import") /\ session' = Nobody /\ UNCHANGED token

\* ImportLoginTokenRequest
ImportToken ==
  \/ Answer("import")
  \/ Raise("import", "AuthTokenError")

\* AcceptLoginTokenRequest of the current session: a token that expired or
\* that another device has accepted is refused, and not tried again.
AcceptToken ==
  \/ GoTo("accept", "wait") /\ token = "shown" /\ token' = "accepted"
     /\ UNCHANGED session
  \/ Raise("accept", "AuthTokenError")

\* qr_login.wait
Wait ==
  \/ token \in {"accepted", "used"} /\ twoFactor = "off" /\ Login("wait")
  \/ token = "accepted" /\ twoFactor = "on"
     /\ GoTo("wait", "password") /\ UNCHANGED <<session, token>>

\* Any await of the try block may time out, from the second turn on the test
\* whether the session is authorized too; the request may have been answered
\* all the same.
TimesOut ==
  /\ \/ pc \in {"export", "import", "accept", "wait"}
     \/ pc = "attempt" /\ attempt \in 1 .. Retries - 1
  /\ pc' = "attempt"
  /\ attempt' = attempt + 1
  /\ timeoutErr' = "TimeoutError"
  /\ token' \in {token} \cup
       (IF pc = "accept" /\ token = "shown" THEN {"accepted"} ELSE {})
  /\ UNCHANGED <<args, session, result>>

CheckPassword ==
  \/ password = "none"  /\ Raise("password", "NoPasswordProvided")
  \/ password = "wrong" /\ Raise("password", "PasswordIncorrect")
  \/ password = "right" /\ Login("password")

\* After the loop a timeout of any turn is raised.
Finish ==
  /\ pc \in {"break", "exhausted"}
  /\ Leave(IF timeoutErr = "None" THEN "client" ELSE timeoutErr)
  /\ UNCHANGED <<session, token>>

\* Every other error of an await, a cancellation included, leaves the call.
OtherError ==
  \E from \in {"connect", "check", "current", "delete", "attempt", "export",
               "import", "accept", "wait", "password"} : Raise(from, "OtherError")

Step ==
  \/ Connect \/ ConnectFails \/ CheckAuthorized \/ CurrentSession
  \/ DeleteSession \/ Attempt \/ ExportToken \/ ImportToken \/ AcceptToken
  \/ Wait \/ TimesOut \/ CheckPassword \/ Finish \/ OtherError

Next == Step \/ Grant \/ Expire \/ EndedElsewhere

\* Every await ends: with an answer, an error, or the timeout of Telethon.
Spec == Init /\ [][Next]_vars /\ WF_vars(Step)

(***************************************************************************)
(* Properties                                                              *)
(***************************************************************************)

Awaits == {"connect", "check", "current", "delete", "attempt", "export",
           "import", "accept", "wait", "password", "break", "exhausted", "done"}

\* The types of the state; the loop never runs more often than
\* request_retries says, and only a timeout starts another turn.
TypeOK ==
  /\ kind \in {"file", "object"}
  /\ found \in Auths \cup {Nobody}
  /\ session \in Auths \cup {Nobody}
  /\ twoFactor \in {"off", "on"}
  /\ password \in {"none", "right", "wrong"}
  /\ token \in {"none", "shown", "accepted", "used", "expired"}
  /\ pc \in Awaits
  /\ attempt \in {0} \cup 1 .. Retries
  /\ timeoutErr = IF attempt > 0 THEN "TimeoutError" ELSE "None"
  /\ result \in {"none", "client", "CannotConnect", "TimeoutError", "OtherError",
                 "AuthTokenError", "NoPasswordProvided", "PasswordIncorrect"}

\* When request_retries allows one turn at least: a client that is returned is
\* authorized, with the api that was asked for, and for the account of the
\* current session -- or it is the session that was found under the given
\* name, unchanged.  With 0 or less, which the documentation of the client
\* allows, no turn is made and the client comes back as it was connected.
ReturnsAuthorized ==
  Retries >= 1 /\ result = "client" =>
    /\ session \in WithApi
    /\ session \in {Granted, found}

\* The call ends, whatever the answers, also when the session found has to
\* be deleted first.
Terminates == <>(pc = "done")

\* A turn that leaves the loop because a token of this call has authorized
\* the session ends the call with the client, after timeouts too ("we could
\* have been already authorized, but it still raised an timeouterror", the
\* comment at the test that leaves the loop).
RetryReturnsClient ==
  [][pc = "break" /\ token = "used" /\ pc' = "done" => result' # "TimeoutError"]_vars
=============================================================================
