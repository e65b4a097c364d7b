------------------------ MODULE TelethonBridgeProofs ------------------------
(***************************************************************************)
(* Proofs about TelethonBridge, for every number of accounts, keys,        *)
(* TDesktop objects and calls, and about the QR login they wait for.       *)
(***************************************************************************)
EXTENDS TelethonBridge, TLAPS

(***************************************************************************)
(* The QR login, for every number of retries and every session found       *)
(***************************************************************************)

\* Before the loop no token exists, and the session is the one found or has
\* no authorization.
BeforeLoop ==
  pc \in {"connect", "check", "current", "delete"} =>
    /\ token = "none"
    /\ session \in {found, Nobody}
    /\ attempt = 0

\* A turn of the loop is one that request_retries allows; the loop is left
\* with the authorization that a token granted, unless a turn timed out.
InLoop ==
  /\ pc \in {"export", "import", "accept", "wait", "password"} => attempt < Retries
  /\ pc = "exhausted" => timeoutErr # "None" \/ Retries < 1
  /\ pc = "break" => timeoutErr # "None" \/ (session = Granted /\ token = "used")

NoResultYet == pc # "done" => result = "none"

Inv == TypeOK /\ NoResultYet /\ BeforeLoop /\ InLoop /\ ReturnsAuthorized

LEMMA AuthTypes ==
  /\ Granted \in Auths
  /\ Granted \in WithApi
  /\ WithApi \subseteq Auths
  /\ Nobody \notin Auths
BY LoginAssumption DEF Granted, Auths, WithApi

LEMMA InitInv == Init => Inv
<1> SUFFICES ASSUME Init PROVE Inv
  OBVIOUS
<1>1. TypeOK
  BY LoginAssumption DEF Init, TypeOK, Awaits
<1>2. NoResultYet /\ BeforeLoop /\ InLoop /\ ReturnsAuthorized
  BY DEF Init, NoResultYet, BeforeLoop, InLoop, ReturnsAuthorized
<1> QED BY <1>1, <1>2 DEF Inv

LEMMA NextInv == Inv /\ [Next]_vars => Inv'
<1> SUFFICES ASSUME Inv, [Next]_vars PROVE Inv'
  OBVIOUS
<1> USE LoginAssumption, AuthTypes
    DEF Inv, TypeOK, NoResultYet, BeforeLoop, InLoop, ReturnsAuthorized,
        Awaits, args
<1>1. CASE UNCHANGED vars
  BY <1>1 DEF vars
<1>2. CASE Grant
  BY <1>2 DEF Grant
<1>3. CASE Expire
  BY <1>3 DEF Expire
<1>4. CASE Connect \/ ConnectFails
  <2>1. session' \in {session, Nobody} /\ token' = token /\ pc = "connect"
        /\ UNCHANGED <<kind, found, twoFactor, password, attempt, timeoutErr>>
    BY <1>4 DEF Connect, ConnectFails, GoTo, Leave
  <2>2. \/ pc' = "check" /\ result' = result
        \/ pc' = "done" /\ result' = "CannotConnect"
    BY <1>4 DEF Connect, ConnectFails, GoTo, Leave
  <2>3. TypeOK'
    BY <2>1, <2>2
  <2>4. BeforeLoop'
    BY <2>1, <2>2
  <2>5. NoResultYet' /\ InLoop' /\ ReturnsAuthorized'
    BY <2>1, <2>2
  <2> QED BY <2>3, <2>4, <2>5
<1>5. CASE CheckAuthorized
  BY <1>5 DEF CheckAuthorized, GoTo
<1>6. CASE CurrentSession
  BY <1>6 DEF CurrentSession, GetCurrentSession, GoTo, Leave
<1>7. CASE DeleteSession
  <2>1. session' \in {session, Nobody} /\ token' = token /\ pc = "delete"
        /\ pc' = "connect"
        /\ UNCHANGED <<kind, found, twoFactor, password, attempt, timeoutErr, result>>
    BY <1>7 DEF DeleteSession, GoTo
  <2>2. TypeOK'
    BY <2>1
  <2>3. BeforeLoop'
    BY <2>1
  <2>4. NoResultYet' /\ InLoop' /\ ReturnsAuthorized'
    BY <2>1
  <2> QED BY <2>2, <2>3, <2>4
<1>8. CASE Attempt
  BY <1>8 DEF Attempt, GoTo
<1>9. CASE ExportToken
  <2>1. CASE Answer("export")
    BY <2>1 DEF Answer, Login, GoTo
  <2>2. CASE GoTo("export", "import") /\ session' = Nobody /\ UNCHANGED token
    BY <2>2 DEF GoTo
  <2> QED BY <1>9, <2>1, <2>2 DEF ExportToken
<1>10. CASE ImportToken
  BY <1>10 DEF ImportToken, Answer, Login, Raise, GoTo, Leave
<1>11. CASE AcceptToken
  BY <1>11 DEF AcceptToken, Raise, GoTo, Leave
<1>12. CASE Wait
  BY <1>12 DEF Wait, Login, GoTo
<1>13. CASE TimesOut
  BY <1>13 DEF TimesOut
<1>14. CASE CheckPassword
  BY <1>14 DEF CheckPassword, Login, Raise, GoTo, Leave
<1>15. CASE Finish
  BY <1>15 DEF Finish, Leave
<1>16. CASE OtherError
  BY <1>16 DEF OtherError, Raise, Leave
<1>17. CASE EndedElsewhere
  BY <1>17 DEF EndedElsewhere
<1> QED BY <1>1, <1>2, <1>3, <1>4, <1>5, <1>6, <1>7, <1>8, <1>9, <1>10, <1>11,
      <1>12, <1>13, <1>14, <1>15, <1>16, <1>17 DEF Next, Step

\* For every request_retries of one or more, which ReturnsAuthorized supposes:
\* a client that QRLoginToNewClient returns is authorized with the api asked
\* for, for the account of the current session, or is the session found under
\* the given name, unchanged.  For 0 or less the theorem says nothing.
THEOREM ClientsAuthorized == Spec => []ReturnsAuthorized
<1>1. Inv => ReturnsAuthorized
  BY DEF Inv
<1> QED BY <1>1, InitInv, NextInv, PTL DEF Spec

(***************************************************************************)
(* The types and the places of a conversion                                *)
(***************************************************************************)

Desktop == [api : Apis, accounts : Seq(Accounts)]

\* The types, and what the places of a conversion need of its locals.
Types ==
  /\ desktops \in Seq(Desktop)
  /\ Len(desktops) <= MaxDesktops
  /\ client \in [key : {0} \cup 1 .. made, api : Apis, connected : BOOLEAN, known : BOOLEAN]
  /\ client.connected => client.key # 0
  /\ file \in {0} \cup 1 .. made
  /\ made \in 1 .. MaxKeys
  /\ server \in [Keys -> [whose : {Me, Stranger}, by : Apis, live : BOOLEAN,
                          with : SUBSET Apis, left : BOOLEAN]]
  /\ call \in Places
  /\ op \in [flow : {"none", "FromTDesktop", "FromTelethon"}, key : {0} \cup 1 .. made,
             api : Apis, into : 0 .. MaxDesktops, listed : SUBSET (1 .. made),
             todo : SUBSET (1 .. made)]
  /\ calls \in 0 .. MaxCalls

AccountsFilled ==
  \A d \in DOMAIN desktops :
    /\ desktops[d].accounts # <<>>
    /\ \A i \in DOMAIN desktops[d].accounts :
         /\ desktops[d].accounts[i].key \in 1 .. made
         /\ desktops[d].accounts[i].api = desktops[d].api

\* Adding happens to a TDesktop there is, or to a new one there is room for.
Room(into) == \/ into = 0 /\ Len(desktops) < MaxDesktops
              \/ into \in DOMAIN desktops

PlaceInv ==
  /\ call = "none" => op.flow = "none"
  /\ call # "none" => op.key # 0
  /\ call \in {"authorize", "login"} => op.flow # "none" /\ made < MaxKeys
  /\ call \in {"get_me", "copy"} => op.flow # "FromTDesktop" /\ Room(op.into)
  /\ call \in {"authorize", "login"} /\ op.flow = "FromTelethon" => Room(op.into)

\* The login of a conversion: a token that is not used leaves the session that
\* was found, which for FromTelethon is none.
TokenInv == token # "used" => session \in {found, Nobody}

LoginInv ==
  /\ Inv
  /\ TokenInv
  /\ call = "login" /\ op.flow = "FromTelethon" => found = Nobody
  /\ call = "login" /\ op.flow = "FromTDesktop" /\ found # Nobody => file # 0

\* The key of a copy is held by nothing yet.
CopyIsFree ==
  call = "copy" =>
    /\ client.key # op.key
    /\ \A d \in DOMAIN desktops : \A i \in DOMAIN desktops[d].accounts :
         desktops[d].accounts[i].key # op.key

\* What TerminateAllSessions has come past is gone.
PassedAreGone ==
  call = "reset" => \A k \in op.listed \ op.todo : ~server[k].live

CallInv == /\ Types /\ AccountsFilled /\ AccountsNumbered /\ PlaceInv
           /\ LoginInv /\ CopyIsFree /\ PassedAreGone

(***************************************************************************)
(* One API per session, for the uses the documentation allows              *)
(***************************************************************************)

\* Key k was authorized with api and used with no other, or else was left in
\* its file by a CreateNewSession that raised.
Honest(k, api) ==
  /\ k \in 1 .. made /\ server[k].by = api
  /\ server[k].with \subseteq {api} \/ server[k].left

AccountsHonest ==
  \A d \in DOMAIN desktops : \A i \in DOMAIN desktops[d].accounts :
    Honest(desktops[d].accounts[i].key, desktops[d].api)

ClientHonest == client.key # 0 => Honest(client.key, client.api)

CallHonest ==
  call \in {"get_me", "authorize", "bundle", "copy"} => Honest(op.key, op.api)

ServerHonest == \A k \in 1 .. made : server[k].with \subseteq {server[k].by, Api}

\* The TDesktop an account is added to has its API.
OwnerInv ==
  /\ call = "copy" => op.api = Api
  /\ call \in {"get_me", "copy"} /\ op.into # 0 => desktops[op.into].api = op.api
  /\ call \in {"authorize", "login"} /\ op.flow = "FromTelethon" /\ op.into # 0 =>
       desktops[op.into].api = Api

\* The file of a new session is not the session of anything; what the login
\* found in it is what the server knows of its key.
FileIsFree ==
  op.flow = "FromTDesktop" =>
    /\ call = "login" /\ found # Nobody => file # 0 /\ found[2] = server[file].by
    /\ client.key # 0 => client.key # file
    /\ \A d \in DOMAIN desktops : \A i \in DOMAIN desktops[d].accounts :
         desktops[d].accounts[i].key # file

\* The key in the session file, but for the time a login has it open.
FileHonest ==
  file # 0 /\ ~(call = "login" /\ op.flow = "FromTDesktop") => Honest(file, server[file].by)

ApiInv == /\ AccountsHonest /\ ClientHonest /\ CallHonest /\ ServerHonest
          /\ OwnerInv /\ FileIsFree /\ FileHonest

(***************************************************************************)
(* The parts of a step                                                     *)
(***************************************************************************)

LEMMA BridgeFacts ==
  /\ Api \in Apis /\ OtherApi \in Apis /\ Api # OtherApi
  /\ MaxKeys \in Nat /\ MaxKeys >= 2 /\ 1 \in Keys /\ 2 \in Keys
  /\ kMaxAccounts \in Nat /\ kMaxAccounts >= 1
  /\ MaxDesktops \in Nat /\ MaxDesktops >= 1
  /\ MaxCalls \in Nat
BY LoginAssumption, BridgeAssumption DEF Apis, Keys

\* What adding an account does to the list of TDesktop objects.
Added(into, key, api) ==
  /\ desktops' \in Seq(Desktop)
  /\ Len(desktops') = IF into = 0 THEN Len(desktops) + 1 ELSE Len(desktops)
  /\ AccountsNumbered'
  /\ \A d \in DOMAIN desktops' : desktops'[d].accounts # <<>>
  /\ \A d \in DOMAIN desktops' :
       desktops'[d].api = IF d \in DOMAIN desktops /\ d # into THEN desktops[d].api ELSE api
  /\ \A d \in DOMAIN desktops \ {into} : desktops'[d] = desktops[d]
  /\ \A d \in DOMAIN desktops' : \A i \in DOMAIN desktops'[d].accounts :
       /\ desktops'[d].accounts[i].api = desktops'[d].api \/ d \in DOMAIN desktops \ {into}
       /\ \/ desktops'[d].accounts[i].key = key /\ desktops'[d].api = api
          \/ /\ d \in DOMAIN desktops /\ i \in DOMAIN desktops[d].accounts
             /\ desktops'[d].accounts[i].key = desktops[d].accounts[i].key
  /\ \E d \in DOMAIN desktops' : \E i \in DOMAIN desktops'[d].accounts :
       desktops'[d].accounts[i].key = key

LEMMA Appended ==
  ASSUME NEW S, NEW s \in Seq(S), NEW e \in S
  PROVE  /\ Append(s, e) \in Seq(S) /\ Append(s, e) # <<>>
         /\ Len(Append(s, e)) = Len(s) + 1
         /\ DOMAIN Append(s, e) = DOMAIN s \cup {Len(s) + 1}
         /\ \A i \in DOMAIN s : Append(s, e)[i] = s[i]
         /\ Append(s, e)[Len(s) + 1] = e
OBVIOUS

LEMMA Replaced ==
  ASSUME NEW S, NEW s \in Seq(S), NEW k \in DOMAIN s, NEW e \in S
  PROVE  /\ [s EXCEPT ![k] = e] \in Seq(S)
         /\ Len([s EXCEPT ![k] = e]) = Len(s)
         /\ DOMAIN [s EXCEPT ![k] = e] = DOMAIN s
         /\ [s EXCEPT ![k] = e][k] = e
         /\ \A i \in DOMAIN s \ {k} : [s EXCEPT ![k] = e][i] = s[i]
OBVIOUS

LEMMA AddedToNew ==
  ASSUME Types, AccountsFilled, AccountsNumbered, NEW key \in Keys, NEW api \in Apis,
         desktops' = Append(desktops,
           [api |-> api, accounts |-> <<NewAccount(key, api, 0)>>])
  PROVE  Added(0, key, api)
<1> DEFINE account == NewAccount(key, api, 0)
           new     == [api |-> api, accounts |-> <<account>>]
<1>1. account \in Accounts /\ <<account>> \in Seq(Accounts) /\ new \in Desktop
  BY DEF NewAccount, Accounts, Desktop
<1>2. /\ desktops \in Seq(Desktop) /\ desktops' \in Seq(Desktop)
      /\ Len(desktops') = Len(desktops) + 1
      /\ \A d \in DOMAIN desktops : desktops'[d] = desktops[d]
      /\ desktops'[Len(desktops) + 1] = new
      /\ DOMAIN desktops' = DOMAIN desktops \cup {Len(desktops) + 1}
      /\ DOMAIN desktops = 1 .. Len(desktops)
      /\ 0 \notin DOMAIN desktops /\ Len(desktops) + 1 \notin DOMAIN desktops
  BY <1>1 DEF Types
<1>3. /\ new.api = api /\ new.accounts # <<>> /\ Len(new.accounts) = 1
      /\ DOMAIN new.accounts = {1} /\ new.accounts[1] = account
      /\ account.key = key /\ account.api = api /\ account.index = 0
  BY DEF NewAccount
<1> HIDE DEF account, new
<1>4. AccountsNumbered'
  BY <1>2, <1>3, BridgeFacts DEF AccountsNumbered
<1>5. \E d \in DOMAIN desktops' : \E i \in DOMAIN desktops'[d].accounts :
        desktops'[d].accounts[i].key = key
  BY <1>2, <1>3
<1> QED BY <1>2, <1>3, <1>4, <1>5 DEF Added, AccountsFilled

LEMMA AddedToOwner ==
  ASSUME Types, AccountsFilled, AccountsNumbered, NEW key \in Keys, NEW api \in Apis,
         NEW into \in DOMAIN desktops, ~Full(into),
         desktops' = [desktops EXCEPT ![into] =
           [api      |-> api,
            accounts |-> Append(AllWithApi(@.accounts, api),
                                NewAccount(key, api, NextIndex(into)))]]
  PROVE  Added(into, key, api)
<1> DEFINE old  == desktops[into].accounts
           same == AllWithApi(old, api)
           last == NewAccount(key, api, Len(old))
           longer == Append(same, last)
           new  == [api |-> api, accounts |-> longer]
<1>1. desktops \in Seq(Desktop)
  BY DEF Types
<1>2. desktops[into] \in Desktop
  BY <1>1
<1>3. old \in Seq(Accounts)
  BY <1>2 DEF Desktop
<1>4. desktops' = [desktops EXCEPT ![into] = new]
  BY <1>1 DEF NextIndex
<1> HIDE DEF old
<1>5. last \in Accounts /\ last.key = key /\ last.api = api /\ last.index = Len(old)
  BY <1>3 DEF NewAccount, Accounts
<1>6. Len(old) \in Nat /\ DOMAIN old = 1 .. Len(old)
  BY <1>3
<1>7. ASSUME NEW i \in DOMAIN old
      PROVE  /\ same[i] \in Accounts /\ same[i].key = old[i].key /\ same[i].api = api
             /\ same[i].index = old[i].index
  <2>1. old[i] \in Accounts
    BY <1>3, <1>7
  <2>2. same[i] = [old[i] EXCEPT !.api = api]
    BY <1>7 DEF AllWithApi
  <2> HIDE DEF same
  <2> QED BY <2>1, <2>2 DEF Accounts
<1>8. same \in Seq(Accounts) /\ Len(same) = Len(old) /\ DOMAIN same = DOMAIN old
  <2>1. same \in [1 .. Len(old) -> Accounts]
    BY <1>6, <1>7 DEF AllWithApi
  <2> QED BY <1>6, <2>1
<1> HIDE DEF same, last
<1>9. /\ longer \in Seq(Accounts) /\ Len(longer) = Len(old) + 1 /\ longer # <<>>
      /\ DOMAIN longer = DOMAIN old \cup {Len(old) + 1}
      /\ \A i \in DOMAIN old : longer[i] = same[i]
      /\ longer[Len(old) + 1] = last
  BY <1>5, <1>6, <1>8, Appended
<1> HIDE DEF longer
<1>10. new \in Desktop /\ new.api = api /\ new.accounts = longer
  BY <1>9 DEF Desktop
<1> HIDE DEF new
<1>11. /\ desktops' \in Seq(Desktop) /\ Len(desktops') = Len(desktops)
       /\ DOMAIN desktops' = DOMAIN desktops
       /\ desktops'[into] = new
       /\ \A d \in DOMAIN desktops \ {into} : desktops'[d] = desktops[d]
  <2> DEFINE changed == [desktops EXCEPT ![into] = new]
  <2>1. /\ changed \in Seq(Desktop) /\ Len(changed) = Len(desktops)
        /\ DOMAIN changed = DOMAIN desktops /\ changed[into] = new
        /\ \A d \in DOMAIN desktops \ {into} : changed[d] = desktops[d]
    BY <1>1, <1>10, Replaced
  <2> QED BY <1>4, <2>1
<1>into. into # 0
  BY <1>1
<1>12. Len(old) < kMaxAccounts
  BY <1>6, BridgeFacts DEF Full, NextIndex, old
<1>13. \A i \in DOMAIN old : old[i].index = i - 1
  BY DEF AccountsNumbered, old
<1>14. Len(longer) <= kMaxAccounts
  BY <1>6, <1>9, <1>12, BridgeFacts
<1>15. ASSUME NEW i \in DOMAIN longer
       PROVE  /\ longer[i].index = i - 1 /\ longer[i].api = api
              /\ \/ longer[i].key = key
                 \/ i \in DOMAIN old /\ longer[i].key = old[i].key
  <2>1. CASE i \in DOMAIN old
    BY <1>7, <1>9, <1>13, <2>1
  <2>2. CASE i = Len(old) + 1
    <3>1. longer[i] = last /\ i - 1 = Len(old)
      BY <1>6, <1>9, <2>2
    <3> QED BY <1>5, <3>1
  <2> QED BY <1>9, <1>15, <2>1, <2>2
<1>16. AccountsNumbered'
  <2>1. ASSUME NEW d \in DOMAIN desktops'
        PROVE  /\ Len(desktops'[d].accounts) <= kMaxAccounts
               /\ \A i \in DOMAIN desktops'[d].accounts : desktops'[d].accounts[i].index = i - 1
    <3>1. CASE d = into
      BY <1>10, <1>11, <1>14, <1>15, <3>1
    <3>2. CASE d # into
      BY <1>11, <2>1, <3>2 DEF AccountsNumbered
    <3> QED BY <3>1, <3>2
  <2> QED BY <2>1 DEF AccountsNumbered
<1>17. \A d \in DOMAIN desktops' : desktops'[d].accounts # <<>>
  BY <1>9, <1>10, <1>11 DEF AccountsFilled
<1>18. \A d \in DOMAIN desktops' :
         desktops'[d].api = IF d \in DOMAIN desktops /\ d # into THEN desktops[d].api ELSE api
  BY <1>10, <1>11
<1>19. ASSUME NEW d \in DOMAIN desktops', NEW i \in DOMAIN desktops'[d].accounts
       PROVE  /\ desktops'[d].accounts[i].api = desktops'[d].api \/ d \in DOMAIN desktops \ {into}
              /\ \/ desktops'[d].accounts[i].key = key /\ desktops'[d].api = api
                 \/ /\ d \in DOMAIN desktops /\ i \in DOMAIN desktops[d].accounts
                    /\ desktops'[d].accounts[i].key = desktops[d].accounts[i].key
  <2>1. CASE d = into
    BY <1>10, <1>11, <1>15, <1>19, <2>1, ZenonT(40) DEF old
  <2>2. CASE d # into
    BY <1>11, <1>19, <2>2
  <2> QED BY <2>1, <2>2
<1>20. \E d \in DOMAIN desktops' : \E i \in DOMAIN desktops'[d].accounts :
         desktops'[d].accounts[i].key = key
  <2>1. into \in DOMAIN desktops' /\ desktops'[into].accounts = longer
    BY <1>10, <1>11
  <2>2. Len(old) + 1 \in DOMAIN longer /\ longer[Len(old) + 1].key = key
    BY <1>5, <1>9
  <2> QED BY <2>1, <2>2
<1> QED BY <1>11, <1>into, <1>16, <1>17, <1>18, <1>19, <1>20 DEF Added

LEMMA AddAccountAdds ==
  ASSUME Types, AccountsFilled, AccountsNumbered, NEW key \in Keys, NEW api \in Apis,
         NEW into, Room(into), AddAccount(into, key, api)
  PROVE  Added(into, key, api)
<1>1. CASE into = 0
  BY <1>1, AddedToNew DEF AddAccount
<1>2. CASE into # 0
  BY <1>2, AddedToOwner DEF AddAccount, Room
<1> QED BY <1>1, <1>2

(***************************************************************************)
(* The login                                                               *)
(***************************************************************************)

LEMMA LoginStarts ==
  ASSUME NEW auth \in Auths \cup {Nobody}, LoginWith(auth)
  PROVE  Inv' /\ TokenInv' /\ found' = auth
BY LoginAssumption, AuthTypes
   DEF LoginWith, Inv, TypeOK, NoResultYet, BeforeLoop, InLoop, ReturnsAuthorized, TokenInv,
       Awaits

LEMMA LoginLeft ==
  ASSUME LeaveLogin
  PROVE  Inv' /\ TokenInv'
BY LoginAssumption, AuthTypes
   DEF LeaveLogin, Inv, TypeOK, NoResultYet, BeforeLoop, InLoop, ReturnsAuthorized, TokenInv,
       Awaits

\* A session changes by a token that is used, or loses what was found.
LEMMA LoginMoves ==
  ASSUME Inv, TokenInv, Next
  PROVE  Inv' /\ TokenInv' /\ found' = found
<1>1. Inv'
  BY NextInv
<1>2. found' = found
  BY DEF Next, Step, args, Grant, Expire, EndedElsewhere, Connect, ConnectFails,
         CheckAuthorized, CurrentSession, DeleteSession, Attempt, ExportToken, ImportToken, AcceptToken, Answer, Login, Wait,
         TimesOut, CheckPassword, Finish, OtherError, GoTo, Leave, Raise
<1>3. \/ token' = "used"
      \/ session' \in {session, Nobody} /\ (token = "used" => token' = "used")
  BY DEF Next, Step, args, Grant, Expire, EndedElsewhere, Connect, ConnectFails,
         CheckAuthorized, CurrentSession, DeleteSession, Attempt, ExportToken, ImportToken, AcceptToken, Answer, Login, Wait,
         TimesOut, CheckPassword, Finish, OtherError, GoTo, Leave, Raise
<1> QED BY <1>1, <1>2, <1>3 DEF TokenInv

LEMMA AuthOfTypes ==
  ASSUME Types, NEW k \in {0} \cup 1 .. made
  PROVE  /\ AuthOf(k) \in Auths \cup {Nobody}
         /\ AuthOf(k) # Nobody => k # 0 /\ AuthOf(k)[2] = server[k].by
<1>1. k # 0 => k \in Keys
  BY BridgeFacts DEF Types, Keys
<1>2. k # 0 => server[k].whose \in {Me, Stranger} /\ server[k].by \in Apis
  BY <1>1 DEF Types
<1> QED BY <1>2 DEF AuthOf, Auths, Apis

(***************************************************************************)
(* The server                                                              *)
(***************************************************************************)

LEMMA KeyTypes ==
  ASSUME Types
  PROVE  /\ made \in Nat /\ made >= 1 /\ made <= MaxKeys
         /\ 1 .. made \subseteq Keys /\ 1 .. made \subseteq Nat
BY BridgeFacts DEF Types, Keys

LEMMA Used ==
  ASSUME Types, NEW k \in 1 .. made, NEW api \in Apis, Use(k, api)
  PROVE  /\ server' \in [Keys -> [whose : {Me, Stranger}, by : Apis, live : BOOLEAN,
                                  with : SUBSET Apis, left : BOOLEAN]]
         /\ \A j \in Keys : /\ server'[j].by = server[j].by
                             /\ server'[j].live = server[j].live
                             /\ server'[j].left = server[j].left
                             /\ server'[j].with = IF j = k THEN server[j].with \cup {api}
                                                           ELSE server[j].with
<1>1. k \in Keys
  BY KeyTypes
<1> QED BY <1>1, ZenonT(40) DEF Types, Use

LEMMA Ended ==
  ASSUME Types, NEW k \in Keys, server' = [server EXCEPT ![k].live = FALSE]
  PROVE  /\ server' \in [Keys -> [whose : {Me, Stranger}, by : Apis, live : BOOLEAN,
                                  with : SUBSET Apis, left : BOOLEAN]]
         /\ \A j \in Keys : /\ server'[j].by = server[j].by
                             /\ server'[j].with = server[j].with
                             /\ server'[j].left = server[j].left
                             /\ server'[j].live = IF j = k THEN FALSE ELSE server[j].live
BY ZenonT(40) DEF Types

(***************************************************************************)
(* Every step keeps CallInv                                                *)
(***************************************************************************)

LEMMA CallInit == BridgeInit => CallInv
<1> SUFFICES ASSUME BridgeInit PROVE CallInv
  OBVIOUS
<1> USE BridgeFacts
<1>1. PICK api \in Apis, auth \in Auths \cup {Nobody} :
        /\ desktops = <<[api |-> api, accounts |-> <<NewAccount(1, api, 0)>>]>>
        /\ file = IF auth = Nobody THEN 0 ELSE 2
        /\ made = IF auth = Nobody THEN 1 ELSE 2
        /\ server = [k \in Keys |->
             CASE k = 1 -> [whose |-> Me, by |-> api, live |-> TRUE, with |-> {api},
                         left |-> FALSE]
               [] k = 2 /\ auth # Nobody ->
                    [whose |-> auth[1], by |-> auth[2], live |-> TRUE, with |-> {auth[2]},
                    left |-> FALSE]
               [] OTHER -> [whose |-> Me, by |-> Api, live |-> FALSE, with |-> {},
                             left |-> FALSE]]
  BY DEF BridgeInit
<1> DEFINE account == NewAccount(1, api, 0)
           desktop == [api |-> api, accounts |-> <<account>>]
<1>2. account \in Accounts /\ account.key = 1 /\ account.api = api /\ account.index = 0
  BY DEF NewAccount, Accounts
<1> HIDE DEF account
<1>3. /\ desktop \in Desktop /\ desktop.api = api /\ Len(desktop.accounts) = 1
      /\ desktop.accounts # <<>> /\ DOMAIN desktop.accounts = {1}
      /\ desktop.accounts[1] = account
  BY <1>2 DEF Desktop
<1> HIDE DEF desktop
<1>4. desktops = <<desktop>>
  BY <1>1 DEF desktop, account
<1>5. desktops \in Seq(Desktop) /\ Len(desktops) = 1 /\ DOMAIN desktops = {1}
      /\ desktops[1] = desktop
  BY <1>3, <1>4
<1>6. auth # Nobody => auth[1] \in {Me, Stranger} /\ auth[2] \in Apis
  BY DEF Auths, Apis
<1>7. server \in [Keys -> [whose : {Me, Stranger}, by : Apis, live : BOOLEAN,
                           with : SUBSET Apis, left : BOOLEAN]]
  BY <1>1, <1>6
<1>8. made \in 1 .. MaxKeys /\ file \in {0} \cup 1 .. made
  BY <1>1
<1>9. Types
  BY <1>5, <1>7, <1>8 DEF BridgeInit, NoClient, NoOp, Places, Types
<1>10. AccountsFilled /\ AccountsNumbered
  BY <1>2, <1>3, <1>5, <1>8 DEF AccountsFilled, AccountsNumbered
<1>11. PlaceInv /\ CopyIsFree /\ PassedAreGone
  BY DEF BridgeInit, NoOp, PlaceInv, CopyIsFree, PassedAreGone
<1>12. LoginInv
  BY LoginAssumption, AuthTypes
     DEF BridgeInit, NoLogin, LoginInv, TokenInv, Inv, TypeOK, NoResultYet, BeforeLoop, InLoop,
         ReturnsAuthorized, Awaits
<1> QED BY <1>9, <1>10, <1>11, <1>12 DEF CallInv

\* Outside of the login a step leaves it alone.
LEMMA LoginUntouched ==
  ASSUME LoginInv, UNCHANGED login,
         \/ call' # "login"
         \/ UNCHANGED <<call, op>> /\ file' \in {file} \cup Keys
  PROVE  LoginInv'
BY DEF Keys, LoginInv, TokenInv, login, Inv, TypeOK, NoResultYet, BeforeLoop, InLoop,
       ReturnsAuthorized, args

\* The list of TDesktop objects stays.
LEMMA DesktopsUntouched ==
  ASSUME Types, AccountsFilled, AccountsNumbered, UNCHANGED desktops,
         made' \in Nat, made' >= made
  PROVE  /\ desktops' \in Seq(Desktop) /\ Len(desktops') <= MaxDesktops
         /\ AccountsFilled' /\ AccountsNumbered'
         /\ \A into : Room(into) => Room(into)'
<1>1. 1 .. made \subseteq 1 .. made'
  BY KeyTypes
<1>2. AccountsFilled'
  BY <1>1 DEF AccountsFilled
<1> QED BY <1>2 DEF Types, AccountsNumbered, Room

LEMMA EndKeeps ==
  ASSUME CallInv, End, UNCHANGED <<login, caller, made>>,
         server' \in [Keys -> [whose : {Me, Stranger}, by : Apis, live : BOOLEAN,
                              with : SUBSET Apis, left : BOOLEAN]]
  PROVE  CallInv'
<1> USE DEF CallInv, End, caller
<1>1. LoginInv'
  BY LoginUntouched
<1>2. Types' /\ AccountsFilled' /\ AccountsNumbered'
  <2>1. desktops' \in Seq(Desktop) /\ Len(desktops') <= MaxDesktops /\ AccountsFilled'
        /\ AccountsNumbered'
    BY DesktopsUntouched, KeyTypes
  <2> QED BY <2>1, BridgeFacts DEF Types, NoOp, Places
<1>3. PlaceInv' /\ CopyIsFree' /\ PassedAreGone'
  BY DEF PlaceInv, CopyIsFree, PassedAreGone, NoOp
<1> QED BY <1>1, <1>2, <1>3

LEMMA BeginKeeps ==
  ASSUME CallInv, NEW place \in Places \ {"none", "login", "copy", "reset"},
         NEW locals \in [flow : {"none", "FromTDesktop", "FromTelethon"}, key : 1 .. made,
             api : Apis, into : 0 .. MaxDesktops, listed : {{}}, todo : {{}}],
         Begin(place, locals), UNCHANGED <<login, caller, cloud>>,
         place = "authorize" => locals.flow # "none" /\ made < MaxKeys,
         place = "get_me" => locals.flow # "FromTDesktop" /\ Room(locals.into),
         locals.flow = "FromTelethon" => Room(locals.into)
  PROVE  CallInv'
<1> USE DEF CallInv, Begin, caller, cloud
<1>1. LoginInv'
  BY LoginUntouched
<1>2. desktops' \in Seq(Desktop) /\ Len(desktops') <= MaxDesktops /\ AccountsFilled'
      /\ AccountsNumbered' /\ \A into : Room(into) => Room(into)'
  BY DesktopsUntouched, KeyTypes
<1>3. locals.key \in {0} \cup 1 .. made /\ locals.key # 0
  BY KeyTypes
<1>4. Types'
  BY <1>2, <1>3, BridgeFacts DEF Types
<1>5. PlaceInv'
  BY <1>2, <1>3 DEF PlaceInv
<1>6. CopyIsFree' /\ PassedAreGone'
  BY DEF CopyIsFree, PassedAreGone
<1> QED BY <1>1, <1>2, <1>4, <1>5, <1>6

\* A step that leaves the coroutine, the list and the file where they are.
LEMMA ClientKeeps ==
  ASSUME CallInv, LoginInv', UNCHANGED <<desktops, file, made, call, op, calls>>,
         client' \in [key : {0} \cup 1 .. made, api : Apis, connected : BOOLEAN, known : BOOLEAN],
         client'.connected => client'.key # 0,
         call = "copy" => client'.key # op.key,
         server' \in [Keys -> [whose : {Me, Stranger}, by : Apis, live : BOOLEAN,
                              with : SUBSET Apis, left : BOOLEAN]],
         \A k \in 1 .. made : server'[k].live => server[k].live
  PROVE  CallInv'
<1>2. desktops' \in Seq(Desktop) /\ Len(desktops') <= MaxDesktops /\ AccountsFilled'
      /\ AccountsNumbered' /\ \A into : Room(into) => Room(into)'
  BY DesktopsUntouched, KeyTypes DEF CallInv
<1>3. Types'
  BY <1>2 DEF CallInv, Types
<1>4. PlaceInv'
  BY <1>2 DEF CallInv, PlaceInv
<1>5. CopyIsFree'
  BY DEF CallInv, CopyIsFree
<1>6. PassedAreGone'
  BY DEF CallInv, PassedAreGone, Types
<1> QED BY <1>2, <1>3, <1>4, <1>5, <1>6 DEF CallInv

LEMMA OutsideKeeps ==
  ASSUME CallInv, ConnectClient \/ (\E k \in Keys : Revoke(k)) \/ AwaitFails
  PROVE  CallInv'
<1> USE DEF CallInv
<1>1. CASE ConnectClient
  <2>1. client.key \in 1 .. made /\ client.api \in Apis
    BY <1>1 DEF ConnectClient, Types
  <2>2. /\ server' \in [Keys -> [whose : {Me, Stranger}, by : Apis, live : BOOLEAN,
                                 with : SUBSET Apis, left : BOOLEAN]]
        /\ \A k \in 1 .. made : server'[k].live => server[k].live
    BY <1>1, <2>1, Used, KeyTypes DEF ConnectClient
  <2>3. /\ client' \in [key : {0} \cup 1 .. made, api : Apis, connected : BOOLEAN,
                        known : BOOLEAN]
        /\ client'.key = client.key /\ client'.key # 0
    BY <1>1 DEF ConnectClient, Types
  <2>4. call = "copy" => client'.key # op.key
    BY <2>3 DEF CopyIsFree
  <2>5. UNCHANGED <<login, desktops, file, made, call, op, calls>>
    BY <1>1 DEF ConnectClient
  <2>6. LoginInv'
    BY <2>5, LoginUntouched
  <2> HIDE DEF CallInv
  <2> QED BY <2>2, <2>3, <2>4, <2>5, <2>6, ClientKeeps
<1>2. CASE \E k \in Keys : Revoke(k)
  <2>1. /\ server' \in [Keys -> [whose : {Me, Stranger}, by : Apis, live : BOOLEAN,
                                 with : SUBSET Apis, left : BOOLEAN]]
        /\ \A k \in 1 .. made : server'[k].live => server[k].live
    BY <1>2, Ended, KeyTypes DEF Revoke
  <2>2. /\ UNCHANGED <<desktops, client, file, made, call, op, calls>>
        /\ UNCHANGED login \/ EndedElsewhere
    BY <1>2 DEF Revoke, caller
  <2>3. LoginInv'
    <3>1. CASE UNCHANGED login
      BY <2>2, <3>1, LoginUntouched
    <3>2. CASE EndedElsewhere
      <4>1. Inv' /\ TokenInv' /\ found' = found
        BY <3>2, LoginMoves DEF LoginInv, Next
      <4> QED BY <2>2, <4>1 DEF LoginInv
    <3> QED BY <2>2, <3>1, <3>2
  <2> QED BY <2>1, <2>2, <2>3, ClientKeeps DEF Types, CopyIsFree
<1>3. CASE AwaitFails
  BY <1>3, EndKeeps DEF AwaitFails, cloud, Types
<1> QED BY <1>1, <1>2, <1>3

\* The key and the API of the first account.
LEMMA MainAccount ==
  ASSUME Types, AccountsFilled, NEW d \in DOMAIN desktops
  PROVE  /\ 1 \in DOMAIN desktops[d].accounts
         /\ desktops[d].accounts[1].key \in 1 .. made
         /\ desktops[d].accounts[1].api = desktops[d].api
         /\ desktops[d].api \in Apis
<1>1. desktops[d] \in Desktop
  BY DEF Types
<1>2. desktops[d].accounts \in Seq(Accounts) /\ desktops[d].api \in Apis
  BY <1>1 DEF Desktop
<1>3. 1 \in DOMAIN desktops[d].accounts
  BY <1>2 DEF AccountsFilled
<1> QED BY <1>2, <1>3 DEF AccountsFilled

LEMMA OwnersHaveRoom ==
  ASSUME Types
  PROVE  /\ \A api : \A into \in Owners(api) : Room(into) /\ into \in 0 .. MaxDesktops
         /\ \A into \in OwnersOfNew : Room(into) /\ into \in 0 .. MaxDesktops
<1>1. \A d \in DOMAIN desktops : d \in 0 .. MaxDesktops
  BY BridgeFacts DEF Types
<1>2. 0 \in 0 .. MaxDesktops
  BY BridgeFacts
<1> QED BY <1>1, <1>2 DEF Owners, OwnersOfNew, Room

LEMMA LocalsTypes ==
  ASSUME NEW flow \in {"none", "FromTDesktop", "FromTelethon"}, NEW key \in 1 .. made,
         NEW api \in Apis
  PROVE  /\ [NoOp EXCEPT !.flow = flow, !.key = key, !.api = api]
              \in [flow : {"none", "FromTDesktop", "FromTelethon"}, key : 1 .. made,
                   api : Apis, into : 0 .. MaxDesktops, listed : {{}}, todo : {{}}]
         /\ [NoOp EXCEPT !.key = key, !.api = api]
              \in [flow : {"none", "FromTDesktop", "FromTelethon"}, key : 1 .. made,
                   api : Apis, into : 0 .. MaxDesktops, listed : {{}}, todo : {{}}]
<1>1. 0 \in 0 .. MaxDesktops
  BY BridgeFacts
<1> QED BY <1>1 DEF NoOp

LEMMA BeginningsKeep ==
  ASSUME CallInv,
         \/ \E d \in DOMAIN desktops : FromTDesktopCreate(d)
         \/ \E into \in Owners(client.api) : FromTelethonAsk(into)
         \/ \E into \in OwnersOfNew : FromTelethonCreate(into)
         \/ FromBundle \/ TerminateAll
  PROVE  CallInv'
<1>1. Types /\ AccountsFilled
  BY DEF CallInv
<1>2. /\ client.key # 0 => client.key \in 1 .. made
      /\ client.connected => client.key # 0
      /\ client.api \in Apis
  BY <1>1 DEF Types
<1>3. CASE \E d \in DOMAIN desktops : FromTDesktopCreate(d)
  <2>1. PICK d \in DOMAIN desktops : FromTDesktopCreate(d)
    BY <1>3
  <2> DEFINE locals == [NoOp EXCEPT !.flow = "FromTDesktop",
                                    !.key = desktops[d].accounts[1].key,
                                    !.api = ApiOfAccount(desktops[d].accounts[1])]
  <2>2. locals \in [flow : {"none", "FromTDesktop", "FromTelethon"}, key : 1 .. made,
                    api : Apis, into : 0 .. MaxDesktops, listed : {{}}, todo : {{}}]
        /\ locals.flow = "FromTDesktop"
    <3>1. /\ desktops[d].accounts[1].key \in 1 .. made
          /\ ApiOfAccount(desktops[d].accounts[1]) \in Apis
      BY <1>1, MainAccount DEF ApiOfAccount
    <3>3. locals \in [flow : {"none", "FromTDesktop", "FromTelethon"}, key : 1 .. made,
                    api : Apis, into : 0 .. MaxDesktops, listed : {{}}, todo : {{}}]
      BY <3>1, LocalsTypes
    <3> QED BY <3>3 DEF NoOp
  <2>3. Begin("authorize", locals) /\ made < MaxKeys /\ UNCHANGED <<login, caller, cloud>>
    BY <2>1 DEF FromTDesktopCreate
  <2> HIDE DEF locals
  <2> QED BY <2>2, <2>3, BeginKeeps DEF Places
<1>4. CASE \E into \in Owners(client.api) : FromTelethonAsk(into)
  <2>1. PICK into \in Owners(client.api) : FromTelethonAsk(into)
    BY <1>4
  <2> DEFINE locals == [NoOp EXCEPT !.key = client.key, !.api = client.api, !.into = into]
  <2>2. Room(into) /\ into \in 0 .. MaxDesktops
    BY <1>1, OwnersHaveRoom
  <2>3. locals \in [flow : {"none", "FromTDesktop", "FromTelethon"}, key : 1 .. made,
                    api : Apis, into : 0 .. MaxDesktops, listed : {{}}, todo : {{}}]
        /\ locals.flow = "none" /\ locals.into = into
    BY <1>2, <2>1, <2>2 DEF NoOp, FromTelethonAsk
  <2>4. Begin("get_me", locals) /\ UNCHANGED <<login, caller, cloud>>
    BY <2>1 DEF FromTelethonAsk
  <2> HIDE DEF locals
  <2> QED BY <2>2, <2>3, <2>4, BeginKeeps DEF Places
<1>5. CASE \E into \in OwnersOfNew : FromTelethonCreate(into)
  <2>1. PICK into \in OwnersOfNew : FromTelethonCreate(into)
    BY <1>5
  <2> DEFINE locals == [NoOp EXCEPT !.flow = "FromTelethon", !.key = client.key,
                                    !.api = client.api, !.into = into]
  <2>2. Room(into) /\ into \in 0 .. MaxDesktops
    BY <1>1, OwnersHaveRoom
  <2>3. locals \in [flow : {"none", "FromTDesktop", "FromTelethon"}, key : 1 .. made,
                    api : Apis, into : 0 .. MaxDesktops, listed : {{}}, todo : {{}}]
        /\ locals.flow = "FromTelethon" /\ locals.into = into
    BY <1>2, <2>1, <2>2 DEF NoOp, FromTelethonCreate
  <2>4. Begin("authorize", locals) /\ made < MaxKeys /\ UNCHANGED <<login, caller, cloud>>
    BY <2>1 DEF FromTelethonCreate
  <2> HIDE DEF locals
  <2> QED BY <2>2, <2>3, <2>4, BeginKeeps DEF Places
<1>6. CASE FromBundle
  <2> DEFINE locals == [NoOp EXCEPT !.key = file, !.api = server[file].by]
  <2>1. file \in 1 .. made /\ server[file].by \in Apis
    BY <1>1, <1>6, KeyTypes DEF FromBundle, Types
  <2>2. locals \in [flow : {"none", "FromTDesktop", "FromTelethon"}, key : 1 .. made,
                    api : Apis, into : 0 .. MaxDesktops, listed : {{}}, todo : {{}}]
        /\ locals.flow = "none"
    <3>2. locals \in [flow : {"none", "FromTDesktop", "FromTelethon"}, key : 1 .. made,
                    api : Apis, into : 0 .. MaxDesktops, listed : {{}}, todo : {{}}]
      BY <2>1, LocalsTypes
    <3> QED BY <3>2 DEF NoOp
  <2>3. Begin("bundle", locals) /\ UNCHANGED <<login, caller, cloud>>
    BY <1>6 DEF FromBundle
  <2> HIDE DEF locals
  <2> QED BY <2>2, <2>3, BeginKeeps DEF Places
<1>7. CASE TerminateAll
  <2> DEFINE locals == [NoOp EXCEPT !.key = client.key]
  <2>1. locals \in [flow : {"none", "FromTDesktop", "FromTelethon"}, key : 1 .. made,
                    api : Apis, into : 0 .. MaxDesktops, listed : {{}}, todo : {{}}]
        /\ locals.flow = "none"
    BY <1>2, <1>7, BridgeFacts DEF NoOp, TerminateAll
  <2>2. Begin("list", locals) /\ UNCHANGED <<login, caller, cloud>>
    BY <1>7 DEF TerminateAll
  <2> HIDE DEF locals
  <2> QED BY <2>1, <2>2, BeginKeeps DEF Places
<1> QED BY <1>3, <1>4, <1>5, <1>6, <1>7

LEMMA LoginBeginsKeeps ==
  ASSUME CallInv, NEW into \in OwnersOfNew, FromTelethonLogin(into)
  PROVE  CallInv'
<1> DEFINE locals == [NoOp EXCEPT !.flow = "FromTelethon", !.key = client.key,
                                  !.api = client.api, !.into = into]
<1>1. /\ Begin("login", locals) /\ made < MaxKeys /\ LoginWith(Nobody)
      /\ UNCHANGED <<caller, cloud>>
  BY DEF FromTelethonLogin
<1>2. client.key \in 1 .. made /\ client.api \in Apis
  BY DEF FromTelethonLogin, CallInv, Types
<1>3. Room(into) /\ into \in 0 .. MaxDesktops
  BY OwnersHaveRoom DEF CallInv
<1>4. locals \in [flow : {"none", "FromTDesktop", "FromTelethon"}, key : 1 .. made,
                  api : Apis, into : 0 .. MaxDesktops, listed : {{}}, todo : {{}}]
      /\ locals.flow = "FromTelethon" /\ locals.into = into
  BY <1>2, <1>3 DEF NoOp
<1> HIDE DEF locals
<1>5. LoginInv'
  BY <1>1, LoginStarts DEF LoginInv
<1>6. desktops' \in Seq(Desktop) /\ Len(desktops') <= MaxDesktops /\ AccountsFilled'
      /\ AccountsNumbered' /\ \A j : Room(j) => Room(j)'
  BY <1>1, DesktopsUntouched, KeyTypes DEF CallInv, caller, cloud
<1>7. locals.key \in {0} \cup 1 .. made /\ locals.key # 0
  BY <1>4, KeyTypes DEF CallInv
<1>8. Types'
  BY <1>1, <1>4, <1>6, <1>7, BridgeFacts DEF CallInv, Types, Begin, Places, caller, cloud
<1>9. PlaceInv'
  BY <1>1, <1>3, <1>4, <1>6, <1>7 DEF PlaceInv, Begin, cloud
<1>10. CopyIsFree' /\ PassedAreGone'
  BY <1>1 DEF CopyIsFree, PassedAreGone, Begin
<1> QED BY <1>5, <1>6, <1>8, <1>9, <1>10 DEF CallInv

LEMMA AuthorizeKeeps ==
  ASSUME CallInv, Authorize
  PROVE  CallInv'
<1> USE DEF CallInv
<1>1. op.key \in 1 .. made /\ op.api \in Apis /\ call = "authorize"
  BY DEF Authorize, Types, PlaceInv
<1>2. /\ client' \in [key : {0} \cup 1 .. made, api : Apis, connected : BOOLEAN, known : BOOLEAN]
      /\ client'.key = client.key
      /\ client'.connected => client'.key # 0
      /\ UNCHANGED <<desktops, file, made>>
  <2>1. \/ client' = client
        \/ client' = [client EXCEPT !.connected = TRUE] /\ client.key = op.key
    BY DEF Authorize
  <2>2. /\ client \in [key : {0} \cup 1 .. made, api : Apis, connected : BOOLEAN,
                       known : BOOLEAN]
        /\ client.connected => client.key # 0
    BY DEF Types
  <2>3. client.key = op.key => client.key # 0
    BY <1>1, KeyTypes
  <2>4. UNCHANGED <<desktops, file, made>>
    BY DEF Authorize
  <2>5. CASE client' = client
    BY <2>2, <2>4, <2>5
  <2>6. CASE client' = [client EXCEPT !.connected = TRUE] /\ client.key = op.key
    BY <2>2, <2>3, <2>4, <2>6
  <2> QED BY <2>1, <2>5, <2>6
<1>3. desktops' \in Seq(Desktop) /\ Len(desktops') <= MaxDesktops /\ AccountsFilled'
      /\ AccountsNumbered' /\ \A j : Room(j) => Room(j)'
  BY <1>2, DesktopsUntouched, KeyTypes
<1> DEFINE opened == IF op.flow = "FromTDesktop" THEN {file} \ {0} ELSE {}
<1>4. CASE /\ server' = [k \in Keys |->
               [server[k] EXCEPT !.with = @ \cup (IF k = op.key THEN {op.api} ELSE {})
                                            \cup (IF k \in opened THEN {Api} ELSE {})]]
           /\ LoginWith(IF opened = {} THEN Nobody ELSE AuthOf(file))
           /\ call' = "login"
           /\ UNCHANGED <<op, calls>>
  <2>1. server' \in [Keys -> [whose : {Me, Stranger}, by : Apis, live : BOOLEAN,
                             with : SUBSET Apis, left : BOOLEAN]]
    <3>1. ASSUME NEW k \in Keys
          PROVE  server'[k] \in [whose : {Me, Stranger}, by : Apis, live : BOOLEAN,
                                 with : SUBSET Apis, left : BOOLEAN]
      <4> DEFINE more == (IF k = op.key THEN {op.api} ELSE {})
                         \cup (IF k \in opened THEN {Api} ELSE {})
      <4>1. more \subseteq Apis
        BY <1>1, BridgeFacts
      <4>2. server'[k] = [server[k] EXCEPT !.with = @ \cup more]
        BY <1>4
      <4> HIDE DEF more
      <4> QED BY <4>1, <4>2 DEF Types
    <3>2. server' = [k \in Keys |-> server'[k]]
      BY <1>4
    <3> QED BY <3>1, <3>2
  <2>2. (IF opened = {} THEN Nobody ELSE AuthOf(file)) \in Auths \cup {Nobody}
    BY AuthOfTypes DEF Types
  <2>3. Inv' /\ TokenInv' /\ found' = (IF opened = {} THEN Nobody ELSE AuthOf(file))
    BY <1>4, <2>2, LoginStarts
  <2>4. LoginInv'
    <3>1. AuthOf(file) # Nobody => file # 0
      BY AuthOfTypes DEF Types
    <3> QED BY <1>2, <1>4, <2>3, <3>1 DEF LoginInv
  <2>5. Types'
    <3>1. call' \in Places
      BY <1>4 DEF Places
    <3>2. UNCHANGED <<op, calls, made, file>>
      BY <1>2, <1>4
    <3> QED BY <1>2, <1>3, <2>1, <3>1, <3>2 DEF Types
  <2>6. PlaceInv'
    BY <1>1, <1>2, <1>3, <1>4 DEF PlaceInv
  <2>7. CopyIsFree' /\ PassedAreGone'
    BY <1>4 DEF CopyIsFree, PassedAreGone
  <2> QED BY <1>3, <2>4, <2>5, <2>6, <2>7
<1>5. CASE Use(op.key, op.api) /\ End /\ UNCHANGED login
  <2>1. server' \in [Keys -> [whose : {Me, Stranger}, by : Apis, live : BOOLEAN,
                             with : SUBSET Apis, left : BOOLEAN]]
    BY <1>1, <1>5, Used
  <2>2. LoginInv'
    BY <1>5, LoginUntouched DEF End
  <2>3. Types'
    <3>1. call' \in Places /\ op' = NoOp /\ UNCHANGED <<calls, made, file>>
      BY <1>2, <1>5 DEF End, Places
    <3>2. op' \in [flow : {"none", "FromTDesktop", "FromTelethon"}, key : {0} \cup 1 .. made,
                   api : Apis, into : 0 .. MaxDesktops, listed : SUBSET (1 .. made),
                   todo : SUBSET (1 .. made)]
      BY <3>1, BridgeFacts DEF NoOp
    <3> QED BY <1>2, <1>3, <2>1, <3>1, <3>2 DEF Types
  <2>4. PlaceInv' /\ CopyIsFree' /\ PassedAreGone'
    BY <1>5 DEF PlaceInv, CopyIsFree, PassedAreGone, End, NoOp
  <2> QED BY <1>3, <2>2, <2>3, <2>4
<1> QED BY <1>4, <1>5 DEF Authorize

LEMMA LoginStepKeeps ==
  ASSUME CallInv, LoginStep
  PROVE  CallInv'
<1>1. Inv' /\ TokenInv' /\ found' = found
  BY LoginMoves DEF CallInv, LoginInv, LoginStep, Next
<1>2. /\ UNCHANGED <<desktops, client, file, server, made, call, op, calls>>
      /\ call = "login"
  BY DEF LoginStep, caller, cloud
<1>3. LoginInv'
  BY <1>1, <1>2 DEF LoginInv, CallInv
<1>4. desktops' \in Seq(Desktop) /\ Len(desktops') <= MaxDesktops /\ AccountsFilled'
      /\ AccountsNumbered' /\ \A j : Room(j) => Room(j)'
  BY <1>2, DesktopsUntouched, KeyTypes DEF CallInv
<1>5. Types' /\ PlaceInv' /\ CopyIsFree' /\ PassedAreGone'
  BY <1>2, <1>4 DEF CallInv, Types, PlaceInv, CopyIsFree, PassedAreGone
<1> QED BY <1>3, <1>4, <1>5 DEF CallInv

\* What the login leaves behind: a new key exactly when it makes one, and a
\* client only with a key.
LEMMA LoginOutcome ==
  ASSUME CallInv, EndLogin
  PROVE  /\ op.flow = "FromTelethon" /\ result = "client" => MakesKey
         /\ op.flow = "FromTDesktop" /\ result = "client" => file' # 0
         /\ made' = IF MakesKey THEN MadeKey ELSE made
         /\ made' \in 1 .. MaxKeys /\ made' >= made
         /\ file' \in {0} \cup 1 .. made'
<1>1. made \in Nat /\ made >= 1 /\ made < MaxKeys
  BY KeyTypes DEF CallInv, PlaceInv, EndLogin
<1>2. result = "client" /\ ~MakesKey => session # Nobody /\ session = found
  BY DEF CallInv, LoginInv, TokenInv, MakesKey
<1>3. made' = IF MakesKey THEN MadeKey ELSE made
  BY DEF EndLogin
<1>4. made' \in 1 .. MaxKeys /\ made' >= made
  BY <1>1, <1>3, BridgeFacts DEF MadeKey
<1>5. op.flow = "FromTelethon" /\ result = "client" => MakesKey
  BY <1>2 DEF CallInv, LoginInv, EndLogin
<1>6. op.flow = "FromTDesktop" /\ result = "client" => file' # 0
  BY <1>1, <1>2 DEF CallInv, LoginInv, EndLogin, MadeKey
<1>7. \/ file' = file \/ file' = 0
      \/ file' = MadeKey /\ MakesKey
  BY DEF EndLogin
<1>8. file' \in {0} \cup 1 .. made'
  BY <1>1, <1>3, <1>7 DEF MadeKey, CallInv, Types
<1> QED BY <1>3, <1>4, <1>5, <1>6, <1>8

\* What it leaves of the server's records.
LEMMA LoginRecords ==
  ASSUME Types, EndLogin
  PROVE  /\ server' \in [Keys -> [whose : {Me, Stranger}, by : Apis, live : BOOLEAN,
                                  with : SUBSET Apis, left : BOOLEAN]]
         /\ \A k \in Keys : ~(MakesKey /\ k = MadeKey) =>
              /\ server'[k].by = server[k].by /\ server'[k].with = server[k].with
              /\ server'[k].left = (server[k].left \/ LeftInFile(k))
         /\ MakesKey /\ MadeKey \in Keys =>
              server'[MadeKey].by = Api /\ server'[MadeKey].with = {Api}
<1> DEFINE new == [whose |-> Me, by |-> Api, live |-> token = "used", with |-> {Api},
                   left |-> FALSE]
           Records == [whose : {Me, Stranger}, by : Apis, live : BOOLEAN,
                       with : SUBSET Apis, left : BOOLEAN]
<1>1. server' = [k \in Keys |->
        IF MakesKey /\ k = MadeKey THEN new
                                   ELSE [server[k] EXCEPT !.left = @ \/ LeftInFile(k)]]
  BY DEF EndLogin
<1>2. new \in Records /\ new.by = Api /\ new.with = {Api}
  BY BridgeFacts
<1>3. ASSUME NEW k \in Keys
      PROVE  LET kept == [server[k] EXCEPT !.left = @ \/ LeftInFile(k)] IN
             /\ kept \in Records
             /\ kept.by = server[k].by /\ kept.with = server[k].with
             /\ kept.left = (server[k].left \/ LeftInFile(k))
  <2> DEFINE more == server[k].left \/ LeftInFile(k)
  <2>1. server[k] \in Records
    BY DEF Types
  <2>2. more \in BOOLEAN
    OBVIOUS
  <2> HIDE DEF more
  <2>3. LET kept == [server[k] EXCEPT !.left = more] IN
        /\ kept \in Records
        /\ kept.by = server[k].by /\ kept.with = server[k].with /\ kept.left = more
    BY <2>1, <2>2
  <2> QED BY <2>3 DEF more
<1> HIDE DEF new, Records
<1>4. ASSUME NEW k \in Keys
      PROVE  server'[k] = IF MakesKey /\ k = MadeKey THEN new
                          ELSE [server[k] EXCEPT !.left = @ \/ LeftInFile(k)]
  BY <1>1
<1>5. server' \in [Keys -> Records]
  <2>1. \A k \in Keys : server'[k] \in Records
    BY <1>2, <1>3, <1>4
  <2>2. server' = [k \in Keys |-> server'[k]]
    BY <1>1
  <2> QED BY <2>1, <2>2
<1> QED BY <1>2, <1>3, <1>4, <1>5 DEF Records

LEMMA EndLoginKeeps ==
  ASSUME CallInv, EndLogin
  PROVE  CallInv'
<1>1. /\ made' = IF MakesKey THEN MadeKey ELSE made
      /\ made' \in 1 .. MaxKeys /\ made' >= made
      /\ file' \in {0} \cup 1 .. made'
  BY LoginOutcome
<1>2. Inv' /\ TokenInv' /\ call = "login" /\ UNCHANGED desktops
  BY LoginLeft DEF EndLogin
<1>3. made \in Nat /\ made < MaxKeys /\ op.flow # "none" /\ op.key # 0
  BY <1>2, KeyTypes DEF CallInv, PlaceInv
<1>4. 1 .. made \subseteq 1 .. made'
  BY <1>1, <1>3
<1>5. desktops' \in Seq(Desktop) /\ Len(desktops') <= MaxDesktops /\ AccountsFilled'
      /\ AccountsNumbered' /\ \A j : Room(j) => Room(j)'
  BY <1>1, <1>2, DesktopsUntouched DEF CallInv
<1>6. server' \in [Keys -> [whose : {Me, Stranger}, by : Apis, live : BOOLEAN,
                           with : SUBSET Apis, left : BOOLEAN]]
  BY LoginRecords DEF CallInv
<1>7. /\ client' \in [key : {0} \cup 1 .. made', api : Apis, connected : BOOLEAN,
                      known : BOOLEAN]
      /\ client'.connected => client'.key # 0
  <2>1. CASE op.flow = "FromTDesktop" /\ result = "client"
    <3>1. client' \in [key : {file'}, api : {Api}, connected : {TRUE}, known : BOOLEAN]
      BY <2>1 DEF EndLogin
    <3>2. file' # 0
      BY <2>1, LoginOutcome
    <3> QED BY <1>1, <3>1, <3>2, BridgeFacts
  <2>2. CASE ~(op.flow = "FromTDesktop" /\ result = "client")
    <3>1. client' = client
      BY <2>2 DEF EndLogin
    <3>2. /\ client \in [key : {0} \cup 1 .. made, api : Apis, connected : BOOLEAN,
                         known : BOOLEAN]
          /\ client.connected => client.key # 0
      BY DEF CallInv, Types
    <3> QED BY <1>4, <3>1, <3>2
  <2> QED BY <2>1, <2>2
<1>8. CASE op.flow = "FromTelethon" /\ result = "client"
  <2>1. /\ call' = "copy" /\ op' = [op EXCEPT !.key = MadeKey, !.api = Api]
        /\ UNCHANGED <<client, calls>>
    BY <1>8 DEF EndLogin
  <2>2. made' = MadeKey /\ made' = made + 1
    BY <1>1, <1>8, LoginOutcome DEF MadeKey
  <2>3. op \in [flow : {"none", "FromTDesktop", "FromTelethon"}, key : {0} \cup 1 .. made,
               api : Apis, into : 0 .. MaxDesktops, listed : SUBSET (1 .. made),
               todo : SUBSET (1 .. made)]
    BY DEF CallInv, Types
  <2>4. /\ op' \in [flow : {"none", "FromTDesktop", "FromTelethon"}, key : {0} \cup 1 .. made',
               api : Apis, into : 0 .. MaxDesktops, listed : SUBSET (1 .. made'),
               todo : SUBSET (1 .. made')]
        /\ op'.key = made' /\ op'.into = op.into /\ op'.flow = "FromTelethon"
    <3>1. SUBSET (1 .. made) \subseteq SUBSET (1 .. made') /\ made' \in 1 .. made'
      BY <1>1, <1>4
    <3> DEFINE sets    == SUBSET (1 .. made)
               sets2   == SUBSET (1 .. made')
               numbers == {0} \cup 1 .. made'
    <3>2. sets \subseteq sets2 /\ made' \in numbers
      BY <3>1
    <3>3. op \in [flow : {"none", "FromTDesktop", "FromTelethon"}, key : {0} \cup 1 .. made,
               api : Apis, into : 0 .. MaxDesktops, listed : sets, todo : sets]
      BY <2>3
    <3>4. op' = [op EXCEPT !.key = made', !.api = Api]
      BY <2>1, <2>2
    <3> HIDE DEF sets, sets2, numbers
    <3>5. /\ op' \in [flow : {"none", "FromTDesktop", "FromTelethon"}, key : numbers,
               api : Apis, into : 0 .. MaxDesktops, listed : sets2, todo : sets2]
          /\ op'.key = made' /\ op'.into = op.into /\ op'.flow = "FromTelethon"
      BY <1>8, <3>2, <3>3, <3>4, BridgeFacts
    <3> QED BY <3>5 DEF sets2, numbers
  <2>5. call' \in Places
    BY <2>1 DEF Places
  <2>6. Types'
    BY <1>1, <1>5, <1>6, <1>7, <2>1, <2>4, <2>5 DEF CallInv, Types
  <2>7. \/ op.into = 0 /\ Len(desktops') < MaxDesktops
        \/ op.into \in DOMAIN desktops'
    BY <1>2, <1>8 DEF CallInv, PlaceInv, Room
  <2>8. PlaceInv'
    BY <1>1, <1>2, <1>3, <2>1, <2>4, <2>7 DEF PlaceInv, Room
  <2>9. CopyIsFree'
    <3>1. client'.key # made'
      BY <1>3, <2>1, <2>2 DEF CallInv, Types
    <3>2. \A d \in DOMAIN desktops : \A i \in DOMAIN desktops[d].accounts :
            desktops[d].accounts[i].key # made'
      BY <1>3, <2>2 DEF CallInv, AccountsFilled
    <3> QED BY <1>2, <2>4, <3>1, <3>2 DEF CopyIsFree
  <2>10. LoginInv' /\ PassedAreGone'
    BY <1>2, <2>1 DEF LoginInv, PassedAreGone
  <2> QED BY <1>5, <2>6, <2>8, <2>9, <2>10 DEF CallInv
<1>9. CASE ~(op.flow = "FromTelethon" /\ result = "client")
  <2>a. End
    <3>1. CASE op.flow = "FromTDesktop"
      BY <3>1 DEF EndLogin
    <3>2. CASE op.flow # "FromTDesktop"
      <4>1. op.flow = "FromTelethon"
        BY <1>3, <3>2 DEF CallInv, Types
      <4>2. result # "client"
        BY <1>9, <4>1
      <4> QED BY <3>2, <4>2 DEF EndLogin
    <3> QED BY <3>1, <3>2
  <2>1. call' = "none" /\ op' = NoOp /\ UNCHANGED calls
    BY <2>a DEF End
  <2>2. op' \in [flow : {"none", "FromTDesktop", "FromTelethon"}, key : {0} \cup 1 .. made',
               api : Apis, into : 0 .. MaxDesktops, listed : SUBSET (1 .. made'),
               todo : SUBSET (1 .. made')]
    BY <2>1, BridgeFacts DEF NoOp
  <2>3. call' \in Places
    BY <2>1 DEF Places
  <2>4. Types'
    BY <1>1, <1>5, <1>6, <1>7, <2>1, <2>2, <2>3 DEF CallInv, Types
  <2>5. PlaceInv' /\ CopyIsFree' /\ PassedAreGone' /\ LoginInv'
    BY <1>2, <2>1 DEF PlaceInv, CopyIsFree, PassedAreGone, LoginInv, NoOp
  <2> QED BY <1>5, <2>4, <2>5 DEF CallInv
<1> QED BY <1>8, <1>9

\* An account of a key that was made is added to where there is room.
LEMMA AddKeeps ==
  ASSUME Types, AccountsFilled, AccountsNumbered, made' = made,
         NEW key \in 1 .. made, NEW api \in Apis, NEW into, Room(into),
         AddAccount(into, key, api)
  PROVE  /\ desktops' \in Seq(Desktop) /\ Len(desktops') <= MaxDesktops
         /\ AccountsFilled' /\ AccountsNumbered'
         /\ \A j : Room(j) /\ (into = 0 => j # 0) => Room(j)'
         /\ \A k : k # key /\ (\A d \in DOMAIN desktops : \A i \in DOMAIN desktops[d].accounts :
                                 desktops[d].accounts[i].key # k)
                  => \A d \in DOMAIN desktops' : \A i \in DOMAIN desktops'[d].accounts :
                       desktops'[d].accounts[i].key # k
<1>1. Added(into, key, api)
  BY AddAccountAdds, KeyTypes
<1>2. desktops' \in Seq(Desktop) /\ AccountsNumbered'
      /\ Len(desktops') = IF into = 0 THEN Len(desktops) + 1 ELSE Len(desktops)
  BY <1>1 DEF Added
<1>3. /\ Len(desktops) \in Nat /\ DOMAIN desktops = 1 .. Len(desktops)
      /\ DOMAIN desktops' = 1 .. Len(desktops')
      /\ Len(desktops) <= MaxDesktops
  BY <1>2 DEF Types
<1>4. Len(desktops') <= MaxDesktops
  BY <1>2, <1>3, BridgeFacts DEF Room
<1>5. \A j : Room(j) /\ (into = 0 => j # 0) => Room(j)'
  BY <1>2, <1>3 DEF Room
<1>6. ASSUME NEW d \in DOMAIN desktops', NEW i \in DOMAIN desktops'[d].accounts
      PROVE  /\ desktops'[d].accounts[i].key \in 1 .. made'
             /\ desktops'[d].accounts[i].api = desktops'[d].api
  <2>1. desktops'[d].accounts[i].key \in 1 .. made'
    BY <1>1, <1>6 DEF Added, AccountsFilled
  <2>2. \/ desktops'[d].accounts[i].api = desktops'[d].api
        \/ d \in DOMAIN desktops \ {into}
    BY <1>1, <1>6 DEF Added
  <2>3. CASE d \in DOMAIN desktops \ {into}
    <3>1. desktops'[d] = desktops[d]
      BY <1>1, <2>3 DEF Added
    <3> QED BY <1>6, <2>3, <3>1 DEF AccountsFilled
  <2> QED BY <2>1, <2>2, <2>3
<1>7. AccountsFilled'
  BY <1>1, <1>6 DEF Added, AccountsFilled
<1>8. ASSUME NEW k, k # key,
             \A d \in DOMAIN desktops : \A i \in DOMAIN desktops[d].accounts :
               desktops[d].accounts[i].key # k
      PROVE  \A d \in DOMAIN desktops' : \A i \in DOMAIN desktops'[d].accounts :
               desktops'[d].accounts[i].key # k
  BY <1>1, <1>8 DEF Added
<1> QED BY <1>2, <1>4, <1>5, <1>7, <1>8

\* A conversion that awaits nothing, made while the coroutine may be anywhere.
LEMMA UseKeeps ==
  ASSUME CallInv,
         \/ \E d \in DOMAIN desktops : FromTDesktopUse(d)
         \/ \E into \in Owners(client.api) : FromTelethonUse(into) \/ FromTelethonUseFails(into)
  PROVE  CallInv'
<1>1. /\ Types /\ AccountsFilled /\ AccountsNumbered /\ PlaceInv /\ LoginInv /\ CopyIsFree
      /\ PassedAreGone
  BY DEF CallInv
<1>2. /\ Synchronous
      /\ UNCHANGED <<login, server, made, call, op>>
      /\ calls' \in 0 .. MaxCalls
  <2>1. Synchronous
    BY DEF FromTDesktopUse, FromTelethonUse, FromTelethonUseFails
  <2> QED BY <1>1, <2>1, BridgeFacts DEF Synchronous, cloud, Types
<1>3. PassedAreGone'
  BY <1>1, <1>2 DEF PassedAreGone
<1>4. CASE \E d \in DOMAIN desktops : FromTDesktopUse(d)
  <2>1. PICK d \in DOMAIN desktops : FromTDesktopUse(d)
    BY <1>4
  <2> DEFINE account == desktops[d].accounts[1]
  <2>2. account.key \in 1 .. made /\ account.api \in Apis
        /\ 1 \in DOMAIN desktops[d].accounts
    BY <1>1, MainAccount
  <2>3. /\ client' = [key |-> account.key, api |-> account.api, connected |-> FALSE,
                      known |-> TRUE]
        /\ file' = account.key /\ UNCHANGED desktops
    BY <2>1 DEF FromTDesktopUse, ApiOfAccount
  <2>4. desktops' \in Seq(Desktop) /\ Len(desktops') <= MaxDesktops /\ AccountsFilled'
        /\ AccountsNumbered' /\ \A j : Room(j) => Room(j)'
    BY <1>1, <1>2, <2>3, DesktopsUntouched, KeyTypes
  <2>5. call = "copy" => account.key # op.key
    BY <1>1, <2>2 DEF CopyIsFree
  <2>6. account.key \in Keys
    BY <1>1, <2>2, KeyTypes
  <2> HIDE DEF account
  <2>7. Types'
    BY <1>1, <1>2, <2>2, <2>3, <2>4, <2>6 DEF Types, Keys
  <2>8. LoginInv'
    BY <1>1, <1>2, <2>3, <2>6, LoginUntouched
  <2>9. PlaceInv'
    BY <1>1, <1>2, <2>4 DEF PlaceInv
  <2>10. CopyIsFree'
    BY <1>1, <1>2, <2>3, <2>5 DEF CopyIsFree
  <2> QED BY <1>3, <2>4, <2>7, <2>8, <2>9, <2>10 DEF CallInv
<1>5. CASE \E into \in Owners(client.api) : FromTelethonUse(into)
  <2>1. PICK into \in Owners(client.api) : FromTelethonUse(into)
    BY <1>5
  <2>2. Room(into) /\ (into = 0 => call = "none")
    <3>1. into \in Owners(client.api)
      BY <2>1
    <3>2. Room(into)
      BY <1>1, <3>1, OwnersHaveRoom
    <3>3. 0 \notin DOMAIN desktops
      BY <1>1 DEF Types
    <3> QED BY <3>1, <3>2, <3>3 DEF Owners
  <2>3. /\ client.key \in 1 .. made /\ client.api \in Apis
        /\ AddAccount(into, client.key, client.api) /\ UNCHANGED <<client, file>>
    BY <1>1, <2>1 DEF FromTelethonUse, Types
  <2>4. /\ desktops' \in Seq(Desktop) /\ Len(desktops') <= MaxDesktops
        /\ AccountsFilled' /\ AccountsNumbered'
        /\ \A j : Room(j) /\ (into = 0 => j # 0) => Room(j)'
        /\ \A k : k # client.key
                  /\ (\A d \in DOMAIN desktops : \A i \in DOMAIN desktops[d].accounts :
                        desktops[d].accounts[i].key # k)
                  => \A d \in DOMAIN desktops' : \A i \in DOMAIN desktops'[d].accounts :
                       desktops'[d].accounts[i].key # k
    BY <1>1, <1>2, <2>2, <2>3, AddKeeps
  <2>5. Types'
    BY <1>1, <1>2, <2>3, <2>4 DEF Types
  <2>6. LoginInv'
    BY <1>1, <1>2, <2>3, LoginUntouched
  <2>7. PlaceInv'
    BY <1>1, <1>2, <2>2, <2>4 DEF PlaceInv
  <2>8. CopyIsFree'
    BY <1>1, <1>2, <2>3, <2>4 DEF CopyIsFree
  <2> QED BY <1>3, <2>4, <2>5, <2>6, <2>7, <2>8 DEF CallInv
<1>6. CASE \E into \in Owners(client.api) : FromTelethonUseFails(into)
  <2>1. UNCHANGED <<desktops, client, file>>
    BY <1>6 DEF FromTelethonUseFails, caller
  <2>2. desktops' \in Seq(Desktop) /\ Len(desktops') <= MaxDesktops /\ AccountsFilled'
        /\ AccountsNumbered' /\ \A j : Room(j) => Room(j)'
    BY <1>1, <1>2, <2>1, DesktopsUntouched, KeyTypes
  <2>3. Types'
    BY <1>1, <1>2, <2>1, <2>2 DEF Types
  <2>4. LoginInv'
    BY <1>1, <1>2, <2>1, LoginUntouched
  <2>5. PlaceInv' /\ CopyIsFree'
    BY <1>1, <1>2, <2>1, <2>2 DEF PlaceInv, CopyIsFree
  <2> QED BY <1>3, <2>2, <2>3, <2>4, <2>5 DEF CallInv
<1> QED BY <1>4, <1>5, <1>6

\* A call that ends with an account added or refused.
LEMMA AddAndEndKeeps ==
  ASSUME CallInv, call \in {"get_me", "copy"}, call' = "none", op' = NoOp,
         UNCHANGED <<login, file, made, calls>>,
         \/ AddAccount(op.into, op.key, op.api)
         \/ UNCHANGED desktops,
         client' \in [key : {0} \cup 1 .. made, api : Apis, connected : BOOLEAN, known : BOOLEAN],
         client'.connected => client'.key # 0,
         server' \in [Keys -> [whose : {Me, Stranger}, by : Apis, live : BOOLEAN,
                              with : SUBSET Apis, left : BOOLEAN]]
  PROVE  CallInv'
<1>1. /\ Types /\ AccountsFilled /\ AccountsNumbered /\ PlaceInv /\ LoginInv
  BY DEF CallInv
<1>2. op.key \in 1 .. made /\ op.api \in Apis /\ Room(op.into)
  BY <1>1 DEF Types, PlaceInv
<1>3. desktops' \in Seq(Desktop) /\ Len(desktops') <= MaxDesktops
      /\ AccountsFilled' /\ AccountsNumbered'
  <2>1. CASE AddAccount(op.into, op.key, op.api)
    BY <1>1, <1>2, <2>1, AddKeeps
  <2>2. CASE UNCHANGED desktops
    BY <1>1, <2>2, DesktopsUntouched, KeyTypes
  <2> QED BY <2>1, <2>2
<1>4. op' \in [flow : {"none", "FromTDesktop", "FromTelethon"}, key : {0} \cup 1 .. made,
               api : Apis, into : 0 .. MaxDesktops, listed : SUBSET (1 .. made),
               todo : SUBSET (1 .. made)]
      /\ call' \in Places
  BY BridgeFacts DEF NoOp, Places
<1>5. Types'
  BY <1>1, <1>3, <1>4 DEF Types
<1>6. LoginInv'
  BY <1>1, LoginUntouched
<1>7. PlaceInv' /\ CopyIsFree' /\ PassedAreGone'
  BY DEF PlaceInv, CopyIsFree, PassedAreGone, NoOp
<1> QED BY <1>3, <1>5, <1>6, <1>7 DEF CallInv

LEMMA AddingsKeep ==
  ASSUME CallInv, GetMe \/ AddCopy
  PROVE  CallInv'
<1>1. Types /\ PlaceInv
  BY DEF CallInv
<1>2. CASE GetMe
  <2>1. op.key \in 1 .. made /\ op.api \in Apis
    BY <1>1, <1>2 DEF GetMe, Types, PlaceInv
  <2>2. server' \in [Keys -> [whose : {Me, Stranger}, by : Apis, live : BOOLEAN,
                              with : SUBSET Apis, left : BOOLEAN]]
    BY <1>1, <1>2, <2>1, Used DEF GetMe
  <2>3. server[op.key].live \in BOOLEAN
    BY <1>1, <2>1, KeyTypes DEF Types
  <2>4. /\ client \in [key : {0} \cup 1 .. made, api : Apis, connected : BOOLEAN,
                        known : BOOLEAN]
        /\ client.connected => client.key # 0
    BY <1>1 DEF Types
  <2>5. client' = IF client.key = op.key
                   THEN [client EXCEPT !.connected = TRUE, !.known = server[op.key].live]
                   ELSE client
    BY <1>2 DEF GetMe
  <2>6. op.key # 0
    BY <1>1, <2>1, KeyTypes
  <2>7. /\ client' \in [key : {0} \cup 1 .. made, api : Apis, connected : BOOLEAN,
                         known : BOOLEAN]
        /\ client'.connected => client'.key # 0
    <3>1. CASE client.key = op.key
      <4>1. client' = [client EXCEPT !.connected = TRUE, !.known = server[op.key].live]
        BY <2>5, <3>1
      <4> QED BY <2>3, <2>4, <2>6, <3>1, <4>1
    <3>2. CASE client.key # op.key
      BY <2>4, <2>5, <3>2
    <3> QED BY <3>1, <3>2
  <2>8. AddOrFail /\ UNCHANGED <<login, file, made>> /\ call = "get_me"
    BY <1>2 DEF GetMe
  <2> QED BY <2>2, <2>7, <2>8, AddAndEndKeeps DEF AddOrFail, End
<1>3. CASE AddCopy
  BY <1>1, <1>3, AddAndEndKeeps DEF AddCopy, End, TheCopy, cloud, Types
<1> QED BY <1>2, <1>3

LEMMA OpenBundleKeeps ==
  ASSUME CallInv, OpenBundle
  PROVE  CallInv'
<1>1. /\ Types /\ AccountsFilled /\ AccountsNumbered /\ PlaceInv /\ LoginInv
  BY DEF CallInv
<1>2. op.key \in 1 .. made /\ op.key # 0 /\ op.api \in Apis
  BY <1>1, KeyTypes DEF OpenBundle, Types, PlaceInv
<1>3. server' \in [Keys -> [whose : {Me, Stranger}, by : Apis, live : BOOLEAN,
                            with : SUBSET Apis, left : BOOLEAN]]
  BY <1>1, <1>2, Used DEF OpenBundle
<1>4. /\ client' \in [key : {0} \cup 1 .. made, api : Apis, connected : BOOLEAN, known : BOOLEAN]
      /\ client'.connected => client'.key # 0
  BY <1>1, <1>2 DEF OpenBundle, Types
<1>5. call' = "none" /\ op' = NoOp /\ UNCHANGED <<login, desktops, file, made, calls>>
  BY DEF OpenBundle, End
<1>6. desktops' \in Seq(Desktop) /\ Len(desktops') <= MaxDesktops /\ AccountsFilled'
      /\ AccountsNumbered'
  BY <1>1, <1>5, DesktopsUntouched, KeyTypes
<1>7. op' \in [flow : {"none", "FromTDesktop", "FromTelethon"}, key : {0} \cup 1 .. made,
               api : Apis, into : 0 .. MaxDesktops, listed : SUBSET (1 .. made),
               todo : SUBSET (1 .. made)]
      /\ call' \in Places
  BY <1>5, BridgeFacts DEF NoOp, Places
<1>8. Types'
  BY <1>1, <1>3, <1>4, <1>5, <1>6, <1>7 DEF Types
<1>9. LoginInv'
  BY <1>1, <1>5, LoginUntouched
<1>10. PlaceInv' /\ CopyIsFree' /\ PassedAreGone'
  BY <1>5 DEF PlaceInv, CopyIsFree, PassedAreGone, NoOp
<1> QED BY <1>6, <1>8, <1>9, <1>10 DEF CallInv

LEMMA TerminateKeeps ==
  ASSUME CallInv, ListSessions \/ Terminate \/ Terminated
  PROVE  CallInv'
<1>1. /\ Types /\ AccountsFilled /\ AccountsNumbered /\ PlaceInv /\ LoginInv /\ PassedAreGone
  BY DEF CallInv
<1>2. /\ UNCHANGED <<login, caller, made>> /\ call \in {"list", "reset"}
  BY DEF ListSessions, Terminate, Terminated, cloud
<1>3. /\ desktops' \in Seq(Desktop) /\ Len(desktops') <= MaxDesktops
      /\ AccountsFilled' /\ AccountsNumbered'
  BY <1>1, <1>2, DesktopsUntouched, KeyTypes DEF caller
<1>4. CASE End /\ UNCHANGED server
  BY <1>1, <1>2, <1>4, EndKeeps DEF Types
<1>5. ASSUME UNCHANGED calls, call' = "reset",
             op' \in [flow : {"none", "FromTDesktop", "FromTelethon"}, key : {0} \cup 1 .. made,
                      api : Apis, into : 0 .. MaxDesktops, listed : SUBSET (1 .. made),
                      todo : SUBSET (1 .. made)],
             op'.key = op.key,
             server' \in [Keys -> [whose : {Me, Stranger}, by : Apis, live : BOOLEAN,
                                  with : SUBSET Apis, left : BOOLEAN]],
             PassedAreGone'
      PROVE  CallInv'
  <2>1. Types'
    <3>1. call' \in Places /\ UNCHANGED <<client, file, made, calls>>
      BY <1>2, <1>5 DEF Places, caller
    <3> QED BY <1>1, <1>2, <1>3, <1>5, <3>1 DEF Types
  <2>2. LoginInv'
    BY <1>1, <1>2, <1>5, LoginUntouched
  <2>3. PlaceInv' /\ CopyIsFree'
    BY <1>1, <1>2, <1>5 DEF PlaceInv, CopyIsFree
  <2> QED BY <1>3, <1>5, <2>1, <2>2, <2>3 DEF CallInv
<1>6. op \in [flow : {"none", "FromTDesktop", "FromTelethon"}, key : {0} \cup 1 .. made,
              api : Apis, into : 0 .. MaxDesktops, listed : SUBSET (1 .. made),
              todo : SUBSET (1 .. made)]
  BY <1>1 DEF Types
<1>7. CASE ListSessions
  <2> DEFINE others == {k \in 1 .. made : /\ k # op.key /\ server[k].live
                                          /\ server[k].whose = server[op.key].whose}
  <2>1. CASE /\ op' = [op EXCEPT !.listed = others, !.todo = others] /\ call' = "reset"
             /\ UNCHANGED calls
    <3>1. UNCHANGED server
      BY <1>7 DEF ListSessions, cloud
    <3>2. others \in SUBSET (1 .. made)
      OBVIOUS
    <3> DEFINE sets == SUBSET (1 .. made)
    <3>3. others \in sets
      BY <3>2
    <3> HIDE DEF others, sets
    <3>4. /\ op' \in [flow : {"none", "FromTDesktop", "FromTelethon"}, key : {0} \cup 1 .. made,
                      api : Apis, into : 0 .. MaxDesktops, listed : sets, todo : sets]
          /\ op'.key = op.key /\ op'.listed = op'.todo
      BY <1>6, <2>1, <3>3 DEF sets
    <3>5. PassedAreGone'
      BY <3>4 DEF PassedAreGone
    <3> QED BY <1>1, <1>5, <2>1, <3>1, <3>4, <3>5 DEF sets, Types
  <2>2. CASE End
    BY <1>4, <1>7, <2>2 DEF ListSessions, cloud
  <2> QED BY <1>7, <2>1, <2>2 DEF ListSessions
<1>8. CASE Terminate
  <2>1. PICK k \in op.todo :
          \/ /\ server' = [server EXCEPT ![k].live = FALSE]
             /\ op' = [op EXCEPT !.todo = @ \ {k}]
             /\ UNCHANGED <<call, calls>>
          \/ End /\ UNCHANGED server
    BY <1>8 DEF Terminate, TerminateSession
  <2>2. CASE /\ server' = [server EXCEPT ![k].live = FALSE]
             /\ op' = [op EXCEPT !.todo = @ \ {k}]
             /\ UNCHANGED <<call, calls>>
    <3>1. k \in Keys /\ op.todo \in SUBSET (1 .. made) /\ op.listed \in SUBSET (1 .. made)
      BY <1>1, <1>6, <2>1, KeyTypes
    <3>2. /\ server' \in [Keys -> [whose : {Me, Stranger}, by : Apis, live : BOOLEAN,
                                   with : SUBSET Apis, left : BOOLEAN]]
          /\ \A j \in Keys : server'[j].live = IF j = k THEN FALSE ELSE server[j].live
      BY <1>1, <2>2, <3>1, Ended
    <3>3. op.todo \ {k} \in SUBSET (1 .. made)
      BY <3>1
    <3> DEFINE sets == SUBSET (1 .. made)
               rest == op.todo \ {k}
    <3>4. rest \in sets /\ op' = [op EXCEPT !.todo = rest]
      BY <2>2, <3>3
    <3> HIDE DEF sets, rest
    <3>5. /\ op' \in [flow : {"none", "FromTDesktop", "FromTelethon"}, key : {0} \cup 1 .. made,
                      api : Apis, into : 0 .. MaxDesktops, listed : sets, todo : sets]
          /\ op'.key = op.key /\ op'.listed = op.listed /\ op'.todo = rest
      BY <1>6, <3>4 DEF sets
    <3>6. PassedAreGone'
      <4> SUFFICES ASSUME NEW j \in op.listed \ rest PROVE ~server'[j].live
        BY <3>5 DEF PassedAreGone
      <4>1. j \in Keys
        BY <1>1, <3>1, KeyTypes
      <4>2. CASE j = k
        BY <3>2, <4>1, <4>2
      <4>3. CASE j # k
        <5>1. j \in op.listed \ op.todo /\ call = "reset"
          BY <1>8, <4>3 DEF rest, Terminate
        <5> QED BY <1>1, <3>2, <4>1, <4>3, <5>1 DEF PassedAreGone
      <4> QED BY <4>2, <4>3
    <3> QED BY <1>5, <1>8, <2>2, <3>2, <3>5, <3>6 DEF sets, Terminate
  <2>3. CASE End /\ UNCHANGED server
    BY <1>4, <2>3
  <2> QED BY <2>1, <2>2, <2>3
<1>9. CASE Terminated
  BY <1>4, <1>9 DEF Terminated, cloud
<1> QED BY <1>7, <1>8, <1>9

LEMMA CallNext == CallInv /\ [BridgeNext]_bridgeVars => CallInv'
<1> SUFFICES ASSUME CallInv, [BridgeNext]_bridgeVars PROVE CallInv'
  OBVIOUS
<1>1. CASE CallStep
  BY <1>1, LoginStepKeeps, EndLoginKeeps, AddingsKeep, AuthorizeKeeps, OpenBundleKeeps,
     TerminateKeeps, OutsideKeeps DEF CallStep
<1>2. CASE Calls
  BY <1>2, UseKeeps, BeginningsKeep, LoginBeginsKeeps DEF Calls
<1>3. CASE ConnectClient \/ \E k \in Keys : Revoke(k)
  BY <1>3, OutsideKeeps
<1>4. CASE UNCHANGED bridgeVars
  BY <1>4 DEF bridgeVars, login, caller, cloud, CallInv, Types, AccountsFilled, AccountsNumbered,
       PlaceInv, Room, LoginInv, TokenInv, Inv, TypeOK, NoResultYet, BeforeLoop, InLoop,
       ReturnsAuthorized, CopyIsFree, PassedAreGone, args
<1> QED BY <1>1, <1>2, <1>3, <1>4 DEF BridgeNext

(***************************************************************************)
(* What the conversions promise                                            *)
(***************************************************************************)

\* CallInv holds in every state, whatever Uses are allowed.
THEOREM CallsSafe == BridgeSpec => []CallInv
<1> QED BY CallInit, CallNext, PTL DEF BridgeSpec

\* The state has its types, and an account has the API of its TDesktop.
THEOREM BridgeTypes == BridgeSpec => []BridgeTypeOK
<1>1. CallInv => BridgeTypeOK
  <2> SUFFICES ASSUME CallInv PROVE BridgeTypeOK
    OBVIOUS
  <2>1. /\ Types /\ AccountsFilled /\ 1 .. made \subseteq Keys /\ made \in Nat
    BY KeyTypes DEF CallInv
  <2>2. TypeOK
    BY DEF CallInv, LoginInv, Inv
  <2>3. ASSUME NEW d \in DOMAIN desktops
        PROVE  /\ desktops[d].api \in Apis /\ desktops[d].accounts \in Seq(Accounts)
               /\ \A i \in DOMAIN desktops[d].accounts :
                    desktops[d].accounts[i].api = desktops[d].api
    <3>1. desktops[d] \in Desktop
      BY <2>1, <2>3 DEF Types
    <3> QED BY <2>1, <3>1 DEF Desktop, AccountsFilled
  <2>4. client \in [key : {0} \cup Keys, api : Apis, connected : BOOLEAN, known : BOOLEAN]
    BY <2>1 DEF Types
  <2>5. op \in [flow : {"none", "FromTDesktop", "FromTelethon"}, key : {0} \cup Keys,
                api : Apis, into : 0 .. MaxDesktops, listed : SUBSET Keys, todo : SUBSET Keys]
    <3>1. /\ op \in [flow : {"none", "FromTDesktop", "FromTelethon"},
                      key : {0} \cup 1 .. made, api : Apis, into : 0 .. MaxDesktops,
                      listed : SUBSET (1 .. made), todo : SUBSET (1 .. made)]
      BY <2>1 DEF Types
    <3> QED BY <2>1, <3>1
  <2> QED BY <2>1, <2>2, <2>3, <2>4, <2>5 DEF BridgeTypeOK, Types
<1> QED BY <1>1, CallsSafe, PTL

\* The accounts of every TDesktop keep their numbers and the limit, whatever
\* other tasks add while a conversion waits.
THEOREM Numbered == BridgeSpec => []AccountsNumbered
<1>1. CallInv => AccountsNumbered
  BY DEF CallInv
<1> QED BY <1>1, CallsSafe, PTL

\* The login of a conversion returns a client only with an authorized session.
THEOREM LoginReturns == BridgeSpec => []ReturnsAuthorized
<1>1. CallInv => ReturnsAuthorized
  BY DEF CallInv, LoginInv, Inv
<1> QED BY <1>1, CallsSafe, PTL

\* CreateNewSession gives a TDesktop a key that nothing held.
THEOREM CreatedAreNew == BridgeSpec => CreatedIsNew
<1>1. ASSUME CallInv, [BridgeNext]_bridgeVars, call = "copy", call' = "none",
             desktops' # desktops
      PROVE  HeldBy(desktops') \ Held # {}
  <2>1. AddCopy
    BY <1>1 DEF BridgeNext, CallStep, Calls, bridgeVars, LoginStep, EndLogin, Authorize, GetMe,
         OpenBundle, ListSessions, Terminate, Terminated, AwaitFails, caller, Begin, Synchronous,
         FromTDesktopUse, FromTDesktopCreate, FromTelethonUse, FromTelethonUseFails,
         FromTelethonAsk, FromTelethonCreate, FromTelethonLogin, FromBundle, TerminateAll,
         ConnectClient, Revoke
  <2>2. op.key \in Keys /\ op.api \in Apis /\ Room(op.into)
    BY <1>1, KeyTypes DEF CallInv, Types, PlaceInv
  <2>3. AddAccount(op.into, op.key, op.api)
    BY <1>1, <2>1 DEF AddCopy, TheCopy
  <2>4. Added(op.into, op.key, op.api)
    BY <1>1, <2>2, <2>3, AddAccountAdds DEF CallInv
  <2>5. op.key \in HeldBy(desktops')
    BY <2>4 DEF Added, HeldBy
  <2>6. op.key \notin Held
    BY <1>1 DEF CallInv, CopyIsFree, Held, HeldBy
  <2> QED BY <2>5, <2>6
<1>2. CallInv /\ [BridgeNext]_bridgeVars =>
        [\A d \in DOMAIN desktops' :
           call = "copy" /\ call' = "none" /\ desktops' # desktops =>
             HeldBy(desktops') \ Held # {}]_bridgeVars
  BY <1>1
<1> QED BY <1>2, CallsSafe, PTL DEF BridgeSpec, CreatedIsNew

\* A TerminateAllSessions that returns has ended every session it had listed,
\* also when the user ended some of them meanwhile.
THEOREM ListedAreGone == BridgeSpec => AllListedGone
<1>1. ASSUME CallInv, [BridgeNext]_bridgeVars, call = "reset", call' = "none", op.todo = {}
      PROVE  \A k \in op.listed : ~server'[k].live
  <2>1. UNCHANGED server
    BY <1>1 DEF BridgeNext, CallStep, Calls, bridgeVars, LoginStep, EndLogin, Authorize, GetMe,
         OpenBundle, ListSessions, Terminate, TerminateSession, Terminated, AwaitFails, cloud,
         AddCopy, Begin, Synchronous, FromTDesktopUse, FromTDesktopCreate, FromTelethonUse,
         FromTelethonUseFails, FromTelethonAsk, FromTelethonCreate, FromTelethonLogin,
         FromBundle, TerminateAll, ConnectClient, Revoke
  <2> QED BY <1>1, <2>1 DEF CallInv, PassedAreGone
<1>2. CallInv /\ [BridgeNext]_bridgeVars =>
        [call = "reset" /\ call' = "none" /\ op.todo = {}
           => \A k \in op.listed : ~server'[k].live]_bridgeVars
  BY <1>1
<1> QED BY <1>2, CallsSafe, PTL DEF BridgeSpec, AllListedGone

(***************************************************************************)
(* One API per session                                                     *)
(***************************************************************************)

\* Honest in the next state, of a key and an API of this one.
HonestNext(k, api) ==
  /\ k \in 1 .. made' /\ server'[k].by = api
  /\ server'[k].with \subseteq {api} \/ server'[k].left

\* The server keeps who made a key, and a key that is used honestly stays so.
HonestStays ==
  /\ \A k \in 1 .. made : \A api \in Apis : Honest(k, api) => HonestNext(k, api)
  /\ \A k \in 1 .. made : server'[k].by = server[k].by
  /\ ServerHonest'

LEMMA HonestUse ==
  ASSUME Types, ServerHonest, NEW key \in 1 .. made, NEW api \in Apis, Honest(key, api),
         Use(key, api), made' = made
  PROVE  HonestStays
<1>1. \A j \in 1 .. made :
        /\ server'[j].by = server[j].by /\ server'[j].left = server[j].left
        /\ server'[j].with = IF j = key THEN server[j].with \cup {api} ELSE server[j].with
  BY Used, KeyTypes
<1>2. server[key].by = api
  BY DEF Honest
<1> QED BY <1>1, <1>2, ZenonT(40) DEF HonestStays, ServerHonest, Honest, HonestNext

LEMMA HonestSame ==
  ASSUME ServerHonest, made' = made,
         \A k \in 1 .. made : /\ server'[k].by = server[k].by
                              /\ server'[k].with = server[k].with
                              /\ server'[k].left = server[k].left
  PROVE  HonestStays
BY DEF HonestStays, ServerHonest, Honest, HonestNext

\* The list of TDesktop objects stays honest, and they keep their APIs.
LEMMA ListKeeps ==
  ASSUME CallInv, AccountsHonest, HonestStays,
         \/ UNCHANGED desktops
         \/ \E into \in 0 .. MaxDesktops : \E key \in 1 .. made : \E api \in Apis :
              /\ Added(into, key, api) /\ Honest(key, api)
              /\ into # 0 => into \in DOMAIN desktops /\ desktops[into].api = api
  PROVE  /\ AccountsHonest'
         /\ \A d \in DOMAIN desktops : /\ d \in DOMAIN desktops'
                                       /\ desktops'[d].api = desktops[d].api
<1>1. ASSUME NEW d \in DOMAIN desktops, NEW i \in DOMAIN desktops[d].accounts
      PROVE  HonestNext(desktops[d].accounts[i].key, desktops[d].api)
  <2>1. desktops[d].api \in Apis
    BY <1>1, MainAccount DEF CallInv
  <2>2. desktops[d].accounts[i].key \in 1 .. made
    BY <1>1 DEF CallInv, AccountsFilled
  <2>3. Honest(desktops[d].accounts[i].key, desktops[d].api)
    BY <1>1 DEF AccountsHonest
  <2> QED BY <2>1, <2>2, <2>3 DEF HonestStays
<1>2. CASE UNCHANGED desktops
  BY <1>1, <1>2 DEF AccountsHonest, Honest, HonestNext
<1>3. CASE \E into \in 0 .. MaxDesktops : \E key \in 1 .. made : \E api \in Apis :
              /\ Added(into, key, api) /\ Honest(key, api)
              /\ into # 0 => into \in DOMAIN desktops /\ desktops[into].api = api
  <2>1. PICK into \in 0 .. MaxDesktops, key \in 1 .. made, api \in Apis :
              /\ Added(into, key, api) /\ Honest(key, api)
              /\ into # 0 => into \in DOMAIN desktops /\ desktops[into].api = api
    BY <1>3
  <2>2. \A d \in DOMAIN desktops : d \in DOMAIN desktops'
    <3>1. desktops' \in Seq(Desktop)
          /\ Len(desktops') = IF into = 0 THEN Len(desktops) + 1 ELSE Len(desktops)
      BY <2>1 DEF Added
    <3>2. desktops \in Seq(Desktop)
      BY DEF CallInv, Types
    <3> QED BY <3>1, <3>2
  <2>3. \A d \in DOMAIN desktops : desktops'[d].api = desktops[d].api
    <3>1. 0 \notin DOMAIN desktops
      BY DEF CallInv, Types
    <3>2. \A d \in DOMAIN desktops :
            desktops'[d].api = IF d # into THEN desktops[d].api ELSE api
      BY <2>1, <2>2 DEF Added
    <3> QED BY <2>1, <3>1, <3>2
  <2>4. HonestNext(key, api)
    BY <2>1 DEF HonestStays
  <2>5. ASSUME NEW d \in DOMAIN desktops', NEW i \in DOMAIN desktops'[d].accounts
        PROVE  HonestNext(desktops'[d].accounts[i].key, desktops'[d].api)
    <3>1. CASE desktops'[d].accounts[i].key = key /\ desktops'[d].api = api
      BY <2>4, <3>1
    <3>2. CASE /\ d \in DOMAIN desktops /\ i \in DOMAIN desktops[d].accounts
               /\ desktops'[d].accounts[i].key = desktops[d].accounts[i].key
      BY <1>1, <2>3, <3>2
    <3> QED BY <2>1, <2>5, <3>1, <3>2 DEF Added
  <2> QED BY <2>2, <2>3, <2>5 DEF AccountsHonest, Honest, HonestNext
<1> QED BY <1>2, <1>3

LEMMA ClientStays ==
  ASSUME CallInv, ClientHonest, HonestStays,
         client' = client \/ (client'.key = client.key /\ client'.api = client.api)
  PROVE  ClientHonest'
<1>1. client.key # 0 => client.key \in 1 .. made
  BY DEF CallInv, Types
<1>2. client.api \in Apis
  BY DEF CallInv, Types
<1> QED BY <1>1, <1>2 DEF ClientHonest, HonestStays, Honest, HonestNext

\* The session file stays, and a login does not open it or has it open still.
LEMMA FileKeeps ==
  ASSUME CallInv, ApiInv, HonestStays, file' = file,
         \/ call' = "login" /\ op'.flow = "FromTDesktop"
         \/ ~(call = "login" /\ op.flow = "FromTDesktop")
  PROVE  FileHonest'
<1> SUFFICES ASSUME file # 0, ~(call' = "login" /\ op'.flow = "FromTDesktop")
             PROVE  HonestNext(file, server'[file].by)
  BY DEF FileHonest, Honest, HonestNext
<1>1. file \in 1 .. made /\ file \in Keys
  BY KeyTypes DEF CallInv, Types
<1>2. server[file].by \in Apis
  BY <1>1 DEF CallInv, Types
<1>3. Honest(file, server[file].by)
  BY DEF ApiInv, FileHonest
<1> QED BY <1>1, <1>2, <1>3 DEF HonestStays

\* A call that ends.
LEMMA EndKeepsApi ==
  ASSUME CallInv, ApiInv, HonestStays, End, ClientHonest', AccountsHonest', FileHonest'
  PROVE  ApiInv'
BY DEF ApiInv, HonestStays, End, NoOp, CallHonest, OwnerInv, FileIsFree

\* A step that leaves the coroutine where it is.
LEMMA PlaceKeepsApi ==
  ASSUME CallInv, ApiInv, HonestStays, UNCHANGED <<call, op, found>>,
         ClientHonest', AccountsHonest', FileIsFree', FileHonest',
         \A d \in DOMAIN desktops : /\ d \in DOMAIN desktops'
                                    /\ desktops'[d].api = desktops[d].api
  PROVE  ApiInv'
<1>1. CallHonest'
  <2>1. call \in {"get_me", "authorize", "bundle", "copy"} =>
          op.key \in 1 .. made /\ op.api \in Apis
    BY DEF CallInv, Types, PlaceInv
  <2> QED BY <2>1 DEF ApiInv, CallHonest, HonestStays, Honest, HonestNext
<1>2. OwnerInv'
  <2>1. \A j : j # 0 /\ Room(j) => j \in DOMAIN desktops
    BY DEF Room
  <2>2. call \in {"get_me", "copy"} => Room(op.into)
    BY DEF CallInv, PlaceInv
  <2>3. call \in {"authorize", "login"} /\ op.flow = "FromTelethon" => Room(op.into)
    BY DEF CallInv, PlaceInv
  <2> QED BY <2>1, <2>2, <2>3 DEF ApiInv, OwnerInv
<1> QED BY <1>1, <1>2 DEF ApiInv, HonestStays

\* The file of the login stays free of what accounts and the client hold.
LEMMA FileStays ==
  ASSUME CallInv, ApiInv, HonestStays, UNCHANGED <<call, op, found, file>>,
         client'.key = client.key,
         \/ UNCHANGED desktops
         \/ /\ client.key # 0
            /\ \E into \in 0 .. MaxDesktops : \E api \in Apis : Added(into, client.key, api)
  PROVE  FileIsFree'
<1> SUFFICES ASSUME op.flow = "FromTDesktop" PROVE FileIsFree'
  BY DEF FileIsFree
<1>1. /\ call = "login" /\ found # Nobody => file # 0 /\ found[2] = server[file].by
      /\ client.key # 0 => client.key # file
      /\ \A d \in DOMAIN desktops : \A i \in DOMAIN desktops[d].accounts :
           desktops[d].accounts[i].key # file
  BY DEF ApiInv, FileIsFree
<1>2. file # 0 => server'[file].by = server[file].by
  BY DEF CallInv, Types, HonestStays
<1>3. \A d \in DOMAIN desktops' : \A i \in DOMAIN desktops'[d].accounts :
        desktops'[d].accounts[i].key # file
  <2>1. CASE UNCHANGED desktops
    BY <1>1, <2>1
  <2>2. CASE /\ client.key # 0
             /\ \E into \in 0 .. MaxDesktops : \E api \in Apis : Added(into, client.key, api)
    BY <1>1, <2>2 DEF Added
  <2> QED BY <2>1, <2>2
<1> QED BY <1>1, <1>2, <1>3 DEF FileIsFree

LEMMA OutsideKeepsApi ==
  ASSUME CallInv, ApiInv,
         ConnectClient \/ (\E k \in Keys : Revoke(k)) \/ AwaitFails \/ LoginStep
  PROVE  ApiInv'
<1>1. /\ Types /\ ServerHonest /\ ClientHonest /\ AccountsHonest
  BY DEF CallInv, ApiInv
<1>2. CASE ConnectClient
  <2>1. client.key \in 1 .. made /\ client.api \in Apis /\ Honest(client.key, client.api)
    BY <1>1, <1>2 DEF ConnectClient, Types, ClientHonest
  <2>2. HonestStays
    BY <1>1, <1>2, <2>1, HonestUse DEF ConnectClient
  <2>3. UNCHANGED <<desktops, file, call, op, found>> /\ client'.key = client.key
        /\ client'.api = client.api
    BY <1>1, <1>2 DEF ConnectClient, login, Types
  <2>4. ClientHonest'
    BY <1>1, <2>2, <2>3, ClientStays
  <2>5. AccountsHonest' /\ \A d \in DOMAIN desktops : /\ d \in DOMAIN desktops'
                                                      /\ desktops'[d].api = desktops[d].api
    BY <1>1, <2>2, <2>3, ListKeeps
  <2>6. FileIsFree' /\ FileHonest'
    BY <2>2, <2>3, FileStays, FileKeeps
  <2> QED BY <2>2, <2>3, <2>4, <2>5, <2>6, PlaceKeepsApi
<1>3. CASE \E k \in Keys : Revoke(k)
  <2>1. HonestStays
    BY <1>1, <1>3, Ended, HonestSame, KeyTypes DEF Revoke
  <2>2. UNCHANGED <<desktops, client, file, call, op, found>>
    BY <1>3 DEF Revoke, login, caller, EndedElsewhere, args
  <2>3. ClientHonest'
    BY <1>1, <2>1, <2>2, ClientStays
  <2>4. AccountsHonest' /\ \A d \in DOMAIN desktops : /\ d \in DOMAIN desktops'
                                                      /\ desktops'[d].api = desktops[d].api
    BY <1>1, <2>1, <2>2, ListKeeps
  <2>5. FileIsFree' /\ FileHonest'
    BY <2>1, <2>2, FileStays, FileKeeps
  <2> QED BY <2>1, <2>2, <2>3, <2>4, <2>5, PlaceKeepsApi
<1>4. CASE AwaitFails
  <2>1. HonestStays
    BY <1>1, <1>4, HonestSame DEF AwaitFails, cloud
  <2>2. UNCHANGED <<desktops, client, file>> /\ End /\ call # "login"
    BY <1>4 DEF AwaitFails, caller
  <2>3. ClientHonest' /\ AccountsHonest' /\ FileHonest'
    BY <1>1, <2>1, <2>2, ClientStays, ListKeeps, FileKeeps
  <2> QED BY <2>1, <2>2, <2>3, EndKeepsApi
<1>5. CASE LoginStep
  <2>1. HonestStays
    BY <1>1, <1>5, HonestSame DEF LoginStep, cloud
  <2>2. UNCHANGED <<desktops, client, file, call, op, found>>
    BY <1>5, LoginMoves DEF LoginStep, caller, CallInv, LoginInv, Next
  <2>3. ClientHonest'
    BY <1>1, <2>1, <2>2, ClientStays
  <2>4. AccountsHonest' /\ \A d \in DOMAIN desktops : /\ d \in DOMAIN desktops'
                                                      /\ desktops'[d].api = desktops[d].api
    BY <1>1, <2>1, <2>2, ListKeeps
  <2>5. FileIsFree' /\ FileHonest'
    BY <2>1, <2>2, FileStays, FileKeeps
  <2> QED BY <2>1, <2>2, <2>3, <2>4, <2>5, PlaceKeepsApi
<1> QED BY <1>2, <1>3, <1>4, <1>5

LEMMA UseKeepsApi ==
  ASSUME Uses = {}, CallInv, ApiInv,
         \/ \E d \in DOMAIN desktops : FromTDesktopUse(d)
         \/ \E into \in Owners(client.api) : FromTelethonUse(into) \/ FromTelethonUseFails(into)
  PROVE  ApiInv'
<1>1. /\ Types /\ ServerHonest /\ ClientHonest /\ AccountsHonest /\ AccountsFilled
      /\ AccountsNumbered
  BY DEF CallInv, ApiInv
<1>2. UNCHANGED <<server, made, call, op, found>>
  BY DEF FromTDesktopUse, FromTelethonUse, FromTelethonUseFails, Synchronous, cloud, login
<1>3. HonestStays
  BY <1>1, <1>2, HonestSame
<1>4. CASE \E d \in DOMAIN desktops : FromTDesktopUse(d)
  <2>1. PICK d \in DOMAIN desktops : FromTDesktopUse(d)
    BY <1>4
  <2> DEFINE account == desktops[d].accounts[1]
  <2>2. /\ UNCHANGED desktops /\ op.flow # "FromTDesktop"
        /\ client' = [key |-> account.key, api |-> account.api, connected |-> FALSE,
                      known |-> TRUE]
    BY <2>1 DEF FromTDesktopUse, ApiOfAccount
  <2>3. Honest(account.key, account.api) /\ account.key \in 1 .. made /\ account.api \in Apis
    BY <1>1, MainAccount DEF AccountsHonest
  <2>4. ClientHonest'
    BY <1>2, <2>2, <2>3 DEF ClientHonest, Honest
  <2>5. FileIsFree' /\ FileHonest'
    <3>1. file' = account.key
      BY <2>1 DEF FromTDesktopUse
    <3>2. FileHonest'
      BY <1>2, <2>3, <3>1 DEF FileHonest, Honest
    <3> QED BY <1>2, <2>2, <3>2 DEF FileIsFree
  <2>6. AccountsHonest' /\ \A j \in DOMAIN desktops : /\ j \in DOMAIN desktops'
                                                      /\ desktops'[j].api = desktops[j].api
    BY <1>1, <1>3, <2>2, ListKeeps
  <2> QED BY <1>2, <1>3, <2>4, <2>5, <2>6, PlaceKeepsApi
<1>5. CASE \E into \in Owners(client.api) : FromTelethonUse(into)
  <2>1. PICK into \in Owners(client.api) : FromTelethonUse(into)
    BY <1>5
  <2>2. Room(into) /\ into \in 0 .. MaxDesktops
        /\ (into # 0 => into \in DOMAIN desktops /\ desktops[into].api = client.api)
    BY <1>1, <2>1, OwnersHaveRoom DEF Owners
  <2>3. /\ client.key \in 1 .. made /\ client.api \in Apis /\ client.key # 0
        /\ AddAccount(into, client.key, client.api) /\ UNCHANGED <<client, file>>
    BY <1>1, <2>1 DEF FromTelethonUse, Types
  <2>4. client.key \in Keys
    BY <1>1, <2>3, KeyTypes
  <2>5. Added(into, client.key, client.api)
    BY <1>1, <2>2, <2>3, <2>4, AddAccountAdds
  <2>6. Honest(client.key, client.api)
    BY <1>1, <2>3 DEF ClientHonest
  <2>7. AccountsHonest' /\ \A d \in DOMAIN desktops : /\ d \in DOMAIN desktops'
                                                      /\ desktops'[d].api = desktops[d].api
    BY <1>1, <1>3, <2>2, <2>3, <2>5, <2>6, ListKeeps
  <2>8. FileIsFree' /\ FileHonest'
    BY <1>2, <1>3, <2>2, <2>3, <2>5, FileStays, FileKeeps
  <2>9. ClientHonest'
    BY <1>1, <1>3, <2>3, ClientStays
  <2> QED BY <1>2, <1>3, <2>7, <2>8, <2>9, PlaceKeepsApi
<1>6. CASE \E into \in Owners(client.api) : FromTelethonUseFails(into)
  <2>1. UNCHANGED <<desktops, client, file>>
    BY <1>6 DEF FromTelethonUseFails, caller
  <2>2. ClientHonest'
    BY <1>1, <1>3, <2>1, ClientStays
  <2>3. AccountsHonest' /\ \A d \in DOMAIN desktops : /\ d \in DOMAIN desktops'
                                                      /\ desktops'[d].api = desktops[d].api
    BY <1>1, <1>3, <2>1, ListKeeps
  <2>4. FileIsFree' /\ FileHonest'
    BY <1>2, <1>3, <2>1, FileStays, FileKeeps
  <2> QED BY <1>2, <1>3, <2>2, <2>3, <2>4, PlaceKeepsApi
<1> QED BY <1>4, <1>5, <1>6

\* A call that begins.
LEMMA BeginKeepsApi ==
  ASSUME CallInv, ApiInv, UNCHANGED <<desktops, client, file, server, made>>,
         call = "none", call' \in {"get_me", "authorize", "bundle", "list", "login"},
         call' \in {"get_me", "authorize", "bundle"} => Honest(op'.key, op'.api),
         call' = "get_me" /\ op'.into # 0 => desktops[op'.into].api = op'.api,
         op'.flow = "FromTelethon" /\ op'.into # 0 => desktops[op'.into].api = Api,
         op'.flow = "FromTDesktop" => call' # "login" /\ file \notin Held
  PROVE  ApiInv'
<1>1. AccountsHonest' /\ ClientHonest' /\ ServerHonest'
  BY DEF ApiInv, AccountsHonest, ClientHonest, ServerHonest, Honest
<1>2. CallHonest'
  BY DEF CallHonest, Honest
<1>3. OwnerInv'
  BY DEF OwnerInv
<1>4. op'.flow = "FromTDesktop" =>
        /\ client.key # 0 => client.key # file
        /\ \A d \in DOMAIN desktops : \A i \in DOMAIN desktops[d].accounts :
             desktops[d].accounts[i].key # file
  BY DEF Held, HeldBy
<1>5. FileIsFree'
  BY <1>4 DEF FileIsFree
<1>6. FileHonest'
  BY DEF ApiInv, FileHonest, Honest
<1> QED BY <1>1, <1>2, <1>3, <1>5, <1>6 DEF ApiInv

LEMMA BeginningsKeepApi ==
  ASSUME Uses = {}, CallInv, ApiInv,
         \/ \E d \in DOMAIN desktops : FromTDesktopCreate(d)
         \/ \E into \in Owners(client.api) : FromTelethonAsk(into)
         \/ \E into \in OwnersOfNew : FromTelethonCreate(into) \/ FromTelethonLogin(into)
         \/ FromBundle \/ TerminateAll
  PROVE  ApiInv'
<1>1. Types /\ AccountsFilled /\ ClientHonest /\ AccountsHonest
  BY DEF CallInv, ApiInv
<1>2. UNCHANGED <<desktops, client, file, server, made>> /\ call = "none"
  BY DEF FromTDesktopCreate, FromTelethonAsk, FromTelethonCreate, FromTelethonLogin, FromBundle,
         TerminateAll, caller, cloud, Begin
<1>3. \A api : \A into \in Owners(api) : into # 0 => desktops[into].api = api
  BY DEF Owners
<1>4. CASE \E d \in DOMAIN desktops : FromTDesktopCreate(d)
  <2>1. PICK d \in DOMAIN desktops : FromTDesktopCreate(d)
    BY <1>4
  <2> DEFINE account == desktops[d].accounts[1]
  <2>2. Honest(account.key, account.api)
    BY <1>1, MainAccount DEF AccountsHonest
  <2>3. /\ call' = "authorize" /\ op'.flow = "FromTDesktop" /\ op'.key = account.key
        /\ op'.api = account.api
        /\ file \notin Held
    BY <2>1 DEF FromTDesktopCreate, Begin, NoOp, ApiOfAccount
  <2> HIDE DEF account
  <2> QED BY <1>2, <2>2, <2>3, BeginKeepsApi
<1>5. CASE \E into \in Owners(client.api) : FromTelethonAsk(into)
  <2>1. PICK into \in Owners(client.api) : FromTelethonAsk(into)
    BY <1>5
  <2>2. Honest(client.key, client.api)
    BY <1>1, <2>1 DEF FromTelethonAsk, ClientHonest
  <2>3. /\ call' = "get_me" /\ op'.flow = "none" /\ op'.key = client.key
        /\ op'.api = client.api /\ op'.into = into
    BY <2>1 DEF FromTelethonAsk, Begin, NoOp
  <2> QED BY <1>2, <1>3, <2>1, <2>2, <2>3, BeginKeepsApi
<1>6. CASE \E into \in OwnersOfNew : FromTelethonCreate(into)
  <2>1. PICK into \in OwnersOfNew : FromTelethonCreate(into)
    BY <1>6
  <2>2. Honest(client.key, client.api)
    BY <1>1, <2>1 DEF FromTelethonCreate, ClientHonest
  <2>3. /\ call' = "authorize" /\ op'.flow = "FromTelethon" /\ op'.key = client.key
        /\ op'.api = client.api /\ op'.into = into
    BY <2>1 DEF FromTelethonCreate, Begin, NoOp
  <2>4. into # 0 => desktops[into].api = Api
    BY <1>3, <2>1 DEF OwnersOfNew
  <2> QED BY <1>2, <2>2, <2>3, <2>4, BeginKeepsApi
<1>7. CASE \E into \in OwnersOfNew : FromTelethonLogin(into)
  <2>1. PICK into \in OwnersOfNew : FromTelethonLogin(into)
    BY <1>7
  <2>2. /\ call' = "login" /\ op'.flow = "FromTelethon" /\ op'.into = into
    BY <2>1 DEF FromTelethonLogin, Begin, NoOp
  <2>3. into # 0 => desktops[into].api = Api
    BY <1>3, <2>1 DEF OwnersOfNew
  <2> QED BY <1>2, <2>2, <2>3, BeginKeepsApi
<1>8. CASE FromBundle
  <2>1. /\ call' = "bundle" /\ op'.flow = "none" /\ op'.key = file
        /\ op'.api = server[file].by
    BY <1>8 DEF FromBundle, Begin, NoOp
  <2>2. Honest(file, server[file].by)
    BY <1>2, <1>8 DEF FromBundle, ApiInv, FileHonest
  <2> QED BY <1>2, <2>1, <2>2, BeginKeepsApi
<1>9. CASE TerminateAll
  <2>1. call' = "list" /\ op'.flow = "none"
    BY <1>9 DEF TerminateAll, Begin, NoOp
  <2> QED BY <1>2, <2>1, BeginKeepsApi
<1> QED BY <1>4, <1>5, <1>6, <1>7, <1>8, <1>9

LEMMA AnswersKeepApi ==
  ASSUME CallInv, ApiInv, GetMe \/ AddCopy \/ OpenBundle
  PROVE  ApiInv'
<1>1. /\ Types /\ ServerHonest /\ ClientHonest /\ AccountsHonest /\ AccountsFilled
      /\ AccountsNumbered
  BY DEF CallInv, ApiInv
<1>2. /\ op.key \in 1 .. made /\ op.api \in Apis /\ Honest(op.key, op.api) /\ op.key # 0
      /\ op.key \in Keys
  <2>1. call \in {"get_me", "copy", "bundle"}
    BY DEF GetMe, AddCopy, OpenBundle
  <2>2. op.key \in 1 .. made /\ op.api \in Apis
    BY <1>1, <2>1 DEF CallInv, PlaceInv, Types
  <2> QED BY <1>1, <2>1, <2>2, KeyTypes DEF ApiInv, CallHonest
<1>3. HonestStays
  <2>1. CASE GetMe \/ OpenBundle
    BY <1>1, <1>2, <2>1, HonestUse DEF GetMe, OpenBundle
  <2>2. CASE AddCopy
    BY <1>1, <2>2, HonestSame DEF AddCopy, cloud
  <2> QED BY <2>1, <2>2
<1>4. /\ End /\ file' = file /\ call # "login"
  BY DEF GetMe, AddOrFail, AddCopy, OpenBundle
<1>file. FileHonest'
  BY <1>3, <1>4, FileKeeps
<1>5. AccountsHonest'
  <2>1. CASE UNCHANGED desktops
    BY <1>1, <1>3, <2>1, ListKeeps
  <2>2. CASE ~UNCHANGED desktops
    <3>1. call \in {"get_me", "copy"} /\ AddAccount(op.into, op.key, op.api)
      BY <2>2 DEF GetMe, AddOrFail, AddCopy, TheCopy, OpenBundle
    <3>2. Room(op.into) /\ op.into \in 0 .. MaxDesktops
      BY <1>1, <3>1 DEF CallInv, PlaceInv, Types
    <3>3. Added(op.into, op.key, op.api)
      BY <1>1, <1>2, <3>1, <3>2, AddAccountAdds
    <3>4. op.into # 0 => op.into \in DOMAIN desktops /\ desktops[op.into].api = op.api
      BY <3>1, <3>2 DEF Room, ApiInv, OwnerInv
    <3> QED BY <1>1, <1>2, <1>3, <3>2, <3>3, <3>4, ListKeeps
  <2> QED BY <2>1, <2>2
<1>6. ClientHonest'
  <2>1. CASE client'.key = client.key /\ client'.api = client.api
    BY <1>1, <1>3, <2>1, ClientStays
  <2>2. CASE client'.key = op.key /\ client'.api = op.api
    BY <1>2, <1>3, <2>2 DEF HonestStays, ClientHonest, Honest, HonestNext
  <2>3. \/ client' = client
        \/ client'.key = client.key /\ client'.api = client.api
        \/ client'.key = op.key /\ client'.api = op.api
    <3>1. client' = client \/ (client.key = op.key /\ GetMe) \/ OpenBundle
      BY DEF GetMe, AddCopy
    <3>2. CASE client.key = op.key /\ GetMe
      BY <1>1, <3>2 DEF GetMe, Types
    <3>3. CASE OpenBundle
      BY <3>3 DEF OpenBundle
    <3> QED BY <3>1, <3>2, <3>3
  <2> QED BY <2>1, <2>2, <2>3
<1> QED BY <1>3, <1>4, <1>file, <1>5, <1>6, EndKeepsApi

LEMMA TerminateKeepsApi ==
  ASSUME CallInv, ApiInv, ListSessions \/ Terminate \/ Terminated
  PROVE  ApiInv'
<1>1. /\ Types /\ ServerHonest /\ ClientHonest /\ AccountsHonest
  BY DEF CallInv, ApiInv
<1>2. /\ UNCHANGED <<desktops, client, file, made, found>>
      /\ call \in {"list", "reset"}
  BY DEF ListSessions, Terminate, Terminated, caller, cloud, login
<1>3. HonestStays
  <2>1. CASE UNCHANGED server
    BY <1>1, <1>2, <2>1, HonestSame
  <2>2. CASE \E k \in op.todo : server' = [server EXCEPT ![k].live = FALSE]
    <3>1. PICK k \in op.todo : server' = [server EXCEPT ![k].live = FALSE]
      BY <2>2
    <3>2. k \in Keys
      BY <1>1, KeyTypes DEF Types
    <3> QED BY <1>1, <1>2, <3>1, <3>2, Ended, KeyTypes, HonestSame
  <2> QED BY <2>1, <2>2 DEF ListSessions, Terminate, TerminateSession, Terminated, cloud
<1>4. ClientHonest' /\ AccountsHonest' /\ FileHonest'
  BY <1>1, <1>2, <1>3, ClientStays, ListKeeps, FileKeeps
<1>5. CASE End
  BY <1>3, <1>4, <1>5, EndKeepsApi
<1>6. CASE call' = "reset" /\ op'.flow = op.flow
  <2>1. CallHonest' /\ OwnerInv'
    BY <1>6 DEF CallHonest, OwnerInv
  <2>2. FileIsFree'
    BY <1>2, <1>6 DEF ApiInv, FileIsFree
  <2> QED BY <1>3, <1>4, <2>1, <2>2 DEF ApiInv, HonestStays
<1>7. End \/ (call' = "reset" /\ op'.flow = op.flow)
  BY <1>1 DEF ListSessions, Terminate, TerminateSession, Terminated, Types
<1> QED BY <1>5, <1>6, <1>7

\* Opening the session file may use its key with another API; nothing holds it.
LEMMA AuthorizeKeepsApi ==
  ASSUME CallInv, ApiInv, Authorize
  PROVE  ApiInv'
<1>1. /\ Types /\ ServerHonest /\ ClientHonest /\ AccountsHonest
  BY DEF CallInv, ApiInv
<1>2. /\ op.key \in 1 .. made /\ op.api \in Apis /\ Honest(op.key, op.api)
      /\ call = "authorize" /\ op.key \in Keys
  <2>1. call = "authorize"
    BY DEF Authorize
  <2> QED BY <1>1, <2>1, KeyTypes DEF CallInv, PlaceInv, Types, ApiInv, CallHonest
<1>3. /\ UNCHANGED <<desktops, file, made>>
      /\ client'.key = client.key /\ client'.api = client.api
  BY <1>1 DEF Authorize, Types
<1>4. CASE Use(op.key, op.api) /\ End
  <2>1. HonestStays
    BY <1>1, <1>2, <1>3, <1>4, HonestUse
  <2>2. AccountsHonest' /\ ClientHonest' /\ FileHonest'
    BY <1>1, <1>2, <1>3, <2>1, ListKeeps, ClientStays, FileKeeps
  <2> QED BY <1>4, <2>1, <2>2, EndKeepsApi
<1> DEFINE opened == IF op.flow = "FromTDesktop" THEN {file} \ {0} ELSE {}
<1>5. CASE /\ server' = [k \in Keys |->
               [server[k] EXCEPT !.with = @ \cup (IF k = op.key THEN {op.api} ELSE {})
                                            \cup (IF k \in opened THEN {Api} ELSE {})]]
           /\ LoginWith(IF opened = {} THEN Nobody ELSE AuthOf(file))
           /\ call' = "login"
           /\ UNCHANGED <<op, calls>>
  <2>1. ASSUME NEW k \in 1 .. made
        PROVE  /\ server'[k].by = server[k].by /\ server'[k].left = server[k].left
               /\ server'[k].with = server[k].with
                    \cup (IF k = op.key THEN {op.api} ELSE {})
                    \cup (IF k \in opened THEN {Api} ELSE {})
    <3>1. k \in Keys /\ server[k] \in [whose : {Me, Stranger}, by : Apis, live : BOOLEAN,
                                       with : SUBSET Apis, left : BOOLEAN]
      BY <1>1, KeyTypes DEF Types
    <3> DEFINE more == (IF k = op.key THEN {op.api} ELSE {})
                       \cup (IF k \in opened THEN {Api} ELSE {})
    <3>2. server'[k] = [server[k] EXCEPT !.with = @ \cup more]
      BY <1>5, <3>1
    <3> HIDE DEF more
    <3>3. /\ server'[k].by = server[k].by /\ server'[k].left = server[k].left
          /\ server'[k].with = server[k].with \cup more
      BY <3>1, <3>2
    <3> QED BY <3>3 DEF more
  <2>2. server[op.key].by = op.api
    BY <1>2 DEF Honest
  <2>3. ServerHonest'
    BY <1>1, <1>3, <2>1, <2>2 DEF ServerHonest
  <2>4. ASSUME NEW k \in 1 .. made, NEW api, Honest(k, api),
               k # file \/ op.flow # "FromTDesktop"
        PROVE  HonestNext(k, api)
    <3>1. /\ k \notin opened /\ server[k].by = api
          /\ server[k].with \subseteq {api} \/ server[k].left
      BY <2>4 DEF Honest
    <3>2. server'[k].by = api /\ (server'[k].with \subseteq {api} \/ server'[k].left)
      BY <2>1, <2>2, <3>1
    <3> QED BY <1>3, <3>2 DEF HonestNext
  <2>5. op.flow = "FromTDesktop" =>
          /\ client.key # 0 => client.key # file
          /\ \A d \in DOMAIN desktops : \A i \in DOMAIN desktops[d].accounts :
               desktops[d].accounts[i].key # file
    BY DEF ApiInv, FileIsFree
  <2>6. AccountsHonest'
    <3>1. ASSUME NEW d \in DOMAIN desktops, NEW i \in DOMAIN desktops[d].accounts
          PROVE  HonestNext(desktops[d].accounts[i].key, desktops[d].api)
      <4>1. desktops[d].accounts[i].key \in 1 .. made
        BY <3>1 DEF CallInv, AccountsFilled
      <4> QED BY <1>1, <2>4, <2>5, <3>1, <4>1 DEF AccountsHonest
    <3> QED BY <1>3, <3>1 DEF AccountsHonest, Honest, HonestNext
  <2>7. ClientHonest'
    <3>1. client.key # 0 => client.key \in 1 .. made /\ Honest(client.key, client.api)
      BY <1>1 DEF Types, ClientHonest
    <3>2. client.key # 0 => HonestNext(client.key, client.api)
      BY <2>4, <2>5, <3>1
    <3> QED BY <1>3, <3>2 DEF ClientHonest, Honest, HonestNext
  <2>8. CallHonest' /\ OwnerInv'
    BY <1>2, <1>3, <1>5 DEF CallHonest, OwnerInv, ApiInv
  <2>9. FileIsFree'
    <3>1. found' = IF opened = {} THEN Nobody ELSE AuthOf(file)
      BY <1>5 DEF LoginWith
    <3>2. file \in {0} \cup 1 .. made
      BY <1>1 DEF Types
    <3>3. found' # Nobody => file # 0 /\ found'[2] = server[file].by
      BY <1>1, <3>1, <3>2, AuthOfTypes
    <3>4. file # 0 => server'[file].by = server[file].by
      BY <2>1, <3>2
    <3> QED BY <1>3, <1>5, <2>5, <3>3, <3>4 DEF FileIsFree
  <2>10. FileHonest'
    <3>1. CASE op.flow = "FromTDesktop"
      BY <1>5, <3>1 DEF FileHonest
    <3>2. CASE op.flow # "FromTDesktop" /\ file # 0
      <4>1. file \in 1 .. made /\ Honest(file, server[file].by)
        BY <1>1, <1>2, <3>2 DEF Types, ApiInv, FileHonest
      <4>2. HonestNext(file, server[file].by) /\ server'[file].by = server[file].by
        BY <2>1, <2>4, <3>2, <4>1
      <4> QED BY <1>3, <4>2 DEF FileHonest, Honest, HonestNext
    <3>3. CASE file = 0
      BY <1>3, <3>3 DEF FileHonest
    <3> QED BY <3>1, <3>2, <3>3
  <2> QED BY <2>3, <2>6, <2>7, <2>8, <2>9, <2>10 DEF ApiInv
<1> QED BY <1>4, <1>5 DEF Authorize

\* The client of a new session is opened with Api, by which its key, new or
\* found in the file, was authorized.
LEMMA EndLoginKeepsApi ==
  ASSUME Retries >= 1, CallInv, ApiInv, EndLogin
  PROVE  ApiInv'
<1>1. /\ Types /\ ServerHonest /\ ClientHonest /\ AccountsHonest /\ AccountsFilled
  BY DEF CallInv, ApiInv
<1>2. /\ made' = IF MakesKey THEN MadeKey ELSE made
      /\ made' \in 1 .. MaxKeys /\ made' >= made
      /\ UNCHANGED desktops /\ call = "login" /\ op.flow # "none"
  BY LoginOutcome DEF EndLogin, CallInv, PlaceInv
<1>3. made \in Nat /\ MadeKey \notin 1 .. made /\ made < MaxKeys
      /\ 1 .. made \subseteq 1 .. made' /\ 1 .. made \subseteq Keys
  BY <1>1, <1>2, KeyTypes DEF MadeKey, CallInv, PlaceInv
<1>4. \A k \in 1 .. made :
        /\ server'[k].by = server[k].by /\ server'[k].with = server[k].with
        /\ server'[k].left = (server[k].left \/ LeftInFile(k))
  BY <1>1, <1>3, LoginRecords
<1>5. MakesKey => /\ made' = MadeKey /\ MadeKey \in 1 .. made'
                  /\ server'[MadeKey].by = Api /\ server'[MadeKey].with = {Api}
                  /\ \A k \in 1 .. made' : k \in 1 .. made \/ k = MadeKey
  <2> SUFFICES ASSUME MakesKey
               PROVE  /\ made' = MadeKey /\ MadeKey \in 1 .. made'
                      /\ server'[MadeKey].by = Api /\ server'[MadeKey].with = {Api}
                      /\ \A k \in 1 .. made' : k \in 1 .. made \/ k = MadeKey
    OBVIOUS
  <2>1. made' = MadeKey /\ MadeKey = made + 1
    BY <1>2 DEF MadeKey
  <2>2. MadeKey \in Keys
    BY <1>3, <2>1, BridgeFacts DEF Keys
  <2>3. server'[MadeKey].by = Api /\ server'[MadeKey].with = {Api}
    BY <1>1, <2>2, LoginRecords
  <2>4. MadeKey \in 1 .. made' /\ \A k \in 1 .. made' : k \in 1 .. made \/ k = MadeKey
    BY <1>3, <2>1
  <2> QED BY <2>1, <2>3, <2>4
<1>6. ServerHonest'
  <2>1. CASE MakesKey
    BY <1>1, <1>4, <1>5, <2>1 DEF ServerHonest
  <2>2. CASE ~MakesKey
    BY <1>1, <1>2, <1>4, <2>2 DEF ServerHonest
  <2> QED BY <2>1, <2>2
<1>7. HonestStays
  BY <1>3, <1>4, <1>6 DEF HonestStays, Honest, HonestNext
<1>8. AccountsHonest'
  BY <1>1, <1>2, <1>7, ListKeeps
<1>9. ClientHonest'
  <2>1. CASE op.flow = "FromTDesktop" /\ result = "client"
    <3>1. client'.key = file' /\ client'.api = Api /\ file' # 0
      BY <2>1, LoginOutcome DEF EndLogin
    <3>2. CASE MakesKey
      <4>1. file' = MadeKey
        BY <2>1, <3>2 DEF EndLogin
      <4> QED BY <1>5, <3>1, <3>2, <4>1 DEF ClientHonest, Honest
    <3>3. CASE ~MakesKey
      <4>1. session \in WithApi /\ session = found /\ session # Nobody
        BY <2>1, <3>3, AuthTypes
           DEF CallInv, LoginInv, TokenInv, Inv, ReturnsAuthorized, MakesKey
      <4>2. file' = file /\ made' = made
        BY <1>2, <2>1, <3>3, <4>1 DEF EndLogin
      <4>3. found[2] = server[file].by /\ found[2] = Api
        BY <1>2, <2>1, <4>1 DEF ApiInv, FileIsFree, WithApi
      <4>4. file \in 1 .. made
        BY <1>1, <3>1, <4>2 DEF Types
      <4>5. Honest(file, Api)
        BY <1>1, <4>3, <4>4 DEF ServerHonest, Honest
      <4>6. HonestNext(file, Api)
        BY <1>7, <4>4, <4>5, BridgeFacts DEF HonestStays
      <4> QED BY <3>1, <4>2, <4>6 DEF ClientHonest, Honest, HonestNext
    <3> QED BY <3>2, <3>3
  <2>2. CASE ~(op.flow = "FromTDesktop" /\ result = "client")
    <3>1. client' = client
      BY <2>2 DEF EndLogin
    <3> QED BY <1>1, <1>7, <3>1, ClientStays
  <2> QED BY <2>1, <2>2
<1>file. FileHonest'
  <2>1. CASE op.flow # "FromTDesktop"
    <3>1. file' = file
      BY <2>1 DEF EndLogin
    <3> QED BY <1>7, <2>1, <3>1, FileKeeps
  <2>2. CASE op.flow = "FromTDesktop" /\ MakesKey
    <3>1. file' = MadeKey
      BY <2>2 DEF EndLogin
    <3> QED BY <1>5, <2>2, <3>1 DEF FileHonest, Honest
  <2>3. CASE op.flow = "FromTDesktop" /\ ~MakesKey /\ session = Nobody
    <3>1. file' = 0
      BY <2>3 DEF EndLogin
    <3> QED BY <3>1 DEF FileHonest
  <2>4. CASE op.flow = "FromTDesktop" /\ ~MakesKey /\ session # Nobody
    <3>1. file' = file /\ token # "used" /\ session = found
      BY <2>4 DEF EndLogin, MakesKey, CallInv, LoginInv, TokenInv
    <3>2. file \in 1 .. made /\ found[2] = server[file].by
      BY <1>1, <1>2, <2>4, <3>1 DEF ApiInv, FileIsFree, Types
    <3>3. CASE result = "client"
      <4>1. found[2] = Api
        BY <3>1, <3>3, AuthTypes DEF CallInv, LoginInv, Inv, ReturnsAuthorized, WithApi
      <4>2. server'[file].by = Api /\ server'[file].with \subseteq {Api}
        BY <1>1, <1>4, <3>2, <4>1 DEF ServerHonest
      <4> QED BY <1>3, <3>1, <3>2, <4>2 DEF FileHonest, Honest
    <3>4. CASE result # "client" /\ server[file].by # Api
      <4>1. server'[file].left
        BY <1>4, <2>4, <3>1, <3>2, <3>4 DEF LeftInFile
      <4> QED BY <1>3, <3>1, <3>2, <4>1 DEF FileHonest, Honest
    <3>5. CASE server[file].by = Api
      <4>1. server'[file].by = Api /\ server'[file].with \subseteq {Api}
        BY <1>1, <1>4, <3>2, <3>5 DEF ServerHonest
      <4> QED BY <1>3, <3>1, <3>2, <4>1 DEF FileHonest, Honest
    <3> QED BY <3>3, <3>4, <3>5
  <2> QED BY <2>1, <2>2, <2>3, <2>4
<1>10. CASE op.flow # "FromTDesktop" /\ result = "client"
  <2>1. op.flow = "FromTelethon" /\ MakesKey
    <3>1. op.flow = "FromTelethon"
      BY <1>1, <1>2, <1>10 DEF Types
    <3> QED BY <1>10, <3>1, LoginOutcome
  <2>2. call' = "copy" /\ op' = [op EXCEPT !.key = MadeKey, !.api = Api]
    BY <1>10 DEF EndLogin
  <2>3. op'.key = MadeKey /\ op'.api = Api /\ op'.into = op.into /\ op'.flow = op.flow
    BY <1>1, <2>2 DEF Types
  <2>4. CallHonest'
    BY <1>5, <2>1, <2>2, <2>3 DEF CallHonest, Honest
  <2>5. OwnerInv'
    BY <1>2, <2>1, <2>2, <2>3 DEF ApiInv, OwnerInv
  <2>6. FileIsFree'
    BY <2>1, <2>3 DEF FileIsFree
  <2> QED BY <1>6, <1>8, <1>9, <1>file, <2>4, <2>5, <2>6 DEF ApiInv
<1>11. CASE ~(op.flow # "FromTDesktop" /\ result = "client")
  <2>1. End
    BY <1>11 DEF EndLogin
  <2> QED BY <1>7, <1>8, <1>9, <1>file, <2>1, EndKeepsApi
<1> QED BY <1>10, <1>11

LEMMA ApiInit == BridgeInit => ApiInv
<1> SUFFICES ASSUME BridgeInit PROVE ApiInv
  OBVIOUS
<1>1. PICK api \in Apis, auth \in Auths \cup {Nobody} :
        /\ desktops = <<[api |-> api, accounts |-> <<NewAccount(1, api, 0)>>]>>
        /\ file = IF auth = Nobody THEN 0 ELSE 2
        /\ made = IF auth = Nobody THEN 1 ELSE 2
        /\ server = [k \in Keys |->
             CASE k = 1 -> [whose |-> Me, by |-> api, live |-> TRUE, with |-> {api},
                         left |-> FALSE]
               [] k = 2 /\ auth # Nobody ->
                    [whose |-> auth[1], by |-> auth[2], live |-> TRUE, with |-> {auth[2]},
                    left |-> FALSE]
               [] OTHER -> [whose |-> Me, by |-> Api, live |-> FALSE, with |-> {},
                             left |-> FALSE]]
  BY DEF BridgeInit
<1>2. server[1].by = api /\ server[1].with = {api}
  BY <1>1, BridgeFacts
<1>3. auth # Nobody => server[2].by = auth[2] /\ server[2].with = {auth[2]}
  BY <1>1, BridgeFacts
<1>4. ServerHonest
  <2>1. \A k \in 1 .. made : k = 1 \/ (k = 2 /\ auth # Nobody)
    BY <1>1
  <2> QED BY <1>2, <1>3, <2>1 DEF ServerHonest
<1>5. AccountsHonest
  <2> DEFINE account == NewAccount(1, api, 0)
             desktop == [api |-> api, accounts |-> <<account>>]
  <2>1. account.key = 1
    BY DEF NewAccount
  <2> HIDE DEF account
  <2>2. /\ desktop.api = api /\ DOMAIN desktop.accounts = {1}
        /\ desktop.accounts[1] = account
    OBVIOUS
  <2> HIDE DEF desktop
  <2>3. desktops = <<desktop>>
    BY <1>1 DEF desktop, account
  <2>4. DOMAIN desktops = {1} /\ desktops[1] = desktop
    BY <2>3
  <2>5. Honest(1, api)
    <3>1. 1 \in 1 .. made
      <4>1. made = 1 \/ made = 2
        BY <1>1
      <4> QED BY <4>1
    <3> QED BY <1>2, <3>1 DEF Honest
  <2> QED BY <2>1, <2>2, <2>4, <2>5 DEF AccountsHonest
<1>6. FileHonest
  <2>1. file # 0 => file = 2 /\ auth # Nobody /\ made = 2
    BY <1>1
  <2> QED BY <1>3, <2>1 DEF FileHonest, Honest
<1> QED BY <1>4, <1>5, <1>6
       DEF BridgeInit, NoClient, NoOp, ApiInv, ClientHonest, CallHonest, OwnerInv, FileIsFree

LEMMA ApiNext ==
  ASSUME Uses = {}, Retries >= 1, CallInv, ApiInv, [BridgeNext]_bridgeVars
  PROVE  ApiInv'
<1>1. CASE CallStep
  BY <1>1, OutsideKeepsApi, EndLoginKeepsApi, AnswersKeepApi, AuthorizeKeepsApi,
     TerminateKeepsApi DEF CallStep
<1>2. CASE Calls
  BY <1>2, UseKeepsApi, BeginningsKeepApi DEF Calls
<1>3. CASE ConnectClient \/ \E k \in Keys : Revoke(k)
  BY <1>3, OutsideKeepsApi
<1>4. CASE UNCHANGED bridgeVars
  BY <1>4 DEF bridgeVars, login, caller, cloud, ApiInv, AccountsHonest, ClientHonest, CallHonest,
       ServerHonest, OwnerInv, FileIsFree, FileHonest, Honest
<1> QED BY <1>1, <1>2, <1>3, <1>4 DEF BridgeNext

\* When no TDesktop of another API and no file in use is given to
\* CreateNewSession, and request_retries is one or more: a session that an
\* account or the client holds was used with no API that did not authorize it,
\* but for one that a CreateNewSession which raised has left in its file after
\* opening it with the new API.
THEOREM OneApi == Uses = {} /\ Retries >= 1 /\ BridgeSpec => []OneApiPerSession
<1>1. ASSUME Uses = {}, Retries >= 1
      PROVE  ApiInv /\ CallInv /\ [BridgeNext]_bridgeVars => ApiInv'
  BY <1>1, ApiNext
<1>2. CallInv /\ ApiInv => OneApiPerSession
  <2> SUFFICES ASSUME ApiInv, NEW k \in Held
               PROVE  server[k].with \subseteq {server[k].by} \/ server[k].left
    BY DEF OneApiPerSession
  <2>1. \A api : Honest(k, api) => server[k].with \subseteq {server[k].by} \/ server[k].left
    BY DEF Honest
  <2>2. CASE k \in HeldBy(desktops)
    BY <2>1, <2>2 DEF ApiInv, AccountsHonest, HeldBy
  <2>3. CASE k = client.key /\ k # 0
    BY <2>1, <2>3 DEF ApiInv, ClientHonest
  <2> QED BY <2>2, <2>3 DEF Held
<1>3. ASSUME Uses = {}, Retries >= 1 PROVE BridgeSpec => []OneApiPerSession
  BY <1>1, <1>2, <1>3, ApiInit, CallsSafe, PTL DEF BridgeSpec
<1> QED BY <1>3
=============================================================================
