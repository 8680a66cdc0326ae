------------------------------ MODULE Accounts ------------------------------
(***************************************************************************)
(* The account saga of the Socialat backend.  A user exists in three       *)
(* stores that no transaction spans: the auth microservice (who may log    *)
(* in), the PDS (the hosted account, behind a password the backend drew at *)
(* random) and the backend's own pds_users table, the only place where     *)
(* that password is kept.  The handlers of webserver/api_auth.go walk from *)
(* one store to the next, one remote call at a time; many run at once, any *)
(* call may fail before or after it took effect, and the process may die   *)
(* between two calls.                                                      *)
(*                                                                         *)
(* A request is a goroutine: req[r].pc names the call it makes next.       *)
(***************************************************************************)
EXTENDS Naturals, Sequences

CONSTANTS
    Requests,     \* HTTP requests the server will ever receive
    Usernames,
    SessionKeys,  \* keys of passkey-registration ceremonies
    Passwords,    \* results of utils.RandSeq(16); two draws may coincide
    Dids,
    Codes,        \* invite codes
    Canon,        \* the PDS's canonical spelling of each user name
    PdsServer,    \* conf.PdsServer: its text, its "http" prefix, its "//" parts
    Responsive,   \* requests whose remote calls do not hang
    RefusalsName, \* whether a reply with the error flag may carry token and user
    None

ServerName == IF PdsServer.http /\ Len(PdsServer.parts) > 1
              THEN PdsServer.parts[2] ELSE PdsServer.text

GetHandleFromUsername(username) == [name |-> username, host |-> ServerName]

Handles == {GetHandleFromUsername(u) : u \in Usernames}

\* The PDS stores and compares handles in canonical form.
PdsHandle(h) == GetHandleFromUsername(Canon[h.name])

\* The zero value of PdsUser.Password, which no random draw returns.
Blank == ""

Creators == {"register", "passkeyFinish"}
Openers == {"login", "assertion"}

Account == [password : Passwords, did : Dids, code : Codes]

Request == [op       : Creators \cup Openers \cup {"none"},
            pc       : {"idle", "auth", "invite", "account", "row",
                        "lookup", "connect", "done", "lost"},
            user     : Usernames \cup {None},
            key      : SessionKeys \cup {None},
            code     : Codes \cup {None},
            password : Passwords \cup {Blank, None},
            did      : Dids \cup {None},
            authed   : BOOLEAN,
            fault    : BOOLEAN,
            answer   : {"none", "ok", "error", "notFound"}]

ASSUME CanonAssumption ==
    /\ Canon \in [Usernames -> Usernames]
    /\ \A u \in Usernames : Canon[Canon[u]] = Canon[u]

ASSUME ResponsiveAssumption == Responsive \subseteq Requests

ASSUME RefusalsNameAssumption == RefusalsName \in BOOLEAN

ASSUME NoneAssumption ==
    /\ None \notin Usernames \cup SessionKeys \cup Codes \cup Dids
    /\ {"unused", "closed"} \cap Usernames = {}
    /\ None \notin Passwords \cup {Blank}
    /\ None \notin Account
    /\ Blank \notin Passwords

VARIABLES
    users,      \* auth service: the credential kinds registered per user name
    ceremony,   \* auth service: the passkey-registration sessions
    invites,    \* PDS: the state of each invite code
    accounts,   \* PDS: the hosted account of each canonical handle
    rows,       \* the pds_users table, unique on handle
    req

vars == <<users, ceremony, invites, accounts, rows, req>>

TypeOK ==
    /\ users \in [Usernames -> SUBSET {"password", "passkey"}]
    /\ ceremony \in [SessionKeys -> Usernames \cup {"unused", "closed"}]
    /\ invites \in [Codes -> {"unminted", "open", "spent"}]
    /\ accounts \in [Handles -> Account \cup {None}]
    /\ rows \in [Handles -> Account \cup {None}]
    /\ req \in [Requests -> Request]

Idle == [op |-> "none", pc |-> "idle", user |-> None, key |-> None,
         code |-> None, password |-> None, did |-> None,
         authed |-> FALSE, fault |-> FALSE, answer |-> "none"]

Init ==
    /\ users = [u \in Usernames |-> {}]
    /\ ceremony = [k \in SessionKeys |-> "unused"]
    /\ invites = [c \in Codes |-> "unminted"]
    /\ accounts = [h \in Handles |-> None]
    /\ rows = [h \in Handles |-> None]
    /\ req = [r \in Requests |-> Idle]
-----------------------------------------------------------------------------
Running(r) == req[r].pc \notin {"idle", "done", "lost"}

Answer(r, a) == [req[r] EXCEPT !.pc = "done", !.answer = a]

\* Every remote error ends the handler with utils.Response(w, 500, err, nil).
Failed(r) == [Answer(r, "error") EXCEPT !.fault = TRUE]

\* A call that took effect: its reply is heard, or it is lost or unusable.
Reply(r, next) == \E heard \in BOOLEAN :
    req' = [req EXCEPT ![r] = IF heard THEN next ELSE Failed(r)]

HandleOf(r) == GetHandleFromUsername(req[r].user)
-----------------------------------------------------------------------------
(* Requests arrive, and ceremonies are begun and cancelled.                *)

Arrive(r, op, u, k) ==
    /\ req[r].pc = "idle"
    /\ req' = [req EXCEPT ![r] =
                 [Idle EXCEPT !.op = op, !.user = u, !.key = k, !.pc = "auth"]]
    /\ UNCHANGED <<users, ceremony, invites, accounts, rows>>

Receive(r) ==
    \/ \E u \in Usernames, op \in {"register", "login", "assertion"} :
         Arrive(r, op, u, None)
    \/ \E k \in SessionKeys : /\ ceremony[k] # "unused"
                              /\ Arrive(r, "passkeyFinish", None, k)

\* A body that does not decode or validate, or an empty e-mail.
RejectForm(r) ==
    /\ req[r].pc = "idle"
    /\ \E op \in {"register", "login", "passkeyFinish"} :
         req' = [req EXCEPT ![r] = [Idle EXCEPT !.op = op, !.pc = "done",
                                                !.answer = "error"]]
    /\ UNCHANGED <<users, ceremony, invites, accounts, rows>>

StartPasskeyRegister(u, k) ==
    /\ ceremony[k] = "unused"
    /\ ceremony' = [ceremony EXCEPT ![k] = u]
    /\ UNCHANGED <<users, invites, accounts, rows, req>>

CancelPasskeyRegister(k) ==
    /\ ceremony[k] \in Usernames
    /\ ceremony' = [ceremony EXCEPT ![k] = "closed"]
    /\ UNCHANGED <<users, invites, accounts, rows, req>>
-----------------------------------------------------------------------------
(* The auth call that opens every handler.                                 *)

RegisterByPassword(u) ==
    /\ users[u] = {}
    /\ users' = [users EXCEPT ![u] = {"password"}]
    /\ UNCHANGED ceremony

\* Closes the ceremony and adds the passkey, to a new user or to one that
\* already has a password.
FinishRegistrationHandler(k) ==
    /\ ceremony[k] \in Usernames
    /\ users' = [users EXCEPT ![ceremony[k]] = @ \cup {"passkey"}]
    /\ ceremony' = [ceremony EXCEPT ![k] = "closed"]

LoginByPassword(u) == "password" \in users[u] /\ UNCHANGED <<users, ceremony>>

AssertionResultHandler(u) == "passkey" \in users[u] /\ UNCHANGED <<users, ceremony>>

\* The call of each handler, and the user the service names in its reply.
AuthCall(r, u) ==
    \/ req[r].op = "register" /\ u = req[r].user /\ RegisterByPassword(u)
    \/ /\ req[r].op = "passkeyFinish"
       /\ u = ceremony[req[r].key]
       /\ FinishRegistrationHandler(req[r].key)
    \/ req[r].op = "login" /\ u = req[r].user /\ LoginByPassword(u)
    \/ req[r].op = "assertion" /\ u = req[r].user /\ AssertionResultHandler(u)

\* Mutant: register-finish stops where register-transfer-finish does.
AuthAcceptsAsTransfer(r) ==
    /\ req[r].pc = "auth"
    /\ \E u \in Usernames :
         /\ AuthCall(r, u)
         /\ Reply(r, CASE req[r].op = "register" ->
                        [req[r] EXCEPT !.authed = TRUE, !.pc = "invite"]
                      [] req[r].op = "passkeyFinish" ->
                        [Answer(r, "ok") EXCEPT !.user = u, !.authed = TRUE]
                      [] OTHER ->
                        [req[r] EXCEPT !.authed = TRUE, !.pc = "lookup"])
    /\ UNCHANGED <<invites, accounts, rows>>

\* The handler has token and user, and goes on to the PDS.
Accepted(q, u) == [q EXCEPT !.user = u, !.authed = TRUE,
                     !.pc = IF q.op \in Creators THEN "invite" ELSE "lookup"]

AuthAccepts(r) ==
    /\ req[r].pc = "auth"
    /\ \E u \in Usernames : AuthCall(r, u) /\ Reply(r, Accepted(req[r], u))
    /\ UNCHANGED <<invites, accounts, rows>>

\* Mutant: register asks for neither field, and goes on with the form's name.
AuthRefusesUnheard(r) ==
    /\ req[r].pc = "auth"
    /\ req' = [req EXCEPT ![r] =
                 IF req[r].op = "register" THEN [@ EXCEPT !.authed = TRUE, !.pc = "invite"]
                                           ELSE Answer(r, "error")]
    /\ UNCHANGED <<users, ceremony, invites, accounts, rows>>

\* Wrong password, taken name, closed ceremony, failed attestation.  The handler
\* ends because the fields are missing; only register-finish asks for the error
\* flag, and a refusal that names token and user passes for a success elsewhere.
AuthRefuses(r) ==
    /\ req[r].pc = "auth"
    /\ \/ req' = [req EXCEPT ![r] = Answer(r, "error")]
       \/ /\ RefusalsName
          /\ req[r].op # "passkeyFinish"
          /\ req' = [req EXCEPT ![r] = Accepted(req[r], req[r].user)]
    /\ UNCHANGED <<users, ceremony, invites, accounts, rows>>

\* The same RPC for a passkey transfer, which stops here: no PDS account.
FinishPasskeyTransferRegister(k) ==
    /\ FinishRegistrationHandler(k)
    /\ UNCHANGED <<invites, accounts, rows, req>>
-----------------------------------------------------------------------------
(* CreateBlueskyPdsAccount.                                                *)

CreateInviteCode(r) ==
    /\ req[r].pc = "invite"
    /\ \E c \in Codes :
         /\ invites[c] = "unminted"
         /\ invites' = [invites EXCEPT ![c] = "open"]
         /\ Reply(r, [req[r] EXCEPT !.code = c, !.pc = "account"])
    /\ UNCHANGED <<users, ceremony, accounts, rows>>

FreshDids == Dids \ {accounts[h].did : h \in {g \in Handles : accounts[g] # None}}

HandleTaken(h) == accounts[h] # None

CreateAccount(r) ==
    LET h == PdsHandle(HandleOf(r)) IN
    /\ req[r].pc = "account"
    /\ ~HandleTaken(h)
    /\ invites[req[r].code] = "open"
    /\ \E p \in Passwords, d \in FreshDids :
         /\ accounts' = [accounts EXCEPT ![h] =
                           [password |-> p, did |-> d, code |-> req[r].code]]
         /\ Reply(r, [req[r] EXCEPT !.password = p, !.did = d, !.pc = "row"])
    /\ invites' = [invites EXCEPT ![req[r].code] = "spent"]
    /\ UNCHANGED <<users, ceremony, rows>>

\* Mutant: no return after the refusal; the row is saved regardless.
CreateAccountRefusedUnheard(r) ==
    /\ req[r].pc = "account"
    /\ HandleTaken(PdsHandle(HandleOf(r)))
    /\ \E p \in Passwords, d \in Dids :
         req' = [req EXCEPT ![r] = [@ EXCEPT !.password = p, !.did = d, !.pc = "row"]]
    /\ UNCHANGED <<users, ceremony, invites, accounts, rows>>

\* Mutant: the handler asks again until the handle is free.
CreateAccountRetried(r) ==
    /\ req[r].pc = "account"
    /\ HandleTaken(PdsHandle(HandleOf(r)))
    /\ UNCHANGED vars

CreateAccountRefused(r) ==
    /\ req[r].pc = "account"
    /\ HandleTaken(PdsHandle(HandleOf(r)))
    /\ req' = [req EXCEPT ![r] = Answer(r, "error")]
    /\ UNCHANGED <<users, ceremony, invites, accounts, rows>>

\* Mutant: the Password field is left out of the saved struct.
StoredUserUnkeyed(r) == [password |-> Blank, did |-> req[r].did, code |-> req[r].code]

\* The PdsUser the handler saves; its key is accountRes.Handle.
StoredUser(r) == [password |-> req[r].password, did |-> req[r].did,
                  code |-> req[r].code]

CreatePdsUser(r) ==
    LET h == PdsHandle(HandleOf(r)) IN
    /\ req[r].pc = "row"
    /\ rows[h] = None
    /\ rows' = [rows EXCEPT ![h] = StoredUser(r)]
    /\ Reply(r, Answer(r, "ok"))
    /\ UNCHANGED <<users, ceremony, invites, accounts>>
-----------------------------------------------------------------------------
(* The tail of login and AssertionResult.                                  *)

\* Mutant: the query has lost its Where clause.
GetAnyPdsUser(r) ==
    /\ req[r].pc = "lookup"
    /\ \E h \in Handles :
         /\ rows[h] # None
         /\ req' = [req EXCEPT ![r] = [@ EXCEPT !.pc = "connect",
                                                !.password = rows[h].password]]
    /\ UNCHANGED <<users, ceremony, invites, accounts, rows>>

\* gorm's Find leaves the struct blank when no row matches, and reports no
\* error: the ErrRecordNotFound branch of the code is never taken.
GetPdsUserByHandle(r) ==
    LET row == rows[HandleOf(r)] IN
    /\ req[r].pc = "lookup"
    /\ req' = [req EXCEPT ![r] =
                 [req[r] EXCEPT !.pc = "connect",
                    !.password = IF row # None THEN row.password ELSE Blank]]
    /\ UNCHANGED <<users, ceremony, invites, accounts, rows>>

Opens(h, password) == /\ accounts[PdsHandle(h)] # None
                      /\ accounts[PdsHandle(h)].password = password

Connect(r) ==
    /\ req[r].pc = "connect"
    /\ req' = [req EXCEPT ![r] =
                 IF Opens(HandleOf(r), req[r].password)
                 THEN [Answer(r, "ok") EXCEPT
                         !.did = accounts[PdsHandle(HandleOf(r))].did]
                 ELSE Answer(r, "error")]
    /\ UNCHANGED <<users, ceremony, invites, accounts, rows>>
-----------------------------------------------------------------------------
(* Failures.                                                               *)

\* Mutant: the error of the insert is logged but not returned.
CallFailsUnheard(r) ==
    /\ Running(r)
    /\ req' = [req EXCEPT ![r] = IF req[r].pc = "row" THEN Answer(r, "ok") ELSE Failed(r)]
    /\ UNCHANGED <<users, ceremony, invites, accounts, rows>>

\* The next call fails and changes nothing: a refused connection, a cancelled
\* request context, a rejected admin token, a unique-index conflict.
CallFails(r) ==
    /\ Running(r)
    /\ req' = [req EXCEPT ![r] = Failed(r)]
    /\ UNCHANGED <<users, ceremony, invites, accounts, rows>>

\* The process dies: what its goroutines had not yet written is gone.
Crash ==
    /\ \E r \in Requests : Running(r)
    /\ req' = [r \in Requests |->
                 IF Running(r) THEN [req[r] EXCEPT !.pc = "lost", !.fault = TRUE]
                               ELSE req[r]]
    /\ UNCHANGED <<users, ceremony, invites, accounts, rows>>
-----------------------------------------------------------------------------
(* The handlers, each a walk through the calls above.                      *)

CreateBlueskyPdsAccount(r) ==
    CreateInviteCode(r) \/ CreateAccount(r) \/ CreateAccountRefused(r) \/ CreatePdsUser(r)

register(r) ==
    /\ req[r].op = "register"
    /\ AuthAccepts(r) \/ AuthRefuses(r) \/ CreateBlueskyPdsAccount(r)

FinishPasskeyRegister(r) ==
    /\ req[r].op = "passkeyFinish"
    /\ AuthAccepts(r) \/ AuthRefuses(r) \/ CreateBlueskyPdsAccount(r)

login(r) ==
    /\ req[r].op = "login"
    /\ AuthAccepts(r) \/ AuthRefuses(r) \/ GetPdsUserByHandle(r) \/ Connect(r)

AssertionResult(r) ==
    /\ req[r].op = "assertion"
    /\ AuthAccepts(r) \/ AuthRefuses(r) \/ GetPdsUserByHandle(r) \/ Connect(r)

\* A running handler whose next remote call is served.
Step(r) == register(r) \/ FinishPasskeyRegister(r) \/ login(r) \/ AssertionResult(r)

Next ==
    \/ \E r \in Requests : Receive(r) \/ RejectForm(r) \/ Step(r) \/ CallFails(r)
    \/ \E u \in Usernames, k \in SessionKeys : StartPasskeyRegister(u, k)
    \/ \E k \in SessionKeys : \/ CancelPasskeyRegister(k)
                              \/ FinishPasskeyTransferRegister(k)
    \/ Crash

Spec == Init /\ [][Next]_vars

\* The remote side serves the calls of the requests in Responsive; nothing is
\* assumed of the others, whose calls may hang: no client here has a timeout.
FairSpec == Spec /\ \A r \in Responsive : WF_vars(Step(r))
-----------------------------------------------------------------------------
(* Properties.                                                             *)

CreatesFor(r, h) == /\ req[r].op \in Creators
                    /\ req[r].authed
                    /\ PdsHandle(HandleOf(r)) = h

\* A saved row is the key to a live account: the PDS account of that handle
\* exists, and its password, DID and invite code are the saved ones.
\* (CreateBlueskyPdsAccount writes the two stores in two separate calls.)
RowOpensAccount ==
    \A h \in Handles : rows[h] # None => rows[h] = accounts[h]

\* Every hosted account belongs to a user of the auth service: no failure
\* leaves a PDS account, which uses up its handle, without a login.  (Unless
\* refusals name users: then register hosts whom the service has refused.)
NoAccountWithoutUser ==
    \A h \in Handles : accounts[h] # None =>
        \E u \in Usernames : /\ PdsHandle(GetHandleFromUsername(u)) = h
                             /\ users[u] # {}

\* A registration reported as successful is complete and stays so: the row
\* this very request saved is in the table, and opens the account.
SuccessIsDurable ==
    \A r \in Requests : req[r].op \in Creators /\ req[r].answer = "ok" =>
        LET h == PdsHandle(HandleOf(r)) IN
        /\ ~RefusalsName => users[req[r].user] # {}
        /\ rows[h] = StoredUser(r)
        /\ accounts[h] = StoredUser(r)

\* Who registered can log in, if the PDS spells the name as the user does, and
\* only then: the row is kept under the handle the PDS answered with, and looked
\* up under the one computed from the user name.  So a login that looks its row
\* up after a registration of the same name was answered with success takes away
\* the password of the account exactly if the two spellings agree.
RegisteredCanLogIn ==
    [][\A r, m \in Requests :
         /\ req[m].op \in Creators
         /\ req[m].answer = "ok"
         /\ req[r].user = req[m].user
         /\ req[r].pc = "lookup"
         /\ req'[r].pc = "connect"
         => (Opens(HandleOf(r), req'[r].password) <=> Canon[req[m].user] = req[m].user)]_vars

\* The account a login opens is the one that a registration of the same
\* canonical user name created, whichever requests ran in between.
LoginOpensOwnAccount ==
    \A r \in Requests : req[r].op \in Openers /\ req[r].answer = "ok" =>
        \E m \in Requests : /\ CreatesFor(m, PdsHandle(HandleOf(r)))
                            /\ req[m].did = req[r].did
                            /\ req[m].did # None

\* A login that the auth service accepted and that met no fault can only fail
\* because no row was there: a row, once found, always opens its account.
FoundRowLogsIn ==
    \A r \in Requests :
        /\ req[r].op \in Openers
        /\ req[r].authed
        /\ req[r].answer = "error"
        /\ ~req[r].fault
        => req[r].password = Blank

\* Without faults nobody is stranded: when the registrations for a handle have
\* all ended and none of them met a fault, the handle has its row.
FaultFreeNotStranded ==
    \A h \in Handles :
        /\ \E r \in Requests : CreatesFor(r, h)
        /\ \A r \in Requests : CreatesFor(r, h) => ~req[r].fault /\ ~Running(r)
        => rows[h] # None

\* Some running registration still knows the password of the account.
Holds(r, h) == req[r].pc = "row" /\ PdsHandle(HandleOf(r)) = h

\* Nothing repairs an account whose password was lost before it was saved: a
\* retry of the registration, under any name, never gives it a row.
Orphaned(h) ==
    /\ accounts[h] # None
    /\ rows[h] = None
    /\ ~ \E r \in Requests : Holds(r, h)

OrphanIsPermanent == [][\A h \in Handles : Orphaned(h) => Orphaned(h)']_vars

\* The saga implements the life cycle of AccountLifecycle, handle by handle.
StageOf(h) == CASE accounts[h] = None -> "free"
                [] accounts[h] # None /\ rows[h] # None -> "recorded"
                [] Orphaned(h) -> "abandoned"
                [] OTHER -> "hosted"

ToldHandles == {PdsHandle(HandleOf(r)) : r \in {q \in Requests : req[q].answer = "ok"}}

Lifecycle == INSTANCE AccountLifecycle WITH
                 Handle <- Handles,
                 stage <- [h \in Handles |-> StageOf(h)],
                 told <- ToldHandles

ImplementsLifecycle == Lifecycle!Spec

\* No handler waits for another, and none is stuck: a request whose own calls
\* are served ends, though others hang forever holding half-made accounts.
NoRequestStuck == \A r \in Responsive : Running(r) ~> ~Running(r)

\* What pdsuser.go:14-15 announces ("pds user not found", ErrorNotFound): an
\* accepted login whose user has no row is answered with "not found".
MissingRowIsNotFound ==
    \A r \in Requests :
        /\ req[r].op \in Openers
        /\ req[r].authed
        /\ req[r].pc = "done"
        /\ ~req[r].fault
        /\ req[r].password = Blank
        => req[r].answer = "notFound"
=============================================================================
