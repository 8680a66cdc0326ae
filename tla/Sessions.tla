------------------------------ MODULE Sessions ------------------------------
(***************************************************************************)
(* Logged-in requests: the login middleware, get-pds-session and            *)
(* get-timeline.  A client keeps two credentials, which end independently:  *)
(* a login token of the auth service, checked on every request, and a       *)
(* session of the PDS, which get-pds-session returns if the PDS still       *)
(* accepts it and otherwise replaces, with the password of the user's row.  *)
(* Nobody compares the two: the token may name one user, and the session be *)
(* another's.                                                              *)
(*                                                                         *)
(* The module is composed with AccountLifecycle, which the account saga     *)
(* implements: users register, or are stranded, while requests run.         *)
(***************************************************************************)
CONSTANTS
    Users,     \* user names, as the auth service spells them
    Canon,     \* the PDS's canonical spelling of each
    Tokens, Jwts, Requests, None

ASSUME CanonAssumption ==
    /\ Canon \in [Users -> Users]
    /\ \A u \in Users : Canon[Canon[u]] = Canon[u]

ASSUME NoneAssumption ==
    /\ None \notin Users \cup Jwts
    /\ {"garbled", "none", "error", "refused", "feed"} \cap (Jwts \cup {None}) = {}

VARIABLES
    stage,   \* AccountLifecycle: where each PDS account stands
    logins,  \* auth service: the user of each login token, and its state
    pds,     \* PDS: the account of each session some client knows, and its state
    req

vars == <<stage, logins, pds, req>>

\* Accounts are named by the user name in their handle, as the PDS spells it;
\* so are the rows, which are saved under the handle the PDS answered with.
Accounts == {Canon[u] : u \in Users}

Rows == {a \in Accounts : stage[a] = "recorded"}

Lifecycle == INSTANCE AccountLifecycle WITH Handle <- Accounts, told <- Rows

\* "aged": aliveSessionHours have passed, the auth service still accepts it.
TokenState == {"unissued", "live", "aged", "dead"}

Claims == [user : Users \cup {None}, jwt : Jwts \cup {None}]

Blank == [user |-> None, jwt |-> None]

Request == [op       : {"none", "session", "timeline"},
            pc       : {"idle", "check", "validate", "lookup", "connect",
                        "timeline", "done", "lost"},
            token    : Tokens \cup {None},
            pdsJwt   : Jwts \cup {None, "garbled"},
            claims   : Claims,
            row      : Accounts \cup {None},
            fault    : BOOLEAN,
            answer   : Jwts \cup {"none", "error", "refused", "feed"},
            \* history: what held when the request arrived
            arrived  : TokenState,
            fresh    : BOOLEAN,
            recorded : BOOLEAN]

TypeOK ==
    /\ stage \in [Accounts -> Lifecycle!Stages]
    /\ logins \in [Tokens -> [user : Users \cup {None}, state : TokenState]]
    /\ pds \in [Jwts -> [user : Accounts \cup {None},
                         state : {"none", "live", "expired"}]]
    /\ req \in [Requests -> Request]

Idle == [op |-> "none", pc |-> "idle", token |-> None, pdsJwt |-> None,
         claims |-> Blank, row |-> None, fault |-> FALSE, answer |-> "none",
         arrived |-> "unissued", fresh |-> FALSE, recorded |-> FALSE]

Init ==
    /\ Lifecycle!Init
    /\ logins = [t \in Tokens |-> [user |-> None, state |-> "unissued"]]
    /\ pds = [j \in Jwts |-> [user |-> None, state |-> "none"]]
    /\ req = [r \in Requests |-> Idle]
-----------------------------------------------------------------------------
Accepts(t) == logins[t].state \in {"live", "aged"}

Alive(j) == j # None /\ pds[j].state = "live"

Running(r) == req[r].pc \notin {"idle", "done", "lost"}

Answer(q, a) == [q EXCEPT !.pc = "done", !.answer = a]

\* The request ends unserved, by a fault, a refusal or a crash, and its history
\* is of no more interest.
Failed(q) == [Idle EXCEPT !.op = q.op, !.pc = "done", !.answer = "error",
                          !.fault = TRUE]
Refused == [Idle EXCEPT !.pc = "done", !.answer = "refused"]
Lost == [Idle EXCEPT !.pc = "lost", !.fault = TRUE]

Becomes(r, q) == req' = [req EXCEPT ![r] = q]

NewSession(j, u) ==
    /\ pds[j].state = "none"
    /\ pds' = [pds EXCEPT ![j] = [user |-> u, state |-> "live"]]
-----------------------------------------------------------------------------
(* The world around the requests.                                          *)

\* A registration advances, or fails (module Accounts).
AccountStep ==
    /\ \/ \E a \in Accounts : Lifecycle!Host(a) \/ Lifecycle!Record(a)
       \/ \E A \in SUBSET Accounts : Lifecycle!Abandon(A)
    /\ UNCHANGED <<logins, pds, req>>

NewToken(t, u) ==
    /\ logins[t].state = "unissued"
    /\ logins' = [logins EXCEPT ![t] = [user |-> u, state |-> "live"]]

\* A registration ends well: it saves its row, and answers with a token and a
\* session of the account it created.
Register(u, t) ==
    /\ NewToken(t, u)
    /\ Lifecycle!Record(Canon[u])
    /\ \E j \in Jwts : NewSession(j, Canon[u])
    /\ UNCHANGED req

\* login and assertion-result answer with a token and a session, if there is a
\* row under the user's name; a transfer or a passkey update only with a token.
LogIn(u, t) ==
    /\ NewToken(t, u)
    /\ \/ u \in Rows /\ \E j \in Jwts : NewSession(j, u)
       \/ UNCHANGED pds
    /\ UNCHANGED <<stage, req>>

LoginAges(t) ==
    /\ logins[t].state = "live"
    /\ logins' = [logins EXCEPT ![t].state = "aged"]
    /\ UNCHANGED <<stage, pds, req>>

LoginEnds(t) ==
    /\ Accepts(t)
    /\ logins' = [logins EXCEPT ![t].state = "dead"]
    /\ UNCHANGED <<stage, pds, req>>

SessionExpires(j) ==
    /\ pds[j].state = "live"
    /\ pds' = [pds EXCEPT ![j].state = "expired"]
    /\ UNCHANGED <<stage, logins, req>>

\* A client sends a token and a session, of the same user or not, or no session,
\* or a header that does not decode.  (One that the PDS never issued fares like
\* one that has ended.)
Receive(r, t) ==
    /\ req[r].pc = "idle"
    /\ logins[t].state # "unissued"
    /\ \E op \in {"session", "timeline"},
          j \in {i \in Jwts : pds[i].state # "none"} \cup {None, "garbled"} :
         Becomes(r, [Idle EXCEPT
           !.op = op, !.pc = "check", !.token = t, !.pdsJwt = j,
           !.arrived = logins[t].state,
           !.fresh = j \in Jwts /\ Alive(j),
           !.recorded = op = "session" /\ Canon[logins[t].user] \in Rows])
    /\ UNCHANGED <<stage, logins, pds>>
-----------------------------------------------------------------------------
(* The middleware.                                                         *)

\* Mutant: a header that does not decode is kept as it is.
DecodedNot(j) == j

\* The claims that go into the request's context.  A PdsJwt header that does
\* not decode is logged and otherwise taken for an absent one.
Decoded(j) == IF j = "garbled" THEN None ELSE j

ClaimsOf(q) == [user |-> logins[q.token].user, jwt |-> Decoded(q.pdsJwt)]

Passed(q) == [q EXCEPT !.claims = ClaimsOf(q), !.pdsJwt = Decoded(@),
                       !.pc = IF q.op = "session" THEN "validate" ELSE "timeline"]

\* Mutant: a reply that reports an error is taken for one with blank claims.
loggedInMiddlewareLenient(r) ==
    /\ req[r].pc = "check"
    /\ Becomes(r, Passed(req[r]))
    /\ UNCHANGED <<stage, logins, pds>>

\* The service accepts the token; or it refuses it, or the call fails.
loggedInMiddleware(r) ==
    /\ req[r].pc = "check"
    /\ \/ Accepts(req[r].token) /\ Becomes(r, Passed(req[r]))
       \/ Becomes(r, Refused)
    /\ UNCHANGED <<stage, logins, pds>>
-----------------------------------------------------------------------------
(* getPdsSession.                                                          *)

\* Mutant: the error of the validation is only logged.
HandlerValidSessionUnheard(r) ==
    /\ req[r].pc = "validate"
    /\ req[r].claims.jwt # None
    /\ Becomes(r, Answer(req[r], req[r].claims.jwt))
    /\ UNCHANGED <<stage, logins, pds>>

\* Mutant: get-pds-session ends there if the validation fails.
HandlerValidSessionFinal(r) ==
    /\ req[r].pc = "validate"
    /\ \/ /\ Alive(req[r].claims.jwt)
          /\ Becomes(r, Answer(req[r], req[r].claims.jwt))
       \/ /\ ~Alive(req[r].claims.jwt)
          /\ Becomes(r, Answer(req[r], "error"))
       \/ Becomes(r, Failed(req[r]))
    /\ UNCHANGED <<stage, logins, pds>>

\* Mutant: the session is renewed without having been tried.
HandlerValidSessionSkipped(r) ==
    /\ req[r].pc = "validate"
    /\ Becomes(r, [req[r] EXCEPT !.pc = "lookup"])
    /\ UNCHANGED <<stage, logins, pds>>

\* The PDS still knows the session, or not, or cannot be asked: any error
\* leads to a new session.
HandlerValidSession(r) ==
    /\ req[r].pc = "validate"
    /\ \/ /\ Alive(req[r].claims.jwt)
          /\ Becomes(r, Answer(req[r], req[r].claims.jwt))
       \/ /\ ~Alive(req[r].claims.jwt)
          /\ Becomes(r, [req[r] EXCEPT !.pc = "lookup"])
       \/ Becomes(r, [req[r] EXCEPT !.pc = "lookup", !.fault = TRUE])
    /\ UNCHANGED <<stage, logins, pds>>

\* Mutant: the handle is taken from the client's PdsJwt.
handleFromHeader(q) == IF q.claims.jwt # None THEN pds[q.claims.jwt].user ELSE None

\* The name in the handle that is looked up and connected to.
handle(q) == q.claims.user

\* Without a row the struct stays blank, and no error is reported.
GetPdsUserByHandle(r) ==
    LET h == handle(req[r]) IN
    /\ req[r].pc = "lookup"
    /\ \/ Becomes(r, [req[r] EXCEPT !.pc = "connect",
                                    !.row = IF h \in Rows THEN h ELSE None])
       \/ Becomes(r, Failed(req[r]))
    /\ UNCHANGED <<stage, logins, pds>>

\* The PDS opens the account it finds under any spelling of the handle, with that
\* account's password; a blank one opens none.  If the reply is lost no client
\* will ever know, or send, the new session.
Opens(q) == q.row # None /\ q.row = Canon[handle(q)]

ConnectToGetSession(r) ==
    /\ req[r].pc = "connect"
    /\ \/ /\ Opens(req[r])
          /\ \E j \in Jwts : NewSession(j, req[r].row) /\ Becomes(r, Answer(req[r], j))
       \/ /\ ~Opens(req[r])
          /\ Becomes(r, Answer(req[r], "error"))
          /\ UNCHANGED pds
       \/ Becomes(r, Failed(req[r])) /\ UNCHANGED pds
    /\ UNCHANGED <<stage, logins>>

getPdsSession(r) ==
    HandlerValidSession(r) \/ GetPdsUserByHandle(r) \/ ConnectToGetSession(r)
-----------------------------------------------------------------------------
\* The agent is the request's own, and so is the session it sends.
SetClientAuth(q) == q.claims.jwt

GetTimeline(j) == IF Alive(j) THEN "feed" ELSE "error"

\* A body that decodes makes the validator panic on the tags it does not know,
\* which the recoverer answers; other parse errors are ignored.
getPdsTimeline(r) ==
    /\ req[r].pc = "timeline"
    /\ \/ Becomes(r, Answer(req[r], GetTimeline(SetClientAuth(req[r]))))
       \/ Becomes(r, Failed(req[r]))
    /\ UNCHANGED <<stage, logins, pds>>

Crash ==
    /\ \E r \in Requests : Running(r)
    /\ req' = [r \in Requests |-> IF Running(r) THEN Lost ELSE req[r]]
    /\ UNCHANGED <<stage, logins, pds>>

Next ==
    \/ AccountStep
    \/ \E t \in Tokens : \/ LoginAges(t) \/ LoginEnds(t)
                         \/ \E u \in Users : Register(u, t) \/ LogIn(u, t)
    \/ \E j \in Jwts : SessionExpires(j)
    \/ \E r \in Requests : \/ \E t \in Tokens : Receive(r, t)
                           \/ loggedInMiddleware(r)
                           \/ getPdsSession(r)
                           \/ getPdsTimeline(r)
    \/ Crash

Spec == Init /\ [][Next]_vars
-----------------------------------------------------------------------------
Served(r) == req[r].answer \in Jwts \cup {"feed"}

\* A request reads the timeline with the session it brought.  It is answered with
\* that, or with one of the account of the user whom its token names, though the
\* session it brought, which has ended, may be another user's.
SessionIsOwn ==
    \A r \in Requests : Served(r) =>
        LET j == IF req[r].op = "session" THEN req[r].answer ELSE req[r].claims.jwt
        IN  \/ j = req[r].pdsJwt
            \/ pds[j].user = Canon[logins[req[r].token].user]

\* No request is served on the strength of an earlier check: its token was
\* still accepted when it arrived.
ServedWasLoggedIn ==
    \A r \in Requests : Served(r) => req[r].arrived \in {"live", "aged"}

\* What a client brings and the PDS had already ended is neither handed out again
\* nor read with, although get-timeline never asks whether it has ended.
EndedSessionNotReturned ==
    \A r \in Requests :
        \/ req[r].answer \in Jwts /\ req[r].answer = req[r].pdsJwt
        \/ req[r].answer = "feed"
        => req[r].fresh

\* Whoever has an account with a row gets a session, whatever header came along,
\* exactly if the PDS spells the name as the token does, or else only while the
\* session in the header lasts: the row is saved under one spelling of the handle
\* and looked up under the other.  (Requests that meet no fault.)
RecordedGetsSession ==
    \A r \in Requests :
        /\ req[r].op = "session"
        /\ req[r].pc = "done"
        /\ req[r].recorded
        /\ ~req[r].fault
        => LET u == logins[req[r].token].user IN
           req[r].answer \in Jwts <=> req[r].answer = req[r].pdsJwt \/ Canon[u] = u

\* Sessions do not multiply: between logins a new one is opened only for a
\* request whose own session is gone, or could not be checked.
RenewedOnlyIfNeeded ==
    [][\A j \in Jwts :
         /\ pds[j].state = "none"
         /\ pds'[j].state = "live"
         /\ logins' = logins
         => \E r \in Requests : /\ req[r].pc = "connect"
                                /\ req'[r].pc = "done"
                                /\ ~Alive(req[r].claims.jwt) \/ req[r].fault]_vars

\* sample_config.yaml:8, "aliveSessionHours: time to keep the login session
\* alive": a login older than that is not served any more.
OldLoginsEnd == \A r \in Requests : Served(r) => req[r].arrived # "aged"
=============================================================================
