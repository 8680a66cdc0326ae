------------------------------ MODULE Replies ------------------------------
(***************************************************************************)
(* What each handler of webserver/api_auth.go makes of a reply of the auth  *)
(* service, and of the HTTP response it writes.  A reply is an error of the *)
(* call, or an error flag and a Data string that should decode to an object *)
(* with a token and a user.  Handlers differ in what they check.            *)
(***************************************************************************)
EXTENDS Naturals

VARIABLES
    reply,    \* the auth service's reply to some handler
    response  \* the response some handler wrote

\* Field values: "null" is a JSON null, "other" a value of the wrong type; a
\* "named" user is an object with a username, an "unnamed" one an object without.
Fields == [data : {"bad", "null"}, token : {"missing"}, user : {"missing"}]
          \cup [data  : {"object"},
                token : {"string", "null", "other", "missing"},
                user  : {"named", "unnamed", "null", "other", "missing"}]

Reply == [err : BOOLEAN, flag : BOOLEAN, fields : Fields]

\* bodies: responses written; panics: recovered by the router, which then sets
\* the status only; token and claims: what the handler answers or goes on with.
Outcome == [bodies : Nat, panics : BOOLEAN,
            token  : {"none", "string", "blank"},
            claims : {"none", "named", "blank"}]

Rejected == [bodies |-> 1, panics |-> FALSE, token |-> "none", claims |-> "none"]

Panicked == [Rejected EXCEPT !.bodies = 0, !.panics = TRUE]

Answered(token, claims) == [Rejected EXCEPT !.token = token, !.claims = claims]
-----------------------------------------------------------------------------
Undecodable(r) == r.err \/ r.fields.data = "bad"

\* JsonStringToObject leaves the map nil for a null: both fields are missing.
Incomplete(r) == r.fields.token = "missing" \/ r.fields.user = "missing"

\* A null, an object without the field, or no field at all, leaves the name blank.
CatchObject(user) == IF user = "named" THEN "named" ELSE "blank"

\* The rest of login and register, once the map has its two fields.
TakeFields(r) ==
    IF r.fields.token # "string" THEN Panicked
    ELSE IF r.fields.user = "other" THEN Rejected
    ELSE Answered("string", CatchObject(r.fields.user))

login(r) == IF Undecodable(r) \/ Incomplete(r) THEN Rejected ELSE TakeFields(r)

\* Mutant: nothing asks whether the fields are there.
registerIncomplete(r) == IF Undecodable(r) THEN Rejected ELSE TakeFields(r)

register(r) == login(r)

FinishPasskeyRegister(r) == IF r.flag THEN Rejected ELSE login(r)

FinishPasskeyTransferRegister(r) == FinishPasskeyRegister(r)

\* Mutant: the token is taken with the two-valued type assertion.
UpdatePasskeyFinishLenient(r) ==
    IF r.err \/ r.flag THEN Rejected
    ELSE LET out == [Answered("blank", CatchObject(r.fields.user)) EXCEPT
                       !.token = IF r.fields.token = "string" THEN @ ELSE "blank"]
         IN  IF r.fields.data = "bad" THEN [out EXCEPT !.bodies = 2] ELSE out

\* An undecodable reply is answered, and then goes on as an empty map.
UpdatePasskeyFinish(r) ==
    IF r.err \/ r.flag THEN Rejected
    ELSE IF r.fields.data = "bad" THEN [Panicked EXCEPT !.bodies = 1]
    ELSE TakeFields(r)

\* The flag is not looked at, and no field need be there.
AssertionResult(r) ==
    IF Undecodable(r) \/ r.fields.user = "other" THEN Rejected
    ELSE Answered(IF r.fields.token = "string" THEN "string" ELSE "blank",
                  CatchObject(r.fields.user))

\* The reply is passed on as it is.
PassedOnUnflagged(r) ==
    IF r.err \/ r.flag THEN Rejected ELSE Answered("none", "none")

CancelPasskeyRegister(r) == PassedOnUnflagged(r)

StartPasskeyRegister(r) == PassedOnUnflagged(r)

\* A request without a login token is answered like a failed call.
UpdatePasskeyStart(r) == PassedOnUnflagged(r)

\* The flag goes to the client unread.
PassedOn(r) == IF r.err THEN Rejected ELSE Answered("none", "none")

GenRandomUsername(r) == PassedOn(r)

AssertionOptions(r) == PassedOn(r)

\* A map of booleans: a field of any other type does not decode.
CheckAuthUsername(r) ==
    IF Undecodable(r) \/ r.fields.token \in {"string", "other"}
                      \/ r.fields.user \in {"named", "unnamed", "other"}
    THEN Rejected ELSE Answered("none", "none")

Outcomes(r) ==
    {login(r), register(r), FinishPasskeyRegister(r), FinishPasskeyTransferRegister(r),
     UpdatePasskeyStart(r), UpdatePasskeyFinish(r), AssertionResult(r),
     CancelPasskeyRegister(r), StartPasskeyRegister(r), GenRandomUsername(r),
     AssertionOptions(r), CheckAuthUsername(r)}
-----------------------------------------------------------------------------
(* The response.                                                           *)

Codes == [StatusOK |-> 2000, InternalCode |-> 4000, ObjectExist |-> 4001,
          LoginFail |-> 4002, InvalidCredential |-> 4003, BodyRequited |-> 4004,
          BadRequest |-> 4010, Unauthorized |-> 4011, NotFound |-> 4040,
          Forbidden |-> 4030, SendMailFailed |-> 5001]

StatusOfCode == [BadRequest |-> 400, ObjectExist |-> 400, LoginFail |-> 400,
                 InvalidCredential |-> 400, BodyRequited |-> 400,
                 Unauthorized |-> 401, Forbidden |-> 403, NotFound |-> 404,
                 SendMailFailed |-> 502]

\* The name of a code; any other has the status of an internal error.
HttpStatus(code) ==
    IF code \in DOMAIN StatusOfCode THEN StatusOfCode[code] ELSE 500

\* An *Error is known by its code's name.
CodedErrors == DOMAIN Codes \ {"StatusOK"}

\* Mutant: an *Error is sent under the caller's status.
ResponseUnmapped(status, err) ==
    [success |-> err = "nil",
     code    |-> IF err = "nil" THEN Codes.StatusOK
                 ELSE IF err = "plain" THEN Codes.InternalCode ELSE Codes[err],
     status  |-> status]

Response(status, err) ==
    [success |-> err = "nil",
     code    |-> IF err = "nil" THEN Codes.StatusOK
                 ELSE IF err = "plain" THEN Codes.InternalCode ELSE Codes[err],
     status  |-> IF err \in CodedErrors THEN HttpStatus(err) ELSE status]

ResponseOK(err) == Response(200, err)

Responses == {ResponseOK(err) : err \in CodedErrors \cup {"nil"}}
             \cup {Response(status, err) : status \in {400, 403, 500},
                                           err \in CodedErrors \cup {"plain"}}
-----------------------------------------------------------------------------
RepliesInit ==
    /\ reply = [err |-> TRUE, flag |-> FALSE,
                fields |-> [data |-> "bad", token |-> "missing", user |-> "missing"]]
    /\ response = ResponseOK("nil")

\* Replies and responses share nothing: one of each is enough.
RepliesNext ==
    /\ RepliesInit
    /\ \/ reply' \in Reply /\ UNCHANGED response
       \/ response' \in Responses /\ UNCHANGED reply

RepliesSpec == RepliesInit /\ [][RepliesNext]_<<reply, response>>
-----------------------------------------------------------------------------
\* Whatever the auth service replies, a client gets one response, never two
\* JSON bodies and never none: the only handler that goes on after it has
\* answered, UpdatePasskeyFinish, always panics then.
AnsweredOnce ==
    \A out \in Outcomes(reply) :
        /\ out.bodies <= 1
        /\ out.bodies = 0 => out.panics
        /\ out.panics => out.token = "none"

\* Handlers ask for the fields, not for the name: login, register and the finishing
\* of a passkey go on without a name, to look up or host its handle, exactly if the
\* service sent a user who has none; and never without a token to hand out.
NamelessOnlyIfSent ==
    \A out \in {login(reply), register(reply), FinishPasskeyRegister(reply),
                FinishPasskeyTransferRegister(reply)} :
        out.claims # "none" =>
            /\ out.token = "string" /\ reply.fields.user # "missing"
            /\ out.claims = "blank" <=> reply.fields.user \in {"unnamed", "null"}

\* The envelope and the status line never disagree: an error that reaches
\* ResponseOK is not sent as a 200.
EnvelopeAgrees ==
    /\ response.success <=> response.status = 200
    /\ response.success <=> response.code = Codes.StatusOK
=============================================================================
