--------------------------- MODULE SessionsProofs ---------------------------
(* Proofs about logged-in requests, for every value of the constants. *)
EXTENDS Sessions, TLAPS

\* The PDS has opened j, for whomever.
Issued(j) == pds[j].state # "none"

Checked(q) == q.pc \in {"validate", "lookup", "connect", "timeline"}

Rewarded(q) == q.answer \in Jwts \cup {"feed"}

\* The request has arrived, and has not ended in a fault or a refusal.
Engaged(q) == q.arrived # "unissued"

\* It was answered as it should be, for better or worse.
Settled(q) == q.op = "session" /\ q.pc = "done" /\ q.recorded /\ ~q.fault

\* Which answer belongs to which request.
WellPhased(q) ==
    /\ q.pc = "check" => q.op \in {"session", "timeline"}
    /\ q.pc \in {"validate", "lookup", "connect"} => q.op = "session"
    /\ q.pc = "timeline" => q.op = "timeline"
    /\ q.pc = "check" \/ Checked(q) => q.answer = "none"
    /\ q.answer \in Jwts => q.op = "session"
    /\ q.answer = "feed" => q.op = "timeline" /\ q.claims.jwt \in Jwts
    /\ q.pc = "check" \/ Checked(q) \/ Rewarded(q) \/ Settled(q) => Engaged(q)

\* The token was issued, and was still accepted when a served request arrived:
\* before the middleware has asked, unless the service will refuse it.
TokenHeld(q) ==
    Engaged(q) => /\ q.token \in Tokens
                  /\ logins[q.token].user \in Users
                  /\ logins[q.token].state # "unissued"
                  /\ q.arrived = "dead" =>
                       q.pc = "check" /\ logins[q.token].state = "dead"

\* A request carries what it came with, and a session it is answered with is that
\* one, or of its user's account.
SessionsOwned(q) ==
    /\ Engaged(q) /\ q.pdsJwt \in Jwts => Issued(q.pdsJwt)
    /\ Checked(q) \/ Rewarded(q) =>
         /\ q.claims.user = logins[q.token].user
         /\ q.claims.jwt = q.pdsJwt
    /\ q.answer \in Jwts =>
         /\ Issued(q.answer)
         /\ \/ q.answer = q.pdsJwt
            \/ pds[q.answer].user = Canon[logins[q.token].user]

\* A session that is alive, or was served, was alive when the request arrived.
FreshHolds(q) ==
    /\ Engaged(q) /\ q.pdsJwt \in Jwts
    /\ \/ pds[q.pdsJwt].state = "live"
       \/ q.answer = q.pdsJwt
       \/ q.answer = "feed"
    => q.fresh

\* A row is found under a name that the PDS leaves as it is, and under no other.
RowHolds(q) ==
    /\ q.pc = "connect" /\ q.row # None =>
         q.row = q.claims.user /\ Canon[q.row] = q.row
    /\ q.pc = "connect" /\ q.recorded /\ ~q.fault =>
         (q.row # None <=> Canon[q.claims.user] = q.claims.user)
    /\ Settled(q) =>
         (q.answer \in Jwts <=> \/ q.answer = q.pdsJwt
                                \/ Canon[logins[q.token].user] = logins[q.token].user)

\* What the history of a request says of the stores now.
HistoryHolds(q) ==
    /\ FreshHolds(q)
    /\ Engaged(q) /\ q.recorded => Canon[logins[q.token].user] \in Rows
    /\ q.pc \in {"lookup", "connect"} => ~Alive(q.claims.jwt) \/ q.fault
    /\ RowHolds(q)

Sound(q) ==
    /\ q \in Request
    /\ WellPhased(q)
    /\ TokenHeld(q)
    /\ SessionsOwned(q)
    /\ HistoryHolds(q)

\* An issued token has its user, a session that does not exist has none.
StoresHold ==
    /\ stage \in [Accounts -> Lifecycle!Stages]
    /\ logins \in [Tokens -> [user : Users \cup {None}, state : TokenState]]
    /\ pds \in [Jwts -> [user : Accounts \cup {None},
                         state : {"none", "live", "expired"}]]
    /\ \A t \in Tokens : logins[t].state # "unissued" => logins[t].user \in Users
    /\ \A j \in Jwts : pds[j].state = "none" => pds[j].user = None

IInv ==
    /\ StoresHold
    /\ req \in [Requests -> Request]
    /\ \A r \in Requests : Sound(req[r])

\* The stores only move forward: nothing changes hands, and nothing that ended
\* is alive again.
Later ==
    /\ \A t \in Tokens : logins[t].state # "unissued" =>
         /\ logins'[t].user = logins[t].user
         /\ logins'[t].state # "unissued"
         /\ logins[t].state = "dead" => logins'[t].state = "dead"
    /\ \A j \in Jwts : pds[j].state # "none" =>
         /\ pds'[j].user = pds[j].user
         /\ pds'[j].state # "none"
         /\ pds'[j].state = "live" => pds[j].state = "live"
    /\ \A a \in Accounts : stage[a] = "recorded" => stage'[a] = "recorded"
-----------------------------------------------------------------------------
(* Requests and the stores around them.                                    *)

\* A sound request stays sound while the stores move forward.
LEMMA SoundLater ==
    ASSUME NEW q \in Request, Sound(q), Later, StoresHold, StoresHold'
    PROVE  Sound(q)'
<1>1. WellPhased(q)'
  BY DEF Sound, WellPhased, Checked, Rewarded, Settled, Engaged
<1>2. TokenHeld(q)' BY DEF Sound, TokenHeld, Later, Engaged
<1>3. Engaged(q) => /\ q.token \in Tokens
                    /\ logins[q.token].user \in Users
                    /\ logins'[q.token].user = logins[q.token].user
  BY DEF Sound, TokenHeld, Later
<1>4. /\ Checked(q) \/ Rewarded(q) \/ Settled(q) => Engaged(q)
      /\ q.answer \in Jwts => Rewarded(q)
  BY DEF Sound, WellPhased, Rewarded
<1>5. SessionsOwned(q)'
  <2>1. (Engaged(q) /\ q.pdsJwt \in Jwts => Issued(q.pdsJwt))'
    BY DEF Sound, SessionsOwned, Issued, Later, Engaged
  <2>2. (Checked(q) \/ Rewarded(q) => /\ q.claims.user = logins[q.token].user
                                      /\ q.claims.jwt = q.pdsJwt)'
    BY <1>3, <1>4 DEF Sound, SessionsOwned, Checked, Rewarded
  <2>3. (q.answer \in Jwts =>
           /\ Issued(q.answer)
           /\ \/ q.answer = q.pdsJwt
              \/ pds[q.answer].user = Canon[logins[q.token].user])'
    BY <1>3, <1>4 DEF Sound, SessionsOwned, Issued, Later
  <2> QED BY <2>1, <2>2, <2>3 DEF SessionsOwned
<1>6. HistoryHolds(q)'
  <2>1. Engaged(q) /\ q.pdsJwt \in Jwts /\ pds'[q.pdsJwt].state = "live"
          => pds[q.pdsJwt].state = "live"
    BY DEF Sound, SessionsOwned, Issued, Later
  <2>2. FreshHolds(q)'
    BY <2>1 DEF Sound, HistoryHolds, FreshHolds, Engaged
  <2>3. (Engaged(q) /\ q.recorded => Canon[logins[q.token].user] \in Rows)'
    BY <1>3 DEF Sound, HistoryHolds, Later, Rows, Engaged
  <2>4. q.pc \in {"lookup", "connect"} /\ ~Alive(q.claims.jwt) => ~Alive(q.claims.jwt)'
    <3>1. SUFFICES ASSUME q.pc \in {"lookup", "connect"}, Alive(q.claims.jwt)'
                   PROVE  Alive(q.claims.jwt)
      OBVIOUS
    <3>2. Engaged(q) /\ q.claims.jwt = q.pdsJwt /\ q.claims.jwt # None
      BY <1>4, <3>1 DEF Sound, SessionsOwned, Checked, Alive
    <3>3. q.pdsJwt \in Jwts BY <3>2 DEF Request, Claims
    <3> QED BY <2>1, <3>1, <3>2, <3>3 DEF Alive
  <2>5. (q.pc \in {"lookup", "connect"} => ~Alive(q.claims.jwt) \/ q.fault)'
    BY <2>4 DEF Sound, HistoryHolds
  <2>6. RowHolds(q)'
    BY <1>3, <1>4 DEF Sound, HistoryHolds, RowHolds, Settled
  <2> QED BY <2>2, <2>3, <2>5, <2>6 DEF HistoryHolds
<1> QED BY <1>1, <1>2, <1>5, <1>6 DEF Sound

\* Soundness after a step speaks of the request as it is then.
LEMMA SoundAsIs ==
    ASSUME NEW x \in Requests, NEW q, req'[x] = q, Sound(q)'
    PROVE  Sound(req[x])'
BY DEF Sound, WellPhased, TokenHeld, SessionsOwned, HistoryHolds, FreshHolds,
       RowHolds, Issued, Checked, Rewarded, Settled, Engaged, Alive

\* A step that rewrites one request, soundly, keeps the invariant.
LEMMA StepKeeps ==
    ASSUME IInv, Later, StoresHold', NEW r \in Requests, NEW q \in Request,
           Becomes(r, q), Sound(q)'
    PROVE  IInv'
<1>1. req' = [req EXCEPT ![r] = q] BY DEF Becomes
<1>2. req' \in [Requests -> Request] BY <1>1 DEF IInv
<1>3. ASSUME NEW x \in Requests PROVE Sound(req[x])'
  <2>1. CASE x = r
    <3>1. req'[x] = q BY <2>1, <1>1 DEF IInv
    <3> QED BY <3>1, SoundAsIs
  <2>2. CASE x # r
    <3>1. PICK p \in Request : p = req[x] BY DEF IInv
    <3>2. req'[x] = p BY <2>2, <3>1, <1>1 DEF IInv
    <3>3. Sound(p) /\ StoresHold BY <3>1 DEF IInv
    <3>4. Sound(p)' BY <3>3, SoundLater
    <3> QED BY <3>2, <3>4, SoundAsIs
  <2> QED BY <2>1, <2>2
<1> QED BY <1>2, <1>3 DEF IInv

\* The same for a step that leaves the stores alone.
LEMMA RewriteKeeps ==
    ASSUME IInv, UNCHANGED <<stage, logins, pds>>,
           NEW r \in Requests, NEW q \in Request, Becomes(r, q), Sound(q)
    PROVE  IInv'
<1>1. Later BY DEF Later
<1>2. StoresHold /\ StoresHold' BY DEF IInv, StoresHold, Lifecycle!Stages
<1>3. Sound(q)' BY <1>1, <1>2, SoundLater
<1> QED BY <1>1, <1>2, <1>3, StepKeeps
-----------------------------------------------------------------------------
(* What each way of rewriting a request leaves of it.                      *)

\* A slot that has received nothing, or whose request ended unserved.
LEMMA UnservedSound ==
    /\ Idle \in Request /\ Sound(Idle)
    /\ Refused \in Request /\ Sound(Refused)
    /\ Lost \in Request /\ Sound(Lost)
    /\ \A q \in Request : Failed(q) \in Request /\ Sound(Failed(q))
<1> USE NoneAssumption DEF Idle, Request, Claims, Blank, TokenState
<1>1. Idle \in Request /\ Refused \in Request /\ Lost \in Request
  BY DEF Refused, Lost
<1>2. ASSUME NEW q \in Request PROVE Failed(q) \in Request
  BY ZenonT(60) DEF Failed
<1>3. ASSUME NEW q \in Request, ~Engaged(q), q.answer \notin Jwts \cup {"feed"},
             q.pc \in {"idle", "done", "lost"}, q.pc = "done" => q.fault \/ q.op = "none"
      PROVE  Sound(q)
  BY <1>3 DEF Sound, WellPhased, TokenHeld, SessionsOwned, HistoryHolds, FreshHolds,
              RowHolds, Settled, Checked, Rewarded
<1>4. Sound(Idle) BY <1>1, <1>3 DEF Engaged
<1>5. Sound(Refused)
  <2>1. /\ Refused.pc = "done" /\ Refused.answer = "refused" /\ Refused.op = "none"
        /\ Refused.arrived = "unissued"
    BY DEF Refused
  <2> HIDE DEF Refused, Idle, Request
  <2> QED BY <1>1, <1>3, <2>1 DEF Engaged
<1>6. Sound(Lost)
  <2>1. Lost.pc = "lost" /\ Lost.answer = "none" /\ Lost.arrived = "unissued"
    BY DEF Lost
  <2> HIDE DEF Lost, Idle, Request
  <2> QED BY <1>1, <1>3, <2>1 DEF Engaged
<1>7. ASSUME NEW q \in Request PROVE Sound(Failed(q))
  <2>1. /\ Failed(q).pc = "done" /\ Failed(q).answer = "error" /\ Failed(q).fault
        /\ Failed(q).arrived = "unissued"
    BY DEF Failed
  <2> HIDE DEF Idle, Request
  <2> QED BY <1>2, <1>3, <2>1 DEF Engaged
<1> QED BY <1>1, <1>2, <1>4, <1>5, <1>6, <1>7

\* An answer changes nothing but itself and the program counter.
LEMMA AnswerFacts ==
    ASSUME NEW q \in Request, NEW a \in Jwts \cup {"error", "feed"}
    PROVE  /\ Answer(q, a) \in Request
           /\ Answer(q, a).pc = "done" /\ Answer(q, a).answer = a
           /\ Answer(q, a).op = q.op /\ Answer(q, a).token = q.token
           /\ Answer(q, a).pdsJwt = q.pdsJwt /\ Answer(q, a).claims = q.claims
           /\ Answer(q, a).fault = q.fault /\ Answer(q, a).arrived = q.arrived
           /\ Answer(q, a).fresh = q.fresh /\ Answer(q, a).recorded = q.recorded
BY DEF Answer, Request

\* A request with its claims in its context.
LEMMA PassedFacts ==
    ASSUME NEW q \in Request, q.token \in Tokens, logins[q.token].user \in Users
    PROVE  /\ Passed(q) \in Request
           /\ Passed(q).pc = IF q.op = "session" THEN "validate" ELSE "timeline"
           /\ Passed(q).claims = ClaimsOf(q)
           /\ Passed(q).claims.user = logins[q.token].user
           /\ Passed(q).claims.jwt = Passed(q).pdsJwt
           /\ Passed(q).pdsJwt \in Jwts \cup {None}
           /\ Passed(q).pdsJwt \in Jwts => Passed(q).pdsJwt = q.pdsJwt
           /\ Passed(q).op = q.op /\ Passed(q).token = q.token
           /\ Passed(q).fault = q.fault /\ Passed(q).arrived = q.arrived
           /\ Passed(q).fresh = q.fresh /\ Passed(q).recorded = q.recorded
           /\ Passed(q).answer = q.answer
<1>1. Decoded(q.pdsJwt) \in Jwts \cup {None}
  BY DEF Decoded, Request
<1>2. ClaimsOf(q) \in Claims BY <1>1 DEF ClaimsOf, Claims
<1>3. Decoded(q.pdsJwt) \in Jwts => Decoded(q.pdsJwt) = q.pdsJwt
  BY NoneAssumption DEF Decoded
<1>4. /\ ClaimsOf(q).user = logins[q.token].user
      /\ ClaimsOf(q).jwt = Decoded(q.pdsJwt)
  BY DEF ClaimsOf
<1> HIDE DEF Decoded, ClaimsOf
<1>5. Passed(q) \in Request BY <1>1, <1>2 DEF Passed, Request
<1>6. Passed(q).claims = ClaimsOf(q) /\ Passed(q).pdsJwt = Decoded(q.pdsJwt)
  BY DEF Passed, Request
<1>7. /\ Passed(q).pc = IF q.op = "session" THEN "validate" ELSE "timeline"
      /\ Passed(q).op = q.op /\ Passed(q).token = q.token
      /\ Passed(q).fault = q.fault /\ Passed(q).arrived = q.arrived
      /\ Passed(q).fresh = q.fresh /\ Passed(q).recorded = q.recorded
      /\ Passed(q).answer = q.answer
  BY DEF Passed, Request
<1> QED BY <1>1, <1>3, <1>4, <1>5, <1>6, <1>7
-----------------------------------------------------------------------------
(* The handlers.                                                           *)

\* The middleware passes on what the token and the header say, or refuses.
LEMMA MiddlewareKeeps ==
    ASSUME IInv, NEW r \in Requests, loggedInMiddleware(r)
    PROVE  IInv'
<1>1. PICK q \in Request : q = req[r] BY DEF IInv
<1>2. /\ Sound(q) /\ q.pc = "check"
      /\ UNCHANGED <<stage, logins, pds>>
  BY <1>1 DEF IInv, loggedInMiddleware
<1>3. CASE Becomes(r, Refused)
  BY <1>2, <1>3, UnservedSound, RewriteKeeps
<1>4. CASE Accepts(req[r].token) /\ Becomes(r, Passed(req[r]))
  <2>1. /\ q.token \in Tokens /\ logins[q.token].user \in Users
        /\ q.arrived \notin {"dead", "unissued"}
    BY <1>1, <1>2, <1>4 DEF Sound, WellPhased, Checked, TokenHeld, Engaged, Accepts
  <2>2. PICK s \in Request : s = Passed(q) BY <2>1, PassedFacts
  <2>3. /\ s.pc = IF q.op = "session" THEN "validate" ELSE "timeline"
        /\ s.claims.user = logins[q.token].user /\ s.claims.jwt = s.pdsJwt
        /\ s.pdsJwt \in Jwts \cup {None} /\ s.pdsJwt \in Jwts => s.pdsJwt = q.pdsJwt
        /\ s.op = q.op /\ s.token = q.token /\ s.fault = q.fault
        /\ s.arrived = q.arrived /\ s.fresh = q.fresh /\ s.recorded = q.recorded
        /\ s.answer = q.answer
    BY <2>1, <2>2, PassedFacts
  <2>4. q.op \in {"session", "timeline"} /\ q.answer = "none" /\ Engaged(q)
    BY <1>2 DEF Sound, WellPhased
  <2>5. Engaged(s) BY <2>3, <2>4 DEF Engaged
  <2>6. WellPhased(s)
    BY <2>3, <2>4, <2>5, NoneAssumption DEF WellPhased, Checked, Settled
  <2>7. TokenHeld(s)
    BY <1>2, <2>1, <2>3, <2>4 DEF Sound, TokenHeld
  <2>8. SessionsOwned(s) /\ HistoryHolds(s)
    BY <1>2, <2>3, <2>4, NoneAssumption
    DEF Sound, SessionsOwned, Issued, HistoryHolds, FreshHolds, RowHolds, Settled
  <2>9. Sound(s) BY <2>6, <2>7, <2>8 DEF Sound
  <2>10. Becomes(r, s) BY <1>1, <1>4, <2>2
  <2> QED BY <1>2, <2>9, <2>10, RewriteKeeps
<1> QED BY <1>3, <1>4 DEF loggedInMiddleware

\* Whatever the validation says, a session that is returned was fresh.
LEMMA ValidationKeeps ==
    ASSUME IInv, NEW r \in Requests, HandlerValidSession(r)
    PROVE  IInv'
<1>1. PICK q \in Request : q = req[r] BY DEF IInv
<1>2. /\ Sound(q) /\ q.pc = "validate"
      /\ UNCHANGED <<stage, logins, pds>>
  BY <1>1 DEF IInv, HandlerValidSession
<1>3. /\ q.op = "session" /\ q.answer = "none" /\ Engaged(q)
      /\ q.claims.jwt = q.pdsJwt /\ q.arrived \notin {"dead", "unissued"}
      /\ q.pdsJwt \in Jwts => Issued(q.pdsJwt)
  BY <1>2 DEF Sound, WellPhased, TokenHeld, SessionsOwned, Engaged, Checked
<1>4. CASE Alive(q.claims.jwt) /\ Becomes(r, Answer(q, q.claims.jwt))
  <2>1. q.claims.jwt \in Jwts BY <1>4 DEF Alive, Request, Claims
  <2>2. PICK s \in Request : s = Answer(q, q.claims.jwt) BY <2>1, AnswerFacts
  <2>3. /\ s.pc = "done" /\ s.answer = q.claims.jwt
        /\ s.op = q.op /\ s.token = q.token /\ s.pdsJwt = q.pdsJwt
        /\ s.claims = q.claims /\ s.fault = q.fault /\ s.arrived = q.arrived
        /\ s.fresh = q.fresh /\ s.recorded = q.recorded
    BY <2>1, <2>2, AnswerFacts
  <2>4. WellPhased(s)
    BY <1>3, <2>1, <2>3, NoneAssumption DEF WellPhased, Checked, Engaged
  <2>5. TokenHeld(s) BY <1>2, <1>3, <2>3 DEF Sound, TokenHeld
  <2>6. SessionsOwned(s)
    BY <1>2, <1>3, <2>1, <2>3 DEF Sound, SessionsOwned, Checked, Rewarded
  <2>7. q.fresh BY <1>2, <1>3, <1>4, <2>1 DEF Sound, HistoryHolds, FreshHolds, Alive
  <2>8. HistoryHolds(s)
    BY <1>2, <1>3, <2>1, <2>3, <2>7
    DEF Sound, HistoryHolds, FreshHolds, RowHolds, Engaged
  <2> QED BY <1>1, <1>2, <1>4, <2>2, <2>4, <2>5, <2>6, <2>8, RewriteKeeps DEF Sound
<1>5. ASSUME NEW f \in BOOLEAN, ~Alive(q.claims.jwt) \/ f,
             Becomes(r, [q EXCEPT !.pc = "lookup", !.fault = f])
      PROVE  IInv'
  <2>1. PICK s : s = [q EXCEPT !.pc = "lookup", !.fault = f] OBVIOUS
  <2>2. s \in Request BY <2>1 DEF Request
  <2>3. /\ s.pc = "lookup" /\ s.fault = f /\ s.answer = q.answer
        /\ s.op = q.op /\ s.token = q.token /\ s.pdsJwt = q.pdsJwt
        /\ s.claims = q.claims /\ s.arrived = q.arrived
        /\ s.fresh = q.fresh /\ s.recorded = q.recorded
    BY <2>1 DEF Request
  <2>4. WellPhased(s)
    BY <1>3, <2>3, NoneAssumption DEF WellPhased, Checked, Settled, Engaged
  <2>5. TokenHeld(s) BY <1>2, <1>3, <2>3 DEF Sound, TokenHeld
  <2>6. SessionsOwned(s)
    BY <1>2, <1>3, <2>3, NoneAssumption DEF Sound, SessionsOwned, Engaged, Checked
  <2>7. HistoryHolds(s)
    BY <1>2, <1>3, <1>5, <2>3, NoneAssumption
    DEF Sound, HistoryHolds, FreshHolds, RowHolds, Settled, Engaged
  <2> QED BY <1>2, <1>5, <2>1, <2>2, <2>4, <2>5, <2>6, <2>7, RewriteKeeps DEF Sound
<1>6. CASE ~Alive(q.claims.jwt) /\ Becomes(r, [q EXCEPT !.pc = "lookup"])
  <2>1. [q EXCEPT !.pc = "lookup"] = [q EXCEPT !.pc = "lookup", !.fault = q.fault]
    BY DEF Request
  <2>2. q.fault \in BOOLEAN BY DEF Request
  <2> QED BY <1>5, <1>6, <2>1, <2>2
<1>7. CASE Becomes(r, [q EXCEPT !.pc = "lookup", !.fault = TRUE])
  BY <1>5, <1>7
<1> QED BY <1>1, <1>4, <1>6, <1>7 DEF HandlerValidSession

\* Who had a row on arrival still has it, and it is the one that is found.
LEMMA LookupKeeps ==
    ASSUME IInv, NEW r \in Requests, GetPdsUserByHandle(r)
    PROVE  IInv'
<1>1. PICK q \in Request : q = req[r] BY DEF IInv
<1>2. /\ Sound(q) /\ q.pc = "lookup"
      /\ UNCHANGED <<stage, logins, pds>>
  BY <1>1 DEF IInv, GetPdsUserByHandle
<1>3. /\ q.op = "session" /\ q.answer = "none" /\ Engaged(q)
      /\ q.claims.user = logins[q.token].user /\ q.claims.user \in Users
      /\ q.arrived \notin {"dead", "unissued"}
  BY <1>2 DEF Sound, WellPhased, TokenHeld, SessionsOwned, Engaged, Checked
<1>4. CASE Becomes(r, Failed(q))
  BY <1>2, <1>4, UnservedSound, RewriteKeeps
<1>5. CASE Becomes(r, [q EXCEPT !.pc = "connect",
                         !.row = IF handle(q) \in Rows THEN handle(q) ELSE None])
  <2>1. PICK a : a = IF handle(q) \in Rows THEN handle(q) ELSE None
    OBVIOUS
  <2>2. PICK s : s = [q EXCEPT !.pc = "connect", !.row = a] OBVIOUS
  <2>3. a \in Accounts \cup {None} BY <2>1 DEF Rows
  <2>4. s \in Request
    <3> HIDE DEF Accounts
    <3> QED BY <2>2, <2>3 DEF Request
  <2>5. /\ s.pc = "connect" /\ s.row = a /\ s.fault = q.fault
        /\ s.answer = q.answer
        /\ s.op = q.op /\ s.token = q.token /\ s.pdsJwt = q.pdsJwt
        /\ s.claims = q.claims /\ s.arrived = q.arrived
        /\ s.fresh = q.fresh /\ s.recorded = q.recorded
    BY <2>2 DEF Request
  <2>6. WellPhased(s)
    BY <1>3, <2>5, NoneAssumption DEF WellPhased, Checked, Settled, Engaged
  <2>7. TokenHeld(s) BY <1>2, <1>3, <2>5 DEF Sound, TokenHeld
  <2>8. SessionsOwned(s)
    BY <1>2, <1>3, <2>5, NoneAssumption DEF Sound, SessionsOwned, Engaged, Checked
  <2>9. /\ a # None => a = q.claims.user /\ Canon[a] = a
        /\ q.recorded => (a # None <=> Canon[q.claims.user] = q.claims.user)
    <3>1. a # None => a = q.claims.user /\ a \in Accounts
      BY <2>1 DEF handle, Rows
    <3>2. a \in Accounts => Canon[a] = a BY CanonAssumption DEF Accounts
    <3>3. q.recorded => Canon[q.claims.user] \in Rows
      BY <1>2, <1>3 DEF Sound, HistoryHolds
    <3>4. q.claims.user # None BY <1>3, NoneAssumption
    <3> QED BY <2>1, <3>1, <3>2, <3>3, <3>4 DEF handle
  <2>10. RowHolds(s) BY <2>5, <2>9 DEF RowHolds, Settled
  <2>11. HistoryHolds(s)
    BY <1>2, <1>3, <2>5, <2>10, NoneAssumption
    DEF Sound, HistoryHolds, FreshHolds, Engaged
  <2> QED BY <1>2, <1>5, <2>1, <2>2, <2>4, <2>6, <2>7, <2>8, <2>11, RewriteKeeps DEF Sound
<1> QED BY <1>1, <1>4, <1>5 DEF GetPdsUserByHandle

\* A new session takes a name that nobody holds.
LEMMA NewSessionLater ==
    ASSUME StoresHold, NEW j \in Jwts, NEW u \in Accounts, NewSession(j, u)
    PROVE  /\ pds' \in [Jwts -> [user : Accounts \cup {None},
                                 state : {"none", "live", "expired"}]]
           /\ \A i \in Jwts : pds'[i].state = "none" => pds'[i].user = None
           /\ \A i \in Jwts : pds[i].state # "none" => pds'[i] = pds[i]
           /\ pds'[j].user = u /\ pds'[j].state = "live"
BY DEF StoresHold, NewSession

\* The new session is of the account of the user whose claims the request carries.
LEMMA ConnectKeeps ==
    ASSUME IInv, NEW r \in Requests, ConnectToGetSession(r)
    PROVE  IInv'
<1>1. PICK q \in Request : q = req[r] BY DEF IInv
<1>2. Sound(q) /\ q.pc = "connect" /\ UNCHANGED <<stage, logins>>
  BY <1>1 DEF IInv, ConnectToGetSession
<1>3. /\ q.op = "session" /\ q.answer = "none" /\ Engaged(q)
      /\ q.claims.user = logins[q.token].user /\ q.claims.user \in Users
      /\ q.claims.jwt = q.pdsJwt /\ q.arrived \notin {"dead", "unissued"}
      /\ q.pdsJwt \in Jwts => Issued(q.pdsJwt)
  BY <1>2 DEF Sound, WellPhased, TokenHeld, SessionsOwned, Engaged, Checked
<1>4. /\ q.row # None => q.row = q.claims.user /\ Canon[q.row] = q.row
      /\ q.recorded /\ ~q.fault => (q.row # None <=> Canon[q.claims.user] = q.claims.user)
  BY <1>2 DEF Sound, HistoryHolds, RowHolds
<1>5. CASE Becomes(r, Failed(q)) /\ UNCHANGED pds
  BY <1>2, <1>5, UnservedSound, RewriteKeeps
<1>6. CASE /\ ~Opens(q)
           /\ Becomes(r, Answer(q, "error"))
           /\ UNCHANGED pds
  <2>1. PICK s \in Request : s = Answer(q, "error") BY AnswerFacts
  <2>2. /\ s.pc = "done" /\ s.answer = "error"
        /\ s.op = q.op /\ s.token = q.token /\ s.pdsJwt = q.pdsJwt
        /\ s.claims = q.claims /\ s.fault = q.fault /\ s.arrived = q.arrived
        /\ s.fresh = q.fresh /\ s.recorded = q.recorded
    BY <2>1, AnswerFacts
  <2>3. "error" \notin Jwts \cup {None, "garbled", "feed"} BY NoneAssumption
  <2>4. WellPhased(s)
    BY <1>3, <2>2, <2>3 DEF Engaged, Checked, Rewarded, WellPhased
  <2>5. TokenHeld(s) BY <1>2, <1>3, <2>2 DEF Sound, TokenHeld
  <2>6. SessionsOwned(s)
    BY <1>2, <1>3, <2>2, <2>3 DEF Sound, SessionsOwned, Checked, Rewarded
  <2>7. q.row = None BY <1>4, <1>6 DEF Opens, handle
  <2>8. q.pdsJwt # "error" BY <2>3 DEF Request
  <2>9. RowHolds(s) BY <1>3, <1>4, <2>2, <2>3, <2>7, <2>8 DEF RowHolds, Settled
  <2>10. HistoryHolds(s)
    BY <1>2, <1>3, <2>2, <2>3, <2>8, <2>9 DEF Sound, HistoryHolds, FreshHolds, Engaged
  <2> QED BY <1>2, <1>6, <2>1, <2>4, <2>5, <2>6, <2>10, RewriteKeeps DEF Sound
<1>7. ASSUME NEW j \in Jwts, Opens(q), NewSession(j, q.row),
             Becomes(r, Answer(q, j))
      PROVE  IInv'
  <2>1. PICK s \in Request : s = Answer(q, j) BY AnswerFacts
  <2>2. /\ s.pc = "done" /\ s.answer = j
        /\ s.op = q.op /\ s.token = q.token /\ s.pdsJwt = q.pdsJwt
        /\ s.claims = q.claims /\ s.fault = q.fault /\ s.arrived = q.arrived
        /\ s.fresh = q.fresh /\ s.recorded = q.recorded
    BY <2>1, AnswerFacts
  <2>3. StoresHold /\ pds[j].state = "none" BY <1>7 DEF IInv, NewSession
  <2>4. /\ q.row = Canon[q.claims.user] /\ q.row \in Accounts
        /\ Canon[q.claims.user] = q.claims.user
    BY <1>3, <1>4, <1>7 DEF Opens, handle, Accounts
  <2>5. /\ \A i \in Jwts : pds[i].state # "none" => pds'[i] = pds[i]
        /\ pds'[j].user = Canon[q.claims.user] /\ pds'[j].state = "live"
        /\ StoresHold'
    BY <1>2, <1>7, <2>3, <2>4, NewSessionLater
    DEF StoresHold, Lifecycle!Stages, Accounts
  <2>6. Later BY <1>2, <2>5 DEF Later
  <2>7. Sound(q)' BY <1>2, <2>3, <2>5, <2>6, SoundLater
  <2>8. WellPhased(s)'
    BY <1>3, <2>2, NoneAssumption DEF WellPhased, Checked, Engaged
  <2>9. TokenHeld(s)' BY <1>3, <2>2, <2>7 DEF Sound, TokenHeld, Engaged
  <2>10. SessionsOwned(s)'
    BY <1>2, <1>3, <2>2, <2>5, <2>7
    DEF Sound, SessionsOwned, Issued, Engaged, Checked, Rewarded
  <2>11. q.pdsJwt # j BY <1>3, <2>3 DEF Issued
  <2>12. HistoryHolds(s)'
    BY <1>2, <1>3, <2>2, <2>4, <2>7, <2>11, NoneAssumption
    DEF Sound, HistoryHolds, FreshHolds, RowHolds, Engaged
  <2>13. Sound(s)' BY <2>8, <2>9, <2>10, <2>12 DEF Sound
  <2> QED BY <1>7, <2>1, <2>5, <2>6, <2>13, StepKeeps
<1> QED BY <1>1, <1>5, <1>6, <1>7 DEF ConnectToGetSession

\* A feed is read with the session the request came with.
LEMMA TimelineKeeps ==
    ASSUME IInv, NEW r \in Requests, getPdsTimeline(r)
    PROVE  IInv'
<1>1. PICK q \in Request : q = req[r] BY DEF IInv
<1>2. /\ Sound(q) /\ q.pc = "timeline"
      /\ UNCHANGED <<stage, logins, pds>>
  BY <1>1 DEF IInv, getPdsTimeline
<1>3. /\ q.op = "timeline" /\ Engaged(q) /\ q.arrived \notin {"dead", "unissued"}
      /\ q.claims.jwt = q.pdsJwt
  BY <1>2 DEF Sound, WellPhased, TokenHeld, SessionsOwned, Engaged, Checked
<1>4. CASE Becomes(r, Failed(q))
  BY <1>2, <1>4, UnservedSound, RewriteKeeps
<1>5. CASE Becomes(r, Answer(q, GetTimeline(SetClientAuth(q))))
  <2>1. PICK a \in {"feed", "error"} : a = GetTimeline(SetClientAuth(q))
    BY DEF GetTimeline
  <2>2. a = "feed" => q.claims.jwt \in Jwts /\ pds[q.pdsJwt].state = "live"
    BY <1>3, <2>1 DEF GetTimeline, SetClientAuth, Alive, Request, Claims
  <2>3. PICK s \in Request : s = Answer(q, a) BY AnswerFacts
  <2>4. /\ s.pc = "done" /\ s.answer = a
        /\ s.op = q.op /\ s.token = q.token /\ s.pdsJwt = q.pdsJwt
        /\ s.claims = q.claims /\ s.fault = q.fault /\ s.arrived = q.arrived
        /\ s.fresh = q.fresh /\ s.recorded = q.recorded
    BY <2>3, AnswerFacts
  <2>5. a \notin Jwts BY NoneAssumption
  <2>6. WellPhased(s)
    BY <1>3, <2>2, <2>4, <2>5 DEF WellPhased, Checked, Settled, Engaged
  <2>7. TokenHeld(s) BY <1>2, <1>3, <2>4 DEF Sound, TokenHeld
  <2>8. SessionsOwned(s)
    BY <1>2, <1>3, <2>4, <2>5 DEF Sound, SessionsOwned, Engaged, Checked
  <2>9. FreshHolds(s)
    BY <1>2, <1>3, <2>2, <2>4, <2>5 DEF Sound, HistoryHolds, FreshHolds
  <2>10. HistoryHolds(s)
    BY <1>2, <1>3, <2>4, <2>9 DEF Sound, HistoryHolds, RowHolds, Settled, Engaged
  <2> QED BY <1>2, <1>5, <2>1, <2>3, <2>6, <2>7, <2>8, <2>10, RewriteKeeps DEF Sound
<1> QED BY <1>1, <1>4, <1>5 DEF getPdsTimeline

\* A request arrives with a token that was issued and a session that was opened,
\* or none.
LEMMA ReceiveKeeps ==
    ASSUME IInv, NEW r \in Requests, NEW t \in Tokens, Receive(r, t)
    PROVE  IInv'
<1>1. logins[t].state # "unissued" /\ UNCHANGED <<stage, logins, pds>>
  BY DEF Receive
<1>2. logins[t].user \in Users /\ logins[t].state \in TokenState
  BY <1>1 DEF IInv, StoresHold
<1>3. PICK op \in {"session", "timeline"}, j \in Jwts \cup {None, "garbled"} :
        /\ j \in Jwts \ {None, "garbled"} => Issued(j)
        /\ Becomes(r, [Idle EXCEPT
             !.op = op, !.pc = "check", !.token = t, !.pdsJwt = j,
             !.arrived = logins[t].state,
             !.fresh = j \in Jwts /\ Alive(j),
             !.recorded = op = "session" /\ Canon[logins[t].user] \in Rows])
  BY DEF Receive, Issued
<1>4. PICK fresh \in BOOLEAN : fresh = (j \in Jwts /\ Alive(j))
  OBVIOUS
<1>5. PICK recorded \in BOOLEAN :
           recorded = (op = "session" /\ Canon[logins[t].user] \in Rows)
  OBVIOUS
<1>6. PICK arrived \in TokenState : arrived = logins[t].state BY <1>2
<1>7. PICK s : s = [Idle EXCEPT !.op = op, !.pc = "check", !.token = t,
                      !.pdsJwt = j, !.arrived = arrived,
                      !.fresh = fresh, !.recorded = recorded]
  OBVIOUS
<1>8. Becomes(r, s)
  BY <1>3, <1>4, <1>5, <1>6, <1>7
<1>9. /\ s \in Request
      /\ s.op = op /\ s.pc = "check" /\ s.token = t /\ s.pdsJwt = j
      /\ s.arrived = arrived /\ s.fresh = fresh /\ s.recorded = recorded
      /\ s.answer = "none"
  <2>1. PICK i \in Request : i = Idle BY UnservedSound
  <2>2. i.answer = "none" BY <2>1 DEF Idle
  <2>3. s = [i EXCEPT !.op = op, !.pc = "check", !.token = t, !.pdsJwt = j,
               !.arrived = arrived, !.fresh = fresh, !.recorded = recorded]
    BY <1>7, <2>1
  <2>4. s \in Request
    <3>1. PICK i1 : i1 = [i EXCEPT !.op = op, !.pc = "check", !.token = t] OBVIOUS
    <3>2. i1 \in Request BY <3>1 DEF Request
    <3>3. PICK i2 : i2 = [i1 EXCEPT !.pdsJwt = j, !.arrived = arrived] OBVIOUS
    <3>4. i2 \in Request BY <3>2, <3>3 DEF Request
    <3>5. PICK i3 : i3 = [i2 EXCEPT !.fresh = fresh] OBVIOUS
    <3>6. i3 \in Request BY <3>4, <3>5 DEF Request
    <3>7. s = [i3 EXCEPT !.recorded = recorded]
      BY <2>3, <3>1, <3>3, <3>5 DEF Request
    <3> QED BY <3>6, <3>7 DEF Request
  <2>5. /\ s.op = op /\ s.pc = "check" /\ s.token = t /\ s.pdsJwt = j
        /\ s.arrived = arrived /\ s.fresh = fresh /\ s.recorded = recorded
        /\ s.answer = i.answer
    BY <2>3 DEF Request
  <2> QED BY <2>2, <2>4, <2>5
<1>10. Engaged(s) BY <1>1, <1>6, <1>9 DEF Engaged
<1>11. WellPhased(s)
  BY <1>9, <1>10, NoneAssumption DEF WellPhased, Checked
<1>12. TokenHeld(s) BY <1>1, <1>2, <1>6, <1>9 DEF TokenHeld
<1>13. SessionsOwned(s)
  BY <1>3, <1>9, NoneAssumption DEF SessionsOwned, Checked, Rewarded
<1>14. FreshHolds(s)
  BY <1>4, <1>9, NoneAssumption DEF FreshHolds, Alive
<1>15. HistoryHolds(s)
  BY <1>5, <1>9, <1>14 DEF HistoryHolds, RowHolds, Settled
<1> QED BY <1>1, <1>8, <1>9, <1>11, <1>12, <1>13, <1>15, RewriteKeeps DEF Sound

\* A crash leaves of a running request nothing that could be answered.
LEMMA CrashKeeps ==
    ASSUME IInv, Crash
    PROVE  IInv'
<1>1. /\ req' = [r \in Requests |-> IF Running(r) THEN Lost ELSE req[r]]
      /\ UNCHANGED <<stage, logins, pds>>
  BY DEF Crash
<1>2. Later BY <1>1 DEF Later
<1>3. StoresHold /\ StoresHold' BY <1>1 DEF IInv, StoresHold, Lifecycle!Stages
<1>4. ASSUME NEW r \in Requests PROVE req'[r] \in Request /\ Sound(req[r])'
  <2>1. PICK q \in Request : q = IF Running(r) THEN Lost ELSE req[r]
    BY UnservedSound DEF IInv
  <2>2. Sound(q) BY <2>1, UnservedSound DEF IInv
  <2>3. Sound(q)' BY <1>2, <1>3, <2>2, SoundLater
  <2>4. req'[r] = q BY <1>1, <2>1
  <2> QED BY <2>3, <2>4, SoundAsIs
<1>5. req' \in [Requests -> Request] BY <1>1, <1>4
<1> QED BY <1>3, <1>4, <1>5 DEF IInv

\* A step of the world around the requests moves the stores forward.
LEMMA WorldKeeps ==
    ASSUME IInv, UNCHANGED req, Later, StoresHold'
    PROVE  IInv'
<1>1. ASSUME NEW r \in Requests PROVE Sound(req[r])'
  <2>1. PICK q \in Request : q = req[r] BY DEF IInv
  <2>2. Sound(q) /\ StoresHold BY <2>1 DEF IInv
  <2>3. Sound(q)' BY <2>2, SoundLater
  <2>4. req'[r] = q BY <2>1
  <2> QED BY <2>3, <2>4, SoundAsIs
<1> QED BY <1>1 DEF IInv

\* A registration that advances, or fails, takes no row away.
LEMMA StageLater ==
    ASSUME StoresHold,
           \/ \E a \in Accounts : Lifecycle!Host(a) \/ Lifecycle!Record(a)
           \/ \E A \in SUBSET Accounts : Lifecycle!Abandon(A)
    PROVE  /\ stage' \in [Accounts -> Lifecycle!Stages]
           /\ \A a \in Accounts : stage[a] = "recorded" => stage'[a] = "recorded"
<1>1. stage \in [Accounts -> Lifecycle!Stages] BY DEF StoresHold
<1> HIDE DEF Accounts
<1>2. CASE \E a \in Accounts : Lifecycle!Host(a) \/ Lifecycle!Record(a)
  <2>1. PICK a \in Accounts, t \in Lifecycle!Stages :
          stage' = [stage EXCEPT ![a] = t] /\ (stage[a] = "recorded" => t = "recorded")
    BY <1>2 DEF Lifecycle!Host, Lifecycle!Record, Lifecycle!Stages
  <2> QED BY <1>1, <2>1
<1>3. CASE \E A \in SUBSET Accounts : Lifecycle!Abandon(A)
  BY <1>1, <1>3 DEF Lifecycle!Abandon, Lifecycle!Stages
<1> QED BY <1>2, <1>3

\* A token goes to a user, perhaps with a session of an account.
LEMMA TokenKeeps ==
    ASSUME IInv, NEW t \in Tokens, NEW u \in Users, NewToken(t, u), UNCHANGED req,
           \/ UNCHANGED pds
           \/ \E j \in Jwts, a \in Accounts : NewSession(j, a),
           stage' \in [Accounts -> Lifecycle!Stages],
           \A a \in Accounts : stage[a] = "recorded" => stage'[a] = "recorded"
    PROVE  IInv'
<1>1. StoresHold BY DEF IInv
<1>2. /\ logins[t].state = "unissued"
      /\ logins' = [logins EXCEPT ![t] = [user |-> u, state |-> "live"]]
  BY DEF NewToken
<1>3. /\ pds' \in [Jwts -> [user : Accounts \cup {None},
                            state : {"none", "live", "expired"}]]
      /\ \A i \in Jwts : pds'[i].state = "none" => pds'[i].user = None
      /\ \A i \in Jwts : pds[i].state # "none" => pds'[i] = pds[i]
  BY <1>1, NewSessionLater DEF StoresHold
<1>4. /\ logins' \in [Tokens -> [user : Users \cup {None}, state : TokenState]]
      /\ \A i \in Tokens : logins'[i].state # "unissued" => logins'[i].user \in Users
      /\ \A i \in Tokens : logins[i].state # "unissued" => logins'[i] = logins[i]
  BY <1>1, <1>2 DEF StoresHold, TokenState
<1>5. StoresHold'
  BY <1>3, <1>4 DEF StoresHold, Accounts, Lifecycle!Stages, TokenState
<1>6. Later BY <1>3, <1>4 DEF Later
<1> QED BY <1>5, <1>6, WorldKeeps

\* Registrations, logins, and tokens and sessions that end.
LEMMA StoresKeep ==
    ASSUME IInv,
           \/ AccountStep
           \/ \E t \in Tokens : \/ LoginAges(t) \/ LoginEnds(t)
                                \/ \E u \in Users : Register(u, t) \/ LogIn(u, t)
           \/ \E j \in Jwts : SessionExpires(j)
    PROVE  IInv'
<1>1. StoresHold BY DEF IInv
<1>2. CASE AccountStep
  <2>1. /\ stage' \in [Accounts -> Lifecycle!Stages]
        /\ \A a \in Accounts : stage[a] = "recorded" => stage'[a] = "recorded"
    BY <1>1, <1>2, StageLater DEF AccountStep
  <2>2. UNCHANGED <<logins, pds, req>> BY <1>2 DEF AccountStep
  <2>3. StoresHold' BY <1>1, <2>1, <2>2 DEF StoresHold, Lifecycle!Stages, Accounts
  <2>4. Later BY <2>1, <2>2 DEF Later
  <2> QED BY <2>2, <2>3, <2>4, WorldKeeps
<1>3. ASSUME NEW t \in Tokens, NEW u \in Users, LogIn(u, t) PROVE IInv'
  <2>1. NewToken(t, u) /\ UNCHANGED <<stage, req>> BY <1>3 DEF LogIn
  <2>2. /\ stage' \in [Accounts -> Lifecycle!Stages]
        /\ \A a \in Accounts : stage[a] = "recorded" => stage'[a] = "recorded"
    BY <1>1, <2>1 DEF StoresHold
  <2>3. UNCHANGED pds \/ \E j \in Jwts, a \in Accounts : NewSession(j, a)
    <3>1. u \in Rows => u \in Accounts BY DEF Rows
    <3> QED BY <1>3, <3>1 DEF LogIn
  <2> QED BY <2>1, <2>2, <2>3, TokenKeeps
<1>4. ASSUME NEW t \in Tokens, NEW u \in Users, Register(u, t) PROVE IInv'
  <2>1. NewToken(t, u) /\ UNCHANGED req /\ Lifecycle!Record(Canon[u])
    BY <1>4 DEF Register
  <2>2. Canon[u] \in Accounts BY DEF Accounts
  <2>3. /\ stage' \in [Accounts -> Lifecycle!Stages]
        /\ \A a \in Accounts : stage[a] = "recorded" => stage'[a] = "recorded"
    BY <1>1, <2>1, <2>2, StageLater
  <2>4. \E j \in Jwts, a \in Accounts : NewSession(j, a)
    BY <1>4, <2>2 DEF Register
  <2> QED BY <2>1, <2>3, <2>4, TokenKeeps
<1>5. ASSUME NEW t \in Tokens, LoginAges(t) \/ LoginEnds(t) PROVE IInv'
  <2>1. /\ logins[t].state \in {"live", "aged"}
        /\ \E s \in {"aged", "dead"} : logins' = [logins EXCEPT ![t].state = s]
        /\ UNCHANGED <<stage, pds, req>>
    BY <1>5 DEF LoginAges, LoginEnds, Accepts
  <2>2. StoresHold' BY <1>1, <2>1 DEF StoresHold, TokenState, Lifecycle!Stages
  <2>3. Later BY <1>1, <2>1 DEF Later, StoresHold
  <2> QED BY <2>1, <2>2, <2>3, WorldKeeps
<1>6. ASSUME NEW j \in Jwts, SessionExpires(j) PROVE IInv'
  <2>1. /\ pds[j].state = "live"
        /\ pds' = [pds EXCEPT ![j].state = "expired"]
        /\ UNCHANGED <<stage, logins, req>>
    BY <1>6 DEF SessionExpires
  <2>2. StoresHold' BY <1>1, <2>1 DEF StoresHold, Lifecycle!Stages
  <2>3. Later BY <1>1, <2>1 DEF Later, StoresHold
  <2> QED BY <2>1, <2>2, <2>3, WorldKeeps
<1> QED BY <1>2, <1>3, <1>4, <1>5, <1>6
-----------------------------------------------------------------------------
(* The theorems.                                                           *)

\* Nobody is registered, logged in or served at first.
LEMMA InitIInv == Init => IInv
<1> SUFFICES ASSUME Init PROVE IInv OBVIOUS
<1>1. StoresHold
  BY DEF Init, StoresHold, TokenState, Lifecycle!Init, Lifecycle!Stages
<1>2. ASSUME NEW r \in Requests PROVE req[r] = Idle BY DEF Init
<1>3. req \in [Requests -> Request] BY UnservedSound DEF Init
<1> QED BY <1>1, <1>2, <1>3, UnservedSound DEF IInv

\* Every step, of the world or of a request, keeps the invariant.
LEMMA NextKeepsIInv == IInv /\ [Next]_vars => IInv'
<1> SUFFICES ASSUME IInv, [Next]_vars PROVE IInv' OBVIOUS
<1>1. CASE UNCHANGED vars
  <2>1. UNCHANGED <<stage, logins, pds, req>> BY <1>1 DEF vars
  <2>2. Later /\ StoresHold'
    BY <2>1 DEF IInv, StoresHold, Later, Lifecycle!Stages
  <2> QED BY <2>1, <2>2, WorldKeeps
<1>2. CASE \/ AccountStep
           \/ \E t \in Tokens : \/ LoginAges(t) \/ LoginEnds(t)
                                \/ \E u \in Users : Register(u, t) \/ LogIn(u, t)
           \/ \E j \in Jwts : SessionExpires(j)
  BY <1>2, StoresKeep
<1>3. ASSUME NEW r \in Requests,
             \/ \E t \in Tokens : Receive(r, t)
             \/ loggedInMiddleware(r)
             \/ getPdsSession(r)
             \/ getPdsTimeline(r)
      PROVE  IInv'
  BY <1>3, ReceiveKeeps, MiddlewareKeeps, ValidationKeeps, LookupKeeps, ConnectKeeps,
     TimelineKeeps DEF getPdsSession
<1>4. CASE Crash BY <1>4, CrashKeeps
<1> QED BY <1>1, <1>2, <1>3, <1>4 DEF Next

\* The invariant holds throughout.
LEMMA Invariant == Spec => []IInv
BY InitIInv, NextKeepsIInv, PTL DEF Spec

\* The stores and the records of requests keep their types.
THEOREM TypeCorrect == Spec => []TypeOK
<1>1. IInv => TypeOK BY DEF IInv, StoresHold, TypeOK
<1> QED BY <1>1, Invariant, PTL

\* getPdsSession, getPdsTimeline: whichever session a request brought, its own
\* user's or another's, it is answered with that, or with one of the account of
\* the user its token names, and reads with that.
THEOREM SessionsAreOwn == Spec => []SessionIsOwn
<1>1. IInv => SessionIsOwn
  <2>1. SUFFICES ASSUME IInv, NEW r \in Requests, Served(r)
                 PROVE  LET j == IF req[r].op = "session" THEN req[r].answer
                                                          ELSE req[r].claims.jwt
                        IN  \/ j = req[r].pdsJwt
                            \/ pds[j].user = Canon[logins[req[r].token].user]
    BY DEF SessionIsOwn
  <2>2. PICK q \in Request : q = req[r] BY <2>1 DEF IInv
  <2>3. Sound(q) /\ Rewarded(q)
    BY <2>1, <2>2 DEF IInv, Served, Rewarded
  <2>4. CASE q.answer \in Jwts
    BY <2>2, <2>3, <2>4 DEF Sound, WellPhased, SessionsOwned
  <2>5. CASE q.answer = "feed"
    BY <2>2, <2>3, <2>5 DEF Sound, WellPhased, SessionsOwned
  <2> QED BY <2>3, <2>4, <2>5 DEF Rewarded
<1> QED BY <1>1, Invariant, PTL

\* loggedInMiddleware: what is served arrived with a token that was accepted then.
THEOREM ServedWereLoggedIn == Spec => []ServedWasLoggedIn
<1>1. IInv => ServedWasLoggedIn
  <2>1. SUFFICES ASSUME IInv, NEW r \in Requests, Served(r)
                 PROVE  req[r].arrived \in {"live", "aged"}
    BY DEF ServedWasLoggedIn
  <2>2. PICK q \in Request : q = req[r] BY <2>1 DEF IInv
  <2>3. Sound(q) /\ Engaged(q) /\ q.answer # "none"
    BY <2>1, <2>2, NoneAssumption DEF IInv, Sound, WellPhased, Served, Rewarded
  <2>4. q.pc # "check" BY <2>3 DEF Sound, WellPhased
  <2> QED BY <2>2, <2>3, <2>4 DEF Sound, TokenHeld, Engaged, Request, TokenState
<1> QED BY <1>1, Invariant, PTL

\* HandlerValidSession, GetTimeline: a session the PDS had ended when the request
\* came in is neither handed out again nor read with.
THEOREM EndedSessionsAreNotReturned == Spec => []EndedSessionNotReturned
<1>1. IInv => EndedSessionNotReturned
  <2>1. SUFFICES ASSUME IInv, NEW r \in Requests,
                        \/ req[r].answer \in Jwts /\ req[r].answer = req[r].pdsJwt
                        \/ req[r].answer = "feed"
                 PROVE  req[r].fresh
    BY DEF EndedSessionNotReturned
  <2>2. PICK q \in Request : q = req[r] BY <2>1 DEF IInv
  <2>3. Sound(q) /\ Rewarded(q) BY <2>1, <2>2 DEF IInv, Rewarded
  <2>4. Engaged(q) /\ q.pdsJwt \in Jwts
    BY <2>1, <2>2, <2>3 DEF Sound, WellPhased, SessionsOwned
  <2> QED BY <2>1, <2>2, <2>3, <2>4 DEF Sound, HistoryHolds, FreshHolds
<1> QED BY <1>1, Invariant, PTL

\* getPdsSession: whoever's account had a row on arrival leaves with a session,
\* but for faults, exactly if the PDS spells the name as the token does, or the
\* session in the header is still accepted.
THEOREM RecordedGetSessions == Spec => []RecordedGetsSession
<1>1. IInv => RecordedGetsSession
  <2>1. SUFFICES ASSUME IInv, NEW r \in Requests,
                        req[r].op = "session", req[r].pc = "done",
                        req[r].recorded, ~req[r].fault
                 PROVE  req[r].answer \in Jwts <=>
                          \/ req[r].answer = req[r].pdsJwt
                          \/ Canon[logins[req[r].token].user] = logins[req[r].token].user
    BY DEF RecordedGetsSession
  <2>2. PICK q \in Request : q = req[r] BY <2>1 DEF IInv
  <2>3. Sound(q) BY <2>1, <2>2 DEF IInv
  <2> QED BY <2>1, <2>2, <2>3 DEF Sound, HistoryHolds, RowHolds, Settled
<1> QED BY <1>1, Invariant, PTL

\* getPdsSession: besides logins, only a request whose own session ended, or
\* could not be checked, opens a new one.
THEOREM RenewalsAreNeeded == Spec => RenewedOnlyIfNeeded
<1> DEFINE Renewed(j) == /\ pds[j].state = "none"
                         /\ pds'[j].state = "live"
                         /\ logins' = logins
           Needed == \E r \in Requests : /\ req[r].pc = "connect"
                                         /\ req'[r].pc = "done"
                                         /\ ~Alive(req[r].claims.jwt) \/ req[r].fault
<1>1. IInv /\ [Next]_vars => [\A j \in Jwts : Renewed(j) => Needed]_vars
  <2>1. SUFFICES ASSUME IInv, Next, NEW j \in Jwts, Renewed(j) PROVE Needed
    OBVIOUS
  <2>2. pds' # pds BY <2>1
  <2>3. CASE AccountStep BY <2>2, <2>3 DEF AccountStep
  <2>4. ASSUME NEW t \in Tokens, LoginAges(t) \/ LoginEnds(t) PROVE Needed
    BY <2>2, <2>4 DEF LoginAges, LoginEnds
  <2>5. ASSUME NEW t \in Tokens, NEW u \in Users, NewToken(t, u) PROVE Needed
    BY <2>1, <2>5 DEF NewToken, IInv, StoresHold
  <2>6. ASSUME NEW i \in Jwts, SessionExpires(i) PROVE Needed
    BY <2>1, <2>6 DEF SessionExpires, IInv, StoresHold
  <2>7. ASSUME NEW r \in Requests,
               \/ \E t \in Tokens : Receive(r, t)
               \/ loggedInMiddleware(r) \/ HandlerValidSession(r)
               \/ GetPdsUserByHandle(r) \/ getPdsTimeline(r)
        PROVE  Needed
    BY <2>2, <2>7 DEF Receive, loggedInMiddleware, HandlerValidSession,
       GetPdsUserByHandle, getPdsTimeline
  <2>8. ASSUME NEW r \in Requests, ConnectToGetSession(r) PROVE Needed
    <3>1. PICK q \in Request : q = req[r] BY <2>1 DEF IInv
    <3>2. PICK i \in Jwts : Becomes(r, Answer(q, i))
      BY <2>2, <2>8, <3>1 DEF ConnectToGetSession
    <3>3. Answer(q, i).pc = "done" BY AnswerFacts
    <3>4. req'[r] = Answer(q, i) BY <2>1, <3>2 DEF Becomes, IInv
    <3>5. Sound(q) /\ q.pc = "connect"
      BY <2>1, <2>8, <3>1 DEF IInv, ConnectToGetSession
    <3>6. ~Alive(q.claims.jwt) \/ q.fault BY <3>5 DEF Sound, HistoryHolds
    <3> QED BY <3>1, <3>3, <3>4, <3>5, <3>6
  <2>9. CASE Crash BY <2>2, <2>9 DEF Crash
  <2> QED BY <2>1, <2>3, <2>4, <2>5, <2>6, <2>7, <2>8, <2>9 DEF Next, Register,
             LogIn, getPdsSession
<1> QED BY <1>1, Invariant, PTL DEF Spec, RenewedOnlyIfNeeded
=============================================================================
