--------------------------- MODULE LifecycleProofs ---------------------------
(***************************************************************************)
(* What becomes of an account and of its password: further proofs about    *)
(* the account saga, on top of the invariant of AccountsProofs, and the    *)
(* proof that the saga implements AccountLifecycle.                        *)
(***************************************************************************)
EXTENDS AccountsProofs

\* A registration that has ended, of the account of handle h with DID d.
Signs(m, h, d) == CreatesFor(m, h) /\ req[m].pc = "done" /\ req[m].did = d

\* A fault is the last thing that happens to a request.
FaultEnds == \A r \in Requests : req[r].fault => req[r].pc \in {"done", "lost"}

\* A row is kept under a canonical handle, and its registration is known.
RowsAreSigned ==
    \A h \in Handles : rows[h] # None =>
        /\ PdsHandle(h) = h
        /\ \E m \in Requests : Signs(m, h, rows[h].did)

\* The password a login is about to use is blank or that of the user's row.
KeysAreRows ==
    \A r \in Requests : req[r].pc = "connect" /\ req[r].password # Blank =>
        /\ rows[HandleOf(r)] # None
        /\ req[r].password = rows[HandleOf(r)].password

\* Each password is held once, and only before it is saved.
OneHolder ==
    /\ \A q, r \in Requests :
         /\ req[q].pc = "row" /\ req[r].pc = "row"
         /\ PdsHandle(HandleOf(q)) = PdsHandle(HandleOf(r))
         => q = r
    /\ \A r \in Requests : req[r].pc = "row" => rows[PdsHandle(HandleOf(r))] = None

\* A password that is neither saved nor held was lost to a fault.
LossesAreFaults ==
    \A h \in Handles : accounts[h] # None /\ rows[h] = None =>
        \E r \in Requests : \/ Holds(r, h)
                            \/ CreatesFor(r, h) /\ req[r].fault

\* A registration that ends without a fault finds, or leaves, an account.
EndsWithAccount ==
    \A r \in Requests :
        /\ req[r].op \in Creators /\ req[r].authed
        /\ ~req[r].fault /\ ~Running(r)
        => accounts[PdsHandle(HandleOf(r))] # None

\* Who is logged in was registered, with the DID of the session.
LoginsAreSigned ==
    \A r \in Requests : req[r].op \in Openers /\ req[r].answer = "ok" =>
        /\ req[r].did \in Dids
        /\ \E m \in Requests : Signs(m, PdsHandle(HandleOf(r)), req[r].did)

Fates == /\ FaultEnds
         /\ RowsAreSigned
         /\ KeysAreRows
         /\ OneHolder
         /\ LossesAreFaults
         /\ EndsWithAccount
         /\ LoginsAreSigned
         /\ FoundRowLogsIn
-----------------------------------------------------------------------------
(* How a step may rewrite one request: q is the request before, s after.   *)

Kept(q, s) == s.op = q.op /\ s.user = q.user /\ s.authed = q.authed

\* Received, or refused for its form.
Begins(q, s) == /\ q.pc = "idle"
                /\ s.pc \in {"auth", "done"} /\ s.answer # "ok"
                /\ ~s.authed /\ ~s.fault

\* Accepted by the auth service, or given an invite code.
Proceeds(q, s) == /\ \/ q.pc = "auth" /\ s.pc \in {"invite", "lookup"}
                     \/ q.pc = "invite" /\ s.pc = "account"
                  /\ s.answer = "none" /\ s.fault = q.fault

\* Failed, or lost with the process.
Fails(q, s) == /\ q.pc \notin {"idle", "done", "lost"} /\ q.answer = "none"
               /\ Kept(q, s)
               /\ s.pc \in {"done", "lost"} /\ s.answer # "ok" /\ s.fault

\* Refused by a service that did answer.
Refused(r) ==
    /\ Kept(req[r], req'[r])
    /\ req'[r].pc = "done" /\ req'[r].answer = "error"
    /\ req'[r].fault = req[r].fault /\ req'[r].password = req[r].password
    /\ req[r].answer = "none"
    /\ \/ req[r].pc = "auth"
       \/ req[r].pc = "account" /\ accounts[PdsHandle(HandleOf(r))] # None
       \/ req[r].pc = "connect" /\ ~Opens(HandleOf(r), req[r].password)

\* Given the password of its row, or none.
LooksUp(r) ==
    /\ Kept(req[r], req'[r])
    /\ req[r].pc = "lookup" /\ req'[r].pc = "connect"
    /\ req'[r].answer = "none" /\ req'[r].fault = req[r].fault
    /\ req'[r].password = IF rows[HandleOf(r)] # None
                          THEN rows[HandleOf(r)].password ELSE Blank

Moves(r) == \/ req'[r] = req[r]
            \/ Begins(req[r], req'[r])
            \/ Proceeds(req[r], req'[r])
            \/ Fails(req[r], req'[r])
            \/ Refused(r)
            \/ LooksUp(r)

\* A step that hosts nothing, records nothing and tells nobody of a success.
Settles == UNCHANGED <<accounts, rows>> /\ \A x \in Requests : Moves(x)

\* A login succeeds.
LogsIn(r) ==
    /\ UNCHANGED <<accounts, rows>>
    /\ \A x \in Requests : x # r => req'[x] = req[x]
    /\ Kept(req[r], req'[r])
    /\ req[r].pc = "connect" /\ req'[r].pc = "done" /\ req'[r].answer = "ok"
    /\ req'[r].fault = req[r].fault
    /\ Opens(HandleOf(r), req[r].password)
    /\ req'[r].did = accounts[PdsHandle(HandleOf(r))].did

\* One request is rewritten: the others, and the two stores, stay.
LEMMA SettlesByOne ==
    ASSUME IInv, NEW r \in Requests, NEW s, req' = [req EXCEPT ![r] = s],
           UNCHANGED <<accounts, rows>>,
           (req'[r] = s) => Moves(r)
    PROVE  Settles
<1>1. \A x \in Requests : req'[x] = IF x = r THEN s ELSE req[x]
  BY DEF IInv, Phases, TypeOK
<1> QED BY <1>1 DEF Settles, Moves

\* A call that failed, or whose reply was lost.
LEMMA FailureSettles ==
    ASSUME IInv, NEW r \in Requests, Running(r), req' = [req EXCEPT ![r] = Failed(r)],
           UNCHANGED <<accounts, rows>>
    PROVE  Settles
<1> DEFINE s == Failed(r)
<1> HIDE DEF s
<1>1. req[r] \in Request /\ WellPhased(req[r]) BY DEF IInv, Phases, TypeOK
<1>2. req[r].answer = "none" /\ req[r].pc \notin {"idle", "done", "lost"}
  BY <1>1 DEF WellPhased, Running, Request
<1>3. Fails(req[r], s) BY <1>1, <1>2, FailedFacts DEF Fails, Kept, s
<1>4. req' = [req EXCEPT ![r] = s] BY DEF s
<1> QED BY <1>3, <1>4, SettlesByOne DEF Moves

\* A service that answers no.
LEMMA RefusalSettles ==
    ASSUME IInv, NEW r \in Requests, req' = [req EXCEPT ![r] = Answer(r, "error")],
           UNCHANGED <<accounts, rows>>,
           \/ req[r].pc = "auth"
           \/ req[r].pc = "account" /\ accounts[PdsHandle(HandleOf(r))] # None
           \/ req[r].pc = "connect" /\ ~Opens(HandleOf(r), req[r].password)
    PROVE  Settles
<1> DEFINE s == Answer(r, "error")
<1> HIDE DEF s
<1>1. req[r] \in Request /\ WellPhased(req[r]) BY DEF IInv, Phases, TypeOK
<1>2. req[r].answer = "none" BY <1>1 DEF WellPhased
<1>3. /\ s.pc = "done" /\ s.answer = "error" /\ Kept(req[r], s)
      /\ s.password = req[r].password /\ s.fault = req[r].fault
  BY <1>1, AnswerFacts DEF s, Kept
<1>4. req' = [req EXCEPT ![r] = s] BY DEF s
<1>5. (req'[r] = s) => Refused(r) BY <1>2, <1>3 DEF Refused
<1> QED BY <1>4, <1>5, SettlesByOne DEF Moves

\* The steps before the PDS account, and the lookup of a login.
LEMMA ProgressSettles ==
    ASSUME IInv, NEW r \in Requests,
           \/ Receive(r) \/ RejectForm(r)
           \/ AuthAccepts(r) \/ CreateInviteCode(r) \/ GetPdsUserByHandle(r)
    PROVE  Settles
<1>0. TypeOK /\ req[r] \in Request /\ WellPhased(req[r])
  BY DEF IInv, Phases, TypeOK
<1>1. ASSUME NEW op \in Creators \cup Openers, NEW u \in Usernames \cup {None},
             NEW k \in SessionKeys \cup {None}, Arrive(r, op, u, k),
             op = "passkeyFinish" => k \in SessionKeys,
             op # "passkeyFinish" => u \in Usernames
      PROVE  Settles
  <2> DEFINE s == Arrived(op, u, k)
  <2> HIDE DEF s
  <2>1. s.pc = "auth" /\ ~s.authed /\ ~s.fault /\ s.answer = "none"
    BY <1>1, ArrivedFacts DEF s
  <2>2. req' = [req EXCEPT ![r] = s] BY <1>1 DEF Arrive, Arrived, s
  <2>3. req[r].pc = "idle" /\ UNCHANGED <<accounts, rows>> BY <1>1 DEF Arrive
  <2> QED BY <2>1, <2>2, <2>3, SettlesByOne DEF Moves, Begins
<1>2. CASE Receive(r)
  BY <1>1, <1>2, NoneAssumption DEF Receive, Creators, Openers
<1>3. CASE RejectForm(r)
  <2>1. PICK op \in {"register", "login", "passkeyFinish"} :
          req' = [req EXCEPT ![r] = Rejected(op)]
    BY <1>3 DEF RejectForm, Rejected
  <2> DEFINE s == Rejected(op)
  <2> HIDE DEF s
  <2>2. op \in Creators \cup Openers BY DEF Creators, Openers
  <2>3. s.pc = "done" /\ ~s.authed /\ ~s.fault /\ s.answer = "error"
    BY <2>2, RejectedFacts DEF s
  <2>4. req' = [req EXCEPT ![r] = s] BY <2>1 DEF s
  <2>5. req[r].pc = "idle" /\ UNCHANGED <<accounts, rows>> BY <1>3 DEF RejectForm
  <2> QED BY <2>3, <2>4, <2>5, SettlesByOne DEF Moves, Begins
<1>4. CASE AuthAccepts(r)
  <2>1. PICK u \in Usernames : Reply(r, Accepted(req[r], u))
    BY <1>4 DEF AuthAccepts
  <2> DEFINE s == Accepted(req[r], u)
  <2> HIDE DEF s
  <2>2. req[r].pc = "auth" /\ UNCHANGED <<accounts, rows>> BY <1>4 DEF AuthAccepts
  <2>3. req[r].answer = "none" /\ req[r].op \in Creators \cup Openers
    BY <1>0, <2>2 DEF WellPhased, Creators, Openers
  <2>4. s.pc \in {"invite", "lookup"} /\ s.answer = "none" /\ s.fault = req[r].fault
    BY <1>0, <2>3, AcceptedFacts DEF s
  <2>5. CASE req' = [req EXCEPT ![r] = s]
    BY <2>2, <2>4, <2>5, SettlesByOne DEF Moves, Proceeds
  <2>6. CASE req' = [req EXCEPT ![r] = Failed(r)]
    BY <2>2, <2>6, FailureSettles DEF Running
  <2> QED BY <2>1, <2>5, <2>6 DEF Reply, s
<1>5. CASE CreateInviteCode(r)
  <2>1. PICK c \in Codes : Reply(r, Invited(req[r], c))
    BY <1>5 DEF CreateInviteCode, Invited
  <2> DEFINE s == Invited(req[r], c)
  <2> HIDE DEF s
  <2>2. req[r].pc = "invite" /\ UNCHANGED <<accounts, rows>>
    BY <1>5 DEF CreateInviteCode
  <2>3. s.pc = "account" /\ s.answer = "none" /\ s.fault = req[r].fault
    BY <1>0, <2>2, InvitedFacts DEF s
  <2>4. CASE req' = [req EXCEPT ![r] = s]
    BY <2>2, <2>3, <2>4, SettlesByOne DEF Moves, Proceeds
  <2>5. CASE req' = [req EXCEPT ![r] = Failed(r)]
    BY <2>2, <2>5, FailureSettles DEF Running
  <2> QED BY <2>1, <2>4, <2>5 DEF Reply, s
<1>6. CASE GetPdsUserByHandle(r)
  <2> DEFINE p == IF rows[HandleOf(r)] # None THEN rows[HandleOf(r)].password ELSE Blank
             s == LookedUp(req[r], p)
  <2> HIDE DEF s
  <2>1. /\ req[r].pc = "lookup" /\ req' = [req EXCEPT ![r] = s]
        /\ UNCHANGED <<accounts, rows>>
    BY <1>6 DEF GetPdsUserByHandle, LookedUp, s
  <2>2. p \in Passwords \cup {Blank}
    <3>1. req[r].user \in Usernames BY <1>0, <2>1 DEF WellPhased
    <3>2. HandleOf(r) \in Handles BY <3>1, HandleFacts DEF HandleOf
    <3> QED BY <1>0, <3>2 DEF TypeOK, Account
  <2>3. /\ s.pc = "connect" /\ Kept(req[r], s) /\ s.password = p
        /\ s.answer = "none" /\ s.fault = req[r].fault
    <3> HIDE DEF p
    <3>1. req[r].authed BY <1>0, <2>1 DEF WellPhased
    <3>2. s.authed = TRUE /\ req[r].authed = TRUE
      BY <1>0, <2>1, <2>2, <3>1, LookedUpFacts DEF s, Request
    <3> QED BY <1>0, <2>1, <2>2, <3>2, LookedUpFacts DEF s, Kept
  <2>4. (req'[r] = s) => LooksUp(r) BY <2>1, <2>3 DEF LooksUp
  <2> QED BY <2>1, <2>4, SettlesByOne DEF Moves
<1> QED BY <1>2, <1>3, <1>4, <1>5, <1>6

\* Refusals, failed calls and the crash.
LEMMA StopsSettle ==
    ASSUME IInv,
           \/ \E r \in Requests : AuthRefuses(r) \/ CreateAccountRefused(r) \/ CallFails(r)
           \/ Crash
    PROVE  Settles
<1>1. ASSUME NEW r \in Requests, AuthRefuses(r) \/ CreateAccountRefused(r)
      PROVE  Settles
  <2>1. CASE CreateAccountRefused(r)
    BY <2>1, RefusalSettles DEF CreateAccountRefused, HandleTaken
  <2>2. CASE AuthRefuses(r)
    <3> DEFINE s == Accepted(req[r], req[r].user)
    <3> HIDE DEF s
    <3>1. /\ req[r].pc = "auth" /\ UNCHANGED <<accounts, rows>>
          /\ \/ req' = [req EXCEPT ![r] = Answer(r, "error")]
             \/ /\ req[r].op # "passkeyFinish"
                /\ req' = [req EXCEPT ![r] = s]
      BY <2>2 DEF AuthRefuses, s
    <3>2. CASE req' = [req EXCEPT ![r] = Answer(r, "error")]
      BY <3>1, <3>2, RefusalSettles
    <3>3. CASE /\ req[r].op # "passkeyFinish"
               /\ req' = [req EXCEPT ![r] = s]
      <4>1. req[r] \in Request /\ WellPhased(req[r])
        BY DEF IInv, Phases, TypeOK
      <4>2. /\ req[r].user \in Usernames /\ req[r].answer = "none"
            /\ req[r].op \in Creators \cup Openers
        BY <3>1, <3>3, <4>1 DEF WellPhased, Creators, Openers
      <4>3. s.pc \in {"invite", "lookup"} /\ s.answer = "none" /\ s.fault = req[r].fault
        BY <4>1, <4>2, AcceptedFacts DEF s
      <4> QED BY <3>1, <3>3, <4>3, SettlesByOne DEF Moves, Proceeds
    <3> QED BY <3>1, <3>2, <3>3
  <2> QED BY <1>1, <2>1, <2>2
<1>2. ASSUME NEW r \in Requests, CallFails(r) PROVE Settles
  BY <1>2, FailureSettles DEF CallFails
<1>3. CASE Crash
  <2>1. \A x \in Requests : req'[x] = IF Running(x) THEN Lost(req[x]) ELSE req[x]
    BY <1>3 DEF Crash, Lost
  <2>2. ASSUME NEW x \in Requests, Running(x) PROVE Fails(req[x], req'[x])
    <3> DEFINE s == Lost(req[x])
    <3> HIDE DEF s
    <3>1. /\ req[x] \in Request /\ WellPhased(req[x])
          /\ req[x].pc \notin {"idle", "done", "lost"}
      BY <2>2 DEF IInv, Phases, TypeOK, Running
    <3>2. req[x].answer = "none" BY <3>1 DEF WellPhased, Request
    <3>3. /\ s.pc = "lost" /\ s.op = req[x].op /\ s.user = req[x].user
          /\ s.authed = req[x].authed /\ s.answer = "none" /\ s.fault
      BY <3>1, LostFacts DEF s
    <3>4. req'[x] = s BY <2>1, <2>2 DEF s
    <3> QED BY <3>1, <3>2, <3>3, <3>4 DEF Fails, Kept
  <2> QED BY <1>3, <2>1, <2>2 DEF Settles, Moves, Crash
<1> QED BY <1>1, <1>2, <1>3

\* A login either fails, or opens the account and leaves all else alone.
LEMMA ConnectCases ==
    ASSUME IInv, NEW r \in Requests, Connect(r) PROVE Settles \/ LogsIn(r)
<1>1. /\ req[r] \in Request /\ WellPhased(req[r]) /\ req[r].pc = "connect"
      /\ UNCHANGED <<accounts, rows>>
  BY DEF IInv, Phases, TypeOK, Connect
<1>2. /\ req[r].user \in Usernames /\ req[r].op \in Openers /\ req[r].authed
      /\ req[r].answer = "none"
  BY <1>1 DEF WellPhased
<1>3. CASE Opens(HandleOf(r), req[r].password)
  <2> DEFINE q == Answer(r, "ok")
             d == accounts[PdsHandle(HandleOf(r))].did
             s == Opened(q, d)
  <2>1. req' = [req EXCEPT ![r] = s] BY <1>3 DEF Connect, Opened
  <2>2. d \in Dids
    <3>1. PdsHandle(HandleOf(r)) \in Handles BY <1>2, HandleFacts DEF HandleOf
    <3> QED BY <1>3, <3>1 DEF Opens, IInv, Phases, TypeOK, Account
  <2> HIDE DEF q, d, s
  <2>3. /\ q \in Request /\ q.pc = "done" /\ q.answer = "ok" /\ Kept(req[r], q)
        /\ q.fault = req[r].fault
    BY <1>1, AnswerFacts DEF q, Kept
  <2>4. WellPhased(q) /\ q.op \notin Creators
    BY <1>2, <2>3 DEF WellPhased, Kept, Openers, Creators
  <2>5. /\ s.pc = "done" /\ s.answer = "ok" /\ Kept(req[r], s)
        /\ s.fault = req[r].fault /\ s.did = d
    BY <2>2, <2>3, <2>4, OpenedFacts DEF s, Kept
  <2>6. \A x \in Requests : req'[x] = IF x = r THEN s ELSE req[x]
    BY <2>1 DEF IInv, Phases, TypeOK
  <2> QED BY <1>1, <1>3, <2>5, <2>6 DEF LogsIn, d
<1>4. CASE ~Opens(HandleOf(r), req[r].password)
  <2>1. req' = [req EXCEPT ![r] = Answer(r, "error")] BY <1>4 DEF Connect
  <2> QED BY <1>1, <1>4, <2>1, RefusalSettles
<1> QED BY <1>3, <1>4

\* A hosted account: its password is held, or lost with the reply.
LEMMA CreateAccountFacts ==
    ASSUME IInv, NEW r \in Requests, CreateAccount(r)
    PROVE  LET h == PdsHandle(HandleOf(r)) IN
           /\ h \in Handles
           /\ accounts[h] = None /\ accounts'[h] # None
           /\ rows' = rows /\ rows[h] = None
           /\ \A g \in Handles : g # h => accounts'[g] = accounts[g]
           /\ \A x \in Requests : x # r => req'[x] = req[x]
           /\ req[r].pc = "account" /\ req[r].op \in Creators /\ req[r].authed
           /\ Kept(req[r], req'[r])
           /\ req[r].answer = "none" /\ req'[r].answer # "ok"
           /\ \/ req'[r].pc = "row" /\ req'[r].fault = req[r].fault
              \/ req'[r].pc = "done" /\ req'[r].fault
<1> DEFINE h == PdsHandle(HandleOf(r))
<1>0. /\ req \in [Requests -> Request] /\ req[r] \in Request /\ WellPhased(req[r])
      /\ req[r].pc = "account" /\ rows' = rows
      /\ accounts \in [Handles -> Account \cup {None}]
  BY DEF IInv, Phases, TypeOK, CreateAccount
<1>1. /\ req[r].op \in Creators /\ req[r].authed /\ req[r].answer = "none"
      /\ req[r].user \in Usernames /\ req[r].code \in Codes
  BY <1>0 DEF WellPhased
<1>2. h \in Handles /\ accounts[h] = None /\ rows[h] = None
  <2>1. h \in Handles /\ accounts[h] = None
    BY <1>1, HandleFacts DEF HandleOf, CreateAccount, HandleTaken
  <2> QED BY <2>1 DEF IInv, RowOpensAccount
<1>3. PICK p \in Passwords, d \in FreshDids :
        /\ accounts' = [accounts EXCEPT ![h] =
                          [password |-> p, did |-> d, code |-> req[r].code]]
        /\ Reply(r, Hosted(req[r], p, d))
  BY DEF CreateAccount, Hosted
<1> DEFINE a == [password |-> p, did |-> d, code |-> req[r].code]
           s == Hosted(req[r], p, d)
<1> HIDE DEF h, s
<1>4. d \in Dids BY DEF FreshDids
<1>5. a # None BY <1>1, <1>4, NoneAssumption DEF Account
<1>6. \A g \in Handles : accounts'[g] = IF g = h THEN a ELSE accounts[g]
  BY <1>0, <1>2, <1>3
<1>7. /\ s.pc = "row" /\ s.op = req[r].op /\ s.user = req[r].user /\ s.authed
      /\ s.answer = "none" /\ s.fault = req[r].fault /\ s \in Request
  BY <1>0, <1>4, HostedFacts DEF s
<1>8. Kept(req[r], s)
  <2>1. s.authed = TRUE /\ req[r].authed = TRUE BY <1>0, <1>1, <1>7 DEF Request
  <2> QED BY <1>7, <2>1 DEF Kept
<1>9. PICK q \in {s, Failed(r)} : req' = [req EXCEPT ![r] = q]
  BY <1>3 DEF Reply, s
<1>10. \A x \in Requests : req'[x] = IF x = r THEN q ELSE req[x]
  BY <1>0, <1>9
<1>11. /\ Kept(req[r], q) /\ q.answer # "ok"
       /\ \/ q.pc = "row" /\ q.fault = req[r].fault
          \/ q.pc = "done" /\ q.fault
  BY <1>0, <1>7, <1>8, FailedFacts DEF Kept
<1>12. req'[r] = q BY <1>10
<1> QED BY <1>0, <1>1, <1>2, <1>5, <1>6, <1>10, <1>11, <1>12 DEF h

\* A saved row: it is the account's, and the one who saved it has its DID.
LEMMA CreatePdsUserFacts ==
    ASSUME IInv, NEW r \in Requests, CreatePdsUser(r)
    PROVE  LET h == PdsHandle(HandleOf(r)) IN
           /\ h \in Handles
           /\ accounts' = accounts /\ accounts[h] # None
           /\ rows[h] = None /\ rows'[h] # None /\ rows'[h].did = req[r].did
           /\ \A g \in Handles : g # h => rows'[g] = rows[g]
           /\ \A x \in Requests : x # r => req'[x] = req[x]
           /\ req[r].pc = "row" /\ req[r].op \in Creators /\ req[r].authed
           /\ Kept(req[r], req'[r]) /\ req'[r].did = req[r].did
           /\ req[r].answer = "none" /\ req'[r].pc = "done"
           /\ \/ req'[r].answer = "ok" /\ req'[r].fault = req[r].fault
              \/ req'[r].answer = "error" /\ req'[r].fault
<1> DEFINE h == PdsHandle(HandleOf(r))
           a == StoredUser(r)
           ok == Answer(r, "ok")
<1>0. /\ req \in [Requests -> Request] /\ req[r] \in Request /\ WellPhased(req[r])
      /\ req[r].pc = "row" /\ accounts' = accounts /\ rows[h] = None
      /\ rows' = [rows EXCEPT ![h] = a]
      /\ rows \in [Handles -> Account \cup {None}]
  BY DEF IInv, Phases, TypeOK, CreatePdsUser
<1>1. /\ req[r].op \in Creators /\ req[r].authed /\ req[r].answer = "none"
      /\ req[r].user \in Usernames
  BY <1>0 DEF WellPhased
<1>2. h \in Handles BY <1>1, HandleFacts DEF HandleOf
<1>3. accounts[h] = a /\ a # None /\ a.did = req[r].did
  BY <1>0, StoredUserFacts DEF IInv, HeldKeysOpen, StoredUser
<1>4. Reply(r, ok) BY DEF CreatePdsUser
<1> HIDE DEF h, a, ok
<1>5. /\ ok.pc = "done" /\ ok.answer = "ok" /\ Kept(req[r], ok)
      /\ ok.did = req[r].did /\ ok.fault = req[r].fault
  BY <1>0, AnswerFacts DEF ok, Kept
<1>6. PICK q \in {ok, Failed(r)} : req' = [req EXCEPT ![r] = q]
  BY <1>4 DEF Reply
<1>7. \A x \in Requests : req'[x] = IF x = r THEN q ELSE req[x]
  BY <1>0, <1>6
<1>8. /\ Kept(req[r], q) /\ q.did = req[r].did /\ q.pc = "done"
      /\ \/ q.answer = "ok" /\ q.fault = req[r].fault
         \/ q.answer = "error" /\ q.fault
  BY <1>0, <1>5, FailedFacts DEF Kept
<1>9. \A g \in Handles : rows'[g] = IF g = h THEN a ELSE rows[g]
  BY <1>0, <1>2
<1>10. req'[r] = q BY <1>7
<1> QED BY <1>0, <1>1, <1>2, <1>3, <1>7, <1>8, <1>9, <1>10 DEF h

\* Every step is of one of four kinds.
LEMMA StepCases ==
    ASSUME IInv, [Next]_vars
    PROVE  \/ Settles
           \/ \E r \in Requests : LogsIn(r) \/ CreateAccount(r) \/ CreatePdsUser(r)
<1>1. CASE UNCHANGED vars BY <1>1 DEF vars, Settles, Moves
<1>2. CASE Next
  <2>1. ASSUME NEW r \in Requests,
               Receive(r) \/ RejectForm(r) \/ Step(r) \/ CallFails(r)
        PROVE  Settles \/ LogsIn(r) \/ CreateAccount(r) \/ CreatePdsUser(r)
    BY <2>1, ProgressSettles, StopsSettle, ConnectCases
       DEF Step, register, FinishPasskeyRegister, login, AssertionResult,
           CreateBlueskyPdsAccount
  <2>2. ASSUME NEW k \in SessionKeys,
               \/ \E u \in Usernames : StartPasskeyRegister(u, k)
               \/ CancelPasskeyRegister(k)
               \/ FinishPasskeyTransferRegister(k)
        PROVE  Settles
    BY <2>2 DEF StartPasskeyRegister, CancelPasskeyRegister,
       FinishPasskeyTransferRegister, Settles, Moves
  <2> QED BY <1>2, <2>1, <2>2, StopsSettle DEF Next
<1> QED BY <1>1, <1>2
-----------------------------------------------------------------------------
(* The invariant Fates is inductive, relative to IInv.                     *)

\* Nothing has happened yet.
LEMMA InitFates == Init => Fates
<1> SUFFICES ASSUME Init PROVE Fates OBVIOUS
<1>1. \A r \in Requests : req[r] = Idle BY DEF Init
<1>2. /\ Idle.pc = "idle" /\ Idle.answer = "none" /\ ~Idle.authed /\ ~Idle.fault
  BY DEF Idle
<1>3. FaultEnds /\ KeysAreRows /\ OneHolder /\ EndsWithAccount
  BY <1>1, <1>2 DEF FaultEnds, KeysAreRows, OneHolder, EndsWithAccount
<1>4. LoginsAreSigned /\ FoundRowLogsIn
  BY <1>1, <1>2 DEF LoginsAreSigned, FoundRowLogsIn
<1>5. RowsAreSigned /\ LossesAreFaults BY DEF Init, RowsAreSigned, LossesAreFaults
<1> QED BY <1>3, <1>4, <1>5 DEF Fates

\* A registration that has ended is not rewritten: its signature stays.
LEMMA SignatureStays ==
    ASSUME NEW m \in Requests, NEW h, NEW d, Signs(m, h, d), req'[m] = req[m]
    PROVE  Signs(m, h, d)'
BY DEF Signs, CreatesFor, HandleOf

\* A request's handle goes with its user.
LEMMA SameHandle ==
    ASSUME NEW r \in Requests, Kept(req[r], req'[r]) \/ req'[r] = req[r]
    PROVE  HandleOf(r)' = HandleOf(r)
BY DEF Kept, HandleOf

\* A row that login finds opens the account, whatever the spelling.
LEMMA RowsOpen ==
    ASSUME IInv, Fates, NEW r \in Requests, req[r].pc = "connect",
           ~Opens(HandleOf(r), req[r].password)
    PROVE  req[r].password = Blank
<1> SUFFICES ASSUME req[r].password # Blank PROVE FALSE OBVIOUS
<1> DEFINE h == HandleOf(r)
<1>1. h \in Handles BY HandleFacts DEF IInv, Phases, WellPhased, HandleOf
<1>2. rows[h] # None /\ req[r].password = rows[h].password BY DEF Fates, KeysAreRows
<1>3. PdsHandle(h) = h BY <1>1, <1>2 DEF Fates, RowsAreSigned
<1>4. accounts[h] = rows[h] BY <1>1, <1>2 DEF IInv, RowOpensAccount
<1> QED BY <1>2, <1>3, <1>4 DEF Opens

\* Steps that settle keep every part.
LEMMA SettlesKeepsFates ==
    ASSUME IInv, Fates, Settles PROVE Fates'
<1> USE DEF Fates
<1>0. accounts' = accounts /\ rows' = rows /\ \A x \in Requests : Moves(x)
  BY DEF Settles
<1>1. ASSUME NEW x \in Requests, req[x].pc \in {"done", "lost"}
      PROVE  req'[x] = req[x]
  BY <1>0, <1>1 DEF Moves, Begins, Proceeds, Fails, Refused, LooksUp
<1>2. ASSUME NEW x \in Requests, req[x].pc = "row"
      PROVE  req'[x] = req[x] \/ Fails(req[x], req'[x])
  BY <1>0, <1>2 DEF Moves, Begins, Proceeds, Refused, LooksUp
<1>3. ASSUME NEW x \in Requests, req'[x].pc = "row" PROVE req'[x] = req[x]
  BY <1>0, <1>3 DEF Moves, Begins, Proceeds, Fails, Refused, LooksUp
<1>4. FaultEnds'
  <2> SUFFICES ASSUME NEW x \in Requests, req'[x].fault
               PROVE  req'[x].pc \in {"done", "lost"}
    BY DEF FaultEnds
  <2> QED BY <1>0 DEF FaultEnds, Moves, Begins, Proceeds, Fails, Refused, LooksUp
<1>5. RowsAreSigned'
  <2> SUFFICES ASSUME NEW h \in Handles, rows[h] # None
               PROVE  PdsHandle(h) = h /\ \E m \in Requests : Signs(m, h, rows[h].did)'
    BY <1>0 DEF RowsAreSigned
  <2>1. PICK m \in Requests : PdsHandle(h) = h /\ Signs(m, h, rows[h].did)
    BY DEF RowsAreSigned
  <2>2. PICK d : d = rows[h].did OBVIOUS
  <2>3. req'[m] = req[m] BY <1>1, <2>1 DEF Signs
  <2>4. Signs(m, h, d)' BY <2>1, <2>2, <2>3, SignatureStays
  <2> QED BY <1>0, <2>1, <2>2, <2>4
<1>6. KeysAreRows'
  <2> SUFFICES ASSUME NEW x \in Requests,
                      req'[x].pc = "connect", req'[x].password # Blank
               PROVE  /\ rows[HandleOf(x)'] # None
                      /\ req'[x].password = rows[HandleOf(x)'].password
    BY <1>0 DEF KeysAreRows, HandleOf
  <2>1. req'[x] = req[x] \/ LooksUp(x)
    BY <1>0 DEF Moves, Begins, Proceeds, Fails, Refused
  <2>2. HandleOf(x)' = HandleOf(x) BY <2>1, SameHandle DEF LooksUp
  <2> QED BY <2>1, <2>2 DEF KeysAreRows, LooksUp
<1>7. OneHolder'
  <2>1. ASSUME NEW x \in Requests, req'[x].pc = "row"
        PROVE  req[x].pc = "row" /\ HandleOf(x)' = HandleOf(x)
    BY <1>3, <2>1, SameHandle
  <2>2. ASSUME NEW q \in Requests, NEW r \in Requests,
               req'[q].pc = "row", req'[r].pc = "row",
               PdsHandle(HandleOf(q)') = PdsHandle(HandleOf(r)')
        PROVE  q = r
    BY <2>1, <2>2 DEF OneHolder
  <2>3. ASSUME NEW r \in Requests, req'[r].pc = "row"
        PROVE  rows'[PdsHandle(HandleOf(r)')] = None
    BY <1>0, <2>1, <2>3 DEF OneHolder
  <2> QED BY <2>2, <2>3 DEF OneHolder, PdsHandle
<1>8. LossesAreFaults'
  <2> SUFFICES ASSUME NEW h \in Handles, accounts[h] # None, rows[h] = None
               PROVE  \E r \in Requests : \/ Holds(r, h)'
                                          \/ CreatesFor(r, h)' /\ req'[r].fault
    BY <1>0 DEF LossesAreFaults
  <2>1. PICK r \in Requests : \/ Holds(r, h)
                              \/ CreatesFor(r, h) /\ req[r].fault
    BY DEF LossesAreFaults
  <2>2. CASE Holds(r, h)
    <3>1. req'[r] = req[r] \/ Fails(req[r], req'[r]) BY <1>2, <2>2 DEF Holds
    <3>2. HandleOf(r)' = HandleOf(r) BY <3>1, SameHandle DEF Fails
    <3>3. CASE req'[r] = req[r] BY <2>2, <3>2, <3>3 DEF Holds, PdsHandle
    <3>4. CASE Fails(req[r], req'[r])
      <4>1. req[r].op \in Creators /\ req[r].authed
        BY <2>2 DEF Holds, IInv, Phases, WellPhased
      <4>2. req'[r].op \in Creators /\ req'[r].authed /\ req'[r].fault
        BY <3>4, <4>1 DEF Fails, Kept
      <4> QED BY <2>2, <3>2, <4>2 DEF Holds, CreatesFor, PdsHandle
    <3> QED BY <3>1, <3>3, <3>4
  <2>3. CASE CreatesFor(r, h) /\ req[r].fault
    <3>1. req'[r] = req[r] BY <1>1, <2>3 DEF FaultEnds
    <3> QED BY <2>3, <3>1 DEF CreatesFor, HandleOf
  <2> QED BY <2>1, <2>2, <2>3
<1>9. EndsWithAccount'
  <2> SUFFICES ASSUME NEW x \in Requests, req'[x].op \in Creators, req'[x].authed,
                      ~req'[x].fault, req'[x].pc \in {"idle", "done", "lost"}
               PROVE  accounts[PdsHandle(HandleOf(x)')] # None
    BY <1>0 DEF EndsWithAccount, Running, PdsHandle
  <2>1. req'[x] = req[x] \/ Refused(x)
    BY <1>0 DEF Moves, Begins, Proceeds, Fails, LooksUp
  <2>2. HandleOf(x)' = HandleOf(x) BY <2>1, SameHandle DEF Refused
  <2>3. CASE req'[x] = req[x] BY <2>2, <2>3 DEF EndsWithAccount, Running
  <2>4. CASE Refused(x)
    <3>1. req[x].op \in Creators /\ req[x].authed BY <2>4 DEF Refused, Kept
    <3>2. req[x].pc \notin {"auth", "connect"}
      BY <3>1 DEF IInv, Phases, WellPhased, Creators, Openers
    <3> QED BY <2>2, <2>4, <3>2 DEF Refused
  <2> QED BY <2>1, <2>3, <2>4
<1>10. LoginsAreSigned'
  <2> SUFFICES ASSUME NEW x \in Requests, req'[x].op \in Openers, req'[x].answer = "ok"
               PROVE  /\ req'[x].did \in Dids
                      /\ \E m \in Requests :
                           Signs(m, PdsHandle(HandleOf(x)), req[x].did)'
    BY DEF LoginsAreSigned
  <2>1. req'[x] = req[x]
    BY <1>0 DEF Moves, Begins, Proceeds, Fails, Refused, LooksUp
  <2>2. PICK m \in Requests : /\ req[x].did \in Dids
                              /\ Signs(m, PdsHandle(HandleOf(x)), req[x].did)
    BY <2>1 DEF LoginsAreSigned
  <2>3. req'[m] = req[m] BY <1>1, <2>2 DEF Signs
  <2> QED BY <2>1, <2>2, <2>3 DEF Signs, CreatesFor, HandleOf
<1>11. FoundRowLogsIn'
  <2> SUFFICES ASSUME NEW x \in Requests, req'[x].op \in Openers, req'[x].authed,
                      req'[x].answer = "error", ~req'[x].fault
               PROVE  req'[x].password = Blank
    BY DEF FoundRowLogsIn
  <2>1. req'[x] = req[x] \/ Refused(x)
    BY <1>0 DEF Moves, Begins, Proceeds, Fails, LooksUp
  <2>2. CASE req'[x] = req[x] BY <2>2 DEF FoundRowLogsIn
  <2>3. CASE Refused(x)
    <3>1. req[x].op \in Openers /\ req[x].authed BY <2>3 DEF Refused, Kept
    <3>2. req[x].pc \notin {"auth", "account"}
      BY <3>1 DEF IInv, Phases, WellPhased, Creators, Openers
    <3> QED BY <2>3, <3>2, RowsOpen DEF Refused
  <2> QED BY <2>1, <2>2, <2>3
<1> QED BY <1>4, <1>5, <1>6, <1>7, <1>8, <1>9, <1>10, <1>11

\* A login that succeeds used its own row's password: the row's signature is
\* the session's.
LEMMA LogsInFacts ==
    ASSUME IInv, Fates, NEW r \in Requests, LogsIn(r)
    PROVE  LET h == HandleOf(r) IN
           /\ h \in Handles /\ PdsHandle(h) = h /\ rows[h] # None
           /\ accounts[h] = rows[h] /\ rows[h] \in Account
           /\ req'[r].did = rows[h].did
<1> DEFINE h == HandleOf(r)
<1>1. h \in Handles /\ PdsHandle(h) \in Handles
  BY HandleFacts DEF IInv, Phases, WellPhased, HandleOf, LogsIn
<1>2. req[r].pc = "connect" /\ Opens(h, req[r].password) BY DEF LogsIn
<1>3. req[r].password # Blank
  <2>1. accounts[PdsHandle(h)] \in Account
    BY <1>1, <1>2 DEF Opens, IInv, Phases, TypeOK
  <2> QED BY <1>2, <2>1, NoneAssumption DEF Opens, Account
<1>4. rows[h] # None BY <1>2, <1>3 DEF Fates, KeysAreRows
<1>5. PdsHandle(h) = h BY <1>1, <1>4 DEF Fates, RowsAreSigned
<1>6. accounts[h] = rows[h] /\ rows[h] \in Account
  BY <1>1, <1>4 DEF IInv, RowOpensAccount, Phases, TypeOK
<1> QED BY <1>1, <1>4, <1>5, <1>6 DEF LogsIn

\* A successful login keeps every part: it changes one ended request.
LEMMA LogsInKeepsFates ==
    ASSUME IInv, Fates, NEW r \in Requests, LogsIn(r) PROVE Fates'
<1> USE DEF Fates
<1>0. /\ accounts' = accounts /\ rows' = rows
      /\ \A x \in Requests : x # r => req'[x] = req[x]
      /\ Kept(req[r], req'[r])
      /\ req[r].pc = "connect" /\ req'[r].pc = "done" /\ req'[r].answer = "ok"
  BY DEF LogsIn
<1>1. req[r].op \in Openers /\ req'[r].op \in Openers /\ req'[r].op \notin Creators
  BY <1>0 DEF IInv, Phases, WellPhased, Kept, Openers, Creators
<1>2. \A x \in Requests : HandleOf(x)' = HandleOf(x) BY <1>0, SameHandle
<1>3. ASSUME NEW m \in Requests, NEW h, NEW d, Signs(m, h, d) PROVE Signs(m, h, d)'
  <2>1. m # r BY <1>0, <1>3 DEF Signs
  <2> QED BY <1>0, <1>3, <2>1, SignatureStays
<1>4. FaultEnds' BY <1>0 DEF FaultEnds
<1>5. RowsAreSigned'
  <2> SUFFICES ASSUME NEW h \in Handles, rows[h] # None
               PROVE  PdsHandle(h) = h /\ \E m \in Requests : Signs(m, h, rows[h].did)'
    BY <1>0 DEF RowsAreSigned
  <2>1. PICK m \in Requests : PdsHandle(h) = h /\ Signs(m, h, rows[h].did)
    BY DEF RowsAreSigned
  <2>2. PICK d : d = rows[h].did OBVIOUS
  <2>3. Signs(m, h, d)' BY <1>3, <2>1, <2>2
  <2> QED BY <1>0, <2>1, <2>2, <2>3
<1>6. KeysAreRows' BY <1>0, <1>2 DEF KeysAreRows
<1>7. OneHolder'
  <2>1. ASSUME NEW x \in Requests, req'[x].pc = "row" PROVE req[x].pc = "row"
    BY <1>0, <2>1
  <2> QED BY <1>0, <1>2, <2>1 DEF OneHolder, PdsHandle
<1>8. LossesAreFaults'
  <2> SUFFICES ASSUME NEW h \in Handles, accounts[h] # None, rows[h] = None
               PROVE  \E x \in Requests : \/ Holds(x, h)'
                                          \/ CreatesFor(x, h)' /\ req'[x].fault
    BY <1>0 DEF LossesAreFaults
  <2>1. PICK x \in Requests : \/ Holds(x, h)
                              \/ CreatesFor(x, h) /\ req[x].fault
    BY DEF LossesAreFaults
  <2>2. x # r BY <1>0, <2>1 DEF Holds, FaultEnds
  <2>3. req'[x] = req[x] BY <1>0, <2>2
  <2> QED BY <1>2, <2>1, <2>3 DEF Holds, CreatesFor, PdsHandle
<1>9. EndsWithAccount'
  <2> SUFFICES ASSUME NEW x \in Requests, req'[x].op \in Creators, req'[x].authed,
                      ~req'[x].fault, req'[x].pc \in {"idle", "done", "lost"}
               PROVE  accounts[PdsHandle(HandleOf(x))] # None
    BY <1>0, <1>2 DEF EndsWithAccount, Running, PdsHandle
  <2>1. req'[x] = req[x] BY <1>0, <1>1
  <2> QED BY <2>1 DEF EndsWithAccount, Running
<1>10. LoginsAreSigned'
  <2> SUFFICES ASSUME NEW x \in Requests, req'[x].op \in Openers, req'[x].answer = "ok"
               PROVE  /\ req'[x].did \in Dids
                      /\ \E m \in Requests :
                           Signs(m, PdsHandle(HandleOf(x)), req[x].did)'
    BY DEF LoginsAreSigned
  <2>1. PICK h, d : h = PdsHandle(HandleOf(x)) /\ d = req'[x].did OBVIOUS
  <2>2. d \in Dids /\ \E m \in Requests : Signs(m, h, d)
    <3>1. CASE x # r BY <1>0, <2>1, <3>1 DEF LoginsAreSigned
    <3>2. CASE x = r
      <4>1. /\ HandleOf(r) \in Handles /\ h = HandleOf(r) /\ rows[h] # None
            /\ rows[h] \in Account /\ d = rows[h].did
        BY <2>1, <3>2, LogsInFacts
      <4> QED BY <4>1 DEF RowsAreSigned, Account
    <3> QED BY <3>1, <3>2
  <2>3. PICK m \in Requests : Signs(m, h, d)' BY <1>3, <2>2
  <2>4. PdsHandle(HandleOf(x))' = h BY <1>2, <2>1 DEF PdsHandle
  <2> QED BY <2>1, <2>2, <2>3, <2>4 DEF Signs
<1>11. FoundRowLogsIn' BY <1>0 DEF FoundRowLogsIn
<1> QED BY <1>4, <1>5, <1>6, <1>7, <1>8, <1>9, <1>10, <1>11

\* A new account is nobody's yet, and its password is held or lost by a fault.
LEMMA CreateAccountKeepsFates ==
    ASSUME IInv, Fates, NEW r \in Requests, CreateAccount(r) PROVE Fates'
<1> USE DEF Fates
<1> DEFINE h == PdsHandle(HandleOf(r))
<1>0. /\ h \in Handles
      /\ accounts[h] = None /\ accounts'[h] # None
      /\ rows' = rows /\ rows[h] = None
      /\ \A g \in Handles : g # h => accounts'[g] = accounts[g]
      /\ \A x \in Requests : x # r => req'[x] = req[x]
      /\ req[r].pc = "account" /\ req[r].op \in Creators /\ req[r].authed
      /\ Kept(req[r], req'[r])
      /\ req[r].answer = "none" /\ req'[r].answer # "ok"
      /\ \/ req'[r].pc = "row" /\ req'[r].fault = req[r].fault
         \/ req'[r].pc = "done" /\ req'[r].fault
  BY CreateAccountFacts
<1>1. req'[r].op \in Creators /\ req'[r].authed /\ req'[r].op \notin Openers
  BY <1>0 DEF Kept, Creators, Openers
<1>2. \A x \in Requests : HandleOf(x)' = HandleOf(x) BY <1>0, SameHandle
<1>3. ASSUME NEW m \in Requests, NEW g, NEW d, Signs(m, g, d) PROVE Signs(m, g, d)'
  <2>1. m # r BY <1>0, <1>3 DEF Signs
  <2> QED BY <1>0, <1>3, <2>1, SignatureStays
<1> HIDE DEF h
<1>4. FaultEnds' BY <1>0 DEF FaultEnds
<1>5. RowsAreSigned'
  <2> SUFFICES ASSUME NEW g \in Handles, rows[g] # None
               PROVE  PdsHandle(g) = g /\ \E m \in Requests : Signs(m, g, rows[g].did)'
    BY <1>0 DEF RowsAreSigned
  <2>1. PICK m \in Requests : PdsHandle(g) = g /\ Signs(m, g, rows[g].did)
    BY DEF RowsAreSigned
  <2>2. PICK d : d = rows[g].did OBVIOUS
  <2>3. Signs(m, g, d)' BY <1>3, <2>1, <2>2
  <2> QED BY <1>0, <2>1, <2>2, <2>3
<1>6. KeysAreRows' BY <1>0, <1>2 DEF KeysAreRows
<1>7. OneHolder'
  <2>1. ASSUME NEW x \in Requests, x # r, req'[x].pc = "row"
        PROVE  req[x].pc = "row" /\ PdsHandle(HandleOf(x)) # h
    <3>1. req[x].pc = "row" BY <1>0, <2>1
    <3>2. accounts[PdsHandle(HandleOf(x))] # None
      BY <3>1, StoredUserFacts DEF IInv, HeldKeysOpen
    <3> QED BY <1>0, <3>1, <3>2
  <2>2. ASSUME NEW x \in Requests, NEW y \in Requests,
               req'[x].pc = "row", req'[y].pc = "row",
               PdsHandle(HandleOf(x)) = PdsHandle(HandleOf(y))
        PROVE  x = y
    BY <2>1, <2>2 DEF OneHolder, h
  <2>3. ASSUME NEW x \in Requests, req'[x].pc = "row"
        PROVE  rows[PdsHandle(HandleOf(x))] = None
    BY <1>0, <2>1, <2>3 DEF OneHolder, h
  <2> QED BY <1>0, <1>2, <2>2, <2>3 DEF OneHolder, PdsHandle
<1>8. LossesAreFaults'
  <2> SUFFICES ASSUME NEW g \in Handles, accounts'[g] # None, rows[g] = None
               PROVE  \E x \in Requests : \/ Holds(x, g)'
                                          \/ CreatesFor(x, g)' /\ req'[x].fault
    BY <1>0 DEF LossesAreFaults
  <2>1. CASE g = h
    BY <1>0, <1>1, <1>2, <2>1 DEF Holds, CreatesFor, PdsHandle, h
  <2>2. CASE g # h
    <3>1. PICK x \in Requests : \/ Holds(x, g)
                                \/ CreatesFor(x, g) /\ req[x].fault
      BY <1>0, <2>2 DEF LossesAreFaults
    <3>2. x # r BY <1>0, <3>1 DEF Holds, FaultEnds
    <3>3. req'[x] = req[x] BY <1>0, <3>2
    <3> QED BY <1>2, <3>1, <3>3 DEF Holds, CreatesFor, PdsHandle
  <2> QED BY <2>1, <2>2
<1>9. EndsWithAccount'
  <2> SUFFICES ASSUME NEW x \in Requests, req'[x].op \in Creators, req'[x].authed,
                      ~req'[x].fault, req'[x].pc \in {"idle", "done", "lost"}
               PROVE  accounts'[PdsHandle(HandleOf(x))] # None
    BY <1>2 DEF EndsWithAccount, Running, PdsHandle
  <2>1. x # r BY <1>0
  <2>2. accounts[PdsHandle(HandleOf(x))] # None
    BY <1>0, <2>1 DEF EndsWithAccount, Running
  <2>3. PdsHandle(HandleOf(x)) \in Handles
    BY <1>0, <2>1, HandleFacts DEF HandleOf, IInv, Phases, WellPhased
  <2> QED BY <1>0, <2>2, <2>3
<1>10. LoginsAreSigned'
  <2> SUFFICES ASSUME NEW x \in Requests, req'[x].op \in Openers, req'[x].answer = "ok"
               PROVE  /\ req'[x].did \in Dids
                      /\ \E m \in Requests :
                           Signs(m, PdsHandle(HandleOf(x)), req[x].did)'
    BY DEF LoginsAreSigned
  <2>1. PICK g, d : g = PdsHandle(HandleOf(x)) /\ d = req'[x].did OBVIOUS
  <2>2. req'[x] = req[x] BY <1>0
  <2>3. d \in Dids /\ \E m \in Requests : Signs(m, g, d)
    BY <2>1, <2>2 DEF LoginsAreSigned
  <2>4. PICK m \in Requests : Signs(m, g, d)' BY <1>3, <2>3
  <2>5. PdsHandle(HandleOf(x))' = g BY <1>2, <2>1 DEF PdsHandle
  <2> QED BY <2>1, <2>3, <2>4, <2>5 DEF Signs
<1>11. FoundRowLogsIn' BY <1>0, <1>1 DEF FoundRowLogsIn
<1> QED BY <1>4, <1>5, <1>6, <1>7, <1>8, <1>9, <1>10, <1>11

\* Who saves a row has ended, and signs it.
LEMMA CreatePdsUserKeepsFates ==
    ASSUME IInv, Fates, NEW r \in Requests, CreatePdsUser(r) PROVE Fates'
<1> USE DEF Fates
<1> DEFINE h == PdsHandle(HandleOf(r))
<1>0. /\ h \in Handles
      /\ accounts' = accounts /\ accounts[h] # None
      /\ rows[h] = None /\ rows'[h] # None /\ rows'[h].did = req[r].did
      /\ \A g \in Handles : g # h => rows'[g] = rows[g]
      /\ \A x \in Requests : x # r => req'[x] = req[x]
      /\ req[r].pc = "row" /\ req[r].op \in Creators /\ req[r].authed
      /\ Kept(req[r], req'[r]) /\ req'[r].did = req[r].did
      /\ req[r].answer = "none" /\ req'[r].pc = "done"
      /\ \/ req'[r].answer = "ok" /\ req'[r].fault = req[r].fault
         \/ req'[r].answer = "error" /\ req'[r].fault
  BY CreatePdsUserFacts
<1>1. req'[r].op \in Creators /\ req'[r].authed /\ req'[r].op \notin Openers
  BY <1>0 DEF Kept, Creators, Openers
<1>2. /\ \A x \in Requests : HandleOf(x)' = HandleOf(x)
      /\ PdsHandle(h) = h
  <2>1. HandleOf(r) \in Handles
    BY <1>0, HandleFacts DEF HandleOf, IInv, Phases, WellPhased
  <2> QED BY <1>0, <2>1, SameHandle, HandleFacts
<1>3. ASSUME NEW m \in Requests, NEW g, NEW d, Signs(m, g, d) PROVE Signs(m, g, d)'
  <2>1. m # r BY <1>0, <1>3 DEF Signs
  <2> QED BY <1>0, <1>3, <2>1, SignatureStays
<1> HIDE DEF h
<1>4. FaultEnds' BY <1>0 DEF FaultEnds
<1>5. RowsAreSigned'
  <2> SUFFICES ASSUME NEW g \in Handles, rows'[g] # None
               PROVE  PdsHandle(g) = g /\ \E m \in Requests : Signs(m, g, rows[g].did)'
    BY DEF RowsAreSigned
  <2>1. PICK d : d = rows'[g].did OBVIOUS
  <2>2. CASE g = h
    <3>1. Signs(r, g, d)'
      BY <1>0, <1>1, <1>2, <2>1, <2>2 DEF Signs, CreatesFor, PdsHandle, h
    <3> QED BY <1>2, <2>1, <2>2, <3>1
  <2>3. CASE g # h
    <3>1. PICK m \in Requests : PdsHandle(g) = g /\ Signs(m, g, d)
      BY <1>0, <2>1, <2>3 DEF RowsAreSigned
    <3> QED BY <1>3, <2>1, <3>1
  <2> QED BY <2>2, <2>3
<1>6. KeysAreRows'
  <2> SUFFICES ASSUME NEW x \in Requests,
                      req'[x].pc = "connect", req'[x].password # Blank
               PROVE  /\ rows'[HandleOf(x)] # None
                      /\ req'[x].password = rows'[HandleOf(x)].password
    BY <1>2 DEF KeysAreRows
  <2>1. req'[x] = req[x] BY <1>0
  <2>2. rows[HandleOf(x)] # None /\ req[x].password = rows[HandleOf(x)].password
    BY <2>1 DEF KeysAreRows
  <2>3. HandleOf(x) \in Handles
    BY <2>1, HandleFacts DEF HandleOf, IInv, Phases, WellPhased
  <2> QED BY <1>0, <2>1, <2>2, <2>3
<1>7. OneHolder'
  <2>1. ASSUME NEW x \in Requests, req'[x].pc = "row"
        PROVE  /\ x # r /\ req[x].pc = "row" /\ PdsHandle(HandleOf(x)) # h
               /\ PdsHandle(HandleOf(x)) \in Handles
    <3>1. x # r /\ req[x].pc = "row" BY <1>0, <2>1
    <3>2. PdsHandle(HandleOf(x)) # h BY <1>0, <3>1 DEF OneHolder, h
    <3>3. PdsHandle(HandleOf(x)) \in Handles
      BY <3>1, HandleFacts DEF HandleOf, IInv, Phases, WellPhased
    <3> QED BY <3>1, <3>2, <3>3
  <2>2. ASSUME NEW x \in Requests, req'[x].pc = "row"
        PROVE  rows'[PdsHandle(HandleOf(x))] = None
    BY <1>0, <2>1, <2>2 DEF OneHolder
  <2>3. ASSUME NEW x \in Requests, NEW y \in Requests,
               req'[x].pc = "row", req'[y].pc = "row",
               PdsHandle(HandleOf(x)) = PdsHandle(HandleOf(y))
        PROVE  x = y
    BY <2>1, <2>3 DEF OneHolder
  <2> QED BY <1>2, <2>2, <2>3 DEF OneHolder, PdsHandle
<1>8. LossesAreFaults'
  <2> SUFFICES ASSUME NEW g \in Handles, accounts[g] # None, rows'[g] = None
               PROVE  \E x \in Requests : \/ Holds(x, g)'
                                          \/ CreatesFor(x, g)' /\ req'[x].fault
    BY <1>0 DEF LossesAreFaults
  <2>1. g # h BY <1>0
  <2>2. PICK x \in Requests : \/ Holds(x, g)
                              \/ CreatesFor(x, g) /\ req[x].fault
    BY <1>0, <2>1 DEF LossesAreFaults
  <2>3. x # r BY <1>0, <2>1, <2>2 DEF Holds, FaultEnds, h
  <2>4. req'[x] = req[x] BY <1>0, <2>3
  <2> QED BY <1>2, <2>2, <2>4 DEF Holds, CreatesFor, PdsHandle
<1>9. EndsWithAccount'
  <2> SUFFICES ASSUME NEW x \in Requests, req'[x].op \in Creators, req'[x].authed,
                      ~req'[x].fault, req'[x].pc \in {"idle", "done", "lost"}
               PROVE  accounts[PdsHandle(HandleOf(x))] # None
    BY <1>0, <1>2 DEF EndsWithAccount, Running, PdsHandle
  <2>1. CASE x = r BY <1>0, <2>1 DEF h
  <2>2. CASE x # r BY <1>0, <2>2 DEF EndsWithAccount, Running
  <2> QED BY <2>1, <2>2
<1>10. LoginsAreSigned'
  <2> SUFFICES ASSUME NEW x \in Requests, req'[x].op \in Openers, req'[x].answer = "ok"
               PROVE  /\ req'[x].did \in Dids
                      /\ \E m \in Requests :
                           Signs(m, PdsHandle(HandleOf(x)), req[x].did)'
    BY DEF LoginsAreSigned
  <2>1. PICK g, d : g = PdsHandle(HandleOf(x)) /\ d = req'[x].did OBVIOUS
  <2>2. req'[x] = req[x] BY <1>0, <1>1
  <2>3. d \in Dids /\ \E m \in Requests : Signs(m, g, d)
    BY <2>1, <2>2 DEF LoginsAreSigned
  <2>4. PICK m \in Requests : Signs(m, g, d)' BY <1>3, <2>3
  <2>5. PdsHandle(HandleOf(x))' = g BY <1>2, <2>1 DEF PdsHandle
  <2> QED BY <2>1, <2>3, <2>4, <2>5 DEF Signs
<1>11. FoundRowLogsIn' BY <1>0, <1>1 DEF FoundRowLogsIn
<1> QED BY <1>4, <1>5, <1>6, <1>7, <1>8, <1>9, <1>10, <1>11

\* Every step keeps Fates.
LEMMA NextKeepsFates == IInv /\ Fates /\ [Next]_vars => Fates'
BY StepCases, SettlesKeepsFates, LogsInKeepsFates, CreateAccountKeepsFates,
   CreatePdsUserKeepsFates
-----------------------------------------------------------------------------
(* The theorems.                                                           *)

\* What becomes of accounts, passwords and requests.
THEOREM FatesHold == Spec => [](IInv /\ Fates)
<1>1. Init => IInv /\ Fates BY InitIInv, InitFates
<1>2. IInv /\ Fates /\ [Next]_vars => IInv' /\ Fates'
  BY NextKeepsIInv, NextKeepsFates
<1> QED BY <1>1, <1>2, PTL DEF Spec

\* A login that the auth service accepted and that met no fault fails only when
\* it found no row: with two spellings of a name as with one.
THEOREM FoundRowsLogIn == Spec => []FoundRowLogsIn
<1>1. Fates => FoundRowLogsIn BY DEF Fates
<1> QED BY <1>1, FatesHold, PTL

\* A login opens the account that a registration of the same canonical name
\* created: among all requests, passwords and spellings.
THEOREM LoginsOpenOwnAccounts == Spec => []LoginOpensOwnAccount
<1>1. Fates => LoginOpensOwnAccount
  <2> SUFFICES ASSUME Fates, NEW r \in Requests,
                      req[r].op \in Openers, req[r].answer = "ok"
               PROVE  \E m \in Requests : /\ CreatesFor(m, PdsHandle(HandleOf(r)))
                                          /\ req[m].did = req[r].did
                                          /\ req[m].did # None
    BY DEF LoginOpensOwnAccount
  <2> QED BY NoneAssumption DEF Fates, LoginsAreSigned, Signs
<1> QED BY <1>1, FatesHold, PTL

\* Without a fault no handle is left with an account and no row.
THEOREM FaultFreeNeverStrands == Spec => []FaultFreeNotStranded
<1>1. IInv /\ Fates => FaultFreeNotStranded
  <2> SUFFICES ASSUME IInv, Fates, NEW h \in Handles, NEW r \in Requests,
                      CreatesFor(r, h), rows[h] = None,
                      \A x \in Requests :
                        CreatesFor(x, h) => ~req[x].fault /\ ~Running(x)
               PROVE  FALSE
    BY DEF FaultFreeNotStranded
  <2>1. accounts[h] # None BY DEF Fates, EndsWithAccount, CreatesFor
  <2>2. PICK x \in Requests : Holds(x, h) \/ (CreatesFor(x, h) /\ req[x].fault)
    BY <2>1 DEF Fates, LossesAreFaults
  <2>3. Holds(x, h) BY <2>2
  <2>4. CreatesFor(x, h) /\ Running(x)
    BY <2>3 DEF Holds, CreatesFor, Running, IInv, Phases, WellPhased
  <2> QED BY <2>4
<1> QED BY <1>1, FatesHold, PTL
-----------------------------------------------------------------------------
(* The saga implements the life cycle: StageOf and ToldHandles, step by    *)
(* step.                                                                   *)

StageTable ==
    \A h \in Handles :
        /\ accounts[h] = None => StageOf(h) = "free"
        /\ accounts[h] # None /\ rows[h] # None => StageOf(h) = "recorded"
        /\ accounts[h] # None /\ rows[h] = None =>
             /\ (\E r \in Requests : Holds(r, h)) => StageOf(h) = "hosted"
             /\ (\A r \in Requests : ~Holds(r, h)) => StageOf(h) = "abandoned"

\* The stage of a handle, case by case, before a step and after it.
LEMMA Stages == StageTable /\ StageTable'
<1>1. StageTable BY DEF StageTable, StageOf, Orphaned
<1>2. StageTable' BY <1>1, PTL
<1> QED BY <1>1, <1>2

\* A request that is not in front of the row before or after a step holds
\* nothing, and a request that was left alone holds what it held.
LEMMA SameHolders ==
    ASSUME NEW h \in Handles, NEW r \in Requests,
           \A x \in Requests : x # r => req'[x] = req[x],
           ~Holds(r, h), ~Holds(r, h)'
    PROVE  \A x \in Requests : Holds(x, h)' <=> Holds(x, h)
BY DEF Holds, HandleOf, PdsHandle

\* Where accounts, rows and holders stay, the stage stays.
LEMMA SameStage ==
    ASSUME NEW h \in Handles, accounts'[h] = accounts[h], rows'[h] = rows[h],
           \A x \in Requests : Holds(x, h)' <=> Holds(x, h)
    PROVE  StageOf(h)' = StageOf(h)
BY DEF StageOf, Orphaned

\* Who had been told stays told, and where nobody new has heard of a success,
\* the told handles stay.
LEMMA SameTold ==
    ASSUME \A x \in Requests : /\ req[x].answer = "ok" => req'[x] = req[x]
                               /\ req'[x].answer = "ok" => req'[x] = req[x]
    PROVE  ToldHandles' = ToldHandles
<1>1. {PdsHandle(HandleOf(r)) : r \in {q \in Requests : req[q].answer = "ok"}}'
        = {PdsHandle(HandleOf(r)) : r \in {q \in Requests : req[q].answer = "ok"}}
  BY DEF HandleOf, PdsHandle
<1> QED BY <1>1 DEF ToldHandles

\* One request hears of a success about handle h.
LEMMA MoreTold ==
    ASSUME NEW r \in Requests, req[r].answer = "none", req'[r].answer = "ok",
           Kept(req[r], req'[r]),
           \A x \in Requests : x # r => req'[x] = req[x]
    PROVE  ToldHandles' = ToldHandles \cup {PdsHandle(HandleOf(r))}
<1> DEFINE Heard == {q \in Requests : req[q].answer = "ok"}
<1>1. Heard' = Heard \cup {r} OBVIOUS
<1>2. \A x \in Requests : HandleOf(x)' = HandleOf(x) BY SameHandle
<1>3. ToldHandles = {PdsHandle(HandleOf(x)) : x \in Heard} BY DEF ToldHandles
<1>4. ToldHandles' = {PdsHandle(HandleOf(x)') : x \in Heard'}
  BY DEF ToldHandles, PdsHandle
<1>5. \A x \in Heard' : HandleOf(x)' = HandleOf(x) BY <1>2
<1> HIDE DEF Heard
<1>6. ToldHandles' = {PdsHandle(HandleOf(x)) : x \in Heard'} BY <1>4, <1>5
<1> QED BY <1>1, <1>3, <1>6

\* At first every handle is free, and nobody has been told anything.
LEMMA InitMaps == Init => Lifecycle!Init
<1> SUFFICES ASSUME Init PROVE Lifecycle!Init OBVIOUS
<1>1. \A h \in Handles : StageOf(h) = "free" BY Stages DEF Init, StageTable
<1>2. ToldHandles = {}
  <2>1. \A r \in Requests : req[r].answer = "none" BY DEF Init, Idle
  <2> QED BY <2>1 DEF ToldHandles
<1> QED BY <1>1, <1>2 DEF Lifecycle!Init

\* A hosting, heard of or not.
LEMMA CreateAccountMaps ==
    ASSUME IInv, Fates, NEW r \in Requests, CreateAccount(r)
    PROVE  Lifecycle!Host(PdsHandle(HandleOf(r))) /\ PdsHandle(HandleOf(r)) \in Handles
<1>a. PICK h : h = PdsHandle(HandleOf(r)) OBVIOUS
<1>0. /\ h \in Handles
      /\ accounts[h] = None /\ accounts'[h] # None
      /\ rows' = rows /\ rows[h] = None
      /\ \A g \in Handles : g # h => accounts'[g] = accounts[g]
      /\ \A x \in Requests : x # r => req'[x] = req[x]
      /\ req[r].pc = "account" /\ Kept(req[r], req'[r])
      /\ req[r].answer = "none" /\ req'[r].answer # "ok"
      /\ req'[r].pc \in {"row", "done"}
  BY <1>a, CreateAccountFacts
<1>1. \A x \in Requests : HandleOf(x)' = HandleOf(x) BY <1>0, SameHandle
<1>2. StageOf(h) = "free" BY <1>0, Stages DEF StageTable
<1>3. StageOf(h)' \in {"hosted", "abandoned"} BY <1>0, Stages DEF StageTable
<1>4. ASSUME NEW g \in Handles, g # h PROVE StageOf(g)' = StageOf(g)
  <2>1. ~Holds(r, g) /\ ~Holds(r, g)' BY <1>a, <1>0, <1>1, <1>4 DEF Holds, PdsHandle
  <2>2. \A x \in Requests : Holds(x, g)' <=> Holds(x, g) BY <1>0, <2>1, SameHolders
  <2> QED BY <1>0, <1>4, <2>2, SameStage
<1>5. ToldHandles' = ToldHandles BY <1>0, SameTold
<1>6. PICK s \in {"hosted", "abandoned"} : s = StageOf(h)' BY <1>3
<1>7. [g \in Handles |-> StageOf(g)]' =
        [[g \in Handles |-> StageOf(g)] EXCEPT ![h] = s]
  BY <1>4, <1>6
<1> QED BY <1>a, <1>0, <1>2, <1>5, <1>6, <1>7 DEF Lifecycle!Host

\* A recording, heard of or not.
LEMMA CreatePdsUserMaps ==
    ASSUME IInv, Fates, NEW r \in Requests, CreatePdsUser(r)
    PROVE  Lifecycle!Record(PdsHandle(HandleOf(r))) /\ PdsHandle(HandleOf(r)) \in Handles
<1>a. PICK h : h = PdsHandle(HandleOf(r)) OBVIOUS
<1>0. /\ h \in Handles
      /\ accounts' = accounts /\ accounts[h] # None
      /\ rows[h] = None /\ rows'[h] # None
      /\ \A g \in Handles : g # h => rows'[g] = rows[g]
      /\ \A x \in Requests : x # r => req'[x] = req[x]
      /\ req[r].pc = "row" /\ Kept(req[r], req'[r])
      /\ req[r].answer = "none" /\ req'[r].pc = "done"
      /\ req'[r].answer \in {"ok", "error"}
  BY <1>a, CreatePdsUserFacts
<1>1. \A x \in Requests : HandleOf(x)' = HandleOf(x) BY <1>0, SameHandle
<1>2. Holds(r, h) BY <1>a, <1>0 DEF Holds
<1>3. ToldHandles' = ToldHandles \/ ToldHandles' = ToldHandles \cup {h}
  <2>1. CASE req'[r].answer = "ok" BY <1>a, <1>0, <2>1, MoreTold
  <2>2. CASE req'[r].answer = "error" BY <1>0, <2>2, SameTold
  <2> QED BY <1>0, <2>1, <2>2
<1>4. StageOf(h) = "hosted" BY <1>0, <1>2, Stages DEF StageTable
<1>5. StageOf(h)' = "recorded" BY <1>0, Stages DEF StageTable
<1>6. ASSUME NEW g \in Handles, g # h PROVE StageOf(g)' = StageOf(g)
  <2>1. ~Holds(r, g) /\ ~Holds(r, g)' BY <1>a, <1>0, <1>6 DEF Holds
  <2>2. \A x \in Requests : Holds(x, g)' <=> Holds(x, g) BY <1>0, <2>1, SameHolders
  <2> QED BY <1>0, <1>6, <2>2, SameStage
<1>7. [g \in Handles |-> StageOf(g)]' =
        [[g \in Handles |-> StageOf(g)] EXCEPT ![h] = "recorded"]
  BY <1>5, <1>6
<1> QED BY <1>a, <1>0, <1>3, <1>4, <1>7 DEF Lifecycle!Record

\* A successful login tells of a recorded handle.
LEMMA LogsInMaps ==
    ASSUME IInv, Fates, NEW r \in Requests, LogsIn(r)
    PROVE  Lifecycle!Tell(HandleOf(r)) /\ HandleOf(r) \in Handles
<1> DEFINE h == HandleOf(r)
<1>0. /\ UNCHANGED <<accounts, rows>>
      /\ \A x \in Requests : x # r => req'[x] = req[x]
      /\ Kept(req[r], req'[r])
      /\ req[r].pc = "connect" /\ req'[r].pc = "done" /\ req'[r].answer = "ok"
  BY DEF LogsIn
<1>1. req[r].answer = "none" BY <1>0 DEF IInv, Phases, WellPhased
<1>2. /\ h \in Handles /\ PdsHandle(h) = h
      /\ accounts[h] # None /\ rows[h] # None
  BY LogsInFacts
<1>3. ToldHandles' = ToldHandles \cup {h} BY <1>0, <1>1, <1>2, MoreTold
<1> HIDE DEF h
<1>4. StageOf(h) = "recorded" BY <1>2, Stages DEF StageTable
<1>5. ASSUME NEW g \in Handles PROVE StageOf(g)' = StageOf(g)
  <2>1. ~Holds(r, g) /\ ~Holds(r, g)' BY <1>0 DEF Holds
  <2>2. \A x \in Requests : Holds(x, g)' <=> Holds(x, g) BY <1>0, <2>1, SameHolders
  <2> QED BY <1>0, <2>2, SameStage
<1>6. [g \in Handles |-> StageOf(g)]' = [g \in Handles |-> StageOf(g)] BY <1>5
<1> QED BY <1>2, <1>3, <1>4, <1>6 DEF Lifecycle!Tell, h

\* Any other step abandons the handles whose holders stop: none, one of them,
\* or, in a crash, all.
LEMMA SettlesMaps ==
    ASSUME IInv, Fates, Settles
    PROVE  \E H \in SUBSET Handles : Lifecycle!Abandon(H)
<1> DEFINE H == {h \in Handles : StageOf(h) = "hosted" /\ StageOf(h)' = "abandoned"}
<1>0. accounts' = accounts /\ rows' = rows /\ \A x \in Requests : Moves(x)
  BY DEF Settles
<1>1. ASSUME NEW h \in Handles
      PROVE  StageOf(h)' = IF h \in H THEN "abandoned" ELSE StageOf(h)
  <2>1. ASSUME NEW x \in Requests, Holds(x, h)' PROVE Holds(x, h)
    <3>1. req'[x] = req[x]
      BY <1>0, <2>1 DEF Holds, Moves, Begins, Proceeds, Fails, Refused, LooksUp
    <3> QED BY <2>1, <3>1 DEF Holds, HandleOf, PdsHandle
  <2>2. CASE \E x \in Requests : Holds(x, h) /\ ~Holds(x, h)'
    <3>1. accounts[h] # None /\ rows[h] = None
      BY <2>2, StoredUserFacts DEF Holds, IInv, HeldKeysOpen, Fates, OneHolder
    <3>2. StageOf(h) = "hosted" BY <2>2, <3>1, Stages DEF StageTable
    <3>3. \A x \in Requests : ~Holds(x, h)'
      <4>1. PICK y \in Requests : Holds(y, h) /\ ~Holds(y, h)' BY <2>2
      <4>2. ASSUME NEW x \in Requests, Holds(x, h)' PROVE FALSE
        <5>1. Holds(x, h) BY <2>1, <4>2
        <5>2. x = y BY <4>1, <5>1 DEF Holds, Fates, OneHolder
        <5> QED BY <4>1, <4>2, <5>2
      <4> QED BY <4>2
    <3>4. StageOf(h)' = "abandoned" BY <1>0, <3>1, <3>3, Stages DEF StageTable
    <3> QED BY <3>2, <3>4
  <2>3. CASE \A x \in Requests : Holds(x, h) => Holds(x, h)'
    <3>1. \A x \in Requests : Holds(x, h)' <=> Holds(x, h) BY <2>1, <2>3
    <3>2. StageOf(h)' = StageOf(h) BY <1>0, <3>1, SameStage
    <3> QED BY <3>2
  <2> QED BY <2>2, <2>3
<1>2. ToldHandles' = ToldHandles
  <2>1. ASSUME NEW x \in Requests, req[x].answer = "ok" \/ req'[x].answer = "ok"
        PROVE  req'[x] = req[x]
    <3>1. req[x].answer = "ok" => req[x].pc = "done" BY DEF IInv, Phases, WellPhased
    <3> QED BY <1>0, <2>1, <3>1 DEF Moves, Begins, Proceeds, Fails, Refused, LooksUp
  <2> QED BY <2>1, SameTold
<1>3. \A h \in H : StageOf(h) = "hosted" OBVIOUS
<1>4. H \subseteq Handles OBVIOUS
<1> HIDE DEF H
<1>5. [h \in Handles |-> StageOf(h)]' =
        [h \in Handles |-> IF h \in H THEN "abandoned"
                           ELSE [g \in Handles |-> StageOf(g)][h]]
  BY <1>1
<1>6. Lifecycle!Abandon(H) BY <1>2, <1>3, <1>4, <1>5 DEF Lifecycle!Abandon
<1> QED BY <1>4, <1>6

\* Every step of the saga is one of the life cycle, or changes nothing in it.
LEMMA StepMaps == IInv /\ Fates /\ [Next]_vars => [Lifecycle!Next]_(Lifecycle!vars)
<1> SUFFICES ASSUME IInv, Fates, [Next]_vars PROVE Lifecycle!Next
  OBVIOUS
<1>1. CASE Settles BY <1>1, SettlesMaps DEF Lifecycle!Next
<1>2. ASSUME NEW r \in Requests, LogsIn(r) PROVE Lifecycle!Next
  BY <1>2, LogsInMaps DEF Lifecycle!Next
<1>3. ASSUME NEW r \in Requests, CreateAccount(r) PROVE Lifecycle!Next
  BY <1>3, CreateAccountMaps DEF Lifecycle!Next
<1>4. ASSUME NEW r \in Requests, CreatePdsUser(r) PROVE Lifecycle!Next
  BY <1>4, CreatePdsUserMaps DEF Lifecycle!Next
<1> QED BY <1>1, <1>2, <1>3, <1>4, StepCases

\* The saga implements the abstract life cycle of every handle.
THEOREM SagaImplementsLifecycle == Spec => ImplementsLifecycle
BY InitMaps, StepMaps, FatesHold, PTL DEF Spec, ImplementsLifecycle, Lifecycle!Spec
-----------------------------------------------------------------------------
(* What the refinement gives: facts about the life cycle are facts about   *)
(* the saga.                                                               *)

\* A step of the life cycle leaves a handle that is recorded or abandoned where it
\* is, and tells only of recorded handles.
LEMMA LifecycleStep ==
    ASSUME [Lifecycle!Next]_(Lifecycle!vars)
    PROVE  /\ \A h \in Handles :
                StageOf(h) \in {"recorded", "abandoned"} => StageOf(h)' = StageOf(h)
           /\ \A h \in ToldHandles' :
                h \in ToldHandles \/ (h \in Handles /\ StageOf(h)' = "recorded")
<1>1. PICK st : st = [h \in Handles |-> StageOf(h)] OBVIOUS
<1>2. PICK sn : sn = [h \in Handles |-> StageOf(h)]' OBVIOUS
<1>3. \A h \in Handles : st[h] = StageOf(h) BY <1>1
<1>4. \A h \in Handles : sn[h] = StageOf(h)' BY <1>2
<1> DEFINE
      Final == \A h \in Handles : st[h] \in {"recorded", "abandoned"} => sn[h] = st[h]
      Heard == \A h \in ToldHandles' :
                 h \in ToldHandles \/ (h \in Handles /\ sn[h] = "recorded")
<1>5. SUFFICES Final /\ Heard BY <1>3, <1>4
<1>6. CASE UNCHANGED Lifecycle!vars
  <2>1. sn = st /\ ToldHandles' = ToldHandles BY <1>1, <1>2, <1>6 DEF Lifecycle!vars
  <2> QED BY <2>1
<1>7. ASSUME NEW h \in Handles, Lifecycle!Host(h) PROVE Final /\ Heard
  <2>1. /\ st[h] = "free" /\ ToldHandles' = ToldHandles
        /\ \E s : sn = [st EXCEPT ![h] = s]
    BY <1>1, <1>2, <1>7 DEF Lifecycle!Host
  <2>2. \A g \in Handles : g # h => sn[g] = st[g] BY <1>1, <2>1
  <2> QED BY <2>1, <2>2
<1>8. ASSUME NEW h \in Handles, Lifecycle!Record(h) PROVE Final /\ Heard
  <2>1. /\ st[h] = "hosted" /\ ToldHandles' \subseteq ToldHandles \cup {h}
        /\ sn = [st EXCEPT ![h] = "recorded"]
    BY <1>1, <1>2, <1>8 DEF Lifecycle!Record
  <2>2. sn[h] = "recorded" /\ \A g \in Handles : g # h => sn[g] = st[g] BY <1>1, <2>1
  <2> QED BY <2>1, <2>2
<1>9. ASSUME NEW h \in Handles, Lifecycle!Tell(h) PROVE Final /\ Heard
  <2>1. /\ st[h] = "recorded" /\ ToldHandles' = ToldHandles \cup {h} /\ sn = st
    BY <1>1, <1>2, <1>9 DEF Lifecycle!Tell
  <2> QED BY <2>1
<1>10. ASSUME NEW H \in SUBSET Handles, Lifecycle!Abandon(H) PROVE Final /\ Heard
  <2>1. /\ \A h \in H : st[h] = "hosted"
        /\ ToldHandles' = ToldHandles
        /\ sn = [h \in Handles |-> IF h \in H THEN "abandoned" ELSE st[h]]
    BY <1>1, <1>2, <1>10 DEF Lifecycle!Abandon
  <2> QED BY <2>1
<1> QED BY <1>6, <1>7, <1>8, <1>9, <1>10 DEF Lifecycle!Next

\* A row and an orphan are both final: no later request, retry or crash takes a
\* handle's row away, and none brings an abandoned password back.
THEOREM FatesAreFinal ==
    Spec => [][\A h \in Handles : StageOf(h) \in {"recorded", "abandoned"} =>
                                    StageOf(h)' = StageOf(h)]_vars
<1> DEFINE Final == \A h \in Handles : StageOf(h) \in {"recorded", "abandoned"} =>
                                         StageOf(h)' = StageOf(h)
<1>1. IInv /\ Fates /\ [Next]_vars => Final BY StepMaps, LifecycleStep
<1> QED BY <1>1, FatesHold, PTL DEF Spec

\* Whoever was told of a success, at registration or at login: the handle has its
\* account and its row, in this state and in all later ones.
THEOREM ToldIsRecorded ==
    Spec => [](\A h \in ToldHandles :
                 h \in Handles /\ accounts[h] # None /\ rows[h] # None)
<1> DEFINE Told == \A h \in ToldHandles : h \in Handles /\ StageOf(h) = "recorded"
<1>1. Init => Told BY DEF Init, Idle, ToldHandles
<1>2. IInv /\ Fates /\ Told /\ [Next]_vars => Told'
  <2> SUFFICES ASSUME IInv, Fates, Told, [Next]_vars, NEW h \in ToldHandles'
               PROVE  h \in Handles /\ StageOf(h)' = "recorded"
    OBVIOUS
  <2>1. [Lifecycle!Next]_(Lifecycle!vars) BY StepMaps
  <2>2. /\ \A g \in Handles : StageOf(g) \in {"recorded", "abandoned"} =>
                                StageOf(g)' = StageOf(g)
        /\ h \in ToldHandles \/ (h \in Handles /\ StageOf(h)' = "recorded")
    BY <2>1, LifecycleStep
  <2> QED BY <2>2
<1>3. Told => \A h \in ToldHandles :
                h \in Handles /\ accounts[h] # None /\ rows[h] # None
  BY Stages DEF StageTable
<1> QED BY <1>1, <1>2, <1>3, FatesHold, PTL DEF Spec

\* A saved row is found under the user's name, and opens the account, exactly when
\* the name is spelt as the PDS spells it.
RowUnderName(r) == /\ rows[HandleOf(r)] # None
                   /\ Opens(HandleOf(r), rows[HandleOf(r)].password)

LEMMA CanonicalRow ==
    ASSUME IInv, Fates, NEW r \in Requests,
           req[r].op \in Creators, req[r].answer = "ok"
    PROVE  /\ RowUnderName(r) <=> Canon[req[r].user] = req[r].user
           /\ rows[HandleOf(r)] # None => RowUnderName(r)
<1>1. req[r].user \in Usernames BY DEF IInv, Phases, WellPhased
<1>2. PdsHandle(HandleOf(r)) = HandleOf(r) <=> Canon[req[r].user] = req[r].user
  BY <1>1 DEF PdsHandle, HandleOf, GetHandleFromUsername
<1>3. ASSUME PdsHandle(HandleOf(r)) = HandleOf(r) PROVE RowUnderName(r)
  <2>1. /\ rows[HandleOf(r)] = StoredUser(r) /\ accounts[HandleOf(r)] = StoredUser(r)
        /\ StoredUser(r) # None
    BY <1>3, StoredUserFacts DEF IInv, SuccessIsDurable
  <2> QED BY <1>3, <2>1 DEF Opens, RowUnderName
<1>4. ASSUME rows[HandleOf(r)] # None PROVE PdsHandle(HandleOf(r)) = HandleOf(r)
  <2>1. HandleOf(r) \in Handles BY <1>1, HandleFacts DEF HandleOf
  <2> QED BY <1>4, <2>1 DEF Fates, RowsAreSigned
<1> QED BY <1>2, <1>3, <1>4 DEF RowUnderName

\* Who registered with success finds the row, and opens the account with it, exactly
\* when the name is spelt as the PDS spells it.
THEOREM CanonicalNamesLogIn ==
    Spec => [](\A r \in Requests :
                 req[r].op \in Creators /\ req[r].answer = "ok" =>
                   (RowUnderName(r) <=> Canon[req[r].user] = req[r].user))
<1>1. IInv /\ Fates => \A r \in Requests :
                         req[r].op \in Creators /\ req[r].answer = "ok" =>
                           (RowUnderName(r) <=> Canon[req[r].user] = req[r].user)
  BY CanonicalRow
<1> QED BY <1>1, FatesHold, PTL

\* login, AssertionResult: a login that looks its row up after a registration of the
\* same name succeeded takes away the account's password if, and only if, the PDS
\* spells the name as the user does.
THEOREM RegisteredUsersCanLogIn == Spec => RegisteredCanLogIn
<1> DEFINE Finds(r, m) ==
             /\ req[m].op \in Creators
             /\ req[m].answer = "ok"
             /\ req[r].user = req[m].user
             /\ req[r].pc = "lookup"
             /\ req'[r].pc = "connect"
             => (Opens(HandleOf(r), req'[r].password)
                   <=> Canon[req[m].user] = req[m].user)
<1>1. ASSUME IInv, Fates, [Next]_vars
      PROVE  [\A r, m \in Requests : Finds(r, m)]_vars
  <2> SUFFICES ASSUME NEW r \in Requests, NEW m \in Requests,
                      req[m].op \in Creators, req[m].answer = "ok",
                      req[r].user = req[m].user,
                      req[r].pc = "lookup", req'[r].pc = "connect"
               PROVE  Opens(HandleOf(r), req'[r].password)
                        <=> Canon[req[m].user] = req[m].user
    OBVIOUS
  <2>1. req \in [Requests -> Request] BY <1>1 DEF IInv, Phases, TypeOK
  <2>2. LooksUp(r)
    <3>1. CASE Settles
      BY <3>1 DEF Settles, Moves, Begins, Proceeds, Fails, Refused
    <3>2. ASSUME NEW x \in Requests, LogsIn(x) PROVE FALSE
      BY <3>2 DEF LogsIn
    <3>3. ASSUME NEW x \in Requests, CreateAccount(x) \/ CreatePdsUser(x)
          PROVE  FALSE
      <4>1. x # r /\ \E q : req' = [req EXCEPT ![x] = q]
        BY <3>3 DEF CreateAccount, CreatePdsUser, Reply
      <4> QED BY <2>1, <4>1
    <3> QED BY <1>1, <3>1, <3>2, <3>3, StepCases
  <2>3. HandleOf(r) = HandleOf(m) BY DEF HandleOf
  <2>4. /\ RowUnderName(m) <=> Canon[req[m].user] = req[m].user
        /\ rows[HandleOf(m)] # None => RowUnderName(m)
    BY <1>1, CanonicalRow
  <2>5. CASE rows[HandleOf(m)] # None
    BY <2>2, <2>3, <2>4, <2>5 DEF LooksUp, RowUnderName
  <2>6. CASE rows[HandleOf(m)] = None
    <3>1. req'[r].password = Blank BY <2>2, <2>3, <2>6 DEF LooksUp
    <3>2. PdsHandle(HandleOf(m)) \in Handles
      BY <1>1, HandleFacts DEF HandleOf, IInv, Phases, WellPhased
    <3>3. ~Opens(HandleOf(m), Blank)
      BY <1>1, <3>2, NoneAssumption DEF Opens, IInv, Phases, TypeOK, Account
    <3> QED BY <2>3, <2>4, <2>6, <3>1, <3>3 DEF RowUnderName
  <2> QED BY <2>5, <2>6
<1> QED BY <1>1, FatesHold, PTL DEF Spec, RegisteredCanLogIn
=============================================================================
