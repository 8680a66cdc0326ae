--------------------------- MODULE AccountsProofs ---------------------------
(* Proofs about the account saga, for every value of the constants. *)
EXTENDS Accounts, TLAPS

\* What the program counter of a request says about its other fields.
WellPhased(q) ==
    /\ q.pc \in {"idle", "auth"} => ~q.authed /\ q.answer = "none"
    /\ q.pc = "auth" =>
         \/ q.op = "passkeyFinish" /\ q.key \in SessionKeys
         \/ q.op \in {"register", "login", "assertion"} /\ q.user \in Usernames
    /\ q.pc \in {"invite", "account", "row"} =>
         q.op \in Creators /\ q.authed /\ q.answer = "none"
    /\ q.pc \in {"lookup", "connect"} =>
         q.op \in Openers /\ q.authed /\ q.answer = "none"
    /\ q.pc \in {"account", "row"} => q.code \in Codes
    /\ q.pc = "row" => q.password \in Passwords /\ q.did \in Dids
    /\ q.pc = "lost" => q.answer = "none"
    /\ q.answer = "ok" => q.authed /\ q.pc = "done"
    /\ q.answer = "ok" /\ q.op \in Creators =>
         q.password \in Passwords /\ q.did \in Dids /\ q.code \in Codes
    /\ q.authed => q.user \in Usernames

Phases == TypeOK /\ \A r \in Requests : WellPhased(req[r])
-----------------------------------------------------------------------------
(* Records: what each way of rewriting a request leaves of it.             *)

Arrived(op, u, k) == [Idle EXCEPT !.op = op, !.user = u, !.key = k, !.pc = "auth"]
Rejected(op) == [Idle EXCEPT !.op = op, !.pc = "done", !.answer = "error"]
Invited(q, c) == [q EXCEPT !.code = c, !.pc = "account"]
Hosted(q, p, d) == [q EXCEPT !.password = p, !.did = d, !.pc = "row"]
LookedUp(q, p) == [q EXCEPT !.pc = "connect", !.password = p]
Opened(q, d) == [q EXCEPT !.did = d]
Lost(q) == [q EXCEPT !.pc = "lost", !.fault = TRUE]

\* A slot that has received nothing.
LEMMA IdleFacts == Idle \in Request /\ WellPhased(Idle)
BY NoneAssumption DEF Idle, Request, WellPhased, Creators, Openers

\* A request that has just been routed to its handler.
LEMMA ArrivedFacts ==
    ASSUME NEW op \in Creators \cup Openers, NEW u \in Usernames \cup {None},
           NEW k \in SessionKeys \cup {None},
           op = "passkeyFinish" => k \in SessionKeys,
           op # "passkeyFinish" => u \in Usernames
    PROVE  LET s == Arrived(op, u, k) IN
           /\ s \in Request /\ WellPhased(s)
           /\ s.pc = "auth" /\ ~s.authed /\ ~s.fault /\ s.answer = "none"
BY NoneAssumption DEF Arrived, Idle, Request, WellPhased, Creators, Openers

\* A request whose form was refused.
LEMMA RejectedFacts ==
    ASSUME NEW op \in Creators \cup Openers
    PROVE  LET s == Rejected(op) IN
           /\ s \in Request /\ WellPhased(s)
           /\ s.pc = "done" /\ ~s.authed /\ ~s.fault /\ s.answer = "error"
BY NoneAssumption DEF Rejected, Idle, Request, WellPhased, Creators, Openers

\* An answered request keeps everything but its program counter.
LEMMA AnswerFacts ==
    ASSUME NEW r \in Requests, req[r] \in Request, NEW a \in {"ok", "error"}
    PROVE  LET s == Answer(r, a) IN
           /\ s \in Request
           /\ s.pc = "done" /\ s.answer = a
           /\ s.op = req[r].op /\ s.user = req[r].user /\ s.key = req[r].key
           /\ s.code = req[r].code /\ s.password = req[r].password
           /\ s.did = req[r].did /\ s.authed = req[r].authed
           /\ s.fault = req[r].fault
<1> DEFINE q == req[r]
           s == [q EXCEPT !.pc = "done", !.answer = a]
<1>1. s \in Request BY DEF Request
<1>2. /\ s.pc = "done" /\ s.answer = a
      /\ s.op = q.op /\ s.user = q.user /\ s.key = q.key
      /\ s.code = q.code /\ s.password = q.password
      /\ s.did = q.did /\ s.authed = q.authed /\ s.fault = q.fault
  BY DEF Request
<1> QED BY <1>1, <1>2 DEF Answer

\* A request whose call failed.
LEMMA FailedFacts ==
    ASSUME NEW r \in Requests, req[r] \in Request
    PROVE  LET s == Failed(r) IN
           /\ s \in Request
           /\ s.pc = "done" /\ s.answer = "error"
           /\ s.op = req[r].op /\ s.user = req[r].user /\ s.key = req[r].key
           /\ s.code = req[r].code /\ s.password = req[r].password
           /\ s.did = req[r].did /\ s.authed = req[r].authed /\ s.fault
<1> DEFINE q == Answer(r, "error")
           s == Failed(r)
<1> HIDE DEF q, s
<1>1. q \in Request /\ s = [q EXCEPT !.fault = TRUE] BY AnswerFacts DEF q, s, Failed
<1>2. s \in Request BY <1>1 DEF Request
<1>3. /\ s.pc = q.pc /\ s.answer = q.answer
      /\ s.op = q.op /\ s.user = q.user /\ s.key = q.key
      /\ s.code = q.code /\ s.password = q.password
      /\ s.did = q.did /\ s.authed = q.authed /\ s.fault
  BY <1>1 DEF Request
<1> QED BY <1>2, <1>3, AnswerFacts DEF q, s

\* The auth service accepted the request and named its user.
LEMMA AcceptedFacts ==
    ASSUME NEW q \in Request, NEW u \in Usernames, q.answer = "none",
           q.op \in Creators \cup Openers
    PROVE  LET s == Accepted(q, u) IN
           /\ s \in Request /\ WellPhased(s)
           /\ s.pc \in {"invite", "lookup"} /\ s.user = u /\ s.op = q.op
           /\ s.authed /\ s.answer = "none" /\ s.fault = q.fault
<1> DEFINE s == Accepted(q, u)
<1>1. s \in Request BY DEF Accepted, Request
<1>2. /\ s.pc = IF q.op \in Creators THEN "invite" ELSE "lookup"
      /\ s.user = u /\ s.op = q.op /\ s.authed /\ s.answer = "none"
      /\ s.fault = q.fault
  BY DEF Accepted, Request
<1> QED BY <1>1, <1>2 DEF WellPhased

\* The handler has its invite code.
LEMMA InvitedFacts ==
    ASSUME NEW q \in Request, WellPhased(q), q.pc = "invite", NEW c \in Codes
    PROVE  LET s == Invited(q, c) IN
           /\ s \in Request /\ WellPhased(s)
           /\ s.pc = "account" /\ s.code = c /\ s.user = q.user /\ s.op = q.op
           /\ s.authed /\ s.answer = "none" /\ s.fault = q.fault
<1> DEFINE s == Invited(q, c)
<1>1. s \in Request BY DEF Invited, Request
<1>2. /\ s.pc = "account" /\ s.code = c /\ s.user = q.user /\ s.op = q.op
      /\ s.authed = q.authed /\ s.answer = q.answer /\ s.fault = q.fault
  BY DEF Invited, Request
<1>3. q.op \in Creators /\ q.authed /\ q.answer = "none" /\ q.user \in Usernames
  BY DEF WellPhased
<1> QED BY <1>1, <1>2, <1>3 DEF WellPhased

\* The handler has its PDS account and holds the password.
LEMMA HostedFacts ==
    ASSUME NEW q \in Request, WellPhased(q), q.pc = "account",
           NEW p \in Passwords, NEW d \in Dids
    PROVE  LET s == Hosted(q, p, d) IN
           /\ s \in Request /\ WellPhased(s)
           /\ s.pc = "row" /\ s.password = p /\ s.did = d
           /\ s.code = q.code /\ s.user = q.user /\ s.op = q.op
           /\ s.authed /\ s.answer = "none" /\ s.fault = q.fault
<1> DEFINE s == Hosted(q, p, d)
<1>1. s \in Request BY DEF Hosted, Request
<1>2. /\ s.pc = "row" /\ s.password = p /\ s.did = d
      /\ s.code = q.code /\ s.user = q.user /\ s.op = q.op
      /\ s.authed = q.authed /\ s.answer = q.answer /\ s.fault = q.fault
  BY DEF Hosted, Request
<1>3. /\ q.op \in Creators /\ q.authed /\ q.answer = "none"
      /\ q.user \in Usernames /\ q.code \in Codes
  BY DEF WellPhased
<1> QED BY <1>1, <1>2, <1>3 DEF WellPhased

\* The handler has looked the row up.
LEMMA LookedUpFacts ==
    ASSUME NEW q \in Request, WellPhased(q), q.pc = "lookup",
           NEW p \in Passwords \cup {Blank}
    PROVE  LET s == LookedUp(q, p) IN
           /\ s \in Request /\ WellPhased(s)
           /\ s.pc = "connect" /\ s.user = q.user /\ s.op = q.op
           /\ s.authed /\ s.answer = "none" /\ s.fault = q.fault /\ s.password = p
<1> DEFINE s == LookedUp(q, p)
<1>1. s \in Request BY DEF LookedUp, Request
<1>2. /\ s.pc = "connect" /\ s.user = q.user /\ s.op = q.op
      /\ s.authed = q.authed /\ s.answer = q.answer
      /\ s.fault = q.fault /\ s.password = p
  BY DEF LookedUp, Request
<1>3. q.op \in Openers /\ q.authed /\ q.answer = "none" /\ q.user \in Usernames
  BY DEF WellPhased
<1> QED BY <1>1, <1>2, <1>3 DEF WellPhased

\* The handler has its PDS session.
LEMMA OpenedFacts ==
    ASSUME NEW q \in Request, WellPhased(q), q.pc = "done", NEW d \in Dids, q.op \notin Creators
    PROVE  LET s == Opened(q, d) IN
           /\ s \in Request /\ WellPhased(s)
           /\ s.pc = "done" /\ s.user = q.user /\ s.op = q.op /\ s.authed = q.authed
           /\ s.answer = q.answer /\ s.fault = q.fault /\ s.did = d
<1> DEFINE s == Opened(q, d)
<1>1. s \in Request BY DEF Opened, Request
<1>2. /\ s.pc = "done" /\ s.user = q.user /\ s.op = q.op
      /\ s.authed = q.authed /\ s.answer = q.answer
      /\ s.fault = q.fault /\ s.did = d
  BY DEF Opened, Request
<1> QED BY <1>1, <1>2 DEF WellPhased

\* The goroutine died with the process.
LEMMA LostFacts ==
    ASSUME NEW q \in Request, WellPhased(q), q.pc \notin {"idle", "done", "lost"}
    PROVE  LET s == Lost(q) IN
           /\ s \in Request /\ WellPhased(s)
           /\ s.pc = "lost" /\ s.op = q.op /\ s.user = q.user
           /\ s.authed = q.authed /\ s.answer = "none" /\ s.fault
<1> DEFINE s == Lost(q)
<1>1. s \in Request BY DEF Lost, Request
<1>2. /\ s.pc = "lost" /\ s.op = q.op /\ s.user = q.user
      /\ s.authed = q.authed /\ s.answer = q.answer /\ s.fault
  BY DEF Lost, Request
<1>3. /\ q.answer = "none"
      /\ q.authed => q.user \in Usernames
  BY DEF WellPhased, Request
<1> QED BY <1>1, <1>2, <1>3 DEF WellPhased
-----------------------------------------------------------------------------
(* The inductive invariant.                                                *)

\* The auth service knows everyone it has authenticated, if its refusals name
\* nobody.
AuthedAreUsers ==
    \A r \in Requests : req[r].authed /\ ~RefusalsName => users[req[r].user] # {}

\* A handler about to save a row holds the credentials of the live account.
HeldKeysOpen ==
    \A r \in Requests : req[r].pc = "row" =>
        accounts[PdsHandle(HandleOf(r))] = StoredUser(r)

IInv == /\ Phases
        /\ AuthedAreUsers
        /\ HeldKeysOpen
        /\ RowOpensAccount
        /\ ~RefusalsName => NoAccountWithoutUser
        /\ SuccessIsDurable

\* A step that leaves both handle-keyed stores alone, takes no login away, and
\* puts no request in front of the row or past it.
Quiet ==
    /\ accounts' = accounts /\ rows' = rows
    /\ \A u \in Usernames : users[u] # {} => users'[u] # {}
    /\ \A x \in Requests :
         \/ req'[x] = req[x]
         \/ /\ req'[x].pc # "row"
            /\ req'[x].op \in Creators => req'[x].answer # "ok"
            /\ req'[x].authed /\ ~RefusalsName => users'[req'[x].user] # {}

\* Handles are closed under the PDS's canonical spelling, which is idempotent.
LEMMA HandleFacts ==
    /\ \A u \in Usernames : GetHandleFromUsername(u) \in Handles
    /\ \A h \in Handles : /\ PdsHandle(h) \in Handles
                         /\ PdsHandle(PdsHandle(h)) = PdsHandle(h)
BY CanonAssumption DEF Handles, PdsHandle, GetHandleFromUsername

\* A quiet step needs no more than its typing to keep the invariant.
LEMMA QuietStep ==
    ASSUME IInv, Quiet, Phases' PROVE IInv'
<1> USE DEF IInv
<1>1. AuthedAreUsers'
  <2> SUFFICES ASSUME NEW x \in Requests, req'[x].authed, ~RefusalsName
               PROVE  users'[req'[x].user] # {}
    BY DEF AuthedAreUsers
  <2>1. CASE req'[x] = req[x]
    <3>1. req[x].user \in Usernames BY <2>1 DEF Phases, WellPhased
    <3> QED BY <2>1, <3>1 DEF AuthedAreUsers, Quiet
  <2> QED BY <2>1 DEF Quiet
<1>2. HeldKeysOpen'
  <2> SUFFICES ASSUME NEW x \in Requests, req'[x].pc = "row"
               PROVE  (accounts[PdsHandle(HandleOf(x))] = StoredUser(x))'
    BY DEF HeldKeysOpen
  <2>1. req'[x] = req[x] BY DEF Quiet
  <2> QED BY <2>1 DEF HeldKeysOpen, Quiet, HandleOf, StoredUser
<1>3. RowOpensAccount' BY DEF RowOpensAccount, Quiet
<1>4. ~RefusalsName => NoAccountWithoutUser' BY DEF NoAccountWithoutUser, Quiet
<1>5. SuccessIsDurable'
  <2> SUFFICES ASSUME NEW x \in Requests,
                      req'[x].op \in Creators, req'[x].answer = "ok"
               PROVE  (LET h == PdsHandle(HandleOf(x)) IN
                         /\ ~RefusalsName => users[req[x].user] # {}
                         /\ rows[h] = StoredUser(x)
                         /\ accounts[h] = StoredUser(x))'
    BY DEF SuccessIsDurable
  <2>1. req'[x] = req[x] BY DEF Quiet
  <2>2. ~RefusalsName => users'[req'[x].user] # {}
    BY <1>1 DEF AuthedAreUsers, Phases, WellPhased
  <2> QED BY <2>1, <2>2 DEF SuccessIsDurable, Quiet, HandleOf, StoredUser
<1> QED BY <1>1, <1>2, <1>3, <1>4, <1>5
-----------------------------------------------------------------------------
(* One request is replaced by another record, or all of them by the crash. *)

\* Typing and phases survive the replacement of one request.
LEMMA Replace ==
    ASSUME Phases, NEW r \in Requests, NEW s \in Request, WellPhased(s),
           req' = [req EXCEPT ![r] = s],
           users' \in [Usernames -> SUBSET {"password", "passkey"}],
           ceremony' \in [SessionKeys -> Usernames \cup {"unused", "closed"}],
           invites' \in [Codes -> {"unminted", "open", "spent"}],
           accounts' \in [Handles -> Account \cup {None}],
           rows' \in [Handles -> Account \cup {None}]
    PROVE  Phases'
<1>1. /\ req \in [Requests -> Request] /\ req'[r] = s
      /\ \A x \in Requests : x # r => req'[x] = req[x]
  BY DEF Phases, TypeOK
<1>2. TypeOK' BY <1>1 DEF TypeOK
<1>3. \A x \in Requests : WellPhased(req'[x]) BY <1>1 DEF Phases
<1>4. \A x \in Requests : WellPhased(req[x])' BY <1>3 DEF WellPhased
<1> QED BY <1>2, <1>4 DEF Phases

\* A request that ends with an error stays well-phased.
LEMMA ErrorIsWellPhased ==
    ASSUME Phases, NEW r \in Requests
    PROVE  /\ Answer(r, "error") \in Request /\ WellPhased(Answer(r, "error"))
           /\ Failed(r) \in Request /\ WellPhased(Failed(r))
<1>1. req[r] \in Request /\ (req[r].authed => req[r].user \in Usernames)
  BY DEF Phases, TypeOK, WellPhased
<1> QED BY <1>1, AnswerFacts, FailedFacts DEF WellPhased

\* Rewriting one request is quiet when it neither reaches the row nor passes it.
LEMMA QuietReplace ==
    ASSUME IInv, NEW r \in Requests, NEW s \in Request, WellPhased(s),
           req' = [req EXCEPT ![r] = s],
           s.pc # "row",
           s.op \in Creators => s.answer # "ok",
           s.authed /\ ~RefusalsName => users'[s.user] # {},
           users' \in [Usernames -> SUBSET {"password", "passkey"}],
           \A u \in Usernames : users[u] # {} => users'[u] # {},
           ceremony' \in [SessionKeys -> Usernames \cup {"unused", "closed"}],
           invites' \in [Codes -> {"unminted", "open", "spent"}],
           UNCHANGED <<accounts, rows>>
    PROVE  Phases' /\ Quiet
<1>1. Phases' BY Replace DEF IInv, Phases, TypeOK
<1>2. \A x \in Requests : req'[x] = IF x = r THEN s ELSE req[x]
  BY DEF IInv, Phases, TypeOK
<1>3. Quiet BY <1>2 DEF Quiet
<1> QED BY <1>1, <1>3

\* Ending a request with an error is quiet, whatever its call did before.
LEMMA QuietError ==
    ASSUME IInv, NEW r \in Requests, NEW s \in {Answer(r, "error"), Failed(r)},
           req' = [req EXCEPT ![r] = s],
           users' \in [Usernames -> SUBSET {"password", "passkey"}],
           \A u \in Usernames : users[u] # {} => users'[u] # {},
           ceremony' \in [SessionKeys -> Usernames \cup {"unused", "closed"}],
           invites' \in [Codes -> {"unminted", "open", "spent"}],
           UNCHANGED <<accounts, rows>>
    PROVE  Phases' /\ Quiet
<1>1. s \in Request /\ WellPhased(s) BY ErrorIsWellPhased DEF IInv
<1>2. /\ s.pc = "done" /\ s.answer = "error"
      /\ s.user = req[r].user /\ s.authed = req[r].authed
  BY AnswerFacts, FailedFacts DEF IInv, Phases, TypeOK
<1>3. s.authed /\ ~RefusalsName => users'[s.user] # {}
  BY <1>2 DEF IInv, AuthedAreUsers, Phases, WellPhased
<1> QED BY <1>1, <1>2, <1>3, QuietReplace
-----------------------------------------------------------------------------
(* One lemma per group of actions: the invariant is inductive.             *)

\* The empty stores satisfy the invariant.
LEMMA InitIInv == Init => IInv
<1> SUFFICES ASSUME Init PROVE IInv OBVIOUS
<1>1. \A r \in Requests : req[r] = Idle BY DEF Init
<1>2. /\ Idle.pc = "idle" /\ Idle.answer = "none" /\ ~Idle.authed BY DEF Idle
<1>3. Phases
  <2>1. req \in [Requests -> Request] BY IdleFacts DEF Init
  <2> QED BY <2>1, <1>1, IdleFacts DEF Init, Phases, TypeOK
<1>4. AuthedAreUsers /\ HeldKeysOpen /\ SuccessIsDurable
  BY <1>1, <1>2 DEF AuthedAreUsers, HeldKeysOpen, SuccessIsDurable
<1>5. RowOpensAccount /\ NoAccountWithoutUser
  BY DEF Init, RowOpensAccount, NoAccountWithoutUser
<1> QED BY <1>3, <1>4, <1>5 DEF IInv

\* Receiving or refusing a request touches no store.
LEMMA ReceiveIsQuiet ==
    ASSUME IInv, NEW r \in Requests, Receive(r) \/ RejectForm(r)
    PROVE  Phases' /\ Quiet
<1> USE DEF IInv
<1>0. /\ TypeOK
      /\ \A u \in Usernames : users[u] # {} => users[u] # {}
  BY DEF Phases
<1>1. ASSUME NEW op \in Creators \cup Openers, NEW u \in Usernames \cup {None},
             NEW k \in SessionKeys \cup {None}, Arrive(r, op, u, k),
             op = "passkeyFinish" => k \in SessionKeys,
             op # "passkeyFinish" => u \in Usernames
      PROVE  Phases' /\ Quiet
  <2> DEFINE s == Arrived(op, u, k)
  <2> HIDE DEF s
  <2>1. /\ s \in Request /\ WellPhased(s)
        /\ s.pc = "auth" /\ ~s.authed /\ s.answer = "none"
    BY <1>1, ArrivedFacts DEF s
  <2>2. req' = [req EXCEPT ![r] = s] BY <1>1 DEF Arrive, Arrived, s
  <2> QED BY <1>0, <1>1, <2>1, <2>2, QuietReplace DEF Arrive, TypeOK
<1>2. CASE Receive(r)
  BY <1>1, <1>2, NoneAssumption DEF Receive, Creators, Openers
<1>3. CASE RejectForm(r)
  <2>1. PICK op \in {"register", "login", "passkeyFinish"} :
          req' = [req EXCEPT ![r] = Rejected(op)]
    BY <1>3 DEF RejectForm, Rejected
  <2> DEFINE s == Rejected(op)
  <2> HIDE DEF s
  <2>2. op \in Creators \cup Openers BY DEF Creators, Openers
  <2>3. /\ s \in Request /\ WellPhased(s)
        /\ s.pc = "done" /\ ~s.authed /\ s.answer = "error"
    BY <2>2, RejectedFacts DEF s
  <2>4. req' = [req EXCEPT ![r] = s] BY <2>1 DEF s
  <2> QED BY <1>0, <1>3, <2>3, <2>4, QuietReplace DEF RejectForm, TypeOK
<1> QED BY <1>2, <1>3

\* Ceremonies begin and end, and a transfer adds a passkey, between requests.
LEMMA CeremonyIsQuiet ==
    ASSUME IInv, NEW k \in SessionKeys,
           \/ \E u \in Usernames : StartPasskeyRegister(u, k)
           \/ CancelPasskeyRegister(k)
           \/ FinishPasskeyTransferRegister(k)
    PROVE  Phases' /\ Quiet
<1> USE DEF IInv
<1>0. TypeOK BY DEF Phases
<1>1. /\ req' = req /\ UNCHANGED <<invites, accounts, rows>>
      /\ users' \in [Usernames -> SUBSET {"password", "passkey"}]
      /\ ceremony' \in [SessionKeys -> Usernames \cup {"unused", "closed"}]
      /\ \A u \in Usernames : users[u] # {} => users'[u] # {}
  <2>1. CASE \E u \in Usernames : StartPasskeyRegister(u, k)
    BY <1>0, <2>1 DEF StartPasskeyRegister, TypeOK
  <2>2. CASE CancelPasskeyRegister(k)
    BY <1>0, <2>2 DEF CancelPasskeyRegister, TypeOK
  <2>3. CASE FinishPasskeyTransferRegister(k)
    BY <1>0, <2>3 DEF FinishPasskeyTransferRegister, FinishRegistrationHandler, TypeOK
  <2> QED BY <2>1, <2>2, <2>3
<1>2. Phases' BY <1>0, <1>1 DEF Phases, TypeOK, WellPhased
<1>3. Quiet BY <1>1 DEF Quiet
<1> QED BY <1>2, <1>3

\* The auth call only adds credentials, and names the user it accepts.
LEMMA AuthIsQuiet ==
    ASSUME IInv, NEW r \in Requests, AuthAccepts(r) \/ AuthRefuses(r)
    PROVE  Phases' /\ Quiet
<1> USE DEF IInv
<1>0. /\ TypeOK /\ req[r] \in Request /\ WellPhased(req[r])
      /\ \A u \in Usernames : users[u] # {} => users[u] # {}
  BY DEF Phases, TypeOK
<1>1. CASE AuthRefuses(r)
  <2>1. req[r].pc = "auth" /\ UNCHANGED <<users, ceremony, invites, accounts, rows>>
    BY <1>1 DEF AuthRefuses
  <2>2. CASE req' = [req EXCEPT ![r] = Answer(r, "error")]
    BY <1>0, <2>1, <2>2, QuietError DEF TypeOK
  <2>3. CASE /\ RefusalsName
             /\ req[r].op # "passkeyFinish"
             /\ req' = [req EXCEPT ![r] = Accepted(req[r], req[r].user)]
    <3> DEFINE s == Accepted(req[r], req[r].user)
    <3> HIDE DEF s
    <3>1. /\ req[r].user \in Usernames /\ req[r].answer = "none"
          /\ req[r].op \in Creators \cup Openers
      BY <1>0, <2>1, <2>3 DEF WellPhased, Creators, Openers
    <3>2. s \in Request /\ WellPhased(s) /\ s.pc # "row" /\ s.answer # "ok"
      BY <1>0, <3>1, AcceptedFacts DEF s
    <3>3. req' = [req EXCEPT ![r] = s] BY <2>3 DEF s
    <3> QED BY <1>0, <2>1, <2>3, <3>2, <3>3, QuietReplace DEF TypeOK
  <2> QED BY <1>1, <2>2, <2>3 DEF AuthRefuses
<1>2. CASE AuthAccepts(r)
  <2>1. PICK u \in Usernames :
          /\ AuthCall(r, u)
          /\ Reply(r, Accepted(req[r], u))
    BY <1>2 DEF AuthAccepts
  <2> DEFINE s == Accepted(req[r], u)
  <2> HIDE DEF s
  <2>2. req[r].pc = "auth" /\ UNCHANGED <<invites, accounts, rows>>
    BY <1>2 DEF AuthAccepts
  <2>3. req[r].answer = "none" /\ req[r].op \in Creators \cup Openers
    BY <1>0, <2>2 DEF WellPhased, Creators, Openers
  <2>4. /\ users' \in [Usernames -> SUBSET {"password", "passkey"}]
        /\ \A v \in Usernames : users[v] # {} => users'[v] # {}
        /\ users'[u] # {}
        /\ ceremony' \in [SessionKeys -> Usernames \cup {"unused", "closed"}]
    <3>1. CASE req[r].op = "passkeyFinish"
      <4>1. u = ceremony[req[r].key] /\ FinishRegistrationHandler(req[r].key)
        BY <2>1, <3>1 DEF AuthCall,
           RegisterByPassword, LoginByPassword, AssertionResultHandler
      <4>2. req[r].key \in SessionKeys
        BY <1>0, <2>2, <3>1 DEF WellPhased
      <4> QED BY <1>0, <4>1, <4>2 DEF FinishRegistrationHandler, TypeOK
    <3>2. CASE req[r].op = "register"
      BY <1>0, <2>1, <3>2 DEF AuthCall,
           RegisterByPassword, LoginByPassword, AssertionResultHandler, TypeOK
    <3>3. CASE req[r].op \notin Creators
      BY <1>0, <2>1, <3>3 DEF AuthCall,
           RegisterByPassword, LoginByPassword, AssertionResultHandler, TypeOK, Creators
    <3> QED BY <3>1, <3>2, <3>3 DEF Creators
  <2>5. /\ s \in Request /\ WellPhased(s) /\ s.pc # "row"
        /\ s.answer # "ok" /\ s.user = u
    BY <1>0, <2>3, AcceptedFacts DEF s
  <2>6. req' = [req EXCEPT ![r] = s] \/ req' = [req EXCEPT ![r] = Failed(r)]
    BY <2>1 DEF Reply, s
  <2>7. CASE req' = [req EXCEPT ![r] = s]
    BY <1>0, <2>2, <2>4, <2>5, <2>7, QuietReplace DEF TypeOK
  <2>8. CASE req' = [req EXCEPT ![r] = Failed(r)]
    BY <1>0, <2>2, <2>4, <2>8, QuietError DEF TypeOK
  <2> QED BY <2>6, <2>7, <2>8
<1> QED BY <1>1, <1>2

\* An invite code is minted for nobody in particular.
LEMMA InviteIsQuiet ==
    ASSUME IInv, NEW r \in Requests, CreateInviteCode(r) PROVE Phases' /\ Quiet
<1> USE DEF IInv
<1>0. /\ TypeOK /\ req[r] \in Request /\ WellPhased(req[r])
      /\ \A u \in Usernames : users[u] # {} => users[u] # {}
  BY DEF Phases, TypeOK
<1>1. PICK c \in Codes : /\ invites' = [invites EXCEPT ![c] = "open"]
                         /\ Reply(r, Invited(req[r], c))
  BY DEF CreateInviteCode, Invited
<1> DEFINE s == Invited(req[r], c)
<1> HIDE DEF s
<1>2. /\ req[r].pc = "invite"
      /\ UNCHANGED <<users, ceremony, accounts, rows>>
      /\ invites' \in [Codes -> {"unminted", "open", "spent"}]
  BY <1>0, <1>1 DEF CreateInviteCode, TypeOK
<1>3. /\ s \in Request /\ WellPhased(s) /\ s.pc # "row" /\ s.answer # "ok"
      /\ s.user = req[r].user
  BY <1>0, <1>2, InvitedFacts DEF s
<1>4. req' = [req EXCEPT ![r] = s] \/ req' = [req EXCEPT ![r] = Failed(r)]
  BY <1>1 DEF Reply, s
<1>5. req[r].authed BY <1>0, <1>2 DEF WellPhased
<1>6. ~RefusalsName => users'[req[r].user] # {} BY <1>5, <1>2 DEF AuthedAreUsers
<1>7. CASE req' = [req EXCEPT ![r] = s]
  BY <1>0, <1>2, <1>3, <1>6, <1>7, QuietReplace DEF TypeOK
<1>8. CASE req' = [req EXCEPT ![r] = Failed(r)]
  BY <1>0, <1>2, <1>8, QuietError DEF TypeOK
<1> QED BY <1>4, <1>7, <1>8

\* The tail of a login reads the stores and writes none.
LEMMA LoginIsQuiet ==
    ASSUME IInv, NEW r \in Requests, GetPdsUserByHandle(r) \/ Connect(r)
    PROVE  Phases' /\ Quiet
<1> USE DEF IInv
<1>0. /\ TypeOK /\ req[r] \in Request /\ WellPhased(req[r])
      /\ \A u \in Usernames : users[u] # {} => users[u] # {}
      /\ req[r].pc \in {"lookup", "connect"}
  BY DEF Phases, TypeOK, GetPdsUserByHandle, Connect
<1>1. /\ req[r].op \in Openers /\ req[r].authed /\ req[r].user \in Usernames
      /\ UNCHANGED <<users, ceremony, invites, accounts, rows>>
  BY <1>0 DEF WellPhased, GetPdsUserByHandle, Connect
<1>2. ~RefusalsName => users'[req[r].user] # {} BY <1>1 DEF AuthedAreUsers
<1>3. HandleOf(r) \in Handles /\ PdsHandle(HandleOf(r)) \in Handles
  BY <1>1, HandleFacts DEF HandleOf
<1>4. CASE GetPdsUserByHandle(r)
  <2> DEFINE p == IF rows[HandleOf(r)] # None THEN rows[HandleOf(r)].password ELSE Blank
             s == LookedUp(req[r], p)
  <2> HIDE DEF p, s
  <2>1. req[r].pc = "lookup" /\ req' = [req EXCEPT ![r] = s]
    BY <1>4 DEF GetPdsUserByHandle, LookedUp, p, s
  <2>2. rows[HandleOf(r)] # None => rows[HandleOf(r)] \in Account
    BY <1>0, <1>3 DEF TypeOK
  <2>3. p \in Passwords \cup {Blank} BY <2>2 DEF p, Account
  <2>4. /\ s \in Request /\ WellPhased(s) /\ s.pc = "connect" /\ s.answer = "none"
        /\ s.user = req[r].user
    BY <1>0, <2>1, <2>3, LookedUpFacts DEF s
  <2> QED BY <1>0, <1>1, <1>2, <2>1, <2>4, QuietReplace DEF TypeOK
<1>5. CASE Connect(r)
  <2>1. CASE Opens(HandleOf(r), req[r].password)
    <3> DEFINE q == Answer(r, "ok")
               d == accounts[PdsHandle(HandleOf(r))].did
               s == Opened(q, d)
    <3> HIDE DEF q, d, s
    <3>1. req' = [req EXCEPT ![r] = s] BY <1>5, <2>1 DEF Connect, Opened, q, d, s
    <3>2. d \in Dids BY <1>0, <1>3, <2>1 DEF Opens, TypeOK, Account, d
    <3>3. /\ q \in Request /\ q.pc = "done" /\ q.answer = "ok" /\ q.op = req[r].op
          /\ q.user = req[r].user /\ q.authed = req[r].authed
      BY <1>0, AnswerFacts DEF q
    <3>4. WellPhased(q) /\ q.op \notin Creators
        BY <1>1, <3>3 DEF WellPhased, Openers, Creators
    <3>5. /\ s \in Request /\ WellPhased(s) /\ s.pc = "done"
          /\ s.user = req[r].user /\ s.op \notin Creators
      BY <1>1, <3>2, <3>3, <3>4, OpenedFacts DEF s, Openers, Creators
    <3> QED BY <1>0, <1>1, <1>2, <3>1, <3>5, QuietReplace DEF TypeOK
  <2>2. CASE ~Opens(HandleOf(r), req[r].password)
    <3>1. req' = [req EXCEPT ![r] = Answer(r, "error")]
      BY <1>5, <2>2 DEF Connect
    <3> QED BY <1>0, <1>1, <3>1, QuietError DEF TypeOK
  <2> QED BY <2>1, <2>2
<1> QED BY <1>4, <1>5

\* A refused account, a failed call, and the crash touch no store.
LEMMA FailureIsQuiet ==
    ASSUME IInv,
           \/ \E r \in Requests : CreateAccountRefused(r) \/ CallFails(r)
           \/ Crash
    PROVE  Phases' /\ Quiet
<1> USE DEF IInv
<1>0. /\ TypeOK
      /\ \A u \in Usernames : users[u] # {} => users[u] # {}
  BY DEF Phases, TypeOK
<1>1. ASSUME NEW r \in Requests, CreateAccountRefused(r) \/ CallFails(r)
      PROVE  Phases' /\ Quiet
  BY <1>0, <1>1, QuietError DEF CreateAccountRefused, CallFails, TypeOK
<1>2. CASE Crash
  <2>1. \A x \in Requests : req'[x] = IF Running(x) THEN Lost(req[x]) ELSE req[x]
    BY <1>2 DEF Crash, Lost
  <2>2. UNCHANGED <<users, ceremony, invites, accounts, rows>> BY <1>2 DEF Crash
  <2>3. ASSUME NEW x \in Requests, Running(x)
        PROVE  LET s == Lost(req[x]) IN
               /\ s \in Request /\ WellPhased(s) /\ s.pc = "lost"
               /\ s.user = req[x].user /\ s.authed = req[x].authed
               /\ s.answer = "none"
    <3>1. /\ req[x] \in Request /\ WellPhased(req[x])
          /\ req[x].pc \notin {"idle", "done", "lost"}
      BY <1>0, <2>3 DEF TypeOK, Phases, Running
    <3> QED BY <3>1, LostFacts
  <2>4. Phases'
    <3>1. \A x \in Requests : req'[x] \in Request /\ WellPhased(req'[x])
      BY <1>0, <2>1, <2>3 DEF Phases, TypeOK
    <3>2. req' \in [Requests -> Request]
      <4>1. req' = [x \in Requests |-> req'[x]] BY <1>2 DEF Crash
      <4> QED BY <4>1, <3>1
    <3>3. \A x \in Requests : WellPhased(req[x])' BY <3>1 DEF WellPhased
    <3> QED BY <1>0, <2>2, <3>2, <3>3 DEF Phases, TypeOK
  <2>5. Quiet
    <3>1. ASSUME NEW x \in Requests, Running(x)
          PROVE  /\ req'[x].pc # "row" /\ req'[x].answer # "ok"
                 /\ req'[x].authed /\ ~RefusalsName => users'[req'[x].user] # {}
      BY <2>1, <2>2, <2>3, <3>1 DEF AuthedAreUsers
    <3> QED BY <2>1, <2>2, <3>1 DEF Quiet
  <2> QED BY <2>4, <2>5
<1> QED BY <1>1, <1>2

\* What a handler holds while it saves the row is a proper account.
LEMMA StoredUserFacts ==
    ASSUME Phases, NEW r \in Requests,
           \/ req[r].pc = "row"
           \/ req[r].op \in Creators /\ req[r].answer = "ok"
    PROVE  StoredUser(r) \in Account /\ StoredUser(r) # None
<1>1. req[r].password \in Passwords /\ req[r].did \in Dids /\ req[r].code \in Codes
  BY DEF Phases, WellPhased
<1> QED BY <1>1, NoneAssumption DEF StoredUser, Account

\* A new PDS account takes a free handle, whose row is therefore missing.
LEMMA CreateAccountKeeps ==
    ASSUME IInv, NEW r \in Requests, CreateAccount(r) PROVE IInv'
<1> USE DEF IInv
<1> DEFINE h == PdsHandle(HandleOf(r))
<1>0. /\ TypeOK /\ req[r] \in Request /\ WellPhased(req[r])
      /\ req[r].pc = "account"
  BY DEF Phases, TypeOK, CreateAccount
<1>1. /\ req[r].authed /\ req[r].user \in Usernames /\ req[r].code \in Codes
      /\ req[r].op \in Creators /\ (~RefusalsName => users[req[r].user] # {})
  BY <1>0 DEF WellPhased, AuthedAreUsers
<1>2. h \in Handles /\ accounts[h] = None
  BY <1>1, HandleFacts DEF HandleOf, CreateAccount, HandleTaken
<1>3. PICK p \in Passwords, d \in FreshDids :
        /\ accounts' = [accounts EXCEPT ![h] =
                          [password |-> p, did |-> d, code |-> req[r].code]]
        /\ Reply(r, Hosted(req[r], p, d))
  BY DEF CreateAccount, Hosted
<1> DEFINE a == [password |-> p, did |-> d, code |-> req[r].code]
           s == Hosted(req[r], p, d)
<1> HIDE DEF h, s
<1>4. d \in Dids BY DEF FreshDids
<1>5. a \in Account /\ a # None BY <1>1, <1>4, NoneAssumption DEF Account
<1>6. /\ UNCHANGED <<users, ceremony, rows>>
      /\ invites' \in [Codes -> {"unminted", "open", "spent"}]
      /\ accounts' \in [Handles -> Account \cup {None}]
      /\ \A g \in Handles : accounts'[g] = IF g = h THEN a ELSE accounts[g]
  BY <1>0, <1>1, <1>2, <1>3, <1>5 DEF CreateAccount, TypeOK
<1>7. /\ s \in Request /\ WellPhased(s) /\ s.pc = "row" /\ s.answer = "none"
      /\ s.password = p /\ s.did = d /\ s.code = req[r].code
      /\ s.user = req[r].user
  BY <1>0, <1>4, HostedFacts DEF s
<1>8. PICK q \in {s, Failed(r)} : req' = [req EXCEPT ![r] = q]
  BY <1>3 DEF Reply, s
<1>9. /\ q \in Request /\ WellPhased(q) /\ q.answer # "ok"
      /\ q.user = req[r].user /\ (q.pc = "row" => q = s)
  BY <1>0, <1>7, ErrorIsWellPhased, FailedFacts
<1>10. \A x \in Requests : req'[x] = IF x = r THEN q ELSE req[x]
  BY <1>0, <1>8 DEF TypeOK
<1>11. Phases' BY <1>0, <1>6, <1>8, <1>9, Replace DEF TypeOK
<1>12. AuthedAreUsers' BY <1>1, <1>6, <1>9, <1>10 DEF AuthedAreUsers
<1>13. HeldKeysOpen'
  <2> SUFFICES ASSUME NEW x \in Requests, req'[x].pc = "row"
               PROVE  (accounts[PdsHandle(HandleOf(x))] = StoredUser(x))'
    BY DEF HeldKeysOpen
  <2>1. CASE x = r
    <3>1. req'[r] = s BY <1>9, <1>10, <2>1
    <3>2. StoredUser(r)' = a BY <3>1, <1>7 DEF StoredUser
    <3>3. PdsHandle(HandleOf(r))' = h BY <3>1, <1>7 DEF HandleOf, h
    <3> QED BY <1>2, <1>6, <2>1, <3>2, <3>3
  <2>2. CASE x # r
    <3>1. req'[x] = req[x] BY <1>10, <2>2
    <3>2. accounts[PdsHandle(HandleOf(x))] = StoredUser(x) /\ StoredUser(x) # None
      BY <3>1, StoredUserFacts DEF HeldKeysOpen
    <3>3. PdsHandle(HandleOf(x)) \in Handles
      BY <3>1, HandleFacts DEF HandleOf, Phases, WellPhased
    <3>4. accounts'[PdsHandle(HandleOf(x))] = StoredUser(x)
      BY <1>2, <1>6, <3>2, <3>3
    <3> QED BY <3>1, <3>4 DEF StoredUser, HandleOf
  <2> QED BY <2>1, <2>2
<1>14. RowOpensAccount' BY <1>2, <1>6 DEF RowOpensAccount
<1>15. ~RefusalsName => NoAccountWithoutUser'
  BY <1>1, <1>2, <1>6 DEF NoAccountWithoutUser, HandleOf, h
<1>16. SuccessIsDurable'
  <2> SUFFICES ASSUME NEW x \in Requests,
                      req'[x].op \in Creators, req'[x].answer = "ok"
               PROVE  (LET g == PdsHandle(HandleOf(x)) IN
                         /\ ~RefusalsName => users[req[x].user] # {}
                         /\ rows[g] = StoredUser(x)
                         /\ accounts[g] = StoredUser(x))'
    BY DEF SuccessIsDurable
  <2> DEFINE g == PdsHandle(HandleOf(x))
  <2>1. req'[x] = req[x] BY <1>9, <1>10
  <2>2. g \in Handles BY <2>1, HandleFacts DEF HandleOf, Phases, WellPhased
  <2>3. /\ ~RefusalsName => users[req[x].user] # {}
        /\ rows[g] = StoredUser(x)
        /\ accounts[g] = StoredUser(x) /\ StoredUser(x) # None
    BY <2>1, StoredUserFacts DEF SuccessIsDurable
  <2>4. accounts'[g] = StoredUser(x) BY <1>2, <1>6, <2>2, <2>3
  <2> QED BY <1>6, <2>1, <2>3, <2>4 DEF StoredUser, HandleOf
<1> QED BY <1>11, <1>12, <1>13, <1>14, <1>15, <1>16

\* The row saved is the one the handler holds the live credentials for.
LEMMA CreatePdsUserKeeps ==
    ASSUME IInv, NEW r \in Requests, CreatePdsUser(r) PROVE IInv'
<1> USE DEF IInv
<1> DEFINE h == PdsHandle(HandleOf(r))
           ok == Answer(r, "ok")
           a == StoredUser(r)
<1>0. /\ TypeOK /\ req[r] \in Request /\ WellPhased(req[r]) /\ req[r].pc = "row"
      /\ rows[h] = None /\ rows' = [rows EXCEPT ![h] = a]
      /\ UNCHANGED <<users, ceremony, invites, accounts>>
  BY DEF Phases, TypeOK, CreatePdsUser
<1>1. req[r].authed /\ req[r].user \in Usernames /\ req[r].op \in Creators
  BY <1>0 DEF WellPhased
<1>2. h \in Handles BY <1>1, HandleFacts DEF HandleOf
<1>3. accounts[h] = a /\ a \in Account /\ a # None
  BY <1>0, StoredUserFacts DEF HeldKeysOpen
<1>4. /\ ok \in Request /\ ok.pc = "done" /\ ok.answer = "ok" /\ ok.op = req[r].op
      /\ ok.user = req[r].user /\ ok.code = req[r].code
      /\ ok.password = req[r].password /\ ok.did = req[r].did
      /\ ok.authed = req[r].authed
  BY <1>0, AnswerFacts
<1>5. WellPhased(ok) BY <1>0, <1>1, <1>4 DEF WellPhased
<1>6. Reply(r, ok) BY DEF CreatePdsUser
<1> HIDE DEF ok, h, a
<1>7. PICK q \in {ok, Failed(r)} : req' = [req EXCEPT ![r] = q]
  BY <1>6 DEF Reply
<1>8. /\ q \in Request /\ WellPhased(q) /\ q.pc = "done"
      /\ q.user = req[r].user /\ (q.answer = "ok" => q = ok)
  BY <1>0, <1>4, <1>5, ErrorIsWellPhased, FailedFacts
<1>9. \A x \in Requests : req'[x] = IF x = r THEN q ELSE req[x]
  BY <1>0, <1>7 DEF TypeOK
<1>10. /\ rows' \in [Handles -> Account \cup {None}]
       /\ \A g \in Handles : rows'[g] = IF g = h THEN a ELSE rows[g]
  BY <1>0, <1>2, <1>3 DEF TypeOK
<1>11. Phases' BY <1>0, <1>7, <1>8, <1>10, Replace DEF TypeOK
<1>12. AuthedAreUsers' BY <1>0, <1>1, <1>8, <1>9 DEF AuthedAreUsers
<1>13. HeldKeysOpen'
  <2> SUFFICES ASSUME NEW x \in Requests, req'[x].pc = "row"
               PROVE  (accounts[PdsHandle(HandleOf(x))] = StoredUser(x))'
    BY DEF HeldKeysOpen
  <2>1. req'[x] = req[x] BY <1>8, <1>9
  <2> QED BY <1>0, <2>1 DEF HeldKeysOpen, HandleOf, StoredUser
<1>14. RowOpensAccount' BY <1>0, <1>3, <1>10 DEF RowOpensAccount
<1>15. ~RefusalsName => NoAccountWithoutUser' BY <1>0 DEF NoAccountWithoutUser
<1>16. SuccessIsDurable'
  <2> SUFFICES ASSUME NEW x \in Requests,
                      req'[x].op \in Creators, req'[x].answer = "ok"
               PROVE  (LET g == PdsHandle(HandleOf(x)) IN
                         /\ ~RefusalsName => users[req[x].user] # {}
                         /\ rows[g] = StoredUser(x)
                         /\ accounts[g] = StoredUser(x))'
    BY DEF SuccessIsDurable
  <2>1. CASE x = r
    <3>1. req'[r] = ok BY <1>8, <1>9, <2>1
    <3>2. StoredUser(r)' = a BY <3>1, <1>4 DEF StoredUser, a
    <3>3. PdsHandle(HandleOf(r))' = h BY <3>1, <1>4 DEF HandleOf, h
    <3>4. ~RefusalsName => users'[req'[r].user] # {}
      BY <1>0, <1>1, <1>4, <3>1 DEF AuthedAreUsers
    <3> QED BY <1>0, <1>2, <1>3, <1>10, <2>1, <3>2, <3>3, <3>4
  <2>2. CASE x # r
    <3> DEFINE g == PdsHandle(HandleOf(x))
    <3>1. req'[x] = req[x] BY <1>9, <2>2
    <3>2. g \in Handles BY <3>1, HandleFacts DEF HandleOf, Phases, WellPhased
    <3>3. /\ ~RefusalsName => users[req[x].user] # {}
          /\ rows[g] = StoredUser(x)
          /\ accounts[g] = StoredUser(x) /\ StoredUser(x) # None
      BY <3>1, StoredUserFacts DEF SuccessIsDurable
    <3>4. rows'[g] = StoredUser(x) BY <1>0, <1>10, <3>2, <3>3 DEF h
    <3> QED BY <1>0, <3>1, <3>3, <3>4 DEF StoredUser, HandleOf
  <2> QED BY <2>1, <2>2
<1> QED BY <1>11, <1>12, <1>13, <1>14, <1>15, <1>16

\* Only two actions write a store keyed by handle.
LEMMA NextCases ==
    ASSUME IInv, [Next]_vars
    PROVE  \/ Phases' /\ Quiet
           \/ \E r \in Requests : CreateAccount(r) \/ CreatePdsUser(r)
<1>1. CASE UNCHANGED vars
  BY <1>1 DEF vars, IInv, Phases, TypeOK, WellPhased, Quiet
<1>2. CASE Next
  <2>1. ASSUME NEW r \in Requests,
               Receive(r) \/ RejectForm(r) \/ Step(r) \/ CallFails(r)
        PROVE  \/ Phases' /\ Quiet
               \/ CreateAccount(r) \/ CreatePdsUser(r)
    BY <2>1, ReceiveIsQuiet, AuthIsQuiet, InviteIsQuiet, LoginIsQuiet,
       FailureIsQuiet
       DEF Step, register, FinishPasskeyRegister, login, AssertionResult,
           CreateBlueskyPdsAccount
  <2>2. ASSUME NEW k \in SessionKeys,
               \/ \E u \in Usernames : StartPasskeyRegister(u, k)
               \/ CancelPasskeyRegister(k)
               \/ FinishPasskeyTransferRegister(k)
        PROVE  Phases' /\ Quiet
    BY <2>2, CeremonyIsQuiet
  <2>3. Crash => Phases' /\ Quiet BY FailureIsQuiet
  <2> QED BY <1>2, <2>1, <2>2, <2>3 DEF Next
<1> QED BY <1>1, <1>2

\* Every step keeps the invariant.
LEMMA NextKeepsIInv == IInv /\ [Next]_vars => IInv'
BY NextCases, QuietStep, CreateAccountKeeps, CreatePdsUserKeeps
-----------------------------------------------------------------------------
(* The theorems.                                                           *)

\* The invariant on which the others rest.
THEOREM Inductive == Spec => []IInv
BY InitIInv, NextKeepsIInv, PTL DEF Spec

\* Every variable keeps its type.
THEOREM TypeCorrect == Spec => []TypeOK
<1>1. IInv => TypeOK BY DEF IInv, Phases
<1> QED BY <1>1, Inductive, PTL

\* A saved row always opens a live account (CreateBlueskyPdsAccount).
THEOREM RowsOpenAccounts == Spec => []RowOpensAccount
<1>1. IInv => RowOpensAccount BY DEF IInv
<1> QED BY <1>1, Inductive, PTL

\* No hosted account without a user of the auth service, whose refusals carry no
\* token or no user.
THEOREM AccountsHaveUsers ==
    ASSUME ~RefusalsName
    PROVE  Spec => []NoAccountWithoutUser
<1>1. IInv => NoAccountWithoutUser BY DEF IInv
<1> QED BY <1>1, Inductive, PTL

\* A successful registration is complete, and stays so.
THEOREM SuccessesAreDurable == Spec => []SuccessIsDurable
<1>1. IInv => SuccessIsDurable BY DEF IInv
<1> QED BY <1>1, Inductive, PTL

\* An account whose password was lost is lost for good: nothing repairs it.
THEOREM OrphansArePermanent == Spec => OrphanIsPermanent
<1> DEFINE Kept == \A h \in Handles : Orphaned(h) => Orphaned(h)'
<1>1. ASSUME IInv, [Next]_vars PROVE Kept
  <2> SUFFICES ASSUME NEW h \in Handles, Orphaned(h) PROVE Orphaned(h)'
    OBVIOUS
  <2>1. accounts[h] # None /\ rows[h] = None
        /\ \A x \in Requests : ~Holds(x, h)
    BY DEF Orphaned
  <2>2. CASE Quiet
    <3>1. ASSUME NEW x \in Requests PROVE ~Holds(x, h)'
      BY <2>1, <2>2 DEF Holds, Quiet, HandleOf
    <3> QED BY <2>1, <2>2, <3>1 DEF Orphaned, Quiet
  <2>3. ASSUME NEW r \in Requests, CreateAccount(r) PROVE Orphaned(h)'
    <3> DEFINE g == PdsHandle(HandleOf(r))
    <3>1. g # h /\ accounts[g] = None BY <2>1, <2>3 DEF CreateAccount, HandleTaken
    <3>2. accounts'[h] = accounts[h] /\ rows' = rows
      <4>1. PICK v : accounts' = [accounts EXCEPT ![g] = v]
        BY <2>3 DEF CreateAccount
      <4> QED BY <1>1, <2>3, <3>1, <4>1 DEF CreateAccount, IInv, Phases, TypeOK
    <3>3. \A x \in Requests : x # r => req'[x] = req[x]
      BY <1>1, <2>3 DEF CreateAccount, Reply, IInv, Phases, TypeOK
    <3>4. req'[r].user = req[r].user
      <4>1. PICK p \in Passwords, d \in FreshDids : Reply(r, Hosted(req[r], p, d))
        BY <2>3 DEF CreateAccount, Hosted
      <4>2. /\ req \in [Requests -> Request] /\ req[r] \in Request
            /\ WellPhased(req[r]) /\ req[r].pc = "account" /\ d \in Dids
        BY <1>1, <2>3 DEF CreateAccount, IInv, Phases, TypeOK, FreshDids
      <4>3. Hosted(req[r], p, d).user = req[r].user /\ Failed(r).user = req[r].user
        BY <4>2, HostedFacts, FailedFacts
      <4> QED BY <4>1, <4>2, <4>3 DEF Reply
    <3>5. ASSUME NEW x \in Requests PROVE ~Holds(x, h)'
      BY <2>1, <3>1, <3>3, <3>4 DEF Holds, HandleOf
    <3> QED BY <2>1, <3>2, <3>5 DEF Orphaned
  <2>4. ASSUME NEW r \in Requests, CreatePdsUser(r) PROVE Orphaned(h)'
    <3> DEFINE g == PdsHandle(HandleOf(r))
    <3>1. req[r].pc = "row" /\ g # h BY <2>1, <2>4 DEF CreatePdsUser, Holds
    <3>2. accounts' = accounts /\ rows'[h] = rows[h]
      <4>1. rows' = [rows EXCEPT ![g] = StoredUser(r)] /\ accounts' = accounts
        BY <2>4 DEF CreatePdsUser
      <4> QED BY <1>1, <3>1, <4>1 DEF IInv, Phases, TypeOK
    <3>3. /\ \A x \in Requests : x # r => req'[x] = req[x]
          /\ req'[r].pc = "done"
      <4>1. req \in [Requests -> Request] /\ req[r] \in Request
        BY <1>1 DEF IInv, Phases, TypeOK
      <4>2. Answer(r, "ok").pc = "done" /\ Failed(r).pc = "done"
        BY <4>1, AnswerFacts, FailedFacts
      <4> QED BY <2>4, <4>1, <4>2 DEF CreatePdsUser, Reply
    <3>4. ASSUME NEW x \in Requests PROVE ~Holds(x, h)'
      BY <2>1, <3>3 DEF Holds, HandleOf
    <3> QED BY <2>1, <3>2, <3>4 DEF Orphaned
  <2> QED BY <1>1, <2>2, <2>3, <2>4, NextCases
<1> QED BY <1>1, Inductive, PTL DEF Spec, OrphanIsPermanent
=============================================================================
