--------------------------- MODULE HttpClientProofs ---------------------------
(***************************************************************************)
(* Proofs about the HTTP helper, for any number of calls over any number   *)
(* of configurations.                                                      *)
(***************************************************************************)
EXTENDS HttpClient, TLAPS

Call == [op      : {"none", "HttpRequest", "GetHttpPost", "HttpFullPost"},
         pc      : {"idle", "sent", "answered", "done"},
         uses    : SUBSET Configs,
         sent    : Message,
         status  : {"none", "OK", "other"},
         decodes : BOOLEAN,
         body    : {"none", "open", "closed"},
         result  : {"none", "ok", "error"}]

\* A call that has not begun uses no configuration; only an ended one succeeds.
Progress(q) ==
    /\ q.pc = "idle" => q.op = "none" /\ q.uses = {} /\ q.sent = Nothing
    /\ q.result = "ok" => q.pc = "done"

\* A URL grows only by the calls it serves.
QueriesHaveCalls ==
    \A c \in Configs : config[c].queries > 0 =>
        \E l \in Calls : call[l].op = "HttpRequest" /\ c \in call[l].uses

IInv == /\ HttpTypeOK
        /\ \A k \in Calls : Progress(call[k])
        /\ QueriesHaveCalls
        /\ SuccessIsReal
        /\ SentAsAsked

\* A nil error is what its caller takes it for.
Real(q) == q.result = "ok" =>
    /\ q.op # "HttpFullPost" => q.status = "OK"
    /\ q.op # "GetHttpPost" => q.decodes /\ q.body = "closed"

\* What a call sent agrees with a configuration it uses.
Agrees(q, c) ==
    q.op = "HttpRequest" /\ c \in q.uses /\ q.sent # Nothing =>
        /\ q.sent.method = config[c].method
        /\ config[c].payload = "bytes" => q.sent.payload = "bytes"
        /\ config[c].payload = "map" => q.sent.queries > 0
-----------------------------------------------------------------------------
(* One call is rewritten.                                                  *)

\* What the invariant says of one call.
LEMMA CallFacts ==
    ASSUME IInv, NEW k \in Calls
    PROVE  /\ call \in [Calls -> Call] /\ call[k] \in Call
           /\ Progress(call[k]) /\ Real(call[k])
           /\ \A c \in Configs : Agrees(call[k], c)
           /\ config \in [Configs -> ReqConfig]
<1>1. call \in [Calls -> Call] /\ config \in [Configs -> ReqConfig]
  BY DEF IInv, HttpTypeOK, Call
<1> QED BY <1>1 DEF IInv, SuccessIsReal, SentAsAsked, Real, Agrees

\* The conditions under which rewriting call k keeps the invariant.
LEMMA Replace ==
    ASSUME IInv, NEW k \in Calls, NEW s \in Call,
           call' = [call EXCEPT ![k] = s],
           s.pc # "idle", Progress(s), Real(s),
           call[k].pc # "idle" => s.op = call[k].op /\ s.uses = call[k].uses,
           config' \in [Configs -> ReqConfig],
           \A c \in Configs : /\ config'[c].method = config[c].method
                              /\ config'[c].payload = config[c].payload
                              /\ config'[c].queries > 0 =>
                                   \/ config[c].queries > 0
                                   \/ s.op = "HttpRequest" /\ c \in s.uses,
           \A c \in Configs :
             s.op = "HttpRequest" /\ c \in s.uses /\ s.sent # Nothing =>
               /\ Agrees(s, c)
               /\ s.sent.queries > 1 =>
                    \E l \in Calls \ {k} : /\ call[l].op = "HttpRequest"
                                           /\ c \in call[l].uses
    PROVE  IInv'
<1>1. /\ call \in [Calls -> Call] /\ call' \in [Calls -> Call] /\ call'[k] = s
      /\ \A l \in Calls : l # k => call'[l] = call[l]
  BY CallFacts
<1>2. ASSUME NEW l \in Calls, NEW c \in Configs,
             call[l].op = "HttpRequest", c \in call[l].uses
      PROVE  call'[l].op = "HttpRequest" /\ c \in call'[l].uses
  <2>1. call[l].pc # "idle" BY <1>2, CallFacts DEF Progress
  <2> QED BY <1>1, <1>2, <2>1
<1>3. HttpTypeOK' BY <1>1 DEF HttpTypeOK, Call
<1>4. ASSUME NEW l \in Calls PROVE Progress(call[l])'
  <2>1. CASE l = k BY <1>1, <2>1 DEF Progress
  <2>2. CASE l # k
    <3>1. call'[l] = call[l] /\ Progress(call[l]) BY <1>1, <2>2, CallFacts
    <3> QED BY <3>1 DEF Progress
  <2> QED BY <2>1, <2>2
<1>5. QueriesHaveCalls'
  <2> SUFFICES ASSUME NEW c \in Configs, config'[c].queries > 0
               PROVE  \E l \in Calls : call'[l].op = "HttpRequest" /\ c \in call'[l].uses
    BY DEF QueriesHaveCalls
  <2>1. CASE config[c].queries > 0 BY <1>2, <2>1 DEF IInv, QueriesHaveCalls
  <2>2. CASE s.op = "HttpRequest" /\ c \in s.uses BY <1>1, <2>2
  <2> QED BY <2>1, <2>2
<1>6. SuccessIsReal'
  <2> SUFFICES ASSUME NEW l \in Calls PROVE Real(call'[l])
    BY DEF SuccessIsReal, Real
  <2> QED BY <1>1, CallFacts
<1>7. SentAsAsked'
  <2> SUFFICES ASSUME NEW l \in Calls, NEW c \in Configs,
                      call'[l].op = "HttpRequest", c \in call'[l].uses,
                      call'[l].sent # Nothing
               PROVE  /\ call'[l].sent.method = config'[c].method
                      /\ config'[c].payload = "bytes" => call'[l].sent.payload = "bytes"
                      /\ config'[c].payload = "map" => call'[l].sent.queries > 0
                      /\ call'[l].sent.queries > 1 =>
                           \E m \in Calls \ {l} : /\ call'[m].op = "HttpRequest"
                                                  /\ c \in call'[m].uses
    BY DEF SentAsAsked
  <2>1. PICK q \in Call : q = call'[l] BY <1>1
  <2>2. Agrees(q, c)
    <3>1. CASE l = k BY <1>1, <2>1, <3>1
    <3>2. CASE l # k BY <1>1, <2>1, <3>2, CallFacts
    <3> QED BY <3>1, <3>2
  <2>3. q.sent.queries > 1 => \E m \in Calls \ {l} : /\ call[m].op = "HttpRequest"
                                                     /\ c \in call[m].uses
    <3>1. CASE l = k BY <1>1, <2>1, <3>1
    <3>2. CASE l # k BY <1>1, <2>1, <3>2 DEF IInv, SentAsAsked
    <3> QED BY <3>1, <3>2
  <2>4. /\ q.sent.method = config[c].method
        /\ config[c].payload = "bytes" => q.sent.payload = "bytes"
        /\ config[c].payload = "map" => q.sent.queries > 0
    BY <2>1, <2>2 DEF Agrees
  <2>5. config'[c].method = config[c].method /\ config'[c].payload = config[c].payload
    OBVIOUS
  <2> QED BY <1>2, <2>1, <2>3, <2>4, <2>5
<1> QED BY <1>3, <1>4, <1>5, <1>6, <1>7 DEF IInv

\* A call goes on: it uses and sent what it did.
LEMMA GoesOn ==
    ASSUME IInv, NEW k \in Calls, NEW s \in Call,
           call' = [call EXCEPT ![k] = s], UNCHANGED config,
           call[k].pc # "idle",
           s.op = call[k].op, s.uses = call[k].uses, s.sent = call[k].sent,
           s.pc # "idle", Progress(s), Real(s)
    PROVE  IInv'
<1>1. \A c \in Configs :
        s.op = "HttpRequest" /\ c \in s.uses /\ s.sent # Nothing =>
          /\ Agrees(s, c)
          /\ s.sent.queries > 1 =>
               \E l \in Calls \ {k} : call[l].op = "HttpRequest" /\ c \in call[l].uses
  <2> SUFFICES ASSUME NEW c \in Configs, s.op = "HttpRequest", c \in s.uses,
                      s.sent # Nothing
               PROVE  /\ Agrees(s, c)
                      /\ s.sent.queries > 1 =>
                           \E l \in Calls \ {k} : /\ call[l].op = "HttpRequest"
                                                  /\ c \in call[l].uses
    OBVIOUS
  <2>1. Agrees(s, c) BY CallFacts DEF Agrees
  <2> QED BY <2>1 DEF IInv, SentAsAsked
<1>2. config' \in [Configs -> ReqConfig] BY CallFacts
<1>3. \A c \in Configs : /\ config'[c].method = config[c].method
                         /\ config'[c].payload = config[c].payload
                         /\ config'[c].queries > 0 => config[c].queries > 0
  OBVIOUS
<1> QED BY <1>1, <1>2, <1>3, Replace

\* A call begins that sends nothing a configuration would contradict.
LEMMA Begins ==
    ASSUME IInv, NEW k \in Calls, call[k].pc = "idle", UNCHANGED config,
           NEW op \in {"GetHttpPost", "HttpFullPost"}, NEW cs \in SUBSET Configs,
           NEW m \in Message, Starts(k, op, cs, m)
    PROVE  IInv'
<1>1. PICK q \in Call : q = call[k] BY CallFacts
<1>2. PICK s : s = [q EXCEPT !.op = op, !.uses = cs, !.sent = m, !.pc = "sent"]
  OBVIOUS
<1>3. s \in Call BY <1>2 DEF Call
<1>4. s.op = op /\ s.pc = "sent" /\ s.result = q.result BY <1>2 DEF Call
<1>5. call' = [call EXCEPT ![k] = s] BY <1>1, <1>2, CallFacts DEF Starts
<1>6. q.result # "ok" BY <1>1, CallFacts DEF Progress
<1>7. Progress(s) /\ Real(s) BY <1>4, <1>6 DEF Progress, Real
<1> QED BY <1>1, <1>3, <1>4, <1>5, <1>7, CallFacts, Replace
-----------------------------------------------------------------------------
(* The invariant is inductive: one lemma per operation.                    *)

\* Nothing has been asked, and no URL has grown.
LEMMA InitIInv == HttpInit => IInv
<1> SUFFICES ASSUME HttpInit PROVE IInv OBVIOUS
<1> DEFINE s == [op |-> "none", pc |-> "idle", uses |-> {}, sent |-> Nothing,
                 status |-> "none", decodes |-> FALSE, body |-> "none",
                 result |-> "none"]
<1>1. s \in Call BY DEF Call, Message, Nothing
<1>2. s.op = "none" /\ s.pc = "idle" /\ s.uses = {} /\ s.sent = Nothing /\ s.result = "none"
  OBVIOUS
<1> HIDE DEF s
<1>3. call = [k \in Calls |-> s] BY DEF HttpInit, s
<1>4. /\ config \in [Configs -> ReqConfig]
      /\ \A c \in Configs : config[c].queries = 0
  BY DEF HttpInit, ReqConfig
<1>5. HttpTypeOK BY <1>1, <1>3, <1>4 DEF HttpTypeOK, Call
<1>6. \A k \in Calls : Progress(call[k]) BY <1>2, <1>3 DEF Progress
<1>7. QueriesHaveCalls BY <1>4 DEF QueriesHaveCalls
<1>8. SuccessIsReal /\ SentAsAsked BY <1>2, <1>3 DEF SuccessIsReal, SentAsAsked
<1> QED BY <1>5, <1>6, <1>7, <1>8 DEF IInv

\* The URL grows by this call's parameters, or stays; either way it is the one
\* that is sent.
LEMMA HttpRequestKeeps ==
    ASSUME IInv, NEW k \in Calls, NEW c \in Configs, HttpRequest(k, c) PROVE IInv'
<1>1. PICK q \in Call, f \in ReqConfig : q = call[k] /\ f = config[c] BY CallFacts
<1>2. q.pc = "idle" /\ q.result # "ok" BY <1>1, CallFacts DEF HttpRequest, Progress
<1>3. CASE query(k, c)
  <2>1. PICK body \in {"nil", "bytes", "params"} : body = getRequestBody(f)
    BY <1>1, <1>3 DEF query, getRequestBody
  <2>2. PICK url \in Nat : url = f.queries + (IF body = "params" THEN 1 ELSE 0)
    BY DEF ReqConfig
  <2>3. PICK m : m = [method |-> f.method,
                      payload |-> IF body = "bytes" THEN "bytes" ELSE "nil",
                      queries |-> url]
    OBVIOUS
  <2>4. /\ m \in Message /\ m.method = f.method /\ m.queries = url
        /\ m.payload = IF body = "bytes" THEN "bytes" ELSE "nil"
    BY <2>3 DEF Message, ReqConfig
  <2>5. /\ config' = [config EXCEPT ![c].queries = url]
        /\ Starts(k, "HttpRequest", {c}, m)
    BY <1>1, <1>3, <2>1, <2>2, <2>3 DEF query
  <2>6. PICK s : s = [q EXCEPT !.op = "HttpRequest", !.uses = {c}, !.sent = m,
                               !.pc = "sent"]
    OBVIOUS
  <2>7. s \in Call BY <2>4, <2>6 DEF Call
  <2>8. /\ s.op = "HttpRequest" /\ s.uses = {c} /\ s.sent = m /\ s.pc = "sent"
        /\ s.result = q.result
    BY <2>6 DEF Call
  <2>9. call' = [call EXCEPT ![k] = s] BY <1>1, <2>5, <2>6, CallFacts DEF Starts
  <2>10. Progress(s) /\ Real(s) BY <1>2, <2>8 DEF Progress, Real
  <2>11. /\ f.payload = "bytes" => body = "bytes"
         /\ f.payload = "map" => body = "params"
    BY <2>1 DEF getRequestBody
  <2>12. Agrees(s, c)
    <3>1. f.payload = "bytes" => m.payload = "bytes" BY <2>4, <2>11
    <3>2. f.payload = "map" => m.queries > 0 BY <2>2, <2>4, <2>11 DEF ReqConfig
    <3> QED BY <1>1, <2>4, <2>8, <3>1, <3>2 DEF Agrees
  <2>13. m.queries > 1 =>
           \E l \in Calls \ {k} : call[l].op = "HttpRequest" /\ c \in call[l].uses
    <3> SUFFICES ASSUME url > 1
                 PROVE  \E l \in Calls \ {k} : /\ call[l].op = "HttpRequest"
                                               /\ c \in call[l].uses
      BY <2>4
    <3>1. f.queries > 0 BY <2>2 DEF ReqConfig
    <3>2. PICK l \in Calls : call[l].op = "HttpRequest" /\ c \in call[l].uses
      BY <1>1, <3>1 DEF IInv, QueriesHaveCalls
    <3>3. l # k BY <1>1, <1>2, <3>2, CallFacts DEF Progress
    <3> QED BY <3>2, <3>3
  <2>14. /\ config' \in [Configs -> ReqConfig]
         /\ \A d \in Configs : /\ config'[d].method = config[d].method
                               /\ config'[d].payload = config[d].payload
                               /\ d # c => config'[d] = config[d]
    <3>1. PICK g : g = [f EXCEPT !.queries = url] OBVIOUS
    <3>2. g \in ReqConfig /\ g.method = f.method /\ g.payload = f.payload
      BY <3>1 DEF ReqConfig
    <3>3. config' = [config EXCEPT ![c] = g] BY <1>1, <2>5, <3>1, CallFacts
    <3> QED BY <1>1, <3>2, <3>3, CallFacts
  <2>15. \A d \in Configs : config'[d].queries > 0 =>
           config[d].queries > 0 \/ (s.op = "HttpRequest" /\ d \in s.uses)
    BY <2>8, <2>14
  <2>16. \A d \in Configs :
           /\ config'[d].method = config[d].method
           /\ config'[d].payload = config[d].payload
           /\ config'[d].queries > 0 =>
                \/ config[d].queries > 0
                \/ s.op = "HttpRequest" /\ d \in s.uses
    BY <2>14, <2>15
  <2>17. \A d \in Configs :
           s.op = "HttpRequest" /\ d \in s.uses /\ s.sent # Nothing =>
             /\ Agrees(s, d)
             /\ s.sent.queries > 1 =>
                  \E l \in Calls \ {k} : call[l].op = "HttpRequest" /\ d \in call[l].uses
    <3> SUFFICES ASSUME NEW d \in Configs, d \in s.uses
                 PROVE  /\ Agrees(s, d)
                        /\ s.sent.queries > 1 =>
                             \E l \in Calls \ {k} : /\ call[l].op = "HttpRequest"
                                                    /\ d \in call[l].uses
      OBVIOUS
    <3>1. d = c BY <2>8
    <3> QED BY <2>8, <2>12, <2>13, <3>1
  <2>18. call[k].pc = "idle" BY <1>1, <1>2
  <2>19. s.pc # "idle" BY <2>8
  <2>20. config' \in [Configs -> ReqConfig] BY <2>14
  <2> QED BY <2>7, <2>9, <2>10, <2>16, <2>17, <2>18, <2>19, <2>20, Replace
<1>4. CASE /\ call' = [call EXCEPT ![k].op = "HttpRequest", ![k].uses = {c},
                                   ![k].pc = "done", ![k].result = "error"]
           /\ UNCHANGED config
  <2>1. PICK s : s = [q EXCEPT !.op = "HttpRequest", !.uses = {c}, !.pc = "done",
                               !.result = "error"]
    OBVIOUS
  <2>2. s \in Call BY <2>1 DEF Call
  <2>3. s.pc = "done" /\ s.result = "error" /\ s.sent = q.sent BY <2>1 DEF Call
  <2>4. call' = [call EXCEPT ![k] = s] BY <1>1, <1>4, <2>1, CallFacts
  <2>5. Progress(s) /\ Real(s) BY <2>3 DEF Progress, Real
  <2>6. s.sent = Nothing BY <1>1, <1>2, <2>3, CallFacts DEF Progress
  <2> QED BY <1>1, <1>2, <1>4, <2>2, <2>3, <2>4, <2>5, <2>6, CallFacts, Replace
<1> QED BY <1>3, <1>4 DEF HttpRequest

\* The form helpers send a form.
LEMMA PostsKeep ==
    ASSUME IInv, NEW k \in Calls,
           \/ \E c \in Configs : GetHttpPost(k, c)
           \/ HttpPost(k)
           \/ HttpFullPost(k)
    PROVE  IInv'
<1>1. ASSUME NEW n \in Nat
      PROVE  [method |-> "POST", payload |-> "bytes", queries |-> n] \in Message
  BY DEF Message, Methods
<1>2. ASSUME NEW c \in Configs, GetHttpPost(k, c) PROVE IInv'
  <2>1. config[c].queries \in Nat BY CallFacts DEF ReqConfig
  <2>2. PICK m : m = [method |-> "POST", payload |-> "bytes",
                      queries |-> config[c].queries]
    OBVIOUS
  <2> QED BY <1>1, <1>2, <2>1, <2>2, Begins DEF GetHttpPost
<1>3. PICK m : m = [method |-> "POST", payload |-> "bytes", queries |-> 0] OBVIOUS
<1>4. CASE HttpPost(k) BY <1>1, <1>3, <1>4, Begins DEF HttpPost
<1>5. CASE HttpFullPost(k) BY <1>1, <1>3, <1>5, Begins DEF HttpFullPost
<1> QED BY <1>2, <1>4, <1>5

\* A call returns: what it reports as a success must be real.
LEMMA ReturnKeeps ==
    ASSUME IInv, NEW k \in Calls, NEW result \in {"ok", "error"},
           NEW body \in {"none", "open", "closed"}, call[k].pc # "idle",
           Returns(k, result, body), UNCHANGED config,
           result = "ok" =>
             /\ call[k].op # "HttpFullPost" => call[k].status = "OK"
             /\ call[k].op # "GetHttpPost" => call[k].decodes /\ body = "closed"
    PROVE  IInv'
<1>1. PICK q \in Call : q = call[k] BY CallFacts
<1>2. PICK s : s = [q EXCEPT !.pc = "done", !.result = result, !.body = body] OBVIOUS
<1>3. s \in Call BY <1>2 DEF Call
<1>4. /\ s.pc = "done" /\ s.result = result /\ s.body = body /\ s.op = q.op
      /\ s.uses = q.uses /\ s.sent = q.sent /\ s.status = q.status
      /\ s.decodes = q.decodes
  BY <1>2 DEF Call
<1>5. call' = [call EXCEPT ![k] = s] BY <1>1, <1>2, CallFacts DEF Returns
<1>6. Progress(s) BY <1>4 DEF Progress
<1>7. Real(s)
  <2> SUFFICES ASSUME result = "ok"
               PROVE  /\ s.op # "HttpFullPost" => s.status = "OK"
                      /\ s.op # "GetHttpPost" => s.decodes /\ s.body = "closed"
    BY <1>4 DEF Real
  <2>1. q.op # "HttpFullPost" => q.status = "OK" BY <1>1
  <2>2. q.op # "GetHttpPost" => q.decodes = TRUE /\ body = "closed" BY <1>1 DEF Call
  <2> QED BY <1>4, <2>1, <2>2
<1> QED BY <1>1, <1>3, <1>4, <1>5, <1>6, <1>7, GoesOn

\* The server answers, the handler reads, or the deadline passes.
LEMMA EndingsKeep ==
    ASSUME IInv, NEW k \in Calls, Respond(k) \/ Finish(k) \/ Timeout(k) PROVE IInv'
<1>1. PICK q \in Call : q = call[k] BY CallFacts
<1>2. CASE Respond(k)
  <2>1. q.pc = "sent" /\ UNCHANGED config BY <1>1, <1>2 DEF Respond
  <2>2. ASSUME NEW st \in {"OK", "other"}, NEW d \in BOOLEAN,
               call' = [call EXCEPT ![k].pc = "answered", ![k].status = st,
                                    ![k].decodes = d, ![k].body = "open"]
        PROVE  IInv'
    <3>1. PICK s : s = [q EXCEPT !.pc = "answered", !.status = st, !.decodes = d,
                                 !.body = "open"]
      OBVIOUS
    <3>2. s \in Call BY <3>1 DEF Call
    <3>3. /\ s.pc = "answered" /\ s.result = q.result /\ s.op = q.op
          /\ s.uses = q.uses /\ s.sent = q.sent
      BY <3>1 DEF Call
    <3>4. call' = [call EXCEPT ![k] = s] BY <1>1, <2>2, <3>1, CallFacts
    <3>5. q.result # "ok" BY <1>1, <2>1, CallFacts DEF Progress
    <3>6. Progress(s) /\ Real(s) BY <3>3, <3>5 DEF Progress, Real
    <3> QED BY <1>1, <2>1, <3>2, <3>3, <3>4, <3>6, GoesOn
  <2>3. CASE Returns(k, "error", "none") BY <1>1, <2>1, <2>3, ReturnKeeps
  <2> QED BY <1>2, <2>2, <2>3 DEF Respond
<1>3. CASE Finish(k)
  <2>1. call[k].pc # "idle" /\ UNCHANGED config BY <1>3 DEF Finish
  <2>2. CASE FinishHttpRequest(k) BY <2>1, <2>2, ReturnKeeps DEF FinishHttpRequest
  <2>3. CASE FinishGetHttpPost(k)
    <3>1. PICK r \in {"ok", "error"} :
            r = IF call[k].status = "OK" THEN "ok" ELSE "error"
      OBVIOUS
    <3> QED BY <2>1, <2>3, <3>1, ReturnKeeps DEF FinishGetHttpPost
  <2>4. CASE FinishHttpFullPost(k)
    <3>1. PICK r \in {"ok", "error"} : r = IF call[k].decodes THEN "ok" ELSE "error"
      OBVIOUS
    <3> QED BY <2>1, <2>4, <3>1, ReturnKeeps DEF FinishHttpFullPost
  <2> QED BY <1>3, <2>2, <2>3, <2>4 DEF Finish
<1>4. CASE Timeout(k)
  <2>1. UNCHANGED config BY <1>4 DEF Timeout
  <2>2. CASE call[k].pc = "sent" /\ Returns(k, "error", "none")
    BY <2>1, <2>2, ReturnKeeps
  <2>3. CASE call[k].pc = "answered" /\ Returns(k, "error", "closed")
    BY <2>1, <2>3, ReturnKeeps
  <2>4. CASE /\ call[k].pc = "done"
             /\ call' = [call EXCEPT ![k].body = "closed"]
    <3>1. PICK s : s = [q EXCEPT !.body = "closed"] OBVIOUS
    <3>2. s \in Call BY <3>1 DEF Call
    <3>3. /\ s.pc = q.pc /\ s.result = q.result /\ s.op = q.op /\ s.body = "closed"
          /\ s.uses = q.uses /\ s.sent = q.sent /\ s.status = q.status
          /\ s.decodes = q.decodes
      BY <3>1 DEF Call
    <3>4. call' = [call EXCEPT ![k] = s] BY <1>1, <2>4, <3>1, CallFacts
    <3>5. Progress(s) BY <1>1, <2>4, <3>3 DEF Progress
    <3>6. Real(q) BY <1>1, CallFacts
    <3>7. Real(s) BY <3>3, <3>6 DEF Real
    <3> QED BY <1>1, <2>1, <2>4, <3>2, <3>3, <3>4, <3>5, <3>7, GoesOn
  <2> QED BY <1>4, <2>2, <2>3, <2>4 DEF Timeout
<1> QED BY <1>2, <1>3, <1>4

\* Every step keeps the invariant.
LEMMA NextKeepsIInv == IInv /\ [HttpNext]_httpVars => IInv'
<1>1. ASSUME IInv, UNCHANGED httpVars PROVE IInv'
  BY <1>1 DEF httpVars, IInv, HttpTypeOK, Progress, QueriesHaveCalls, SuccessIsReal,
     SentAsAsked
<1> QED BY <1>1, HttpRequestKeeps, PostsKeep, EndingsKeep DEF HttpNext
-----------------------------------------------------------------------------
(* The theorems.                                                           *)

\* The invariant on which the others rest.
THEOREM Inductive == HttpSpec => []IInv
BY InitIInv, NextKeepsIInv, PTL DEF HttpSpec

\* Every variable keeps its type.
THEOREM TypeCorrect == HttpSpec => []HttpTypeOK
<1>1. IInv => HttpTypeOK BY DEF IInv
<1> QED BY <1>1, Inductive, PTL

\* A nil error of HttpRequest, GetHttpPost and HttpFullPost means what each of
\* them checks, however the answer and the deadline race.
THEOREM SuccessesAreReal == HttpSpec => []SuccessIsReal
<1>1. IInv => SuccessIsReal BY DEF IInv
<1> QED BY <1>1, Inductive, PTL

\* What HttpRequest sends is what its configuration says, and a second query
\* string in a URL comes from an earlier call over the same configuration.
THEOREM RequestsAreSentAsAsked == HttpSpec => []SentAsAsked
<1>1. IInv => SentAsAsked BY DEF IInv
<1> QED BY <1>1, Inductive, PTL

\* What an ended call may leave open: a body that GetHttpPost got, or one of an
\* HttpRequest that failed on the status or on the decoding.
Body(q) ==
    /\ q.pc \in {"idle", "sent"} => q.body = "none"
    /\ q.pc = "done" /\ q.body = "open" =>
         \/ q.op = "GetHttpPost"
         \/ /\ q.op = "HttpRequest" /\ q.result = "error"
            /\ ~(q.status = "OK" /\ q.decodes)

\* Every call of the helper, one step on.
LEMMA BodyKept ==
    ASSUME IInv, NEW k \in Calls, Body(call[k]),
           \/ \E c \in Configs : HttpRequest(k, c) \/ GetHttpPost(k, c)
           \/ HttpPost(k) \/ HttpFullPost(k) \/ Respond(k) \/ Finish(k) \/ Timeout(k)
    PROVE  \E s \in Call : call' = [call EXCEPT ![k] = s] /\ Body(s)
<1>1. PICK q \in Call : q = call[k] BY CallFacts
<1>2. Body(q) BY <1>1
<1>3. ASSUME q.pc = "idle",
             NEW op \in {"HttpRequest", "GetHttpPost", "HttpFullPost"},
             NEW cs \in SUBSET Configs, NEW m \in Message, Starts(k, op, cs, m)
      PROVE  \E s \in Call : call' = [call EXCEPT ![k] = s] /\ Body(s)
  <2>1. PICK s : s = [q EXCEPT !.op = op, !.uses = cs, !.sent = m, !.pc = "sent"]
    OBVIOUS
  <2>2. s \in Call /\ s.pc = "sent" /\ s.body = q.body BY <2>1 DEF Call
  <2>3. call' = [call EXCEPT ![k] = s] BY <1>1, <1>3, <2>1, CallFacts DEF Starts
  <2>4. Body(s) BY <1>2, <1>3, <2>2 DEF Body
  <2> QED BY <2>2, <2>3, <2>4
<1>4. ASSUME NEW result \in {"ok", "error"}, NEW body \in {"none", "open", "closed"},
             Returns(k, result, body),
             body = "open" =>
               \/ q.op = "GetHttpPost"
               \/ q.op = "HttpRequest" /\ result = "error" /\ ~(q.status = "OK" /\ q.decodes)
      PROVE  \E s \in Call : call' = [call EXCEPT ![k] = s] /\ Body(s)
  <2>1. PICK s : s = [q EXCEPT !.pc = "done", !.result = result, !.body = body]
    OBVIOUS
  <2>2. /\ s \in Call /\ s.pc = "done" /\ s.result = result /\ s.body = body
        /\ s.op = q.op /\ s.status = q.status /\ s.decodes = q.decodes
    BY <2>1 DEF Call
  <2>3. call' = [call EXCEPT ![k] = s] BY <1>1, <1>4, <2>1, CallFacts DEF Returns
  <2>4. Body(s) BY <1>4, <2>2 DEF Body
  <2> QED BY <2>2, <2>3, <2>4
<1>5. ASSUME NEW c \in Configs, HttpRequest(k, c)
      PROVE  \E s \in Call : call' = [call EXCEPT ![k] = s] /\ Body(s)
  <2>1. q.pc = "idle" BY <1>1, <1>5 DEF HttpRequest
  <2>2. CASE query(k, c)
    <3>1. PICK m \in Message : Starts(k, "HttpRequest", {c}, m)
      <4>1. PICK b : b = getRequestBody(config[c]) OBVIOUS
      <4>2. PICK n \in Nat : n = config[c].queries + (IF b = "params" THEN 1 ELSE 0)
        BY CallFacts DEF ReqConfig
      <4>3. PICK v \in {"nil", "bytes"} : v = IF b = "bytes" THEN "bytes" ELSE "nil"
        OBVIOUS
      <4>4. PICK me \in Methods : me = config[c].method BY CallFacts DEF ReqConfig
      <4>5. Starts(k, "HttpRequest", {c}, [method |-> me, payload |-> v, queries |-> n])
        BY <2>2, <4>1, <4>2, <4>3, <4>4 DEF query
      <4>6. [method |-> me, payload |-> v, queries |-> n] \in Message BY DEF Message
      <4> QED BY <4>5, <4>6
    <3> QED BY <1>3, <2>1, <3>1
  <2>3. CASE call' = [call EXCEPT ![k].op = "HttpRequest", ![k].uses = {c},
                                  ![k].pc = "done", ![k].result = "error"]
    <3>1. PICK cs \in SUBSET Configs : cs = {c} OBVIOUS
    <3>2. PICK s : s = [q EXCEPT !.op = "HttpRequest", !.uses = cs, !.pc = "done",
                                 !.result = "error"]
      OBVIOUS
    <3>3. s \in Call /\ s.pc = "done" /\ s.body = q.body BY <3>2 DEF Call
    <3>4. call' = [call EXCEPT ![k] = s] BY <1>1, <2>3, <3>1, <3>2, CallFacts
    <3>5. Body(s) BY <1>2, <2>1, <3>3 DEF Body
    <3> QED BY <3>3, <3>4, <3>5
  <2> QED BY <1>5, <2>2, <2>3 DEF HttpRequest
<1>6. ASSUME (\E c \in Configs : GetHttpPost(k, c)) \/ HttpPost(k) \/ HttpFullPost(k)
      PROVE  \E s \in Call : call' = [call EXCEPT ![k] = s] /\ Body(s)
  <2>1. q.pc = "idle" BY <1>1, <1>6 DEF GetHttpPost, HttpPost, HttpFullPost
  <2>2. \A n \in Nat : [method |-> "POST", payload |-> "bytes", queries |-> n] \in Message
    BY DEF Message, Methods
  <2>3. \A c \in Configs : config[c].queries \in Nat BY CallFacts DEF ReqConfig
  <2>4. \E op \in {"GetHttpPost", "HttpFullPost"}, cs \in SUBSET Configs, m \in Message :
          Starts(k, op, cs, m)
    <3>1. ASSUME NEW c \in Configs, GetHttpPost(k, c)
          PROVE  \E m \in Message : Starts(k, "GetHttpPost", {c}, m)
      BY <2>2, <2>3, <3>1 DEF GetHttpPost
    <3>2. ASSUME HttpPost(k) PROVE \E m \in Message : Starts(k, "GetHttpPost", {}, m)
      BY <2>2, <3>2 DEF HttpPost
    <3>3. ASSUME HttpFullPost(k) PROVE \E m \in Message : Starts(k, "HttpFullPost", {}, m)
      BY <2>2, <3>3 DEF HttpFullPost
    <3> QED BY <1>6, <3>1, <3>2, <3>3
  <2> QED BY <1>3, <2>1, <2>4
<1>7. CASE Respond(k)
  <2>1. CASE \E s \in {"OK", "other"}, d \in BOOLEAN :
               call' = [call EXCEPT ![k].pc = "answered", ![k].status = s,
                                    ![k].decodes = d, ![k].body = "open"]
    <3>1. PICK st \in {"OK", "other"}, d \in BOOLEAN :
            call' = [call EXCEPT ![k].pc = "answered", ![k].status = st,
                                 ![k].decodes = d, ![k].body = "open"]
      BY <2>1
    <3>2. PICK s : s = [q EXCEPT !.pc = "answered", !.status = st, !.decodes = d,
                                 !.body = "open"]
      OBVIOUS
    <3>3. s \in Call /\ s.pc = "answered" BY <3>2 DEF Call
    <3>4. call' = [call EXCEPT ![k] = s] BY <1>1, <3>1, <3>2, CallFacts
    <3> QED BY <3>3, <3>4 DEF Body
  <2> QED BY <1>4, <1>7, <2>1 DEF Respond
<1>8. CASE Finish(k)
  <2>1. CASE FinishHttpRequest(k) BY <1>1, <1>4, <2>1 DEF FinishHttpRequest
  <2>2. CASE FinishGetHttpPost(k)
    <3>1. PICK r \in {"ok", "error"} :
            r = IF call[k].status = "OK" THEN "ok" ELSE "error"
      OBVIOUS
    <3> QED BY <1>1, <1>4, <2>2, <3>1 DEF FinishGetHttpPost
  <2>3. CASE FinishHttpFullPost(k)
    <3>1. PICK r \in {"ok", "error"} : r = IF call[k].decodes THEN "ok" ELSE "error"
      OBVIOUS
    <3> QED BY <1>4, <2>3, <3>1 DEF FinishHttpFullPost
  <2> QED BY <1>8, <2>1, <2>2, <2>3 DEF Finish
<1>9. CASE Timeout(k)
  <2>1. CASE call' = [call EXCEPT ![k].body = "closed"]
    <3>1. PICK s : s = [q EXCEPT !.body = "closed"] OBVIOUS
    <3>2. s \in Call /\ s.pc = q.pc /\ s.body = "closed" BY <3>1 DEF Call
    <3>3. call' = [call EXCEPT ![k] = s] BY <1>1, <2>1, <3>1, CallFacts
    <3>4. CASE q.pc = "done"
      <4>1. s.pc = "done" /\ s.body # "open" BY <3>2, <3>4
      <4>2. Body(s) BY <4>1 DEF Body
      <4> QED BY <3>2, <3>3, <4>2
    <3> QED BY <1>1, <1>4, <1>9, <3>4 DEF Timeout
  <2> QED BY <1>4, <1>9, <2>1 DEF Timeout
<1> QED BY <1>5, <1>6, <1>7, <1>8, <1>9

\* Only two paths leave a connection behind: GetHttpPost with any answer, and
\* HttpRequest when it fails on a status or on a body.
THEOREM OpenBodiesAreKnown ==
    HttpSpec => [](\A k \in Calls : call[k].pc = "done" /\ call[k].body = "open" =>
                     \/ call[k].op = "GetHttpPost"
                     \/ /\ call[k].op = "HttpRequest" /\ call[k].result = "error"
                        /\ ~(call[k].status = "OK" /\ call[k].decodes))
<1> DEFINE Bodies == \A k \in Calls : Body(call[k])
<1>1. ASSUME HttpInit PROVE Bodies
  <2> SUFFICES ASSUME NEW k \in Calls PROVE Body(call[k]) OBVIOUS
  <2>1. PICK s : s = [op |-> "none", pc |-> "idle", uses |-> {}, sent |-> Nothing,
                      status |-> "none", decodes |-> FALSE, body |-> "none",
                      result |-> "none"]
    OBVIOUS
  <2>2. s.pc = "idle" /\ s.body = "none" BY <2>1
  <2>3. call[k] = s BY <1>1, <2>1 DEF HttpInit
  <2>4. s.body # "open" /\ s.pc # "done" BY <2>2
  <2>5. Body(s) BY <2>2, <2>4 DEF Body
  <2> QED BY <2>3, <2>5
<1>2. ASSUME IInv, Bodies, [HttpNext]_httpVars PROVE Bodies'
  <2>1. CASE UNCHANGED httpVars BY <1>2, <2>1 DEF httpVars
  <2>2. CASE HttpNext
    <3>1. PICK k \in Calls, s \in Call : call' = [call EXCEPT ![k] = s] /\ Body(s)
      BY <1>2, <2>2, BodyKept DEF HttpNext
    <3>2. call'[k] = s /\ \A l \in Calls : l # k => call'[l] = call[l]
      BY <1>2, <3>1, CallFacts
    <3> QED BY <1>2, <3>1, <3>2
  <2> QED BY <1>2, <2>1, <2>2
<1>3. Bodies => \A k \in Calls : call[k].pc = "done" /\ call[k].body = "open" =>
                  \/ call[k].op = "GetHttpPost"
                  \/ /\ call[k].op = "HttpRequest" /\ call[k].result = "error"
                     /\ ~(call[k].status = "OK" /\ call[k].decodes)
  BY DEF Body
<1> QED BY <1>1, <1>2, <1>3, Inductive, PTL DEF HttpSpec
=============================================================================
