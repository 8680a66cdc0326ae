----------------------------- MODULE HttpClient -----------------------------
(***************************************************************************)
(* The HTTP helper of webserver/service: HttpRequest, which goes through    *)
(* getRequestBody and query and gives up after 30 seconds, GetHttpPost      *)
(* (HttpPost is a call of it with a fresh configuration) and HttpFullPost,  *)
(* which have no timeout.  A configuration may serve several calls, one     *)
(* after the other; nothing in the backend calls the helper yet.            *)
(***************************************************************************)
EXTENDS Naturals

CONSTANTS Calls, Configs

VARIABLES
    config,  \* the ReqConfigs: method, payload, and how many query strings
             \* HttpUrl has grown
    call

httpVars == <<config, call>>

Methods == {"GET", "POST", "PUT", "DELETE"}

\* The type of the payload: "bytes" is []byte, "map" is map[string]string.
Payloads == {"nil", "bytes", "map"}

ReqConfig == [method : Methods, payload : Payloads, queries : Nat]

\* What goes over the wire.
Message == [method : Methods \cup {"none"}, payload : {"nil", "bytes"}, queries : Nat]

Nothing == [method |-> "none", payload |-> "nil", queries |-> 0]

HttpTypeOK ==
    /\ config \in [Configs -> ReqConfig]
    /\ call \in [Calls -> [op      : {"none", "HttpRequest", "GetHttpPost", "HttpFullPost"},
                           pc      : {"idle", "sent", "answered", "done"},
                           uses    : SUBSET Configs,
                           sent    : Message,
                           status  : {"none", "OK", "other"},
                           decodes : BOOLEAN,
                           body    : {"none", "open", "closed"},
                           result  : {"none", "ok", "error"}]]

HttpInit ==
    /\ config \in [Configs -> [method : Methods, payload : Payloads, queries : {0}]]
    /\ call = [k \in Calls |->
                 [op |-> "none", pc |-> "idle", uses |-> {}, sent |-> Nothing,
                  status |-> "none", decodes |-> FALSE, body |-> "none",
                  result |-> "none"]]
-----------------------------------------------------------------------------
\* Mutant: a payload of another type is left out, not refused.
getRequestBodyLenient(c) ==
    IF c.method = "POST" /\ c.payload = "bytes" THEN "bytes"
    ELSE IF c.method = "GET" /\ c.payload = "map" THEN "params"
    ELSE "nil"

\* What a payload is packaged as: PUT and DELETE take none at all.
getRequestBody(c) ==
    IF c.payload = "nil" THEN "nil"
    ELSE IF c.method = "POST" /\ c.payload = "bytes" THEN "bytes"
    ELSE IF c.method = "GET" /\ c.payload = "map" THEN "params"
    ELSE "invalid"

Free(c) == \A k \in Calls : c \in call[k].uses => call[k].pc = "done"

Starts(k, op, cs, m) ==
    call' = [call EXCEPT ![k].op = op, ![k].uses = cs, ![k].sent = m, ![k].pc = "sent"]

\* Mutant: a payload goes out as it is, whatever its type.
queryUnpackaged(k, c) ==
    /\ Starts(k, "HttpRequest", {c},
              [method  |-> config[c].method,
               payload |-> config[c].payload,
               queries |-> config[c].queries])
    /\ UNCHANGED config

\* The parameters of a GET are appended to the caller's own HttpUrl, which
\* keeps them.
query(k, c) ==
    LET body == getRequestBody(config[c])
        url  == config[c].queries + (IF body = "params" THEN 1 ELSE 0)
    IN /\ body # "invalid"
       /\ config' = [config EXCEPT ![c].queries = url]
       /\ Starts(k, "HttpRequest", {c},
                 [method  |-> config[c].method,
                  payload |-> IF body = "bytes" THEN "bytes" ELSE "nil",
                  queries |-> url])

HttpRequest(k, c) ==
    /\ call[k].pc = "idle"
    /\ Free(c)
    /\ \/ query(k, c)
       \/ /\ getRequestBody(config[c]) = "invalid"
          /\ call' = [call EXCEPT ![k].op = "HttpRequest", ![k].uses = {c},
                                  ![k].pc = "done", ![k].result = "error"]
          /\ UNCHANGED config

\* The form goes to HttpUrl as it is now, whatever method and payload say.
GetHttpPost(k, c) ==
    /\ call[k].pc = "idle"
    /\ Free(c)
    /\ Starts(k, "GetHttpPost", {c},
              [method |-> "POST", payload |-> "bytes", queries |-> config[c].queries])
    /\ UNCHANGED config

\* A configuration of its own.
HttpPost(k) ==
    /\ call[k].pc = "idle"
    /\ Starts(k, "GetHttpPost", {},
              [method |-> "POST", payload |-> "bytes", queries |-> 0])
    /\ UNCHANGED config

HttpFullPost(k) ==
    /\ call[k].pc = "idle"
    /\ Starts(k, "HttpFullPost", {},
              [method |-> "POST", payload |-> "bytes", queries |-> 0])
    /\ UNCHANGED config
-----------------------------------------------------------------------------
Returns(k, result, body) ==
    call' = [call EXCEPT ![k].pc = "done", ![k].result = result, ![k].body = body]

\* The server answers, or the transport fails.
Respond(k) ==
    /\ call[k].pc = "sent"
    /\ \/ \E s \in {"OK", "other"}, d \in BOOLEAN :
            call' = [call EXCEPT ![k].pc = "answered", ![k].status = s,
                                 ![k].decodes = d, ![k].body = "open"]
       \/ Returns(k, "error", "none")
    /\ UNCHANGED config

\* Only a call that succeeds closes the body.
FinishHttpRequest(k) ==
    /\ call[k].op = "HttpRequest"
    /\ \/ call[k].status = "OK" /\ call[k].decodes /\ Returns(k, "ok", "closed")
       \/ ~(call[k].status = "OK" /\ call[k].decodes) /\ Returns(k, "error", "open")

\* The body is never closed, and its decoding not checked.
FinishGetHttpPost(k) ==
    /\ call[k].op = "GetHttpPost"
    /\ Returns(k, IF call[k].status = "OK" THEN "ok" ELSE "error", "open")

\* The status is not looked at; the body is closed on every path.
FinishHttpFullPost(k) ==
    /\ call[k].op = "HttpFullPost"
    /\ Returns(k, IF call[k].decodes THEN "ok" ELSE "error", "closed")

\* Mutant: the status of the response is not checked.
FinishUnchecked(k) ==
    /\ call[k].pc = "answered"
    /\ Returns(k, IF call[k].decodes THEN "ok" ELSE "error", "closed")
    /\ UNCHANGED config

Finish(k) ==
    /\ call[k].pc = "answered"
    /\ FinishHttpRequest(k) \/ FinishGetHttpPost(k) \/ FinishHttpFullPost(k)
    /\ UNCHANGED config

\* Mutant: the deadline covers only the wait for the answer.
TimeoutUntilAnswered(k) ==
    /\ call[k].op = "HttpRequest"
    /\ call[k].pc = "sent"
    /\ Returns(k, "error", "none")
    /\ UNCHANGED config

\* The client's deadline ends a call that waits, or reads the body, and takes
\* back the connection of a body that was left open.
Timeout(k) ==
    /\ call[k].op = "HttpRequest"
    /\ \/ call[k].pc = "sent" /\ Returns(k, "error", "none")
       \/ call[k].pc = "answered" /\ Returns(k, "error", "closed")
       \/ /\ call[k].pc = "done"
          /\ call[k].body = "open"
          /\ call' = [call EXCEPT ![k].body = "closed"]
    /\ UNCHANGED config

HttpNext ==
    \E k \in Calls :
        \/ \E c \in Configs : HttpRequest(k, c) \/ GetHttpPost(k, c)
        \/ HttpPost(k)
        \/ HttpFullPost(k)
        \/ Respond(k)
        \/ Finish(k)
        \/ Timeout(k)

\* A timer goes off; servers promise nothing.
HttpFairness == \A k \in Calls : WF_httpVars(Timeout(k))

HttpSpec == HttpInit /\ [][HttpNext]_httpVars /\ HttpFairness
-----------------------------------------------------------------------------
\* A nil error means what its caller reads into it: HttpRequest got a decoded
\* 200 and gave the body back.  The other two are weaker: GetHttpPost vouches
\* for the status only, HttpFullPost for the decoding only.
SuccessIsReal ==
    \A k \in Calls : call[k].result = "ok" =>
        /\ call[k].op # "HttpFullPost" => call[k].status = "OK"
        /\ call[k].op # "GetHttpPost" => call[k].decodes /\ call[k].body = "closed"

\* Nothing leaves the backend that its configuration does not say: a request
\* has the method's payload, a []byte as its body and parameters in the URL; and
\* a URL carries two queries only if the configuration served another GET.
SentAsAsked ==
    \A k \in Calls, c \in Configs :
        call[k].op = "HttpRequest" /\ c \in call[k].uses /\ call[k].sent # Nothing =>
            /\ call[k].sent.method = config[c].method
            /\ config[c].payload = "bytes" => call[k].sent.payload = "bytes"
            /\ config[c].payload = "map" => call[k].sent.queries > 0
            /\ call[k].sent.queries > 1 =>
                 \E l \in Calls \ {k} : /\ call[l].op = "HttpRequest"
                                        /\ c \in call[l].uses

\* No HttpRequest waits, or keeps a connection, for ever: not even the calls
\* that forget the body.
TimedCallsEnd ==
    \A k \in Calls :
        call[k].op = "HttpRequest" ~> call[k].pc = "done" /\ call[k].body # "open"
=============================================================================
