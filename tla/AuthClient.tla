----------------------------- MODULE AuthClient -----------------------------
(***************************************************************************)
(* The backend's one connection to the auth microservice.  Every gRPC      *)
(* wrapper of webserver/service/auth.go starts with CheckAndInitAuthClient, *)
(* which tests the shared pointer Service.AuthClient, dials if it is nil,  *)
(* stores what it dialled (nil after a failed dial) and tests the pointer  *)
(* again; the wrapper then reads it once more to call through it.  Nothing *)
(* is locked, and every request runs in a goroutine of its own.            *)
(*                                                                         *)
(* A handler slot serves one request after the other: the number of slots  *)
(* bounds how many requests run at once, not how many there are.           *)
(***************************************************************************)
EXTENDS Naturals

CONSTANTS Handlers, Startup, None

ASSUME DistinctAssumption ==
    Startup \notin Handlers /\ None \notin Handlers /\ None # Startup

VARIABLES
    conf,    \* authType, and whether grpc.Dial accepts authHost
    client,  \* Service.AuthClient: who dialled the connection, or None for nil
    pc,      \* where each handler slot stands
    held,    \* the pointer InitAuthClient returned to each handler
    dials,   \* the connections each handler slot has opened, and never closes
    result   \* how the slot's last request ended

vars == <<conf, client, pc, held, dials, result>>

Pointers == Handlers \cup {Startup, None}

TypeOK ==
    /\ conf \in [authType : {0, 1}, dialable : BOOLEAN]
    /\ client \in Pointers
    /\ pc \in [Handlers -> {"idle", "dial", "store", "recheck", "call"}]
    /\ held \in [Handlers -> Pointers]
    /\ dials \in [Handlers -> Nat]
    /\ result \in [Handlers -> {"none", "served", "error", "panic"}]

\* NewService dials at once when authType names the microservice.
Init ==
    /\ conf \in [authType : {0, 1}, dialable : BOOLEAN]
    /\ client = IF conf.authType = 1 /\ conf.dialable THEN Startup ELSE None
    /\ pc = [h \in Handlers |-> "idle"]
    /\ held = [h \in Handlers |-> None]
    /\ dials = [h \in Handlers |-> 0]
    /\ result = [h \in Handlers |-> "none"]
-----------------------------------------------------------------------------
\* Mutant: a handler dials without having looked at the pointer.
DialUnchecked(h) ==
    /\ pc[h] = "idle"
    /\ pc' = [pc EXCEPT ![h] = "dial"]
    /\ UNCHANGED <<conf, client, held, dials, result>>

\* The first read of the pointer.
CheckAndInitAuthClient(h) ==
    /\ pc[h] = "idle"
    /\ pc' = [pc EXCEPT ![h] = IF client # None THEN "call" ELSE "dial"]
    /\ UNCHANGED <<conf, client, held, dials, result>>

\* Mutant: a dial may fail now and succeed later, as a blocking one would.
InitAuthClientFlaky(h) ==
    /\ pc[h] = "dial"
    /\ pc' = [pc EXCEPT ![h] = "store"]
    /\ \/ /\ held' = [held EXCEPT ![h] = h]
          /\ dials' = [dials EXCEPT ![h] = @ + 1]
       \/ /\ held' = [held EXCEPT ![h] = None]
          /\ UNCHANGED dials
    /\ UNCHANGED <<conf, client, result>>

\* grpc.Dial does not block: it fails only for a target it cannot accept.
InitAuthClient(h) ==
    /\ pc[h] = "dial"
    /\ pc' = [pc EXCEPT ![h] = "store"]
    /\ held' = [held EXCEPT ![h] = IF conf.dialable THEN h ELSE None]
    /\ dials' = [dials EXCEPT ![h] = IF conf.dialable THEN @ + 1 ELSE @]
    /\ UNCHANGED <<conf, client, result>>

\* The store is unconditional: it replaces whatever is there by now.
StoreClient(h) ==
    /\ pc[h] = "store"
    /\ client' = held[h]
    /\ pc' = [pc EXCEPT ![h] = "recheck"]
    /\ UNCHANGED <<conf, held, dials, result>>

\* The second read: the pointer may be another handler's by now.
RecheckClient(h) ==
    /\ pc[h] = "recheck"
    /\ \/ /\ client = None
          /\ pc' = [pc EXCEPT ![h] = "idle"]
          /\ result' = [result EXCEPT ![h] = "error"]
       \/ /\ client # None
          /\ pc' = [pc EXCEPT ![h] = "call"]
          /\ UNCHANGED result
    /\ UNCHANGED <<conf, client, held, dials>>

\* Mutant: after a failed RPC the client is dropped, to be dialled anew.
InvokeDropping(h) ==
    /\ pc[h] = "call"
    /\ pc' = [pc EXCEPT ![h] = "idle"]
    /\ \/ UNCHANGED client
       \/ client' = None
    /\ result' = [result EXCEPT ![h] = IF client = None THEN "panic" ELSE "served"]
    /\ UNCHANGED <<conf, held, dials>>

\* Mutant: a handler that dialled writes its own client back after the call.
InvokeRestoring(h) ==
    /\ pc[h] = "call"
    /\ pc' = [pc EXCEPT ![h] = "idle"]
    /\ client' = IF held[h] # None THEN held[h] ELSE client
    /\ result' = [result EXCEPT ![h] = "served"]
    /\ UNCHANGED <<conf, held, dials>>

\* The third read: (*s.AuthClient) panics on nil.  The RPC's own outcome
\* does not touch the pointer.
Invoke(h) ==
    /\ pc[h] = "call"
    /\ pc' = [pc EXCEPT ![h] = "idle"]
    /\ result' = [result EXCEPT ![h] = IF client = None THEN "panic" ELSE "served"]
    /\ UNCHANGED <<conf, client, held, dials>>

\* What is left of CheckAndInitAuthClient for a handler that found no client.
Dial(h) == InitAuthClient(h) \/ StoreClient(h) \/ RecheckClient(h)

Wrapper(h) == Dial(h) \/ Invoke(h)

Next == \E h \in Handlers : CheckAndInitAuthClient(h) \/ Wrapper(h)

Spec == Init /\ [][Next]_vars

\* A goroutine that dials keeps running, since grpc.Dial does not block.  Nothing
\* is assumed of the RPC: neither the request's context nor the server has a
\* deadline, so it may hang for as long as the client is patient.
FairSpec == Spec /\ \A h \in Handlers : WF_vars(Dial(h))
-----------------------------------------------------------------------------
\* No wrapper calls through nil, and none reports a failed initialisation that
\* the configuration does not explain, although any other handler may store
\* into the pointer between its three reads.
NoSpuriousFailure ==
    \A h \in Handlers :
        /\ pc[h] = "call" => client # None
        /\ result[h] # "panic"
        /\ result[h] = "error" => ~conf.dialable

\* Connections are leaked, since a racing store drops the pointer to one, but
\* only by the handlers that raced for the first one: a slot opens at most one
\* in the life of the process, and none when start-up has dialled.
LeakIsBounded ==
    \A h \in Handlers :
        /\ dials[h] <= 1
        /\ conf.authType = 1 => dials[h] = 0

\* An established client is never taken away again.
StaysConnected == [][client # None => client' # None]_vars

\* The pointer settles, though RPCs may hang in some handlers and more requests
\* keep coming: from some time on every call uses one connection.
ClientSettles == <>[][client' = client]_vars

\* sample_config.yaml:14, "0: use local username/password": with authType 0 no
\* handler depends on the microservice.
LocalNeedsNoService ==
    \A h \in Handlers : conf.authType = 0 => dials[h] = 0 /\ result[h] # "error"
=============================================================================
