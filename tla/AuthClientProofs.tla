-------------------------- MODULE AuthClientProofs --------------------------
(* Proofs about the lazily dialled connection, for any number of handlers. *)
EXTENDS AuthClient, TLAPS

\* Who holds what, handler by handler: while the pointer is nil every
\* connection opened so far is still on its way into it.
Progress(h) ==
    /\ pc[h] \in {"recheck", "call"} /\ conf.dialable => client # None
    /\ pc[h] = "call" => conf.dialable
    /\ pc[h] = "store" => held[h] = IF conf.dialable THEN h ELSE None
    /\ dials[h] \in {0, 1}
    /\ pc[h] = "dial" => dials[h] = 0
    /\ dials[h] = 1 => client # None \/ pc[h] = "store"
    /\ result[h] # "panic"
    /\ result[h] = "error" => ~conf.dialable
    /\ conf.authType = 1 /\ conf.dialable => pc[h] \in {"idle", "call"}
    /\ ~conf.dialable \/ conf.authType = 1 => dials[h] = 0

IInv ==
    /\ TypeOK
    /\ conf.authType = 1 /\ conf.dialable => client # None
    /\ ~conf.dialable => client = None
    /\ \A h \in Handlers : Progress(h)

\* NewService leaves the pointer as the invariant has it.
LEMMA InitIInv == Init => IInv
BY DistinctAssumption DEF Init, IInv, TypeOK, Pointers, Progress

\* Every read, dial and store keeps the invariant.
LEMMA NextKeepsIInv == IInv /\ [Next]_vars => IInv'
<1> SUFFICES ASSUME IInv, [Next]_vars PROVE IInv' OBVIOUS
<1> USE DistinctAssumption DEF IInv, TypeOK, Pointers, Progress
<1>1. CASE UNCHANGED vars BY <1>1 DEF vars
<1>2. ASSUME NEW h \in Handlers, CheckAndInitAuthClient(h) PROVE IInv'
  BY <1>2 DEF CheckAndInitAuthClient
<1>3. ASSUME NEW h \in Handlers, InitAuthClient(h) PROVE IInv'
  BY <1>3 DEF InitAuthClient
<1>4. ASSUME NEW h \in Handlers, StoreClient(h) PROVE IInv'
  BY <1>4 DEF StoreClient
<1>5. ASSUME NEW h \in Handlers, RecheckClient(h) PROVE IInv'
  BY <1>5 DEF RecheckClient
<1>6. ASSUME NEW h \in Handlers, Invoke(h) PROVE IInv'
  BY <1>6 DEF Invoke
<1> QED BY <1>1, <1>2, <1>3, <1>4, <1>5, <1>6 DEF Next, Wrapper, Dial

\* The invariant on which the others rest.
THEOREM Inductive == Spec => []IInv
BY InitIInv, NextKeepsIInv, PTL DEF Spec

\* No handler calls through nil or fails without cause (CheckAndInitAuthClient).
THEOREM NoFailureIsSpurious == Spec => []NoSpuriousFailure
<1>1. IInv => NoSpuriousFailure BY DEF IInv, Progress, NoSpuriousFailure
<1> QED BY <1>1, Inductive, PTL

\* However many requests are served, a handler slot leaks one connection at most.
THEOREM LeaksAreBounded == Spec => []LeakIsBounded
<1>1. ASSUME IInv, NEW h \in Handlers
      PROVE  /\ dials[h] <= 1
             /\ conf.authType = 1 => dials[h] = 0
  <2>1. dials[h] = 0 \/ dials[h] = 1 BY <1>1 DEF IInv, Progress
  <2>2. conf.authType = 1 => dials[h] = 0 BY <1>1 DEF IInv, Progress
  <2> QED BY <2>1, <2>2
<1>2. IInv => LeakIsBounded BY <1>1 DEF LeakIsBounded
<1> QED BY <1>2, Inductive, PTL

\* No step takes an established client away.
THEOREM ClientsStay == Spec => StaysConnected
<1>1. ASSUME IInv, [Next]_vars PROVE client # None => client' # None
  <2> SUFFICES ASSUME client # None PROVE client' # None OBVIOUS
  <2>1. ASSUME NEW h \in Handlers, StoreClient(h) PROVE client' # None
    <3>1. conf.dialable /\ held[h] = IF conf.dialable THEN h ELSE None
      BY <1>1, <2>1 DEF StoreClient, IInv, Progress
    <3> QED BY <2>1, <3>1, DistinctAssumption DEF StoreClient
  <2>2. ASSUME NEW h \in Handlers,
               \/ CheckAndInitAuthClient(h) \/ InitAuthClient(h)
               \/ RecheckClient(h) \/ Invoke(h)
        PROVE  client' # None
    BY <2>2 DEF CheckAndInitAuthClient, InitAuthClient, RecheckClient, Invoke
  <2>3. CASE UNCHANGED vars BY <2>3 DEF vars
  <2> QED BY <1>1, <2>1, <2>2, <2>3 DEF Next, Wrapper, Dial
<1> QED BY <1>1, Inductive, PTL DEF Spec, StaysConnected

\* Nobody is about to store into the pointer.
Settled == client # None /\ \A h \in Handlers : pc[h] \notin {"dial", "store"}

\* Once the handlers that raced for the first connection have stored theirs, the
\* pointer never changes again: what ClientSettles says, but for the race coming to
\* its end.
THEOREM SettledClientsStay == Spec => [][Settled => Settled' /\ client' = client]_vars
<1>1. ASSUME IInv, [Next]_vars, Settled PROVE Settled' /\ client' = client
  <2> USE DEF Settled
  <2>1. pc \in [Handlers -> {"idle", "dial", "store", "recheck", "call"}]
    BY <1>1 DEF IInv, TypeOK
  <2>2. CASE UNCHANGED vars BY <1>1, <2>2 DEF vars
  <2>3. ASSUME NEW h \in Handlers, CheckAndInitAuthClient(h)
        PROVE  Settled' /\ client' = client
    BY <1>1, <2>1, <2>3 DEF CheckAndInitAuthClient
  <2>4. ASSUME NEW h \in Handlers, InitAuthClient(h) \/ StoreClient(h) PROVE FALSE
    BY <1>1, <2>4 DEF InitAuthClient, StoreClient
  <2>5. ASSUME NEW h \in Handlers, RecheckClient(h) PROVE Settled' /\ client' = client
    BY <1>1, <2>1, <2>5 DEF RecheckClient
  <2>6. ASSUME NEW h \in Handlers, Invoke(h) PROVE Settled' /\ client' = client
    BY <1>1, <2>1, <2>6 DEF Invoke
  <2> QED BY <1>1, <2>2, <2>3, <2>4, <2>5, <2>6 DEF Next, Wrapper, Dial
<1> QED BY <1>1, Inductive, PTL DEF Spec
=============================================================================
