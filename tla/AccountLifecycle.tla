-------------------------- MODULE AccountLifecycle --------------------------
(***************************************************************************)
(* What the account saga promises about one handle, whatever requests,     *)
(* failures and crashes did: its account is hosted at most once, by a      *)
(* registration that then either records the password or abandons the      *)
(* handle for good; and a success is told only about a recorded handle.    *)
(***************************************************************************)
CONSTANT Handle

VARIABLES stage,  \* where the credentials of each handle stand
          told    \* handles about which some client heard a success

vars == <<stage, told>>

Stages == {"free", "hosted", "recorded", "abandoned"}

TypeOK == /\ stage \in [Handle -> Stages]
          /\ told \subseteq Handle

Init == /\ stage = [h \in Handle |-> "free"]
        /\ told = {}

\* A PDS account is created; the creator may never learn of it.
Host(h) == /\ stage[h] = "free"
           /\ \E s \in {"hosted", "abandoned"} : stage' = [stage EXCEPT ![h] = s]
           /\ UNCHANGED told

\* The password is saved; the client may never learn of it.
Record(h) == /\ stage[h] = "hosted"
             /\ stage' = [stage EXCEPT ![h] = "recorded"]
             /\ \/ told' = told \cup {h}
                \/ UNCHANGED told

\* The only holders of some passwords stop: one fails, or the process dies.
Abandon(H) == /\ \A h \in H : stage[h] = "hosted"
              /\ stage' = [h \in Handle |-> IF h \in H THEN "abandoned" ELSE stage[h]]
              /\ UNCHANGED told

Tell(h) == /\ stage[h] = "recorded"
           /\ told' = told \cup {h}
           /\ UNCHANGED stage

Next == \/ \E h \in Handle : Host(h) \/ Record(h) \/ Tell(h)
        \/ \E H \in SUBSET Handle : Abandon(H)

Spec == Init /\ [][Next]_vars
=============================================================================
