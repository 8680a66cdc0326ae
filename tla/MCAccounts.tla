----------------------------- MODULE MCAccounts -----------------------------
(* The account saga on small instances. *)
EXTENDS Accounts, TLC

CONSTANTS u1, u2

\* The canonical form of each name is the name itself.
PlainCanon == [u \in Usernames |-> u]

\* Two spellings of one canonical name, as with "Ann" and "ann".
FoldedCanon == [u \in Usernames |-> u1]

HttpsServer == [text |-> "https://pds", http |-> TRUE,
                parts |-> <<"https:", "pds">>]

BareServer == [text |-> "pds", http |-> FALSE, parts |-> <<"pds">>]

Symmetry == Permutations(Requests) \cup Permutations(Codes)
            \cup Permutations(Passwords) \cup Permutations(Dids)
=============================================================================
