----------------------------- MODULE MCSessions -----------------------------
(* Logged-in requests on small instances. *)
EXTENDS Sessions, TLC

CONSTANTS u1, u2

\* The PDS spells every name but u1 and u2 as u1, as it spells "Ann" as "ann".
FoldedCanon == [u \in Users |-> IF u = u2 THEN u2 ELSE u1]

PlainCanon == [u \in Users |-> u]

Symmetry == Permutations(Tokens) \cup Permutations(Jwts) \cup Permutations(Requests)
=============================================================================
