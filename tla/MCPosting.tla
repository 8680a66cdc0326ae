----------------------------- MODULE MCPosting -----------------------------
(* Three posts whose calls alternate. *)
EXTENDS Posting, TLC

MCUnreachable == {<<p, 1>> : p \in Posts}

Symmetry == Permutations(Posts)
=============================================================================
