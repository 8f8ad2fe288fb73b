------------------------ MODULE MCTranspositionTable ------------------------
(***************************************************************************)
(* Values of the constants of TranspositionTable that a configuration      *)
(* cannot write.                                                           *)
(***************************************************************************)
EXTENDS TranspositionTable

\* Few distances, so that there is none to a free slot now and then, which
\* takes thousands of slots with the 126 distances of the code.
Jumps == << 1, 2 >>

\* Keys differ in nothing but their hash, so an order of the hashes is enough.
Ascending == {h \in [Keys -> {0, 1, 2, 4}] : \A k, l \in Keys : k < l => h[k] <= h[l]}

============================================================================
