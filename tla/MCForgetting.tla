---------------------------- MODULE MCForgetting ----------------------------
EXTENDS Forgetting, TLC

CONSTANTS m1, m2, m3, b1, w1, d1, d2

\* Two sessions with the same transcript, and an explicit memory.
SharedTranscript == (m1 :> b1) @@ (m2 :> b1) @@ (m3 :> None)

Symmetry == Permutations(Writer) \union Permutations(Deleter)
=============================================================================
