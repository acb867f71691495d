----------------------------- MODULE MCService -----------------------------
(* Stores that give every handler something to do: two lessons that overlap  *)
(* and share a transcript, one of them denied; a fact that needs its source  *)
(* and one that is advice; a user's memory and three profiles, as rival      *)
(* regenerations leave them, the first of them from before the others.       *)
EXTENDS Service

CONSTANTS a, b, s1, w1, w2, none

M(kind, user, stance, source, text, made) ==
  [kind |-> kind, user |-> user, stance |-> stance, source |-> source,
   text |-> text, made |-> made]
P(made) == M("profile", TRUE, "deny", none, {a}, made)

MCInitialStores ==
  { <<M("lesson", FALSE, "allow", s1, {a}, 1), M("lesson", FALSE, "deny", s1, {a}, 1)>>,
    <<M("fact", FALSE, "source", s1, {a, b}, 1), M("fact", FALSE, "advise", none, {b}, 1)>>,
    <<P(1), P(2), M("session", TRUE, "allow", none, {a}, 2), P(2)>> }
MCFact == {a, b}
MCWorker == {w1, w2}
MCSymmetry == Permutations(MCWorker)

=============================================================================
