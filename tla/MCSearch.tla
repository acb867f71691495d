------------------------------ MODULE MCSearch ------------------------------
(* A fact, a narrative, an inference still being written, and a fact of     *)
(* another namespace.                                                      *)
EXTENDS Search
CONSTANTS f1, n1, d1, x1

MCKind == [m \in Memories |-> CASE m = n1 -> "session" [] m = d1 -> "inference"
                               [] OTHER -> "fact"]
MCHome == [m \in Memories |-> IF m = x1 THEN "there" ELSE "here"]
\* A hit at rank r counts 1 / (RRF_K + r - 1).
MCScale == ProductSet({RRF_K + r : r \in 0 .. Cardinality(Memories) - 1})
NoBonus == [m \in Memories |-> 0]
\* Enough to win a near tie.
NearTie == 2 * (Reciprocal(1) - Reciprocal(2))
MCBonus == [trust |-> NoBonus, activation |-> NoBonus,
            tier |-> [m \in Memories |-> IF m = n1 THEN NearTie ELSE 0]]
\* The edge of the other namespace's fact is a hop away from the query's entity.
MCEnds == [m \in Memories |-> CASE m = f1 -> {"ann", "bob"} [] m = x1 -> {"bob", "cat"}
                               [] OTHER -> {}]
\* The narrative was updated by the memory still being written.
MCOutdated == {<<n1, d1>>}
=============================================================================
