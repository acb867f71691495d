-------------------------- MODULE BackfillProofs --------------------------
(***************************************************************************)
(* Proofs about the backfill, for any archives, items, limits and faults.  *)
(* That a complete receipt means what it says is proved for any number of  *)
(* runners; that chunks cite stored transcripts and that a source_ref has  *)
(* one child are proved for one runner at a time, which is what they need. *)
(***************************************************************************)
EXTENDS Backfill, FiniteSetTheorems, SequenceTheorems, TLAPS

-----------------------------------------------------------------------------
(* The candidate query. *)

Rank(T, t) == Cardinality({u \in T : u <= t})

\* The rows of a finite table are numbered 1, 2, ... in the order of their ids.
LEMMA RankIsOnto ==
  ASSUME NEW T, T \subseteq Nat, IsFiniteSet(T)
  PROVE  /\ Cardinality(T) \in Nat
         /\ \A t \in T : Rank(T, t) \in 1..Cardinality(T)
         /\ \A k \in 1..Cardinality(T) : \E t \in T : Rank(T, t) = k
<1> DEFINE n     == Cardinality(T)
           S(t)  == {u \in T : u <= t}
           rank  == [t \in T |-> Rank(T, t)]
<1>1. n \in Nat
  BY FS_CardinalityType
<1>2. \A t \in T : IsFiniteSet(S(t)) /\ Cardinality(S(t)) \in Nat /\ Cardinality(S(t)) <= n
  <2> TAKE t \in T
  <2>1. S(t) \in SUBSET T
    OBVIOUS
  <2>2. IsFiniteSet(S(t)) /\ Cardinality(S(t)) <= n
    BY <2>1, FS_Subset
  <2> QED BY <2>2, FS_CardinalityType
<1>3. \A t \in T : Rank(T, t) \in 1..n
  <2> TAKE t \in T
  <2>1. t \in S(t)
    OBVIOUS
  <2>2. Cardinality(S(t)) # 0
    BY <1>2, <2>1, FS_EmptySet
  <2>3. Cardinality(S(t)) \in 1..n
    BY <1>1, <1>2, <2>2
  <2> QED BY <2>3 DEF Rank
<1>4. ASSUME NEW s \in T, NEW t \in T, s < t
      PROVE  Rank(T, s) # Rank(T, t)
  <2>1. s \in Nat /\ t \in Nat /\ \A u \in T : u \in Nat
    OBVIOUS
  <2>2. \A u \in T : u <= s => u <= t
    BY <1>4, <2>1
  <2>3. S(s) \in SUBSET S(t)
    BY <2>2
  <2>4. t \in S(t) /\ t \notin S(s)
    BY <1>4, <2>1
  <2>5. Cardinality(S(s)) # Cardinality(S(t))
    BY <1>2, <2>3, <2>4, FS_Subset
  <2> QED BY <2>5 DEF Rank
<1>5. rank \in Injection(T, 1..n)
  <2>1. rank \in [T -> 1..n]
    BY <1>3
  <2>2. \A s, t \in T : rank[s] = rank[t] => s = t
    <3> TAKE s, t \in T
    <3>1. s < t \/ t < s \/ s = t
      OBVIOUS
    <3> QED BY <1>4, <3>1
  <2> QED BY <2>1, <2>2 DEF Injection, IsInjective
<1>6. IsFiniteSet(1..n) /\ Cardinality(1..n) = n
  <2>1. Cardinality(1..n) = IF 1 > n THEN 0 ELSE n - 1 + 1
    BY SMTT(30), <1>1, FS_Interval
  <2> QED BY <1>1, <2>1, FS_Interval
<1>7. rank \in Surjection(T, 1..n)
  BY <1>5, <1>6, FS_Injection
<1>8. \A k \in 1..n : \E t \in T : rank[t] = k
  BY <1>7 DEF Surjection
<1> QED BY <1>1, <1>3, <1>8

\* ORDER BY ... LIMIT returns rows of the table, each once, and no more than the
\* limit; from an empty table, or with no limit left, nothing.
LEMMA FirstOfType ==
  ASSUME NEW T \in SUBSET Transcript, NEW limit \in Nat
  PROVE  /\ FirstOf(T, limit) \in Seq(Transcript)
         /\ Len(FirstOf(T, limit)) <= limit
         /\ \A k \in 1..Len(FirstOf(T, limit)) : FirstOf(T, limit)[k] \in T
         /\ \A k, l \in 1..Len(FirstOf(T, limit)) :
              FirstOf(T, limit)[k] = FirstOf(T, limit)[l] => k = l
<1> DEFINE size == IF Cardinality(T) < limit THEN Cardinality(T) ELSE limit
           row(k) == CHOOSE t \in T : Rank(T, t) = k
           rows_ == [k \in 1..size |-> row(k)]
<1>1. FirstOf(T, limit) = rows_
  BY DEF FirstOf, Rank
<1>2. T \subseteq Nat /\ IsFiniteSet(T)
  <2>1. IsFiniteSet(Transcript)
    BY ConstantsAssumption, FS_Interval DEF Transcript
  <2>2. \A t \in Transcript : t \in Nat
    BY ConstantsAssumption DEF Transcript
  <2> QED BY <2>1, <2>2, FS_Subset
<1>3. size \in Nat /\ size <= limit /\ \A k \in 1..size : k \in 1..Cardinality(T)
  <2>1. Cardinality(T) \in Nat
    BY <1>2, FS_CardinalityType
  <2> QED BY <2>1
<1>4. ASSUME NEW k \in 1..size PROVE row(k) \in T /\ Rank(T, row(k)) = k
  <2>1. \E t \in T : Rank(T, t) = k
    BY <1>2, <1>3, RankIsOnto
  <2> QED BY <2>1
<1> HIDE DEF size, row
<1>5. rows_ \in [1..size -> Transcript]
  BY <1>4
<1>6. rows_ \in Seq(Transcript) /\ Len(rows_) = size
  BY <1>3, <1>5
<1>7. \A k \in 1..size : rows_[k] \in T
  BY <1>4
<1>8. \A k, l \in 1..size : rows_[k] = rows_[l] => k = l
  BY <1>4
<1> QED BY <1>1, <1>3, <1>6, <1>7, <1>8

\* A set of row ids that is not empty has a first.
LEMMA FirstExists ==
  ASSUME NEW n \in Nat, NEW found \in SUBSET (1..n), found # {}
  PROVE  \E k \in found : \A l \in found : k <= l
<1>1. found \subseteq Nat /\ IsFiniteSet(found)
  <2>1. IsFiniteSet(1..n)
    BY FS_Interval
  <2>2. \A k \in 1..n : k \in Nat
    OBVIOUS
  <2> QED BY <2>1, <2>2, FS_Subset
<1>2. Cardinality(found) \in Nat /\ Cardinality(found) # 0
  BY <1>1, FS_EmptySet, FS_CardinalityType
<1>3. PICK k \in found : Rank(found, k) = 1
  <2>1. 1 \in 1..Cardinality(found)
    BY <1>2
  <2>2. \A k \in 1..Cardinality(found) : \E t \in found : Rank(found, t) = k
    BY <1>1, RankIsOnto
  <2> QED BY <2>1, <2>2
<1> DEFINE S == {u \in found : u <= k}
<1>4. S \in SUBSET found
  OBVIOUS
<1>5. IsFiniteSet(S) /\ Cardinality(S) = 1
  BY <1>1, <1>3, <1>4, FS_Subset DEF Rank
<1>6. PICK x : S = {x}
  BY <1>5, FS_Singleton
<1>7. k \in S
  OBVIOUS
<1>8. \A l \in found : l <= k => l = k
  BY <1>6, <1>7
<1> QED BY <1>1, <1>8

-----------------------------------------------------------------------------
(* The steps of a runner. *)

Act(r) == Step(r) \/ StatementFails(r) \/ SoftFailure(r) \/ Crash(r)

Working == Loop \cup Graduate
PC      == {"idle", "sessions"} \cup Working

\* The program points, spelled out.
LEMMA Points ==
  /\ Loop = {"load", "check", "start", "find", "insert", "kind", "govern",
             "ledger", "index", "complete", "fail", "mark_failed"}
  /\ Graduate = {"mark", "outline", "birth", "tag", "adopt", "transcript", "spans", "record"}
  /\ Working = {"load", "check", "start", "find", "insert", "kind", "govern",
                "ledger", "index", "complete", "fail", "mark_failed",
                "mark", "outline", "birth", "tag", "adopt", "transcript", "spans", "record"}
  /\ PC = {"idle", "sessions", "load", "check", "start", "find", "insert", "kind",
           "govern", "ledger", "index", "complete", "fail", "mark_failed",
           "mark", "outline", "birth", "tag", "adopt", "transcript", "spans", "record"}
  BY DEF Loop, Graduate, Working, PC

LEMMA Levels ==
  /\ Bare = 0 /\ Kinded = 1 /\ Derived = 2 /\ Governed = 3 /\ Ledgered = 4 /\ Indexed = 5
  /\ Bare..Indexed = 0..5
  BY DEF Bare, Kinded, Derived, Governed, Ledgered, Indexed

LEMMA EmptyIff ==
  ASSUME NEW q \in Seq(Transcript)
  PROVE  q # <<>> <=> Len(q) # 0
  BY EmptySeq

LEMMA SubjectType ==
  ASSUME TypeOK, NEW r \in Runner, pc[r] \in Working
  PROVE  /\ todo[r] \in Seq(Transcript) /\ todo[r] # <<>> /\ Len(todo[r]) \in Nat \ {0}
         /\ Subject(r) = todo[r][1] /\ Subject(r) \in Transcript
         /\ Tail(todo[r]) \in Seq(Transcript)
         /\ Tail(todo[r]) # <<>> <=> Len(todo[r]) > 1
<1>1. todo[r] \in Seq(Transcript) /\ todo[r] # <<>>
  BY DEF TypeOK, Working
<1> DEFINE rest == Tail(todo[r])
<1>2. Len(todo[r]) \in Nat \ {0}
  BY <1>1
<1>3. rest \in Seq(Transcript) /\ Len(rest) = Len(todo[r]) - 1
  BY <1>1, HeadTailProperties
<1> HIDE DEF rest
<1>4. rest # <<>> <=> Len(todo[r]) > 1
  BY <1>2, <1>3, EmptyIff
<1>5. Head(todo[r]) = todo[r][1] /\ Head(todo[r]) \in Transcript
  BY <1>1, <1>2
<1> QED BY <1>1, <1>2, <1>3, <1>4, <1>5 DEF Subject, rest

\* The rows of the item in hand.
Rows(r) == children[Subject(r)][item[r]]

\* Where a runner is in the item and the row it writes.
PlacedAt(r) ==
  /\ pc[r] \in {"idle", "sessions", "load", "check", "start", "mark", "outline"}
       => item[r] = 0
  /\ pc[r] \in {"find", "insert", "kind", "govern", "ledger", "index", "birth", "tag", "adopt"}
       => item[r] \in Item
  /\ pc[r] \in {"kind", "govern", "ledger", "index", "tag", "adopt"}
       => child[r] \in 1..Len(Rows(r))
  /\ pc[r] \in {"ledger", "index"} => Rows(r)[child[r]] >= Governed

Placed == \A r \in Runner : PlacedAt(r)

TypeInv == TypeOK /\ Placed

\* Rows are only added, and what is written about a row stays.
Grown ==
  /\ children' \in [Transcript -> [Item -> Seq(Bare..Indexed)]]
  /\ \A t \in Transcript, i \in Item :
       /\ Len(children[t][i]) <= Len(children'[t][i])
       /\ \A k \in 1..Len(children[t][i]) : children[t][i][k] <= children'[t][i][k]

LEMMA RowsType ==
  ASSUME TypeOK
  PROVE  \A t \in Transcript, i \in Item :
           /\ children[t][i] \in Seq(0..5)
           /\ Len(children[t][i]) \in Nat
           /\ DOMAIN children[t][i] = 1..Len(children[t][i])
           /\ \A k \in 1..Len(children[t][i]) : children[t][i][k] \in 0..5
  BY Levels DEF TypeOK

\* Raise writes one row and no other.
LEMMA RaiseFacts ==
  ASSUME TypeOK, NEW r \in Runner, pc[r] \in Working,
         item[r] \in Item, child[r] \in 1..Len(Rows(r)),
         NEW level \in 0..5, Raise(r, level)
  PROVE  /\ children' \in [Transcript -> [Item -> Seq(Bare..Indexed)]]
         /\ \A t \in Transcript, i \in Item :
              /\ Len(children'[t][i]) = Len(children[t][i])
              /\ \A k \in 1..Len(children[t][i]) :
                   children'[t][i][k] =
                     IF t = Subject(r) /\ i = item[r] /\ k = child[r] /\ children[t][i][k] < level
                       THEN level ELSE children[t][i][k]
<1> DEFINE s == Subject(r)
           j == item[r]
           c == child[r]
           v == IF children[s][j][c] < level THEN level ELSE children[s][j][c]
           q == [children[s][j] EXCEPT ![c] = v]
<1>1. s \in Transcript /\ j \in Item /\ c \in 1..Len(children[s][j])
  BY SubjectType DEF Rows
<1>2. children[s][j] \in Seq(0..5) /\ v \in 0..5
  BY <1>1, RowsType
<1>3. q \in Seq(0..5) /\ Len(q) = Len(children[s][j])
  BY <1>1, <1>2
<1>4. \A k \in 1..Len(children[s][j]) : q[k] = IF k = c THEN v ELSE children[s][j][k]
  BY <1>1, <1>2
<1>5. children' = [children EXCEPT ![s] = [children[s] EXCEPT ![j] = q]]
  BY <1>1, RowsType DEF Raise, TypeOK
<1> HIDE DEF q, v
<1>6. children' \in [Transcript -> [Item -> Seq(Bare..Indexed)]]
  BY <1>1, <1>3, <1>5, Levels DEF TypeOK
<1>7. \A t \in Transcript, i \in Item :
        children'[t][i] = IF t = s /\ i = j THEN q ELSE children[t][i]
  BY <1>1, <1>5 DEF TypeOK
<1>8. \A t \in Transcript, i \in Item : Len(children'[t][i]) = Len(children[t][i])
  BY <1>3, <1>7
<1>9. ASSUME NEW t \in Transcript, NEW i \in Item, NEW k \in 1..Len(children[t][i])
      PROVE  children'[t][i][k] =
               IF t = s /\ i = j /\ k = c /\ children[t][i][k] < level
                 THEN level ELSE children[t][i][k]
  <2>1. CASE t = s /\ i = j
    BY <1>4, <1>7, <2>1 DEF v
  <2>2. CASE ~(t = s /\ i = j)
    BY <1>7, <2>2
  <2> QED BY <2>1, <2>2
<1> QED BY <1>6, <1>8, <1>9

\* A row is born at the end of its item's rows, and no other row changes.
LEMMA AppendFacts ==
  ASSUME TypeOK, NEW r \in Runner, pc[r] \in Working, item[r] \in Item,
         children' = [children EXCEPT ![Subject(r)][item[r]] = Append(@, Bare)]
  PROVE  /\ children' \in [Transcript -> [Item -> Seq(Bare..Indexed)]]
         /\ \A t \in Transcript, i \in Item :
              /\ Len(children'[t][i]) =
                   IF t = Subject(r) /\ i = item[r] THEN Len(children[t][i]) + 1
                                                    ELSE Len(children[t][i])
              /\ \A k \in 1..Len(children[t][i]) : children'[t][i][k] = children[t][i][k]
              /\ t = Subject(r) /\ i = item[r] => children'[t][i][Len(children[t][i]) + 1] = 0
<1> DEFINE s == Subject(r)
           j == item[r]
           q == Append(children[s][j], Bare)
<1>1. s \in Transcript /\ j \in Item
  BY SubjectType
<1>2. children[s][j] \in Seq(0..5) /\ Bare \in 0..5
  BY <1>1, RowsType, Levels
<1>3. /\ q \in Seq(0..5) /\ Len(q) = Len(children[s][j]) + 1
      /\ q[Len(children[s][j]) + 1] = 0
      /\ \A k \in 1..Len(children[s][j]) : q[k] = children[s][j][k]
  <2>1. ASSUME NEW w \in Seq(0..5), NEW b \in 0..5
        PROVE  /\ Append(w, b) \in Seq(0..5) /\ Len(Append(w, b)) = Len(w) + 1
               /\ Append(w, b)[Len(w) + 1] = b
               /\ \A k \in 1..Len(w) : Append(w, b)[k] = w[k]
    OBVIOUS
  <2>2. Bare = 0
    BY Levels
  <2> QED BY ONLY <1>2, <2>1, <2>2
<1>4. children' = [children EXCEPT ![s] = [children[s] EXCEPT ![j] = q]]
  BY <1>1 DEF TypeOK
<1> HIDE DEF q
<1>5. children' \in [Transcript -> [Item -> Seq(Bare..Indexed)]]
  BY <1>1, <1>3, <1>4, Levels DEF TypeOK
<1>6. \A t \in Transcript, i \in Item :
        children'[t][i] = IF t = s /\ i = j THEN q ELSE children[t][i]
  <2>1. children \in [Transcript -> [Item -> Seq(0..5)]]
    BY Levels DEF TypeOK
  <2>2. \A t \in Transcript : children'[t] = IF t = s THEN [children[s] EXCEPT ![j] = q]
                                                      ELSE children[t]
    BY <1>1, <1>4, <2>1
  <2> QED BY <1>1, <2>1, <2>2
<1> QED BY ZenonT(60), <1>3, <1>5, <1>6

\* What a runner can do, action by action.
LEMMA Acts ==
  ASSUME NEW r, Act(r)
  PROVE  \/ backfill(r) \/ load_blob(r) \/ receipt_complete(r) \/ start_receipt(r)
         \/ FindChild(r) \/ insert_memory(r) \/ set_memory_scope_kind(r)
         \/ apply_memory_governance(r) \/ append_memory_ledger(r) \/ IndexChild(r)
         \/ complete_receipt(r) \/ FailStart(r) \/ FailMark(r) \/ uncompressed_candidates(r)
         \/ mark_compressed(r) \/ Outline(r) \/ ChildIsBorn(r) \/ ChildIsTagged(r)
         \/ persist_procedure(r) \/ store_session_transcript(r) \/ persist_memory_skim(r)
         \/ record_compression(r) \/ StatementFails(r) \/ SoftFailure(r) \/ Crash(r)
  BY DEF Act, Step, PersistChild, run, persist_fact

\* The three outcomes of the search for an existing child.
LEMMA FindChildCases ==
  ASSUME TypeOK, NEW r \in Runner, pc[r] \in Working, item[r] \in Item, FindChild(r)
  PROVE  \/ /\ \A k \in 1..Len(Rows(r)) : Rows(r)[k] < Governed
            /\ pc' = [pc EXCEPT ![r] = "insert"]
            /\ UNCHANGED <<item, child>>
         \/ /\ \E k \in 1..Len(Rows(r)) : Rows(r)[k] >= Governed
            /\ NextItem(r)
            /\ UNCHANGED child
         \/ \E k \in 1..Len(Rows(r)) :
              /\ \A l \in 1..Len(Rows(r)) : Rows(r)[l] < Governed
              /\ pc' = [pc EXCEPT ![r] = "kind"]
              /\ child' = [child EXCEPT ![r] = k]
              /\ UNCHANGED item
<1> DEFINE t     == Subject(r)
           n     == Len(Rows(r))
           exact == {k \in 1..n : Rows(r)[k] >= Governed}
           found == recoverable_child_id(t, item[r])
           first == CHOOSE k \in found : \A l \in found : k <= l
<1>1. /\ t \in Transcript /\ Rows(r) = children[t][item[r]]
      /\ n \in Nat /\ DOMAIN Rows(r) = 1..n
      /\ \A k \in 1..n : Rows(r)[k] \in 0..5
  BY SubjectType, RowsType DEF Rows
<1>2. /\ found \in SUBSET (1..n)
      /\ exact # {} => found = exact
      /\ exact = {} => \A k \in 1..n : Rows(r)[k] < Governed
  <2>1. ASSUME exact = {}, NEW k \in 1..n PROVE Rows(r)[k] < Governed
    <3>1. ~(Rows(r)[k] >= Governed) /\ Rows(r)[k] \in 0..5 /\ Governed \in 0..5
      BY <1>1, <2>1, Levels
    <3> QED BY ONLY <3>1
  <2>2. found \in SUBSET (1..n)
    BY <1>1, Levels DEF recoverable_child_id
  <2>3. exact # {} => found = exact
    BY <1>1, Levels DEF recoverable_child_id
  <2> QED BY <2>1, <2>2, <2>3
<1>3. found = {} => exact = {}
  BY <1>2
<1>4. found # {} => first \in found
  <2>1. ASSUME found # {} PROVE \E k \in found : \A l \in found : k <= l
    BY <1>1, <1>2, <2>1, FirstExists
  <2> QED BY <2>1
<1>5. found # {} /\ Rows(r)[first] < Governed => exact = {}
  <2>1. ASSUME found # {}, exact # {} PROVE first \in 1..n /\ Rows(r)[first] >= Governed
    BY <1>2, <1>4, <2>1
  <2>2. \A k \in 1..n : ~(Rows(r)[k] >= Governed /\ Rows(r)[k] < Governed)
    BY SMTT(30), <1>1, Levels
  <2> QED BY <2>1, <2>2
<1>6. \/ found = {} /\ pc' = [pc EXCEPT ![r] = "insert"] /\ UNCHANGED <<item, child>>
      \/ found # {} /\ Rows(r)[first] >= Governed /\ NextItem(r) /\ UNCHANGED child
      \/ /\ found # {} /\ Rows(r)[first] < Governed
         /\ pc' = [pc EXCEPT ![r] = "kind"]
         /\ child' = [child EXCEPT ![r] = first] /\ UNCHANGED item
  BY SMTT(30), <1>1 DEF FindChild, Goto
<1> HIDE DEF found, first, exact, n
<1> QED BY <1>2, <1>3, <1>4, <1>5, <1>6 DEF n

\* Which statements write child rows, and how far.
LEMMA RowWrites ==
  ASSUME NEW r, Act(r)
  PROVE  \/ UNCHANGED children
         \/ \E level \in 1..5 :
              /\ Raise(r, level)
              /\ pc[r] \in {"kind", "govern", "ledger", "index", "tag", "adopt"}
              /\ level >= 3 => pc[r] \in {"govern", "ledger", "index"}
         \/ /\ pc[r] \in {"insert", "birth"}
            /\ children' = [children EXCEPT ![Subject(r)][item[r]] = Append(@, Bare)]
<1> USE Levels DEF Goto, rows, sessions
<1>1. CASE backfill(r)
  BY <1>1 DEF backfill
<1>2. CASE load_blob(r)
  BY <1>2 DEF load_blob
<1>3. CASE receipt_complete(r)
  BY <1>3 DEF receipt_complete
<1>4. CASE start_receipt(r)
  BY <1>4 DEF start_receipt
<1>5. CASE FindChild(r)
  BY <1>5 DEF FindChild
<1>6. CASE insert_memory(r)
  BY <1>6 DEF insert_memory
<1>7. CASE set_memory_scope_kind(r)
  BY <1>7 DEF set_memory_scope_kind
<1>8. CASE apply_memory_governance(r)
  BY <1>8 DEF apply_memory_governance
<1>9. CASE append_memory_ledger(r)
  BY <1>9 DEF append_memory_ledger
<1>10. CASE IndexChild(r)
  BY <1>10 DEF IndexChild
<1>11. CASE complete_receipt(r)
  BY <1>11 DEF complete_receipt
<1>12. CASE FailStart(r)
  BY <1>12 DEF FailStart
<1>13. CASE FailMark(r)
  BY <1>13 DEF FailMark
<1>14. CASE uncompressed_candidates(r)
  BY <1>14 DEF uncompressed_candidates
<1>15. CASE mark_compressed(r)
  BY <1>15 DEF mark_compressed
<1>16. CASE Outline(r)
  BY <1>16 DEF Outline
<1>17. CASE ChildIsBorn(r)
  BY <1>17 DEF ChildIsBorn
<1>18. CASE ChildIsTagged(r)
  BY <1>18 DEF ChildIsTagged
<1>19. CASE persist_procedure(r)
  BY <1>19 DEF persist_procedure
<1>20. CASE store_session_transcript(r)
  BY <1>20 DEF store_session_transcript
<1>21. CASE persist_memory_skim(r)
  BY <1>21 DEF persist_memory_skim
<1>22. CASE record_compression(r)
  BY <1>22 DEF record_compression
<1>23. CASE StatementFails(r)
  BY <1>23 DEF StatementFails
<1>24. CASE SoftFailure(r)
  BY <1>24 DEF SoftFailure, PassOver
<1>25. CASE Crash(r)
  BY <1>25 DEF Crash
<1> QED BY Acts, <1>1, <1>2, <1>3, <1>4, <1>5, <1>6, <1>7, <1>8, <1>9, <1>10, <1>11, <1>12, <1>13,
           <1>14, <1>15, <1>16, <1>17, <1>18, <1>19, <1>20, <1>21, <1>22, <1>23, <1>24, <1>25

LEMMA RowsGrow ==
  ASSUME TypeInv, NEW r \in Runner, Act(r)
  PROVE  Grown
<1> USE DEF TypeInv
<1>a. \A t \in Transcript, i \in Item :
        /\ Len(children[t][i]) \in Nat
        /\ \A k \in 1..Len(children[t][i]) : children[t][i][k] \in 0..5
  BY RowsType
<1>1. CASE UNCHANGED children
  <2>1. children \in [Transcript -> [Item -> Seq(Bare..Indexed)]]
    BY DEF TypeOK
  <2>2. \A t \in Transcript, i \in Item :
          /\ Len(children[t][i]) <= Len(children[t][i])
          /\ \A k \in 1..Len(children[t][i]) : children[t][i][k] <= children[t][i][k]
    BY SMTT(30), <1>a
  <2>3. children' = children
    BY <1>1
  <2> QED BY ONLY <2>1, <2>2, <2>3 DEF Grown
<1>2. ASSUME NEW level \in 1..5, Raise(r, level),
             pc[r] \in {"kind", "govern", "ledger", "index", "tag", "adopt"}
      PROVE  Grown
  <2>1. pc[r] \in Working /\ item[r] \in Item /\ child[r] \in 1..Len(Rows(r))
    BY <1>2, Points DEF Placed, PlacedAt
  <2>2. children' \in [Transcript -> [Item -> Seq(Bare..Indexed)]]
    BY <1>2, <2>1, RaiseFacts
  <2>3. ASSUME NEW t \in Transcript, NEW i \in Item
        PROVE  /\ Len(children[t][i]) <= Len(children'[t][i])
               /\ \A k \in 1..Len(children[t][i]) : children[t][i][k] <= children'[t][i][k]
    <3>1. Len(children'[t][i]) = Len(children[t][i]) /\ level \in 0..5
      BY <1>2, <2>1, RaiseFacts
    <3>2. ASSUME NEW k \in 1..Len(children[t][i])
          PROVE  children[t][i][k] <= children'[t][i][k]
      <4>1. children[t][i][k] \in 0..5
        BY <1>a
      <4>2. \/ children'[t][i][k] = level /\ children[t][i][k] < level
            \/ children'[t][i][k] = children[t][i][k]
        BY <1>2, <2>1, <3>1, RaiseFacts
      <4> QED BY ONLY SMTT(30), <3>1, <4>1, <4>2
    <3>3. Len(children[t][i]) <= Len(children'[t][i])
      BY <1>a, <3>1
    <3> QED BY <3>2, <3>3
  <2> QED BY <2>2, <2>3 DEF Grown
<1>3. CASE /\ pc[r] \in {"insert", "birth"}
           /\ children' = [children EXCEPT ![Subject(r)][item[r]] = Append(@, Bare)]
  <2>1. pc[r] \in Working /\ item[r] \in Item
    BY <1>3, Points DEF Placed, PlacedAt
  <2>2. children' \in [Transcript -> [Item -> Seq(Bare..Indexed)]]
    BY <1>3, <2>1, AppendFacts
  <2>3. ASSUME NEW t \in Transcript, NEW i \in Item
        PROVE  /\ Len(children[t][i]) <= Len(children'[t][i])
               /\ \A k \in 1..Len(children[t][i]) : children[t][i][k] <= children'[t][i][k]
    <3>1. \/ Len(children'[t][i]) = Len(children[t][i])
          \/ Len(children'[t][i]) = Len(children[t][i]) + 1
      BY <1>3, <2>1, AppendFacts
    <3>2. \A k \in 1..Len(children[t][i]) : children'[t][i][k] = children[t][i][k]
      BY <1>3, <2>1, AppendFacts
    <3>3. Len(children[t][i]) <= Len(children'[t][i])
      BY <1>a, <3>1
    <3>4. \A k \in 1..Len(children[t][i]) : children[t][i][k] <= children'[t][i][k]
      BY SMTT(30), <1>a, <3>2
    <3> QED BY <3>3, <3>4
  <2> QED BY <2>2, <2>3 DEF Grown
<1> QED BY <1>1, <1>2, <1>3, RowWrites

\* A step is one runner's: the position of the others stays.
LEMMA OthersStay ==
  ASSUME TypeOK, NEW r \in Runner, Act(r)
  PROVE  \A s \in Runner \ {r} : /\ pc'[s] = pc[s] /\ todo'[s] = todo[s]
                                 /\ item'[s] = item[s] /\ child'[s] = child[s]
<1> USE DEF Goto, place
<1>0. /\ DOMAIN pc = Runner /\ DOMAIN todo = Runner
      /\ DOMAIN item = Runner /\ DOMAIN child = Runner
  BY DEF TypeOK
<1>1. CASE backfill(r)
  BY <1>0, <1>1 DEF backfill
<1>2. CASE load_blob(r)
  BY <1>0, <1>2 DEF load_blob
<1>3. CASE receipt_complete(r)
  BY <1>0, <1>3 DEF receipt_complete, NextCandidate
<1>4. CASE start_receipt(r)
  BY <1>0, <1>4 DEF start_receipt
<1>5. CASE FindChild(r)
  BY <1>0, <1>5 DEF FindChild, NextItem
<1>6. CASE insert_memory(r)
  BY <1>0, <1>6 DEF insert_memory
<1>7. CASE set_memory_scope_kind(r)
  BY <1>0, <1>7 DEF set_memory_scope_kind
<1>8. CASE apply_memory_governance(r)
  BY <1>0, <1>8 DEF apply_memory_governance
<1>9. CASE append_memory_ledger(r)
  BY <1>0, <1>9 DEF append_memory_ledger
<1>10. CASE IndexChild(r)
  BY <1>0, <1>10 DEF IndexChild, NextItem
<1>11. CASE complete_receipt(r)
  BY <1>0, <1>11 DEF complete_receipt, NextCandidate
<1>12. CASE FailStart(r)
  BY <1>0, <1>12 DEF FailStart
<1>13. CASE FailMark(r)
  BY <1>0, <1>13 DEF FailMark, NextCandidate
<1>14. CASE uncompressed_candidates(r)
  BY <1>0, <1>14 DEF uncompressed_candidates
<1>15. CASE mark_compressed(r)
  BY <1>0, <1>15 DEF mark_compressed
<1>16. CASE Outline(r)
  BY <1>0, <1>16 DEF Outline, NextBirth
<1>17. CASE ChildIsBorn(r)
  BY <1>0, <1>17 DEF ChildIsBorn
<1>18. CASE ChildIsTagged(r)
  BY <1>0, <1>18 DEF ChildIsTagged
<1>19. CASE persist_procedure(r)
  BY <1>0, <1>19 DEF persist_procedure, NextBirth
<1>20. CASE store_session_transcript(r)
  BY <1>0, <1>20 DEF store_session_transcript
<1>21. CASE persist_memory_skim(r)
  BY <1>0, <1>21 DEF persist_memory_skim
<1>22. CASE record_compression(r)
  BY <1>0, <1>22 DEF record_compression, NextSession
<1>23. CASE StatementFails(r)
  BY <1>0, <1>23 DEF StatementFails
<1>24. CASE SoftFailure(r)
  BY <1>0, <1>24 DEF SoftFailure, PassOver, NextBirth, NextSession
<1>25. CASE Crash(r)
  BY <1>0, <1>25 DEF Crash
<1> QED BY Acts, <1>1, <1>2, <1>3, <1>4, <1>5, <1>6, <1>7, <1>8, <1>9, <1>10, <1>11, <1>12, <1>13,
           <1>14, <1>15, <1>16, <1>17, <1>18, <1>19, <1>20, <1>21, <1>22, <1>23, <1>24, <1>25

\* The types, without the rows.
Shape ==
  /\ archive \in [Transcript -> {"open", "compressed", "archived"}]
  /\ skim \in [Transcript -> {None, "plain", "cited", "torn"}]
  /\ swallowed \subseteq Transcript
  /\ receipt \in [Transcript -> {None, "running", "complete", "failed"}]
  /\ pc \in [Runner -> PC]
  /\ todo \in [Runner -> Seq(Transcript)]
  /\ left \in [Runner -> Nat]
  /\ item \in [Runner -> Nat]
  /\ child \in [Runner -> Nat]
  /\ faults \in Nat

ShapeAt(r) == pc[r] \in Working <=> todo[r] # <<>>

LEMMA TypeParts ==
  TypeOK <=> /\ Shape /\ children \in [Transcript -> [Item -> Seq(Bare..Indexed)]]
             /\ \A r \in Runner : ShapeAt(r)
  BY DEF TypeOK, Shape, ShapeAt, PC, Working

\* What the two queries return.
LEMMA QueryType ==
  /\ archived_candidates \in Seq(Transcript) /\ Len(archived_candidates) \in Nat
  /\ Limit - Len(archived_candidates) \in Nat
  /\ \A n \in Nat : FirstOf({t \in Transcript : archive[t] = "open"}, n) \in Seq(Transcript)
<1>1. {t \in Transcript : archive[t] = "archived" /\ ~ReceiptComplete(t)} \in SUBSET Transcript
  OBVIOUS
<1>2. {t \in Transcript : archive[t] = "open"} \in SUBSET Transcript
  OBVIOUS
<1>3. archived_candidates \in Seq(Transcript) /\ Len(archived_candidates) <= Limit
  BY <1>1, FirstOfType, ConstantsAssumption DEF archived_candidates
<1>4. Len(archived_candidates) \in Nat
  BY <1>3
<1>5. Limit - Len(archived_candidates) \in Nat
  BY <1>3, <1>4, ConstantsAssumption
<1> QED BY <1>2, <1>3, <1>4, <1>5, FirstOfType

LEMMA ShapeStep ==
  ASSUME TypeInv, NEW r \in Runner, Act(r)
  PROVE  Shape' /\ ShapeAt(r)'
<1> USE Points, Levels DEF Goto, place, sessions, rows, ShapeAt
<1>0. Shape /\ ShapeAt(r) /\ PlacedAt(r)
  BY TypeParts DEF TypeInv, Placed
<1>s. pc[r] \in Working => /\ Subject(r) \in Transcript /\ Len(todo[r]) \in Nat \ {0}
                           /\ Tail(todo[r]) \in Seq(Transcript)
                           /\ Tail(todo[r]) # <<>> <=> Len(todo[r]) > 1
  BY SubjectType DEF TypeInv
<1>1. CASE backfill(r)
  BY <1>0, <1>s, <1>1, QueryType DEF backfill, Shape
<1>2. CASE load_blob(r)
  BY <1>0, <1>s, <1>2 DEF load_blob, Shape
<1>3. CASE receipt_complete(r)
  <2>1. CASE NextCandidate(r) /\ UNCHANGED <<sessions, rows, faults>>
    BY SMTT(30), <1>0, <1>s, <1>3, <2>1 DEF receipt_complete, NextCandidate, Shape
  <2>2. CASE Goto(r, "check", "start") /\ UNCHANGED <<place, sessions, rows, faults>>
    BY <1>0, <2>2 DEF Shape
  <2> QED BY <1>3, <2>1, <2>2 DEF receipt_complete
<1>4. CASE start_receipt(r)
  BY <1>0, <1>s, <1>4 DEF start_receipt, Shape
<1>5. CASE FindChild(r)
  <2>1. pc[r] = "find" /\ item[r] \in Item /\ UNCHANGED <<sessions, rows, todo, left, faults>>
    BY <1>0, <1>5 DEF FindChild, PlacedAt
  <2>2. \A k \in 1..Len(Rows(r)) : k \in Nat
    OBVIOUS
  <2> DEFINE Absent == pc' = [pc EXCEPT ![r] = "insert"] /\ UNCHANGED <<item, child>>
             Done == NextItem(r) /\ UNCHANGED child
             Found == \E k \in Nat : /\ pc' = [pc EXCEPT ![r] = "kind"]
                                     /\ child' = [child EXCEPT ![r] = k] /\ UNCHANGED item
  <2>3. Absent \/ Done \/ Found
    BY <1>5, <2>1, <2>2, FindChildCases DEF TypeInv
  <2>4. CASE Absent
    BY <1>0, <2>1, <2>4 DEF Shape
  <2>5. CASE Done
    <3>1. pc' \in [Runner -> PC] /\ item' \in [Runner -> Nat] /\ pc'[r] \in Working
      BY <1>0, <2>1, <2>5 DEF NextItem, Shape
    <3> QED BY <1>0, <2>1, <2>5, <3>1 DEF Shape
  <2>6. CASE Found
    <3>1. /\ pc' \in [Runner -> PC] /\ child' \in [Runner -> Nat]
          /\ pc'[r] \in Working /\ UNCHANGED item
      BY <1>0, <2>6 DEF Shape
    <3> QED BY <1>0, <2>1, <3>1 DEF Shape
  <2> HIDE DEF Absent, Done, Found
  <2> QED BY ONLY <2>3, <2>4, <2>5, <2>6
<1>6. CASE insert_memory(r)
  BY SMTT(30), <1>0, <1>s, <1>6 DEF insert_memory, Shape
<1>7. CASE set_memory_scope_kind(r)
  BY <1>0, <1>s, <1>7, SMTT(30) DEF set_memory_scope_kind, Shape
<1>8. CASE apply_memory_governance(r)
  BY <1>0, <1>s, <1>8 DEF apply_memory_governance, Shape
<1>9. CASE append_memory_ledger(r)
  BY <1>0, <1>s, <1>9 DEF append_memory_ledger, Shape
<1>10. CASE IndexChild(r)
  BY SMTT(30), <1>0, <1>s, <1>10 DEF IndexChild, NextItem, Shape
<1>11. CASE complete_receipt(r)
  BY <1>0, <1>s, <1>11 DEF complete_receipt, NextCandidate, Shape
<1>12. CASE FailStart(r)
  BY <1>0, <1>s, <1>12 DEF FailStart, Shape
<1>13. CASE FailMark(r)
  BY <1>0, <1>s, <1>13 DEF FailMark, NextCandidate, Shape
<1>14. CASE uncompressed_candidates(r)
  BY <1>0, <1>s, <1>14, QueryType, SMTT(30) DEF uncompressed_candidates, Shape
<1>15. CASE mark_compressed(r)
  BY <1>0, <1>s, <1>15, SMTT(30) DEF mark_compressed, Shape
<1>16. CASE Outline(r)
  BY SMTT(30), <1>0, <1>s, <1>16 DEF Outline, NextBirth, Shape
<1>17. CASE ChildIsBorn(r)
  BY <1>0, <1>s, <1>17, SMTT(30) DEF ChildIsBorn, Shape
<1>18. CASE ChildIsTagged(r)
  BY <1>0, <1>s, <1>18 DEF ChildIsTagged, Shape
<1>19. CASE persist_procedure(r)
  BY SMTT(30), <1>0, <1>s, <1>19 DEF persist_procedure, NextBirth, Shape
<1>20. CASE store_session_transcript(r)
  BY <1>0, <1>s, <1>20 DEF store_session_transcript, Shape
<1>21. CASE persist_memory_skim(r)
  BY <1>0, <1>s, <1>21 DEF persist_memory_skim, Shape
<1>22. CASE record_compression(r)
  BY <1>0, <1>s, <1>22 DEF record_compression, NextSession, Shape
<1>23. CASE StatementFails(r)
  BY SMTT(30), <1>0, <1>s, <1>23 DEF StatementFails, Shape
<1>24. CASE SoftFailure(r)
  <2>0. /\ pc[r] \in Graduate /\ faults' = faults + 1 /\ PassOver(r)
        /\ UNCHANGED <<archive, receipt>>
    BY <1>24 DEF SoftFailure
  <2>1. CASE NextBirth(r) /\ swallowed' \in {swallowed, swallowed \cup {Subject(r)}}
             /\ UNCHANGED <<skim, todo, left>>
    <3>1. /\ pc' \in [Runner -> PC] /\ item' \in [Runner -> Nat] /\ child' \in [Runner -> Nat]
          /\ pc'[r] \in Working
      BY <1>0, <2>1 DEF NextBirth, Shape
    <3>2. swallowed' \subseteq Transcript /\ faults' \in Nat
      BY <1>0, <1>s, <2>0, <2>1 DEF Shape
    <3> QED BY <1>0, <2>0, <2>1, <3>1, <3>2 DEF Shape
  <2>2. CASE \/ Goto(r, "tag", "adopt") /\ UNCHANGED <<item, child, swallowed, skim, todo, left>>
             \/ /\ Goto(r, "spans", "record") /\ UNCHANGED <<swallowed, place>>
                /\ skim' = [skim EXCEPT ![Subject(r)] = "torn"]
    <3>1. skim' \in [Transcript -> {None, "plain", "cited", "torn"}]
      BY <1>0, <1>s, <2>0, <2>2 DEF Shape
    <3>2. pc' \in [Runner -> PC] /\ pc'[r] \in Working /\ pc[r] \in Working
      BY ZenonT(60), <1>0, <2>2 DEF Shape
    <3>3. faults' \in Nat
      BY <1>0, <2>0 DEF Shape
    <3> QED BY <1>0, <2>0, <2>2, <3>1, <3>2, <3>3 DEF Shape
  <2>3. CASE NextSession(r) /\ UNCHANGED <<skim, swallowed>>
    <3>1. pc' \in [Runner -> PC] /\ item' \in [Runner -> Nat] /\ child' \in [Runner -> Nat]
      BY <1>0, <2>3 DEF NextSession, Shape
    <3>2. todo' \in [Runner -> Seq(Transcript)] /\ ShapeAt(r)'
      BY <1>0, <1>s, <2>0, <2>3 DEF NextSession, Shape
    <3>3. faults' \in Nat
      BY <1>0, <2>0 DEF Shape
    <3> QED BY <1>0, <2>0, <2>3, <3>1, <3>2, <3>3 DEF NextSession, Shape
  <2> QED BY <2>0, <2>1, <2>2, <2>3 DEF PassOver
<1>25. CASE Crash(r)
  BY <1>0, <1>s, <1>25 DEF Crash, Shape
<1> QED BY Acts, <1>1, <1>2, <1>3, <1>4, <1>5, <1>6, <1>7, <1>8, <1>9, <1>10, <1>11, <1>12, <1>13,
           <1>14, <1>15, <1>16, <1>17, <1>18, <1>19, <1>20, <1>21, <1>22, <1>23, <1>24, <1>25

LEMMA TypeStep ==
  ASSUME TypeInv, NEW r \in Runner, Act(r)
  PROVE  TypeOK'
<1>1. TypeOK /\ \A s \in Runner : ShapeAt(s)
  BY TypeParts DEF TypeInv
<1>2. Shape' /\ ShapeAt(r)'
  BY ShapeStep
<1>3. ASSUME NEW s \in Runner \ {r} PROVE ShapeAt(s)'
  BY <1>1, OthersStay DEF ShapeAt
<1>4. (children \in [Transcript -> [Item -> Seq(Bare..Indexed)]])'
  BY RowsGrow DEF Grown
<1> HIDE DEF Shape, ShapeAt
<1>5. (\A s \in Runner : ShapeAt(s))'
  BY <1>2, <1>3
<1> QED BY <1>2, <1>4, <1>5 DEF TypeOK, Shape, ShapeAt, PC, Working

\* A runner that keeps its place finds its rows where they were.
LEMMA RowsStand ==
  ASSUME TypeInv, Grown, NEW s \in Runner, pc[s] \in Working, item[s] \in Item,
         todo'[s] = todo[s], item'[s] = item[s]
  PROVE  /\ Len(Rows(s)) \in Nat /\ Len(Rows(s)') \in Nat /\ Len(Rows(s)) <= Len(Rows(s)')
         /\ \A k \in 1..Len(Rows(s)) : /\ k \in 1..Len(Rows(s)')
                                     /\ Rows(s)[k] \in 0..5 /\ Rows(s)'[k] \in 0..5
                                     /\ Rows(s)[k] <= Rows(s)'[k]
<1> DEFINE t == Subject(s)
           i == item[s]
<1>1. t \in Transcript /\ i \in Item /\ Rows(s) = children[t][i] /\ Rows(s)' = children'[t][i]
  BY SubjectType DEF TypeInv, Subject, Rows
<1>2. /\ Len(children[t][i]) \in Nat
      /\ \A k \in 1..Len(children[t][i]) : children[t][i][k] \in 0..5
  BY <1>1, RowsType DEF TypeInv
<1>3. children'[t][i] \in Seq(0..5)
  BY <1>1, Levels DEF Grown
<1>4. /\ Len(children'[t][i]) \in Nat
      /\ \A k \in 1..Len(children'[t][i]) : children'[t][i][k] \in 0..5
  BY <1>3
<1>5. /\ Len(children[t][i]) <= Len(children'[t][i])
      /\ \A k \in 1..Len(children[t][i]) : children[t][i][k] <= children'[t][i][k]
  BY <1>1 DEF Grown
<1>6. \A k \in 1..Len(children[t][i]) : k \in 1..Len(children'[t][i])
  BY <1>2, <1>4, <1>5
<1> QED BY <1>1, <1>2, <1>4, <1>5, <1>6

\* So does one that did not move while another wrote.
LEMMA PlacedStands ==
  ASSUME TypeInv, Grown, NEW s \in Runner,
         pc'[s] = pc[s], todo'[s] = todo[s], item'[s] = item[s], child'[s] = child[s]
  PROVE  PlacedAt(s)'
<1>0. PlacedAt(s)
  BY DEF TypeInv, Placed
<1>1. CASE pc[s] \in {"kind", "govern", "ledger", "index", "tag", "adopt"}
  <2>1. pc[s] \in Working /\ item[s] \in Item /\ child[s] \in 1..Len(Rows(s))
    BY <1>0, <1>1, Points DEF PlacedAt
  <2>2. /\ child[s] \in 1..Len(Rows(s)') /\ Rows(s)[child[s]] <= Rows(s)'[child[s]]
        /\ Rows(s)[child[s]] \in 0..5 /\ Rows(s)'[child[s]] \in 0..5
    BY <2>1, RowsStand
  <2>3. pc[s] \in {"ledger", "index"} => Rows(s)'[child[s]] >= Governed
    BY <1>0, <2>2, Levels DEF PlacedAt
  <2> QED BY <1>0, <1>1, <2>1, <2>2, <2>3 DEF PlacedAt
<1>2. CASE pc[s] \notin {"kind", "govern", "ledger", "index", "tag", "adopt"}
  BY <1>0, <1>2 DEF PlacedAt
<1> QED BY <1>1, <1>2

LEMMA PlacedStep ==
  ASSUME TypeInv, NEW r \in Runner, Act(r)
  PROVE  PlacedAt(r)'
<1> USE Points, Levels DEF Goto, place, sessions, rows
<1>0. Shape /\ PlacedAt(r) /\ Grown /\ Items \in Nat /\ Item = 1..Items
  BY TypeParts, RowsGrow, ConstantsAssumption DEF TypeInv, Placed, Item
<1>k. ASSUME pc[r] \in Working, item[r] \in Item, UNCHANGED <<todo, item, child>>,
             child[r] \in 1..Len(Rows(r))
      PROVE  /\ child'[r] \in 1..Len(Rows(r)')
             /\ Rows(r)[child[r]] >= 3 => Rows(r)'[child'[r]] >= 3
  <2>1. /\ child[r] \in 1..Len(Rows(r)') /\ Rows(r)[child[r]] <= Rows(r)'[child[r]]
        /\ Rows(r)[child[r]] \in 0..5 /\ Rows(r)'[child[r]] \in 0..5
    BY <1>0, <1>k, RowsStand
  <2>2. UNCHANGED child
    BY <1>k
  <2> QED BY <2>1, <2>2
<1>1. CASE backfill(r)
  BY <1>0, <1>1 DEF backfill, Shape, PlacedAt
<1>2. CASE load_blob(r)
  BY <1>0, <1>2 DEF load_blob, Shape, PlacedAt
<1>3. CASE receipt_complete(r)
  <2>1. CASE NextCandidate(r)
    BY <1>0, <2>1 DEF NextCandidate, PlacedAt, Shape
  <2>2. CASE Goto(r, "check", "start") /\ UNCHANGED place
    BY <1>0, <2>2 DEF PlacedAt, Shape
  <2> QED BY <1>3, <2>1, <2>2 DEF receipt_complete
<1>4. CASE start_receipt(r)
  BY <1>0, <1>4 DEF start_receipt, Shape, PlacedAt
<1>5. CASE FindChild(r)
  <2>1. pc[r] = "find" /\ item[r] \in Item /\ UNCHANGED <<todo, children>>
    BY <1>0, <1>5 DEF FindChild, PlacedAt
  <2>2. CASE pc' = [pc EXCEPT ![r] = "insert"] /\ UNCHANGED <<item, child>>
    BY <1>0, <2>1, <2>2 DEF Shape, PlacedAt
  <2>3. CASE NextItem(r)
    BY <1>0, <2>1, <2>3 DEF Shape, PlacedAt, NextItem
  <2>4. ASSUME NEW k \in 1..Len(Rows(r)), pc' = [pc EXCEPT ![r] = "kind"],
               child' = [child EXCEPT ![r] = k], UNCHANGED item
        PROVE  PlacedAt(r)'
    <3>1. Rows(r)' = Rows(r)
      BY <2>1, <2>4 DEF Rows, Subject
    <3>2. pc'[r] = "kind" /\ child'[r] = k /\ item'[r] \in Item
      BY <1>0, <2>1, <2>4 DEF Shape
    <3> QED BY <2>4, <3>1, <3>2 DEF PlacedAt
  <2> QED BY <1>5, <2>1, <2>2, <2>3, <2>4, FindChildCases DEF TypeInv
<1>6. CASE insert_memory(r)
  <2>1. /\ pc[r] \in Working /\ item[r] \in Item /\ UNCHANGED <<todo, item>>
        /\ children' = [children EXCEPT ![Subject(r)][item[r]] = Append(@, Bare)]
    BY <1>0, <1>6 DEF insert_memory, PlacedAt
  <2>2. Subject(r) \in Transcript /\ Subject(r)' = Subject(r)
    BY <2>1, SubjectType DEF TypeInv, Subject
  <2>3. Len(Rows(r)') = Len(Rows(r)) + 1 /\ Len(Rows(r)) \in Nat
    <3>1. /\ Rows(r) = children[Subject(r)][item[r]]
          /\ Rows(r)' = children'[Subject(r)][item[r]]
      BY <2>1, <2>2 DEF Rows
    <3>2. Len(children'[Subject(r)][item[r]]) = Len(children[Subject(r)][item[r]]) + 1
      <4>1. /\ TypeOK /\ r \in Runner /\ pc[r] \in Working /\ item[r] \in Item
            /\ children' = [children EXCEPT ![Subject(r)][item[r]] = Append(@, Bare)]
        BY <2>1 DEF TypeInv
      <4>2. \A u \in Transcript, j \in Item :
              /\ Len(children'[u][j]) = IF u = Subject(r) /\ j = item[r]
                                          THEN Len(children[u][j]) + 1 ELSE Len(children[u][j])
              /\ \A k \in 1..Len(children[u][j]) : children'[u][j][k] = children[u][j][k]
              /\ u = Subject(r) /\ j = item[r] => children'[u][j][Len(children[u][j]) + 1] = 0
        BY ONLY <4>1, AppendFacts
      <4> QED BY <2>1, <2>2, <4>2
    <3>3. Len(children[Subject(r)][item[r]]) \in Nat
      BY <2>1, <2>2, RowsType DEF TypeInv
    <3> QED BY <3>1, <3>2, <3>3
  <2>4. child'[r] = Len(Rows(r)) + 1 /\ pc'[r] = "kind"
    BY <1>0, <1>6, <2>1 DEF insert_memory, Rows, Shape
  <2> QED BY <2>1, <2>3, <2>4 DEF PlacedAt
<1>7. CASE set_memory_scope_kind(r)
  BY <1>0, <1>k, <1>7 DEF set_memory_scope_kind, PlacedAt, Shape
<1>8. CASE apply_memory_governance(r)
  <2>1. /\ pc[r] = "govern" /\ item[r] \in Item /\ child[r] \in 1..Len(Rows(r))
        /\ Raise(r, 3) /\ UNCHANGED <<todo, item, child>>
    BY <1>0, <1>8 DEF apply_memory_governance, PlacedAt
  <2>2. Subject(r) \in Transcript /\ Subject(r)' = Subject(r)
    BY <2>1, SubjectType DEF TypeInv, Subject
  <2>3. /\ Rows(r) = children[Subject(r)][item[r]] /\ Rows(r)' = children'[Subject(r)][item[r]]
        /\ Rows(r)[child[r]] \in 0..5
    BY <2>1, <2>2, RowsType DEF TypeInv, Rows
  <2>4. Rows(r)'[child[r]] = IF Rows(r)[child[r]] < 3 THEN 3 ELSE Rows(r)[child[r]]
    BY <2>1, <2>2, <2>3, RaiseFacts DEF TypeInv
  <2>5. Rows(r)'[child[r]] >= 3
    BY <2>3, <2>4
  <2>6. child'[r] \in 1..Len(Rows(r)')
    BY <1>k, <2>1
  <2>7. pc'[r] = "ledger" /\ item'[r] \in Item /\ child'[r] = child[r]
    BY <1>0, <1>8, <2>1 DEF apply_memory_governance, Shape
  <2> QED BY <2>5, <2>6, <2>7 DEF PlacedAt
<1>9. CASE append_memory_ledger(r)
  BY <1>0, <1>k, <1>9 DEF append_memory_ledger, PlacedAt, Shape
<1>10. CASE IndexChild(r)
  BY <1>0, <1>10 DEF IndexChild, NextItem, Shape, PlacedAt
<1>11. CASE complete_receipt(r)
  BY <1>0, <1>11 DEF complete_receipt, NextCandidate, Shape, PlacedAt
<1>12. CASE FailStart(r)
  BY <1>0, <1>12 DEF FailStart, Shape, PlacedAt
<1>13. CASE FailMark(r)
  BY <1>0, <1>13 DEF FailMark, NextCandidate, Shape, PlacedAt
<1>14. CASE uncompressed_candidates(r)
  BY <1>0, <1>14 DEF uncompressed_candidates, Shape, PlacedAt
<1>15. CASE mark_compressed(r)
  BY <1>0, <1>15 DEF mark_compressed, Shape, PlacedAt
<1>16. CASE Outline(r)
  BY <1>0, <1>16 DEF Outline, NextBirth, Shape, PlacedAt
<1>17. CASE ChildIsBorn(r)
  <2>1. /\ pc[r] \in Working /\ item[r] \in Item /\ UNCHANGED <<todo, item>>
        /\ children' = [children EXCEPT ![Subject(r)][item[r]] = Append(@, Bare)]
    BY <1>0, <1>17 DEF ChildIsBorn, PlacedAt
  <2>2. Subject(r) \in Transcript /\ Subject(r)' = Subject(r)
    BY <2>1, SubjectType DEF TypeInv, Subject
  <2>3. Len(Rows(r)') = Len(Rows(r)) + 1 /\ Len(Rows(r)) \in Nat
    <3>1. /\ Rows(r) = children[Subject(r)][item[r]]
          /\ Rows(r)' = children'[Subject(r)][item[r]]
      BY <2>1, <2>2 DEF Rows
    <3>2. Len(children'[Subject(r)][item[r]]) = Len(children[Subject(r)][item[r]]) + 1
      <4>1. /\ TypeOK /\ r \in Runner /\ pc[r] \in Working /\ item[r] \in Item
            /\ children' = [children EXCEPT ![Subject(r)][item[r]] = Append(@, Bare)]
        BY <2>1 DEF TypeInv
      <4>2. \A u \in Transcript, j \in Item :
              /\ Len(children'[u][j]) = IF u = Subject(r) /\ j = item[r]
                                          THEN Len(children[u][j]) + 1 ELSE Len(children[u][j])
              /\ \A k \in 1..Len(children[u][j]) : children'[u][j][k] = children[u][j][k]
              /\ u = Subject(r) /\ j = item[r] => children'[u][j][Len(children[u][j]) + 1] = 0
        BY ONLY <4>1, AppendFacts
      <4> QED BY <2>1, <2>2, <4>2
    <3>3. Len(children[Subject(r)][item[r]]) \in Nat
      BY <2>1, <2>2, RowsType DEF TypeInv
    <3> QED BY <3>1, <3>2, <3>3
  <2>4. child'[r] = Len(Rows(r)) + 1 /\ pc'[r] = "tag"
    BY <1>0, <1>17, <2>1 DEF ChildIsBorn, Rows, Shape
  <2> QED BY <2>1, <2>3, <2>4 DEF PlacedAt
<1>18. CASE ChildIsTagged(r)
  BY <1>0, <1>k, <1>18 DEF ChildIsTagged, PlacedAt, Shape
<1>19. CASE persist_procedure(r)
  BY <1>0, <1>19 DEF persist_procedure, NextBirth, Shape, PlacedAt
<1>20. CASE store_session_transcript(r)
  BY <1>0, <1>20 DEF store_session_transcript, Shape, PlacedAt
<1>21. CASE persist_memory_skim(r)
  BY <1>0, <1>21 DEF persist_memory_skim, Shape, PlacedAt
<1>22. CASE record_compression(r)
  BY <1>0, <1>22 DEF record_compression, NextSession, Shape, PlacedAt
<1>23. CASE StatementFails(r)
  BY <1>0, <1>23 DEF StatementFails, Shape, PlacedAt
<1>24. CASE SoftFailure(r)
  <2>0. PassOver(r)
    BY <1>24 DEF SoftFailure
  <2>1. CASE NextBirth(r) /\ pc[r] \in {"birth", "adopt", "outline"}
    BY <1>0, <2>1 DEF NextBirth, Shape, PlacedAt
  <2>2. CASE Goto(r, "tag", "adopt") /\ UNCHANGED <<item, child, todo>>
    BY <1>0, <1>k, <2>2 DEF PlacedAt, Shape
  <2>3. CASE Goto(r, "spans", "record")
    BY <1>0, <2>3 DEF PlacedAt, Shape
  <2>4. CASE NextSession(r)
    BY <1>0, <2>4 DEF NextSession, PlacedAt, Shape
  <2> QED BY <2>0, <2>1, <2>2, <2>3, <2>4 DEF PassOver
<1>25. CASE Crash(r)
  BY <1>0, <1>25 DEF Crash, Shape, PlacedAt
<1> QED BY Acts, <1>1, <1>2, <1>3, <1>4, <1>5, <1>6, <1>7, <1>8, <1>9, <1>10, <1>11, <1>12, <1>13,
           <1>14, <1>15, <1>16, <1>17, <1>18, <1>19, <1>20, <1>21, <1>22, <1>23, <1>24, <1>25

LEMMA InitTypeInv == Init => TypeInv
<1> SUFFICES ASSUME Init PROVE TypeInv
  OBVIOUS
<1> USE Points, Levels DEF Init
<1>1. \A t \in Transcript, i \in Item : children[t][i] \in Seq(Bare..Indexed)
  <2>1. <<>> \in Seq(0..5) /\ <<2>> \in Seq(0..5)
    OBVIOUS
  <2>2. \A t \in Transcript, i \in Item : children[t][i] \in {<<>>, <<2>>}
    OBVIOUS
  <2> QED BY <2>1, <2>2
<1>2. children \in [Transcript -> [Item -> Seq(Bare..Indexed)]]
  <2>1. \A t \in Transcript : children[t] \in [Item -> {<<>>, <<2>>}]
    OBVIOUS
  <2>2. \A t \in Transcript : children[t] \in [Item -> Seq(Bare..Indexed)]
    BY <1>1, <2>1
  <2> QED BY <2>2
<1>3. archive \in [Transcript -> {"open", "compressed", "archived"}]
  OBVIOUS
<1>4. skim \in [Transcript -> {None, "plain", "cited", "torn"}]
  OBVIOUS
<1>5. /\ todo \in [Runner -> Seq(Transcript)] /\ \A r \in Runner : todo[r] = <<>>
      /\ pc \in [Runner -> PC] /\ \A r \in Runner : pc[r] = "idle" /\ item[r] = 0
  OBVIOUS
<1>6. Shape
  BY <1>3, <1>4, <1>5 DEF Shape
<1>7. \A r \in Runner : ShapeAt(r) /\ PlacedAt(r)
  BY <1>5 DEF ShapeAt, PlacedAt
<1> QED BY <1>2, <1>6, <1>7, TypeParts DEF TypeInv, Placed

LEMMA NextTypeInv ==
  ASSUME TypeInv, [Next]_vars
  PROVE  TypeInv'
<1>1. ASSUME NEW r \in Runner, Act(r) PROVE TypeInv'
  <2>1. TypeOK' /\ PlacedAt(r)'
    BY <1>1, TypeStep, PlacedStep
  <2>2. ASSUME NEW s \in Runner \ {r} PROVE PlacedAt(s)'
    BY <1>1, OthersStay, RowsGrow, PlacedStands DEF TypeInv
  <2> QED BY <2>1, <2>2 DEF TypeInv, Placed
<1>2. CASE UNCHANGED vars
  BY <1>2 DEF vars, sessions, rows, place, TypeInv, TypeOK, Placed, PlacedAt, Rows, Subject
<1> QED BY <1>1, <1>2 DEF Next, Act

\* Receipts, child rows and runners keep the shape recovery.rs gives them, a
\* runner is in the loop exactly while it has a candidate, and it never writes
\* to a row that is not there.
THEOREM TypeCorrect == Spec => [](TypeOK /\ Placed)
<1>1. Init => TypeInv
  BY InitTypeInv
<1>2. TypeInv /\ [Next]_vars => TypeInv'
  BY NextTypeInv
<1> QED BY <1>1, <1>2, PTL DEF Spec, TypeInv

-----------------------------------------------------------------------------
(* A complete receipt. *)

\* The first items of a transcript, up to n, have their child.
Done(t, n) == \A i \in Item : i < n => HasChild(t, i)

(***************************************************************************)
(* What lies behind a runner.  The invariant needs it because the receipt  *)
(* is written long after the children, and by whichever runner gets there. *)
(***************************************************************************)
BehindAt(r) ==
  /\ pc[r] \in {"find", "insert", "kind", "govern", "ledger", "index"}
       => Done(Subject(r), item[r])
  /\ pc[r] = "complete" => Done(Subject(r), Items + 1)
  /\ pc[r] \in {"birth", "tag", "adopt"} /\ Subject(r) \notin swallowed
       => Done(Subject(r), item[r])
  /\ pc[r] \in {"transcript", "spans", "record"} /\ Subject(r) \notin swallowed
       => Done(Subject(r), Items + 1)

Behind == \A r \in Runner : BehindAt(r)

\* A step from one point to another of the same stretch of the code.
SameStretch(r) ==
  \E stretch \in {{"find", "insert", "kind", "govern", "ledger", "index"},
                 {"birth", "tag", "adopt"}, {"transcript", "spans", "record"}} :
    pc[r] \in stretch /\ pc'[r] \in stretch

ReceiptInv == TypeInv /\ Behind /\ CompleteMeansGoverned

LEMMA DoneStays ==
  ASSUME TypeInv, Grown, NEW t \in Transcript, NEW n, Done(t, n)
  PROVE  Done(t, n)'
<1> SUFFICES ASSUME NEW i \in Item, HasChild(t, i) PROVE HasChild(t, i)'
  BY DEF Done
<1>1. PICK k \in 1..Len(children[t][i]) : children[t][i][k] >= 2
  BY RowsType, Levels DEF HasChild, TypeInv
<1>2. children'[t][i] \in Seq(0..5)
  BY Levels DEF Grown
<1>3. /\ Len(children[t][i]) <= Len(children'[t][i]) /\ children[t][i][k] <= children'[t][i][k]
      /\ Len(children[t][i]) \in Nat /\ children[t][i][k] \in 0..5
  BY RowsType DEF Grown, TypeInv
<1>4. Len(children'[t][i]) \in Nat
  BY <1>2
<1>5. k \in 1..Len(children'[t][i])
  BY <1>3, <1>4
<1>6. children'[t][i][k] \in 0..5
  BY <1>2, <1>5
<1>7. children'[t][i][k] >= 2
  <2>1. \A a, b \in 0..5 : a >= 2 /\ a <= b => b >= 2
    OBVIOUS
  <2> QED BY <1>1, <1>3, <1>6, <2>1
<1> QED BY <1>2, <1>5, <1>7, Levels DEF HasChild

LEMMA DoneNext ==
  ASSUME NEW t, NEW j \in Item, Done(t, j), HasChild(t, j)
  PROVE  Done(t, j + 1)
<1>1. \A i \in Item : i < j + 1 => i < j \/ i = j
  BY ConstantsAssumption DEF Item
<1> QED BY <1>1 DEF Done

\* A row of the item in hand that is far enough is its child.
LEMMA HasChildHere ==
  ASSUME TypeInv, NEW r \in Runner, pc[r] \in Working, item[r] \in Item,
         NEW k \in 1..Len(Rows(r)), Rows(r)[k] >= 2
  PROVE  HasChild(Subject(r), item[r])
  BY SubjectType, RowsType, Levels DEF TypeInv, Rows, HasChild

LEMMA SwallowedGrows ==
  ASSUME NEW r, Act(r)
  PROVE  swallowed \subseteq swallowed'
<1> USE DEF sessions
<1>1. CASE backfill(r)
  BY <1>1 DEF backfill
<1>2. CASE load_blob(r)
  BY <1>2 DEF load_blob
<1>3. CASE receipt_complete(r)
  BY <1>3 DEF receipt_complete
<1>4. CASE start_receipt(r)
  BY <1>4 DEF start_receipt
<1>5. CASE FindChild(r)
  BY <1>5 DEF FindChild
<1>6. CASE insert_memory(r)
  BY <1>6 DEF insert_memory
<1>7. CASE set_memory_scope_kind(r)
  BY <1>7 DEF set_memory_scope_kind
<1>8. CASE apply_memory_governance(r)
  BY <1>8 DEF apply_memory_governance
<1>9. CASE append_memory_ledger(r)
  BY <1>9 DEF append_memory_ledger
<1>10. CASE IndexChild(r)
  BY <1>10 DEF IndexChild
<1>11. CASE complete_receipt(r)
  BY <1>11 DEF complete_receipt
<1>12. CASE FailStart(r)
  BY <1>12 DEF FailStart
<1>13. CASE FailMark(r)
  BY <1>13 DEF FailMark
<1>14. CASE uncompressed_candidates(r)
  BY <1>14 DEF uncompressed_candidates
<1>15. CASE mark_compressed(r)
  BY <1>15 DEF mark_compressed
<1>16. CASE Outline(r)
  BY <1>16 DEF Outline
<1>17. CASE ChildIsBorn(r)
  BY <1>17 DEF ChildIsBorn
<1>18. CASE ChildIsTagged(r)
  BY <1>18 DEF ChildIsTagged
<1>19. CASE persist_procedure(r)
  BY <1>19 DEF persist_procedure
<1>20. CASE store_session_transcript(r)
  BY <1>20 DEF store_session_transcript
<1>21. CASE persist_memory_skim(r)
  BY <1>21 DEF persist_memory_skim
<1>22. CASE record_compression(r)
  BY <1>22 DEF record_compression
<1>23. CASE StatementFails(r)
  BY <1>23 DEF StatementFails
<1>24. CASE SoftFailure(r)
  BY <1>24 DEF SoftFailure, PassOver, place
<1>25. CASE Crash(r)
  BY <1>25 DEF Crash
<1> QED BY Acts, <1>1, <1>2, <1>3, <1>4, <1>5, <1>6, <1>7, <1>8, <1>9, <1>10, <1>11, <1>12, <1>13,
           <1>14, <1>15, <1>16, <1>17, <1>18, <1>19, <1>20, <1>21, <1>22, <1>23, <1>24, <1>25

\* Which statements complete a receipt.
LEMMA ReceiptWrites ==
  ASSUME TypeOK, NEW r, Act(r)
  PROVE  \A t \in Transcript :
           receipt'[t] = "complete" =>
             \/ receipt[t] = "complete"
             \/ t = Subject(r) /\ pc[r] \in {"complete", "record"}
<1> USE DEF Goto, rows
<1>0. DOMAIN receipt = Transcript
  BY DEF TypeOK
<1>1. CASE backfill(r)
  BY <1>0, <1>1 DEF backfill
<1>2. CASE load_blob(r)
  BY <1>0, <1>2 DEF load_blob
<1>3. CASE receipt_complete(r)
  BY <1>0, <1>3 DEF receipt_complete
<1>4. CASE start_receipt(r)
  BY <1>0, <1>4 DEF start_receipt
<1>5. CASE FindChild(r)
  BY <1>0, <1>5 DEF FindChild
<1>6. CASE insert_memory(r)
  BY <1>0, <1>6 DEF insert_memory
<1>7. CASE set_memory_scope_kind(r)
  BY <1>0, <1>7 DEF set_memory_scope_kind
<1>8. CASE apply_memory_governance(r)
  BY <1>0, <1>8 DEF apply_memory_governance
<1>9. CASE append_memory_ledger(r)
  BY <1>0, <1>9 DEF append_memory_ledger
<1>10. CASE IndexChild(r)
  BY <1>0, <1>10 DEF IndexChild
<1>11. CASE complete_receipt(r)
  BY <1>0, <1>11 DEF complete_receipt
<1>12. CASE FailStart(r)
  BY <1>0, <1>12 DEF FailStart
<1>13. CASE FailMark(r)
  BY <1>0, <1>13 DEF FailMark
<1>14. CASE uncompressed_candidates(r)
  BY <1>0, <1>14 DEF uncompressed_candidates
<1>15. CASE mark_compressed(r)
  BY <1>0, <1>15 DEF mark_compressed
<1>16. CASE Outline(r)
  BY <1>0, <1>16 DEF Outline
<1>17. CASE ChildIsBorn(r)
  BY <1>0, <1>17 DEF ChildIsBorn
<1>18. CASE ChildIsTagged(r)
  BY <1>0, <1>18 DEF ChildIsTagged
<1>19. CASE persist_procedure(r)
  BY <1>0, <1>19 DEF persist_procedure
<1>20. CASE store_session_transcript(r)
  BY <1>0, <1>20 DEF store_session_transcript
<1>21. CASE persist_memory_skim(r)
  BY <1>0, <1>21 DEF persist_memory_skim
<1>22. CASE record_compression(r)
  BY <1>0, <1>22 DEF record_compression
<1>23. CASE StatementFails(r)
  BY <1>0, <1>23 DEF StatementFails
<1>24. CASE SoftFailure(r)
  BY <1>0, <1>24 DEF SoftFailure
<1>25. CASE Crash(r)
  BY <1>0, <1>25 DEF Crash
<1> QED BY Acts, <1>1, <1>2, <1>3, <1>4, <1>5, <1>6, <1>7, <1>8, <1>9, <1>10, <1>11, <1>12, <1>13,
           <1>14, <1>15, <1>16, <1>17, <1>18, <1>19, <1>20, <1>21, <1>22, <1>23, <1>24, <1>25

\* In terms of the rows themselves, with the subject named.
LEMMA BehindAs ==
  ASSUME NEW r \in Runner, NEW t, t = Subject(r), NEW n, n = item[r]
  PROVE  BehindAt(r) <=>
         /\ pc[r] \in {"find", "insert", "kind", "govern", "ledger", "index"} => Done(t, n)
         /\ pc[r] = "complete" => Done(t, Items + 1)
         /\ pc[r] \in {"birth", "tag", "adopt"} /\ t \notin swallowed => Done(t, n)
         /\ pc[r] \in {"transcript", "spans", "record"} /\ t \notin swallowed => Done(t, Items + 1)
  BY DEF BehindAt

LEMMA BehindAsNext ==
  ASSUME NEW r \in Runner, NEW t, t = Subject(r)', NEW n, n = item'[r],
         pc'[r] \in {"find", "insert", "kind", "govern", "ledger", "index"} => Done(t, n)',
         pc'[r] = "complete" => Done(t, Items + 1)',
         pc'[r] \in {"birth", "tag", "adopt"} /\ t \notin swallowed' => Done(t, n)',
         pc'[r] \in {"transcript", "spans", "record"} /\ t \notin swallowed' => Done(t, Items + 1)'
  PROVE  BehindAt(r)'
  BY DEF BehindAt, Done, HasChild

\* A runner that keeps its item, in the same stretch of the code, has as much behind it.
\* A runner that keeps its item, in the same stretch of the code, has as much behind it.
LEMMA BehindStands ==
  ASSUME TypeInv, Grown, NEW s \in Runner, BehindAt(s), swallowed \subseteq swallowed',
         todo'[s] = todo[s], item'[s] = item[s],
         pc'[s] = pc[s] \/ SameStretch(s)
  PROVE  BehindAt(s)'
<1>1. CASE pc[s] \in Working
  <2>1. Subject(s) \in Transcript /\ Subject(s)' = Subject(s)
    BY <1>1, SubjectType DEF TypeInv, Subject
  <2>2. PICK t \in Transcript : t = Subject(s) /\ t = Subject(s)'
    BY <2>1
  <2>3. PICK n : n = item[s] /\ n = item'[s]
    OBVIOUS
  <2>4. \A m : Done(t, m) => Done(t, m)'
    BY DoneStays
  <2>5. /\ pc[s] \in {"find", "insert", "kind", "govern", "ledger", "index"} => Done(t, n)
        /\ pc[s] = "complete" => Done(t, Items + 1)
        /\ pc[s] \in {"birth", "tag", "adopt"} /\ t \notin swallowed => Done(t, n)
        /\ pc[s] \in {"transcript", "spans", "record"} /\ t \notin swallowed => Done(t, Items + 1)
    BY <2>2, <2>3, BehindAs
  <2>6. /\ pc'[s] \in {"find", "insert", "kind", "govern", "ledger", "index"} => Done(t, n)'
        /\ pc'[s] = "complete" => Done(t, Items + 1)'
        /\ pc'[s] \in {"birth", "tag", "adopt"} /\ t \notin swallowed' => Done(t, n)'
        /\ pc'[s] \in {"transcript", "spans", "record"} /\ t \notin swallowed'
             => Done(t, Items + 1)'
    BY <2>4, <2>5 DEF SameStretch
  <2> QED BY <2>2, <2>3, <2>6, BehindAsNext
<1>2. CASE pc[s] \notin Working
  <2>1. pc'[s] = pc[s]
    BY <1>2, Points DEF SameStretch
  <2> QED BY <1>2, <2>1, Points DEF BehindAt
<1> QED BY <1>1, <1>2

LEMMA DoneNextNext ==
  ASSUME NEW t, NEW j \in Item, Done(t, j)', HasChild(t, j)'
  PROVE  Done(t, j + 1)'
<1>1. \A i \in Item : i < j + 1 => i < j \/ i = j
  BY ConstantsAssumption DEF Item
<1> QED BY <1>1 DEF Done, HasChild

LEMMA BehindStep ==
  ASSUME TypeInv, NEW r \in Runner, BehindAt(r), Act(r)
  PROVE  BehindAt(r)'
<1> USE Points DEF Goto, place, sessions, rows
<1>0. /\ Shape /\ PlacedAt(r) /\ Grown /\ swallowed \subseteq swallowed'
      /\ Items \in Nat /\ Item = 1..Items
  BY TypeParts, RowsGrow, SwallowedGrows, ConstantsAssumption DEF TypeInv, Placed, Item
<1>p. DOMAIN pc = Runner /\ DOMAIN item = Runner
  BY <1>0 DEF Shape
<1>a. ASSUME pc'[r] \in {"idle", "sessions", "load", "check", "start", "fail", "mark_failed",
                         "mark", "outline"}
      PROVE  BehindAt(r)'
  BY <1>a DEF BehindAt
<1>b. ASSUME UNCHANGED <<todo, item>>, SameStretch(r)
      PROVE  BehindAt(r)'
  <2>1. todo'[r] = todo[r] /\ item'[r] = item[r]
    BY <1>b
  <2> QED BY <1>0, <1>b, <2>1, BehindStands
<1>c. ASSUME UNCHANGED todo, pc[r] \in Working,
             \/ item'[r] = 1 /\ pc'[r] \in {"find", "birth"}
             \/ Items = 0 /\ pc'[r] \in {"complete", "transcript"}
      PROVE  BehindAt(r)'
  <2>1. \A t : Done(t, 1)' /\ (Items = 0 => Done(t, Items + 1)')
    BY <1>0 DEF Done
  <2>2. PICK t : t = Subject(r)'
    OBVIOUS
  <2>3. PICK n : n = item'[r]
    OBVIOUS
  <2> QED BY <1>c, <2>1, <2>2, <2>3, BehindAsNext
<1>d. ASSUME UNCHANGED todo, pc[r] \in Working, item[r] \in Item,
             Done(Subject(r), item[r]), HasChild(Subject(r), item[r]), NextItem(r)
      PROVE  BehindAt(r)'
  <2>1. PICK t \in Transcript : t = Subject(r) /\ t = Subject(r)'
    BY <1>d, SubjectType DEF TypeInv, Subject
  <2>2. PICK n \in Item : n = item[r]
    BY <1>d
  <2>3. Done(t, n + 1)
    BY <1>d, <2>1, <2>2, DoneNext
  <2>4. Done(t, n + 1)'
    BY <1>0, <2>3, DoneStays
  <2>5. \/ n = Items /\ pc'[r] = "complete" /\ item'[r] = n
        \/ pc'[r] = "find" /\ item'[r] = n + 1
    BY <1>p, <1>d, <2>2 DEF NextItem
  <2>6. PICK m : m = item'[r]
    OBVIOUS
  <2> QED BY <2>1, <2>4, <2>5, <2>6, BehindAsNext
<1>e. ASSUME UNCHANGED todo, pc[r] \in {"birth", "adopt"}, NextBirth(r),
             \/ Subject(r) \in swallowed'
             \/ \E t \in Transcript, n \in Item :
                  t = Subject(r) /\ n = item[r] /\ HasChild(t, n)'
      PROVE  BehindAt(r)'
  <2>1. PICK t \in Transcript : t = Subject(r) /\ t = Subject(r)'
    BY <1>e, SubjectType DEF TypeInv, Subject
  <2>2. PICK n \in Item : n = item[r]
    BY <1>0, <1>e DEF PlacedAt
  <2>3. \/ n = Items /\ pc'[r] = "transcript"
        \/ pc'[r] = "birth" /\ item'[r] = n + 1
    BY <1>p, <1>e, <2>2 DEF NextBirth
  <2>4. t \notin swallowed' => Done(t, n)'
    <3>1. t \notin swallowed' => Done(t, n)
      BY <1>0, <1>e, <2>1, <2>2, BehindAs
    <3> QED BY <1>0, <3>1, DoneStays
  <2>5. t \notin swallowed' => Done(t, n + 1)'
    <3>1. t \notin swallowed' => HasChild(t, n)'
      <4>1. CASE Subject(r) \in swallowed'
        BY <2>1, <4>1
      <4>2. ASSUME NEW t2 \in Transcript, NEW n2 \in Item,
                   t2 = Subject(r), n2 = item[r], HasChild(t2, n2)'
            PROVE  HasChild(t, n)'
        <5>1. t2 = t /\ n2 = n
          BY <2>1, <2>2, <4>2
        <5> QED BY <4>2, <5>1
      <4> QED BY <1>e, <4>1, <4>2
    <3> QED BY <2>4, <3>1, DoneNextNext
  <2>6. PICK m : m = item'[r]
    OBVIOUS
  <2> QED BY <2>1, <2>3, <2>5, <2>6, BehindAsNext
<1>1. CASE backfill(r)
  BY <1>p, <1>a, <1>1 DEF backfill
<1>2. CASE load_blob(r)
  BY <1>p, <1>a, <1>2 DEF load_blob
<1>3. CASE receipt_complete(r)
  BY <1>p, <1>a, <1>3 DEF receipt_complete, NextCandidate
<1>4. CASE start_receipt(r)
  BY <1>p, <1>c, <1>4 DEF start_receipt
<1>5. CASE FindChild(r)
  <2>1. pc[r] = "find" /\ item[r] \in Item /\ UNCHANGED todo
    BY <1>0, <1>5 DEF FindChild, PlacedAt
  <2>2. CASE UNCHANGED item /\ pc'[r] \in {"insert", "kind"}
    BY <1>b, <2>1, <2>2 DEF SameStretch
  <2>3. ASSUME NEW k \in 1..Len(Rows(r)), Rows(r)[k] >= Governed, NextItem(r)
        PROVE  BehindAt(r)'
    <3>1. Rows(r)[k] \in 0..5
      BY <2>1, RowsType, SubjectType DEF TypeInv, Rows
    <3>2. HasChild(Subject(r), item[r])
      BY <2>1, <2>3, <3>1, HasChildHere, Levels
    <3>3. Done(Subject(r), item[r])
      BY <2>1 DEF BehindAt
    <3> QED BY <1>d, <2>1, <2>3, <3>2, <3>3
  <2>4. \/ UNCHANGED item /\ pc'[r] \in {"insert", "kind"}
        \/ NextItem(r) /\ \E k \in 1..Len(Rows(r)) : Rows(r)[k] >= Governed
    BY <1>p, <1>5, <2>1, FindChildCases DEF TypeInv
  <2> QED BY <2>2, <2>3, <2>4
<1>6. CASE insert_memory(r)
  BY <1>p, <1>b, <1>6 DEF insert_memory, SameStretch
<1>7. CASE set_memory_scope_kind(r)
  BY <1>p, <1>b, <1>7 DEF set_memory_scope_kind, SameStretch
<1>8. CASE apply_memory_governance(r)
  BY <1>p, <1>b, <1>8 DEF apply_memory_governance, SameStretch
<1>9. CASE append_memory_ledger(r)
  BY <1>p, <1>b, <1>9 DEF append_memory_ledger, SameStretch
<1>10. CASE IndexChild(r)
  <2>1. /\ pc[r] = "index" /\ item[r] \in Item /\ UNCHANGED todo /\ NextItem(r)
        /\ child[r] \in 1..Len(Rows(r)) /\ Rows(r)[child[r]] >= Governed
    BY <1>0, <1>10 DEF IndexChild, PlacedAt
  <2>2. Rows(r)[child[r]] \in 0..5
    BY <2>1, RowsType, SubjectType DEF TypeInv, Rows
  <2>3. HasChild(Subject(r), item[r])
    BY <2>1, <2>2, HasChildHere, Levels
  <2>4. Done(Subject(r), item[r])
    BY <2>1 DEF BehindAt
  <2> QED BY <1>d, <2>1, <2>3, <2>4
<1>11. CASE complete_receipt(r)
  BY <1>p, <1>a, <1>11 DEF complete_receipt, NextCandidate
<1>12. CASE FailStart(r)
  BY <1>p, <1>a, <1>12 DEF FailStart
<1>13. CASE FailMark(r)
  BY <1>p, <1>a, <1>13 DEF FailMark, NextCandidate
<1>14. CASE uncompressed_candidates(r)
  BY <1>p, <1>a, <1>14 DEF uncompressed_candidates
<1>15. CASE mark_compressed(r)
  BY <1>p, <1>a, <1>15 DEF mark_compressed
<1>16. CASE Outline(r)
  <2>1. item[r] = 0 /\ pc[r] = "outline" /\ NextBirth(r) /\ UNCHANGED todo
    BY <1>0, <1>16 DEF Outline, PlacedAt
  <2> QED BY <1>0, <1>p, <1>c, <2>1 DEF NextBirth
<1>17. CASE ChildIsBorn(r)
  BY <1>p, <1>b, <1>17 DEF ChildIsBorn, SameStretch
<1>18. CASE ChildIsTagged(r)
  BY <1>p, <1>b, <1>18 DEF ChildIsTagged, SameStretch
<1>19. CASE persist_procedure(r)
  <2>1. /\ pc[r] = "adopt" /\ item[r] \in Item /\ UNCHANGED todo /\ NextBirth(r)
        /\ child[r] \in 1..Len(Rows(r)) /\ Raise(r, 2)
    BY <1>0, <1>19, Levels DEF persist_procedure, PlacedAt
  <2>2. PICK t \in Transcript, n \in Item, k \in {child[r]} : t = Subject(r) /\ n = item[r]
    BY <2>1, SubjectType DEF TypeInv
  <2>3. /\ Rows(r) = children[t][n] /\ Len(children[t][n]) \in Nat
        /\ children[t][n][k] \in 0..5 /\ k \in 1..Len(children[t][n])
    BY <2>1, <2>2, RowsType DEF TypeInv, Rows
  <2>4. /\ Len(children'[t][n]) = Len(children[t][n])
        /\ children'[t][n][k] = IF children[t][n][k] < 2 THEN 2 ELSE children[t][n][k]
    BY <2>1, <2>2, <2>3, RaiseFacts DEF TypeInv
  <2>5. children'[t][n] \in Seq(0..5)
    BY <1>0, Levels DEF Grown
  <2>6. k \in DOMAIN children'[t][n] /\ children'[t][n][k] >= 2
    BY <2>3, <2>4, <2>5
  <2>7. HasChild(t, n)'
    BY <2>6, Levels DEF HasChild
  <2> QED BY <1>e, <2>1, <2>2, <2>7
<1>20. CASE store_session_transcript(r)
  BY <1>p, <1>b, <1>20 DEF store_session_transcript, SameStretch
<1>21. CASE persist_memory_skim(r)
  BY <1>p, <1>b, <1>21 DEF persist_memory_skim, SameStretch
<1>22. CASE record_compression(r)
  BY <1>p, <1>a, <1>22 DEF record_compression, NextSession
<1>23. CASE StatementFails(r)
  BY <1>p, <1>a, <1>23 DEF StatementFails
<1>24. CASE SoftFailure(r)
  <2>0. PassOver(r)
    BY <1>24 DEF SoftFailure
  <2>1. CASE /\ NextBirth(r) /\ pc[r] \in {"birth", "adopt"} /\ UNCHANGED todo
             /\ Subject(r) \in swallowed'
    BY <1>e, <2>1
  <2>2. CASE NextBirth(r) /\ pc[r] = "outline" /\ UNCHANGED todo
    <3>1. item[r] = 0
      BY <1>0, <2>2 DEF PlacedAt
    <3> QED BY <1>0, <1>p, <1>c, <2>2, <3>1 DEF NextBirth
  <2>3. CASE /\ Goto(r, "tag", "adopt") \/ Goto(r, "spans", "record")
             /\ UNCHANGED <<todo, item>>
    <3>1. SameStretch(r)
      BY <1>p, <2>3 DEF SameStretch
    <3> QED BY <1>b, <2>3, <3>1
  <2>4. CASE NextSession(r)
    BY <1>p, <1>a, <2>4 DEF NextSession
  <2> QED BY <2>0, <2>1, <2>2, <2>3, <2>4 DEF PassOver
<1>25. CASE Crash(r)
  BY <1>p, <1>a, <1>25 DEF Crash
<1> QED BY Acts, <1>1, <1>2, <1>3, <1>4, <1>5, <1>6, <1>7, <1>8, <1>9, <1>10, <1>11, <1>12, <1>13,
           <1>14, <1>15, <1>16, <1>17, <1>18, <1>19, <1>20, <1>21, <1>22, <1>23, <1>24, <1>25

LEMMA InitReceiptInv == Init => ReceiptInv
<1> SUFFICES ASSUME Init PROVE ReceiptInv
  OBVIOUS
<1>1. TypeInv
  BY InitTypeInv
<1>2. Behind
  BY DEF Init, Behind, BehindAt
<1>3. CompleteMeansGoverned
  BY ConstantsAssumption DEF Init, CompleteMeansGoverned
<1> QED BY <1>1, <1>2, <1>3 DEF ReceiptInv

LEMMA NextReceiptInv ==
  ASSUME ReceiptInv, [Next]_vars
  PROVE  ReceiptInv'
<1>0. TypeInv /\ TypeInv'
  BY NextTypeInv DEF ReceiptInv
<1>1. ASSUME NEW r \in Runner, Act(r) PROVE Behind' /\ CompleteMeansGoverned'
  <2>1. Grown /\ swallowed \subseteq swallowed'
    BY <1>0, <1>1, RowsGrow, SwallowedGrows
  <2>2. BehindAt(r)'
    BY <1>0, <1>1, BehindStep DEF ReceiptInv, Behind
  <2>3. ASSUME NEW s \in Runner \ {r} PROVE BehindAt(s)'
    <3>1. BehindAt(s)
      BY DEF ReceiptInv, Behind
    <3>2. pc'[s] = pc[s] /\ todo'[s] = todo[s] /\ item'[s] = item[s]
      BY <1>0, <1>1, OthersStay DEF TypeInv
    <3> QED BY <1>0, <2>1, <3>1, <3>2, BehindStands
  <2>4. ASSUME NEW t \in Transcript \ swallowed', receipt'[t] = "complete"
        PROVE  Done(t, Items + 1)
    <3>1. t \notin swallowed
      BY <2>1
    <3>2. CASE receipt[t] = "complete"
      BY <3>1, <3>2 DEF ReceiptInv, CompleteMeansGoverned, Done
    <3>3. CASE t = Subject(r) /\ pc[r] \in {"complete", "record"}
      BY <3>1, <3>3 DEF ReceiptInv, Behind, BehindAt
    <3> QED BY <1>0, <1>1, <2>4, <3>2, <3>3, ReceiptWrites DEF TypeInv
  <2>5. ASSUME NEW t \in Transcript \ swallowed', receipt'[t] = "complete", NEW i \in Item
        PROVE  HasChild(t, i)'
    <3>1. Done(t, Items + 1)'
      BY <1>0, <2>1, <2>4, <2>5, DoneStays
    <3>2. i < Items + 1
      BY ConstantsAssumption DEF Item
    <3> QED BY <3>1, <3>2 DEF Done, HasChild
  <2>6. Behind'
    BY <2>2, <2>3 DEF Behind
  <2>7. CompleteMeansGoverned'
    BY <2>5 DEF CompleteMeansGoverned, HasChild
  <2> QED BY <2>6, <2>7
<1>2. CASE UNCHANGED vars
  <2> USE <1>2 DEF vars, sessions, rows, place
  <2>1. ASSUME NEW t, NEW i PROVE HasChild(t, i)' = HasChild(t, i)
    BY DEF HasChild
  <2>2. CompleteMeansGoverned'
    BY <2>1 DEF ReceiptInv, CompleteMeansGoverned, HasChild
  <2>3. ASSUME NEW r \in Runner PROVE BehindAt(r)'
    <3>1. BehindAt(r) /\ todo'[r] = todo[r] /\ item'[r] = item[r] /\ pc'[r] = pc[r]
      BY DEF ReceiptInv, Behind
    <3>2. Subject(r)' = Subject(r)
      BY DEF Subject
    <3> QED BY <3>1, <3>2 DEF BehindAt, Done, HasChild
  <2> QED BY <1>0, <2>2, <2>3 DEF ReceiptInv, Behind
<1> QED BY <1>0, <1>1, <1>2 DEF Next, Act, ReceiptInv

\* For any number of runners, failures and crashes: a receipt is complete only
\* when every extracted item has a child of its narrative, unless the compression
\* of the session logged the loss of one and went on (recovery.rs
\* backfill, complete_receipt, record_compression).
THEOREM CompletesGoverned == Spec => []CompleteMeansGoverned
<1>1. Init => ReceiptInv
  BY InitReceiptInv
<1>2. ReceiptInv /\ [Next]_vars => ReceiptInv'
  BY NextReceiptInv
<1>3. ReceiptInv => CompleteMeansGoverned
  BY DEF ReceiptInv
<1> QED BY <1>1, <1>2, <1>3, PTL DEF Spec

-----------------------------------------------------------------------------
(* Chunks and transcripts, one runner at a time. *)

SoleRunner == \A r, s \in Runner : r = s

(***************************************************************************)
(* The sessions a runner is to compress: each once, and still open but for *)
(* the one in hand.  Another runner could compress them meanwhile.         *)
(***************************************************************************)
AloneAt(r) ==
  pc[r] \in Graduate =>
    /\ \A a, b \in 1..Len(todo[r]) : todo[r][a] = todo[r][b] => a = b
    /\ \A k \in 1..Len(todo[r]) : k > 1 => archive[todo[r][k]] = "open"
    /\ pc[r] = "mark" => archive[Subject(r)] = "open"
    /\ pc[r] = "spans" => archive[Subject(r)] = "archived"

SpansInv == TypeInv /\ SpansResolve /\ \A r \in Runner : AloneAt(r)

\* The query for open sessions starts the work.
LEMMA AloneAtStart ==
  ASSUME TypeInv, NEW r \in Runner, uncompressed_candidates(r)
  PROVE  AloneAt(r)'
<1> DEFINE T == {t \in Transcript : archive[t] = "open"}
           q == FirstOf(T, left[r])
<1>1. T \in SUBSET Transcript /\ left[r] \in Nat /\ DOMAIN todo = Runner /\ DOMAIN pc = Runner
  BY DEF TypeInv, TypeOK
<1>2. /\ q \in Seq(Transcript) /\ \A k \in 1..Len(q) : q[k] \in T
      /\ \A k, l \in 1..Len(q) : q[k] = q[l] => k = l
  BY <1>1, FirstOfType
<1>3. /\ todo'[r] = q /\ UNCHANGED archive
      /\ pc'[r] = IF q = <<>> THEN "idle" ELSE "mark"
  BY <1>1 DEF uncompressed_candidates, Goto, sessions
<1> HIDE DEF q
<1>4. \A k \in 1..Len(q) : archive[q[k]] = "open"
  BY <1>2
<1> HIDE DEF T
<1>5. q # <<>> => Len(q) \in Nat \ {0} /\ Head(q) = q[1]
  BY <1>2, EmptyIff
<1>6. q # <<>> => archive[Subject(r)'] = "open"
  BY <1>3, <1>4, <1>5 DEF Subject
<1> QED BY <1>2, <1>3, <1>4, <1>6, Points DEF AloneAt, Subject

\* The runner turns to its next session.
LEMMA AloneAtNext ==
  ASSUME TypeInv, NEW r \in Runner, pc[r] \in Graduate, AloneAt(r), NextSession(r),
         UNCHANGED archive
  PROVE  AloneAt(r)'
<1> DEFINE q == Tail(todo[r])
<1>1. todo[r] \in Seq(Transcript) /\ todo[r] # <<>> /\ Len(todo[r]) \in Nat \ {0}
  BY SubjectType, Points DEF TypeInv
<1>2. /\ q \in Seq(Transcript) /\ Len(q) = Len(todo[r]) - 1
      /\ \A k \in 1..Len(q) : q[k] = todo[r][k + 1]
  BY <1>1, HeadTailProperties
<1>3. todo'[r] = q /\ pc'[r] = IF Len(todo[r]) > 1 THEN "mark" ELSE "idle"
  BY DEF TypeInv, TypeOK, NextSession
<1> HIDE DEF q
<1>4. \A k \in 1..Len(q) : k + 1 \in 1..Len(todo[r]) /\ k + 1 > 1 /\ k \in Nat
  BY <1>1, <1>2
<1>5. \A k \in 1..Len(q) : archive[q[k]] = "open"
  BY <1>2, <1>4 DEF AloneAt
<1>6. \A a, b \in 1..Len(q) : q[a] = q[b] => a = b
  <2> TAKE a, b \in 1..Len(q)
  <2>1. todo[r][a + 1] = todo[r][b + 1] => a + 1 = b + 1
    BY <1>4 DEF AloneAt
  <2> QED BY <1>2, <1>4, <2>1
<1>7. Len(todo[r]) > 1 => archive[Subject(r)'] = "open"
  <2>1. Len(todo[r]) > 1 => 1 \in 1..Len(q) /\ q # <<>>
    BY <1>1, <1>2, EmptyIff
  <2>2. q # <<>> => Head(q) = q[1]
    BY <1>2
  <2> QED BY <1>3, <1>5, <2>1, <2>2 DEF Subject
<1> QED BY <1>3, <1>5, <1>6, <1>7, Points DEF AloneAt, Subject

\* The runner stays with its session.
LEMMA AloneAtSame ==
  ASSUME TypeInv, NEW r \in Runner, pc[r] \in Graduate, AloneAt(r), todo'[r] = todo[r],
         pc'[r] # "mark",
         \A t \in Transcript : t # Subject(r) => archive'[t] = archive[t],
         pc'[r] = "spans" => archive'[Subject(r)] = "archived"
  PROVE  AloneAt(r)'
<1>1. /\ todo[r] \in Seq(Transcript) /\ Subject(r) = todo[r][1]
      /\ Len(todo[r]) \in Nat \ {0} /\ Subject(r)' = Subject(r)
  BY SubjectType, Points DEF TypeInv, Subject
<1>2. \A k \in 1..Len(todo[r]) : k > 1 => todo[r][k] # Subject(r) /\ todo[r][k] \in Transcript
  <2>1. 1 \in 1..Len(todo[r])
    BY <1>1
  <2>2. \A k \in 1..Len(todo[r]) : todo[r][k] = todo[r][1] => k = 1
    BY <2>1 DEF AloneAt
  <2> QED BY <1>1, <2>2
<1>3. \A k \in 1..Len(todo[r]) : k > 1 => archive'[todo[r][k]] = "open"
  BY <1>2 DEF AloneAt
<1> QED BY <1>1, <1>3 DEF AloneAt

LEMMA SpansStep ==
  ASSUME TypeInv, NEW r \in Runner, AloneAt(r), SpansResolve, Act(r)
  PROVE  SpansResolve' /\ AloneAt(r)'
<1> USE Points DEF Goto, place, sessions, rows
<1>0. Shape /\ DOMAIN pc = Runner /\ DOMAIN archive = Transcript /\ DOMAIN skim = Transcript
  BY TypeParts DEF TypeInv, Shape
<1>s. pc[r] \in Working => Subject(r) \in Transcript
  BY SubjectType DEF TypeInv
<1>a. ASSUME pc'[r] \notin Graduate, UNCHANGED <<archive, skim>>
      PROVE  SpansResolve' /\ AloneAt(r)'
  BY <1>a DEF SpansResolve, AloneAt
<1>b. ASSUME pc[r] \in Graduate, UNCHANGED todo, pc'[r] \notin {"mark", "spans"}, UNCHANGED archive,
             \A t \in Transcript :
               skim'[t] = skim[t] \/ skim'[t] = "plain" \/ archive[t] = "archived"
      PROVE  SpansResolve' /\ AloneAt(r)'
  <2>1. AloneAt(r)'
    BY <1>b, AloneAtSame
  <2> QED BY <1>b, <2>1 DEF SpansResolve
<1>c. ASSUME pc[r] \in Graduate, NextSession(r), UNCHANGED <<archive, skim>>
      PROVE  SpansResolve' /\ AloneAt(r)'
  BY <1>c, AloneAtNext DEF SpansResolve
<1>1. CASE backfill(r)
  BY <1>0, <1>a, <1>1 DEF backfill
<1>2. CASE load_blob(r)
  BY <1>0, <1>a, <1>2 DEF load_blob
<1>3. CASE receipt_complete(r)
  BY <1>0, <1>a, <1>3 DEF receipt_complete, NextCandidate
<1>4. CASE start_receipt(r)
  BY <1>0, <1>a, <1>4 DEF start_receipt
<1>5. CASE FindChild(r)
  BY <1>0, <1>a, <1>5 DEF FindChild, NextItem
<1>6. CASE insert_memory(r)
  BY <1>0, <1>a, <1>6 DEF insert_memory
<1>7. CASE set_memory_scope_kind(r)
  BY <1>0, <1>a, <1>7 DEF set_memory_scope_kind
<1>8. CASE apply_memory_governance(r)
  BY <1>0, <1>a, <1>8 DEF apply_memory_governance
<1>9. CASE append_memory_ledger(r)
  BY <1>0, <1>a, <1>9 DEF append_memory_ledger
<1>10. CASE IndexChild(r)
  BY <1>0, <1>a, <1>10 DEF IndexChild, NextItem
<1>11. CASE complete_receipt(r)
  BY <1>0, <1>a, <1>11 DEF complete_receipt, NextCandidate
<1>12. CASE FailStart(r)
  BY <1>0, <1>a, <1>12 DEF FailStart
<1>13. CASE FailMark(r)
  BY <1>0, <1>a, <1>13 DEF FailMark, NextCandidate
<1>14. CASE uncompressed_candidates(r)
  BY <1>14, AloneAtStart DEF uncompressed_candidates, SpansResolve
<1>15. CASE mark_compressed(r)
  <2>1. /\ pc[r] = "mark" /\ pc'[r] = "outline" /\ UNCHANGED <<todo, skim>>
        /\ archive' = [archive EXCEPT ![Subject(r)] = "compressed"]
    BY <1>0, <1>15 DEF mark_compressed
  <2>2. AloneAt(r)'
    BY <1>0, <2>1, AloneAtSame
  <2>3. archive[Subject(r)] = "open"
    BY <2>1 DEF AloneAt
  <2> QED BY <1>0, <1>s, <2>1, <2>2, <2>3 DEF SpansResolve
<1>16. CASE Outline(r)
  <2>1. /\ pc[r] \in Graduate /\ UNCHANGED <<todo, archive>>
        /\ pc'[r] \notin {"mark", "spans"}
    BY <1>0, <1>16 DEF Outline, NextBirth
  <2>2. \A t \in Transcript : skim'[t] = skim[t] \/ skim'[t] = "plain"
    BY <1>0, <1>16 DEF Outline
  <2> QED BY <1>b, <2>1, <2>2
<1>17. CASE ChildIsBorn(r)
  <2>1. /\ pc[r] \in Graduate /\ UNCHANGED <<todo, archive>>
        /\ pc'[r] \notin {"mark", "spans"}
    BY <1>0, <1>17 DEF ChildIsBorn, NextBirth
  <2>2. \A t \in Transcript : skim'[t] = skim[t] \/ skim'[t] = "plain"
    BY <1>0, <1>17 DEF ChildIsBorn
  <2> QED BY <1>b, <2>1, <2>2
<1>18. CASE ChildIsTagged(r)
  <2>1. /\ pc[r] \in Graduate /\ UNCHANGED <<todo, archive>>
        /\ pc'[r] \notin {"mark", "spans"}
    BY <1>0, <1>18 DEF ChildIsTagged, NextBirth
  <2>2. \A t \in Transcript : skim'[t] = skim[t] \/ skim'[t] = "plain"
    BY <1>0, <1>18 DEF ChildIsTagged
  <2> QED BY <1>b, <2>1, <2>2
<1>19. CASE persist_procedure(r)
  <2>1. /\ pc[r] \in Graduate /\ UNCHANGED <<todo, archive>>
        /\ pc'[r] \notin {"mark", "spans"}
    BY <1>0, <1>19 DEF persist_procedure, NextBirth
  <2>2. \A t \in Transcript : skim'[t] = skim[t] \/ skim'[t] = "plain"
    BY <1>0, <1>19 DEF persist_procedure
  <2> QED BY <1>b, <2>1, <2>2
<1>20. CASE store_session_transcript(r)
  <2>1. /\ pc[r] = "transcript" /\ pc'[r] = "spans" /\ UNCHANGED <<todo, skim>>
        /\ archive' = [archive EXCEPT ![Subject(r)] = "archived"]
    BY <1>0, <1>20 DEF store_session_transcript
  <2>2. AloneAt(r)'
    BY <1>0, <1>s, <2>1, AloneAtSame
  <2> QED BY <1>0, <1>s, <2>1, <2>2 DEF SpansResolve
<1>21. CASE persist_memory_skim(r)
  <2>1. /\ pc[r] = "spans" /\ pc'[r] = "record" /\ UNCHANGED <<todo, archive>>
        /\ skim' = [skim EXCEPT ![Subject(r)] = "cited"]
    BY <1>0, <1>21 DEF persist_memory_skim
  <2>2. \A t \in Transcript : skim'[t] = skim[t] \/ archive[t] = "archived"
    BY <1>0, <1>s, <2>1 DEF AloneAt
  <2> QED BY <1>b, <2>1, <2>2
<1>22. CASE record_compression(r)
  BY <1>c, <1>22 DEF record_compression
<1>23. CASE StatementFails(r)
  BY <1>0, <1>a, <1>23 DEF StatementFails
<1>24. CASE SoftFailure(r)
  <2>0. PassOver(r) /\ pc[r] \in Graduate /\ UNCHANGED archive
    BY <1>24 DEF SoftFailure
  <2>1. CASE NextBirth(r) /\ UNCHANGED <<skim, todo>>
    BY <1>0, <1>b, <2>0, <2>1 DEF NextBirth
  <2>2. CASE Goto(r, "tag", "adopt") /\ UNCHANGED <<skim, todo>>
    BY <1>0, <1>b, <2>0, <2>2
  <2>3. CASE /\ Goto(r, "spans", "record") /\ UNCHANGED todo
             /\ skim' = [skim EXCEPT ![Subject(r)] = "torn"]
    <3>1. \A t \in Transcript : skim'[t] = skim[t] \/ archive[t] = "archived"
      BY <1>0, <1>s, <2>3 DEF AloneAt
    <3> QED BY <1>0, <1>b, <2>0, <2>3, <3>1
  <2>4. CASE NextSession(r) /\ UNCHANGED skim
    BY <1>c, <2>0, <2>4
  <2> QED BY <2>0, <2>1, <2>2, <2>3, <2>4 DEF PassOver
<1>25. CASE Crash(r)
  BY <1>0, <1>a, <1>25 DEF Crash
<1> QED BY Acts, <1>1, <1>2, <1>3, <1>4, <1>5, <1>6, <1>7, <1>8, <1>9, <1>10, <1>11, <1>12, <1>13,
           <1>14, <1>15, <1>16, <1>17, <1>18, <1>19, <1>20, <1>21, <1>22, <1>23, <1>24, <1>25

\* A chunk cites a transcript only once it is stored and the narrative refers to
\* it, whatever failed (compress.rs run, db.rs replace_memory_chunks), as long as
\* one backfill runs at a time.
THEOREM ChunksResolve == SoleRunner /\ Spec => []SpansResolve
<1> SUFFICES ASSUME SoleRunner PROVE Spec => []SpansResolve
  OBVIOUS
<1>1. Init => SpansInv
  <2> SUFFICES ASSUME Init PROVE SpansInv
    OBVIOUS
  <2>1. TypeInv
    BY InitTypeInv
  <2>2. SpansResolve /\ \A r \in Runner : AloneAt(r)
    BY Points, ConstantsAssumption DEF Init, SpansResolve, AloneAt
  <2> QED BY <2>1, <2>2 DEF SpansInv
<1>2. SpansInv /\ [Next]_vars => SpansInv'
  <2> SUFFICES ASSUME SpansInv, [Next]_vars PROVE SpansInv'
    OBVIOUS
  <2>1. TypeInv'
    BY NextTypeInv DEF SpansInv
  <2>2. ASSUME NEW r \in Runner, Act(r) PROVE SpansInv'
    <3>1. SpansResolve' /\ AloneAt(r)'
      BY <2>2, SpansStep DEF SpansInv
    <3>2. \A s \in Runner : s = r
      BY DEF SoleRunner
    <3> QED BY <2>1, <3>1, <3>2 DEF SpansInv
  <2>3. CASE UNCHANGED vars
    <3>1. SpansResolve'
      BY <2>3 DEF SpansInv, SpansResolve, vars, sessions
    <3>2. (\A r \in Runner : AloneAt(r))'
      BY <2>3 DEF SpansInv, AloneAt, Subject, vars, sessions, place
    <3> QED BY <2>1, <3>1, <3>2 DEF SpansInv
  <2> QED BY <2>2, <2>3 DEF Next, Act
<1>3. SpansInv => SpansResolve
  BY DEF SpansInv
<1> QED BY <1>1, <1>2, <1>3, PTL DEF Spec

-----------------------------------------------------------------------------
(* One child under a source_ref, one runner at a time. *)

Single ==
  \A t \in Transcript, i \in Item :
    \A k, l \in 1..Len(children[t][i]) :
      children[t][i][k] >= 3 /\ children[t][i][l] >= 3 => k = l

(***************************************************************************)
(* A runner that has not found a child under the source_ref is the one to  *)
(* write it: until then no row has it.                                     *)
(***************************************************************************)
UnclaimedAt(r) ==
  pc[r] \in {"insert", "kind", "govern"} =>
    \A k \in 1..Len(Rows(r)) : Rows(r)[k] < 3

ChildInv == TypeInv /\ Single /\ \A r \in Runner : UnclaimedAt(r)

LEMMA SingleStep ==
  ASSUME TypeInv, NEW r \in Runner, Single, UnclaimedAt(r), Act(r)
  PROVE  Single'
<1> SUFFICES ASSUME NEW t \in Transcript, NEW i \in Item,
                    NEW k \in 1..Len(children'[t][i]), NEW l \in 1..Len(children'[t][i]),
                    children'[t][i][k] >= 3, children'[t][i][l] >= 3
             PROVE  k = l
  BY DEF Single
<1>0. PlacedAt(r) /\ Len(children[t][i]) \in Nat
      /\ \A m \in 1..Len(children[t][i]) : children[t][i][m] \in 0..5
  BY RowsType DEF TypeInv, Placed
<1>1. ASSUME Len(children'[t][i]) = Len(children[t][i]),
             \A m \in 1..Len(children[t][i]) :
               children'[t][i][m] >= 3 => children[t][i][m] >= 3
      PROVE  k = l
  BY <1>1 DEF Single
<1>2. CASE UNCHANGED children
  BY <1>1, <1>2
<1>3. ASSUME NEW level \in 1..5, Raise(r, level),
             pc[r] \in {"kind", "govern", "ledger", "index", "tag", "adopt"},
             level >= 3 => pc[r] \in {"govern", "ledger", "index"}
      PROVE  k = l
  <2>1. /\ pc[r] \in Working /\ item[r] \in Item /\ child[r] \in 1..Len(Rows(r))
        /\ pc[r] \in {"ledger", "index"} => Rows(r)[child[r]] >= 3
    BY <1>0, <1>3, Points, Levels DEF PlacedAt
  <2>2. /\ Len(children'[t][i]) = Len(children[t][i])
        /\ \A m \in 1..Len(children[t][i]) :
             children'[t][i][m] =
               IF t = Subject(r) /\ i = item[r] /\ m = child[r] /\ children[t][i][m] < level
                 THEN level ELSE children[t][i][m]
    <3>1. /\ TypeOK /\ r \in Runner /\ pc[r] \in Working /\ item[r] \in Item
          /\ child[r] \in 1..Len(Rows(r)) /\ level \in 0..5 /\ Raise(r, level)
      BY <1>3, <2>1 DEF TypeInv
    <3>2. \A u \in Transcript, j \in Item :
            /\ Len(children'[u][j]) = Len(children[u][j])
            /\ \A m \in 1..Len(children[u][j]) :
                 children'[u][j][m] =
                   IF u = Subject(r) /\ j = item[r] /\ m = child[r] /\ children[u][j][m] < level
                     THEN level ELSE children[u][j][m]
      BY ONLY <3>1, RaiseFacts
    <3> QED BY <3>2, Zenon
  <2>3. CASE level < 3 \/ ~(t = Subject(r) /\ i = item[r])
    <3>1. ASSUME NEW m \in 1..Len(children[t][i]), children'[t][i][m] >= 3
          PROVE  children[t][i][m] >= 3
      <4>1. \/ children'[t][i][m] = children[t][i][m]
            \/ children'[t][i][m] = level /\ t = Subject(r) /\ i = item[r]
        BY <2>2
      <4>2. ~(level >= 3) \/ ~(t = Subject(r) /\ i = item[r])
        BY <2>3
      <4> QED BY <3>1, <4>1, <4>2
    <3> QED BY <1>1, <2>2, <3>1
  <2>4. CASE t = Subject(r) /\ i = item[r] /\ pc[r] \in {"ledger", "index"}
    <3>1. children[t][i][child[r]] >= 3
      BY <2>1, <2>4 DEF Rows
    <3>2. \A m \in 1..Len(children[t][i]) : children'[t][i][m] >= 3 => children[t][i][m] >= 3
      BY <1>0, <2>2, <3>1
    <3> QED BY <1>1, <2>2, <3>2
  <2>5. CASE t = Subject(r) /\ i = item[r] /\ pc[r] = "govern"
    <3>1. \A m \in 1..Len(children[t][i]) : children[t][i][m] < 3
      BY <2>5 DEF UnclaimedAt, Rows
    <3>2. ASSUME NEW m \in 1..Len(children[t][i]), m # child[r]
          PROVE  ~(children'[t][i][m] >= 3)
      <4>1. children'[t][i][m] = children[t][i][m]
        BY <2>2, <3>2
      <4>2. children[t][i][m] < 3 /\ children[t][i][m] \in 0..5
        BY <1>0, <3>1
      <4> QED BY ONLY SMTT(30), <4>1, <4>2
    <3> QED BY <2>2, <3>2
  <2> QED BY <1>3, <2>3, <2>4, <2>5
<1>4. CASE /\ pc[r] \in {"insert", "birth"}
           /\ children' = [children EXCEPT ![Subject(r)][item[r]] = Append(@, Bare)]
  <2>1. pc[r] \in Working /\ item[r] \in Item
    BY <1>0, <1>4, Points DEF PlacedAt
  <2>2. /\ \A m \in 1..Len(children[t][i]) : children'[t][i][m] = children[t][i][m]
        /\ \/ Len(children'[t][i]) = Len(children[t][i])
           \/ /\ Len(children'[t][i]) = Len(children[t][i]) + 1
              /\ children'[t][i][Len(children[t][i]) + 1] = 0
    BY ZenonT(60), <1>4, <2>1, AppendFacts DEF TypeInv
  <2>3. ASSUME NEW m \in 1..Len(children'[t][i]), children'[t][i][m] >= 3
        PROVE  m \in 1..Len(children[t][i])
    <3>1. m = Len(children[t][i]) + 1 => children'[t][i][m] # 0
      BY <2>3
    <3>2. m # Len(children[t][i]) + 1 \/ Len(children'[t][i]) = Len(children[t][i])
      BY <2>2, <3>1
    <3> QED BY SMTT(30), <1>0, <2>2, <3>2
  <2> QED BY <2>2, <2>3 DEF Single
<1> QED BY <1>2, <1>3, <1>4, RowWrites

LEMMA UnclaimedStep ==
  ASSUME TypeInv, NEW r \in Runner, UnclaimedAt(r), Act(r)
  PROVE  UnclaimedAt(r)'
<1> USE Points, Levels DEF Goto, place, sessions, rows
<1>0. Shape /\ DOMAIN pc = Runner /\ DOMAIN item = Runner /\ DOMAIN child = Runner /\ PlacedAt(r)
  BY TypeParts DEF TypeInv, Shape, Placed
<1>a. ASSUME pc'[r] \notin {"insert", "kind", "govern"} PROVE UnclaimedAt(r)'
  BY <1>a DEF UnclaimedAt
<1>1. CASE backfill(r)
  BY <1>0, <1>a, <1>1 DEF backfill
<1>2. CASE load_blob(r)
  BY <1>0, <1>a, <1>2 DEF load_blob
<1>3. CASE receipt_complete(r)
  BY <1>0, <1>a, <1>3 DEF receipt_complete, NextCandidate
<1>4. CASE start_receipt(r)
  BY <1>0, <1>a, <1>4 DEF start_receipt
<1>5. CASE FindChild(r)
  <2>1. pc[r] = "find" /\ item[r] \in Item /\ UNCHANGED <<todo, children>>
    BY <1>0, <1>5 DEF FindChild, PlacedAt
  <2>2. CASE pc' = [pc EXCEPT ![r] = "insert"] /\ UNCHANGED item
             /\ \A m \in 1..Len(Rows(r)) : Rows(r)[m] < 3
    BY <2>1, <2>2 DEF UnclaimedAt, Rows, Subject
  <2>3. CASE NextItem(r)
    BY <1>0, <1>a, <2>3 DEF NextItem
  <2>4. CASE pc' = [pc EXCEPT ![r] = "kind"] /\ UNCHANGED item
             /\ \A m \in 1..Len(Rows(r)) : Rows(r)[m] < 3
    BY <2>1, <2>4 DEF UnclaimedAt, Rows, Subject
  <2> QED BY <1>5, <2>1, <2>2, <2>3, <2>4, FindChildCases DEF TypeInv
<1>6. CASE insert_memory(r)
  <2>1. /\ pc[r] \in {"insert", "kind"} /\ pc[r] \in Working /\ item[r] \in Item
        /\ UNCHANGED <<todo, item>>
        /\ children' = [children EXCEPT ![Subject(r)][item[r]] = Append(@, Bare)]
    BY <1>0, <1>6 DEF insert_memory, PlacedAt
  <2>2. PICK t \in Transcript, i \in Item : t = Subject(r) /\ t = Subject(r)' /\ i = item[r]
    BY <2>1, SubjectType DEF TypeInv, Subject
  <2>3. /\ Rows(r) = children[t][i] /\ Rows(r)' = children'[t][i] /\ Len(children[t][i]) \in Nat
        /\ \A m \in 1..Len(children[t][i]) : children[t][i][m] \in 0..5
    BY <2>1, <2>2, RowsType DEF TypeInv, Rows
  <2>4. \A m \in 1..Len(children[t][i]) : children[t][i][m] < 3
    BY <2>1, <2>3 DEF UnclaimedAt
  <2>5. \A m \in 1..Len(children'[t][i]) : children'[t][i][m] < 3
    <3>1. /\ \A m \in 1..Len(children[t][i]) : children'[t][i][m] = children[t][i][m]
          /\ Len(children'[t][i]) = Len(children[t][i]) + 1
          /\ children'[t][i][Len(children[t][i]) + 1] = 0
      <4>1. /\ TypeOK /\ r \in Runner /\ pc[r] \in Working /\ item[r] \in Item
            /\ children' = [children EXCEPT ![Subject(r)][item[r]] = Append(@, Bare)]
        BY <2>1 DEF TypeInv
      <4>2. \A u \in Transcript, j \in Item :
              /\ Len(children'[u][j]) = IF u = Subject(r) /\ j = item[r]
                                          THEN Len(children[u][j]) + 1 ELSE Len(children[u][j])
              /\ \A k \in 1..Len(children[u][j]) : children'[u][j][k] = children[u][j][k]
              /\ u = Subject(r) /\ j = item[r] => children'[u][j][Len(children[u][j]) + 1] = 0
        BY ONLY <4>1, AppendFacts
      <4> QED BY <2>1, <2>2, <4>2
    <3>2. \A m \in 1..Len(children'[t][i]) :
            m \in 1..Len(children[t][i]) \/ m = Len(children[t][i]) + 1
      BY <2>3, <3>1
    <3>3. ASSUME NEW m \in 1..Len(children'[t][i]) PROVE children'[t][i][m] < 3
      <4>1. CASE m \in 1..Len(children[t][i])
        BY <2>4, <3>1, <4>1
      <4>2. CASE m = Len(children[t][i]) + 1
        BY <3>1, <4>2
      <4> QED BY <3>2, <4>1, <4>2
    <3> QED BY <3>3
  <2> QED BY <2>3, <2>5 DEF UnclaimedAt
<1>7. CASE set_memory_scope_kind(r)
  <2>1. /\ pc[r] \in {"insert", "kind"} /\ pc[r] \in Working /\ item[r] \in Item
        /\ UNCHANGED <<todo, item>>
        /\ Raise(r, 1) /\ child[r] \in 1..Len(Rows(r))
    BY <1>0, <1>7 DEF set_memory_scope_kind, PlacedAt
  <2>2. PICK t \in Transcript, i \in Item : t = Subject(r) /\ t = Subject(r)' /\ i = item[r]
    BY <2>1, SubjectType DEF TypeInv, Subject
  <2>3. /\ Rows(r) = children[t][i] /\ Rows(r)' = children'[t][i] /\ Len(children[t][i]) \in Nat
        /\ \A m \in 1..Len(children[t][i]) : children[t][i][m] \in 0..5
    BY <2>1, <2>2, RowsType DEF TypeInv, Rows
  <2>4. \A m \in 1..Len(children[t][i]) : children[t][i][m] < 3
    BY <2>1, <2>3 DEF UnclaimedAt
  <2>5. \A m \in 1..Len(children'[t][i]) : children'[t][i][m] < 3
    <3>1. /\ Len(children'[t][i]) = Len(children[t][i])
          /\ \A m \in 1..Len(children[t][i]) :
               children'[t][i][m] = 1 \/ children'[t][i][m] = children[t][i][m]
      BY <2>1, <2>2, RaiseFacts DEF TypeInv
    <3>2. ASSUME NEW m \in 1..Len(children'[t][i]) PROVE children'[t][i][m] < 3
      BY <2>4, <3>1
    <3> QED BY <3>2
  <2> QED BY <2>3, <2>5 DEF UnclaimedAt
<1>8. CASE apply_memory_governance(r)
  BY <1>0, <1>a, <1>8 DEF apply_memory_governance
<1>9. CASE append_memory_ledger(r)
  BY <1>0, <1>a, <1>9 DEF append_memory_ledger
<1>10. CASE IndexChild(r)
  BY <1>0, <1>a, <1>10 DEF IndexChild, NextItem
<1>11. CASE complete_receipt(r)
  BY <1>0, <1>a, <1>11 DEF complete_receipt, NextCandidate
<1>12. CASE FailStart(r)
  BY <1>0, <1>a, <1>12 DEF FailStart
<1>13. CASE FailMark(r)
  BY <1>0, <1>a, <1>13 DEF FailMark, NextCandidate
<1>14. CASE uncompressed_candidates(r)
  BY <1>0, <1>a, <1>14 DEF uncompressed_candidates
<1>15. CASE mark_compressed(r)
  BY <1>0, <1>a, <1>15 DEF mark_compressed
<1>16. CASE Outline(r)
  BY <1>0, <1>a, <1>16 DEF Outline, NextBirth
<1>17. CASE ChildIsBorn(r)
  BY <1>0, <1>a, <1>17 DEF ChildIsBorn
<1>18. CASE ChildIsTagged(r)
  BY <1>0, <1>a, <1>18 DEF ChildIsTagged
<1>19. CASE persist_procedure(r)
  BY <1>0, <1>a, <1>19 DEF persist_procedure, NextBirth
<1>20. CASE store_session_transcript(r)
  BY <1>0, <1>a, <1>20 DEF store_session_transcript
<1>21. CASE persist_memory_skim(r)
  BY <1>0, <1>a, <1>21 DEF persist_memory_skim
<1>22. CASE record_compression(r)
  BY <1>0, <1>a, <1>22 DEF record_compression, NextSession
<1>23. CASE StatementFails(r)
  BY <1>0, <1>a, <1>23 DEF StatementFails
<1>24. CASE SoftFailure(r)
  BY <1>0, <1>a, <1>24 DEF SoftFailure, PassOver, NextBirth, NextSession
<1>25. CASE Crash(r)
  BY <1>0, <1>a, <1>25 DEF Crash
<1> QED BY Acts, <1>1, <1>2, <1>3, <1>4, <1>5, <1>6, <1>7, <1>8, <1>9, <1>10, <1>11, <1>12, <1>13,
           <1>14, <1>15, <1>16, <1>17, <1>18, <1>19, <1>20, <1>21, <1>22, <1>23, <1>24, <1>25

\* What the runs check, from the statement the induction uses.
LEMMA SingleCounts == TypeInv /\ Single => OneGovernedChild
<1> SUFFICES ASSUME TypeInv, Single, NEW t \in Transcript, NEW i \in Item
             PROVE  Cardinality({k \in DOMAIN children[t][i] : children[t][i][k] >= Governed}) <= 1
  BY DEF OneGovernedChild
<1> DEFINE S == {k \in DOMAIN children[t][i] : children[t][i][k] >= Governed}
<1>1. \A k, l \in S : k = l
  BY SMTT(30), RowsType, Levels DEF TypeInv, Single
<1> HIDE DEF S
<1>2. CASE S = {}
  BY <1>2, FS_EmptySet DEF S
<1>3. ASSUME NEW k \in S PROVE Cardinality(S) <= 1
  <2>1. S = {k}
    BY <1>1, <1>3
  <2>2. Cardinality(S) = 1
    BY <2>1, FS_Singleton
  <2> QED BY <2>2
<1> QED BY <1>2, <1>3 DEF S

\* Failures, crashes and retries never write a second child under a source_ref
\* (recovery.rs persist_children, recoverable_child_id), as long as one backfill
\* runs at a time: nothing in the schema stops two.
THEOREM ChildIsSingle == SoleRunner /\ Spec => []OneGovernedChild
<1> SUFFICES ASSUME SoleRunner PROVE Spec => []OneGovernedChild
  OBVIOUS
<1>1. Init => ChildInv
  <2> SUFFICES ASSUME Init PROVE ChildInv
    OBVIOUS
  <2>1. TypeInv
    BY InitTypeInv
  <2>2. Single
    <3>1. \A t \in Transcript, i \in Item :
            children[t][i] = <<>> \/ children[t][i] = <<2>>
      BY Levels DEF Init
    <3>2. \A k \in 1..Len(<<>>) : FALSE
      OBVIOUS
    <3>3. \A k \in 1..Len(<<2>>) : <<2>>[k] = 2
      OBVIOUS
    <3> QED BY <3>1, <3>2, <3>3 DEF Single
  <2>3. \A r \in Runner : UnclaimedAt(r)
    BY DEF Init, UnclaimedAt
  <2> QED BY <2>1, <2>2, <2>3 DEF ChildInv
<1>2. ChildInv /\ [Next]_vars => ChildInv'
  <2> SUFFICES ASSUME ChildInv, [Next]_vars PROVE ChildInv'
    OBVIOUS
  <2>1. TypeInv'
    BY NextTypeInv DEF ChildInv
  <2>2. ASSUME NEW r \in Runner, Act(r) PROVE ChildInv'
    <3>1. Single' /\ UnclaimedAt(r)'
      BY <2>2, SingleStep, UnclaimedStep DEF ChildInv
    <3>2. \A s \in Runner : s = r
      BY DEF SoleRunner
    <3> QED BY <2>1, <3>1, <3>2 DEF ChildInv
  <2>3. CASE UNCHANGED vars
    <3>1. Single'
      BY <2>3 DEF ChildInv, Single, vars, rows
    <3>2. (\A r \in Runner : UnclaimedAt(r))'
      BY <2>3 DEF ChildInv, UnclaimedAt, Rows, Subject, vars, rows, place
    <3> QED BY <2>1, <3>1, <3>2 DEF ChildInv
  <2> QED BY <2>2, <2>3 DEF Next, Act
<1>3. ChildInv => OneGovernedChild
  BY SingleCounts DEF ChildInv
<1> QED BY <1>1, <1>2, <1>3, PTL DEF Spec
=============================================================================
