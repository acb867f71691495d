----------------------------- MODULE MemoryProofs -----------------------------
(***************************************************************************)
(* What joins memories, and what serves them.  The claim graph: of two     *)
(* calls, the one that reads last finds the other's edge, so that for      *)
(* every set of memories competing edges are recorded as members, and the  *)
(* ledger names every member unless a call fails.  The service: requests,  *)
(* commands, the profile and the dreams interleave a statement at a time,  *)
(* for every program, every store and every number of workers.             *)
(***************************************************************************)
EXTENDS ClaimGraph, Service, FiniteSetTheorems, SequenceTheorems,
        WellFoundedInduction, TLAPS

Adding  == {"member", "reopen", "report"}
Past    == {"reopen", "report", "duplicate", "supersede", "done"}

\* What insert_memory_edge knows of its members when it gets to a statement.
CallOK(m) ==
  /\ pc[m] = "new" => m \notin Stored
  /\ pc[m] \in {"new", "detect"} => competing[m] = {} /\ queue[m] = {}
  /\ pc[m] \in {"new", "detect", "found"} => ~added[m]
  /\ pc[m] = "found" => queue[m] = competing[m]
  /\ pc[m] \in Adding => status # "none"
  /\ pc[m] \in {"member"} \union Past => competing[m] \ queue[m] \subseteq members
  /\ pc[m] \in Past => queue[m] = {}
  /\ queue[m] \subseteq competing[m]
  /\ competing[m] # {} => m \in competing[m]

\* Of two competing edges, one was there when the other's call read.
Found ==
  relation \in Single =>
    \A m, n \in Active \ closed :
      (/\ TargetOf[m] # TargetOf[n]
       /\ pc[m] \notin {"new", "detect", "failed"}
       /\ pc[n] \notin {"new", "detect", "failed"})
      => m \in competing[n] \/ n \in competing[m]

\* A member is in the ledger or in the hands of a call that will put it there.
Reporting ==
  /\ reported \subseteq members
  /\ faults = 0 =>
       \A n \in members \ reported :
         \E m \in Memory : pc[m] \in Adding /\ added[m] /\ n \in competing[m]

Inv ==
  /\ TypeOK
  /\ \A m \in Memory : CallOK(m)
  /\ Found
  /\ Reporting

(***************************************************************************)
(* Reviews of the operator's own set.  While nothing fails, whoever added  *)
(* a member that a review has not read is still on its way to reopen it.   *)
(***************************************************************************)
UnderWay(S) ==
  \A n \in S : \E m \in Memory : pc[m] \in {"member", "reopen"} /\ added[m]

Reviewed ==
  /\ view.version <= version
  /\ view # Unread => status # "none"
  /\ faults = 0 /\ founder \notin Memory =>
       /\ status \notin {"none", "unresolved"} => UnderWay(members \ seen)
       /\ view # Unread /\ version = view.version => UnderWay(members \ view.members)

(***************************************************************************)
(* The edges in the order of their ids, the latest of them, and what a     *)
(* call that overlaps no other one and a plan do to them.                  *)
(***************************************************************************)
LastInserted == inserted[Len(inserted)]

Ordered ==
  /\ \A i, j \in 1..Len(inserted) : inserted[i] = inserted[j] => i = j
  /\ \A m \in Memory \ Stored : supersededBy[m] = None
  /\ \A m \in Running : m \in Stored
  /\ \A u \in sweep.duplicates \union sweep.updates : Newer(u[2], u[1])

Alone ==
  ~overlapped =>
    /\ \A m \in Running : m = LastInserted
    /\ Stored # {} => LastInserted \in Active
    /\ faults = 0 /\ relation \in Current =>
         \A m, n \in (Active \ closed) \ Running : TargetOf[m] = TargetOf[n]

\* Two active edges that a finished reconciliation may not leave.
Clash(m, n) ==
  m # n /\ (TargetOf[m] = TargetOf[n] \/ (relation \in Current /\ {m, n} \intersect closed = {}))

\* While nothing is inserted under it, the plan retires one edge of every such pair.
Planned ==
  /\ sweep.scanned <= Len(inserted)
  /\ sweep.stage = "done" => sweep.duplicates = {} /\ sweep.updates = {}
  /\ sweep.stage \in {"apply", "done"} /\ sweep.scanned = Len(inserted) =>
       \A m, n \in Active : Clash(m, n) =>
         \E u \in sweep.duplicates \union sweep.updates : u[1] \in {m, n}

LEMMA StoredTyped == inserted \in Seq(Memory) => Stored \subseteq Memory
BY DEF Stored

LEMMA StoredAppend ==
  ASSUME inserted \in Seq(Memory), NEW m \in Memory, inserted' = Append(inserted, m)
  PROVE  Stored' = Stored \union {m}
<1>1. /\ Len(inserted') = Len(inserted) + 1
      /\ \A i \in 1..Len(inserted) : inserted'[i] = inserted[i]
      /\ inserted'[Len(inserted) + 1] = m
  OBVIOUS
<1>2. Len(inserted) \in Nat
  OBVIOUS
<1>3. Stored' \subseteq Stored \union {m}
  BY <1>1, <1>2 DEF Stored
<1>4. Stored \union {m} \subseteq Stored'
  BY <1>1, <1>2 DEF Stored
<1> QED BY <1>3, <1>4

\* Superseding edges never makes one active.
LEMMA SupersedingShrinks ==
  ASSUME TypeOK, NEW m \in Memory, NEW S, Superseding(m, S), inserted' = inserted
  PROVE  /\ supersededBy' \in [Memory -> Memory \union {None}]
         /\ Stored' = Stored /\ Active' \subseteq Active
<1>1. Stored' = Stored /\ Stored \subseteq Memory
  BY DEF Stored, TypeOK
<1>2. supersededBy' \in [Memory -> Memory \union {None}]
  BY DEF Superseding, TypeOK
<1>3. \A n \in Memory : supersededBy'[n] = None => supersededBy[n] = None
  BY ConstantsAssumption DEF Superseding
<1> QED BY <1>1, <1>2, <1>3 DEF Active

\* What a call knows stays true while others only add to the set.
LEMMA CallFrame ==
  ASSUME NEW m \in Memory, CallOK(m),
         pc'[m] = pc[m], competing'[m] = competing[m], queue'[m] = queue[m],
         added'[m] = added[m],
         pc[m] = "new" => m \notin Stored',
         members \subseteq members',
         status # "none" => status' # "none"
  PROVE  CallOK(m)'
<1>1. members \subseteq members'
  OBVIOUS
<1>2. competing'[m] \ queue'[m] = competing[m] \ queue[m]
  OBVIOUS
<1> QED BY <1>1, <1>2 DEF CallOK, Adding, Past

\* A call that was past detection has kept what it found.
LEMMA FoundFrame ==
  ASSUME Found, Active' \subseteq Active, Active \subseteq Memory,
         relation' = relation, closed' = closed,
         \A m \in Memory : pc'[m] \notin {"new", "detect", "failed"} =>
           /\ pc[m] \notin {"new", "detect", "failed"}
           /\ competing'[m] = competing[m]
  PROVE  Found'
BY DEF Found

LEMMA ActiveTyped == TypeOK => Stored \subseteq Memory /\ Active \subseteq Memory
BY StoredTyped DEF Active, TypeOK

\* The initial states satisfy the invariant: nothing has been called yet.
LEMMA InvInit == Init => Inv
<1> SUFFICES ASSUME Init PROVE Inv
  OBVIOUS
<1> USE ConstantsAssumption
<1>1. /\ inserted \in Seq(Memory) /\ Recorded \subseteq Memory
      /\ Stored \subseteq Recorded
  <2>1. CASE Recorded = {}
    BY <2>1 DEF Init, Stored
  <2>2. CASE Recorded # {}
    <3>1. PICK m \in Recorded : m = CHOOSE n \in Recorded : TRUE
      BY <2>2
    <3>2. inserted = <<m>> /\ m \in Memory
      BY <2>2, <3>1 DEF Init
    <3>3. Len(inserted) = 1 /\ inserted[1] = m
      BY <3>2
    <3> QED BY <3>2, <3>3 DEF Stored
  <2> QED BY <2>1, <2>2
<1>2. \A m, n \in Stored : m = n
  BY <1>1
<1>3. TypeOK
  <2>1. /\ relation \in Relation /\ closed \subseteq MayClose
        /\ supersededBy \in [Memory -> Memory \union {None}]
        /\ pc \in [Memory -> InFlight \union {"new", "done", "failed"}]
    BY DEF Init
  <2>2. /\ competing \in [Memory -> SUBSET Memory]
        /\ queue \in [Memory -> SUBSET Memory]
        /\ added \in [Memory -> BOOLEAN]
    BY DEF Init
  <2>3. view \in [version : Nat, members : SUBSET Memory]
    BY DEF Init, Unread
  <2>4. sweep \in [stage : {"idle", "apply", "done", "failed"}, scanned : Nat,
                  duplicates : SUBSET Link, updates : SUBSET Link]
    BY DEF Init
  <2>5. reviews \in 0..MaxReviews /\ faults \in 0..MaxFaults /\ version \in Nat
    BY DEF Init
  <2>6. overlapped \in BOOLEAN /\ founder \in Memory \union {Operator, None}
    BY DEF Init
  <2>7. /\ status \in Statuses \union {"none"} /\ members = {}
        /\ members \subseteq Memory /\ reported \subseteq Memory /\ seen \subseteq Memory
    BY DEF Init
  <2> QED BY <1>1, <2>1, <2>2, <2>3, <2>4, <2>5, <2>6, <2>7 DEF TypeOK
<1>4. \A m \in Memory : CallOK(m)
  <2> SUFFICES ASSUME NEW m \in Memory PROVE CallOK(m)
    OBVIOUS
  <2>1. pc[m] = "new" \/ (pc[m] = "done" /\ m \in Recorded)
    BY DEF Init
  <2>2. m \in Recorded => pc[m] = "done"
    BY DEF Init
  <2>3. competing[m] = {} /\ queue[m] = {} /\ ~added[m]
    BY DEF Init
  <2> QED BY <1>1, <2>1, <2>2, <2>3 DEF CallOK, Adding, Past
<1>5. Found
  BY <1>2 DEF Found, Active
<1>6. Reporting
  BY DEF Init, Reporting
<1> QED BY <1>3, <1>4, <1>5, <1>6 DEF Inv

-----------------------------------------------------------------------------
(* One lemma for each statement of a call. *)

LEMMA InsertEdgeStep ==
  ASSUME Inv, NEW m \in Memory, InsertEdge(m)
  PROVE  Inv'
<1> USE ConstantsAssumption
<1> USE DEF Inv, InsertEdge, GoTo
<1>1. Stored' = Stored \union {m}
  BY StoredAppend DEF TypeOK
<1>2. pc' \in [Memory -> InFlight \union {"new", "done", "failed"}]
  BY DEF TypeOK, InFlight
<1>3. inserted' \in Seq(Memory)
  BY DEF TypeOK
<1>4. overlapped' \in BOOLEAN
  BY DEF TypeOK
<1>5. TypeOK'
  BY <1>2, <1>3, <1>4 DEF TypeOK, given, set, reviewing, edges
<1>6. ASSUME NEW n \in Memory PROVE CallOK(n)'
  BY <1>1 DEF CallOK, Adding, Past, TypeOK, set
<1>7. Found'
  <2>1. Active' \subseteq Active \union {m}
    BY <1>1 DEF Active
  <2>2. \A n \in Memory \ {m} : pc'[n] = pc[n]
    BY DEF TypeOK
  <2>3. relation \in Single /\ m \notin closed => pc'[m] = "detect"
    BY DEF TypeOK
  <2>4. Active \subseteq Memory
    BY StoredTyped DEF Active, TypeOK
  <2> QED BY <2>1, <2>2, <2>3, <2>4 DEF Found, given
<1>8. Reporting'
  BY DEF Reporting, Adding, TypeOK, set
<1> QED BY <1>5, <1>6, <1>7, <1>8

LEMMA DetectStep ==
  ASSUME Inv, NEW m \in Memory, detect_graph_contradiction(m)
  PROVE  Inv'
<1> USE ConstantsAssumption
<1> USE DEF Inv, detect_graph_contradiction, GoTo
<1>1. OtherTarget(m) \subseteq Active /\ Active \subseteq Memory
  BY StoredTyped DEF OtherTarget, Active, TypeOK
<1>2. Active' = Active /\ Stored' = Stored /\ closed' = closed /\ relation' = relation
  BY DEF Active, Stored, edges, given
<1>3. /\ pc' \in [Memory -> InFlight \union {"new", "done", "failed"}]
      /\ competing' \in [Memory -> SUBSET Memory]
      /\ queue' \in [Memory -> SUBSET Memory]
  <2>1. CASE OtherTarget(m) = {}
    BY <2>1 DEF TypeOK, InFlight
  <2>2. CASE OtherTarget(m) # {}
    <3>1. OtherTarget(m) \union {m} \in SUBSET Memory
      BY <1>1
    <3> QED BY <2>2, <3>1 DEF TypeOK, InFlight
  <2> QED BY <2>1, <2>2
<1>4. TypeOK'
  BY <1>3 DEF TypeOK, given, set, reviewing, edges
<1>5. ASSUME NEW n \in Memory PROVE CallOK(n)'
  <2>1. CASE n = m
    <3>1. CASE OtherTarget(m) = {}
      BY <1>2, <2>1, <3>1 DEF CallOK, Adding, Past, TypeOK, set
    <3>2. CASE OtherTarget(m) # {}
      <4>1. pc'[m] = "found" /\ queue'[m] = competing'[m] /\ m \in competing'[m]
        BY <3>2 DEF TypeOK
      <4>2. ~added'[m]
        BY DEF CallOK
      <4> QED BY <2>1, <4>1, <4>2 DEF CallOK, Adding, Past
    <3> QED BY <3>1, <3>2
  <2>2. CASE n # m
    <3>1. /\ pc'[n] = pc[n] /\ competing'[n] = competing[n] /\ queue'[n] = queue[n]
          /\ added'[n] = added[n]
      BY <2>2 DEF TypeOK
    <3>2. pc[n] = "new" => n \notin Stored'
      BY <1>2 DEF CallOK
    <3>3. members' = members /\ status' = status
      BY DEF set
    <3> QED BY <3>1, <3>2, <3>3, CallFrame
  <2> QED BY <2>1, <2>2
<1>6. Found'
  <2>1. \A n \in Memory \ {m} : pc'[n] = pc[n] /\ competing'[n] = competing[n]
    BY DEF TypeOK
  <2>2. \A n \in Active : TargetOf[n] # TargetOf[m] => n \in competing'[m]
    BY <1>1 DEF OtherTarget, TypeOK
  <2> QED BY <1>1, <1>2, <2>1, <2>2 DEF Found
<1>7. Reporting'
  <2>1. \A n \in Memory : pc[n] \in Adding => n # m
    BY DEF Adding
  <2>2. \A n \in Memory \ {m} : pc'[n] = pc[n] /\ competing'[n] = competing[n]
    BY DEF TypeOK
  <2> QED BY <2>1, <2>2 DEF Reporting, set
<1> QED BY <1>4, <1>5, <1>6, <1>7

LEMMA FoundSetStep ==
  ASSUME Inv, NEW m \in Memory, FoundSet(m)
  PROVE  Inv'
<1> USE ConstantsAssumption
<1> USE DEF Inv, FoundSet, GoTo
<1>1. Active' = Active /\ Stored' = Stored /\ closed' = closed /\ relation' = relation
  BY DEF Active, Stored, edges, given
<1>2. pc' \in [Memory -> InFlight \union {"new", "done", "failed"}]
  BY DEF TypeOK, InFlight
<1>3. status' \in Statuses \union {"none"} /\ status' # "none"
  BY DEF TypeOK, Statuses
<1>4. version' \in Nat /\ founder' \in Memory \union {Operator, None}
  BY DEF TypeOK
<1>5. TypeOK'
  BY <1>2, <1>3, <1>4 DEF TypeOK, given, reviewing, edges
<1>6. \A n \in Memory \ {m} : pc'[n] = pc[n]
  BY DEF TypeOK
<1>7. pc'[m] = "member"
  BY DEF TypeOK
<1>8. ASSUME NEW n \in Memory PROVE CallOK(n)'
  <2>1. CASE n = m
    BY <1>1, <1>3, <1>7, <2>1 DEF CallOK, Adding, Past
  <2>2. CASE n # m
    BY <1>1, <1>3, <1>6, <2>2 DEF CallOK
  <2> QED BY <2>1, <2>2
<1>9. Found'
  <2>1. Active \subseteq Memory
    BY StoredTyped DEF Active, TypeOK
  <2>2. competing' = competing /\ pc[m] = "found"
    OBVIOUS
  <2>3. \A n \in Memory : pc'[n] \notin {"new", "detect", "failed"}
                           => pc[n] \notin {"new", "detect", "failed"}
    BY <1>6, <2>2
  <2> QED BY <1>1, <2>1, <2>2, <2>3 DEF Found
<1>10. Reporting'
  <2>1. \A n \in Memory : pc[n] \in Adding => n # m
    BY DEF Adding
  <2> QED BY <1>6, <2>1 DEF Reporting
<1> QED BY <1>5, <1>8, <1>9, <1>10

LEMMA InsertMemberStep ==
  ASSUME Inv, NEW m \in Memory, InsertMember(m)
  PROVE  Inv'
<1> USE ConstantsAssumption
<1> USE DEF Inv, GoTo
<1>1. Active' = Active /\ Stored' = Stored /\ closed' = closed /\ relation' = relation
  BY DEF InsertMember, Active, Stored, edges, given
<1>2. PICK c \in queue[m] :
        /\ members' = members \union {c}
        /\ added' = [added EXCEPT ![m] = @ \/ c \notin members]
        /\ queue' = [queue EXCEPT ![m] = @ \ {c}]
  BY DEF InsertMember
<1>3. pc[m] = "member" /\ queue[m] \subseteq competing[m] /\ competing[m] \subseteq Memory
      /\ competing[m] \ queue[m] \subseteq members /\ c \in Memory /\ status # "none"
  BY <1>2 DEF InsertMember, CallOK, TypeOK, Adding
<1>4. pc'[m] = IF queue'[m] # {} THEN "member"
               ELSE IF added'[m] THEN "reopen" ELSE "duplicate"
  BY DEF InsertMember, TypeOK
<1>5. queue'[m] = queue[m] \ {c} /\ added'[m] = (added[m] \/ c \notin members)
  BY <1>2 DEF TypeOK
<1>6. \A n \in Memory \ {m} : /\ pc'[n] = pc[n] /\ queue'[n] = queue[n]
                              /\ added'[n] = added[n]
  BY <1>2 DEF InsertMember, TypeOK
<1>7. /\ competing' = competing /\ status' = status /\ version' = version
      /\ founder' = founder /\ reported' = reported /\ seen' = seen /\ faults' = faults
  BY DEF InsertMember
<1>8. TypeOK'
  <2>1. queue' \in [Memory -> SUBSET Memory]
    <3>1. queue[m] \ {c} \in SUBSET Memory
      BY DEF TypeOK
    <3> QED BY <1>2, <3>1 DEF TypeOK
  <2>2. added' \in [Memory -> BOOLEAN]
    BY <1>2 DEF TypeOK
  <2>3. pc' \in [Memory -> InFlight \union {"new", "done", "failed"}]
    BY DEF InsertMember, TypeOK, InFlight
  <2>4. members' \subseteq Memory /\ status' # "none"
    BY <1>2, <1>3, <1>7 DEF TypeOK
  <2>5. UNCHANGED <<relation, closed, inserted, supersededBy, overlapped, view, reviews, sweep>>
    BY DEF InsertMember, edges, given, reviewing
  <2> QED BY <1>7, <2>1, <2>2, <2>3, <2>4, <2>5 DEF TypeOK
<1>9. ASSUME NEW n \in Memory PROVE CallOK(n)'
  <2>1. CASE n = m
    <3>1. competing'[m] \ queue'[m] \subseteq members'
      BY <1>2, <1>3, <1>5, <1>7
    <3>2. queue'[m] \subseteq competing'[m] /\ (pc'[m] \in Past => queue'[m] = {})
      BY <1>3, <1>4, <1>5, <1>7 DEF Past
    <3>3. competing'[m] # {} => m \in competing'[m]
      BY <1>7 DEF CallOK
    <3>4. status' # "none" /\ pc'[m] \in {"member", "reopen", "duplicate"}
      BY <1>3, <1>4, <1>7
    <3> QED BY <2>1, <3>1, <3>2, <3>3, <3>4 DEF CallOK
  <2>2. CASE n # m
    <3>1. pc[n] = "new" => n \notin Stored'
      BY <1>1 DEF CallOK
    <3> QED BY <1>2, <1>6, <1>7, <2>2, <3>1, CallFrame
  <2> QED BY <2>1, <2>2
<1>10. Found'
  <2>1. \A n \in Memory : pc'[n] \notin {"new", "detect", "failed"} =>
          pc[n] \notin {"new", "detect", "failed"} /\ competing'[n] = competing[n]
    BY <1>3, <1>6, <1>7
  <2> QED BY <1>1, <2>1, ActiveTyped, FoundFrame
<1>11. Reporting'
  <2>1. ASSUME faults' = 0, NEW n \in members' \ reported'
        PROVE  \E k \in Memory : pc'[k] \in Adding /\ added'[k] /\ n \in competing'[k]
    <3>1. CASE n \in members
      <4>1. PICK k \in Memory : pc[k] \in Adding /\ added[k] /\ n \in competing[k]
        BY <1>7, <2>1, <3>1 DEF Reporting
      <4>2. added'[k] /\ pc'[k] \in Adding
        BY <1>4, <1>5, <1>6, <4>1 DEF Adding
      <4> QED BY <1>7, <4>1, <4>2
    <3>2. CASE n \notin members
      <4>1. n = c /\ added'[m] /\ pc'[m] \in Adding /\ n \in competing'[m]
        BY <1>2, <1>3, <1>4, <1>5, <1>7, <2>1, <3>2 DEF Adding
      <4> QED BY <4>1
    <3> QED BY <3>1, <3>2
  <2> QED BY <1>2, <1>7, <2>1 DEF Reporting
<1> QED BY <1>8, <1>9, <1>10, <1>11

LEMMA ReopenSetStep ==
  ASSUME Inv, NEW m \in Memory, ReopenSet(m)
  PROVE  Inv'
<1> USE ConstantsAssumption
<1> USE DEF Inv, GoTo
<1>1. Active' = Active /\ Stored' = Stored /\ closed' = closed /\ relation' = relation
  BY DEF ReopenSet, Active, Stored, edges, given
<1>2. /\ pc[m] = "reopen" /\ pc'[m] = "report" /\ status # "none"
      /\ \A n \in Memory \ {m} : pc'[n] = pc[n]
  BY DEF ReopenSet, CallOK, TypeOK, Adding
<1>3. /\ competing' = competing /\ queue' = queue /\ added' = added
      /\ members' = members /\ reported' = reported /\ faults' = faults
  BY DEF ReopenSet
<1>4. status' # "none" /\ status' \in Statuses
  BY <1>2 DEF ReopenSet, Statuses, TypeOK
<1>5. TypeOK'
  <2>1. pc' \in [Memory -> InFlight \union {"new", "done", "failed"}]
    BY DEF ReopenSet, TypeOK, InFlight
  <2>2. version' \in Nat
    BY DEF ReopenSet, TypeOK
  <2>3. UNCHANGED <<relation, closed, inserted, supersededBy, founder, seen, overlapped, view,
                    reviews, sweep>>
    BY DEF ReopenSet, edges, given, reviewing
  <2> QED BY <1>3, <1>4, <2>1, <2>2, <2>3 DEF TypeOK
<1>6. ASSUME NEW n \in Memory PROVE CallOK(n)'
  <2>1. CASE n = m
    BY <1>2, <1>3, <1>4, <2>1 DEF CallOK, Adding, Past
  <2>2. CASE n # m
    <3>1. pc[n] = "new" => n \notin Stored'
      BY <1>1 DEF CallOK
    <3> QED BY <1>2, <1>3, <1>4, <2>2, <3>1, CallFrame
  <2> QED BY <2>1, <2>2
<1>7. Found'
  <2>1. \A n \in Memory : pc'[n] \notin {"new", "detect", "failed"} =>
          pc[n] \notin {"new", "detect", "failed"} /\ competing'[n] = competing[n]
    BY <1>2, <1>3
  <2> QED BY <1>1, <2>1, ActiveTyped, FoundFrame
<1>8. Reporting'
  BY <1>2, <1>3 DEF Reporting, Adding
<1> QED BY <1>5, <1>6, <1>7, <1>8

LEMMA ReportStep ==
  ASSUME Inv, NEW m \in Memory, append_memory_ledger(m)
  PROVE  Inv'
<1> USE ConstantsAssumption
<1> USE DEF Inv, GoTo
<1>1. Active' = Active /\ Stored' = Stored /\ closed' = closed /\ relation' = relation
  BY DEF append_memory_ledger, Active, Stored, edges, given
<1>2. /\ pc[m] = "report" /\ pc'[m] = "duplicate"
      /\ \A n \in Memory \ {m} : pc'[n] = pc[n]
  BY DEF append_memory_ledger, TypeOK
<1>3. /\ competing' = competing /\ queue' = queue /\ added' = added
      /\ members' = members /\ status' = status /\ faults' = faults
      /\ reported' = reported \union competing[m]
  BY DEF append_memory_ledger
<1>4. competing[m] \subseteq members /\ queue[m] = {}
  BY <1>2 DEF CallOK, Past
<1>5. TypeOK'
  <2>1. pc' \in [Memory -> InFlight \union {"new", "done", "failed"}]
    BY DEF append_memory_ledger, TypeOK, InFlight
  <2>2. reported' \subseteq Memory
    BY <1>3, <1>4 DEF TypeOK
  <2>3. UNCHANGED <<relation, closed, inserted, supersededBy, version, founder, seen, overlapped,
                    view, reviews, sweep>>
    BY DEF append_memory_ledger, edges, given, reviewing
  <2> QED BY <1>3, <2>1, <2>2, <2>3 DEF TypeOK
<1>6. ASSUME NEW n \in Memory PROVE CallOK(n)'
  <2>1. CASE n = m
    BY <1>2, <1>3, <1>4, <2>1 DEF CallOK, Adding, Past
  <2>2. CASE n # m
    <3>1. pc[n] = "new" => n \notin Stored'
      BY <1>1 DEF CallOK
    <3> QED BY <1>2, <1>3, <2>2, <3>1, CallFrame
  <2> QED BY <2>1, <2>2
<1>7. Found'
  <2>1. \A n \in Memory : pc'[n] \notin {"new", "detect", "failed"} =>
          pc[n] \notin {"new", "detect", "failed"} /\ competing'[n] = competing[n]
    BY <1>2, <1>3
  <2> QED BY <1>1, <2>1, ActiveTyped, FoundFrame
<1>8. Reporting'
  <2>1. reported' \subseteq members'
    BY <1>3, <1>4 DEF Reporting
  <2>2. ASSUME faults' = 0, NEW n \in members' \ reported'
        PROVE  \E k \in Memory : pc'[k] \in Adding /\ added'[k] /\ n \in competing'[k]
    <3>1. PICK k \in Memory : pc[k] \in Adding /\ added[k] /\ n \in competing[k]
      BY <1>3, <2>2 DEF Reporting
    <3>2. k # m
      BY <1>3, <2>2, <3>1
    <3> QED BY <1>2, <1>3, <3>1, <3>2
  <2> QED BY <2>1, <2>2 DEF Reporting
<1> QED BY <1>5, <1>6, <1>7, <1>8

\* Both statements of reconcile_inserted_memory_edge.
LEMMA SupersedeStep ==
  ASSUME Inv, NEW m \in Memory, SupersedeDuplicates(m) \/ SupersedeState(m)
  PROVE  Inv'
<1> USE ConstantsAssumption
<1> USE DEF Inv, GoTo
<1>1. /\ inserted' = inserted /\ closed' = closed /\ relation' = relation
      /\ status' = status /\ version' = version /\ founder' = founder
      /\ members' = members /\ reported' = reported /\ seen' = seen
      /\ competing' = competing /\ queue' = queue /\ added' = added
      /\ overlapped' = overlapped /\ view' = view /\ reviews' = reviews
      /\ sweep' = sweep /\ faults' = faults
  BY DEF SupersedeDuplicates, SupersedeState, given, set, reviewing
<1>2. /\ supersededBy' \in [Memory -> Memory \union {None}]
      /\ Stored' = Stored /\ Active' \subseteq Active
  <2>1. CASE SupersedeDuplicates(m)
    BY <1>1, <2>1, SupersedingShrinks DEF SupersedeDuplicates
  <2>2. CASE SupersedeState(m)
    BY <1>1, <2>2, SupersedingShrinks DEF SupersedeState
  <2> QED BY <2>1, <2>2
<1>3. /\ pc[m] \in {"duplicate", "supersede"} /\ pc'[m] \in {"supersede", "done"}
      /\ \A n \in Memory \ {m} : pc'[n] = pc[n]
  BY DEF SupersedeDuplicates, SupersedeState, TypeOK
<1>4. TypeOK'
  <2>1. pc' \in [Memory -> InFlight \union {"new", "done", "failed"}]
    BY DEF SupersedeDuplicates, SupersedeState, TypeOK, InFlight
  <2> QED BY <1>1, <1>2, <2>1 DEF TypeOK
<1>5. ASSUME NEW n \in Memory PROVE CallOK(n)'
  <2>1. CASE n = m
    BY <1>1, <1>2, <1>3, <2>1 DEF CallOK, Adding, Past
  <2>2. CASE n # m
    <3>1. pc[n] = "new" => n \notin Stored'
      BY <1>2 DEF CallOK
    <3> QED BY <1>1, <1>3, <2>2, <3>1, CallFrame
  <2> QED BY <2>1, <2>2
<1>6. Found'
  <2>1. \A n \in Memory : pc'[n] \notin {"new", "detect", "failed"} =>
          pc[n] \notin {"new", "detect", "failed"} /\ competing'[n] = competing[n]
    BY <1>1, <1>3
  <2> QED BY <1>1, <1>2, <2>1, ActiveTyped, FoundFrame
<1>7. Reporting'
  <2>1. \A n \in Memory : pc[n] \in Adding => n # m
    BY <1>3 DEF Adding
  <2> QED BY <1>1, <1>3, <2>1 DEF Reporting
<1> QED BY <1>4, <1>5, <1>6, <1>7

LEMMA CallFailsStep ==
  ASSUME Inv, NEW m \in Memory, CallFails(m)
  PROVE  Inv'
<1> USE ConstantsAssumption
<1> USE DEF Inv, GoTo
<1>1. Active' = Active /\ Stored' = Stored /\ closed' = closed /\ relation' = relation
  BY DEF CallFails, Active, Stored, edges, given
<1>2. pc'[m] = "failed" /\ \A n \in Memory \ {m} : pc'[n] = pc[n]
  BY DEF CallFails, TypeOK
<1>3. /\ competing' = competing /\ queue' = queue /\ added' = added
      /\ members' = members /\ status' = status /\ reported' = reported
  BY DEF CallFails, set
<1>4. faults' \in 0..MaxFaults /\ faults' # 0
  BY DEF CallFails, TypeOK
<1>5. TypeOK'
  <2>1. pc' \in [Memory -> InFlight \union {"new", "done", "failed"}]
    BY DEF CallFails, TypeOK, InFlight
  <2>2. UNCHANGED <<relation, closed, inserted, supersededBy, version, founder, seen, overlapped,
                    view, reviews, sweep>>
    BY DEF CallFails, edges, given, set, reviewing
  <2> QED BY <1>3, <1>4, <2>1, <2>2 DEF TypeOK
<1>6. ASSUME NEW n \in Memory PROVE CallOK(n)'
  <2>1. CASE n = m
    BY <1>2, <1>3, <2>1 DEF CallOK, Adding, Past
  <2>2. CASE n # m
    <3>1. pc[n] = "new" => n \notin Stored'
      BY <1>1 DEF CallOK
    <3> QED BY <1>2, <1>3, <2>2, <3>1, CallFrame
  <2> QED BY <2>1, <2>2
<1>7. Found'
  <2>1. \A n \in Memory : pc'[n] \notin {"new", "detect", "failed"} =>
          pc[n] \notin {"new", "detect", "failed"} /\ competing'[n] = competing[n]
    BY <1>2, <1>3
  <2> QED BY <1>1, <2>1, ActiveTyped, FoundFrame
<1>8. Reporting'
  BY <1>3, <1>4 DEF Reporting
<1> QED BY <1>5, <1>6, <1>7, <1>8

-----------------------------------------------------------------------------
(* The operator and the reconciliation. *)

\* A step that leaves calls and edges alone, and only adds to the set.
LEMMA OthersFrame ==
  ASSUME Inv, UNCHANGED <<calls, inserted, given>>, Active' \subseteq Active,
         TypeOK', members \subseteq members', status # "none" => status' # "none",
         Reporting'
  PROVE  Inv'
<1>1. /\ pc' = pc /\ competing' = competing /\ queue' = queue /\ added' = added
      /\ Stored' = Stored /\ closed' = closed /\ relation' = relation
  BY DEF calls, given, Stored
<1>2. ASSUME NEW n \in Memory PROVE CallOK(n)'
  <2>1. CallOK(n) /\ (pc[n] = "new" => n \notin Stored')
    BY <1>1 DEF CallOK, Inv
  <2> QED BY <1>1, <2>1, CallFrame
<1>3. Found'
  BY <1>1, ActiveTyped, FoundFrame DEF Inv
<1> QED BY <1>2, <1>3 DEF Inv

LEMMA ReviewStep == Inv /\ Review => Inv'
<1> SUFFICES ASSUME Inv, Review PROVE Inv'
  OBVIOUS
<1> USE ConstantsAssumption
<1>1. ASSUME NEW S \in SUBSET Memory, create_contradiction_set(S) PROVE Inv'
  <2>1. members = {} /\ status' = "unresolved" /\ status' \in Statuses
    BY <1>1 DEF create_contradiction_set, Inv, TypeOK, Statuses
  <2>2. Active' = Active /\ UNCHANGED <<calls, inserted, given>>
    BY <1>1 DEF create_contradiction_set, Active, Stored, edges, given
  <2>3. reported = {} /\ members' = S /\ reported' = S
    BY <1>1, <2>1 DEF create_contradiction_set, Inv, Reporting
  <2>4. reviews' \in 0..MaxReviews /\ version' \in Nat
        /\ founder' \in Memory \union {Operator, None}
    BY <1>1 DEF create_contradiction_set, Inv, TypeOK
  <2>5. TypeOK'
    BY <1>1, <2>1, <2>3, <2>4
       DEF create_contradiction_set, Inv, TypeOK, edges, given, calls
  <2>6. Reporting'
    BY <2>3 DEF Reporting
  <2> QED BY <2>1, <2>2, <2>3, <2>5, <2>6, OthersFrame
<1>2. CASE get_contradiction_set
  <2>1. UNCHANGED <<edges, set, calls, reviews, sweep, faults>>
    BY <1>2 DEF get_contradiction_set
  <2>2. Active' = Active /\ UNCHANGED <<calls, inserted, given>>
    BY <2>1 DEF Active, Stored, edges, given
  <2>3. view' \in [version : Nat, members : SUBSET Memory]
    BY <1>2 DEF get_contradiction_set, Inv, TypeOK
  <2>4. TypeOK'
    BY <2>1, <2>3 DEF Inv, TypeOK, edges, given, calls, set
  <2>5. Reporting'
    BY <2>1 DEF Inv, Reporting, Adding, calls, set
  <2> QED BY <2>1, <2>2, <2>4, <2>5, OthersFrame DEF set
<1>3. ASSUME NEW s \in Statuses, update_contradiction_set(s) PROVE Inv'
  <2>1. /\ UNCHANGED <<edges, founder, members, reported, calls, sweep, faults>>
        /\ status' = s /\ version' = version + 1 /\ seen' = view.members
        /\ view' = Unread /\ reviews' = reviews + 1 /\ reviews < MaxReviews
    BY <1>3 DEF update_contradiction_set
  <2>2. Active' = Active /\ UNCHANGED <<calls, inserted, given>>
    BY <2>1 DEF Active, Stored, edges, given
  <2>3. /\ version' \in Nat /\ reviews' \in 0..MaxReviews /\ seen' \subseteq Memory
        /\ view' \in [version : Nat, members : SUBSET Memory]
    BY <2>1 DEF Inv, TypeOK, Unread
  <2>4. status' # "none" /\ status' \in Statuses
    BY <2>1 DEF Statuses
  <2>5. TypeOK'
    BY <2>1, <2>3, <2>4 DEF Inv, TypeOK, edges, given, calls
  <2>6. Reporting'
    BY <2>1 DEF Inv, Reporting, Adding, calls
  <2> QED BY <2>1, <2>2, <2>4, <2>5, <2>6, OthersFrame
<1> QED BY <1>1, <1>2, <1>3 DEF Review

LEMMA ReconcileStep == Inv /\ reconcile_memory_graph => Inv'
<1> SUFFICES ASSUME Inv, reconcile_memory_graph PROVE Inv'
  OBVIOUS
<1> USE ConstantsAssumption
<1>1. UNCHANGED <<given, inserted, set, calls, reviewing>>
  BY DEF reconcile_memory_graph, PlanReconcile, ApplyUpdate, EndReconcile, ReconcileFails,
         edges
<1>2. /\ sweep' \in [stage : {"idle", "apply", "done", "failed"}, scanned : Nat,
                     duplicates : SUBSET Link, updates : SUBSET Link]
      /\ faults' \in 0..MaxFaults /\ (faults' = 0 => faults = 0)
      /\ supersededBy' \in [Memory -> Memory \union {None}]
      /\ Active' \subseteq Active
  <2>1. CASE PlanReconcile
    <3>1. DuplicateUpdates \subseteq Link
      BY ActiveTyped DEF DuplicateUpdates, Link, Inv
    <3>2. StateUpdates \subseteq Link
      BY ActiveTyped DEF StateUpdates, Link, Inv
    <3>3. Len(inserted) \in Nat
      BY DEF Inv, TypeOK
    <3>4. Active' = Active
      BY <2>1 DEF PlanReconcile, Active, Stored, edges
    <3> QED BY <2>1, <3>1, <3>2, <3>3, <3>4 DEF PlanReconcile, Inv, TypeOK, edges
  <2>2. CASE ApplyUpdate
    <3>1. PICK u \in IF sweep.duplicates # {} THEN sweep.duplicates ELSE sweep.updates :
            /\ Superseding(u[2], {u[1]} \intersect Active)
            /\ sweep' = [sweep EXCEPT !.duplicates = @ \ {u}, !.updates = @ \ {u}]
      BY <2>2 DEF ApplyUpdate
    <3>2. u[2] \in Memory
      BY <3>1 DEF Inv, TypeOK, Link
    <3>3. inserted' = inserted /\ faults' = faults
      BY <2>2 DEF ApplyUpdate
    <3>4. /\ supersededBy' \in [Memory -> Memory \union {None}]
          /\ Active' \subseteq Active
      BY <3>1, <3>2, <3>3, SupersedingShrinks DEF Inv
    <3>5. /\ sweep.duplicates \ {u} \in SUBSET Link
          /\ sweep.updates \ {u} \in SUBSET Link
      BY DEF Inv, TypeOK
    <3> QED BY <3>1, <3>3, <3>4, <3>5 DEF Inv, TypeOK
  <2>3. CASE EndReconcile
    <3>1. Active' = Active
      BY <2>3 DEF EndReconcile, Active, Stored, edges
    <3> QED BY <2>3, <3>1 DEF EndReconcile, Inv, TypeOK, edges
  <2>4. CASE ReconcileFails
    <3>1. Active' = Active
      BY <2>4 DEF ReconcileFails, Active, Stored, edges
    <3>2. sweep' = [sweep EXCEPT !.stage = "failed", !.duplicates = {}, !.updates = {}]
      BY <2>4 DEF ReconcileFails
    <3>3. sweep' \in [stage : {"idle", "apply", "done", "failed"}, scanned : Nat,
                     duplicates : SUBSET Link, updates : SUBSET Link]
      BY <3>2 DEF Inv, TypeOK
    <3>4. /\ faults' \in 0..MaxFaults /\ faults' # 0
          /\ supersededBy' = supersededBy
      BY <2>4 DEF ReconcileFails, Inv, TypeOK, edges
    <3> QED BY <3>1, <3>3, <3>4 DEF Inv, TypeOK
  <2> QED BY <2>1, <2>2, <2>3, <2>4 DEF reconcile_memory_graph
<1>3. TypeOK'
  BY <1>1, <1>2 DEF Inv, TypeOK, given, set, calls, reviewing
<1>4. Reporting'
  BY <1>1, <1>2 DEF Inv, Reporting, Adding, calls, set
<1> QED BY <1>1, <1>2, <1>3, <1>4, OthersFrame DEF set

-----------------------------------------------------------------------------

LEMMA InvStep == Inv /\ [Next]_vars => Inv'
<1> SUFFICES ASSUME Inv, [Next]_vars PROVE Inv'
  OBVIOUS
<1>1. ASSUME NEW m \in Memory, insert_memory_edge(m) PROVE Inv'
  BY <1>1, InsertEdgeStep, DetectStep, FoundSetStep, InsertMemberStep, ReopenSetStep,
     ReportStep, SupersedeStep, CallFailsStep DEF insert_memory_edge
<1>2. CASE UNCHANGED vars
  <2>1. UNCHANGED <<calls, inserted, given, supersededBy, set, reviewing, sweep, faults>>
    BY <1>2 DEF vars, edges
  <2>2. TypeOK'
    BY <2>1 DEF Inv, TypeOK, given, set, calls, reviewing
  <2>3. Active' = Active
    BY <2>1 DEF Active, Stored
  <2>4. Reporting'
    BY <2>1 DEF Inv, Reporting, Adding, calls, set
  <2> QED BY <2>1, <2>2, <2>3, <2>4, OthersFrame DEF set
<1> QED BY <1>1, <1>2, ReviewStep, ReconcileStep DEF Next

LEMMA Invariance == Spec => []Inv
BY InvInit, InvStep, PTL DEF Spec

\* Of edges that are stored, one is the newest.
LEMMA NewestExists ==
  ASSUME inserted \in Seq(Memory), NEW S, S \subseteq Stored, S # {}
  PROVE  \E m \in S : IsNewest(m, S)
<1> DEFINE N == Len(inserted)
           After == {k \in 0..N : \E i \in 1..N : inserted[i] \in S /\ k = N - i}
<1>1. N \in Nat
  OBVIOUS
<1>2. After # {}
  <2>1. PICK m \in S : TRUE
    OBVIOUS
  <2>2. PICK i \in 1..N : inserted[i] = m
    BY <2>1 DEF Stored
  <2>3. N - i \in After
    BY <1>1, <2>1, <2>2
  <2> QED BY <2>3
<1>6. After \subseteq Nat
  BY <1>1
<1> HIDE DEF After
<1>3. PICK k \in After : \A l \in After : ~(l < k)
  <2>1. PICK k \in After : \A l \in After : <<l, k>> \notin OpToRel(<, Nat)
    BY <1>2, <1>6, WFMin, NatLessThanWellFounded
  <2> QED BY <1>6, <2>1 DEF OpToRel
<1>4. PICK i \in 1..N : inserted[i] \in S /\ k = N - i
  BY <1>3 DEF After
<1>5. ASSUME NEW n \in S \ {inserted[i]} PROVE Newer(inserted[i], n)
  <2>1. PICK j \in 1..N : inserted[j] = n
    BY <1>5 DEF Stored
  <2>2. N - j \in After
    BY <1>1, <1>5, <2>1 DEF After
  <2>3. ~(N - j < N - i)
    BY <1>3, <1>4, <2>2
  <2>4. i > j
    BY <1>1, <1>4, <2>1, <2>3, <1>5
  <2> QED BY <2>1, <2>4 DEF Newer
<1> QED BY <1>4, <1>5 DEF IsNewest

-----------------------------------------------------------------------------
(* Reviews. *)

LEMMA QuietReview ==
  ASSUME Reviewed, UNCHANGED <<status, version, founder, members, seen, view>>,
         faults' = 0 => faults = 0,
         \A n \in Memory : pc[n] \in {"member", "reopen"} =>
           faults' # 0 \/ (pc'[n] = pc[n] /\ added'[n] = added[n])
  PROVE  Reviewed'
<1>1. ASSUME faults' = 0, NEW S, UnderWay(S)
      PROVE  \A n \in S : \E m \in Memory : pc'[m] \in {"member", "reopen"} /\ added'[m]
  <2> SUFFICES ASSUME NEW n \in S
               PROVE  \E m \in Memory : pc'[m] \in {"member", "reopen"} /\ added'[m]
    OBVIOUS
  <2>1. PICK m \in Memory : pc[m] \in {"member", "reopen"} /\ added[m]
    BY <1>1 DEF UnderWay
  <2> QED BY <1>1, <2>1
<1>2. /\ faults' = 0 => (UnderWay(members \ seen) => UnderWay(members \ seen)')
      /\ faults' = 0 => (UnderWay(members \ view.members) => UnderWay(members \ view.members)')
  BY <1>1 DEF UnderWay
<1> QED BY <1>2 DEF Reviewed

LEMMA ReviewedStep ==
  ASSUME Inv, Reviewed, [Next]_vars
  PROVE  Reviewed'
<1>1. ASSUME NEW m \in Memory,
             \/ InsertEdge(m) \/ detect_graph_contradiction(m) \/ append_memory_ledger(m)
             \/ SupersedeDuplicates(m) \/ SupersedeState(m)
      PROVE  Reviewed'
  <2>1. /\ UNCHANGED <<status, version, founder, members, seen, view, added, faults>>
        /\ pc[m] \notin {"member", "reopen"}
        /\ \A n \in Memory \ {m} : pc'[n] = pc[n]
    BY <1>1 DEF InsertEdge, detect_graph_contradiction, append_memory_ledger,
                SupersedeDuplicates, SupersedeState, GoTo, set, reviewing, Inv, TypeOK
  <2> QED BY <2>1, QuietReview
<1>2. ASSUME NEW m \in Memory, FoundSet(m) PROVE Reviewed'
  <2>1. /\ UNCHANGED <<members, seen, view, added, faults>>
        /\ pc[m] = "found" /\ \A n \in Memory \ {m} : pc'[n] = pc[n]
    BY <1>2 DEF FoundSet, GoTo, reviewing, Inv, TypeOK
  <2>2. CASE status # "none"
    <3>1. UNCHANGED <<status, version, founder>>
      BY <1>2, <2>2 DEF FoundSet
    <3> QED BY <2>1, <3>1, QuietReview
  <2>3. CASE status = "none"
    <3>1. status' = "unresolved" /\ version' = 1 /\ founder' = m
      BY <1>2, <2>3 DEF FoundSet
    <3>2. view = Unread
      BY <2>3 DEF Reviewed
    <3> QED BY <2>1, <3>1, <3>2 DEF Reviewed, Unread
  <2> QED BY <2>2, <2>3
<1>3. ASSUME NEW m \in Memory, InsertMember(m) PROVE Reviewed'
  <2>1. PICK c \in queue[m] :
          /\ members' = members \union {c}
          /\ added' = [added EXCEPT ![m] = @ \/ c \notin members]
    BY <1>3 DEF InsertMember
  <2>2. /\ UNCHANGED <<status, version, founder, seen, view, faults>>
        /\ pc[m] = "member" /\ added[m] \in BOOLEAN
        /\ added'[m] = (added[m] \/ c \notin members)
        /\ added'[m] => pc'[m] \in {"member", "reopen"}
        /\ \A n \in Memory \ {m} : pc'[n] = pc[n] /\ added'[n] = added[n]
    BY <1>3, <2>1 DEF InsertMember, GoTo, reviewing, Inv, TypeOK
  <2>3. ASSUME NEW S, UnderWay(members \ S), NEW n \in (members \union {c}) \ S
        PROVE  \E k \in Memory : pc'[k] \in {"member", "reopen"} /\ added'[k]
    <3>1. CASE n \in members
      <4>1. PICK k \in Memory : pc[k] \in {"member", "reopen"} /\ added[k]
        BY <2>3, <3>1 DEF UnderWay
      <4> QED BY <2>2, <4>1
    <3>2. CASE n \notin members
      BY <2>2, <2>3, <3>2
    <3> QED BY <3>1, <3>2
  <2>4. /\ UnderWay(members \ seen) => UnderWay(members \ seen)'
        /\ UnderWay(members \ view.members) => UnderWay(members \ view.members)'
    BY <2>1, <2>2, <2>3 DEF UnderWay
  <2> QED BY <2>2, <2>4 DEF Reviewed
<1>4. ASSUME NEW m \in Memory, ReopenSet(m) PROVE Reviewed'
  <2>1. /\ UNCHANGED <<founder, members, seen, view, added, faults>>
        /\ status # "none" /\ version \in Nat /\ view.version \in Nat
        /\ founder # m => status' = "unresolved" /\ version' = version + 1
        /\ founder = m => UNCHANGED <<status, version>>
    BY <1>4 DEF ReopenSet, reviewing, Inv, TypeOK, CallOK, Adding
  <2> QED BY <2>1 DEF Reviewed
<1>5. ASSUME NEW m \in Memory, CallFails(m) PROVE Reviewed'
  <2>1. /\ UNCHANGED <<status, version, founder, members, seen, view>>
        /\ faults' # 0
    BY <1>5 DEF CallFails, set, reviewing, Inv, TypeOK
  <2> QED BY <2>1, QuietReview
<1>6. ASSUME NEW S \in SUBSET Memory, create_contradiction_set(S) PROVE Reviewed'
  <2>1. /\ status = "none" /\ status' = "unresolved" /\ version' = 1 /\ UNCHANGED view
    BY <1>6 DEF create_contradiction_set
  <2> QED BY <2>1 DEF Reviewed, Unread
<1>7. CASE get_contradiction_set
  <2>1. /\ UNCHANGED <<status, version, founder, members, seen, pc, added, faults>>
        /\ status # "none" /\ version \in Nat
        /\ view'.version = version /\ view'.members = members
    BY <1>7 DEF get_contradiction_set, set, calls, Inv, TypeOK
  <2>2. UnderWay(members \ seen) => UnderWay(members \ seen)'
    BY <2>1 DEF UnderWay
  <2>3. UnderWay(members \ view.members)'
    BY <2>1 DEF UnderWay
  <2> QED BY <2>1, <2>2, <2>3 DEF Reviewed
<1>8. ASSUME NEW s \in Statuses, update_contradiction_set(s) PROVE Reviewed'
  <2>1. /\ UNCHANGED <<founder, members, pc, added, faults>>
        /\ view # Unread /\ version = view.version /\ version \in Nat
        /\ status' = s /\ s # "none" /\ version' = version + 1
        /\ seen' = view.members /\ view' = Unread
    BY <1>8 DEF update_contradiction_set, calls, Inv, TypeOK, Statuses
  <2>2. UnderWay(members \ view.members) => UnderWay(members \ seen)'
    BY <2>1 DEF UnderWay
  <2> QED BY <2>1, <2>2 DEF Reviewed, Unread
<1>9. CASE reconcile_memory_graph
  <2>1. UNCHANGED <<set, calls, reviewing>>
    BY <1>9 DEF reconcile_memory_graph, PlanReconcile, ApplyUpdate, EndReconcile,
                ReconcileFails
  <2>2. faults' = 0 => faults = 0
    <3>1. UNCHANGED faults \/ faults' = faults + 1
      BY <1>9 DEF reconcile_memory_graph, PlanReconcile, ApplyUpdate, EndReconcile,
                  ReconcileFails
    <3>2. faults \in Nat
      BY ConstantsAssumption DEF Inv, TypeOK
    <3> QED BY <3>1, <3>2
  <2> QED BY <2>1, <2>2, QuietReview DEF set, calls, reviewing
<1>10. CASE UNCHANGED vars
  BY <1>10, QuietReview DEF vars, set, calls, reviewing
<1> QED BY <1>1, <1>2, <1>3, <1>4, <1>5, <1>6, <1>7, <1>8, <1>9, <1>10
        DEF Next, insert_memory_edge, Review

-----------------------------------------------------------------------------
(* Edges, in the order of their ids. *)

\* A new edge is the last one; the order of the others stays.
LEMMA AppendedIsLast ==
  ASSUME inserted \in Seq(Memory), NEW m \in Memory \ Stored, inserted' = Append(inserted, m)
  PROVE  /\ LastInserted' = m /\ Len(inserted') = Len(inserted) + 1
         /\ \A a, b : Newer(a, b) => Newer(a, b)'
         /\ (\A i, j \in 1..Len(inserted) : inserted[i] = inserted[j] => i = j)
              => \A i, j \in 1..Len(inserted') : inserted'[i] = inserted'[j] => i = j
<1>1. /\ Len(inserted') = Len(inserted) + 1 /\ Len(inserted) \in Nat
      /\ \A i \in 1..Len(inserted) : inserted'[i] = inserted[i]
      /\ inserted'[Len(inserted) + 1] = m
  OBVIOUS
<1>2. \A i \in 1..Len(inserted) : inserted[i] # m
  BY DEF Stored
<1>3. ASSUME NEW a, NEW b, Newer(a, b)
      PROVE  \E i, j \in 1..Len(inserted') : i > j /\ inserted'[i] = a /\ inserted'[j] = b
  <2>1. PICK i, j \in 1..Len(inserted) : i > j /\ inserted[i] = a /\ inserted[j] = b
    BY <1>3 DEF Newer
  <2>2. i \in 1..Len(inserted') /\ j \in 1..Len(inserted')
    BY <1>1
  <2> QED BY <1>1, <2>1, <2>2
<1>4. \A a, b : Newer(a, b) => Newer(a, b)'
  BY <1>3 DEF Newer
<1>5. LastInserted' = m
  BY <1>1 DEF LastInserted
<1>6. ASSUME \A i, j \in 1..Len(inserted) : inserted[i] = inserted[j] => i = j,
             NEW i \in 1..Len(inserted'), NEW j \in 1..Len(inserted'),
             inserted'[i] = inserted'[j]
      PROVE  i = j
  <2>1. i \in 1..Len(inserted) \/ i = Len(inserted) + 1
    BY <1>1
  <2>2. j \in 1..Len(inserted) \/ j = Len(inserted) + 1
    BY <1>1
  <2> QED BY <1>1, <1>2, <1>6, <2>1, <2>2
<1> QED BY <1>1, <1>4, <1>5, <1>6

\* The last edge is newer than all others, so no plan retires it.
LEMMA LastIsNewest ==
  ASSUME Ordered, inserted \in Seq(Memory), Stored # {}
  PROVE  /\ IsNewest(LastInserted, Stored)
         /\ \A u \in sweep.duplicates \union sweep.updates : u[1] # LastInserted
<1>1. Len(inserted) \in Nat /\ Len(inserted) # 0
  BY DEF Stored
<1>2. Len(inserted) \in 1..Len(inserted)
  BY <1>1
<1>3. LastInserted \in Stored
  BY <1>2 DEF LastInserted, Stored
<1>4. ASSUME NEW n \in Stored \ {LastInserted} PROVE Newer(LastInserted, n)
  <2>1. PICK j \in 1..Len(inserted) : inserted[j] = n
    BY DEF Stored
  <2>2. Len(inserted) > j
    BY <1>1, <1>4, <2>1 DEF LastInserted
  <2> QED BY <1>2, <2>1, <2>2 DEF Newer, LastInserted
<1>5. ASSUME NEW u \in sweep.duplicates \union sweep.updates, u[1] = LastInserted PROVE FALSE
  <2>1. PICK i, j \in 1..Len(inserted) : i > j /\ inserted[j] = LastInserted
    BY <1>5 DEF Ordered, Newer
  <2>2. j = Len(inserted)
    BY <1>2, <2>1 DEF Ordered, LastInserted
  <2> QED BY <1>1, <2>1, <2>2
<1> QED BY <1>3, <1>4, <1>5 DEF IsNewest

\* A plan retires an edge for a newer one.
LEMMA PlanIsOrdered ==
  \A u \in DuplicateUpdates \union StateUpdates : Newer(u[2], u[1])
<1>1. ASSUME NEW u \in DuplicateUpdates PROVE Newer(u[2], u[1])
  <2>1. /\ u[1] \in Active /\ u[1] # u[2] /\ IsNewest(u[2], SameTarget(u[1]))
    BY DEF DuplicateUpdates
  <2>2. u[1] \in SameTarget(u[1])
    BY <2>1 DEF SameTarget
  <2> QED BY <2>1, <2>2 DEF IsNewest
<1>2. ASSUME NEW u \in StateUpdates PROVE Newer(u[2], u[1])
  BY DEF StateUpdates, IsNewest
<1> QED BY <1>1, <1>2

\* What the statements that retire edges have in common.
LEMMA Retires ==
  ASSUME Inv, NEW m \in Memory, NEW S, S \subseteq Active, Superseding(m, S),
         UNCHANGED inserted
  PROVE  /\ Stored' = Stored /\ Active' = Active \ S
         /\ \A n \in Memory \ Stored : supersededBy'[n] = supersededBy[n]
<1>1. Stored' = Stored /\ Stored \subseteq Memory /\ S \subseteq Stored
  BY DEF Stored, Inv, TypeOK, Active
<1>2. \A n \in Memory : supersededBy'[n] = IF n \in S THEN m ELSE supersededBy[n]
  BY DEF Superseding
<1>3. m # None
  BY ConstantsAssumption
<1> QED BY <1>1, <1>2, <1>3 DEF Active

\* What a step is for the edges and for a plan over them.
Rests ==
  /\ UNCHANGED <<given, inserted, supersededBy, overlapped>>
  /\ Running' \subseteq Running
  /\ faults' = 0 => faults = 0 /\ Running' = Running
  /\ UNCHANGED sweep \/ EndReconcile \/ ReconcileFails

LEMMA EdgeSteps ==
  ASSUME Inv, [Next]_vars
  PROVE  \/ \E m \in Memory : InsertEdge(m)
         \/ \E m \in Memory : SupersedeDuplicates(m) \/ SupersedeState(m)
         \/ PlanReconcile \/ ApplyUpdate
         \/ Rests
<1>f. faults \in Nat
  BY ConstantsAssumption DEF Inv, TypeOK
<1>1. ASSUME NEW m \in Memory,
             \/ detect_graph_contradiction(m) \/ FoundSet(m) \/ InsertMember(m)
             \/ ReopenSet(m) \/ append_memory_ledger(m)
      PROVE  Rests
  <2>1. /\ UNCHANGED <<edges, overlapped, sweep, faults>>
        /\ pc[m] \in InFlight /\ pc'[m] \in InFlight
        /\ \A n \in Memory \ {m} : pc'[n] = pc[n]
    BY <1>1 DEF detect_graph_contradiction, FoundSet, InsertMember, ReopenSet,
                append_memory_ledger, GoTo, InFlight, Inv, TypeOK
  <2>2. Running' = Running
    BY <2>1 DEF Running
  <2> QED BY <2>1, <2>2 DEF Rests, edges
<1>2. ASSUME NEW m \in Memory, CallFails(m) PROVE Rests
  <2>1. /\ UNCHANGED <<edges, overlapped, sweep>> /\ faults' # 0
        /\ pc'[m] = "failed" /\ \A n \in Memory \ {m} : pc'[n] = pc[n]
    BY <1>2, <1>f DEF CallFails, GoTo, Inv, TypeOK
  <2>2. Running' \subseteq Running
    BY <2>1 DEF Running, InFlight
  <2> QED BY <2>1, <2>2 DEF Rests, edges
<1>3. CASE Review
  BY <1>3 DEF Review, create_contradiction_set, get_contradiction_set,
              update_contradiction_set, Rests, Running, edges, calls
<1>4. CASE EndReconcile \/ ReconcileFails
  <2>1. UNCHANGED <<edges, calls>> /\ (faults' = 0 => faults = 0)
    BY <1>4, <1>f DEF EndReconcile, ReconcileFails
  <2> QED BY <1>4, <2>1 DEF Rests, Running, edges, calls
<1>5. CASE UNCHANGED vars
  BY <1>5 DEF vars, Rests, Running, edges, calls
<1> QED BY <1>1, <1>2, <1>3, <1>4, <1>5 DEF Next, insert_memory_edge, reconcile_memory_graph

\* A supersede statement of a call, in the terms of the lemmas above.
LEMMA CallRetires ==
  ASSUME Inv, NEW m \in Memory, SupersedeDuplicates(m) \/ SupersedeState(m)
  PROVE  /\ UNCHANGED <<given, inserted, overlapped, sweep, faults>>
         /\ Stored' = Stored /\ Active' \subseteq Active
         /\ m \in Running /\ Running' \subseteq Running /\ Running \subseteq Running' \union {m}
         /\ m \in Active => m \in Active'
         /\ \A n \in Memory \ Stored : supersededBy'[n] = supersededBy[n]
         /\ m \in Running' \/ m \in closed \/ relation \notin Current
              \/ \A n \in Active' : TargetOf[n] = TargetOf[m]
<1>1. PICK S \in SUBSET Active :
        /\ S = IF SupersedeDuplicates(m) THEN SameTarget(m) \ {m} ELSE OtherTarget(m)
        /\ Superseding(m, S)
  <2>1. SameTarget(m) \ {m} \in SUBSET Active /\ OtherTarget(m) \in SUBSET Active
    BY DEF SameTarget, OtherTarget
  <2>2. CASE SupersedeDuplicates(m)
    BY <2>1, <2>2 DEF SupersedeDuplicates
  <2>3. CASE ~SupersedeDuplicates(m)
    BY <2>1, <2>3 DEF SupersedeState
  <2> QED BY <2>2, <2>3
<1>2. /\ UNCHANGED <<given, inserted, overlapped, sweep, faults>>
      /\ pc[m] \in InFlight /\ \A n \in Memory \ {m} : pc'[n] = pc[n]
  BY DEF SupersedeDuplicates, SupersedeState, GoTo, InFlight, Inv, TypeOK
<1>3. /\ Stored' = Stored /\ Active' = Active \ S
      /\ \A n \in Memory \ Stored : supersededBy'[n] = supersededBy[n]
  BY <1>1, <1>2, Retires
<1>4. m \in Running /\ Running' \subseteq Running /\ Running \subseteq Running' \union {m}
  BY <1>2 DEF Running
<1>5. m \notin S
  BY <1>1 DEF OtherTarget
<1>6. m \in Running' \/ m \in closed \/ relation \notin Current
        \/ \A n \in Active' : TargetOf[n] = TargetOf[m]
  <2>1. CASE SupersedeDuplicates(m)
    <3>1. pc'[m] = IF relation \in Current /\ m \notin closed THEN "supersede" ELSE "done"
      BY <2>1 DEF SupersedeDuplicates, GoTo, Inv, TypeOK
    <3> QED BY <3>1 DEF Running, InFlight
  <2>2. CASE ~SupersedeDuplicates(m)
    <3>1. S = OtherTarget(m)
      BY <1>1, <2>2
    <3> QED BY <1>3, <3>1 DEF OtherTarget
  <2> QED BY <2>1, <2>2
<1> QED BY <1>2, <1>3, <1>4, <1>5, <1>6

\* The statement of a reconciliation that retires an edge.
LEMMA PlanRetires ==
  ASSUME Inv, ApplyUpdate
  PROVE  \E u \in sweep.duplicates \union sweep.updates :
           /\ UNCHANGED <<given, inserted, overlapped, faults>>
           /\ Stored' = Stored /\ Active' = Active \ {u[1]} /\ Running' = Running
           /\ \A n \in Memory \ Stored : supersededBy'[n] = supersededBy[n]
           /\ sweep.stage = "apply"
           /\ sweep' = [sweep EXCEPT !.duplicates = @ \ {u}, !.updates = @ \ {u}]
<1>1. PICK u \in sweep.duplicates \union sweep.updates :
        /\ Superseding(u[2], {u[1]} \intersect Active)
        /\ sweep' = [sweep EXCEPT !.duplicates = @ \ {u}, !.updates = @ \ {u}]
  BY DEF ApplyUpdate
<1>2. /\ UNCHANGED <<given, inserted, overlapped, pc, faults>> /\ u[2] \in Memory
      /\ sweep.stage = "apply"
  BY <1>1 DEF ApplyUpdate, calls, Inv, TypeOK, Link
<1>3. /\ Stored' = Stored /\ Active' = Active \ ({u[1]} \intersect Active)
      /\ \A n \in Memory \ Stored : supersededBy'[n] = supersededBy[n]
  BY <1>1, <1>2, Retires
<1>4. Active \ ({u[1]} \intersect Active) = Active \ {u[1]}
  OBVIOUS
<1>5. Running' = Running
  BY <1>2 DEF Running
<1> QED BY <1>1, <1>2, <1>3, <1>4, <1>5

\* What an INSERT does to the edges.
LEMMA Inserts ==
  ASSUME Inv, Ordered, NEW m \in Memory, InsertEdge(m)
  PROVE  /\ UNCHANGED <<given, supersededBy, sweep, faults>>
         /\ m \notin Stored /\ Stored' = Stored \union {m} /\ Active' = Active \union {m}
         /\ Running' = Running \union {m}
         /\ overlapped' = (overlapped \/ Running # {})
         /\ LastInserted' = m /\ Len(inserted') = Len(inserted) + 1
<1>1. /\ UNCHANGED <<given, supersededBy, sweep, faults>>
      /\ overlapped' = (overlapped \/ Running # {}) /\ inserted' = Append(inserted, m)
      /\ pc[m] = "new" /\ pc'[m] \in InFlight /\ \A n \in Memory \ {m} : pc'[n] = pc[n]
  BY DEF InsertEdge, GoTo, InFlight, Inv, TypeOK
<1>2. m \notin Stored
  BY <1>1 DEF Inv, CallOK
<1>3. Stored' = Stored \union {m}
  BY <1>1, StoredAppend DEF Inv, TypeOK
<1>4. Active' = Active \union {m}
  BY <1>1, <1>2, <1>3 DEF Active, Ordered
<1>5. Running' = Running \union {m}
  BY <1>1 DEF Running
<1>6. LastInserted' = m /\ Len(inserted') = Len(inserted) + 1
  BY <1>1, <1>2, AppendedIsLast DEF Inv, TypeOK
<1> QED BY <1>1, <1>2, <1>3, <1>4, <1>5, <1>6

\* Nothing changes in the order of the ids.
LEMMA OrderFrame ==
  ASSUME Ordered, UNCHANGED inserted, Running' \subseteq Running,
         \A n \in Memory \ Stored : supersededBy'[n] = supersededBy[n],
         \A u \in sweep'.duplicates \union sweep'.updates : Newer(u[2], u[1])
  PROVE  Ordered'
<1>1. Stored' = Stored
  BY DEF Stored
<1>2. \A a, b : Newer(a, b)' <=> Newer(a, b)
  BY DEF Newer
<1>3. \A u \in (sweep.duplicates \union sweep.updates)' : Newer(u[2], u[1])'
  BY <1>2
<1> QED BY <1>1, <1>3 DEF Ordered

LEMMA OrderedStep ==
  ASSUME Inv, Ordered, [Next]_vars
  PROVE  Ordered'
<1>1. ASSUME NEW m \in Memory, InsertEdge(m) PROVE Ordered'
  <2>1. /\ UNCHANGED <<supersededBy, sweep>> /\ m \notin Stored
        /\ Stored' = Stored \union {m} /\ Running' = Running \union {m}
    BY <1>1, Inserts
  <2>2. /\ \A a, b : Newer(a, b) => Newer(a, b)'
        /\ \A i, j \in 1..Len(inserted') : inserted'[i] = inserted'[j] => i = j
    BY <1>1, <2>1, AppendedIsLast DEF InsertEdge, Ordered, Inv, TypeOK
  <2>3. \A u \in sweep'.duplicates \union sweep'.updates : Newer(u[2], u[1])'
    BY <2>1, <2>2 DEF Ordered
  <2> QED BY <2>1, <2>2, <2>3 DEF Ordered
<1>2. ASSUME NEW m \in Memory, SupersedeDuplicates(m) \/ SupersedeState(m) PROVE Ordered'
  BY <1>2, CallRetires, OrderFrame DEF Ordered
<1>3. CASE PlanReconcile
  <2>1. /\ UNCHANGED <<inserted, supersededBy, pc>>
        /\ sweep'.duplicates = DuplicateUpdates /\ sweep'.updates = StateUpdates
    BY <1>3 DEF PlanReconcile, edges, calls
  <2>2. Running' = Running
    BY <2>1 DEF Running
  <2> QED BY <2>1, <2>2, PlanIsOrdered, OrderFrame
<1>4. CASE ApplyUpdate
  <2>1. PICK u \in sweep.duplicates \union sweep.updates :
          /\ UNCHANGED inserted /\ Running' = Running
          /\ \A n \in Memory \ Stored : supersededBy'[n] = supersededBy[n]
          /\ sweep' = [sweep EXCEPT !.duplicates = @ \ {u}, !.updates = @ \ {u}]
    BY <1>4, PlanRetires
  <2>2. sweep'.duplicates \union sweep'.updates \subseteq sweep.duplicates \union sweep.updates
    BY <2>1 DEF Inv, TypeOK
  <2> QED BY <2>1, <2>2, OrderFrame DEF Ordered
<1>5. CASE Rests
  <2>1. sweep'.duplicates \union sweep'.updates \subseteq sweep.duplicates \union sweep.updates
    <3>1. \/ UNCHANGED sweep
          \/ sweep' = [sweep EXCEPT !.stage = "done"]
          \/ sweep' = [sweep EXCEPT !.stage = "failed", !.duplicates = {}, !.updates = {}]
      BY <1>5 DEF Rests, EndReconcile, ReconcileFails
    <3>2. sweep \in [stage : {"idle", "apply", "done", "failed"}, scanned : Nat,
                     duplicates : SUBSET Link, updates : SUBSET Link]
      BY DEF Inv, TypeOK
    <3>3. CASE UNCHANGED sweep
      BY <3>3
    <3>4. CASE sweep' = [sweep EXCEPT !.stage = "done"]
      BY <3>2, <3>4
    <3>5. CASE sweep' = [sweep EXCEPT !.stage = "failed", !.duplicates = {}, !.updates = {}]
      BY <3>2, <3>5
    <3> QED BY <3>1, <3>3, <3>4, <3>5
  <2> QED BY <1>5, <2>1, OrderFrame DEF Rests, Ordered
<1> QED BY <1>1, <1>2, <1>3, <1>4, <1>5, EdgeSteps

\* Fewer edges are active, and as many calls run as before.
LEMMA AloneFrame ==
  ASSUME Alone, UNCHANGED <<given, inserted, overlapped>>,
         Active' \subseteq Active, Running' \subseteq Running,
         LastInserted \in Active => LastInserted \in Active',
         faults' = 0 => faults = 0 /\ Running' = Running
  PROVE  Alone'
<1>1. Stored' = Stored /\ LastInserted' = LastInserted /\ closed' = closed /\ relation' = relation
  BY DEF Stored, LastInserted, given
<1> QED BY <1>1 DEF Alone

LEMMA AloneStep ==
  ASSUME Inv, Ordered, Alone, [Next]_vars
  PROVE  Alone'
<1>1. ASSUME NEW m \in Memory, InsertEdge(m) PROVE Alone'
  <2>1. /\ UNCHANGED <<given, faults>> /\ Active' = Active \union {m}
        /\ Running' = Running \union {m} /\ overlapped' = (overlapped \/ Running # {})
        /\ LastInserted' = m
    BY <1>1, Inserts
  <2> QED BY <2>1 DEF Alone, given
<1>2. ASSUME NEW m \in Memory, SupersedeDuplicates(m) \/ SupersedeState(m) PROVE Alone'
  <2>1. /\ UNCHANGED <<given, inserted, overlapped, faults>>
        /\ Stored' = Stored /\ Active' \subseteq Active
        /\ m \in Running /\ Running' \subseteq Running /\ Running \subseteq Running' \union {m}
        /\ m \in Active => m \in Active'
        /\ m \in Running' \/ m \in closed \/ relation \notin Current
             \/ \A n \in Active' : TargetOf[n] = TargetOf[m]
    BY <1>2, CallRetires
  <2>2. /\ LastInserted' = LastInserted /\ closed' = closed /\ relation' = relation
        /\ overlapped' = overlapped /\ faults' = faults
    BY <2>1 DEF LastInserted, given
  <2> SUFFICES ASSUME ~overlapped PROVE Alone'
    BY <2>2 DEF Alone
  <2>3. /\ m = LastInserted /\ (\A n \in Running : n = LastInserted) /\ (Stored # {} => LastInserted \in Active)
        /\ faults = 0 /\ relation \in Current =>
             \A k, n \in (Active \ closed) \ Running : TargetOf[k] = TargetOf[n]
    BY <2>1 DEF Alone
  <2>4. (\A n \in Running' : n = LastInserted') /\ (Stored' # {} => LastInserted' \in Active')
    BY <2>1, <2>2, <2>3
  <2>5. ASSUME faults' = 0, relation' \in Current
        PROVE  \A k, n \in (Active' \ closed') \ Running' : TargetOf[k] = TargetOf[n]
    <3>1. CASE m \in Running' \/ m \in closed
      <4>1. (Active' \ closed') \ Running' \subseteq (Active \ closed) \ Running
        BY <2>1, <2>2, <3>1
      <4> QED BY <2>2, <2>3, <2>5, <4>1
    <3>2. CASE \A n \in Active' : TargetOf[n] = TargetOf[m]
      BY <3>2
    <3> QED BY <2>1, <2>2, <2>5, <3>1, <3>2
  <2> QED BY <2>4, <2>5 DEF Alone
<1>3. CASE PlanReconcile
  <2>1. UNCHANGED <<given, inserted, supersededBy, overlapped, pc, faults>>
    BY <1>3 DEF PlanReconcile, edges, calls
  <2>2. Running' = Running /\ Active' = Active
    BY <2>1 DEF Running, Active, Stored
  <2> QED BY <2>1, <2>2, AloneFrame
<1>4. CASE ApplyUpdate
  <2>1. PICK u \in sweep.duplicates \union sweep.updates :
          /\ UNCHANGED <<given, inserted, overlapped, faults>>
          /\ Active' = Active \ {u[1]} /\ Running' = Running
    BY <1>4, PlanRetires
  <2>2. LastInserted \in Active => u[1] # LastInserted
    BY LastIsNewest DEF Inv, TypeOK, Active
  <2> QED BY <2>1, <2>2, AloneFrame
<1>5. CASE Rests
  <2>1. Active' = Active
    BY <1>5 DEF Rests, Active, Stored
  <2> QED BY <1>5, <2>1, AloneFrame DEF Rests
<1> QED BY <1>1, <1>2, <1>3, <1>4, <1>5, EdgeSteps

\* Fewer edges are active, and the plan is the same.
LEMMA PlannedFrame ==
  ASSUME Planned, UNCHANGED <<given, inserted, sweep>>, Active' \subseteq Active
  PROVE  Planned'
<1>1. \A m, n : Clash(m, n)' <=> Clash(m, n)
  BY DEF Clash, given
<1> QED BY <1>1 DEF Planned

\* The newest edge of a value retires the others, and the newest open edge of a
\* current state those of other values.
LEMMA PlanIsComplete ==
  ASSUME Inv, NEW m \in Active, NEW n \in Active, Clash(m, n)
  PROVE  \E u \in DuplicateUpdates \union StateUpdates : u[1] \in {m, n}
<1>1. Active \subseteq Stored /\ inserted \in Seq(Memory)
  BY DEF Active, Inv, TypeOK
<1>2. ASSUME NEW k \in Active, NEW l \in Active, k # l, TargetOf[k] = TargetOf[l]
      PROVE  \E u \in DuplicateUpdates : u[1] \in {k, l}
  <2>1. SameTarget(k) \subseteq Stored /\ k \in SameTarget(k) /\ SameTarget(k) = SameTarget(l)
    BY <1>1, <1>2 DEF SameTarget
  <2>2. PICK w \in SameTarget(k) : IsNewest(w, SameTarget(k))
    BY <1>1, <2>1, NewestExists
  <2>3. w \in Active
    BY DEF SameTarget
  <2>4. PICK x \in {k, l} : x # w
    BY <1>2
  <2>5. <<x, w>> \in DuplicateUpdates
    BY <2>1, <2>2, <2>3, <2>4 DEF DuplicateUpdates
  <2> QED BY <2>4, <2>5
<1>3. CASE TargetOf[m] = TargetOf[n]
  BY <1>2, <1>3 DEF Clash
<1>4. CASE TargetOf[m] # TargetOf[n]
  <2> DEFINE Rest == {k \in Active \ closed : \A u \in DuplicateUpdates : u[1] # k}
  <2>1. relation \in Current /\ m \notin closed /\ n \notin closed
    BY <1>4 DEF Clash
  <2>2. CASE {m, n} \subseteq Rest
    <3>1. Rest \subseteq Stored /\ Rest # {}
      BY <1>1, <2>2
    <3>2. PICK w \in Rest : IsNewest(w, Rest)
      BY <1>1, <3>1, NewestExists
    <3>3. PICK x \in {m, n} : TargetOf[x] # TargetOf[w]
      BY <1>4
    <3>4. <<x, w>> \in StateUpdates
      BY <2>1, <2>2, <3>2, <3>3 DEF StateUpdates
    <3> QED BY <3>3, <3>4
  <2>3. CASE ~({m, n} \subseteq Rest)
    BY <2>1, <2>3
  <2> QED BY <2>2, <2>3
<1> QED BY <1>3, <1>4

LEMMA PlannedStep ==
  ASSUME Inv, Ordered, Planned, [Next]_vars
  PROVE  Planned'
<1>n. Len(inserted) \in Nat /\ sweep.scanned \in Nat
  BY DEF Inv, TypeOK
<1>1. ASSUME NEW m \in Memory, InsertEdge(m) PROVE Planned'
  <2>1. UNCHANGED sweep /\ Len(inserted') = Len(inserted) + 1
    BY <1>1, Inserts
  <2> QED BY <1>n, <2>1 DEF Planned
<1>2. ASSUME NEW m \in Memory, SupersedeDuplicates(m) \/ SupersedeState(m) PROVE Planned'
  BY <1>2, CallRetires, PlannedFrame
<1>3. CASE PlanReconcile
  <2>1. /\ UNCHANGED <<given, inserted, supersededBy>>
        /\ sweep' = [stage |-> "apply", scanned |-> Len(inserted),
                     duplicates |-> DuplicateUpdates, updates |-> StateUpdates]
    BY <1>3 DEF PlanReconcile, edges
  <2>2. Active' = Active /\ \A m, n : Clash(m, n)' <=> Clash(m, n)
    BY <2>1 DEF Active, Stored, Clash, given
  <2> QED BY <1>n, <2>1, <2>2, PlanIsComplete DEF Planned
<1>4. CASE ApplyUpdate
  <2>1. PICK u \in sweep.duplicates \union sweep.updates :
          /\ UNCHANGED <<given, inserted>> /\ Active' = Active \ {u[1]}
          /\ sweep.stage = "apply"
          /\ sweep' = [sweep EXCEPT !.duplicates = @ \ {u}, !.updates = @ \ {u}]
    BY <1>4, PlanRetires
  <2>2. /\ sweep'.stage = "apply" /\ sweep'.scanned = sweep.scanned
        /\ sweep'.duplicates = sweep.duplicates \ {u} /\ sweep'.updates = sweep.updates \ {u}
    BY <2>1 DEF Inv, TypeOK
  <2>3. \A m, n : Clash(m, n)' <=> Clash(m, n)
    BY <2>1 DEF Clash, given
  <2>4. ASSUME sweep.scanned = Len(inserted), NEW m \in Active \ {u[1]}, NEW n \in Active \ {u[1]},
               Clash(m, n)
        PROVE  \E v \in sweep'.duplicates \union sweep'.updates : v[1] \in {m, n}
    <3>1. PICK v \in sweep.duplicates \union sweep.updates : v[1] \in {m, n}
      BY <2>1, <2>4 DEF Planned
    <3>2. v # u
      BY <3>1
    <3> QED BY <2>2, <3>1, <3>2
  <2> QED BY <2>1, <2>2, <2>3, <2>4 DEF Planned
<1>5. CASE Rests
  <2>1. Active' = Active
    BY <1>5 DEF Rests, Active, Stored
  <2>2. CASE UNCHANGED sweep
    BY <1>5, <2>1, <2>2, PlannedFrame DEF Rests
  <2>3. CASE EndReconcile
    <3>1. /\ UNCHANGED <<given, inserted>> /\ sweep.stage = "apply"
          /\ sweep.duplicates = {} /\ sweep.updates = {}
          /\ sweep' = [sweep EXCEPT !.stage = "done"]
      BY <2>3 DEF EndReconcile, edges
    <3>2. /\ sweep'.scanned = sweep.scanned
          /\ sweep'.duplicates = {} /\ sweep'.updates = {}
      BY <3>1 DEF Inv, TypeOK
    <3>3. \A m, n : Clash(m, n)' <=> Clash(m, n)
      BY <3>1 DEF Clash, given
    <3> QED BY <2>1, <3>1, <3>2, <3>3 DEF Planned
  <2>4. CASE ReconcileFails
    <3>1. /\ UNCHANGED inserted
          /\ sweep' = [sweep EXCEPT !.stage = "failed", !.duplicates = {}, !.updates = {}]
      BY <2>4 DEF ReconcileFails, edges
    <3>2. sweep'.scanned = sweep.scanned /\ sweep'.stage = "failed"
      BY <3>1 DEF Inv, TypeOK
    <3> QED BY <3>1, <3>2 DEF Planned
  <2> QED BY <1>5, <2>2, <2>3, <2>4 DEF Rests
<1> QED BY <1>1, <1>2, <1>3, <1>4, <1>5, EdgeSteps

\* The variables keep their types under every interleaving of calls, reviews
\* and a reconciliation; in particular no member is stored without a set's row.
THEOREM TypeCorrect == Spec => []TypeOK
<1>1. Inv => TypeOK
  BY DEF Inv
<1> QED BY <1>1, Invariance, PTL

\* Each of two insert_memory_edge calls reads the competing edges after its own
\* INSERT, so that one of them finds the other, and waits for its members to be
\* stored: when both have returned, both memories are members.
THEOREM CompetitorsFound == Spec => []CompetitorsAreMembers
<1>1. Inv => CompetitorsAreMembers
  <2> SUFFICES ASSUME Inv, relation \in Single,
                      NEW m \in Active \ closed, NEW n \in Active \ closed,
                      TargetOf[m] # TargetOf[n], pc[m] = "done", pc[n] = "done"
               PROVE  {m, n} \subseteq members
    BY DEF CompetitorsAreMembers
  <2>1. m \in Memory /\ n \in Memory
    BY ActiveTyped DEF Inv
  <2>2. m \in competing[n] \/ n \in competing[m]
    BY DEF Inv, Found
  <2>3. \A k \in {m, n} : /\ competing[k] \subseteq members
                          /\ competing[k] # {} => k \in competing[k]
    BY <2>1 DEF Inv, CallOK, Past
  <2> QED BY <2>2, <2>3
<1> QED BY <1>1, Invariance, PTL

\* Whichever call's INSERT stores a member, that call's ledger entry names all
\* its competing memories, so no member stays out of the ledger unless a call
\* fails between the two statements.
THEOREM MembersReported == Spec => []MembersAreReported
<1>1. Inv => MembersAreReported
  <2> SUFFICES ASSUME Inv, faults = 0, Quiet PROVE reported = members
    BY DEF MembersAreReported
  <2>1. \A m \in Memory : pc[m] \notin Adding
    BY DEF Quiet, Running, Adding, InFlight
  <2> QED BY <2>1 DEF Inv, Reporting
<1> QED BY <1>1, Invariance, PTL

\* update_contradiction_set compares versions, and a call that added a member
\* sets the status back and raises the version: while no call fails, a review of
\* the operator's set covers every member, or a call is about to undo it.
THEOREM ReviewsAreUndone == Spec => []UnseenMemberReopens
<1>1. Init => Reviewed
  BY DEF Init, Reviewed, Unread
<1>2. Inv /\ Reviewed /\ [Next]_vars => Reviewed'
  BY ReviewedStep
<1>3. Reviewed => UnseenMemberReopens
  <2> SUFFICES ASSUME Reviewed, faults = 0, Quiet, founder \notin Memory,
                      status \in Statuses \ {"unresolved"}
               PROVE  members \subseteq seen
    BY DEF UnseenMemberReopens
  <2>1. UnderWay(members \ seen)
    BY DEF Reviewed, Statuses
  <2> QED BY <2>1 DEF UnderWay, Quiet, Running, InFlight
<1> QED BY <1>1, <1>2, <1>3, Invariance, PTL DEF Spec

\* Edges are planned, retired and inserted in the order of their ids.
LEMMA OrderInvariance == Spec => []Ordered
<1>1. Init => Ordered
  <2> SUFFICES ASSUME Init PROVE Ordered
    OBVIOUS
  <2>1. Len(inserted) \in 0..1
    BY DEF Init
  <2>2. \A i, j \in 1..Len(inserted) : i = j
    BY <2>1
  <2>3. Running = {}
    BY DEF Init, Running, InFlight
  <2>4. sweep.duplicates \union sweep.updates = {}
    BY DEF Init
  <2>5. \A m \in Memory : supersededBy[m] = None
    BY DEF Init
  <2> QED BY <2>2, <2>3, <2>4, <2>5 DEF Ordered
<1>2. Inv /\ Ordered /\ [Next]_vars => Ordered'
  BY OrderedStep
<1> QED BY <1>1, <1>2, Invariance, PTL DEF Spec

\* insert_memory_edge retires the competing edges of a current-state relation
\* after its own INSERT, and reconcile_memory_graph only edges older than
\* another: of calls that do not overlap, the latest one's edge stays.
THEOREM LatestStaysCurrent == Spec => []CurrentFactIsLatest
<1>1. Init => Alone
  <2> SUFFICES ASSUME Init PROVE Alone
    OBVIOUS
  <2>1. Running = {}
    BY DEF Init, Running, InFlight
  <2>2. CASE Recorded = {}
    BY <2>1, <2>2 DEF Init, Alone, Stored, Active
  <2>3. CASE Recorded # {}
    <3>1. PICK m \in Recorded : inserted = <<m>>
      BY <2>3 DEF Init
    <3>2. Len(inserted) = 1 /\ inserted[1] = m /\ m \in Memory
      BY <3>1, ConstantsAssumption
    <3>3. Stored = {m} /\ LastInserted = m
      BY <3>2 DEF Stored, LastInserted
    <3>4. Active = {m}
      BY <3>2, <3>3 DEF Active, Init
    <3> QED BY <2>1, <3>3, <3>4 DEF Alone
  <2> QED BY <2>2, <2>3
<1>2. Inv /\ Ordered /\ Alone /\ [Next]_vars => Alone'
  BY AloneStep
<1>3. Inv /\ Ordered /\ Alone => CurrentFactIsLatest
  <2> SUFFICES ASSUME Inv, Ordered, Alone, faults = 0, Quiet, ~overlapped,
                      relation \in Current, Stored # {}
               PROVE  LatestIsCurrent
    BY DEF CurrentFactIsLatest
  <2>1. LastInserted \in Active /\ IsNewest(LastInserted, Stored)
    BY LastIsNewest DEF Alone, Inv, TypeOK
  <2>2. \A m, n \in Active \ closed : TargetOf[m] = TargetOf[n]
    BY DEF Alone, Quiet
  <2> QED BY <2>1, <2>2 DEF LatestIsCurrent
<1> QED BY <1>1, <1>2, <1>3, OrderInvariance, Invariance, PTL DEF Spec

\* reconcile_memory_graph plans for every pair of edges that must not stand side
\* by side, and its UPDATEs skip edges retired since: when all are done and
\* nothing was inserted meanwhile, no such pair is active.
THEOREM ReconciliationConverges == Spec => []ReconcileConverges
<1>1. Init => Planned
  <2> SUFFICES ASSUME Init PROVE Planned
    OBVIOUS
  <2>1. Len(inserted) \in Nat
    BY InvInit DEF Inv, TypeOK
  <2>2. sweep.stage = "idle" /\ sweep.scanned = 0
    BY DEF Init
  <2> QED BY <2>1, <2>2 DEF Planned
<1>2. Inv /\ Ordered /\ Planned /\ [Next]_vars => Planned'
  BY PlannedStep
<1>3. Planned => ReconcileConverges
  <2> SUFFICES ASSUME Planned, sweep.stage = "done", sweep.scanned = Len(inserted),
                      NEW m \in Active, NEW n \in Active, m # n
               PROVE  ~Clash(m, n)
    BY DEF ReconcileConverges, Clash
  <2> QED BY DEF Planned
<1> QED BY <1>1, <1>2, <1>3, OrderInvariance, Invariance, PTL DEF Spec

-----------------------------------------------------------------------------
(***************************************************************************)
(* The service.                                                            *)
(***************************************************************************)

(* Steps, and what a worker holds. *)

Views == {"ok", "both", "backed", "gated", "originals", "none"}

GateSteps   == [do : {"gate"}, soft : {FALSE}, hints : BOOLEAN, exact : BOOLEAN]
RefuseSteps ==
  [do : {"refuse"}, soft : {FALSE}, lists : SUBSET {"found", "ok", "hint", "back"}]
ReadSteps ==
  [do : {"find", "look", "handle", "owners", "chunks", "expand", "back", "select", "inject"},
   soft : BOOLEAN]

\* The steps of a recall, before it counts and answers.
Reads ==
  {"find", "look", "handle", "owners", "chunks", "expand", "back", "select", "inject",
   "gate", "refuse"}

CountSteps ==
  [do : {"count"}, soft : {TRUE}, kind : Delivery, of : Views, keyed : BOOLEAN]
AnswerSteps == [do : {"answer"}, soft : {TRUE}, of : Views]

InsertSteps   == [do : {"insert"}, soft : {FALSE}, text : SUBSET Fact]
DescribeSteps ==
  {s \in [do : {"describe"}, soft : {FALSE}, kind : Kind, user : BOOLEAN] :
     s.kind = "profile" => s.user}
StanceSteps   == [do : {"stance"}, soft : {FALSE}, stance : {"allow", "deny"}]
KindSteps     == [do : {"kind"}, soft : {FALSE}, handle : Handle]
DropSteps     == [do : {"drop"}, soft : {FALSE}, handle : Handle]
Readings      == UNION {[listed -> SUBSET Fact] : listed \in SUBSET Handle}
ReplaceSteps  == [do : {"replace"}, soft : {FALSE}, texts : Readings]
ReflectSteps  == [do : {"reflect"}, soft : {FALSE}, kind : Kind \ {"profile"}, apply : BOOLEAN]
SynthesizeSteps == [do : {"synthesize"}, soft : {FALSE}, apply : BOOLEAN]
ProposeSteps  ==
  [do : {"propose"}, soft : {FALSE}, group : SUBSET Handle, text : SUBSET Fact]
AppliedSteps  == [do : {"applied"}, soft : {FALSE}]
DemoteSteps   == [do : {"demote"}, soft : {TRUE}, group : SUBSET Handle]
OtherSteps    ==
  [do : {"catch", "delete", "sources", "keepfresh", "dreamt", "event"}, soft : BOOLEAN]

Writing ==
  InsertSteps \union DescribeSteps \union StanceSteps \union KindSteps \union DropSteps
    \union ReplaceSteps \union ReflectSteps \union SynthesizeSteps \union ProposeSteps \union AppliedSteps \union DemoteSteps
    \union OtherSteps

Steps ==
  ReadSteps \union GateSteps \union RefuseSteps \union CountSteps \union AnswerSteps \union Writing

Tasks ==
  [todo : Seq(Steps), about : 0 .. MaxHandle, found : SUBSET Handle, ok : SUBSET Handle,
   hint : SUBSET Handle, back : SUBSET Handle, orig : SUBSET Handle,
   counted : SUBSET (Delivery \X Handle \X BOOLEAN), answered : BOOLEAN,
   barred : SUBSET Handle, made : 0 .. MaxHandle, mark : 0 .. MaxTime,
   stale : SUBSET Handle, beyond : SUBSET Handle, alone : BOOLEAN, failed : BOOLEAN]

Proposals ==
  [group : SUBSET Handle, text : SUBSET Fact, by : Worker,
   status : {"proposed", "applied"}, made : 0 .. MaxHandle]

-----------------------------------------------------------------------------
(* The inductive invariant, one part for each question. *)

StoreTypes ==
  /\ now \in 1 .. MaxTime /\ next \in 1 .. (MaxHandle + 1)
  /\ Live \subseteq 1 .. (next - 1) /\ mem \in [Live -> Memories]
  /\ \A h \in Live : mem[h].made <= now

RecordTypes ==
  /\ counts \in [Delivery -> [Handle -> Nat]] /\ prepared \in [Delivery -> [Handle -> Nat]]
  /\ receipts \subseteq Delivery \X Handle /\ promised \subseteq Delivery \X Handle
  /\ proposals \in Seq(Proposals) /\ demoted \in [Handle -> Nat]
  /\ dreamt \in 0 .. now /\ events \subseteq 0 .. now
  /\ ops \in Nat /\ failures \in Nat

TaskTypes ==
  /\ task \in [Worker -> Tasks]
  /\ \A w \in Worker : /\ task[w].todo = <<>> => task[w] = Idle
                       /\ task[w].mark <= now

\* What was forgotten or denied when a call began still is, handles are not
\* reused, and no list of the call holds it once the gate has decided.
BarsHold(t) ==
  /\ t.barred \subseteq 1 .. (next - 1)
  /\ \A h \in t.barred : h \in Live => mem[h].stance = "deny"
  /\ (t.ok \union t.hint \union t.back \union t.orig) \intersect t.barred = {}

\* What counts and answers, or answers and counts: the last k steps.
Unkeyed(t) == \E c \in t.counted : c[3] = FALSE
Ends(t, k, x, y, z) ==
  \/ k = 1 /\ x.do = "answer"
  \/ k = 1 /\ x.do = "count" /\ t.answered /\ t.counted = {}
  \/ k = 2 /\ x.do = "answer" /\ y.do = "count" /\ t.counted = {}
  \/ /\ k = 2 /\ x.do = "count" /\ y.do = "answer" /\ ~t.answered
     /\ IF x.keyed THEN ~Unkeyed(t) ELSE t.counted = {}
  \/ /\ k = 3 /\ x.do = "count" /\ y.do = "count" /\ z.do = "answer"
     /\ x.keyed /\ y.keyed /\ ~t.answered /\ t.counted = {}
Closes(t, n) ==
  Ends(t, Len(t.todo) - n, t.todo[n + 1], t.todo[n + 2], t.todo[n + 3])

\* Nothing that may refuse comes between the counting and the answer.
NeverCounts(p) == \A i \in 1 .. Len(p) : p[i].do # "count"
CountsAndAnswers(t) ==
  \/ t.counted = {} /\ NeverCounts(t.todo)
  \/ \E n \in 0 .. Len(t.todo) :
       /\ \A i \in 1 .. n : t.todo[i].do \in Reads
       /\ n > 0 => t.counted = {} /\ ~t.answered
       /\ Closes(t, n)

\* A retried request has receipts for what it was promised or is about to be.
ReceiptsKept ==
  /\ promised \subseteq receipts
  /\ \A w \in Worker, k \in Delivery, h \in Handle :
       <<k, h, TRUE>> \in task[w].counted => <<k, h>> \in receipts

\* A consolidation comes before anything else a dream does: the proposal, its
\* memory, the mark and the feedback on the same group, in this order.
Consolidation == {"propose", "insert", "describe", "look", "applied", "demote"}
ConsolidatesInOrder(p) ==
  \A i \in 1 .. Len(p) :
    /\ p[i].do \in {"applied", "demote"} => \A j \in 1 .. i : p[j].do \in Consolidation
    /\ p[i].do = "demote" /\ i > 1 => p[i - 1].do = "applied"
    /\ p[i].do = "applied" =>
         /\ i < Len(p) /\ p[i + 1].do = "demote"
         /\ i > 1 => p[i - 1].do = "look"
         /\ i > 2 => p[i - 2].do = "describe"
         /\ i > 3 => p[i - 3].do = "insert"
         /\ i > 4 => /\ p[i - 4].do = "propose"
                     /\ p[i - 4].group = p[i + 1].group /\ p[i - 4].text = p[i - 3].text

\* The proposal of a worker's group is its latest.
IsLatest(w, l) ==
  /\ l \in 1 .. Len(proposals) /\ proposals[l].by = w
  /\ \A j \in (l + 1) .. Len(proposals) : proposals[j].by # w

AppliesNext(w, i) == i \in 1 .. Len(task[w].todo) /\ task[w].todo[i].do = "applied"

\* Whose consolidation is a memory that its proposal does not have yet.
HasMade(w) == \E i \in 1 .. 3 : AppliesNext(w, i)

\* Once the proposal is there, and then its memory, they wait for the mark.
ProposalWaits ==
  /\ \A w \in Worker, i \in 1 .. 4 :
       AppliesNext(w, i) =>
         \E l \in 1 .. Len(proposals) :
           /\ IsLatest(w, l) /\ proposals[l].status = "proposed"
           /\ proposals[l].group = task[w].todo[i + 1].group
           /\ i = 4 => proposals[l].text = task[w].todo[1].text
           /\ i < 4 => /\ task[w].made \in 1 .. (next - 1) \ proposals[l].group
                       /\ task[w].made \in Live => mem[task[w].made].text = proposals[l].text
  /\ \A v, w \in Worker : HasMade(v) /\ HasMade(w) /\ task[v].made = task[w].made => v = w
  /\ \A w \in Worker, l \in 1 .. Len(proposals) :
       HasMade(w) /\ proposals[l].status = "applied" => proposals[l].made # task[w].made

\* A group has been there when it was formed.
GroupsExisted ==
  /\ \A w \in Worker : \A i \in 1 .. Len(task[w].todo) :
       task[w].todo[i].do \in {"propose", "demote"} => task[w].todo[i].group \subseteq 1 .. (next - 1)
  /\ \A l \in 1 .. Len(proposals) : proposals[l].group \subseteq 1 .. (next - 1)

Applied(h) ==
  {l \in 1 .. Len(proposals) : proposals[l].status = "applied" /\ h \in proposals[l].group}
Demoting(h) == {w \in Worker : At(w, "demote") /\ h \in Now(w).group}

\* Feedback given, and feedback about to be given, is for applied proposals.
FeedbackAccounted ==
  \A h \in Handle : demoted[h] + Cardinality(Demoting(h)) <= Cardinality(Applied(h))

\* A regeneration reads the kinds of its sources and is set up; then it drops,
\* inserts and describes.
ReplacesInOrder(p) ==
  \A i \in 1 .. Len(p) :
    /\ p[i].do \in {"kind", "drop"} => \A j \in 1 .. i : p[j].do = p[i].do
    /\ p[i].do = "replace" => \A j \in 1 .. (i - 1) : p[j].do = "kind"
    /\ p[i].do = "describe" /\ p[i].kind = "profile" =>
         \A j \in 1 .. (i - 1) : p[j].do \in {"drop", "insert"}

\* A regeneration that is alone has still to drop every profile that was not
\* beyond the memories it has listed, or to learn that it is one.
ToDrop(t, h) ==
  \E i \in 1 .. Len(t.todo) :
    \/ t.todo[i].do \in {"kind", "drop"} /\ t.todo[i].handle = h
    \/ t.todo[i].do = "replace" /\ h \in t.stale
AloneReplaces ==
  \A w \in Worker :
    task[w].alone /\ Regenerating(w) =>
      /\ \A v \in Worker \ {w} : ~Regenerating(v)
      /\ \A h \in Profiles \ task[w].beyond : ToDrop(task[w], h)

Programs ==
  \A w \in Worker : /\ BarsHold(task[w]) /\ CountsAndAnswers(task[w])
                    /\ ConsolidatesInOrder(task[w].todo) /\ ReplacesInOrder(task[w].todo)

ServiceInv ==
  /\ StoreTypes /\ RecordTypes /\ TaskTypes /\ Programs
  /\ ReceiptsKept /\ CountedOncePerRequest
  /\ GroupsExisted /\ ProposalWaits /\ AppliedIsRemembered /\ FeedbackAccounted
  /\ AloneReplaces
-----------------------------------------------------------------------------
(* Sequences and sets. *)

\* A finite set in some order: every element once.
LEMMA SetInOrder ==
  ASSUME NEW S, IsFiniteSet(S)
  PROVE  /\ Cardinality(S) \in Nat
         /\ SetToSeq(S) \in [1 .. Cardinality(S) -> S]
         /\ IsInjective(SetToSeq(S))
         /\ \A x \in S : \E i \in 1 .. Cardinality(S) : SetToSeq(S)[i] = x
<1> DEFINE n == Cardinality(S)
           s == SetToSeq(S)
<1>1. n \in Nat /\ \E f : f \in Bijection(1 .. n, S)
  BY FS_CardinalityType DEF ExistsBijection
<1>2. \E f \in [1 .. n -> S] : IsInjective(f)
  BY <1>1 DEF Bijection, Injection, IsInjective
<1>3. s \in [1 .. n -> S] /\ IsInjective(s)
  BY <1>2, Zenon DEF SetToSeq
<1>4. ASSUME NEW x \in S, \A i \in 1 .. n : s[i] # x
      PROVE  FALSE
  <2> DEFINE R == S \ {x}
  <2>1. IsFiniteSet(R) /\ Cardinality(R) = n - 1
    BY <1>4, FS_RemoveElement
  <2>2. s \in Injection(1 .. n, R)
    BY <1>3, <1>4 DEF Injection, IsInjective
  <2>3. IsFiniteSet(1 .. n) /\ Cardinality(1 .. n) = n
    BY <1>1, FS_Interval
  <2> HIDE DEF R, s, n
  <2>4. Cardinality(1 .. n) <= Cardinality(R)
    BY <2>1, <2>2, FS_Injection
  <2> QED BY <1>1, <2>1, <2>3, <2>4
<1> QED BY <1>1, <1>3, <1>4

\* Each puts programs of one length one after the other.
LEMMA EachInTurn ==
  ASSUME NEW D, IsFiniteSet(D), NEW S, NEW n \in {1, 6}, NEW program \in [D -> Seq(S)],
         \A g \in D : Len(program[g]) = n
  PROVE  /\ Each(program) \in Seq(S)
         /\ \A i \in 1 .. Len(Each(program)) :
              \E g \in D, b \in Nat :
                /\ i \in (b + 1) .. (b + n) /\ b + n <= Len(Each(program))
                /\ \A r \in 1 .. n : Each(program)[b + r] = program[g][r]
<1>1. CASE D = {}
  <2>1. Each(program) = <<>>
    BY <1>1 DEF Each
  <2> QED BY <2>1
<1>2. CASE D # {}
  <2> DEFINE order == SetToSeq(D)
             c == Cardinality(D)
             Place(i) == program[order[1 + ((i - 1) \div n)]][1 + ((i - 1) % n)]
             e == [i \in 1 .. (n * c) |-> Place(i)]
  <2>1. c \in Nat /\ order \in [1 .. c -> D]
    BY SetInOrder, Zenon
  <2>2. c >= 1
    BY <1>2, <2>1, SetInOrder
  <2>3. Len(order) = c /\ Len(program[order[1]]) = n
    <3>1. Len(order) = c
      BY <2>1
    <3>2. order[1] \in D
      BY SMTT(30), <2>1, <2>2
    <3> QED BY <3>1, <3>2
  <2>4. Each(program) = e
    <3>1. DOMAIN program = D
      OBVIOUS
    <3> QED BY <1>2, <2>3, <3>1 DEF Each
  <2>5. n * c \in Nat
    BY <2>1
  <2>6. \A i \in 1 .. (n * c) : /\ 1 + ((i - 1) \div n) \in 1 .. c
                                /\ 1 + ((i - 1) % n) \in 1 .. n
                                /\ n * ((i - 1) \div n) \in Nat
                                /\ i = n * ((i - 1) \div n) + (1 + ((i - 1) % n))
                                /\ n * ((i - 1) \div n) + n <= n * c
    BY <2>1, <2>2
  <2>7. \A i \in 1 .. (n * c) : order[1 + ((i - 1) \div n)] \in D
    BY <2>1, <2>6
  <2>8. \A i \in 1 .. (n * c) : Place(i) \in S
    <3> TAKE i \in 1 .. (n * c)
    <3> DEFINE g == order[1 + ((i - 1) \div n)]
               r == 1 + ((i - 1) % n)
    <3>1. g \in D /\ r \in 1 .. n
      BY <2>6, <2>7
    <3> HIDE DEF g, r
    <3>2. program[g] \in Seq(S) /\ Len(program[g]) = n
      BY <3>1
    <3>3. program[g][r] \in S
      BY <3>1, <3>2
    <3> QED BY <3>3 DEF g, r
  <2>9. e \in Seq(S) /\ Len(e) = n * c
    <3> HIDE DEF Place
    <3> QED BY <2>5, <2>8
  <2>10. ASSUME NEW i \in 1 .. (n * c)
         PROVE  \E g \in D, b \in Nat :
                  /\ i \in (b + 1) .. (b + n) /\ b + n <= n * c
                  /\ \A r \in 1 .. n : e[b + r] = program[g][r]
    <3> DEFINE q == (i - 1) \div n
               b == n * q
               g == order[1 + q]
    <3>1. /\ q \in Nat /\ b \in Nat /\ g \in D
          /\ i \in (b + 1) .. (b + n) /\ b + n <= n * c
      BY <2>1, <2>2, <2>6, <2>7
    <3>2. ASSUME NEW r \in 1 .. n
          PROVE  e[b + r] = program[g][r]
      <4>1. b + r \in 1 .. (n * c)
        BY <2>1, <3>1
      <4>2. ((b + r) - 1) \div n = q /\ 1 + (((b + r) - 1) % n) = r
        <5> HIDE DEF q
        <5> QED BY <3>1
      <4> HIDE DEF q, b
      <4> QED BY <4>1, <4>2
    <3> HIDE DEF e, b, g, q
    <3> QED BY <3>1, <3>2
  <2> HIDE DEF e
  <2> QED BY <2>4, <2>9, <2>10
<1> QED BY <1>1, <1>2

LEMMA LeastOf ==
  ASSUME NEW S \in SUBSET Nat, S # {}
  PROVE  \E k \in S : \A l \in S : k <= l
<1>1. PICK k \in S : \A l \in S : <<l, k>> \notin OpToRel(<, Nat)
  BY WFMin, NatLessThanWellFounded
<1>2. \A l \in S : k <= l
  <2> TAKE l \in S
  <2>1. l \in Nat /\ k \in Nat /\ ~ (l < k)
    BY <1>1 DEF OpToRel
  <2> QED BY <2>1
<1> QED BY <1>2

LEMMA GreatestOf ==
  ASSUME NEW n \in Nat, NEW S \in SUBSET (1 .. n), S # {}
  PROVE  \E k \in S : \A l \in S : l <= k
<1> DEFINE R == {d \in 0 .. n : n - d \in S}
<1>1. R \in SUBSET Nat /\ R # {}
  <2>1. PICK k : k \in S
    OBVIOUS
  <2>2. n - k \in R
    BY <2>1
  <2> QED BY <2>2
<1> HIDE DEF R
<1>2. PICK d \in R : \A c \in R : d <= c
  BY <1>1, LeastOf
<1>3. d \in 0 .. n /\ n - d \in S
  BY DEF R
<1>4. \A l \in S : n - l \in R
  BY DEF R
<1>5. \A l \in S : l <= n - d
  BY <1>2, <1>3, <1>4
<1> QED BY <1>3, <1>5

-----------------------------------------------------------------------------
(* What is left of a program. *)

LEMMA Rest ==
  ASSUME NEW S, NEW p \in Seq(S), p # <<>>
  PROVE  /\ Len(p) \in Nat \ {0} /\ Head(p) = p[1] /\ p[1] \in S
         /\ Tail(p) \in Seq(S) /\ Len(Tail(p)) = Len(p) - 1
         /\ \A i \in 1 .. Len(Tail(p)) : Tail(p)[i] = p[i + 1]
BY HeadTailProperties

Resumes(q, p) ==
  \/ q = <<>>
  \/ \E c \in 1 .. Len(p) :
       /\ p[c].do = "catch" /\ Len(q) = Len(p) - c
       /\ \A i \in 1 .. (Len(p) - c) : q[i] = p[c + i]

LEMMA AfterErrorResumes ==
  ASSUME NEW S, NEW p \in Seq(S)
  PROVE  AfterError(p) \in Seq(S) /\ Resumes(AfterError(p), p)
<1>1. CASE ~ \E i \in DOMAIN p : p[i].do = "catch"
  <2>1. AfterError(p) = <<>>
    BY SMTT(30), <1>1 DEF AfterError
  <2> QED BY <2>1 DEF Resumes
<1>2. CASE \E i \in DOMAIN p : p[i].do = "catch"
  <2> DEFINE C == {i \in DOMAIN p : p[i].do = "catch"}
             First(i) == /\ p[i].do = "catch"
                         /\ \A j \in 1 .. (i - 1) : p[j].do # "catch"
             c == CHOOSE i \in DOMAIN p : First(i)
  <2>1. C \in SUBSET Nat /\ C # {} /\ DOMAIN p = 1 .. Len(p) /\ Len(p) \in Nat
    BY <1>2
  <2>2. PICK k \in C : \A l \in C : k <= l
    <3> HIDE DEF C
    <3> QED BY <2>1, LeastOf
  <2>3. k \in DOMAIN p /\ First(k)
    BY <2>1, <2>2
  <2>4. c \in DOMAIN p /\ First(c)
    <3> HIDE DEF First
    <3> QED BY <2>3
  <2>5. AfterError(p) = SubSeq(p, c + 1, Len(p))
    BY <1>2 DEF AfterError
  <2> HIDE DEF c
  <2>6. /\ SubSeq(p, c + 1, Len(p)) \in Seq(S)
        /\ Len(SubSeq(p, c + 1, Len(p))) = Len(p) - c
        /\ \A i \in 1 .. (Len(p) - c) : SubSeq(p, c + 1, Len(p))[i] = p[c + i]
    <3> DEFINE m == c + 1
               n == Len(p)
    <3>1. c \in 1 .. n /\ m \in Int /\ n \in Int /\ \A i \in m .. n : p[i] \in S
      BY <2>1, <2>4
    <3> HIDE DEF n
    <3>2. /\ SubSeq(p, m, n) \in Seq(S)
          /\ Len(SubSeq(p, m, n)) = IF m <= n THEN n - m + 1 ELSE 0
          /\ \A i \in 1 .. (n - m + 1) : SubSeq(p, m, n)[i] = p[m + i - 1]
      <4> HIDE DEF m
      <4> QED BY <3>1, SubSeqProperties
    <3>3. \A i \in 1 .. (n - c) : SubSeq(p, m, n)[i] = p[c + i]
      <4> TAKE i \in 1 .. (n - c)
      <4>1. i \in 1 .. (n - m + 1) /\ m + i - 1 = c + i
        BY <3>1
      <4> QED BY <3>2, <4>1
    <3>4. Len(SubSeq(p, m, n)) = n - c
      BY <3>1, <3>2
    <3> QED BY <3>2, <3>3, <3>4 DEF n
  <2> QED BY <2>1, <2>4, <2>5, <2>6 DEF Resumes
<1> QED BY <1>1, <1>2

-----------------------------------------------------------------------------
(* The order of a program's steps. *)

InOrder(p) == ConsolidatesInOrder(p) /\ ReplacesInOrder(p)
Regenerates(s) == s.do = "replace" \/ (s.do = "describe" /\ s.kind = "profile")

\* A program that neither finishes a consolidation nor replaces the profile.
Steady(p) ==
  \A i \in 1 .. Len(p) :
    p[i].do \notin {"applied", "demote", "kind", "drop"} /\ ~Regenerates(p[i])

LEMMA SteadyInOrder ==
  ASSUME NEW p, Steady(p)
  PROVE  InOrder(p)
BY DEF Steady, InOrder, ConsolidatesInOrder, ReplacesInOrder, Regenerates

LEMMA EmptySteady == Steady(<<>>)
BY DEF Steady

LEMMA SteadyFrom ==
  ASSUME NEW p \in Seq(Steps), p # <<>>, InOrder(p),
         p[1].do \notin Consolidation \union {"kind", "replace", "drop"}
  PROVE  Steady(p)
<1>1. Len(p) \in Nat /\ Len(p) >= 1
  BY Rest
<1>2. \A i \in 1 .. Len(p) : p[i].do \notin {"applied", "demote"}
  BY <1>1 DEF InOrder, ConsolidatesInOrder
<1>3. \A i \in 1 .. Len(p) : p[i].do \notin {"kind", "drop"}
  BY <1>1 DEF InOrder, ReplacesInOrder
<1>4. \A i \in 1 .. Len(p) : ~Regenerates(p[i])
  <2> TAKE i \in 1 .. Len(p)
  <2>1. CASE i = 1
    BY <2>1 DEF Regenerates, Consolidation
  <2>2. CASE i # 1
    <3>1. 1 \in 1 .. (i - 1) /\ p[1].do \notin {"kind", "drop", "insert"}
      BY <1>1, <2>2 DEF Consolidation
    <3> QED BY <3>1 DEF Regenerates, InOrder, ReplacesInOrder
  <2> QED BY <2>1, <2>2
<1> QED BY <1>2, <1>3, <1>4 DEF Steady

LEMMA SteadyRest ==
  ASSUME NEW p \in Seq(Steps), p # <<>>, Steady(p)
  PROVE  Steady(Tail(p))
<1> DEFINE q == Tail(p)
<1>1. /\ Len(p) \in Nat /\ Len(q) = Len(p) - 1
      /\ \A i \in 1 .. Len(q) : q[i] = p[i + 1]
  BY Rest
<1> HIDE DEF q
<1>2. \A i \in 1 .. Len(q) : i + 1 \in 1 .. Len(p)
  BY <1>1
<1>3. Steady(q)
  BY <1>1, <1>2 DEF Steady
<1> QED BY <1>3 DEF q

LEMMA SteadyBehind ==
  ASSUME NEW p \in Seq(Steps), p # <<>>, InOrder(p),
         p[1].do \notin Consolidation \union {"kind", "drop"}
  PROVE  Steady(Tail(p))
<1>1. CASE p[1].do # "replace"
  BY <1>1, SteadyFrom, SteadyRest
<1>2. CASE p[1].do = "replace"
  <2> DEFINE q == Tail(p)
  <2>1. /\ Len(p) \in Nat \ {0} /\ Len(q) = Len(p) - 1
        /\ \A i \in 1 .. Len(q) : q[i] = p[i + 1]
    BY Rest
  <2> HIDE DEF q
  <2>2. SUFFICES ASSUME NEW i \in 1 .. Len(q)
                 PROVE  /\ q[i].do \notin {"applied", "demote", "kind", "drop"}
                        /\ ~Regenerates(q[i])
    BY DEF Steady, q
  <2> DEFINE k == i + 1
  <2>3. k \in 1 .. Len(p) /\ 1 \in 1 .. k /\ 1 \in 1 .. (k - 1) /\ q[i] = p[k]
    BY <2>1
  <2> HIDE DEF k
  <2>4. p[k].do \notin {"applied", "demote"}
    BY <2>3 DEF InOrder, ConsolidatesInOrder
  <2>5. p[k].do \notin {"kind", "drop"} /\ ~Regenerates(p[k])
    BY <1>2, <2>3 DEF InOrder, ReplacesInOrder, Regenerates
  <2> QED BY <2>3, <2>4, <2>5
<1> QED BY <1>1, <1>2

LEMMA SteadyResumes ==
  ASSUME NEW p \in Seq(Steps), InOrder(p), NEW q, Resumes(q, p)
  PROVE  Steady(q)
<1>1. CASE q = <<>>
  BY <1>1, EmptySteady
<1>2. ASSUME NEW c \in 1 .. Len(p), p[c].do = "catch", Len(q) = Len(p) - c,
             \A i \in 1 .. (Len(p) - c) : q[i] = p[c + i]
      PROVE  Steady(q)
  <2>1. SUFFICES ASSUME NEW i \in 1 .. Len(q)
                 PROVE  /\ q[i].do \notin {"applied", "demote", "kind", "drop"}
                        /\ ~Regenerates(q[i])
    BY DEF Steady
  <2>2. c + i \in 1 .. Len(p) /\ c \in 1 .. ((c + i) - 1) /\ c \in 1 .. (c + i) /\ q[i] = p[c + i]
    BY <1>2
  <2>3. p[c + i].do \notin {"applied", "demote"}
    BY <1>2, <2>2 DEF InOrder, ConsolidatesInOrder, Consolidation
  <2>4. p[c + i].do \notin {"kind", "drop"} /\ ~Regenerates(p[c + i])
    BY <1>2, <2>2 DEF InOrder, ReplacesInOrder, Regenerates
  <2> QED BY <2>2, <2>3, <2>4
<1> QED BY <1>1, <1>2 DEF Resumes

LEMMA InOrderRest ==
  ASSUME NEW p \in Seq(Steps), p # <<>>, InOrder(p)
  PROVE  InOrder(Tail(p))
<1> DEFINE q == Tail(p)
<1>1. /\ Len(p) \in Nat \ {0} /\ Len(q) = Len(p) - 1
      /\ \A i \in 1 .. Len(q) : q[i] = p[i + 1]
  BY Rest
<1> HIDE DEF q
<1>2. ASSUME NEW i \in 1 .. Len(q), q[i].do \in {"applied", "demote"}
      PROVE  \A j \in 1 .. i : q[j].do \in Consolidation
  <2>1. i + 1 \in 1 .. Len(p) /\ p[i + 1].do \in {"applied", "demote"}
    BY <1>1, <1>2
  <2>2. \A j \in 1 .. (i + 1) : p[j].do \in Consolidation
    BY <2>1 DEF InOrder, ConsolidatesInOrder
  <2> QED BY <1>1, <2>2
<1>3. ASSUME NEW i \in 1 .. Len(q), q[i].do = "demote", i > 1
      PROVE  q[i - 1].do = "applied"
  <2>1. i + 1 \in 1 .. Len(p) /\ p[i + 1].do = "demote" /\ q[i - 1] = p[i] /\ (i + 1) - 1 = i
    BY <1>1, <1>3
  <2> QED BY <2>1, <1>3 DEF InOrder, ConsolidatesInOrder
<1>4. ASSUME NEW i \in 1 .. Len(q), q[i].do = "applied"
      PROVE  /\ i < Len(q) /\ q[i + 1].do = "demote"
             /\ i > 1 => q[i - 1].do = "look"
             /\ i > 2 => q[i - 2].do = "describe"
             /\ i > 3 => q[i - 3].do = "insert"
             /\ i > 4 => /\ q[i - 4].do = "propose"
                         /\ q[i - 4].group = q[i + 1].group /\ q[i - 4].text = q[i - 3].text
  <2> DEFINE k == i + 1
  <2>1. k \in 1 .. Len(p) /\ p[k].do = "applied"
    BY <1>1, <1>4
  <2>2. /\ k < Len(p) /\ p[k + 1].do = "demote"
        /\ k > 1 => p[k - 1].do = "look"
        /\ k > 2 => p[k - 2].do = "describe"
        /\ k > 3 => p[k - 3].do = "insert"
        /\ k > 4 => /\ p[k - 4].do = "propose"
                    /\ p[k - 4].group = p[k + 1].group /\ p[k - 4].text = p[k - 3].text
    <3> HIDE DEF k
    <3> QED BY <2>1 DEF InOrder, ConsolidatesInOrder
  <2>3. i + 1 \in 1 .. Len(q) /\ q[i + 1] = p[k + 1] /\ i < Len(q)
    BY <1>1, <2>2
  <2>4. \A j \in 1 .. 4 : i > j => q[i - j] = p[k - j]
    <3> TAKE j \in 1 .. 4
    <3>1. i > j => i - j \in 1 .. Len(q) /\ (i - j) + 1 = k - j
      BY <1>1
    <3> QED BY <1>1, <3>1
  <2> QED BY <2>2, <2>3, <2>4
<1>5. ConsolidatesInOrder(q)
  BY <1>2, <1>3, <1>4 DEF ConsolidatesInOrder
<1>6. ASSUME NEW i \in 1 .. Len(q), q[i].do \in {"kind", "drop"}
      PROVE  \A j \in 1 .. i : q[j].do = q[i].do
  <2>1. i + 1 \in 1 .. Len(p) /\ p[i + 1].do = q[i].do
    BY <1>1, <1>6
  <2>2. \A j \in 1 .. (i + 1) : p[j].do = q[i].do
    BY <2>1, <1>6 DEF InOrder, ReplacesInOrder
  <2> QED BY <1>1, <2>2
<1>7. ASSUME NEW i \in 1 .. Len(q), q[i].do = "describe", q[i].kind = "profile"
      PROVE  \A j \in 1 .. (i - 1) : q[j].do \in {"drop", "insert"}
  <2>1. i + 1 \in 1 .. Len(p) /\ p[i + 1].do = "describe" /\ p[i + 1].kind = "profile"
    BY <1>1, <1>7
  <2>2. \A j \in 1 .. ((i + 1) - 1) : p[j].do \in {"drop", "insert"}
    BY <2>1 DEF InOrder, ReplacesInOrder
  <2> QED BY <1>1, <2>2
<1>8. ASSUME NEW i \in 1 .. Len(q), q[i].do = "replace"
      PROVE  \A j \in 1 .. (i - 1) : q[j].do = "kind"
  <2>1. i + 1 \in 1 .. Len(p) /\ p[i + 1].do = "replace"
    BY <1>1, <1>8
  <2>2. \A j \in 1 .. ((i + 1) - 1) : p[j].do = "kind"
    BY <2>1 DEF InOrder, ReplacesInOrder
  <2> QED BY <1>1, <2>2
<1>9. ReplacesInOrder(q)
  BY <1>6, <1>7, <1>8 DEF ReplacesInOrder
<1> QED BY <1>5, <1>9 DEF InOrder, q

\* What is put in front of a quiet program keeps its order.
LEMMA InOrderBefore ==
  ASSUME NEW s \in Seq(Steps), NEW r \in Seq(Steps), InOrder(s), Steady(r)
  PROVE  InOrder(s \o r)
<1> DEFINE q == s \o r
<1>1. /\ Len(s) \in Nat /\ Len(r) \in Nat /\ Len(q) = Len(s) + Len(r)
      /\ \A i \in 1 .. Len(s) : q[i] = s[i]
      /\ \A i \in (Len(s) + 1) .. Len(q) : q[i] = r[i - Len(s)] /\ i - Len(s) \in 1 .. Len(r)
  OBVIOUS
<1> HIDE DEF q
<1>2. \A i \in 1 .. Len(q) :
        \/ i \in 1 .. Len(s)
        \/ q[i].do \notin {"applied", "demote", "kind", "drop"} /\ ~Regenerates(q[i])
  BY SMTT(30), <1>1 DEF Steady
<1>3. ConsolidatesInOrder(q)
  <2>1. SUFFICES ASSUME NEW i \in 1 .. Len(s)
        PROVE
    /\ q[i].do \in {"applied", "demote"} => \A j \in 1 .. i : q[j].do \in Consolidation
    /\ q[i].do = "demote" /\ i > 1 => q[i - 1].do = "applied"
    /\ q[i].do = "applied" =>
         /\ i < Len(q) /\ q[i + 1].do = "demote"
         /\ i > 1 => q[i - 1].do = "look"
         /\ i > 2 => q[i - 2].do = "describe"
         /\ i > 3 => q[i - 3].do = "insert"
         /\ i > 4 => /\ q[i - 4].do = "propose"
                     /\ q[i - 4].group = q[i + 1].group /\ q[i - 4].text = q[i - 3].text
    BY <1>2 DEF ConsolidatesInOrder
  <2>2. q[i] = s[i] /\ \A j \in 1 .. i : q[j] = s[j]
    BY <1>1
  <2>3. s[i].do = "applied" => i + 1 \in 1 .. Len(s) /\ q[i + 1] = s[i + 1]
    BY <1>1 DEF InOrder, ConsolidatesInOrder
  <2>4. \A j \in 1 .. 4 : i > j => q[i - j] = s[i - j]
    <3> TAKE j \in 1 .. 4
    <3>1. i > j => i - j \in 1 .. Len(s)
      BY <1>1
    <3> QED BY <1>1, <3>1
  <2>5. q[i].do \in {"applied", "demote"} => \A j \in 1 .. i : q[j].do \in Consolidation
    BY <2>2 DEF InOrder, ConsolidatesInOrder
  <2> QED BY SMTT(30), <1>1, <2>2, <2>3, <2>4, <2>5 DEF InOrder, ConsolidatesInOrder
<1>4. ReplacesInOrder(q)
  <2>1. SUFFICES ASSUME NEW i \in 1 .. Len(s)
        PROVE  /\ q[i].do \in {"kind", "drop"} => \A j \in 1 .. i : q[j].do = q[i].do
               /\ q[i].do = "replace" => \A j \in 1 .. (i - 1) : q[j].do = "kind"
               /\ q[i].do = "describe" /\ q[i].kind = "profile" =>
                    \A j \in 1 .. (i - 1) : q[j].do \in {"drop", "insert"}
    BY <1>2 DEF ReplacesInOrder, Regenerates
  <2>2. \A j \in 1 .. i : j \in 1 .. Len(s) /\ q[j] = s[j]
    BY <1>1
  <2>3. i \in 1 .. i /\ \A j \in 1 .. (i - 1) : j \in 1 .. i
    BY <1>1
  <2> QED BY <2>2, <2>3 DEF InOrder, ReplacesInOrder
<1> QED BY <1>3, <1>4 DEF InOrder, q

-----------------------------------------------------------------------------
(* What a worker holds, and where its program counts. *)

LEMMA IdleTask ==
  /\ Idle \in Tasks /\ Idle.todo = <<>> /\ CountsAndAnswers(Idle) /\ Idle.counted = {}
  /\ InOrder(Idle.todo)
<1>1. Idle \in Tasks /\ Idle.todo = <<>> /\ Idle.counted = {}
  <2>1. 0 \in 0 .. MaxHandle /\ 0 \in 0 .. MaxTime
    BY ServiceAssumption
  <2> QED BY <2>1 DEF Idle, Tasks
<1>2. NeverCounts(<<>>)
  BY DEF NeverCounts
<1> QED BY <1>1, <1>2, EmptySteady, SteadyInOrder DEF CountsAndAnswers

LEMMA NothingToCount ==
  ASSUME NEW v \in Tasks, CountsAndAnswers(v), v.todo = <<>>
  PROVE  v.counted = {}
BY DEF CountsAndAnswers, Closes, Ends

LEMMA SettledTask ==
  ASSUME NEW v \in Tasks
  PROVE  /\ Settled(v) \in Tasks /\ Settled(v).todo = v.todo
         /\ v.todo # <<>> => Settled(v) = v
         /\ v.todo = <<>> => Settled(v) = Idle
         /\ CountsAndAnswers(v) =>
              CountsAndAnswers(Settled(v)) /\ Settled(v).counted = v.counted
BY IdleTask, NothingToCount DEF Settled

\* Only the last k steps and what has been counted matter.
LEMMA EndsAlike ==
  ASSUME NEW t, NEW v, NEW k, NEW x, NEW y, NEW z, NEW a, NEW b, NEW c,
         Ends(t, k, x, y, z), v.counted = t.counted, v.answered = t.answered,
         k >= 1 => a = x, k >= 2 => b = y, k >= 3 => c = z
  PROVE  Ends(v, k, a, b, c)
<1>1. k \in {1, 2, 3}
  BY DEF Ends
<1>2. CASE k = 1
  BY <1>2 DEF Ends
<1>3. CASE k = 2
  BY <1>3 DEF Ends, Unkeyed
<1>4. CASE k = 3
  BY <1>4 DEF Ends
<1> QED BY <1>1, <1>2, <1>3, <1>4

LEMMA CountsRest ==
  ASSUME NEW t \in Tasks, NEW v \in Tasks, t.todo # <<>>, CountsAndAnswers(t),
         t.todo[1].do \notin {"count", "answer"},
         v.todo = Tail(t.todo), v.counted = t.counted, v.answered = t.answered
  PROVE  CountsAndAnswers(v)
<1> DEFINE p == t.todo
           q == v.todo
<1>1. /\ p \in Seq(Steps) /\ Len(p) \in Nat \ {0} /\ Len(q) = Len(p) - 1
      /\ \A i \in 1 .. Len(q) : q[i] = p[i + 1]
  <2>1. p \in Seq(Steps) /\ p # <<>>
    BY DEF Tasks
  <2> QED BY <2>1, Rest
<1>2. CASE t.counted = {} /\ NeverCounts(t.todo)
  <2>1. \A i \in 1 .. Len(q) : i + 1 \in 1 .. Len(p)
    BY <1>1
  <2>2. NeverCounts(v.todo)
    BY <1>1, <1>2, <2>1 DEF NeverCounts
  <2> QED BY <1>2, <2>2 DEF CountsAndAnswers
<1>3. ASSUME NEW n \in 0 .. Len(p), \A i \in 1 .. n : p[i].do \in Reads,
             n > 0 => t.counted = {} /\ ~t.answered, Closes(t, n)
      PROVE  CountsAndAnswers(v)
  <2>1. n # 0
    BY <1>1, <1>3 DEF Closes, Ends
  <2> DEFINE m == n - 1
  <2>2. m \in 0 .. Len(q) /\ n > 0 /\ n \in Nat
    BY <1>1, <2>1
  <2>3. \A i \in 1 .. m : q[i].do \in Reads
    <3> TAKE i \in 1 .. m
    <3>1. i \in 1 .. Len(q) /\ i + 1 \in 1 .. n
      BY <1>1, <2>2
    <3> QED BY <1>1, <1>3, <3>1
  <2>4. Closes(v, m)
    <3> DEFINE k == Len(p) - n
    <3>1. Len(q) - m = k /\ k \in Nat
      BY <1>1, <2>2
    <3>2. \A j \in {1, 2, 3} : k >= j => q[m + j] = p[n + j]
      <4> TAKE j \in {1, 2, 3}
      <4>1. k >= j => m + j \in 1 .. Len(q) /\ (m + j) + 1 = n + j
        BY <1>1, <2>2
      <4> QED BY <1>1, <4>1
    <3> HIDE DEF m
    <3>3. /\ k >= 1 => q[m + 1] = p[n + 1]
          /\ k >= 2 => q[m + 2] = p[n + 2]
          /\ k >= 3 => q[m + 3] = p[n + 3]
      BY <3>2
    <3>4. Ends(t, k, p[n + 1], p[n + 2], p[n + 3])
      BY <1>3 DEF Closes
    <3> DEFINE x == p[n + 1]
               y == p[n + 2]
               z == p[n + 3]
               a == q[m + 1]
               b == q[m + 2]
               c == q[m + 3]
    <3>5. Ends(t, k, x, y, z) /\ (k >= 1 => a = x) /\ (k >= 2 => b = y) /\ (k >= 3 => c = z)
      BY <3>3, <3>4
    <3> HIDE DEF k, p, q, x, y, z, a, b, c
    <3>6. Ends(v, k, a, b, c)
      BY <3>5, EndsAlike
    <3> QED BY <3>1, <3>6 DEF Closes, p, q, a, b, c
  <2> HIDE DEF m
  <2> QED BY <1>3, <2>2, <2>3, <2>4 DEF CountsAndAnswers
<1> QED BY <1>2, <1>3 DEF CountsAndAnswers

\* What only reads may come before what counts.
LEMMA CountsBehind ==
  ASSUME NEW t \in Tasks, NEW v \in Tasks, NEW s \in Seq(Steps), CountsAndAnswers(t),
         \A i \in 1 .. Len(s) : s[i].do \in Reads,
         t.counted = {}, ~t.answered \/ NeverCounts(t.todo),
         v.todo = s \o t.todo, v.counted = t.counted, v.answered = t.answered
  PROVE  CountsAndAnswers(v)
<1> DEFINE p == t.todo
           q == v.todo
<1>1. /\ Len(s) \in Nat /\ Len(p) \in Nat /\ Len(q) = Len(s) + Len(p)
      /\ \A i \in 1 .. Len(s) : q[i] = s[i]
      /\ \A i \in 1 .. Len(p) : q[Len(s) + i] = p[i]
      /\ \A i \in 1 .. Len(q) : i \in 1 .. Len(s) \/ (q[i] = p[i - Len(s)] /\ i - Len(s) \in 1 .. Len(p))
  BY DEF Tasks
<1>2. \A i \in 1 .. Len(s) : q[i].do \in Reads /\ q[i].do # "count"
  BY <1>1 DEF Reads
<1>3. CASE NeverCounts(t.todo)
  <2>1. NeverCounts(v.todo)
    BY <1>1, <1>2, <1>3 DEF NeverCounts
  <2> QED BY <2>1 DEF CountsAndAnswers
<1>4. ASSUME NEW n \in 0 .. Len(p), \A i \in 1 .. n : p[i].do \in Reads, Closes(t, n),
             ~t.answered
      PROVE  CountsAndAnswers(v)
  <2> DEFINE m == Len(s) + n
  <2>1. m \in 0 .. Len(q)
    BY <1>1
  <2>2. \A i \in 1 .. m : q[i].do \in Reads
    <3> TAKE i \in 1 .. m
    <3>1. CASE i \in 1 .. Len(s)
      BY <1>2, <3>1
    <3>2. CASE i \notin 1 .. Len(s)
      <4>1. i - Len(s) \in 1 .. n /\ i \in 1 .. Len(q)
        BY <1>1, <3>2
      <4> QED BY <1>1, <1>4, <3>2, <4>1
    <3> QED BY <3>1, <3>2
  <2>3. Closes(v, m)
    <3> DEFINE k == Len(p) - n
    <3>1. Len(q) - m = k /\ k \in Nat
      BY <1>1
    <3>2. \A j \in {1, 2, 3} : k >= j => q[m + j] = p[n + j]
      <4> TAKE j \in {1, 2, 3}
      <4>1. k >= j => n + j \in 1 .. Len(p) /\ m + j = Len(s) + (n + j)
        BY <1>1
      <4> QED BY <1>1, <4>1
    <3> HIDE DEF m
    <3>3. /\ k >= 1 => q[m + 1] = p[n + 1]
          /\ k >= 2 => q[m + 2] = p[n + 2]
          /\ k >= 3 => q[m + 3] = p[n + 3]
      BY <3>2
    <3>4. Ends(t, k, p[n + 1], p[n + 2], p[n + 3])
      BY <1>4 DEF Closes
    <3> DEFINE x == p[n + 1]
               y == p[n + 2]
               z == p[n + 3]
               a == q[m + 1]
               b == q[m + 2]
               c == q[m + 3]
    <3>5. Ends(t, k, x, y, z) /\ (k >= 1 => a = x) /\ (k >= 2 => b = y) /\ (k >= 3 => c = z)
      BY <3>3, <3>4
    <3> HIDE DEF k, p, q, x, y, z, a, b, c
    <3>6. Ends(v, k, a, b, c)
      BY <3>5, EndsAlike
    <3> QED BY <3>1, <3>6 DEF Closes, p, q, a, b, c
  <2> HIDE DEF m
  <2> QED BY <1>4, <2>1, <2>2, <2>3 DEF CountsAndAnswers
<1> QED BY <1>3, <1>4 DEF CountsAndAnswers

\* Before the steps at its end, a program has counted nothing.
LEMMA CountsLater ==
  ASSUME NEW t \in Tasks, t.todo # <<>>, CountsAndAnswers(t),
         t.todo[1].do \notin {"count", "answer"}
  PROVE  /\ t.counted = {} /\ (~t.answered \/ NeverCounts(t.todo))
         /\ t.todo[1].do \notin Reads => NeverCounts(t.todo)
<1>1. Len(t.todo) \in Nat \ {0}
  <2>1. t.todo \in Seq(Steps)
    BY DEF Tasks
  <2> QED BY <2>1, Rest
<1> QED BY <1>1 DEF CountsAndAnswers, Closes, Ends

LEMMA NeverCountsRest ==
  ASSUME NEW p \in Seq(Steps), p # <<>>, NeverCounts(p)
  PROVE  NeverCounts(Tail(p))
<1>1. /\ Len(p) \in Nat /\ Len(Tail(p)) = Len(p) - 1
      /\ \A i \in 1 .. Len(Tail(p)) : Tail(p)[i] = p[i + 1]
  BY Rest
<1>2. \A i \in 1 .. Len(Tail(p)) : i + 1 \in 1 .. Len(p)
  BY <1>1
<1> QED BY <1>1, <1>2 DEF NeverCounts

LEMMA NeverCountsBefore ==
  ASSUME NEW s \in Seq(Steps), NEW r \in Seq(Steps), NeverCounts(s), NeverCounts(r)
  PROVE  NeverCounts(s \o r)
BY DEF NeverCounts

\* An error before the counting leaves nothing to count.
LEMMA CountsAfterError ==
  ASSUME NEW t \in Tasks, NEW v \in Tasks, t.todo # <<>>, CountsAndAnswers(t),
         t.todo[1].do \notin {"count", "answer"},
         Resumes(v.todo, t.todo), v.counted = t.counted
  PROVE  CountsAndAnswers(v)
<1> DEFINE p == t.todo
           q == v.todo
<1>1. t.counted = {} /\ p \in Seq(Steps) /\ Len(p) \in Nat
  <2>1. t.todo \in Seq(Steps)
    BY DEF Tasks
  <2> QED BY <2>1, CountsLater
<1>2. CASE NeverCounts(p)
  <2>1. ASSUME q = <<>>
        PROVE  NeverCounts(q)
    <3>1. NeverCounts(<<>>)
      BY DEF NeverCounts
    <3> QED BY <2>1, <3>1
  <2>2. ASSUME NEW c \in 1 .. Len(p), Len(q) = Len(p) - c,
               \A i \in 1 .. (Len(p) - c) : q[i] = p[c + i]
        PROVE  NeverCounts(q)
    <3>1. \A i \in 1 .. Len(q) : c + i \in 1 .. Len(p) /\ q[i] = p[c + i]
      BY <1>1, <2>2
    <3> QED BY <1>2, <3>1 DEF NeverCounts
  <2>3. NeverCounts(q)
    BY <2>1, <2>2 DEF Resumes
  <2> QED BY <1>1, <2>3 DEF CountsAndAnswers
<1>3. ASSUME NEW n \in 0 .. Len(p), \A i \in 1 .. n : p[i].do \in Reads, Closes(t, n)
      PROVE  CountsAndAnswers(v)
  <2>1. \A c \in 1 .. Len(p) : p[c].do # "catch"
    <3> TAKE c \in 1 .. Len(p)
    <3>1. CASE c \in 1 .. n
      BY <1>3, <3>1 DEF Reads
    <3>2. CASE c \notin 1 .. n
      <4>1. c \in {n + 1, n + 2, n + 3} /\ (c = n + 2 => Len(p) - n >= 2)
              /\ (c = n + 3 => Len(p) - n >= 3)
        BY <1>1, <1>3, <3>2 DEF Closes, Ends
      <4> QED BY SMTT(30), <1>1, <1>3, <4>1 DEF Closes, Ends
    <3> QED BY <3>1, <3>2
  <2>2. q = <<>>
    BY <2>1 DEF Resumes
  <2> QED BY <1>1, <2>2 DEF CountsAndAnswers, NeverCounts
<1> QED BY <1>2, <1>3 DEF CountsAndAnswers

-----------------------------------------------------------------------------
(* The programs that begin. *)

ReadOnly == {s \in Steps : s.do \in Reads}
Harmless ==
  {s \in Steps : /\ s.do \notin {"count", "applied", "demote", "kind", "drop", "propose"}
                 /\ ~Regenerates(s)}

NeverProposes(p) == \A i \in 1 .. Len(p) : p[i].do # "propose"

\* What a worker may begin with.
Fits(p) ==
  /\ p \in Seq(Steps) /\ p # <<>> /\ Steady(p) /\ NeverProposes(p)
  /\ CountsAndAnswers([Idle EXCEPT !.todo = p])

LEMMA CountsAlike ==
  ASSUME NEW t, NEW v, v.todo = t.todo, v.counted = t.counted, v.answered = t.answered,
         CountsAndAnswers(t)
  PROVE  CountsAndAnswers(v)
<1>1. ASSUME NEW n, Closes(t, n)
      PROVE  Closes(v, n)
  BY <1>1 DEF Closes, Ends, Unkeyed
<1> QED BY <1>1 DEF CountsAndAnswers

LEMMA HarmlessFits ==
  ASSUME NEW p \in Seq(Harmless), p # <<>>
  PROVE  Fits(p)
<1>1. \A i \in 1 .. Len(p) : p[i] \in Harmless
  OBVIOUS
<1>2. p \in Seq(Steps)
  BY <1>1 DEF Harmless
<1>3. Steady(p) /\ NeverProposes(p) /\ NeverCounts(p)
  BY <1>1 DEF Harmless, Steady, NeverProposes, NeverCounts
<1>4. [Idle EXCEPT !.todo = p].counted = {} /\ [Idle EXCEPT !.todo = p].todo = p
  BY DEF Idle
<1>5. CountsAndAnswers([Idle EXCEPT !.todo = p])
  BY <1>3, <1>4 DEF CountsAndAnswers
<1> QED BY <1>2, <1>3, <1>5 DEF Fits

LEMMA ReadOnlyHarmless == ReadOnly \subseteq Harmless
BY DEF ReadOnly, Harmless, Reads, Regenerates

LEMMA FitsBehind ==
  ASSUME NEW s \in Seq(ReadOnly), NEW p, Fits(p)
  PROVE  Fits(s \o p)
<1>1. /\ s \in Seq(Steps) /\ \A i \in 1 .. Len(s) : s[i].do \in Reads
      /\ \A i \in 1 .. Len(s) : s[i] \in Harmless
  <2>1. \A i \in 1 .. Len(s) : s[i] \in ReadOnly
    OBVIOUS
  <2> QED BY <2>1, ReadOnlyHarmless DEF ReadOnly
<1>2. p \in Seq(Steps) /\ p # <<>> /\ Steady(p) /\ NeverProposes(p)
  BY DEF Fits
<1> DEFINE q == s \o p
           t == [Idle EXCEPT !.todo = p]
           v == [Idle EXCEPT !.todo = q]
<1>3. /\ q \in Seq(Steps) /\ q # <<>>
      /\ \A i \in 1 .. Len(q) : (i \in 1 .. Len(s) /\ q[i] = s[i])
                              \/ (q[i] = p[i - Len(s)] /\ i - Len(s) \in 1 .. Len(p))
  BY <1>1, <1>2
<1> HIDE DEF q
<1>4. Steady(q) /\ NeverProposes(q)
  BY <1>1, <1>2, <1>3 DEF Steady, NeverProposes, Harmless
<1>5. t \in Tasks /\ v \in Tasks
  BY <1>2, <1>3, IdleTask DEF Tasks
<1>6. /\ t.counted = {} /\ ~t.answered /\ v.counted = t.counted /\ v.answered = t.answered
      /\ t.todo = p /\ v.todo = q
  BY DEF Idle
<1>7. CountsAndAnswers(t)
  BY DEF Fits
<1> HIDE DEF t, v
<1>8. v.todo = s \o t.todo
  BY <1>6 DEF q
<1>9. CountsAndAnswers(v)
  BY <1>1, <1>5, <1>6, <1>7, <1>8, CountsBehind
<1> QED BY <1>3, <1>4, <1>9 DEF Fits, q, v

LEMMA FitsInside ==
  ASSUME NEW s \in Seq(ReadOnly), NEW a \in Seq(Steps), NEW b \in Seq(Steps), Fits(a \o b)
  PROVE  Fits((s \o a) \o b)
<1>1. s \in Seq(Steps)
  <2>1. \A i \in 1 .. Len(s) : s[i] \in Steps
    BY DEF ReadOnly
  <2> QED BY <2>1
<1>2. (s \o a) \o b = s \o (a \o b)
  BY SMTT(30), <1>1, ConcatAssociative
<1> QED BY <1>2, FitsBehind

\* Counting, then the answer, and the other way round.
LEMMA CountFits ==
  ASSUME NEW c \in CountSteps, NEW a \in AnswerSteps
  PROVE  Fits(<<c>> \o <<a>>) /\ Fits(<<a>> \o <<c>>)
<1> DEFINE p == <<c>> \o <<a>>
           q == <<a>> \o <<c>>
<1>2. c \in Steps /\ a \in Steps /\ c.do = "count" /\ a.do = "answer"
  BY DEF Steps, CountSteps, AnswerSteps
<1>3. /\ p \in Seq(Steps) /\ q \in Seq(Steps) /\ Len(p) = 2 /\ Len(q) = 2
      /\ p[1] = c /\ p[2] = a /\ q[1] = a /\ q[2] = c /\ p # <<>> /\ q # <<>>
  BY <1>2
<1> HIDE DEF p, q
<1>4. /\ \A i \in 1 .. Len(p) : p[i].do \in {"count", "answer"}
      /\ \A i \in 1 .. Len(q) : q[i].do \in {"count", "answer"}
  BY <1>2, <1>3
<1>5. Steady(p) /\ NeverProposes(p) /\ Steady(q) /\ NeverProposes(q)
  BY <1>4 DEF Steady, NeverProposes, Regenerates
<1> DEFINE t == [Idle EXCEPT !.todo = p]
           v == [Idle EXCEPT !.todo = q]
<1>6. /\ t.todo = p /\ v.todo = q /\ t.counted = {} /\ v.counted = {}
      /\ ~t.answered /\ ~v.answered
  BY DEF Idle
<1> HIDE DEF t, v
<1>7. Closes(t, 0)
  BY <1>2, <1>3, <1>6 DEF Closes, Ends, Unkeyed
<1>8. Closes(v, 0)
  BY <1>2, <1>3, <1>6 DEF Closes, Ends, Unkeyed
<1>9. CountsAndAnswers(t) /\ CountsAndAnswers(v)
  BY <1>3, <1>6, <1>7, <1>8 DEF CountsAndAnswers
<1> QED BY <1>3, <1>5, <1>9 DEF Fits, t, v, p, q

LEMMA CountTwiceFits ==
  ASSUME NEW c \in CountSteps, NEW d \in CountSteps, c.keyed, d.keyed, NEW a \in AnswerSteps
  PROVE  Fits((<<c>> \o <<d>>) \o <<a>>)
<1> DEFINE p == (<<c>> \o <<d>>) \o <<a>>
<1>2. /\ c \in Steps /\ d \in Steps /\ a \in Steps
      /\ c.do = "count" /\ d.do = "count" /\ a.do = "answer"
  BY DEF Steps, CountSteps, AnswerSteps
<1>3. /\ p \in Seq(Steps) /\ Len(p) = 3 /\ p # <<>>
      /\ p[1] = c /\ p[2] = d /\ p[3] = a
  BY <1>2
<1> HIDE DEF p
<1>4. \A i \in 1 .. Len(p) : p[i].do \in {"count", "answer"}
  BY <1>2, <1>3
<1>5. Steady(p) /\ NeverProposes(p)
  BY <1>4 DEF Steady, NeverProposes, Regenerates
<1> DEFINE t == [Idle EXCEPT !.todo = p]
<1>6. t.todo = p /\ t.counted = {} /\ ~t.answered
  BY DEF Idle
<1> HIDE DEF t
<1>7. Closes(t, 0)
  BY <1>2, <1>3, <1>6 DEF Closes, Ends
<1>8. CountsAndAnswers(t)
  BY <1>3, <1>6, <1>7 DEF CountsAndAnswers
<1> QED BY <1>3, <1>5, <1>8 DEF Fits, t, p

LEMMA Joined ==
  ASSUME NEW S, NEW a \in Seq(S), NEW b \in Seq(S)
  PROVE  a \o b \in Seq(S)
OBVIOUS

LEMMA ReadOnlySteps ==
  /\ \A soft \in BOOLEAN : Find(soft) \in Seq(ReadOnly)
  /\ Look \in Seq(ReadOnly) /\ Glance \in Seq(ReadOnly)
  /\ ByHandle \in Seq(ReadOnly) /\ ByReference \in Seq(ReadOnly)
  /\ \A hints, exact \in BOOLEAN : Gate(hints, exact) \in Seq(ReadOnly)
  /\ \A lists \in SUBSET {"found", "ok", "hint", "back"} : RefuseWithout(lists) \in Seq(ReadOnly)
  /\ Chunks \in Seq(ReadOnly) /\ Expand \in Seq(ReadOnly) /\ BackSources \in Seq(ReadOnly)
  /\ <<Do("select", FALSE), Do("inject", FALSE)>> \in Seq(ReadOnly)
<1>1. \A do \in {"find", "look", "handle", "owners", "chunks", "expand", "back", "select", "inject"},
         soft \in BOOLEAN : Do(do, soft) \in ReadOnly
  BY DEF Do, ReadOnly, Steps, ReadSteps, Reads
<1>2. \A hints, exact \in BOOLEAN :
        [do |-> "gate", soft |-> FALSE, hints |-> hints, exact |-> exact] \in ReadOnly
  BY DEF ReadOnly, Steps, GateSteps, Reads
<1>3. \A lists \in SUBSET {"found", "ok", "hint", "back"} :
        [do |-> "refuse", soft |-> FALSE, lists |-> lists] \in ReadOnly
  BY DEF ReadOnly, Steps, RefuseSteps, Reads
<1>4. \A x \in ReadOnly : <<x>> \in Seq(ReadOnly)
  OBVIOUS
<1>5. \A x, y \in ReadOnly : <<x, y>> \in Seq(ReadOnly)
  OBVIOUS
<1>6. <<Do("select", FALSE), Do("inject", FALSE)>> \in Seq(ReadOnly)
  BY <1>1, <1>5
<1>7. \A soft \in BOOLEAN : Find(soft) \in Seq(ReadOnly)
  BY <1>1, <1>4 DEF Find
<1>8. /\ Look \in Seq(ReadOnly) /\ Glance \in Seq(ReadOnly)
      /\ ByHandle \in Seq(ReadOnly) /\ ByReference \in Seq(ReadOnly)
      /\ Chunks \in Seq(ReadOnly) /\ Expand \in Seq(ReadOnly) /\ BackSources \in Seq(ReadOnly)
  BY <1>1, <1>4 DEF Look, Glance, ByHandle, ByReference, Chunks, Expand, BackSources
<1>9. \A hints, exact \in BOOLEAN : Gate(hints, exact) \in Seq(ReadOnly)
  BY <1>2, <1>4 DEF Gate
<1>10. \A lists \in SUBSET {"found", "ok", "hint", "back"} : RefuseWithout(lists) \in Seq(ReadOnly)
  BY <1>3, <1>4 DEF RefuseWithout
<1> QED BY <1>6, <1>7, <1>8, <1>9, <1>10

\* The counting and the answers of the programs.
LEMMA ClosingSteps ==
  ASSUME NEW kind \in Delivery, NEW of \in Views, NEW keyed \in BOOLEAN
  PROVE  /\ Count(kind, of, keyed) \in Seq(Steps) /\ Answer(of) \in Seq(Steps)
         /\ Answer(of) \in Seq(Harmless)
         /\ \A shown \in Views : /\ Fits(Count(kind, of, keyed) \o Answer(shown))
                                 /\ Fits(Answer(shown) \o Count(kind, of, keyed))
<1> DEFINE c == [do |-> "count", soft |-> TRUE, kind |-> kind, of |-> of, keyed |-> keyed]
           a(shown) == [do |-> "answer", soft |-> TRUE, of |-> shown]
<1>1. c \in CountSteps
  BY DEF CountSteps
<1>2. \A shown \in Views : a(shown) \in AnswerSteps /\ a(shown).do = "answer"
  BY DEF AnswerSteps
<1>3. Count(kind, of, keyed) = <<c>> /\ \A shown : Answer(shown) = <<a(shown)>>
  BY DEF Count, Answer
<1> HIDE DEF c, a
<1>4. c \in Steps /\ \A shown \in Views : a(shown) \in Steps /\ a(shown) \in Harmless
  BY <1>1, <1>2 DEF Steps, Harmless, Regenerates
<1>5. <<c>> \in Seq(Steps) /\ <<a(of)>> \in Seq(Steps) /\ <<a(of)>> \in Seq(Harmless)
  BY <1>4
<1>6. \A shown \in Views : Fits(<<c>> \o <<a(shown)>>) /\ Fits(<<a(shown)>> \o <<c>>)
  BY <1>1, <1>2, CountFits
<1> QED BY <1>3, <1>5, <1>6

LEMMA CountingFits ==
  ASSUME NEW s \in Seq(ReadOnly), NEW kind \in Delivery, NEW of \in Views, NEW keyed \in BOOLEAN,
         NEW shown \in Views
  PROVE  /\ Fits((s \o Count(kind, of, keyed)) \o Answer(shown))
         /\ Fits((s \o Answer(shown)) \o Count(kind, of, keyed))
<1> DEFINE c == Count(kind, of, keyed)
           a == Answer(shown)
<1>1. c \in Seq(Steps) /\ a \in Seq(Steps) /\ Fits(c \o a) /\ Fits(a \o c)
  BY ClosingSteps
<1> HIDE DEF c, a
<1>2. Fits((s \o c) \o a) /\ Fits((s \o a) \o c)
  BY <1>1, FitsInside
<1> QED BY <1>2 DEF c, a

LEMMA RecallsFit ==
  ASSUME NEW query \in BOOLEAN,
         NEW program \in
            {get_context(query), evaluate_context(query), get_skim,
             api_list_memories(query), handle_get_context(query),
             handle_memory_skim, handle_list_memories, handle_search_memories,
             handle_search_global, handle_inject_context, run_search,
             run_search_global, run_list, run_inject}
  PROVE  Fits(program)
<1> USE DEF Delivery, Views
<1>1. Fits(get_context(query))
  <2> DEFINE s == ((((retrieve_context_candidates(query) \o Gate(TRUE, FALSE)) \o Chunks) \o Glance)
                    \o context_evidence_chains)
  <2>1. s \in Seq(ReadOnly)
    BY ReadOnlySteps, Joined
       DEF retrieve_context_candidates, context_evidence_chains, memory_edges_for_memories,
           get_memory_meta_full
  <2>2. get_context(query) = (s \o Count("recall", "both", FALSE)) \o Answer("both")
    BY DEF get_context
  <2> HIDE DEF s
  <2> QED BY <2>1, <2>2, CountingFits
<1>2. Fits(evaluate_context(query))
  <2> DEFINE s == (((((retrieve_context_candidates(query) \o Gate(TRUE, TRUE)) \o BackSources)
                    \o Chunks) \o context_evidence_chains) \o Glance)
             c == [do |-> "count", soft |-> TRUE, kind |-> "recall", of |-> "backed", keyed |-> TRUE]
             d == [do |-> "count", soft |-> TRUE, kind |-> "expansion", of |-> "originals",
                   keyed |-> TRUE]
             a == [do |-> "answer", soft |-> TRUE, of |-> "backed"]
  <2>1. s \in Seq(ReadOnly)
    BY ReadOnlySteps, Joined
       DEF retrieve_context_candidates, context_evidence_chains, memory_edges_for_memories,
           get_memory_meta_full
  <2>2. evaluate_context(query) = ((s \o <<c>>) \o <<d>>) \o <<a>>
    BY DEF evaluate_context, Count, Answer
  <2>3. c \in CountSteps /\ d \in CountSteps /\ c.keyed /\ d.keyed /\ a \in AnswerSteps
    BY DEF CountSteps, AnswerSteps
  <2> HIDE DEF s, c, d, a
  <2>4. c \in Steps /\ d \in Steps /\ a \in Steps
    BY <2>3 DEF Steps
  <2>5. Fits((<<c>> \o <<d>>) \o <<a>>)
    BY <2>3, CountTwiceFits
  <2>6. <<c>> \in Seq(Steps) /\ <<d>> \in Seq(Steps) /\ <<a>> \in Seq(Steps) /\ s \in Seq(Steps)
    <3>1. \A i \in 1 .. Len(s) : s[i] \in Steps
      BY <2>1 DEF ReadOnly
    <3> QED BY <2>1, <2>4, <3>1
  <2>7. (s \o <<c>>) \o <<d>> = s \o (<<c>> \o <<d>>)
    BY <2>6, ConcatAssociative
  <2>8. <<c>> \o <<d>> \in Seq(Steps)
    BY <2>6, Joined
  <2>9. Fits((s \o (<<c>> \o <<d>>)) \o <<a>>)
    BY <2>1, <2>5, <2>6, <2>8, FitsInside
  <2> QED BY <2>2, <2>7, <2>9
<1>3. Fits(get_skim)
  <2> DEFINE s == (Find(FALSE) \o memories_by_ids_in_namespace) \o Gate(TRUE, FALSE)
  <2>1. s \in Seq(ReadOnly)
    BY ReadOnlySteps, Joined DEF memories_by_ids_in_namespace
  <2>2. get_skim = (s \o Count("recall", "both", FALSE)) \o Answer("both")
    BY DEF get_skim
  <2> HIDE DEF s
  <2> QED BY <2>1, <2>2, CountingFits
<1>4. Fits(api_list_memories(query))
  <2> DEFINE s == retrieve_context_candidates(query) \o Gate(TRUE, FALSE)
  <2>1. s \in Seq(ReadOnly)
    BY ReadOnlySteps, Joined DEF retrieve_context_candidates
  <2>2. api_list_memories(query) = s \o Answer("ok")
    BY DEF api_list_memories
  <2>3. Fits(Answer("ok"))
    <3>1. Answer("ok") \in Seq(Harmless)
      BY ClosingSteps
    <3>2. Answer("ok") # <<>>
      BY DEF Answer
    <3> QED BY <3>1, <3>2, HarmlessFits
  <2> HIDE DEF s
  <2> QED BY <2>1, <2>2, <2>3, FitsBehind
<1>5. Fits(handle_get_context(query))
  <2> DEFINE s == ((((Find(query) \o Gate(TRUE, FALSE)) \o Chunks) \o event_times_map)
                    \o evidence_chains_json)
  <2>1. s \in Seq(ReadOnly)
    BY ReadOnlySteps, Joined DEF event_times_map, evidence_chains_json
  <2>2. handle_get_context(query) = (s \o Count("recall", "both", FALSE)) \o Answer("both")
    BY DEF handle_get_context
  <2> HIDE DEF s
  <2> QED BY <2>1, <2>2, CountingFits
<1>6. Fits(handle_memory_skim)
  <2> DEFINE s == ((Find(FALSE) \o memories_by_ids_in_namespace) \o Gate(TRUE, FALSE)) \o Glance
  <2>1. s \in Seq(ReadOnly)
    BY ReadOnlySteps, Joined DEF memories_by_ids_in_namespace
  <2>2. handle_memory_skim = (s \o Count("recall", "both", FALSE)) \o Answer("both")
    BY DEF handle_memory_skim
  <2> HIDE DEF s
  <2> QED BY <2>1, <2>2, CountingFits
<1>7. Fits(handle_list_memories) /\ Fits(handle_search_memories) /\ Fits(handle_search_global)
  <2> DEFINE s == Gate(TRUE, FALSE) \o event_times_map
  <2>1. s \in Seq(ReadOnly)
    BY ReadOnlySteps, Joined DEF event_times_map
  <2>2. Listing = (s \o Count("recall", "both", FALSE)) \o Answer("both")
    BY DEF Listing
  <2> HIDE DEF s
  <2>3. Fits(Listing)
    BY <2>1, <2>2, CountingFits
  <2> QED BY <2>3, ReadOnlySteps, FitsBehind
       DEF handle_list_memories, handle_search_memories, handle_search_global
<1>8. Fits(handle_inject_context) /\ Fits(run_inject)
  <2> DEFINE s == ((Look \o rank_for_injection) \o Gate(FALSE, FALSE))
                    \o <<Do("select", FALSE), Do("inject", FALSE)>>
  <2>1. s \in Seq(ReadOnly)
    BY ReadOnlySteps, Joined DEF rank_for_injection, injection_rank
  <2>2. Injecting = s \o Answer("none")
    BY DEF Injecting
  <2>3. Fits(Answer("none"))
    <3>1. Answer("none") \in Seq(Harmless)
      BY ClosingSteps
    <3>2. Answer("none") # <<>>
      BY DEF Answer
    <3> QED BY <3>1, <3>2, HarmlessFits
  <2> HIDE DEF s
  <2>4. Fits(Injecting)
    BY <2>1, <2>2, <2>3, FitsBehind
  <2> QED BY <2>4 DEF handle_inject_context, run_inject
<1>9. Fits(run_search) /\ Fits(run_search_global) /\ Fits(run_list)
  <2> DEFINE s == Gate(TRUE, FALSE) \o RefuseWithout({"ok", "hint"})
  <2>1. s \in Seq(ReadOnly)
    BY ReadOnlySteps, Joined
  <2>2. Printed = (s \o Answer("both")) \o Count("recall", "both", FALSE)
    BY DEF Printed
  <2> HIDE DEF s
  <2>3. Fits(Printed)
    BY <2>1, <2>2, CountingFits
  <2> QED BY <2>3, ReadOnlySteps, FitsBehind DEF run_search, run_search_global, run_list
<1> QED BY <1>1, <1>2, <1>3, <1>4, <1>5, <1>6, <1>7, <1>8, <1>9

LEMMA HarmlessSteps ==
  /\ \A s \in Seq(ReadOnly) : s \in Seq(Harmless)
  /\ \A of \in Views : Answer(of) \in Seq(Harmless) /\ Answer(of) # <<>>
  /\ \A do \in {"catch", "delete", "sources", "keepfresh", "dreamt", "event"}, soft \in BOOLEAN :
       <<Do(do, soft)>> \in Seq(Harmless)
  /\ \A kind \in Kind \ {"profile"}, apply \in BOOLEAN : Reflect(kind, apply) \in Seq(Harmless)
  /\ \A apply \in BOOLEAN : Synthesize(apply) \in Seq(Harmless)
  /\ \A text \in SUBSET Fact, kind \in Kind \ {"profile"}, user \in BOOLEAN :
       remember_with_governance(text, kind, user) \in Seq(Harmless)
<1>1. \A s \in Seq(ReadOnly) : s \in Seq(Harmless)
  <2> TAKE s \in Seq(ReadOnly)
  <2>1. \A i \in 1 .. Len(s) : s[i] \in Harmless
    BY ReadOnlyHarmless
  <2> QED BY <2>1
<1>2. \A of \in Views : Answer(of) \in Seq(Harmless) /\ Answer(of) # <<>>
  BY ClosingSteps DEF Answer, Delivery
<1>3. ASSUME NEW do \in {"catch", "delete", "sources", "keepfresh", "dreamt", "event"},
             NEW soft \in BOOLEAN
      PROVE  <<Do(do, soft)>> \in Seq(Harmless)
  <2>1. Do(do, soft) \in Harmless
    BY DEF Do, Harmless, Steps, OtherSteps, Writing, Regenerates
  <2> QED BY <2>1
<1>4. ASSUME NEW kind \in Kind \ {"profile"}, NEW apply \in BOOLEAN
      PROVE  Reflect(kind, apply) \in Seq(Harmless)
  <2>1. [do |-> "reflect", soft |-> FALSE, kind |-> kind, apply |-> apply] \in Harmless
    BY DEF Harmless, Steps, ReflectSteps, Writing, Regenerates
  <2> QED BY <2>1 DEF Reflect
<1>5. ASSUME NEW apply \in BOOLEAN
      PROVE  Synthesize(apply) \in Seq(Harmless)
  <2>1. [do |-> "synthesize", soft |-> FALSE, apply |-> apply] \in Harmless
    BY DEF Harmless, Steps, SynthesizeSteps, Writing, Regenerates
  <2> QED BY <2>1 DEF Synthesize
<1>6. ASSUME NEW text \in SUBSET Fact, NEW kind \in Kind \ {"profile"}, NEW user \in BOOLEAN
      PROVE  remember_with_governance(text, kind, user) \in Seq(Harmless)
  <2>1. [do |-> "insert", soft |-> FALSE, text |-> text] \in Harmless
    BY DEF Harmless, Steps, InsertSteps, Writing, Regenerates
  <2>2. [do |-> "describe", soft |-> FALSE, kind |-> kind, user |-> user] \in Harmless
    BY DEF Harmless, Steps, DescribeSteps, Writing, Regenerates
  <2>3. Insert(text, kind, user) \in Seq(Harmless)
    BY <2>1, <2>2 DEF Insert
  <2>4. Glance \in Seq(Harmless) /\ <<Do("keepfresh", TRUE)>> \in Seq(Harmless)
    BY <1>1, <1>3, ReadOnlySteps
  <2> DEFINE k == IF user THEN <<Do("keepfresh", TRUE)>> ELSE <<>>
  <2>5. k \in Seq(Harmless)
    <3>1. CASE user
      BY <2>4, <3>1
    <3>2. CASE ~user
      BY <3>2
    <3> QED BY <3>1, <3>2
  <2> HIDE DEF k
  <2>6. (Insert(text, kind, user) \o Glance) \o k \in Seq(Harmless)
    BY <2>3, <2>4, <2>5, Joined
  <2> QED BY <2>6 DEF remember_with_governance, k
<1> QED BY <1>1, <1>2, <1>3, <1>4, <1>5, <1>6

LEMMA JoinedNonempty ==
  ASSUME NEW S, NEW a \in Seq(S), NEW b \in Seq(S), a # <<>> \/ b # <<>>
  PROVE  a \o b # <<>>
OBVIOUS

\* What ends with an answer is a program.
LEMMA AnswerFits ==
  ASSUME NEW s \in Seq(Harmless), NEW of \in Views
  PROVE  Fits(s \o Answer(of))
<1>1. Answer(of) \in Seq(Harmless) /\ Answer(of) # <<>>
  BY HarmlessSteps
<1> DEFINE a == Answer(of)
<1> HIDE DEF a
<1>2. s \o a \in Seq(Harmless) /\ s \o a # <<>>
  BY <1>1, Joined, JoinedNonempty DEF a
<1> QED BY <1>2, HarmlessFits DEF a

LEMMA LookupsFit ==
  ASSUME NEW program \in
            {retrieve_original, handle_retrieve_original, api_memory_evidence,
             api_simulate_memory_influence, run_lineage}
  PROVE  Fits(program)
<1>1. Fits(retrieve_original) /\ Fits(handle_retrieve_original)
  <2> DEFINE s == (((ByReference \o RefuseWithout({"found"})) \o Gate(TRUE, TRUE))
                    \o RefuseWithout({"ok", "hint", "back"})) \o Expand
  <2>1. s \in Seq(ReadOnly)
    BY ReadOnlySteps, Joined
  <2>2. /\ retrieve_original = (s \o Count("expansion", "originals", FALSE)) \o Answer("gated")
        /\ handle_retrieve_original = (s \o Count("expansion", "originals", FALSE)) \o Answer("gated")
    BY DEF retrieve_original, handle_retrieve_original
  <2> HIDE DEF s
  <2>3. Fits((s \o Count("expansion", "originals", FALSE)) \o Answer("gated"))
    BY <2>1, CountingFits DEF Delivery, Views
  <2> QED BY <2>2, <2>3
<1>2. Fits(api_memory_evidence)
  <2> DEFINE s == (((((ByHandle \o RefuseWithout({"found"})) \o Gate(FALSE, FALSE))
                    \o RefuseWithout({"ok"})) \o get_memory_meta_full) \o Chunks)
                    \o memory_edges_for_memories
  <2>1. s \in Seq(ReadOnly)
    BY ReadOnlySteps, Joined DEF get_memory_meta_full, memory_edges_for_memories
  <2>2. api_memory_evidence = s \o Answer("ok")
    BY DEF api_memory_evidence
  <2> HIDE DEF s
  <2> QED BY <2>1, <2>2, HarmlessSteps, AnswerFits DEF Views
<1>3. Fits(api_simulate_memory_influence)
  <2> DEFINE s == ByHandle \o Look
  <2>1. s \in Seq(ReadOnly)
    BY ReadOnlySteps, Joined
  <2>2. api_simulate_memory_influence = s \o Answer("none")
    BY DEF api_simulate_memory_influence
  <2> HIDE DEF s
  <2> QED BY <2>1, <2>2, HarmlessSteps, AnswerFits DEF Views
<1>4. Fits(run_lineage)
  <2> DEFINE s == (ByHandle \o Gate(TRUE, FALSE)) \o memory_lineage
  <2>1. s \in Seq(ReadOnly)
    BY ReadOnlySteps, Joined DEF memory_lineage
  <2>2. run_lineage = s \o Answer("both")
    BY DEF run_lineage
  <2> HIDE DEF s
  <2> QED BY <2>1, <2>2, HarmlessSteps, AnswerFits DEF Views
<1> QED BY <1>1, <1>2, <1>3, <1>4

LEMMA ChangesFit ==
  ASSUME NEW stance \in {"allow", "deny"},
         NEW program \in {api_delete_memory, put_memory_influence(stance),
                          handle_set_memory_influence(stance)}
  PROVE  Fits(program)
<1>1. Fits(api_delete_memory)
  <2>1. <<Do("delete", FALSE)>> \in Seq(Harmless) /\ Glance \in Seq(Harmless)
    BY HarmlessSteps, ReadOnlySteps
  <2>2. <<Do("delete", FALSE)>> \o Glance \in Seq(Harmless)
    BY <2>1, Joined
  <2> QED BY <2>2, AnswerFits DEF api_delete_memory, Views
<1>2. Fits(put_memory_influence(stance))
  <2>1. [do |-> "stance", soft |-> FALSE, stance |-> stance] \in Harmless
    BY DEF Harmless, Steps, StanceSteps, Writing, Regenerates
  <2>2. <<[do |-> "stance", soft |-> FALSE, stance |-> stance]>> \in Seq(Harmless)
    BY <2>1
  <2> QED BY <2>2, AnswerFits DEF put_memory_influence, Views
<1> QED BY <1>1, <1>2 DEF handle_set_memory_influence

LEMMA RemembersFit ==
  ASSUME NEW fact \in Fact, NEW user \in BOOLEAN, NEW dated \in BOOLEAN,
         NEW program \in {remember({fact}, "fact", user), run_remember({fact}, "fact", user),
                          handle_remember({fact}, "fact", user, dated)}
  PROVE  Fits(program)
<1> DEFINE s == remember_with_governance({fact}, "fact", user)
           d == IF dated THEN Look ELSE <<>>
<1>1. s \in Seq(Harmless)
  <2>1. {fact} \in SUBSET Fact /\ "fact" \in Kind \ {"profile"}
    BY DEF Kind
  <2> QED BY <2>1, HarmlessSteps
<1>2. d \in Seq(Harmless)
  BY HarmlessSteps, ReadOnlySteps
<1>3. s # <<>>
  <2>1. /\ Insert({fact}, "fact", user) \in Seq(Harmless) /\ Glance \in Seq(Harmless)
        /\ Insert({fact}, "fact", user) # <<>>
    <3>1. [do |-> "insert", soft |-> FALSE, text |-> {fact}] \in Harmless
      BY DEF Harmless, Steps, InsertSteps, Writing, Regenerates
    <3>2. [do |-> "describe", soft |-> FALSE, kind |-> "fact", user |-> user] \in Harmless
      BY DEF Harmless, Steps, DescribeSteps, Writing, Regenerates, Kind
    <3> QED BY <3>1, <3>2, HarmlessSteps, ReadOnlySteps DEF Insert
  <2>2. (IF user THEN <<Do("keepfresh", TRUE)>> ELSE <<>>) \in Seq(Harmless)
    <3>1. CASE user
      BY <3>1, HarmlessSteps
    <3>2. CASE ~user
      BY <3>2
    <3> QED BY <3>1, <3>2
  <2> DEFINE k == IF user THEN <<Do("keepfresh", TRUE)>> ELSE <<>>
             i == Insert({fact}, "fact", user)
  <2>3. k \in Seq(Harmless) /\ i \in Seq(Harmless) /\ i # <<>> /\ Glance \in Seq(Harmless)
    BY <2>1, <2>2
  <2>4. s = (i \o Glance) \o k
    BY DEF remember_with_governance
  <2> HIDE DEF k, i, s
  <2>5. i \o Glance \in Seq(Harmless) /\ i \o Glance # <<>>
    BY <2>3, Joined, JoinedNonempty
  <2>6. (i \o Glance) \o k # <<>>
    BY <2>3, <2>5, JoinedNonempty
  <2> QED BY <2>4, <2>6
<1> HIDE DEF s, d
<1>4. Fits(s)
  BY <1>1, <1>3, HarmlessFits
<1>5. Fits(s \o Answer("none"))
  BY <1>1, AnswerFits DEF Views
<1>6. Fits((s \o d) \o Answer("none"))
  <2>1. s \o d \in Seq(Harmless)
    BY <1>1, <1>2, Joined
  <2> QED BY <2>1, AnswerFits DEF Views
<1>7. /\ remember({fact}, "fact", user) = s \o Answer("none")
      /\ run_remember({fact}, "fact", user) = s
      /\ handle_remember({fact}, "fact", user, dated) = (s \o d) \o Answer("none")
  BY DEF remember, run_remember, handle_remember, s, d
<1> QED BY <1>4, <1>5, <1>6, <1>7

LEMMA ProfilesFit ==
  ASSUME NEW program \in {refresh_profile, handle_refresh_profile, run_profile(TRUE)}
  PROVE  Fits(program)
<1>1. /\ regenerate \in Seq(Harmless) /\ Look \in Seq(Harmless) /\ regenerate # <<>>
  BY HarmlessSteps, ReadOnlySteps DEF regenerate
<1>2. regenerate \o Look \in Seq(Harmless) /\ regenerate \o Look # <<>>
  BY <1>1, Joined, JoinedNonempty
<1>3. Fits(regenerate \o Look) /\ Fits((regenerate \o Look) \o Answer("none"))
  BY <1>2, HarmlessFits, AnswerFits DEF Views
<1>4. /\ refresh_profile = (regenerate \o Look) \o Answer("none")
      /\ handle_refresh_profile = (regenerate \o Look) \o Answer("none")
      /\ run_profile(TRUE) = regenerate \o Look
  BY DEF refresh_profile, handle_refresh_profile, run_profile
<1> QED BY <1>3, <1>4

LEMMA DreamsFit ==
  ASSUME NEW apply \in BOOLEAN,
         NEW program \in
            {run_reflection(apply), run_dream(apply), handle_dream_memory(apply),
             run_reflect(apply), run_synthesis(apply), run_pass, run_dream_sweep(apply)}
  PROVE  Fits(program)
<1>1. \A b \in BOOLEAN : /\ Reflect("fact", b) \in Seq(Harmless)
                         /\ Reflect("lesson", b) \in Seq(Harmless)
                         /\ Synthesize(b) \in Seq(Harmless)
  BY HarmlessSteps DEF Kind
<1>2. /\ Catch \in Seq(Harmless) /\ <<Do("dreamt", TRUE)>> \in Seq(Harmless)
      /\ <<Do("event", FALSE)>> \in Seq(Harmless) /\ <<Do("dreamt", TRUE)>> # <<>>
      /\ <<Do("event", FALSE)>> # <<>> /\ Glance \in Seq(Harmless)
  BY HarmlessSteps, ReadOnlySteps DEF Catch
<1>3. Fits(run_reflection(apply))
  <2>1. Reflect("fact", apply) \o Reflect("lesson", apply) \in Seq(Harmless)
    BY <1>1, Joined
  <2> QED BY <2>1, AnswerFits DEF run_reflection, Views
<1>4. Fits(run_synthesis(apply))
  BY <1>1, AnswerFits DEF run_synthesis, Views
<1>5. Fits(run_pass)
  <2> DEFINE s == (((((Reflect("fact", TRUE) \o Reflect("lesson", TRUE)) \o Catch)
                    \o Synthesize(TRUE)) \o Catch) \o Glance)
             d == <<Do("dreamt", TRUE)>>
  <2>1. s \in Seq(Harmless)
    BY <1>1, <1>2, Joined
  <2>2. d \in Seq(Harmless) /\ d # <<>>
    BY <1>2
  <2>3. run_pass = s \o d
    BY DEF run_pass
  <2> HIDE DEF s, d
  <2>4. s \o d \in Seq(Harmless) /\ s \o d # <<>>
    BY <2>1, <2>2, Joined, JoinedNonempty
  <2> QED BY <2>3, <2>4, HarmlessFits
<1>6. Fits(run_dream_sweep(apply))
  <2> DEFINE s == ((promote_memories_maturity \o run_one_dream(apply)) \o Catch)
             d == <<Do("event", FALSE)>>
  <2>1. s \in Seq(Harmless)
    BY <1>1, <1>2, Joined DEF run_one_dream, promote_memories_maturity
  <2>2. d \in Seq(Harmless) /\ d # <<>>
    BY <1>2
  <2>3. run_dream_sweep(apply) = (s \o d) \o Glance
    BY DEF run_dream_sweep
  <2> HIDE DEF s, d
  <2>4. s \o d \in Seq(Harmless) /\ s \o d # <<>>
    BY <2>1, <2>2, Joined, JoinedNonempty
  <2>5. (s \o d) \o Glance \in Seq(Harmless) /\ (s \o d) \o Glance # <<>>
    BY <1>2, <2>4, Joined, JoinedNonempty
  <2> QED BY <2>3, <2>5, HarmlessFits
<1> QED BY <1>3, <1>4, <1>5, <1>6 DEF run_dream, handle_dream_memory, run_reflect

-----------------------------------------------------------------------------
(* The programs that unfold. *)

\* Nothing is finished in the first four steps.
NotYet(p) == \A i \in 1 .. 4 : i <= Len(p) => p[i].do \notin {"applied", "demote"}

LEMMA SteadyNotYet ==
  ASSUME NEW p \in Seq(Steps), Steady(p)
  PROVE  NotYet(p)
<1>1. Len(p) \in Nat
  OBVIOUS
<1>2. \A i \in 1 .. 4 : i <= Len(p) => i \in 1 .. Len(p)
  BY <1>1
<1> QED BY <1>2 DEF NotYet, Steady

LEMMA RememberedSteps ==
  ASSUME NEW text, NEW kind
  PROVE  LET p == remember_with_governance(text, kind, FALSE)
             i == [do |-> "insert", soft |-> FALSE, text |-> text]
             d == [do |-> "describe", soft |-> FALSE, kind |-> kind, user |-> FALSE]
         IN  p = <<i, d, Do("look", TRUE)>>
<1> DEFINE i == [do |-> "insert", soft |-> FALSE, text |-> text]
           d == [do |-> "describe", soft |-> FALSE, kind |-> kind, user |-> FALSE]
           l == Do("look", TRUE)
           S == {i, d, l}
<1>1. remember_with_governance(text, kind, FALSE) = (<<i, d>> \o <<l>>) \o <<>>
  BY DEF remember_with_governance, Insert, Glance
<1>2. i \in S /\ d \in S /\ l \in S
  OBVIOUS
<1> HIDE DEF i, d, l, S
<1>3. (<<i, d>> \o <<l>>) \o <<>> = <<i, d, l>>
  <2>1. /\ <<i, d>> \in Seq(S) /\ <<l>> \in Seq(S) /\ <<>> \in Seq(S)
        /\ <<i, d, l>> \in Seq(S)
    BY <1>2
  <2> DEFINE p == <<i, d>> \o <<l>>
             q == p \o <<>>
             r == <<i, d, l>>
  <2>2. p \in Seq(S) /\ Len(p) = 3 /\ p[1] = i /\ p[2] = d /\ p[3] = l
    BY <2>1, <1>2
  <2>3. r \in Seq(S) /\ Len(r) = 3 /\ r[1] = i /\ r[2] = d /\ r[3] = l
    BY <2>1, <1>2
  <2> HIDE DEF p, r
  <2>4. q \in Seq(S) /\ Len(q) = 3 /\ q[1] = i /\ q[2] = d /\ q[3] = l
    BY <2>1, <2>2
  <2> HIDE DEF q
  <2>5. \A n \in 1 .. Len(q) : q[n] = r[n]
    BY <2>3, <2>4
  <2>6. q = r
    BY <2>3, <2>4, <2>5, SeqEqual
  <2> QED BY <2>6 DEF p, q, r
<1> QED BY <1>1, <1>3 DEF i, d, l

\* The steps of one consolidation.
Consolidates(p, group, text, kind) ==
  /\ p \in Seq(Steps) /\ Len(p) = 6
  /\ p[1].do = "propose" /\ p[1].group = group /\ p[1].text = text
  /\ p[2].do = "insert" /\ p[2].text = text
  /\ p[3].do = "describe" /\ p[3].kind = kind
  /\ p[4].do = "look" /\ p[5].do = "applied"
  /\ p[6].do = "demote" /\ p[6].group = group

LEMMA ConsolidationSteps ==
  ASSUME NEW group \in SUBSET Handle, NEW text \in SUBSET Fact, NEW kind \in Kind \ {"profile"}
  PROVE  Consolidates(Consolidate(group, text, kind, TRUE), group, text, kind)
<1> DEFINE o == [do |-> "propose", soft |-> FALSE, group |-> group, text |-> text]
           i == [do |-> "insert", soft |-> FALSE, text |-> text]
           d == [do |-> "describe", soft |-> FALSE, kind |-> kind, user |-> FALSE]
           l == Do("look", TRUE)
           a == [do |-> "applied", soft |-> FALSE]
           e == [do |-> "demote", soft |-> TRUE, group |-> group]
<1>1. Consolidate(group, text, kind, TRUE) = <<o>> \o (<<i, d, l>> \o <<a, e>>)
  BY RememberedSteps DEF Consolidate
<1>2. /\ o \in Steps /\ i \in Steps /\ d \in Steps /\ l \in Steps /\ a \in Steps /\ e \in Steps
  <2>1. o \in ProposeSteps /\ i \in InsertSteps /\ d \in DescribeSteps
        /\ a \in AppliedSteps /\ e \in DemoteSteps /\ l \in ReadSteps
    BY DEF ProposeSteps, InsertSteps, DescribeSteps, AppliedSteps, DemoteSteps, ReadSteps, Do
  <2> QED BY <2>1 DEF Steps, Writing
<1>3. /\ o.do = "propose" /\ o.group = group /\ o.text = text
      /\ i.do = "insert" /\ i.text = text /\ d.do = "describe" /\ d.kind = kind
      /\ l.do = "look" /\ a.do = "applied" /\ e.do = "demote" /\ e.group = group
  BY DEF Do
<1> HIDE DEF o, i, d, l, a, e
<1> DEFINE p == <<o>> \o (<<i, d, l>> \o <<a, e>>)
<1>4. /\ p \in Seq(Steps) /\ Len(p) = 6 /\ p[1] = o /\ p[2] = i /\ p[3] = d
      /\ p[4] = l /\ p[5] = a /\ p[6] = e
  BY <1>2
<1> HIDE DEF p
<1> QED BY <1>1, <1>3, <1>4 DEF p, Consolidates

LEMMA ProposalSteps ==
  ASSUME NEW group \in SUBSET Handle, NEW text \in SUBSET Fact, NEW kind
  PROVE  LET p == Consolidate(group, text, kind, FALSE)
         IN  /\ p \in Seq(Steps) /\ Len(p) = 1
             /\ p[1].do = "propose" /\ p[1].group = group
<1> DEFINE o == [do |-> "propose", soft |-> FALSE, group |-> group, text |-> text]
<1>1. Consolidate(group, text, kind, FALSE) = <<o>> \o <<>>
  BY DEF Consolidate
<1>2. o \in Steps /\ o.do = "propose" /\ o.group = group
  BY DEF Steps, Writing, ProposeSteps
<1> HIDE DEF o
<1>3. <<o>> \o <<>> \in Seq(Steps) /\ Len(<<o>> \o <<>>) = 1 /\ (<<o>> \o <<>>)[1] = o
  BY <1>2
<1> QED BY <1>1, <1>2, <1>3

\* What an inference's group becomes: it only adds a memory.
LEMMA DerivationSteps ==
  ASSUME NEW group, NEW text \in SUBSET Fact
  PROVE  /\ Derive(group, text) \in Seq(Harmless) /\ Len(Derive(group, text)) = 6
<1> DEFINE i == [do |-> "insert", soft |-> FALSE, text |-> text]
           d == [do |-> "describe", soft |-> FALSE, kind |-> "inference", user |-> FALSE]
           l == Do("look", TRUE)
           k == Do("look", FALSE)
<1>1. Derive(group, text) = ((<<i, d, l>> \o <<k>>) \o <<l>>) \o <<l>>
  BY RememberedSteps DEF Derive, add_supporting_evidence_from_memories, Look, Glance
<1>2. i \in Harmless /\ d \in Harmless /\ l \in Harmless /\ k \in Harmless
  BY DEF Harmless, Steps, Writing, InsertSteps, DescribeSteps, ReadSteps, Do, Kind, Regenerates
<1> HIDE DEF i, d, l, k
<1> DEFINE p == ((<<i, d, l>> \o <<k>>) \o <<l>>) \o <<l>>
<1>3. p \in Seq(Harmless) /\ Len(p) = 6
  BY <1>2
<1> QED BY <1>1, <1>3

LEMMA HarmlessSequence ==
  ASSUME NEW s \in Seq(Harmless)
  PROVE  /\ s \in Seq(Steps) /\ Steady(s) /\ InOrder(s) /\ NeverCounts(s) /\ NeverProposes(s)
         /\ NotYet(s)
<1>1. \A i \in 1 .. Len(s) : s[i] \in Harmless
  OBVIOUS
<1>2. s \in Seq(Steps)
  BY <1>1 DEF Harmless
<1>3. Steady(s) /\ NeverProposes(s) /\ NeverCounts(s)
  BY <1>1 DEF Harmless, Steady, NeverProposes, NeverCounts
<1> QED BY <1>2, <1>3, SteadyInOrder, SteadyNotYet

LEMMA DerivationsUnfold ==
  ASSUME NEW D, IsFiniteSet(D), NEW f \in [D -> SUBSET Fact]
  PROVE  Each([g \in D |-> Derive(g, f[g])]) \in Seq(Harmless)
<1> DEFINE program == [g \in D |-> Derive(g, f[g])]
<1>1. \A g \in D : Derive(g, f[g]) \in Seq(Harmless) /\ Len(Derive(g, f[g])) = 6
  BY DerivationSteps
<1>2. program \in [D -> Seq(Harmless)] /\ \A g \in D : Len(program[g]) = 6
  BY <1>1
<1> HIDE DEF program
<1>3. Each(program) \in Seq(Harmless)
  BY <1>2, EachInTurn
<1> QED BY <1>3 DEF program

LEMMA ProposalsUnfold ==
  ASSUME NEW D \in SUBSET SUBSET Handle, IsFiniteSet(D), NEW f \in [D -> SUBSET Fact], NEW kind
  PROVE  LET e == Each([g \in D |-> Consolidate(g, f[g], kind, FALSE)])
         IN  /\ e \in Seq(Steps) /\ Steady(e) /\ NeverCounts(e)
             /\ \A i \in 1 .. Len(e) : e[i].do \in {"propose", "demote"} => e[i].group \in D
<1> DEFINE program == [g \in D |-> Consolidate(g, f[g], kind, FALSE)]
           e == Each(program)
<1>1. \A g \in D : LET p == Consolidate(g, f[g], kind, FALSE)
                   IN  /\ p \in Seq(Steps) /\ Len(p) = 1
                       /\ p[1].do = "propose" /\ p[1].group = g
  BY ProposalSteps
<1>2. /\ program \in [D -> Seq(Steps)]
      /\ \A g \in D : /\ Len(program[g]) = 1 /\ program[g][1].do = "propose"
                      /\ program[g][1].group = g
  BY <1>1
<1> HIDE DEF program
<1>3. /\ e \in Seq(Steps)
      /\ \A i \in 1 .. Len(e) :
           \E g \in D, b \in Nat :
             /\ i \in (b + 1) .. (b + 1) /\ b + 1 <= Len(e)
             /\ \A r \in 1 .. 1 : e[b + r] = program[g][r]
  BY <1>2, EachInTurn
<1> HIDE DEF e
<1>4. \A i \in 1 .. Len(e) : e[i].do = "propose" /\ e[i].group \in D
  BY <1>2, <1>3
<1>5. Steady(e) /\ NeverCounts(e)
  BY <1>4 DEF Steady, NeverCounts, Regenerates
<1> QED BY <1>3, <1>4, <1>5 DEF e, program

LEMMA ConsolidationsUnfold ==
  ASSUME NEW D \in SUBSET SUBSET Handle, IsFiniteSet(D), NEW f \in [D -> SUBSET Fact],
         NEW kind \in Kind \ {"profile"}
  PROVE  LET e == Each([g \in D |-> Consolidate(g, f[g], kind, TRUE)])
         IN  /\ e \in Seq(Steps) /\ InOrder(e) /\ NeverCounts(e) /\ NotYet(e)
             /\ \A i \in 1 .. Len(e) :
                  /\ ~Regenerates(e[i])
                  /\ e[i].do \in {"propose", "demote"} => e[i].group \in D
<1> DEFINE program == [g \in D |-> Consolidate(g, f[g], kind, TRUE)]
           e == Each(program)
           Block(b, g) ==
             /\ b \in Nat /\ b + 6 <= Len(e) /\ g \in D
             /\ e[b + 1].do = "propose" /\ e[b + 1].group = g /\ e[b + 1].text = f[g]
             /\ e[b + 2].do = "insert" /\ e[b + 2].text = f[g]
             /\ e[b + 3].do = "describe" /\ e[b + 3].kind # "profile"
             /\ e[b + 4].do = "look" /\ e[b + 5].do = "applied"
             /\ e[b + 6].do = "demote" /\ e[b + 6].group = g
<1>1. \A g \in D : Consolidates(Consolidate(g, f[g], kind, TRUE), g, f[g], kind)
  BY ConsolidationSteps
<1>2. \A g \in D : Consolidates(program[g], g, f[g], kind)
  BY <1>1
<1>3. DOMAIN program = D /\ program = [g \in D |-> program[g]]
  OBVIOUS
<1> HIDE DEF program
<1>4. /\ e \in Seq(Steps)
      /\ \A i \in 1 .. Len(e) :
           \E g \in D, b \in Nat :
             /\ i \in (b + 1) .. (b + 6) /\ b + 6 <= Len(e)
             /\ \A r \in 1 .. 6 : e[b + r] = program[g][r]
  <2>1. \A g \in D : program[g] \in Seq(Steps) /\ Len(program[g]) = 6
    BY <1>2 DEF Consolidates
  <2>2. 6 \in {1, 6} /\ program \in [D -> Seq(Steps)]
    BY <1>3, <2>1
  <2> QED BY SMTT(30), <2>1, <2>2, EachInTurn
<1> HIDE DEF e
<1>5. ASSUME NEW i \in 1 .. Len(e)
      PROVE  \E g \in D, b \in Nat : i \in (b + 1) .. (b + 6) /\ Block(b, g)
  <2>1. PICK g \in D, b \in Nat :
             /\ i \in (b + 1) .. (b + 6) /\ b + 6 <= Len(e)
             /\ \A r \in 1 .. 6 : e[b + r] = program[g][r]
    BY <1>4
  <2>2. /\ e[b + 1] = program[g][1] /\ e[b + 2] = program[g][2] /\ e[b + 3] = program[g][3]
        /\ e[b + 4] = program[g][4] /\ e[b + 5] = program[g][5] /\ e[b + 6] = program[g][6]
    BY <2>1
  <2>3. Block(b, g)
    <3>1. Consolidates(program[g], g, f[g], kind)
      BY <1>2
    <3> QED BY <2>1, <2>2, <3>1 DEF Consolidates
  <2> QED BY <2>1, <2>3
<1>6. ASSUME NEW i \in 1 .. Len(e)
      PROVE  /\ e[i].do \in Consolidation /\ ~Regenerates(e[i])
             /\ e[i].do \in {"propose", "demote"} => e[i].group \in D
             /\ i <= 4 => e[i].do \notin {"applied", "demote"}
             /\ e[i].do = "demote" /\ i > 1 => e[i - 1].do = "applied"
             /\ e[i].do = "applied" =>
                  /\ i < Len(e) /\ e[i + 1].do = "demote"
                  /\ i > 1 => e[i - 1].do = "look"
                  /\ i > 2 => e[i - 2].do = "describe"
                  /\ i > 3 => e[i - 3].do = "insert"
                  /\ i > 4 => /\ e[i - 4].do = "propose"
                              /\ e[i - 4].group = e[i + 1].group /\ e[i - 4].text = e[i - 3].text
  <2>1. PICK g \in D, b \in Nat : i \in (b + 1) .. (b + 6) /\ Block(b, g)
    BY <1>5
  <2>2. i \in {b + 1, b + 2, b + 3, b + 4, b + 5, b + 6}
    BY <2>1
  <2>3. CASE i \in {b + 1, b + 2, b + 3, b + 4}
    BY <2>1, <2>3 DEF Consolidation, Regenerates
  <2>4. CASE i = b + 5
    <3>1. /\ i - 1 = b + 4 /\ i - 2 = b + 3 /\ i - 3 = b + 2 /\ i - 4 = b + 1 /\ i + 1 = b + 6
          /\ i < Len(e) /\ i > 4
      BY <2>1, <2>4
    <3> QED BY <2>1, <2>4, <3>1 DEF Consolidation, Regenerates
  <2>5. CASE i = b + 6
    <3>1. i - 1 = b + 5 /\ i > 4
      BY <2>1, <2>5
    <3> QED BY <2>1, <2>5, <3>1 DEF Consolidation, Regenerates
  <2> QED BY <2>2, <2>3, <2>4, <2>5
<1>7. ConsolidatesInOrder(e)
  <2> SUFFICES ASSUME NEW i \in 1 .. Len(e)
      PROVE
    /\ e[i].do \in {"applied", "demote"} => \A j \in 1 .. i : e[j].do \in Consolidation
    /\ e[i].do = "demote" /\ i > 1 => e[i - 1].do = "applied"
    /\ e[i].do = "applied" =>
         /\ i < Len(e) /\ e[i + 1].do = "demote"
         /\ i > 1 => e[i - 1].do = "look"
         /\ i > 2 => e[i - 2].do = "describe"
         /\ i > 3 => e[i - 3].do = "insert"
         /\ i > 4 => /\ e[i - 4].do = "propose"
                     /\ e[i - 4].group = e[i + 1].group /\ e[i - 4].text = e[i - 3].text
    BY DEF ConsolidatesInOrder
  <2>1. \A j \in 1 .. i : j \in 1 .. Len(e)
    <3>1. e \in Seq(Steps)
      BY <1>4
    <3>2. Len(e) \in Nat
      BY <3>1
    <3> QED BY <3>2
  <2>2. \A j \in 1 .. i : e[j].do \in Consolidation
    BY <1>6, <2>1
  <2> QED BY <1>6, <2>2
<1>8. ReplacesInOrder(e) /\ NeverCounts(e)
  BY <1>6 DEF ReplacesInOrder, NeverCounts, Consolidation, Regenerates
<1>9. NotYet(e)
  <2>1. \A i \in 1 .. 4 : i <= Len(e) => i \in 1 .. Len(e)
    <3>1. e \in Seq(Steps)
      BY <1>4
    <3> QED BY <3>1
  <2> QED BY <1>6, <2>1 DEF NotYet
<1> QED BY <1>4, <1>6, <1>7, <1>8, <1>9 DEF InOrder, e, program

Dreamless(p) == \A i \in 1 .. Len(p) : p[i].do \notin {"applied", "demote"}

LEMMA StoredTexts ==
  ASSUME StoreTypes
  PROVE  /\ IsFiniteSet(Live) /\ Live \in SUBSET Handle /\ Profiles \subseteq UserMemories
         /\ \A g \in SUBSET Live : TextOf(g) \in SUBSET Fact
         /\ \A h \in Live : mem[h].text \in SUBSET Fact
<1>1. Live \in SUBSET Handle
  BY ServiceAssumption DEF StoreTypes, Handle
<1>2. IsFiniteSet(Handle)
  BY ServiceAssumption, FS_Interval DEF Handle
<1>3. IsFiniteSet(Live)
  BY <1>1, <1>2, FS_Subset
<1>4. \A h \in Live : mem[h] \in Memories
  BY DEF StoreTypes
<1>5. \A h \in Live : mem[h].text \in SUBSET Fact /\ (mem[h].kind = "profile" => mem[h].user)
  BY <1>4 DEF Memories
<1>6. \A g \in SUBSET Live : TextOf(g) \in SUBSET Fact
  BY <1>5 DEF TextOf
<1> QED BY <1>1, <1>3, <1>5, <1>6 DEF Profiles, UserMemories

-----------------------------------------------------------------------------
(* One worker's turn. *)

GroupsIn(p) ==
  \A i \in 1 .. Len(p) : p[i].do \in {"propose", "demote"} => p[i].group \subseteq 1 .. (next - 1)

\* w goes on as v; another one's bars may be lifted, and it may stop being alone.
Moved(w, v) ==
  /\ task' \in [Worker -> Tasks] /\ task'[w] = Settled(v)
  /\ \A u \in Worker \ {w} :
       LET t == task[u]
           n == task'[u]
       IN  /\ n.todo = t.todo /\ n.counted = t.counted /\ n.answered = t.answered
           /\ n.made = t.made /\ n.mark = t.mark /\ (n.alone => t.alone)
           /\ n.stale = t.stale /\ n.beyond = t.beyond
           /\ n.ok = t.ok /\ n.hint = t.hint /\ n.back = t.back /\ n.orig = t.orig
           /\ n.barred \subseteq t.barred /\ (t.todo = <<>> => n = t)

LEMMA OneMoves ==
  ASSUME TaskTypes, NEW w \in Worker, NEW v \in Tasks,
         task' = [task EXCEPT ![w] = Settled(v)]
  PROVE  Moved(w, v)
<1>1. Settled(v) \in Tasks /\ task \in [Worker -> Tasks]
  BY SettledTask DEF TaskTypes
<1>2. task' \in [Worker -> Tasks] /\ task'[w] = Settled(v)
  BY <1>1
<1>3. \A u \in Worker \ {w} : task'[u] = task[u]
  BY <1>1
<1> QED BY <1>2, <1>3 DEF Moved

\* The program w goes on with is one that it may have.
Sound(v) ==
  /\ v \in Tasks /\ BarsHold(v) /\ CountsAndAnswers(v) /\ InOrder(v.todo) /\ GroupsIn(v.todo)

\* A program goes on without finishing or beginning anything.
Goes(p, q) ==
  \/ p # <<>> /\ q = Tail(p) /\ p[1].do \notin {"propose", "insert", "applied", "kind", "replace", "drop"}
  \/ NotYet(q) /\ \A i \in 1 .. Len(q) : ~Regenerates(q[i])

\* Old memories keep their text, a bar is lifted from all, and a handle is used once.
StoreGrows ==
  /\ next' \in {next, next + 1}
  /\ \A h \in DOMAIN mem' :
       \/ h = next /\ next' = next + 1
       \/ /\ h \in Live /\ mem'[h].text = mem[h].text
          /\ mem[h].stance = "deny" /\ mem'[h].stance # "deny" =>
               \A u \in Worker : h \notin task'[u].barred

LEMMA HeadStep ==
  ASSUME TaskTypes, NEW w \in Worker, task[w].todo # <<>>
  PROVE  LET p == task[w].todo
         IN  /\ task[w] \in Tasks /\ p \in Seq(Steps) /\ Now(w) = p[1] /\ p[1] \in Steps
             /\ Len(p) \in Nat \ {0} /\ Tail(p) \in Seq(Steps)
             /\ \A do : At(w, do) <=> p[1].do = do
<1>1. task[w] \in Tasks
  BY DEF TaskTypes
<1>2. task[w].todo \in Seq(Steps)
  BY <1>1 DEF Tasks
<1> QED BY <1>1, <1>2, Rest DEF Now, At

LEMMA SoundNow ==
  ASSUME ServiceInv, NEW w \in Worker
  PROVE  Sound(task[w])
<1>1. task[w] \in Tasks
  BY DEF ServiceInv, TaskTypes
<1>2. BarsHold(task[w]) /\ CountsAndAnswers(task[w]) /\ InOrder(task[w].todo)
  BY DEF ServiceInv, Programs, InOrder
<1>3. GroupsIn(task[w].todo)
  BY DEF ServiceInv, GroupsExisted, GroupsIn
<1> QED BY <1>1, <1>2, <1>3 DEF Sound

LEMMA SteadyGoes ==
  ASSUME NEW p, NEW q \in Seq(Steps), Steady(q)
  PROVE  Goes(p, q)
BY SteadyNotYet DEF Goes, Steady

LEMMA GroupsRest ==
  ASSUME NEW p \in Seq(Steps), p # <<>>, GroupsIn(p)
  PROVE  GroupsIn(Tail(p))
<1>1. /\ Len(p) \in Nat /\ Len(Tail(p)) = Len(p) - 1
      /\ \A i \in 1 .. Len(Tail(p)) : Tail(p)[i] = p[i + 1]
  BY Rest
<1>2. \A i \in 1 .. Len(Tail(p)) : i + 1 \in 1 .. Len(p)
  BY <1>1
<1> QED BY <1>1, <1>2 DEF GroupsIn

LEMMA GroupsResume ==
  ASSUME NEW p \in Seq(Steps), NEW q, Resumes(q, p), GroupsIn(p)
  PROVE  GroupsIn(q)
<1>1. CASE q = <<>>
  BY <1>1 DEF GroupsIn
<1>2. ASSUME NEW c \in 1 .. Len(p), Len(q) = Len(p) - c,
             \A i \in 1 .. (Len(p) - c) : q[i] = p[c + i]
      PROVE  GroupsIn(q)
  <2>1. \A i \in 1 .. Len(q) : c + i \in 1 .. Len(p) /\ q[i] = p[c + i]
    BY <1>2
  <2> QED BY <2>1 DEF GroupsIn
<1> QED BY <1>1, <1>2 DEF Resumes

LEMMA GroupsBefore ==
  ASSUME NEW s \in Seq(Steps), NEW r \in Seq(Steps), GroupsIn(s), GroupsIn(r)
  PROVE  GroupsIn(s \o r)
BY DEF GroupsIn

LEMMA SteadyBefore ==
  ASSUME NEW s \in Seq(Steps), NEW r \in Seq(Steps), Steady(s), Steady(r)
  PROVE  Steady(s \o r)
BY DEF Steady

\* The next step of a program that neither counts nor answers.
LEMMA RestSound ==
  ASSUME NEW t, Sound(t), t.todo # <<>>, t.todo[1].do \notin {"count", "answer"},
         NEW v \in Tasks, BarsHold(v), v.todo = Tail(t.todo), v.counted = t.counted,
         v.answered = t.answered
  PROVE  /\ Sound(v)
         /\ t.todo[1].do \notin {"propose", "insert", "applied", "kind", "replace", "drop"} => Goes(t.todo, v.todo)
<1>1. t \in Tasks /\ t.todo \in Seq(Steps) /\ CountsAndAnswers(t) /\ InOrder(t.todo) /\ GroupsIn(t.todo)
  BY DEF Sound, Tasks
<1>2. CountsAndAnswers(v)
  BY <1>1, CountsRest
<1>3. InOrder(v.todo) /\ GroupsIn(v.todo)
  BY <1>1, InOrderRest, GroupsRest
<1> QED BY <1>2, <1>3 DEF Sound, Goes

\* What follows an error.
LEMMA ErrorSound ==
  ASSUME NEW t, Sound(t), t.todo # <<>>, t.todo[1].do \notin {"count", "answer"},
         NEW v \in Tasks, BarsHold(v), v.todo = AfterError(t.todo), v.counted = t.counted
  PROVE  Sound(v) /\ Goes(t.todo, v.todo)
<1>1. t \in Tasks /\ t.todo \in Seq(Steps) /\ CountsAndAnswers(t) /\ InOrder(t.todo) /\ GroupsIn(t.todo)
  BY DEF Sound, Tasks
<1>2. Resumes(v.todo, t.todo) /\ v.todo \in Seq(Steps)
  BY <1>1, AfterErrorResumes
<1>3. CountsAndAnswers(v)
  BY <1>1, <1>2, CountsAfterError
<1>4. Steady(v.todo)
  BY <1>1, <1>2, SteadyResumes
<1>5. GroupsIn(v.todo)
  BY <1>1, <1>2, GroupsResume
<1>6. InOrder(v.todo) /\ Goes(t.todo, v.todo)
  BY <1>2, <1>4, SteadyInOrder, SteadyGoes
<1> QED BY <1>3, <1>5, <1>6 DEF Sound

\* What a step puts in front of the rest, when it is no recall's.
LEMMA UnfoldSound ==
  ASSUME NEW t, Sound(t), t.todo # <<>>,
         t.todo[1].do \notin Reads \union {"count", "answer", "kind", "drop"} \union Consolidation,
         NEW s \in Seq(Steps), InOrder(s), NeverCounts(s), GroupsIn(s),
         NEW v \in Tasks, BarsHold(v), v.todo = s \o Tail(t.todo), v.counted = t.counted
  PROVE  /\ Sound(v)
         /\ NotYet(s) /\ (\A i \in 1 .. Len(s) : ~Regenerates(s[i])) => Goes(t.todo, v.todo)
         /\ Steady(Tail(t.todo)) /\ Tail(t.todo) \in Seq(Steps)
<1>1. t \in Tasks /\ t.todo \in Seq(Steps) /\ CountsAndAnswers(t) /\ InOrder(t.todo) /\ GroupsIn(t.todo)
  BY DEF Sound, Tasks
<1> DEFINE r == Tail(t.todo)
<1>2. r \in Seq(Steps) /\ Steady(r) /\ GroupsIn(r)
  BY <1>1, Rest, SteadyBehind, GroupsRest
<1>3. t.counted = {} /\ NeverCounts(t.todo)
  BY <1>1, CountsLater
<1>4. NeverCounts(r)
  BY <1>1, <1>3, NeverCountsRest
<1> HIDE DEF r
<1>5. NeverCounts(s \o r) /\ InOrder(s \o r) /\ GroupsIn(s \o r)
  BY <1>2, <1>4, NeverCountsBefore, InOrderBefore, GroupsBefore
<1>6. v.todo = s \o r
  BY DEF r
<1>7. CountsAndAnswers(v)
  BY <1>3, <1>5, <1>6 DEF CountsAndAnswers
<1>8. ASSUME NotYet(s), \A i \in 1 .. Len(s) : ~Regenerates(s[i])
      PROVE  Goes(t.todo, v.todo)
  <2>1. NotYet(r) /\ \A i \in 1 .. Len(r) : ~Regenerates(r[i])
    BY <1>2, SteadyNotYet DEF Steady
  <2> DEFINE q == s \o r
  <2>2. /\ Len(s) \in Nat /\ Len(r) \in Nat /\ Len(q) = Len(s) + Len(r)
        /\ \A i \in 1 .. Len(s) : q[i] = s[i]
        /\ \A i \in (Len(s) + 1) .. Len(q) : q[i] = r[i - Len(s)] /\ i - Len(s) \in 1 .. Len(r)
    BY <1>2
  <2> HIDE DEF q
  <2>3. \A i \in 1 .. Len(q) : \/ i \in 1 .. Len(s) /\ q[i] = s[i]
                               \/ i - Len(s) \in 1 .. Len(r) /\ q[i] = r[i - Len(s)]
    BY <2>2
  <2>4. \A i \in 1 .. Len(q) : ~Regenerates(q[i])
    BY <1>8, <2>1, <2>3
  <2>5. NotYet(q)
    <3> SUFFICES ASSUME NEW i \in 1 .. 4, i <= Len(q)
                 PROVE  q[i].do \notin {"applied", "demote"}
      BY DEF NotYet
    <3>1. i \in 1 .. Len(q)
      BY <2>2
    <3>2. CASE i \in 1 .. Len(s) /\ q[i] = s[i]
      <4>1. i <= Len(s)
        BY <2>2, <3>2
      <4> QED BY <1>8, <3>2, <4>1 DEF NotYet
    <3>3. CASE i - Len(s) \in 1 .. Len(r) /\ q[i] = r[i - Len(s)]
      BY <1>2, <3>3 DEF Steady
    <3> QED BY <2>3, <3>1, <3>2, <3>3
  <2> QED BY <1>6, <2>4, <2>5 DEF Goes, q
<1>9. Steady(Tail(t.todo)) /\ Tail(t.todo) \in Seq(Steps)
  BY <1>2 DEF r
<1> QED BY <1>5, <1>6, <1>7, <1>8, <1>9 DEF Sound

LEMMA WiderInterval ==
  ASSUME NEW a \in Nat, NEW b \in Nat, a <= b
  PROVE  \A x \in 1 .. (a - 1) : x \in 1 .. (b - 1)
<1> TAKE x \in 1 .. (a - 1)
<1>1. x \in Int /\ 1 <= x /\ x <= a - 1
  OBVIOUS
<1>2. x <= b - 1
  BY <1>1
<1> QED BY <1>1, <1>2

LEMMA TasksKept ==
  ASSUME ServiceInv, NEW w \in Worker, NEW v, Moved(w, v), Sound(v), StoreGrows,
         v.mark <= now', now' \in Nat, now <= now'
  PROVE  /\ TaskTypes' /\ Programs' /\ \A u \in Worker : GroupsIn(task[u].todo)'
         /\ \A u \in Worker : u # w => task'[u].todo = task[u].todo /\ task'[u].made = task[u].made
         /\ task'[w].todo = v.todo /\ task'[w].counted = v.counted
         /\ v.todo # <<>> => task'[w] = v
<1>1. /\ v \in Tasks /\ BarsHold(v) /\ CountsAndAnswers(v) /\ InOrder(v.todo) /\ GroupsIn(v.todo)
      /\ task'[w] = Settled(v) /\ task' \in [Worker -> Tasks]
  BY DEF Sound, Moved
<1>2. /\ task'[w].todo = v.todo /\ task'[w].counted = v.counted
      /\ v.todo # <<>> => task'[w] = v
      /\ v.todo = <<>> => task'[w] = Idle
      /\ CountsAndAnswers(task'[w])
  BY <1>1, SettledTask
<1>3. now \in Nat /\ next \in Nat /\ next' \in {next, next + 1}
  BY ServiceAssumption DEF ServiceInv, StoreTypes, StoreGrows
<1>4. \A u \in Worker : task[u] \in Tasks /\ task[u].mark <= now
  BY DEF ServiceInv, TaskTypes
<1>5. TaskTypes'
  <2>1. ASSUME NEW u \in Worker
        PROVE  /\ task'[u].todo = <<>> => task'[u] = Idle
               /\ task'[u].mark <= now'
    <3>1. CASE u = w
      <4>1. Idle.mark <= now'
        BY <1>3 DEF Idle
      <4> QED BY <1>2, <3>1, <4>1
    <3>2. CASE u # w
      <4>1. /\ task'[u].todo = task[u].todo /\ task'[u].mark = task[u].mark
            /\ task[u].todo = <<>> => task'[u] = task[u]
        BY <3>2 DEF Moved
      <4>2. task[u].todo = <<>> => task[u] = Idle
        BY DEF ServiceInv, TaskTypes
      <4>3. task[u].mark \in Int /\ task[u].mark <= now
        BY <1>4 DEF Tasks
      <4> QED BY <1>3, <4>1, <4>2, <4>3
    <3> QED BY <3>1, <3>2
  <2> QED BY <1>1, <2>1 DEF TaskTypes
<1> DEFINE Held(n) ==
             /\ n.barred \subseteq 1 .. (next' - 1)
             /\ \A h \in n.barred : h \in DOMAIN mem' => mem'[h].stance = "deny"
             /\ (n.ok \union n.hint \union n.back \union n.orig) \intersect n.barred = {}
<1>6. ASSUME NEW t, NEW n, BarsHold(t), n.barred \subseteq t.barred,
             n.ok = t.ok, n.hint = t.hint, n.back = t.back, n.orig = t.orig,
             NEW u \in Worker, n.barred = task'[u].barred
      PROVE  Held(n)
  <2>1. n.barred \subseteq 1 .. (next - 1)
    BY <1>6 DEF BarsHold
  <2>2. \A h \in n.barred : h \in DOMAIN mem' =>
          h \in Live /\ (mem[h].stance = "deny" => mem'[h].stance = "deny")
    BY <1>3, <1>6, <2>1 DEF StoreGrows
  <2> QED BY <1>3, <1>6, <2>1, <2>2 DEF BarsHold
<1>7. \A u \in Worker : BarsHold(task[u])'
  <2> TAKE u \in Worker
  <2>1. CASE u = w /\ v.todo # <<>>
    <3>1. task'[u] = v
      BY <1>2, <2>1
    <3>2. Held(v)
      <4> HIDE DEF Held
      <4> QED BY <1>1, <1>6, <3>1
    <3> QED BY <3>1, <3>2 DEF BarsHold, Live
  <2>2. CASE u = w /\ v.todo = <<>>
    <3>1. task'[u].barred = {}
      BY <1>2, <2>2 DEF Idle
    <3> QED BY <3>1 DEF BarsHold
  <2>3. CASE u # w
    <3>1. BarsHold(task[u])
      BY DEF ServiceInv, Programs
    <3>2. /\ task'[u].barred \subseteq task[u].barred /\ task'[u].ok = task[u].ok
          /\ task'[u].hint = task[u].hint /\ task'[u].back = task[u].back
          /\ task'[u].orig = task[u].orig
      BY <2>3 DEF Moved
    <3>3. Held(task'[u])
      <4> HIDE DEF Held
      <4> QED BY <1>6, <3>1, <3>2
    <3> QED BY <3>3 DEF BarsHold, Live
  <2> QED BY <2>1, <2>2, <2>3
<1>8. \A u \in Worker : CountsAndAnswers(task'[u]) /\ InOrder(task'[u].todo)
  <2> TAKE u \in Worker
  <2>1. CASE u = w
    BY <1>1, <1>2, <2>1
  <2>2. CASE u # w
    <3>1. CountsAndAnswers(task[u]) /\ InOrder(task[u].todo)
      BY DEF ServiceInv, Programs, InOrder
    <3>2. /\ task'[u].todo = task[u].todo /\ task'[u].counted = task[u].counted
          /\ task'[u].answered = task[u].answered
      BY <2>2 DEF Moved
    <3> QED BY <3>1, <3>2, CountsAlike
  <2> QED BY <2>1, <2>2
<1>9. Programs'
  BY <1>7, <1>8 DEF Programs, InOrder
<1>10. \A u \in Worker : GroupsIn(task[u].todo)'
  <2> TAKE u \in Worker
  <2>1. GroupsIn(task'[u].todo)
    <3>1. GroupsIn(task[u].todo)
      BY DEF ServiceInv, GroupsExisted, GroupsIn
    <3> QED BY <1>1, <1>2, <3>1 DEF Moved
  <2>2. \A x \in 1 .. (next - 1) : x \in 1 .. (next' - 1)
    <3>1. next' \in Nat /\ next <= next'
      BY <1>3
    <3> QED BY <1>3, <3>1, WiderInterval
  <2> QED BY <2>1, <2>2 DEF GroupsIn
<1>11. \A u \in Worker : u # w => task'[u].todo = task[u].todo /\ task'[u].made = task[u].made
  BY DEF Moved
<1> QED BY <1>2, <1>5, <1>9, <1>10, <1>11

\* What was counted stays accounted for when nobody counts or answers.
LEMMA RecordsKept ==
  ASSUME ServiceInv, RecordTypes', \A u \in Worker : task'[u].counted = task[u].counted,
         promised' = promised, prepared' = prepared, receipts' = receipts,
         \A k \in Delivery, h \in Handle : counts'[k][h] <= counts[k][h]
  PROVE  ReceiptsKept' /\ CountedOncePerRequest'
<1>1. ReceiptsKept'
  BY DEF ServiceInv, ReceiptsKept
<1>2. ASSUME NEW k \in Delivery, NEW h \in Handle
      PROVE  LET Holding(keyed) == {w \in Worker : <<k, h, keyed>> \in task'[w].counted}
                 retried == <<k, h>> \in promised' \/ Holding(TRUE) # {}
             IN  counts'[k][h] <= prepared'[k][h] + Cardinality(Holding(FALSE))
                                   + (IF retried THEN 1 ELSE 0)
  <2> DEFINE Holds(keyed) == {w \in Worker : <<k, h, keyed>> \in task[w].counted}
             Holds2(keyed) == {w \in Worker : <<k, h, keyed>> \in task'[w].counted}
             c == Cardinality(Holds(FALSE))
             r == <<k, h>> \in promised \/ Holds(TRUE) # {}
  <2>1. Holds2(FALSE) = Holds(FALSE) /\ Holds2(TRUE) = Holds(TRUE)
    OBVIOUS
  <2>2. c \in Nat
    <3>1. IsFiniteSet(Worker) /\ Holds(FALSE) \subseteq Worker
      BY ServiceAssumption
    <3>2. IsFiniteSet(Holds(FALSE))
      BY <3>1, FS_Subset
    <3> QED BY <3>2, FS_CardinalityType
  <2>3. counts[k][h] <= prepared[k][h] + c + (IF r THEN 1 ELSE 0)
    BY DEF ServiceInv, CountedOncePerRequest
  <2>4. counts[k][h] \in Nat /\ prepared[k][h] \in Nat /\ counts'[k][h] \in Nat
    BY DEF ServiceInv, RecordTypes
  <2> HIDE DEF c, r
  <2>5. counts'[k][h] <= prepared'[k][h] + c + (IF r THEN 1 ELSE 0)
    BY <2>2, <2>3, <2>4
  <2> QED BY <2>1, <2>5 DEF c, r
<1>3. CountedOncePerRequest'
  BY <1>2 DEF CountedOncePerRequest
<1> QED BY <1>1, <1>3

LEMMA HoldersFinite ==
  ASSUME NEW S \in SUBSET Worker
  PROVE  IsFiniteSet(S) /\ Cardinality(S) \in Nat
BY ServiceAssumption, FS_Subset, FS_CardinalityType

LEMMA AppliedFinite ==
  ASSUME ServiceInv, NEW h
  PROVE  IsFiniteSet(Applied(h)) /\ Cardinality(Applied(h)) \in Nat
<1>1. PICK n \in Nat : n = Len(proposals)
  BY DEF ServiceInv, RecordTypes
<1>2. IsFiniteSet(1 .. n)
  BY FS_Interval
<1>3. Applied(h) \subseteq 1 .. n
  BY <1>1 DEF Applied
<1> QED BY <1>2, <1>3, FS_Subset, FS_CardinalityType

\* Whoever gives less feedback for as many applied proposals.
LEMMA FeedbackKept ==
  ASSUME ServiceInv, demoted' = demoted,
         \A h \in Handle : Applied(h)' = Applied(h) /\ Demoting(h)' \subseteq Demoting(h)
  PROVE  FeedbackAccounted'
<1> SUFFICES ASSUME NEW h \in Handle
             PROVE  demoted[h] + Cardinality(Demoting(h)') <= Cardinality(Applied(h)')
  BY DEF FeedbackAccounted
<1>1. Applied(h)' = Applied(h)
  OBVIOUS
<1>2. Demoting(h) \subseteq Worker /\ Demoting(h)' \subseteq Demoting(h)
  BY DEF Demoting
<1> DEFINE D == Demoting(h)
           E == Demoting(h)'
<1>3. IsFiniteSet(D) /\ E \subseteq D
  BY <1>2, HoldersFinite
<1> HIDE DEF D, E
<1>4. Cardinality(E) \in Nat /\ Cardinality(D) \in Nat /\ Cardinality(E) <= Cardinality(D)
  BY <1>3, FS_Subset, FS_CardinalityType
<1>5. demoted[h] + Cardinality(D) <= Cardinality(Applied(h)) /\ demoted[h] \in Nat
  BY DEF ServiceInv, FeedbackAccounted, RecordTypes, D
<1>6. Cardinality(Applied(h)) \in Nat
  BY AppliedFinite
<1>7. demoted[h] + Cardinality(E) <= Cardinality(Applied(h))
  BY <1>4, <1>5, <1>6
<1> QED BY <1>1, <1>7 DEF E

\* A step that neither proposes, remembers nor marks leaves dreams as they are.
LEMMA DreamsKept ==
  ASSUME ServiceInv, NEW w \in Worker, NEW v, Moved(w, v), Sound(v), StoreGrows,
         Goes(task[w].todo, v.todo) \/ NotYet(v.todo),
         v.todo # <<>> => v.made = task[w].made,
         proposals' = proposals, \A u \in Worker : GroupsIn(task[u].todo)'
  PROVE  /\ GroupsExisted' /\ ProposalWaits' /\ AppliedIsRemembered'
         /\ demoted' = demoted => FeedbackAccounted'
<1> DEFINE p == task[w].todo
           q == v.todo
<1>1. /\ \A u \in Worker : u # w => task'[u].todo = task[u].todo /\ task'[u].made = task[u].made
      /\ task'[w].todo = q
      /\ q # <<>> => task'[w].made = task[w].made
  BY SettledTask DEF Moved, Sound
<1>2. p \in Seq(Steps) /\ q \in Seq(Steps) /\ ConsolidatesInOrder(p)
  BY SoundNow DEF Sound, Tasks, InOrder
<1>3. next \in Nat \ {0} /\ next' \in Nat /\ next <= next'
  BY ServiceAssumption DEF ServiceInv, StoreTypes, StoreGrows
<1>4. \A x \in 1 .. (next - 1) : x \in 1 .. (next' - 1)
  BY <1>3, WiderInterval
<1>5. \A h \in 1 .. (next - 1) : h \in DOMAIN mem' => h \in Live /\ mem'[h].text = mem[h].text
  BY <1>3 DEF StoreGrows
<1>6. ASSUME NEW u \in Worker, NEW i \in 1 .. 4, AppliesNext(u, i)'
      PROVE  \E j \in 1 .. 4 :
               /\ AppliesNext(u, j) /\ task'[u].todo[i + 1].group = task[u].todo[j + 1].group
               /\ i = 4 => j = 4 /\ task'[u].todo[1].text = task[u].todo[1].text
               /\ i < 4 => j < 4
               /\ task'[u].made = task[u].made
  <2>1. CASE u # w
    BY <1>1, <1>6, <2>1 DEF AppliesNext
  <2>2. CASE u = w
    <3>1. i \in 1 .. Len(q) /\ q[i].do = "applied" /\ q # <<>>
      BY <1>1, <1>2, <1>6, <2>2 DEF AppliesNext
    <3>2. ~NotYet(q)
      BY <1>2, <3>1 DEF NotYet
    <3>3. p # <<>> /\ q = Tail(p) /\ p[1].do \notin {"propose", "insert", "applied", "kind", "replace", "drop"}
      BY <3>2 DEF Goes
    <3>4. /\ Len(p) \in Nat \ {0} /\ Len(q) = Len(p) - 1
          /\ \A k \in 1 .. Len(q) : q[k] = p[k + 1]
      BY <1>2, <3>3, Rest
    <3> DEFINE j == i + 1
    <3>5. j \in 1 .. Len(p) /\ p[j].do = "applied" /\ j > 1
      BY SMTT(30), <3>1, <3>4
    <3>6. /\ j < Len(p)
          /\ j > 3 => p[j - 3].do = "insert"
          /\ j > 4 => p[j - 4].do = "propose"
      <4> HIDE DEF j, p
      <4> QED BY <1>2, <3>5 DEF ConsolidatesInOrder
    <3>7. j # 4 /\ j # 5
      <4>1. j = 4 => p[j - 3] = p[1]
        OBVIOUS
      <4>2. j = 5 => p[j - 4] = p[1]
        OBVIOUS
      <4> QED BY <3>3, <3>6, <4>1, <4>2
    <3>8. q[i + 1] = p[j + 1]
      BY <3>4, <3>6
    <3>9. i < 4 /\ j \in 1 .. 4 /\ j < 4
      BY <3>7
    <3>10. AppliesNext(w, j)
      BY <3>5 DEF AppliesNext
    <3>11. /\ task'[u].todo[i + 1].group = task[u].todo[j + 1].group
           /\ task'[u].made = task[u].made
      BY <1>1, <2>2, <3>1, <3>8
    <3> HIDE DEF p, q, j
    <3> QED BY <2>2, <3>9, <3>10, <3>11
  <2> QED BY <2>1, <2>2
<1>7. \A u \in Worker : HasMade(u)' => HasMade(u) /\ task'[u].made = task[u].made
  <2> SUFFICES ASSUME NEW u \in Worker, NEW i \in 1 .. 3, AppliesNext(u, i)'
               PROVE  HasMade(u) /\ task'[u].made = task[u].made
    BY DEF HasMade
  <2>1. i \in 1 .. 4 /\ i < 4
    OBVIOUS
  <2>2. \E j \in 1 .. 4 : AppliesNext(u, j) /\ j < 4 /\ task'[u].made = task[u].made
    BY <1>6, <2>1
  <2>3. \A j \in 1 .. 4 : j < 4 => j \in 1 .. 3
    OBVIOUS
  <2> QED BY <2>2, <2>3 DEF HasMade
<1>8. \A h \in Handle : Demoting(h)' \subseteq Demoting(h)
  <2> SUFFICES ASSUME NEW u \in Worker, task'[u].todo # <<>>, Head(task'[u].todo).do = "demote"
               PROVE  task'[u].todo = task[u].todo
    BY DEF Demoting, At, Now
  <2>1. CASE u # w
    BY <1>1, <2>1
  <2>2. CASE u = w
    <3>1. q # <<>> /\ q[1].do = "demote" /\ Len(q) \in Nat \ {0}
      BY <1>1, <1>2, <2>2, Rest
    <3>2. ~NotYet(q)
      BY <3>1 DEF NotYet
    <3>3. p # <<>> /\ q = Tail(p) /\ p[1].do # "applied"
      BY <3>2 DEF Goes
    <3>4. /\ Len(p) \in Nat \ {0} /\ Len(q) = Len(p) - 1 /\ q[1] = p[2] /\ 2 \in 1 .. Len(p)
      BY <1>2, <3>1, <3>3, Rest
    <3>5. p[2 - 1].do = "applied"
      BY <1>2, <3>1, <3>4 DEF ConsolidatesInOrder
    <3> QED BY <3>3, <3>5
  <2> QED BY <2>1, <2>2
<1>9. GroupsExisted'
  <2>1. \A l \in 1 .. Len(proposals) : proposals[l].group \subseteq 1 .. (next' - 1)
    BY <1>4 DEF ServiceInv, GroupsExisted
  <2> QED BY <2>1 DEF GroupsExisted, GroupsIn
<1>10. ASSUME NEW u \in Worker, NEW i \in 1 .. 4, AppliesNext(u, i)'
       PROVE  \E l \in 1 .. Len(proposals') :
           /\ IsLatest(u, l)' /\ proposals'[l].status = "proposed"
           /\ proposals'[l].group = task'[u].todo[i + 1].group
           /\ i = 4 => proposals'[l].text = task'[u].todo[1].text
           /\ i < 4 => /\ task'[u].made \in 1 .. (next' - 1) \ proposals'[l].group
                       /\ task'[u].made \in DOMAIN mem' =>
                            mem'[task'[u].made].text = proposals'[l].text
  <2>1. PICK j \in 1 .. 4 :
               /\ AppliesNext(u, j) /\ task'[u].todo[i + 1].group = task[u].todo[j + 1].group
               /\ i = 4 => j = 4 /\ task'[u].todo[1].text = task[u].todo[1].text
               /\ i < 4 => j < 4
               /\ task'[u].made = task[u].made
    BY <1>6, <1>10
  <2>2. PICK l \in 1 .. Len(proposals) :
           /\ IsLatest(u, l) /\ proposals[l].status = "proposed"
           /\ proposals[l].group = task[u].todo[j + 1].group
           /\ j = 4 => proposals[l].text = task[u].todo[1].text
           /\ j < 4 => /\ task[u].made \in 1 .. (next - 1) \ proposals[l].group
                       /\ task[u].made \in Live => mem[task[u].made].text = proposals[l].text
    BY <2>1 DEF ServiceInv, ProposalWaits
  <2>3. IsLatest(u, l)'
    BY <2>2 DEF IsLatest
  <2>4. i < 4 => /\ task'[u].made \in 1 .. (next' - 1) \ proposals[l].group
                 /\ task'[u].made \in DOMAIN mem' => mem'[task'[u].made].text = proposals[l].text
    BY <1>4, <1>5, <2>1, <2>2
  <2> QED BY <2>1, <2>2, <2>3, <2>4
<1>11. ProposalWaits'
  <2>1. \A x, y \in Worker : HasMade(x)' /\ HasMade(y)' /\ task'[x].made = task'[y].made => x = y
    BY <1>7 DEF ServiceInv, ProposalWaits
  <2>2. \A u \in Worker, l \in 1 .. Len(proposals) :
          HasMade(u)' /\ proposals[l].status = "applied" => proposals[l].made # task'[u].made
    BY <1>7 DEF ServiceInv, ProposalWaits
  <2> QED BY SMTT(30), <1>10, <2>1, <2>2 DEF ProposalWaits, Live
<1>12. AppliedIsRemembered'
  <2>1. ASSUME NEW i \in DOMAIN proposals, proposals[i].status = "applied"
        PROVE  /\ proposals[i].made \in 1 .. (next' - 1) \ proposals[i].group
               /\ proposals[i].made \in DOMAIN mem' =>
                    mem'[proposals[i].made].text = proposals[i].text
               /\ \A j \in DOMAIN proposals :
                    j # i /\ proposals[j].status = "applied" => proposals[j].made # proposals[i].made
    <3>1. /\ proposals[i].made \in 1 .. (next - 1) \ proposals[i].group
          /\ proposals[i].made \in Live => mem[proposals[i].made].text = proposals[i].text
          /\ \A j \in DOMAIN proposals :
               j # i /\ proposals[j].status = "applied" => proposals[j].made # proposals[i].made
      BY <2>1 DEF ServiceInv, AppliedIsRemembered
    <3> QED BY <1>4, <1>5, <3>1
  <2> QED BY <2>1 DEF AppliedIsRemembered, Live
<1>13. demoted' = demoted => FeedbackAccounted'
  <2>1. \A h \in Handle : Applied(h)' = Applied(h)
    BY DEF Applied
  <2> QED BY <1>8, <2>1, FeedbackKept
<1> QED BY <1>9, <1>11, <1>12, <1>13

LEMMA RegeneratingSteps ==
  ASSUME TaskTypes, NEW u \in Worker
  PROVE  Regenerating(u) <=> \E i \in 1 .. Len(task[u].todo) : Regenerates(task[u].todo[i])
<1>1. task[u].todo \in Seq(Steps)
  BY DEF TaskTypes, Tasks
<1> QED BY <1>1 DEF Regenerating, Regenerates

\* Who goes on regenerating has still to drop what it had to drop before, as far
\* as it is there.
StaysAlone(t, v) ==
  \/ \A i \in 1 .. Len(v.todo) : ~Regenerates(v.todo[i])
  \/ /\ \E i \in 1 .. Len(t.todo) : Regenerates(t.todo[i])
     /\ v.alone => t.alone /\ v.beyond = t.beyond
     /\ v.alone => \A h \in Profiles' \ t.beyond : ToDrop(t, h) => ToDrop(v, h)

LEMMA AloneStays ==
  ASSUME ServiceInv, NEW w \in Worker, NEW v, Moved(w, v), Sound(v), TaskTypes',
         StaysAlone(task[w], v), Profiles' \subseteq Profiles
  PROVE  AloneReplaces'
<1> DEFINE q == v.todo
<1>1. /\ \A u \in Worker : u # w =>
             /\ task'[u].todo = task[u].todo /\ (task'[u].alone => task[u].alone)
             /\ task'[u].stale = task[u].stale /\ task'[u].beyond = task[u].beyond
      /\ task'[w].todo = q
      /\ q # <<>> => task'[w] = v
  BY SettledTask DEF Moved, Sound
<1>2. q \in Seq(Steps)
  BY DEF Sound, Tasks
<1>3. TaskTypes /\ TaskTypes'
  BY DEF ServiceInv
<1>4. \A u \in Worker : Regenerating(u)' <=>
                          \E i \in 1 .. Len(task'[u].todo) : Regenerates(task'[u].todo[i])
  <2>1. \A u \in Worker : task'[u].todo \in Seq(Steps)
    BY <1>3 DEF TaskTypes, Tasks
  <2> QED BY <2>1 DEF Regenerating, Regenerates
<1>5. \A u \in Worker : Regenerating(u)' => Regenerating(u)
  <2> TAKE u \in Worker
  <2> SUFFICES ASSUME NEW i \in 1 .. Len(task'[u].todo), Regenerates(task'[u].todo[i])
               PROVE  Regenerating(u)
    BY <1>4
  <2>1. CASE u # w
    BY <1>1, <1>3, <2>1, RegeneratingSteps
  <2>2. CASE u = w
    BY <1>1, <1>3, <2>2, RegeneratingSteps DEF StaysAlone
  <2> QED BY <2>1, <2>2
<1>6. ASSUME NEW u \in Worker, task'[u].alone, Regenerating(u)',
             NEW h \in Profiles' \ task'[u].beyond
      PROVE  ToDrop(task'[u], h)
  <2>1. CASE u # w
    <3>1. task[u].alone /\ Regenerating(u) /\ h \in Profiles \ task[u].beyond
      BY <1>1, <1>5, <1>6, <2>1
    <3>2. ToDrop(task[u], h)
      BY <3>1 DEF ServiceInv, AloneReplaces
    <3> QED BY <1>1, <2>1, <3>2 DEF ToDrop
  <2>2. CASE u = w
    <3>1. PICK k \in 1 .. Len(q) : Regenerates(q[k])
      BY <1>1, <1>4, <1>6, <2>2
    <3>2. q # <<>> /\ task'[w] = v
      BY <1>1, <1>2, <3>1
    <3>3. /\ task[w].alone /\ Regenerating(w) /\ v.beyond = task[w].beyond
          /\ ToDrop(task[w], h) => ToDrop(v, h)
      BY <1>5, <1>6, <2>2, <3>1, <3>2 DEF StaysAlone
    <3>4. h \in Profiles \ task[w].beyond
      BY <1>6, <2>2, <3>2, <3>3
    <3>5. ToDrop(task[w], h)
      BY <3>3, <3>4 DEF ServiceInv, AloneReplaces
    <3> QED BY <2>2, <3>2, <3>3, <3>5
  <2> QED BY <2>1, <2>2
<1>7. ASSUME NEW u \in Worker, task'[u].alone, Regenerating(u)', NEW x \in Worker \ {u}
      PROVE  ~Regenerating(x)'
  <2>1. task[u].alone
    <3>1. CASE u # w
      BY <1>1, <1>7, <3>1
    <3>2. CASE u = w
      <4>1. PICK k \in 1 .. Len(q) : Regenerates(q[k])
        BY <1>1, <1>4, <1>7, <3>2
      <4>2. q # <<>> /\ task'[w] = v
        BY <1>1, <1>2, <4>1
      <4> QED BY <1>7, <3>2, <4>1, <4>2 DEF StaysAlone
    <3> QED BY <3>1, <3>2
  <2> QED BY <1>5, <1>7, <2>1 DEF ServiceInv, AloneReplaces
<1> QED BY <1>6, <1>7 DEF AloneReplaces

\* What only drops profiles, or no longer regenerates, leaves who is alone alone.
Drops(p, q) ==
  /\ p # <<>> /\ q = Tail(p) /\ p[1].do \notin {"kind", "replace"}
  /\ p[1].do = "drop" => p[1].handle \notin Profiles'

LEMMA TailToDrop ==
  ASSUME NEW t \in Tasks, t.todo # <<>>, NEW v, v.todo = Tail(t.todo), NEW h, ToDrop(t, h),
         t.todo[1].do \in {"kind", "drop"} => t.todo[1].handle # h,
         t.todo[1].do # "replace", t.stale \subseteq v.stale
  PROVE  ToDrop(v, h)
<1> DEFINE p == t.todo
           q == v.todo
<1>1. /\ p \in Seq(Steps) /\ Len(p) \in Nat /\ Len(q) = Len(p) - 1
      /\ \A n \in 1 .. Len(q) : q[n] = p[n + 1]
  BY Rest DEF Tasks
<1>2. PICK i \in 1 .. Len(p) : \/ p[i].do \in {"kind", "drop"} /\ p[i].handle = h
                               \/ p[i].do = "replace" /\ h \in t.stale
  BY DEF ToDrop
<1>3. i # 1
  BY <1>2
<1> DEFINE j == i - 1
<1> HIDE DEF p, q
<1>4. j \in 1 .. Len(q) /\ q[j] = p[i]
  BY <1>1, <1>3
<1> HIDE DEF j
<1> QED BY <1>2, <1>4 DEF ToDrop, q

LEMMA GoingAlone ==
  ASSUME NEW t \in Tasks, NEW v \in Tasks, Goes(t.todo, v.todo) \/ Drops(t.todo, v.todo),
         v.alone => t.alone /\ v.stale = t.stale /\ v.beyond = t.beyond
  PROVE  StaysAlone(t, v)
<1> SUFFICES ASSUME NEW k \in 1 .. Len(v.todo), Regenerates(v.todo[k])
             PROVE  StaysAlone(t, v)
  BY DEF StaysAlone
<1>1. /\ t.todo # <<>> /\ v.todo = Tail(t.todo) /\ t.todo[1].do # "replace"
      /\ t.todo[1].do \in {"kind", "drop"} => t.todo[1].handle \notin Profiles'
  BY DEF Goes, Drops
<1>2. t.todo \in Seq(Steps)
  BY DEF Tasks
<1>3. k + 1 \in 1 .. Len(t.todo) /\ Regenerates(t.todo[k + 1])
  BY <1>1, <1>2, Rest
<1>4. ASSUME v.alone, NEW h \in Profiles', ToDrop(t, h)
      PROVE  ToDrop(v, h)
  BY <1>1, <1>4, TailToDrop
<1> QED BY <1>3, <1>4 DEF StaysAlone

LEMMA AloneKept ==
  ASSUME ServiceInv, NEW w \in Worker, NEW v, Moved(w, v), Sound(v), TaskTypes',
         Goes(task[w].todo, v.todo) \/ Drops(task[w].todo, v.todo),
         v.alone => task[w].alone /\ v.stale = task[w].stale /\ v.beyond = task[w].beyond,
         Profiles' \subseteq Profiles
  PROVE  AloneReplaces'
<1>1. task[w] \in Tasks /\ v \in Tasks
  BY SoundNow DEF Sound
<1>2. StaysAlone(task[w], v)
  BY <1>1, GoingAlone
<1> QED BY <1>2, AloneStays

\* A turn that reads: the store and what is recorded stay as they are.
LEMMA ReadingKeeps ==
  ASSUME ServiceInv, NEW w \in Worker, NEW v, Moved(w, v), Sound(v),
         Goes(task[w].todo, v.todo), v.counted = task[w].counted, v.made = task[w].made,
         v.mark = task[w].mark \/ v.mark \in 0 .. now,
         v.alone => task[w].alone /\ v.stale = task[w].stale /\ v.beyond = task[w].beyond,
         UNCHANGED <<now, store, telemetry, dreams>>, ops' \in Nat, failures' \in Nat
  PROVE  ServiceInv'
<1>1. StoreTypes' /\ RecordTypes' /\ Profiles' = Profiles
  BY DEF ServiceInv, StoreTypes, RecordTypes, Profiles, Live, store, telemetry, dreams
<1>2. StoreGrows
  BY DEF StoreGrows, store, Live
<1>3. /\ proposals' = proposals /\ demoted' = demoted /\ promised' = promised
      /\ prepared' = prepared /\ receipts' = receipts /\ counts' = counts /\ now' = now
  BY DEF telemetry, dreams
<1>4. now' \in Nat /\ now <= now' /\ v.mark <= now'
  BY <1>3 DEF ServiceInv, StoreTypes, TaskTypes
<1>5. /\ TaskTypes' /\ Programs' /\ \A u \in Worker : GroupsIn(task[u].todo)'
      /\ task'[w].counted = v.counted
  BY <1>2, <1>4, TasksKept
<1>6. \A u \in Worker : task'[u].counted = task[u].counted
  BY <1>5 DEF Moved
<1>7. \A k \in Delivery, h \in Handle : counts'[k][h] <= counts[k][h]
  BY <1>3 DEF ServiceInv, RecordTypes
<1>8. ReceiptsKept' /\ CountedOncePerRequest'
  BY <1>1, <1>3, <1>6, <1>7, RecordsKept
<1>9. GroupsExisted' /\ ProposalWaits' /\ AppliedIsRemembered' /\ FeedbackAccounted'
  BY <1>2, <1>3, <1>5, DreamsKept
<1>10. AloneReplaces'
  BY <1>1, <1>5, AloneKept
<1> QED BY <1>1, <1>5, <1>8, <1>9, <1>10 DEF ServiceInv

LEMMA RestKeeps ==
  ASSUME ServiceInv, NEW w \in Worker, task[w].todo # <<>>,
         task[w].todo[1].do \notin {"count", "answer", "propose", "insert", "applied", "kind", "replace", "drop"},
         NEW v \in Tasks, BarsHold(v), v.todo = Tail(task[w].todo),
         v.counted = task[w].counted, v.answered = task[w].answered, v.made = task[w].made,
         v.mark = task[w].mark, v.alone = task[w].alone /\ v.stale = task[w].stale /\ v.beyond = task[w].beyond,
         task' = [task EXCEPT ![w] = Settled(v)],
         UNCHANGED <<now, store, telemetry, dreams>>, ops' \in Nat, failures' \in Nat
  PROVE  ServiceInv'
<1>1. Sound(task[w]) /\ Moved(w, v)
  BY SoundNow, OneMoves DEF ServiceInv
<1>2. Sound(v) /\ Goes(task[w].todo, v.todo)
  BY <1>1, RestSound
<1> QED BY <1>1, <1>2, ReadingKeeps

LEMMA ErrorTask ==
  ASSUME ServiceInv, NEW w \in Worker, task[w].todo # <<>>,
         task[w].todo[1].do \notin {"count", "answer"}, Errs(w)
  PROVE  LET v == [task[w] EXCEPT !.todo = AfterError(@), !.failed = TRUE]
         IN  /\ Moved(w, v) /\ Sound(v) /\ Goes(task[w].todo, v.todo)
             /\ v.counted = task[w].counted /\ v.made = task[w].made
             /\ v.mark = task[w].mark /\ v.alone = task[w].alone
             /\ v.stale = task[w].stale /\ v.beyond = task[w].beyond
<1> DEFINE t == task[w]
           v == [t EXCEPT !.todo = AfterError(@), !.failed = TRUE]
<1>1. Sound(t) /\ t \in Tasks /\ TaskTypes
  BY SoundNow DEF Sound, ServiceInv
<1>2. AfterError(t.todo) \in Seq(Steps)
  <2>1. t.todo \in Seq(Steps)
    BY <1>1 DEF Tasks
  <2> QED BY <2>1, AfterErrorResumes
<1>3. /\ v \in Tasks /\ v.todo = AfterError(t.todo) /\ v.counted = t.counted
      /\ v.made = t.made /\ v.mark = t.mark /\ v.alone = t.alone
      /\ v.stale = t.stale /\ v.beyond = t.beyond
      /\ v.barred = t.barred /\ v.ok = t.ok /\ v.hint = t.hint /\ v.back = t.back
      /\ v.orig = t.orig
  BY <1>1, <1>2 DEF Tasks
<1>4. task' = [task EXCEPT ![w] = Settled(v)]
  BY DEF Errs, Becomes
<1> HIDE DEF v
<1>5. BarsHold(v)
  BY <1>1, <1>3 DEF Sound, BarsHold
<1>6. Sound(v) /\ Goes(t.todo, v.todo)
  BY <1>1, <1>3, <1>5, ErrorSound
<1>7. Moved(w, v)
  BY <1>1, <1>3, <1>4, OneMoves
<1> QED BY <1>3, <1>6, <1>7 DEF v

LEMMA ErrorKeeps ==
  ASSUME ServiceInv, NEW w \in Worker, task[w].todo # <<>>,
         task[w].todo[1].do \notin {"count", "answer"}, Errs(w),
         UNCHANGED <<now, store, telemetry, dreams>>, ops' \in Nat, failures' \in Nat
  PROVE  ServiceInv'
<1> DEFINE v == [task[w] EXCEPT !.todo = AfterError(@), !.failed = TRUE]
<1>1. /\ Moved(w, v) /\ Sound(v) /\ Goes(task[w].todo, v.todo)
      /\ v.counted = task[w].counted /\ v.made = task[w].made
      /\ v.mark = task[w].mark /\ v.alone = task[w].alone
      /\ v.stale = task[w].stale /\ v.beyond = task[w].beyond
  BY ErrorTask
<1> HIDE DEF v
<1> QED BY <1>1, ReadingKeeps

\* The step is done, with s for what the worker holds.
LEMMA StepTask ==
  ASSUME ServiceInv, NEW w \in Worker, task[w].todo # <<>>, NEW s \in Tasks,
         s.todo = task[w].todo, Step(w, s), BarsHold(s)
  PROVE  LET v == [s EXCEPT !.todo = Tail(@)]
         IN  /\ v \in Tasks /\ v.todo = Tail(task[w].todo) /\ BarsHold(v)
             /\ v.counted = s.counted /\ v.answered = s.answered /\ v.made = s.made
             /\ v.mark = s.mark /\ v.alone = s.alone
             /\ v.stale = s.stale /\ v.beyond = s.beyond
             /\ v.barred = s.barred
             /\ task' = [task EXCEPT ![w] = Settled(v)]
<1> DEFINE v == [s EXCEPT !.todo = Tail(@)]
<1>1. Tail(s.todo) \in Seq(Steps)
  BY HeadStep DEF ServiceInv
<1>2. /\ v \in Tasks /\ v.todo = Tail(task[w].todo)
      /\ v.counted = s.counted /\ v.answered = s.answered /\ v.made = s.made
      /\ v.mark = s.mark /\ v.alone = s.alone /\ v.stale = s.stale /\ v.beyond = s.beyond
      /\ v.barred = s.barred /\ v.ok = s.ok /\ v.hint = s.hint /\ v.back = s.back
      /\ v.orig = s.orig
  BY <1>1 DEF Tasks
<1>3. task' = [task EXCEPT ![w] = Settled(v)]
  BY DEF Step, Becomes
<1> HIDE DEF v
<1>4. BarsHold(v)
  BY <1>2 DEF BarsHold
<1> QED BY <1>2, <1>3, <1>4 DEF v

LEMMA StepKeeps ==
  ASSUME ServiceInv, NEW w \in Worker, task[w].todo # <<>>,
         task[w].todo[1].do \notin {"count", "answer", "propose", "insert", "applied", "kind", "replace", "drop"},
         NEW s \in Tasks, s.todo = task[w].todo, s.counted = task[w].counted,
         s.answered = task[w].answered, s.made = task[w].made, s.mark = task[w].mark,
         s.alone = task[w].alone /\ s.stale = task[w].stale /\ s.beyond = task[w].beyond, BarsHold(s), Step(w, s),
         UNCHANGED <<now, store, telemetry, dreams>>, ops' \in Nat, failures' \in Nat
  PROVE  ServiceInv'
<1> DEFINE v == [s EXCEPT !.todo = Tail(@)]
<1>1. /\ v \in Tasks /\ v.todo = Tail(task[w].todo) /\ BarsHold(v)
      /\ v.counted = s.counted /\ v.answered = s.answered /\ v.made = s.made
      /\ v.mark = s.mark /\ v.alone = s.alone /\ v.stale = s.stale /\ v.beyond = s.beyond
      /\ task' = [task EXCEPT ![w] = Settled(v)]
  BY StepTask
<1> HIDE DEF v
<1> QED BY <1>1, RestKeeps

LEMMA DoneKeeps ==
  ASSUME ServiceInv, NEW w \in Worker, task[w].todo # <<>>,
         task[w].todo[1].do \notin {"count", "answer", "propose", "insert", "applied", "kind", "replace", "drop"},
         Done(w), UNCHANGED <<now, store, telemetry, dreams>>, ops' \in Nat, failures' \in Nat
  PROVE  ServiceInv'
<1>1. task[w] \in Tasks /\ BarsHold(task[w])
  BY SoundNow DEF Sound
<1>2. Step(w, task[w])
  BY DEF Done
<1> QED BY <1>1, <1>2, StepKeeps

LEMMA Budgets ==
  ASSUME ServiceInv, UNCHANGED budgets
  PROVE  now' = now /\ ops' \in Nat /\ failures' \in Nat
BY DEF ServiceInv, RecordTypes, budgets

LEMMA AtHead ==
  ASSUME ServiceInv, NEW w \in Worker, NEW do, At(w, do)
  PROVE  /\ task[w].todo # <<>> /\ task[w].todo[1].do = do /\ Now(w) = task[w].todo[1]
         /\ task[w] \in Tasks /\ task[w].todo \in Seq(Steps) /\ Now(w) \in Steps
         /\ BarsHold(task[w]) /\ Live \in SUBSET Handle
<1>1. task[w].todo # <<>>
  BY DEF At
<1> QED BY <1>1, HeadStep, SoundNow, StoredTexts DEF ServiceInv, Sound, At, Now

\* What a read finds.
LEMMA FindingKeeps ==
  ASSUME ServiceInv, NEW w \in Worker, NEW do \in {"find", "handle", "owners"}, At(w, do),
         NEW found \in SUBSET Live, Step(w, [task[w] EXCEPT !.found = found]),
         UNCHANGED <<store, telemetry, dreams, budgets>>
  PROVE  ServiceInv'
<1> DEFINE t == task[w]
           s == [t EXCEPT !.found = found]
<1>1. /\ t.todo # <<>> /\ t.todo[1].do = do /\ t \in Tasks /\ BarsHold(t)
      /\ found \in SUBSET Handle
  BY AtHead
<1>2. /\ s \in Tasks /\ s.todo = t.todo /\ s.counted = t.counted /\ s.answered = t.answered
      /\ s.made = t.made /\ s.mark = t.mark /\ s.alone = t.alone
      /\ s.stale = t.stale /\ s.beyond = t.beyond
      /\ s.barred = t.barred /\ s.ok = t.ok /\ s.hint = t.hint /\ s.back = t.back
      /\ s.orig = t.orig
  BY <1>1 DEF Tasks
<1> HIDE DEF s
<1>3. BarsHold(s)
  BY <1>1, <1>2 DEF BarsHold
<1>4. Step(w, s)
  BY DEF s
<1> QED BY <1>1, <1>2, <1>3, <1>4, Budgets, StepKeeps

LEMMA FindsKeep ==
  ASSUME ServiceInv, NEW w \in Worker,
         Find_(w) \/ ByHandle_(w) \/ memory_ids_for_original_reference(w)
  PROVE  ServiceInv'
<1>1. CASE Find_(w)
  <2>1. PICK chosen \in SUBSET Live : Step(w, [task[w] EXCEPT !.found = chosen])
    BY <1>1 DEF Find_
  <2> QED BY <1>1, <2>1, FindingKeeps DEF Find_
<1>2. CASE ByHandle_(w)
  <2>1. {task[w].about} \intersect Live \in SUBSET Live
    OBVIOUS
  <2> QED BY <1>2, <2>1, FindingKeeps DEF ByHandle_
<1>3. CASE memory_ids_for_original_reference(w)
  <2> DEFINE h == task[w].about
  <2>1. {h} \intersect Live \in SUBSET Live /\ Owners(h) \in SUBSET Live
    BY DEF Owners
  <2>2. PICK owners \in {{h} \intersect Live, Owners(h)} : Step(w, [task[w] EXCEPT !.found = owners])
    BY <1>3 DEF memory_ids_for_original_reference
  <2>3. owners \in SUBSET Live
    BY <2>1, <2>2
  <2> HIDE DEF h
  <2> QED BY <1>3, <2>2, <2>3, FindingKeeps DEF memory_ids_for_original_reference
<1> QED BY <1>1, <1>2, <1>3

LEMMA GateKeeps ==
  ASSUME ServiceInv, NEW w \in Worker, gate_memories(w)
  PROVE  ServiceInv'
<1> DEFINE t == task[w]
           With(stance) == {h \in t.found \intersect Live : mem[h].stance = stance}
           ok == With("allow")
           hint == IF Now(w).hints THEN With("advise") ELSE {}
           back == IF Now(w).exact THEN With("source") ELSE {}
           s == [t EXCEPT !.ok = ok, !.hint = hint, !.back = back]
<1>1. /\ t.todo # <<>> /\ t.todo[1].do = "gate" /\ t \in Tasks /\ BarsHold(t)
      /\ Live \in SUBSET Handle
  BY AtHead DEF gate_memories
<1>2. /\ ok \in SUBSET Handle /\ hint \in SUBSET Handle /\ back \in SUBSET Handle
      /\ \A h \in ok \union hint \union back : h \in Live /\ mem[h].stance # "deny"
  BY <1>1
<1>3. Step(w, s)
  BY DEF gate_memories
<1>4. UNCHANGED <<store, telemetry, dreams, budgets>>
  BY DEF gate_memories
<1> HIDE DEF ok, hint, back
<1>5. /\ s \in Tasks /\ s.todo = t.todo /\ s.counted = t.counted /\ s.answered = t.answered
      /\ s.made = t.made /\ s.mark = t.mark /\ s.alone = t.alone
      /\ s.stale = t.stale /\ s.beyond = t.beyond
      /\ s.barred = t.barred /\ s.ok = ok /\ s.hint = hint /\ s.back = back
      /\ s.orig = t.orig
  BY <1>1, <1>2 DEF Tasks
<1> HIDE DEF s
<1>6. BarsHold(s)
  BY <1>1, <1>2, <1>5 DEF BarsHold
<1> QED BY <1>1, <1>3, <1>4, <1>5, <1>6, Budgets, StepKeeps

LEMMA RefuseKeeps ==
  ASSUME ServiceInv, NEW w \in Worker, Refuse(w) \/ Elsewhere(w)
  PROVE  ServiceInv'
<1>1. PICK do \in {"refuse", "look", "chunks", "inject", "catch"} : At(w, do)
  BY DEF Refuse, Elsewhere
<1>2. task[w].todo # <<>> /\ task[w].todo[1].do = do
  BY <1>1, AtHead
<1>3. Errs(w) \/ Done(w)
  BY DEF Refuse, Elsewhere
<1>4. UNCHANGED <<store, telemetry, dreams, budgets>>
  BY DEF Refuse, Elsewhere
<1> QED BY <1>2, <1>3, <1>4, Budgets, ErrorKeeps, DoneKeeps

LEMMA ExpandKeeps ==
  ASSUME ServiceInv, NEW w \in Worker, Expand_(w)
  PROVE  ServiceInv'
<1> DEFINE t == task[w]
           s == [t EXCEPT !.orig = t.ok \union t.hint \union t.back]
<1>1. t.todo # <<>> /\ t.todo[1].do = "expand" /\ t \in Tasks /\ BarsHold(t)
  BY AtHead DEF Expand_
<1>2. UNCHANGED <<store, telemetry, dreams, budgets>>
  BY DEF Expand_
<1>3. CASE Errs(w)
  BY <1>1, <1>2, <1>3, Budgets, ErrorKeeps
<1>4. CASE Step(w, s)
  <2>1. /\ s \in Tasks /\ s.todo = t.todo /\ s.counted = t.counted /\ s.answered = t.answered
        /\ s.made = t.made /\ s.mark = t.mark /\ s.alone = t.alone
        /\ s.stale = t.stale /\ s.beyond = t.beyond
        /\ s.barred = t.barred /\ s.ok = t.ok /\ s.hint = t.hint /\ s.back = t.back
        /\ s.orig = t.ok \union t.hint \union t.back
    BY <1>1 DEF Tasks
  <2> HIDE DEF s
  <2>2. BarsHold(s)
    BY <1>1, <2>1 DEF BarsHold
  <2> QED BY <1>1, <1>2, <1>4, <2>1, <2>2, Budgets, StepKeeps
<1>5. CASE Done(w)
  BY <1>1, <1>2, <1>5, Budgets, DoneKeeps
<1>6. Errs(w) \/ Step(w, s) \/ Done(w)
  BY DEF Expand_
<1> QED BY <1>3, <1>4, <1>5, <1>6

LEMMA SelectKeeps ==
  ASSUME ServiceInv, NEW w \in Worker, select(w)
  PROVE  ServiceInv'
<1> DEFINE t == task[w]
<1>1. t.todo # <<>> /\ t.todo[1].do = "select" /\ t \in Tasks /\ BarsHold(t)
  BY AtHead DEF select
<1>2. UNCHANGED <<store, telemetry, dreams, budgets>>
  BY DEF select
<1>3. PICK chosen \in SUBSET (t.ok \intersect Live) : Step(w, [t EXCEPT !.ok = chosen])
  BY DEF select
<1> DEFINE s == [t EXCEPT !.ok = chosen]
<1>4. t.ok \in SUBSET Handle
  BY <1>1 DEF Tasks
<1>5. /\ s \in Tasks /\ s.todo = t.todo /\ s.counted = t.counted /\ s.answered = t.answered
      /\ s.made = t.made /\ s.mark = t.mark /\ s.alone = t.alone
      /\ s.stale = t.stale /\ s.beyond = t.beyond
      /\ s.barred = t.barred /\ s.ok = chosen /\ s.hint = t.hint /\ s.back = t.back
      /\ s.orig = t.orig
  BY <1>1, <1>4 DEF Tasks
<1> HIDE DEF s
<1>6. BarsHold(s)
  BY <1>1, <1>5 DEF BarsHold
<1>7. Step(w, s)
  BY <1>3 DEF s
<1> QED BY <1>1, <1>2, <1>5, <1>6, <1>7, Budgets, StepKeeps

\* Recording why originals cannot be had puts reads in front of the rest.
LEMMA BackSourcesKeeps ==
  ASSUME ServiceInv, NEW w \in Worker, BackSources_(w)
  PROVE  ServiceInv'
<1>0. PICK kept \in SUBSET Expandable(task[w].back) :
        Becomes(w, [task[w] EXCEPT
          !.orig = kept,
          !.todo = (IF kept = task[w].back THEN <<>> ELSE Look \o Look) \o Tail(@)])
  BY DEF BackSources_
<1> DEFINE t == task[w]
           a == IF kept = t.back THEN <<>> ELSE Look \o Look
           r == Tail(t.todo)
           v == [t EXCEPT !.orig = kept, !.todo = a \o Tail(@)]
           u == [t EXCEPT !.todo = Tail(@)]
<1>1. /\ t.todo # <<>> /\ t.todo[1].do = "back" /\ t \in Tasks /\ BarsHold(t)
      /\ t.todo \in Seq(Steps)
  BY AtHead DEF BackSources_
<1>2. UNCHANGED <<store, telemetry, dreams, budgets>> /\ task' = [task EXCEPT ![w] = Settled(v)]
  BY <1>0 DEF BackSources_, Becomes
<1>3. a \in Seq(ReadOnly)
  <2>1. CASE kept = t.back
    BY <2>1
  <2>2. CASE kept # t.back
    BY <2>2, ReadOnlySteps, Joined
  <2> QED BY <2>1, <2>2
<1>4. a \in Seq(Harmless)
  BY <1>3, HarmlessSteps
<1> HIDE DEF a
<1>5. /\ \A i \in 1 .. Len(a) : a[i].do \in Reads
      /\ a \in Seq(Steps) /\ Steady(a) /\ NeverProposes(a)
  <2>1. \A i \in 1 .. Len(a) : a[i] \in ReadOnly
    BY <1>3
  <2> QED BY <1>4, <2>1, HarmlessSequence DEF ReadOnly
<1>6. r \in Seq(Steps)
  BY <1>1, Rest
<1>7. kept \in SUBSET t.back /\ kept \in SUBSET Handle
  BY <1>1 DEF Expandable, Tasks
<1>8. a \o r \in Seq(Steps)
  BY <1>5, <1>6, Joined
<1>9. /\ v \in Tasks /\ v.todo = a \o r /\ v.counted = t.counted /\ v.answered = t.answered
      /\ v.made = t.made /\ v.mark = t.mark /\ v.alone = t.alone
      /\ v.stale = t.stale /\ v.beyond = t.beyond
      /\ v.barred = t.barred /\ v.ok = t.ok /\ v.hint = t.hint /\ v.back = t.back
      /\ v.orig = kept
  BY <1>1, <1>7, <1>8 DEF Tasks
<1>10. /\ u \in Tasks /\ u.todo = r /\ u.counted = t.counted /\ u.answered = t.answered
  BY <1>1, <1>6 DEF Tasks
<1> HIDE DEF v, u
<1>11. BarsHold(v)
  BY <1>1, <1>7, <1>9 DEF BarsHold
<1>12. CountsAndAnswers(t) /\ InOrder(t.todo) /\ GroupsIn(t.todo)
  BY SoundNow DEF Sound
<1>13. CountsAndAnswers(v)
  <2>1. CountsAndAnswers(u)
    BY <1>1, <1>10, <1>12, CountsRest
  <2>2. t.counted = {} /\ (~t.answered \/ NeverCounts(t.todo))
    BY <1>1, <1>12, CountsLater
  <2>3. u.counted = {} /\ (~u.answered \/ NeverCounts(u.todo))
    BY <1>1, <1>10, <2>2, NeverCountsRest
  <2>4. v.todo = a \o u.todo /\ v.counted = u.counted /\ v.answered = u.answered
    BY <1>9, <1>10
  <2> QED BY <1>5, <1>9, <1>10, <2>1, <2>3, <2>4, CountsBehind
<1>14. Steady(t.todo)
  BY <1>1, <1>12, SteadyFrom DEF Consolidation
<1>15. Steady(v.todo)
  BY <1>1, <1>5, <1>6, <1>9, <1>14, SteadyRest, SteadyBefore
<1>16. GroupsIn(v.todo)
  <2>1. GroupsIn(r)
    BY <1>1, <1>12, GroupsRest
  <2>2. GroupsIn(a)
    BY <1>5 DEF GroupsIn, Steady, NeverProposes
  <2> HIDE DEF r
  <2> QED BY <1>5, <1>6, <1>9, <2>1, <2>2, GroupsBefore
<1>17. v.todo \in Seq(Steps)
  BY <1>8, <1>9
<1>18. Sound(v) /\ Goes(t.todo, v.todo)
  BY <1>9, <1>11, <1>13, <1>15, <1>16, <1>17, SteadyInOrder, SteadyGoes DEF Sound
<1>19. Moved(w, v)
  BY <1>2, <1>9, OneMoves DEF ServiceInv
<1> QED BY <1>2, <1>9, <1>18, <1>19, Budgets, ReadingKeeps
\* A step that puts others in front of the rest.
LEMMA UnfoldKeeps ==
  ASSUME ServiceInv, NEW w \in Worker, task[w].todo # <<>>,
         task[w].todo[1].do \notin Reads \union {"count", "answer", "kind", "drop"} \union Consolidation,
         NEW s \in Seq(Steps), InOrder(s), NeverCounts(s), GroupsIn(s), NotYet(s),
         \A i \in 1 .. Len(s) : ~Regenerates(s[i]), Unfolds(w, s),
         UNCHANGED <<now, store, telemetry, dreams>>, ops' \in Nat, failures' \in Nat
  PROVE  ServiceInv'
<1> DEFINE t == task[w]
           v == [t EXCEPT !.todo = s \o Tail(@)]
<1>1. Sound(t) /\ t \in Tasks /\ BarsHold(t) /\ Tail(t.todo) \in Seq(Steps)
  BY SoundNow, HeadStep DEF Sound, ServiceInv
<1>2. s \o Tail(t.todo) \in Seq(Steps)
  BY <1>1, Joined
<1>3. /\ v \in Tasks /\ v.todo = s \o Tail(t.todo) /\ v.counted = t.counted
      /\ v.made = t.made /\ v.mark = t.mark /\ v.alone = t.alone
      /\ v.stale = t.stale /\ v.beyond = t.beyond
      /\ v.barred = t.barred /\ v.ok = t.ok /\ v.hint = t.hint /\ v.back = t.back
      /\ v.orig = t.orig
  BY <1>1, <1>2 DEF Tasks
<1>4. task' = [task EXCEPT ![w] = Settled(v)]
  BY DEF Unfolds, Becomes
<1> HIDE DEF v
<1>5. BarsHold(v)
  BY <1>1, <1>3 DEF BarsHold
<1>6. Sound(v) /\ Goes(t.todo, v.todo)
  BY <1>1, <1>3, <1>5, UnfoldSound
<1>7. Moved(w, v)
  BY <1>3, <1>4, OneMoves DEF ServiceInv
<1> QED BY <1>3, <1>6, <1>7, ReadingKeeps

LEMMA HarmlessKeeps ==
  ASSUME ServiceInv, NEW w \in Worker, NEW do \in {"keepfresh", "reflect", "synthesize"},
         At(w, do), NEW s \in Seq(Harmless), Unfolds(w, s),
         UNCHANGED <<store, telemetry, dreams, budgets>>
  PROVE  ServiceInv'
<1>1. task[w].todo # <<>> /\ task[w].todo[1].do = do
  BY AtHead
<1>2. do \notin Reads \union {"count", "answer", "kind", "drop"} \union Consolidation
  BY DEF Reads, Consolidation
<1>3. /\ s \in Seq(Steps) /\ Steady(s) /\ InOrder(s) /\ NeverCounts(s) /\ NeverProposes(s)
      /\ NotYet(s)
  BY HarmlessSequence
<1>4. GroupsIn(s) /\ \A i \in 1 .. Len(s) : ~Regenerates(s[i])
  BY <1>3 DEF GroupsIn, Steady, NeverProposes
<1> QED BY <1>1, <1>2, <1>3, <1>4, Budgets, UnfoldKeeps

LEMMA AutoRefreshKeeps ==
  ASSUME ServiceInv, NEW w \in Worker, auto_refresh(w)
  PROVE  ServiceInv'
<1>1. regenerate \in Seq(Harmless) /\ <<>> \in Seq(Harmless)
  <2>1. <<>> \in Seq(Harmless)
    OBVIOUS
  <2>2. <<Do("sources", FALSE)>> \in Seq(Harmless)
    BY HarmlessSteps
  <2> QED BY <2>1, <2>2 DEF regenerate
<1>2. PICK s \in {regenerate, <<>>} : Unfolds(w, s)
  BY DEF auto_refresh
<1>3. s \in Seq(Harmless)
  BY <1>1, <1>2
<1> QED BY <1>2, <1>3, HarmlessKeeps DEF auto_refresh

\* Groups of memories are sets of memories.
LEMMA GroupsAreLive ==
  ASSUME ServiceInv, NEW kind
  PROVE  /\ find_groups(OfKind(kind)) \in SUBSET SUBSET Live
         /\ IsFiniteSet(find_groups(OfKind(kind)))
         /\ find_synthesis_groups(OfKind(kind)) \in SUBSET SUBSET Live
         /\ IsFiniteSet(SUBSET Live)
<1> DEFINE hs == OfKind(kind)
<1>1. hs \subseteq Live
  BY DEF OfKind
<1>2. IsFiniteSet(SUBSET Live)
  BY StoredTexts, FS_SUBSET DEF ServiceInv
<1> HIDE DEF hs
<1>3. find_groups(hs) \in SUBSET SUBSET hs
  <2> SUFFICES ASSUME NEW g \in find_groups(hs)
               PROVE  g \subseteq hs
    OBVIOUS
  <2> QED BY DEF find_groups
<1>4. find_synthesis_groups(hs) \in SUBSET SUBSET hs
  BY DEF find_synthesis_groups
<1>5. find_groups(hs) \subseteq SUBSET Live
  BY <1>1, <1>3
<1>6. IsFiniteSet(find_groups(hs))
  BY <1>2, <1>5, FS_Subset
<1> QED BY <1>1, <1>2, <1>3, <1>4, <1>6 DEF hs

LEMMA SynthesizeKeeps ==
  ASSUME ServiceInv, NEW w \in Worker, synthesize(w)
  PROVE  ServiceInv'
<1>1. PICK fruitful \in SUBSET find_synthesis_groups(OfKind("fact")) :
        Unfolds(w, IF Now(w).apply
                    THEN Each([g \in fruitful |-> Derive(g, TextOf(g))])
                    ELSE <<>>)
  BY DEF synthesize
<1>2. fruitful \in SUBSET SUBSET Live /\ IsFiniteSet(fruitful)
  BY GroupsAreLive, FS_Subset
<1> DEFINE f == [g \in fruitful |-> TextOf(g)]
           e == Each([g \in fruitful |-> Derive(g, f[g])])
           s == IF Now(w).apply THEN e ELSE <<>>
<1>3. f \in [fruitful -> SUBSET Fact]
  BY <1>2, StoredTexts DEF ServiceInv
<1>4. [g \in fruitful |-> Derive(g, TextOf(g))] = [g \in fruitful |-> Derive(g, f[g])]
  OBVIOUS
<1>5. Unfolds(w, s)
  BY <1>1, <1>4
<1> HIDE DEF f
<1>6. e \in Seq(Harmless)
  BY <1>2, <1>3, DerivationsUnfold
<1>7. s \in Seq(Harmless)
  BY <1>6
<1> HIDE DEF s
<1> QED BY <1>5, <1>7, HarmlessKeeps DEF synthesize
\* What a step of each kind carries.
LEMMA StepShapes ==
  ASSUME NEW s \in Steps
  PROVE  /\ s.do = "count" => s \in CountSteps
         /\ s.do = "answer" => s \in AnswerSteps
         /\ s.do = "insert" => s \in InsertSteps
         /\ s.do = "describe" => s \in DescribeSteps
         /\ s.do = "stance" => s \in StanceSteps
         /\ s.do = "kind" => s \in KindSteps
         /\ s.do = "replace" => s \in ReplaceSteps
         /\ s.do = "drop" => s \in DropSteps
         /\ s.do = "reflect" => s \in ReflectSteps
         /\ s.do = "propose" => s \in ProposeSteps
         /\ s.do = "demote" => s \in DemoteSteps
         /\ s.do \in {"count", "answer", "demote"} => s.soft
         /\ s.do \in {"insert", "describe", "stance", "kind", "drop", "propose", "applied"} =>
              ~s.soft
BY DEF Steps, ReadSteps, GateSteps, RefuseSteps, CountSteps, AnswerSteps, Writing,
       InsertSteps, DescribeSteps, StanceSteps, KindSteps, DropSteps, ReplaceSteps, ReflectSteps,
       SynthesizeSteps, ProposeSteps, AppliedSteps, DemoteSteps, OtherSteps

LEMMA ReflectKeeps ==
  ASSUME ServiceInv, NEW w \in Worker, reflect(w)
  PROVE  ServiceInv'
<1> DEFINE kind == Now(w).kind
           D == find_groups(OfKind(kind))
           f == [g \in D |-> TextOf(g)]
           s == Each([g \in D |-> Consolidate(g, TextOf(g), kind, Now(w).apply)])
           e == Each([g \in D |-> Consolidate(g, f[g], kind, TRUE)])
           d == Each([g \in D |-> Consolidate(g, f[g], kind, FALSE)])
<1>1. At(w, "reflect") /\ Unfolds(w, s) /\ UNCHANGED <<store, telemetry, dreams, budgets>>
  BY DEF reflect
<1>2. /\ task[w].todo # <<>> /\ task[w].todo[1].do = "reflect" /\ Now(w) = task[w].todo[1]
      /\ Now(w) \in Steps
  BY <1>1, AtHead
<1>3. kind \in Kind \ {"profile"} /\ Now(w).apply \in BOOLEAN
  <2>1. Now(w) \in ReflectSteps
    BY <1>2, StepShapes
  <2> QED BY <2>1 DEF ReflectSteps
<1>4. D \in SUBSET SUBSET Live /\ IsFiniteSet(D)
  BY GroupsAreLive
<1>5. f \in [D -> SUBSET Fact] /\ D \in SUBSET SUBSET Handle
  BY <1>4, StoredTexts DEF ServiceInv
<1>6. s = IF Now(w).apply THEN e ELSE d
  BY <1>3
<1>7. \A g \in D : g \subseteq 1 .. (next - 1)
  BY <1>4 DEF ServiceInv, StoreTypes
<1> HIDE DEF f, kind, D
<1>8. /\ e \in Seq(Steps) /\ InOrder(e) /\ NeverCounts(e) /\ NotYet(e)
      /\ \A i \in 1 .. Len(e) :
           /\ ~Regenerates(e[i])
           /\ e[i].do \in {"propose", "demote"} => e[i].group \in D
  BY <1>3, <1>4, <1>5, ConsolidationsUnfold
<1>9. /\ d \in Seq(Steps) /\ Steady(d) /\ NeverCounts(d)
      /\ \A i \in 1 .. Len(d) : d[i].do \in {"propose", "demote"} => d[i].group \in D
  BY <1>4, <1>5, ProposalsUnfold
<1> HIDE DEF e, d
<1>10. InOrder(d) /\ NotYet(d) /\ \A i \in 1 .. Len(d) : ~Regenerates(d[i])
  BY <1>9, SteadyInOrder, SteadyNotYet DEF Steady
<1>11. GroupsIn(e) /\ GroupsIn(d)
  BY <1>7, <1>8, <1>9 DEF GroupsIn
<1> HIDE DEF s
<1>12. /\ s \in Seq(Steps) /\ InOrder(s) /\ NeverCounts(s) /\ NotYet(s) /\ GroupsIn(s)
       /\ \A i \in 1 .. Len(s) : ~Regenerates(s[i])
  BY <1>6, <1>8, <1>9, <1>10, <1>11
<1>13. task[w].todo[1].do \notin Reads \union {"count", "answer", "kind", "drop"} \union Consolidation
  BY SMTT(30), <1>2 DEF Reads, Consolidation
<1> QED BY <1>1, <1>2, <1>12, <1>13, Budgets, UnfoldKeeps
-----------------------------------------------------------------------------
(* Turns that write. *)

\* A turn that forgets, describes or governs, whatever becomes of the profile.
LEMMA WritingKeeps ==
  ASSUME ServiceInv, NEW w \in Worker, NEW v, Moved(w, v), Sound(v), StoreGrows,
         Goes(task[w].todo, v.todo) \/ NotYet(v.todo),
         v.counted = task[w].counted, v.made = task[w].made, v.mark = task[w].mark,
         StoreTypes', RecordTypes', now' = now, proposals' = proposals, demoted' = demoted,
         promised' = promised, prepared' = prepared, receipts' = receipts,
         \A k \in Delivery, h \in Handle : counts'[k][h] <= counts[k][h]
  PROVE  TaskTypes' /\ (AloneReplaces' => ServiceInv')
<1>1. now' \in Nat /\ now <= now' /\ v.mark <= now'
  BY DEF ServiceInv, StoreTypes, TaskTypes
<1>2. /\ TaskTypes' /\ Programs' /\ \A u \in Worker : GroupsIn(task[u].todo)'
      /\ task'[w].counted = v.counted
  BY <1>1, TasksKept
<1>3. \A u \in Worker : task'[u].counted = task[u].counted
  BY <1>2 DEF Moved
<1>4. ReceiptsKept' /\ CountedOncePerRequest'
  BY <1>3, RecordsKept
<1>5. GroupsExisted' /\ ProposalWaits' /\ AppliedIsRemembered' /\ FeedbackAccounted'
  BY <1>2, DreamsKept
<1> QED BY <1>2, <1>4, <1>5 DEF ServiceInv

\* The steps for each of some handles, in some order.
LEMMA StepsForEach ==
  ASSUME NEW do \in {"kind", "drop"}, NEW hs \in SUBSET Handle
  PROVE  LET d == ForEach(do, hs)
             c == Cardinality(hs)
         IN  /\ c \in Nat /\ d \in Seq(Steps) /\ Len(d) = c
             /\ \A i \in 1 .. c : d[i].do = do
             /\ \A h \in hs : \E i \in 1 .. c : d[i].handle = h
<1> DEFINE c == Cardinality(hs)
           s == SetToSeq(hs)
           Entry(i) == [do |-> do, soft |-> FALSE, handle |-> s[i]]
           d == [i \in 1 .. c |-> Entry(i)]
<1>1. IsFiniteSet(hs)
  <2>1. IsFiniteSet(Handle)
    BY ServiceAssumption, FS_Interval DEF Handle
  <2> QED BY <2>1, FS_Subset
<1>2. /\ c \in Nat /\ s \in [1 .. c -> hs]
      /\ \A h \in hs : \E i \in 1 .. c : s[i] = h
  BY <1>1, SetInOrder
<1>3. \A i \in 1 .. c : Entry(i) \in KindSteps \union DropSteps /\ Entry(i).do = do
                        /\ Entry(i).handle = s[i]
  BY <1>2 DEF KindSteps, DropSteps
<1>4. d \in Seq(Steps) /\ Len(d) = c /\ \A i \in 1 .. c : d[i].do = do /\ d[i].handle = s[i]
  <2>1. \A i \in 1 .. c : Entry(i) \in Steps
    BY <1>3 DEF Steps, Writing
  <2> HIDE DEF s, Entry
  <2> QED BY <1>2, <1>3, <2>1
<1>5. ForEach(do, hs) = d
  BY DEF ForEach
<1> HIDE DEF d, s, c
<1>6. \A h \in hs : \E i \in 1 .. c : d[i].handle = h
  BY <1>2, <1>4
<1> QED BY <1>2, <1>4, <1>5, <1>6 DEF c

\* What a regeneration that has read the kinds of its sources is going to do.
LEMMA ReplacingSteps ==
  ASSUME ServiceInv, NEW w \in Worker, At(w, "replace")
  PROVE  LET p == Replacing(w)
         IN  /\ p \in Seq(Steps) /\ InOrder(p) /\ NeverCounts(p)
             /\ NeverProposes(p) /\ Dreamless(p) /\ Len(p) # 0
             /\ \A h \in Stale(w) : \E i \in 1 .. Len(p) : p[i].do = "drop" /\ p[i].handle = h
<1> DEFINE c == Cardinality(Stale(w))
           d == ForEach("drop", Stale(w))
           texts == Now(w).texts
           text == UNION {texts[h] : h \in DOMAIN texts \ task[w].stale}
           x == [do |-> "insert", soft |-> FALSE, text |-> text]
           y == [do |-> "describe", soft |-> FALSE, kind |-> "profile", user |-> TRUE]
           l == Do("look", FALSE)
           k == Do("look", TRUE)
<1>1. Stale(w) \in SUBSET Handle /\ text \in SUBSET Fact
  <2>1. task[w] \in Tasks /\ Now(w) \in Steps /\ Now(w).do = "replace"
    BY HeadStep DEF ServiceInv, At
  <2>2. Now(w) \in ReplaceSteps
    BY <2>1 DEF Steps, Writing, ReadSteps, GateSteps, RefuseSteps, CountSteps, AnswerSteps,
                InsertSteps, DescribeSteps, StanceSteps, KindSteps, DropSteps, ReflectSteps,
                SynthesizeSteps, ProposeSteps, AppliedSteps, DemoteSteps, OtherSteps
  <2>3. PICK listed \in SUBSET Handle : texts \in [listed -> SUBSET Fact]
    BY <2>2 DEF ReplaceSteps, Readings
  <2>4. \A h \in DOMAIN texts : texts[h] \in SUBSET Fact
    BY <2>3
  <2> QED BY <2>1, <2>4 DEF Stale, Tasks
<1>2. /\ c \in Nat /\ d \in Seq(Steps) /\ Len(d) = c /\ \A i \in 1 .. c : d[i].do = "drop"
      /\ \A h \in Stale(w) : \E i \in 1 .. c : d[i].handle = h
  BY <1>1, StepsForEach, Zenon
<1>5. x \in Steps /\ y \in Steps /\ l \in Steps /\ k \in Steps
  <2>1. x \in InsertSteps /\ y \in DescribeSteps /\ l \in ReadSteps /\ k \in ReadSteps
    BY <1>1 DEF InsertSteps, DescribeSteps, ReadSteps, Do, Kind
  <2> QED BY <2>1 DEF Steps, Writing
<1>6. x.do = "insert" /\ y.do = "describe" /\ l.do = "look" /\ k.do = "look"
  BY DEF Do
<1>7. Replacing(w) = ((d \o <<x, y>>) \o <<l>>) \o <<k>>
  BY DEF Replacing, Insert, Look, Glance
<1> DEFINE p == ((d \o <<x, y>>) \o <<l>>) \o <<k>>
<1> HIDE DEF d, x, y, l, k, c
<1>8. /\ p \in Seq(Steps) /\ Len(p) = c + 4 /\ \A i \in 1 .. c : p[i] = d[i]
      /\ p[c + 1] = x /\ p[c + 2] = y /\ p[c + 3] = l /\ p[c + 4] = k
  <2>1. d \o <<x, y>> \in Seq(Steps) /\ Len(d \o <<x, y>>) = c + 2
        /\ (\A i \in 1 .. c : (d \o <<x, y>>)[i] = d[i])
        /\ (d \o <<x, y>>)[c + 1] = x /\ (d \o <<x, y>>)[c + 2] = y
    BY <1>2, <1>5
  <2> DEFINE q == d \o <<x, y>>
  <2> HIDE DEF q
  <2>2. /\ q \in Seq(Steps) /\ Len(q) = c + 2 /\ \A i \in 1 .. c : q[i] = d[i]
        /\ q[c + 1] = x /\ q[c + 2] = y /\ c \in Nat
    BY <2>1, <1>2 DEF q
  <2> DEFINE r == q \o <<l>>
  <2>3. /\ r \in Seq(Steps) /\ Len(r) = c + 3 /\ \A i \in 1 .. (c + 2) : r[i] = q[i]
        /\ r[c + 3] = l
    BY <2>2, <1>5
  <2> HIDE DEF r
  <2>4. /\ r \o <<k>> \in Seq(Steps) /\ Len(r \o <<k>>) = c + 4
        /\ \A i \in 1 .. (c + 3) : (r \o <<k>>)[i] = r[i]
        /\ (r \o <<k>>)[c + 4] = k
    BY <2>2, <2>3, <1>5
  <2>5. p = r \o <<k>>
    BY DEF r, q
  <2> HIDE DEF p
  <2> QED BY SMTT(30), <2>2, <2>3, <2>4, <2>5
<1> HIDE DEF p
<1>9. \A i \in 1 .. Len(p) : i \in 1 .. c \/ i \in {c + 1, c + 2, c + 3, c + 4}
  BY <1>2, <1>8
<1>10. \A i \in 1 .. Len(p) : /\ p[i].do \in {"drop", "insert", "describe", "look"}
                              /\ p[i].do = "drop" => i \in 1 .. c
                              /\ p[i].do = "describe" => i = c + 2
  BY SMTT(30), <1>2, <1>6, <1>8, <1>9
<1>11. ConsolidatesInOrder(p) /\ NeverCounts(p) /\ NeverProposes(p) /\ Dreamless(p)
  BY <1>10 DEF ConsolidatesInOrder, NeverCounts, NeverProposes, Dreamless
<1>12. ReplacesInOrder(p)
  <2>1. ASSUME NEW i \in 1 .. Len(p), p[i].do = "drop"
        PROVE  \A j \in 1 .. i : p[j].do = "drop"
    <3>1. i \in 1 .. c
      BY <1>10, <2>1
    <3>2. \A j \in 1 .. i : j \in 1 .. c
      BY <1>2, <3>1
    <3> QED BY <1>2, <1>8, <3>2
  <2>2. ASSUME NEW i \in 1 .. Len(p), p[i].do = "describe"
        PROVE  \A j \in 1 .. (i - 1) : p[j].do \in {"drop", "insert"}
    <3>1. i = c + 2
      BY <1>10, <2>2
    <3>2. \A j \in 1 .. (i - 1) : j \in 1 .. c \/ j = c + 1
      BY <1>2, <3>1
    <3> QED BY SMTT(30), <1>2, <1>6, <1>8, <3>2
  <2>3. \A i \in 1 .. Len(p) : p[i].do \notin {"kind", "replace"}
    BY <1>10
  <2> QED BY <2>1, <2>2, <2>3 DEF ReplacesInOrder
<1>13. ASSUME NEW h \in Stale(w)
       PROVE  \E i \in 1 .. Len(p) : p[i].do = "drop" /\ p[i].handle = h
  <2>1. PICK i \in 1 .. c : d[i].handle = h
    BY <1>2
  <2>2. i \in 1 .. Len(p)
    BY <1>2, <1>8
  <2> QED BY <1>2, <1>8, <2>1, <2>2
<1>14. Len(p) # 0
  BY <1>2, <1>8
<1> QED BY <1>7, <1>8, <1>11, <1>12, <1>13, <1>14 DEF InOrder, p

\* Whoever only reads leaves the store and the records alone.
LEMMA ReadingStays ==
  ASSUME ServiceInv, UNCHANGED <<store, telemetry, dreams, budgets>>
  PROVE  /\ StoreTypes' /\ RecordTypes' /\ Profiles' = Profiles /\ StoreGrows
         /\ now' = now /\ proposals' = proposals /\ demoted' = demoted
         /\ promised' = promised /\ prepared' = prepared /\ receipts' = receipts
         /\ \A k \in Delivery, h \in Handle : counts'[k][h] <= counts[k][h]
<1>1. StoreTypes' /\ RecordTypes' /\ Profiles' = Profiles
  BY DEF ServiceInv, StoreTypes, RecordTypes, Profiles, Live, store, telemetry, dreams, budgets
<1>2. StoreGrows
  BY DEF StoreGrows, store, Live
<1>3. /\ proposals' = proposals /\ demoted' = demoted /\ promised' = promised
      /\ prepared' = prepared /\ receipts' = receipts /\ counts' = counts /\ now' = now
  BY DEF telemetry, dreams, budgets
<1>4. \A k \in Delivery, h \in Handle : counts'[k][h] <= counts[k][h]
  BY <1>3 DEF ServiceInv, RecordTypes
<1> QED BY <1>1, <1>2, <1>3, <1>4

\* The kinds of the sources, one by one, and then what follows from them.
LEMMA ListingSteps ==
  ASSUME StoreTypes, NEW listed \in SUBSET UserMemories
  PROVE  LET replace == [do |-> "replace", soft |-> FALSE,
                         texts |-> [h \in listed |-> mem[h].text]]
             p == ForEach("kind", listed) \o <<replace>>
         IN  /\ p \in Seq(Steps) /\ InOrder(p) /\ NeverCounts(p)
             /\ NeverProposes(p) /\ Dreamless(p) /\ Len(p) # 0
             /\ \A h \in listed : \E i \in 1 .. Len(p) : p[i].do = "kind" /\ p[i].handle = h
<1> DEFINE c == Cardinality(listed)
           d == ForEach("kind", listed)
           x == [do |-> "replace", soft |-> FALSE, texts |-> [h \in listed |-> mem[h].text]]
           p == d \o <<x>>
<1>1. listed \in SUBSET Handle /\ listed \subseteq Live
  BY StoredTexts DEF UserMemories
<1>2. /\ c \in Nat /\ d \in Seq(Steps) /\ Len(d) = c /\ \A i \in 1 .. c : d[i].do = "kind"
      /\ \A h \in listed : \E i \in 1 .. c : d[i].handle = h
  BY <1>1, StepsForEach, Zenon
<1>3. x \in Steps /\ x.do = "replace"
  <2>1. [h \in listed |-> mem[h].text] \in [listed -> SUBSET Fact]
    BY <1>1, StoredTexts
  <2>2. [h \in listed |-> mem[h].text] \in Readings
    BY <1>1, <2>1, Zenon DEF Readings
  <2>3. x \in ReplaceSteps
    BY <2>2 DEF ReplaceSteps
  <2> QED BY <2>3 DEF Steps, Writing
<1> HIDE DEF c, d, x
<1>4. /\ p \in Seq(Steps) /\ Len(p) = c + 1 /\ \A i \in 1 .. c : p[i] = d[i]
      /\ p[c + 1] = x
  BY <1>2, <1>3
<1> HIDE DEF p
<1>5. \A i \in 1 .. Len(p) : /\ p[i].do \in {"kind", "replace"}
                             /\ p[i].do = "kind" => i \in 1 .. c
                             /\ \A j \in 1 .. (i - 1) : p[j].do = "kind"
  <2> TAKE i \in 1 .. Len(p)
  <2>1. i \in 1 .. c \/ i = c + 1
    BY <1>2, <1>4
  <2>2. \A j \in 1 .. (i - 1) : j \in 1 .. c
    BY <1>2, <1>4
  <2> QED BY <1>2, <1>3, <1>4, <2>1, <2>2
<1>6. /\ ConsolidatesInOrder(p) /\ NeverCounts(p) /\ NeverProposes(p) /\ Dreamless(p)
  BY <1>5 DEF ConsolidatesInOrder, NeverCounts, NeverProposes, Dreamless
<1>7. ReplacesInOrder(p)
  <2>1. \A i \in 1 .. Len(p) : \A j \in 1 .. i : j = i \/ j \in 1 .. (i - 1)
    BY <1>2, <1>4
  <2> QED BY <1>5, <2>1 DEF ReplacesInOrder
<1>8. \A h \in listed : \E i \in 1 .. Len(p) : p[i].do = "kind" /\ p[i].handle = h
  <2> TAKE h \in listed
  <2>1. PICK i \in 1 .. c : d[i].handle = h
    BY <1>2
  <2>2. i \in 1 .. Len(p)
    BY <1>2, <1>4
  <2> QED BY <1>2, <1>4, <2>1, <2>2
<1>9. Len(p) # 0
  BY <1>2, <1>4
<1> QED BY <1>4, <1>6, <1>7, <1>8, <1>9 DEF InOrder, p, d, x

\* Who regenerates now is alone when nobody else does, and takes that from them.
LEMMA ReadSourcesKeeps ==
  ASSUME ServiceInv, NEW w \in Worker, read_sources(w)
  PROVE  ServiceInv'
<1> DEFINE t == task[w]
           others == {u \in Worker \ {w} : Regenerating(u)}
           r == Tail(t.todo)
<1>1. /\ t.todo # <<>> /\ t.todo[1].do = "sources" /\ t \in Tasks /\ BarsHold(t)
      /\ t.todo \in Seq(Steps)
  BY AtHead DEF read_sources
<1>2. UNCHANGED <<store, telemetry, dreams, budgets>>
  BY DEF read_sources
<1>3. PICK listed \in get_recent_memories_scoped :
        LET replace == [do |-> "replace", soft |-> FALSE,
                        texts |-> [h \in listed |-> mem[h].text]]
            v == [t EXCEPT !.todo = ForEach("kind", listed) \o <<replace>> \o Tail(@),
                           !.stale = {}, !.beyond = Profiles \ listed, !.alone = others = {}]
        IN  task' = [u \in Worker |->
                       CASE u = w -> v
                         [] u \in others -> [task[u] EXCEPT !.alone = FALSE]
                         [] OTHER -> task[u]]
  BY DEF read_sources
<1> DEFINE replace == [do |-> "replace", soft |-> FALSE, texts |-> [h \in listed |-> mem[h].text]]
           s == ForEach("kind", listed) \o <<replace>>
           beyond == Profiles \ listed
           v == [t EXCEPT !.todo = s \o Tail(@), !.stale = {}, !.beyond = beyond,
                          !.alone = others = {}]
<1>4. task' = [u \in Worker |->
                 CASE u = w -> v
                   [] u \in others -> [task[u] EXCEPT !.alone = FALSE]
                   [] OTHER -> task[u]]
  BY <1>3
<1>5. listed \in SUBSET UserMemories
  BY DEF get_recent_memories_scoped
<1>6. ServiceInv'
  <2>1. /\ s \in Seq(Steps) /\ InOrder(s) /\ NeverCounts(s)
        /\ NeverProposes(s) /\ Dreamless(s) /\ Len(s) # 0
        /\ \A h \in listed : \E i \in 1 .. Len(s) : s[i].do = "kind" /\ s[i].handle = h
    BY <1>5, ListingSteps DEF ServiceInv
  <2> HIDE DEF s
  <2>2. r \in Seq(Steps)
    BY <1>1, Rest
  <2>3. s \o r \in Seq(Steps)
    BY <2>1, <2>2, Joined
  <2> DEFINE alone == others = {}
  <2>4. /\ v = [t EXCEPT !.todo = s \o Tail(@), !.stale = {}, !.beyond = beyond, !.alone = alone]
        /\ alone \in BOOLEAN /\ beyond \in SUBSET Handle
    BY StoredTexts DEF ServiceInv, Profiles
  <2> HIDE DEF v, alone, beyond
  <2>5. /\ v \in Tasks /\ v.todo = s \o r /\ v.counted = t.counted
        /\ v.made = t.made /\ v.mark = t.mark /\ v.alone = alone
        /\ v.stale = {} /\ v.beyond = beyond
        /\ v.barred = t.barred /\ v.ok = t.ok /\ v.hint = t.hint /\ v.back = t.back
        /\ v.orig = t.orig
    BY <1>1, <2>3, <2>4 DEF Tasks
  <2>6. BarsHold(v)
    BY <1>1, <2>5 DEF BarsHold
  <2>7. GroupsIn(s)
    <3>1. \A i \in 1 .. Len(s) : s[i].do \notin {"propose", "demote"}
      BY <2>1 DEF NeverProposes, Dreamless
    <3> QED BY <3>1 DEF GroupsIn
  <2>8. Sound(v) /\ Steady(r)
    <3>1. Sound(t)
      BY SoundNow
    <3>2. t.todo[1].do \notin Reads \union {"count", "answer", "kind", "drop"} \union Consolidation
      BY <1>1 DEF Reads, Consolidation
    <3>3. s \in Seq(Steps) /\ InOrder(s) /\ NeverCounts(s)
      BY <2>1
    <3> QED BY <1>1, <2>5, <2>6, <2>7, <3>1, <3>2, <3>3, UnfoldSound
  <2>9. /\ Len(s) \in Nat /\ Len(r) \in Nat /\ Len(v.todo) = Len(s) + Len(r)
        /\ \A i \in 1 .. Len(s) : i \in 1 .. Len(v.todo) /\ v.todo[i] = s[i]
        /\ \A i \in 1 .. Len(v.todo) :
             i \in 1 .. Len(s) \/ (v.todo[i] = r[i - Len(s)] /\ i - Len(s) \in 1 .. Len(r))
    BY <2>1, <2>2, <2>5
  <2>10. NotYet(v.todo)
    <3>1. \A i \in 1 .. Len(v.todo) : v.todo[i].do \notin {"applied", "demote"}
      <4>1. Dreamless(s)
        BY <2>1
      <4> HIDE DEF r
      <4> QED BY <2>8, <2>9, <4>1 DEF Dreamless, Steady
    <3>2. \A i \in 1 .. 4 : i <= Len(v.todo) => i \in 1 .. Len(v.todo)
      BY <2>9
    <3> QED BY <3>1, <3>2 DEF NotYet
  <2>11. CASE v.todo = <<>>
    <3>1. Len(s) = 0 /\ Len(v.todo) = 0
      BY <2>9, <2>11
    <3> QED BY <2>1, <3>1
  <2>12. CASE v.todo # <<>>
    <3>1. Moved(w, v)
      <4>1. Settled(v) = v
        BY <2>5, <2>12, SettledTask
      <4>2. \A u \in Worker : task[u] \in Tasks /\ [task[u] EXCEPT !.alone = FALSE] \in Tasks
        <5>1. \A x \in Tasks : [x EXCEPT !.alone = FALSE] \in Tasks
          BY DEF Tasks
        <5> QED BY <5>1 DEF ServiceInv, TaskTypes
      <4>3. /\ task' \in [Worker -> Tasks] /\ task'[w] = v
            /\ \A u \in Worker \ {w} : task'[u] \in {task[u], [task[u] EXCEPT !.alone = FALSE]}
        BY <1>4, <2>5, <4>2
      <4>4. \A u \in Worker \ {w} : u \in others => task'[u] = [task[u] EXCEPT !.alone = FALSE]
        BY <1>4
      <4>5. \A u \in Worker \ {w} : task[u].todo = <<>> => u \notin others
        BY DEF Regenerating
      <4>6. \A u \in Worker \ {w} : u \notin others => task'[u] = task[u]
        BY <1>4
      <4> HIDE DEF others
      <4>7. \A u \in Worker \ {w} :
              LET x == task[u]
                  n == task'[u]
              IN  /\ n.todo = x.todo /\ n.counted = x.counted /\ n.answered = x.answered
                  /\ n.made = x.made /\ n.mark = x.mark /\ (n.alone => x.alone)
                  /\ n.stale = x.stale /\ n.beyond = x.beyond
                  /\ n.ok = x.ok /\ n.hint = x.hint /\ n.back = x.back /\ n.orig = x.orig
                  /\ n.barred = x.barred
        <5> TAKE u \in Worker \ {w}
        <5>1. CASE task'[u] = task[u]
          BY <5>1
        <5>2. CASE task'[u] = [task[u] EXCEPT !.alone = FALSE]
          BY <4>2, <5>2 DEF Tasks
        <5> QED BY <4>3, <5>1, <5>2
      <4> QED BY <4>1, <4>3, <4>5, <4>6, <4>7 DEF Moved
    <3>2. /\ StoreTypes' /\ RecordTypes' /\ Profiles' = Profiles /\ StoreGrows
          /\ now' = now /\ proposals' = proposals /\ demoted' = demoted
          /\ promised' = promised /\ prepared' = prepared /\ receipts' = receipts
          /\ \A k \in Delivery, h \in Handle : counts'[k][h] <= counts[k][h]
      BY <1>2, ReadingStays
    <3>4. TaskTypes' /\ (AloneReplaces' => ServiceInv')
      BY <2>5, <2>8, <2>10, <3>1, <3>2, WritingKeeps
    <3>6. task'[w] = v /\ \A u \in Worker \ {w} : task'[u].todo = task[u].todo
      BY <2>12, <3>1 DEF Moved, Settled
    <3>11. \A u \in Worker \ {w} : Regenerating(u)' = Regenerating(u)
      BY <3>6 DEF Regenerating
    <3>12. ASSUME NEW u \in Worker \ {w}, task'[u].alone, Regenerating(u)'
           PROVE  FALSE
      <4>1. u \in others
        BY <3>11, <3>12
      <4>2. task'[u] = [task[u] EXCEPT !.alone = FALSE] /\ task[u] \in Tasks
        BY <1>4, <4>1 DEF ServiceInv, TaskTypes
      <4> QED BY <3>12, <4>2 DEF Tasks
    <3>13. v.alone => \A u \in Worker \ {w} : ~Regenerating(u)'
      BY <2>5, <3>11 DEF alone
    <3>14. \A h \in Profiles' \ v.beyond : ToDrop(v, h)
      <4>1. \A h \in Profiles' \ v.beyond : h \in listed
        BY <2>5, <3>2 DEF beyond
      <4> QED BY <2>1, <2>9, <4>1 DEF ToDrop
    <3> HIDE DEF others
    <3>15. AloneReplaces'
      BY SMTT(30), <3>6, <3>12, <3>13, <3>14 DEF AloneReplaces
    <3> QED BY <3>4, <3>15
  <2> QED BY <2>11, <2>12
<1> QED BY <1>6

\* A kind that is read: another profile to drop, perhaps.
LEMMA KindKeeps ==
  ASSUME ServiceInv, NEW w \in Worker, kind_of_source(w)
  PROVE  ServiceInv'
<1> DEFINE t == task[w]
           h0 == Now(w).handle
           s == [t EXCEPT !.stale = @ \union (Profiles \intersect {h0})]
           v == [s EXCEPT !.todo = Tail(@)]
           p == t.todo
<1>1. /\ p # <<>> /\ p[1].do = "kind" /\ t \in Tasks /\ BarsHold(t) /\ p \in Seq(Steps)
      /\ h0 = p[1].handle /\ Live \in SUBSET Handle
  BY AtHead DEF kind_of_source
<1>2. UNCHANGED <<store, telemetry, dreams, budgets>> /\ Step(w, s)
  BY DEF kind_of_source
<1>3. Profiles \intersect {h0} \in SUBSET Handle
  BY <1>1 DEF Profiles
<1> HIDE DEF h0
<1>4. /\ s \in Tasks /\ s.todo = t.todo /\ s.counted = t.counted /\ s.answered = t.answered
      /\ s.made = t.made /\ s.mark = t.mark /\ s.alone = t.alone /\ s.beyond = t.beyond
      /\ s.stale = t.stale \union (Profiles \intersect {h0})
      /\ s.barred = t.barred /\ s.ok = t.ok /\ s.hint = t.hint /\ s.back = t.back
      /\ s.orig = t.orig
  BY <1>1, <1>3 DEF Tasks
<1> HIDE DEF s
<1>5. BarsHold(s)
  BY <1>1, <1>4 DEF BarsHold
<1>6. /\ v \in Tasks /\ v.todo = Tail(p) /\ BarsHold(v)
      /\ v.counted = s.counted /\ v.answered = s.answered /\ v.made = s.made
      /\ v.mark = s.mark /\ v.alone = s.alone /\ v.stale = s.stale /\ v.beyond = s.beyond
      /\ task' = [task EXCEPT ![w] = Settled(v)]
  BY <1>1, <1>2, <1>4, <1>5, StepTask
<1> HIDE DEF v
<1>7. Sound(v) /\ Moved(w, v) /\ InOrder(p)
  <2>1. Sound(t)
    BY SoundNow
  <2> QED BY <1>1, <1>4, <1>6, <2>1, RestSound, OneMoves DEF ServiceInv, Sound
<1>8. /\ Len(p) \in Nat \ {0} /\ Len(v.todo) = Len(p) - 1
      /\ \A i \in 1 .. Len(v.todo) : v.todo[i] = p[i + 1] /\ i + 1 \in 1 .. Len(p)
  BY <1>1, <1>6, Rest
<1> HIDE DEF p
<1>9. \A i \in 1 .. Len(p) : /\ p[i].do \notin {"applied", "demote"}
                             /\ Regenerates(p[i]) => p[i].do = "replace"
  <2> TAKE i \in 1 .. Len(p)
  <2>1. p[i].do \notin {"applied", "demote"}
    BY <1>1, <1>7, <1>8 DEF InOrder, ConsolidatesInOrder, Consolidation
  <2>2. i = 1 \/ 1 \in 1 .. (i - 1)
    BY <1>8
  <2> QED BY <1>1, <1>7, <2>1, <2>2 DEF InOrder, ReplacesInOrder, Regenerates
<1>10. NotYet(v.todo)
  <2>1. \A i \in 1 .. 4 : i <= Len(v.todo) => i \in 1 .. Len(v.todo)
    BY <1>8
  <2> QED BY <1>8, <1>9, <2>1 DEF NotYet
<1>11. /\ StoreTypes' /\ RecordTypes' /\ Profiles' = Profiles /\ StoreGrows
       /\ now' = now /\ proposals' = proposals /\ demoted' = demoted
       /\ promised' = promised /\ prepared' = prepared /\ receipts' = receipts
       /\ \A k \in Delivery, h \in Handle : counts'[k][h] <= counts[k][h]
  BY <1>2, ReadingStays
<1>12. TaskTypes' /\ (AloneReplaces' => ServiceInv')
  BY <1>4, <1>6, <1>7, <1>10, <1>11, WritingKeeps
<1>13. StaysAlone(t, v)
  <2> SUFFICES ASSUME NEW k \in 1 .. Len(v.todo), Regenerates(v.todo[k])
               PROVE  StaysAlone(t, v)
    BY DEF StaysAlone
  <2>1. k + 1 \in 1 .. Len(p) /\ Regenerates(p[k + 1]) /\ v.todo[k].do = "replace"
    BY <1>8, <1>9
  <2>2. ASSUME NEW h \in Profiles', ToDrop(t, h)
        PROVE  ToDrop(v, h)
    <3>1. CASE h = h0
      <4>1. h \in v.stale
        BY <1>4, <1>6, <1>11, <3>1
      <4> QED BY <2>1, <4>1 DEF ToDrop
    <3>2. CASE h # h0
      BY <1>1, <1>4, <1>6, <2>2, <3>2, TailToDrop DEF p
    <3> QED BY <3>1, <3>2
  <2> QED BY <1>4, <1>6, <2>1, <2>2 DEF StaysAlone, p
<1>14. AloneReplaces'
  BY <1>7, <1>11, <1>12, <1>13, AloneStays
<1> QED BY <1>12, <1>14

\* With the kinds read, what is stale is going to be dropped.
LEMMA ReplaceKeeps ==
  ASSUME ServiceInv, NEW w \in Worker, replace_profiles(w)
  PROVE  ServiceInv'
<1> DEFINE t == task[w]
           p == t.todo
           r == Tail(p)
           s == IF DOMAIN Now(w).texts \subseteq t.stale THEN <<>> ELSE Replacing(w)
           v == [t EXCEPT !.todo = s \o Tail(@)]
<1>1. /\ p # <<>> /\ p[1].do = "replace" /\ t \in Tasks /\ BarsHold(t) /\ p \in Seq(Steps)
  BY AtHead DEF replace_profiles
<1>2. UNCHANGED <<store, telemetry, dreams, budgets>> /\ task' = [task EXCEPT ![w] = Settled(v)]
  BY DEF replace_profiles, Unfolds, Becomes
<1>3. /\ s \in Seq(Steps) /\ InOrder(s) /\ NeverCounts(s) /\ NeverProposes(s) /\ Dreamless(s)
      /\ s = <<>> \/ \A h \in t.stale : \E i \in 1 .. Len(s) : s[i].do = "drop" /\ s[i].handle = h
  <2>1. CASE DOMAIN Now(w).texts \subseteq t.stale
    BY <2>1, EmptySteady, SteadyInOrder DEF NeverCounts, NeverProposes, Dreamless
  <2>2. CASE ~ (DOMAIN Now(w).texts \subseteq t.stale)
    BY <2>2, ReplacingSteps DEF replace_profiles, Stale
  <2> QED BY <2>1, <2>2
<1> HIDE DEF s
<1>4. r \in Seq(Steps)
  BY <1>1, Rest
<1>5. s \o r \in Seq(Steps)
  BY <1>3, <1>4, Joined
<1>6. /\ v \in Tasks /\ v.todo = s \o r /\ v.counted = t.counted /\ v.made = t.made
      /\ v.mark = t.mark /\ v.alone = t.alone /\ v.stale = t.stale /\ v.beyond = t.beyond
      /\ v.barred = t.barred /\ v.ok = t.ok /\ v.hint = t.hint /\ v.back = t.back
      /\ v.orig = t.orig
  BY <1>1, <1>5 DEF Tasks
<1> HIDE DEF v
<1>7. BarsHold(v) /\ GroupsIn(s)
  BY <1>1, <1>3, <1>6 DEF BarsHold, GroupsIn, NeverProposes, Dreamless
<1>8. Sound(v) /\ Steady(r) /\ InOrder(p)
  <2>1. Sound(t)
    BY SoundNow
  <2>2. p[1].do \notin Reads \union {"count", "answer", "kind", "drop"} \union Consolidation
    BY <1>1 DEF Reads, Consolidation
  <2> QED BY <1>1, <1>3, <1>6, <1>7, <2>1, <2>2, UnfoldSound DEF Sound
<1>9. /\ Len(s) \in Nat /\ Len(r) \in Nat /\ Len(v.todo) = Len(s) + Len(r)
      /\ \A i \in 1 .. Len(s) : i \in 1 .. Len(v.todo) /\ v.todo[i] = s[i]
      /\ \A i \in 1 .. Len(v.todo) :
           \/ i \in 1 .. Len(s) /\ v.todo[i] = s[i]
           \/ v.todo[i] = r[i - Len(s)] /\ i - Len(s) \in 1 .. Len(r)
  BY <1>3, <1>4, <1>6
<1>10. NotYet(v.todo)
  <2> HIDE DEF r
  <2>1. /\ \A i \in 1 .. Len(s) : s[i].do \notin {"applied", "demote"}
        /\ \A i \in 1 .. Len(r) : r[i].do \notin {"applied", "demote"}
    BY <1>3, <1>8 DEF Dreamless, Steady
  <2>2. \A i \in 1 .. Len(v.todo) : v.todo[i].do \notin {"applied", "demote"}
    <3> SUFFICES ASSUME NEW i \in 1 .. Len(v.todo)
                 PROVE  v.todo[i].do \notin {"applied", "demote"}
      OBVIOUS
    <3>1. CASE i \in 1 .. Len(s) /\ v.todo[i] = s[i]
      BY <2>1, <3>1
    <3>2. CASE v.todo[i] = r[i - Len(s)] /\ i - Len(s) \in 1 .. Len(r)
      BY <2>1, <3>2
    <3> QED BY <1>9, <3>1, <3>2
  <2>3. \A i \in 1 .. 4 : i <= Len(v.todo) => i \in 1 .. Len(v.todo)
    BY <1>9
  <2> QED BY <2>2, <2>3 DEF NotYet
<1>11. /\ StoreTypes' /\ RecordTypes' /\ Profiles' = Profiles /\ StoreGrows
       /\ now' = now /\ proposals' = proposals /\ demoted' = demoted
       /\ promised' = promised /\ prepared' = prepared /\ receipts' = receipts
       /\ \A k \in Delivery, h \in Handle : counts'[k][h] <= counts[k][h]
  BY <1>2, ReadingStays
<1>12. Moved(w, v)
  BY <1>2, <1>6, OneMoves DEF ServiceInv
<1>13. TaskTypes' /\ (AloneReplaces' => ServiceInv')
  BY <1>6, <1>8, <1>10, <1>11, <1>12, WritingKeeps
<1>14. StaysAlone(t, v)
  <2>1. CASE s = <<>>
    <3>1. \A i \in 1 .. Len(v.todo) : ~Regenerates(v.todo[i])
      BY <1>8, <1>9, <2>1 DEF Steady
    <3> QED BY <3>1 DEF StaysAlone
  <2>2. CASE s # <<>>
    <3>1. 1 \in 1 .. Len(p) /\ Regenerates(p[1])
      BY <1>1, Rest DEF Regenerates
    <3>2. ASSUME NEW h, ToDrop(t, h)
          PROVE  ToDrop(v, h)
      <4>1. \A i \in 1 .. Len(p) : p[i].do \notin {"kind", "drop"}
        BY <1>1, <1>8, <3>1 DEF InOrder, ReplacesInOrder
      <4>2. h \in t.stale
        BY <3>2, <4>1 DEF ToDrop
      <4>3. PICK i \in 1 .. Len(s) : s[i].do = "drop" /\ s[i].handle = h
        BY <1>3, <2>2, <4>2
      <4> QED BY <1>9, <4>3 DEF ToDrop
    <3> QED BY <1>6, <3>1, <3>2 DEF StaysAlone
  <2> QED BY <2>1, <2>2
<1>15. AloneReplaces'
  BY <1>8, <1>11, <1>12, <1>13, <1>14, AloneStays
<1> QED BY <1>13, <1>15

\* What is done with, when it is no recall's.
LEMMA DoneTask ==
  ASSUME ServiceInv, NEW w \in Worker, task[w].todo # <<>>,
         task[w].todo[1].do \notin {"count", "answer"}, Done(w)
  PROVE  LET v == [task[w] EXCEPT !.todo = Tail(@)]
         IN  /\ Moved(w, v) /\ Sound(v) /\ v.todo = Tail(task[w].todo)
             /\ task[w].todo[1].do \notin {"propose", "insert", "applied", "kind", "replace", "drop"} =>
                  Goes(task[w].todo, v.todo)
             /\ v.counted = task[w].counted /\ v.made = task[w].made
             /\ v.mark = task[w].mark /\ v.alone = task[w].alone
             /\ v.stale = task[w].stale /\ v.beyond = task[w].beyond
             /\ v.barred = task[w].barred
             /\ task' = [task EXCEPT ![w] = Settled(v)]
<1> DEFINE t == task[w]
           v == [t EXCEPT !.todo = Tail(@)]
<1>1. Sound(t) /\ t \in Tasks /\ BarsHold(t)
  BY SoundNow DEF Sound
<1>2. Step(w, t)
  BY DEF Done
<1>3. /\ v \in Tasks /\ v.todo = Tail(t.todo) /\ BarsHold(v)
      /\ v.counted = t.counted /\ v.answered = t.answered /\ v.made = t.made
      /\ v.mark = t.mark /\ v.alone = t.alone
      /\ v.stale = t.stale /\ v.beyond = t.beyond
      /\ v.barred = t.barred
      /\ task' = [task EXCEPT ![w] = Settled(v)]
  BY <1>1, <1>2, StepTask
<1> HIDE DEF v
<1>4. /\ Sound(v)
      /\ t.todo[1].do \notin {"propose", "insert", "applied", "kind", "replace", "drop"} => Goes(t.todo, v.todo)
  BY <1>1, <1>3, RestSound
<1>5. Moved(w, v)
  BY <1>3, OneMoves DEF ServiceInv
<1> QED BY <1>3, <1>4, <1>5 DEF v

\* A memory is gone, and its counters with it.
LEMMA ForgettingTypes ==
  ASSUME ServiceInv, NEW g \in 0 .. MaxHandle, mem' = Without(g),
         counts' = [k \in Delivery |-> [counts[k] EXCEPT ![g] = 0]],
         UNCHANGED <<next, receipts, prepared, promised, dreams, budgets>>
  PROVE  /\ StoreTypes' /\ RecordTypes' /\ StoreGrows /\ now' = now
         /\ proposals' = proposals /\ demoted' = demoted
         /\ promised' = promised /\ prepared' = prepared /\ receipts' = receipts
         /\ \A k \in Delivery, h \in Handle : counts'[k][h] <= counts[k][h]
         /\ Profiles' = Profiles \ {g}
<1>1. /\ now' = now /\ next' = next /\ proposals' = proposals /\ demoted' = demoted
      /\ dreamt' = dreamt /\ events' = events /\ ops' = ops /\ failures' = failures
      /\ promised' = promised /\ prepared' = prepared /\ receipts' = receipts
  BY DEF dreams, budgets
<1>2. /\ DOMAIN mem' = Live \ {g}
      /\ \A h \in Live \ {g} : mem'[h] = mem[h]
      /\ mem' = [h \in Live \ {g} |-> mem[h]]
  BY DEF Without
<1>3. StoreTypes'
  <2>1. mem' \in [Live \ {g} -> Memories]
    <3>1. \A h \in Live \ {g} : mem[h] \in Memories
      BY DEF ServiceInv, StoreTypes
    <3> QED BY <1>2, <3>1
  <2> QED BY <1>1, <1>2, <2>1 DEF ServiceInv, StoreTypes, Live
<1>4. \A k \in Delivery, h \in Handle :
        counts'[k][h] \in Nat /\ counts'[k][h] <= counts[k][h]
  <2> TAKE k \in Delivery, h \in Handle
  <2>1. counts[k] \in [Handle -> Nat] /\ counts[k][h] \in Nat
    BY DEF ServiceInv, RecordTypes
  <2>2. counts'[k][h] \in {0, counts[k][h]}
    BY <2>1
  <2> QED BY <2>1, <2>2
<1>5. counts' \in [Delivery -> [Handle -> Nat]]
  <2>1. \A k \in Delivery : [counts[k] EXCEPT ![g] = 0] \in [Handle -> Nat]
    <3> TAKE k \in Delivery
    <3>1. counts[k] \in [Handle -> Nat]
      BY DEF ServiceInv, RecordTypes
    <3> QED BY <3>1
  <2> QED BY <2>1
<1>6. RecordTypes'
  BY <1>1, <1>5 DEF ServiceInv, RecordTypes
<1>7. StoreGrows
  BY <1>1, <1>2 DEF StoreGrows
<1>8. Profiles' = Profiles \ {g}
  BY <1>2 DEF Profiles, Live
<1> QED BY <1>1, <1>3, <1>4, <1>6, <1>7, <1>8

LEMMA DeleteKeeps ==
  ASSUME ServiceInv, NEW w \in Worker, delete_memory(w)
  PROVE  ServiceInv'
<1> DEFINE v == [task[w] EXCEPT !.todo = Tail(@)]
           g == task[w].about
<1>1. task[w].todo # <<>> /\ task[w].todo[1].do = "delete" /\ task[w] \in Tasks
  BY AtHead DEF delete_memory
<1>2. /\ Moved(w, v) /\ Sound(v) /\ Goes(task[w].todo, v.todo)
      /\ v.counted = task[w].counted /\ v.made = task[w].made
      /\ v.mark = task[w].mark /\ v.alone = task[w].alone
      /\ v.stale = task[w].stale /\ v.beyond = task[w].beyond
  BY <1>1, DoneTask DEF delete_memory
<1>3. g \in 0 .. MaxHandle
  BY <1>1 DEF Tasks
<1> HIDE DEF v
<1>4. /\ mem' = Without(g) /\ counts' = [k \in Delivery |-> [counts[k] EXCEPT ![g] = 0]]
      /\ UNCHANGED <<next, receipts, prepared, promised, dreams, budgets>>
  BY DEF delete_memory
<1> HIDE DEF g
<1>5. /\ StoreTypes' /\ RecordTypes' /\ StoreGrows /\ now' = now
      /\ proposals' = proposals /\ demoted' = demoted
      /\ promised' = promised /\ prepared' = prepared /\ receipts' = receipts
      /\ \A k \in Delivery, h \in Handle : counts'[k][h] <= counts[k][h]
      /\ Profiles' = Profiles \ {g}
  BY <1>3, <1>4, ForgettingTypes
<1>6. TaskTypes' /\ (AloneReplaces' => ServiceInv')
  BY <1>2, <1>5, WritingKeeps
<1>7. AloneReplaces'
  BY <1>2, <1>5, <1>6, AloneKept
<1> QED BY <1>6, <1>7

LEMMA DropKeeps ==
  ASSUME ServiceInv, NEW w \in Worker, drop(w)
  PROVE  ServiceInv'
<1> DEFINE v == [task[w] EXCEPT !.todo = Tail(@)]
           p == task[w].todo
           g == Now(w).handle
<1>1. /\ p # <<>> /\ p[1].do = "drop" /\ task[w] \in Tasks /\ p \in Seq(Steps)
      /\ Now(w) = p[1] /\ p[1] \in Steps
  BY AtHead DEF drop
<1>2. /\ Moved(w, v) /\ Sound(v) /\ v.todo = Tail(p)
      /\ v.counted = task[w].counted /\ v.made = task[w].made
      /\ v.mark = task[w].mark /\ v.alone = task[w].alone
      /\ v.stale = task[w].stale /\ v.beyond = task[w].beyond
  BY <1>1, DoneTask DEF drop
<1>3. g \in 0 .. MaxHandle
  <2>1. p[1] \in DropSteps
    BY <1>1, StepShapes
  <2>2. g \in Handle
    BY <1>1, <2>1 DEF DropSteps
  <2> QED BY <2>2, ServiceAssumption DEF Handle
<1> HIDE DEF v
<1>4. /\ mem' = Without(g) /\ counts' = [k \in Delivery |-> [counts[k] EXCEPT ![g] = 0]]
      /\ UNCHANGED <<next, receipts, prepared, promised, dreams, budgets>>
  BY DEF drop
<1> HIDE DEF g
<1>5. /\ StoreTypes' /\ RecordTypes' /\ StoreGrows /\ now' = now
      /\ proposals' = proposals /\ demoted' = demoted
      /\ promised' = promised /\ prepared' = prepared /\ receipts' = receipts
      /\ \A k \in Delivery, h \in Handle : counts'[k][h] <= counts[k][h]
      /\ Profiles' = Profiles \ {g}
  BY <1>3, <1>4, ForgettingTypes
<1>6. NotYet(v.todo)
  <2>1. /\ Len(p) \in Nat \ {0} /\ Len(v.todo) = Len(p) - 1
        /\ \A i \in 1 .. Len(v.todo) : v.todo[i] = p[i + 1]
    BY <1>1, <1>2, Rest
  <2>2. ConsolidatesInOrder(p)
    BY DEF ServiceInv, Programs
  <2>3. \A i \in 1 .. Len(p) : p[i].do \notin {"applied", "demote"}
    <3> TAKE i \in 1 .. Len(p)
    <3>1. 1 \in 1 .. i /\ p[1].do \notin Consolidation
      BY <1>1, <2>1 DEF Consolidation
    <3> QED BY <2>2, <3>1 DEF ConsolidatesInOrder
  <2>4. \A i \in 1 .. 4 : i <= Len(v.todo) => v.todo[i] = p[i + 1] /\ i + 1 \in 1 .. Len(p)
    BY <2>1
  <2> QED BY <2>3, <2>4 DEF NotYet
<1>7. TaskTypes' /\ (AloneReplaces' => ServiceInv')
  BY <1>2, <1>5, <1>6, WritingKeeps
<1>8. Drops(p, v.todo)
  BY <1>1, <1>2, <1>5 DEF Drops, g
<1>9. AloneReplaces'
  BY <1>2, <1>5, <1>7, <1>8, AloneKept
<1> QED BY <1>7, <1>9
\* Who describes its profile is done with regenerating it.
LEMMA Regenerated ==
  ASSUME NEW p \in Seq(Steps), p # <<>>, ReplacesInOrder(p), p[1].do = "describe"
  PROVE  \A i \in 1 .. Len(Tail(p)) : ~Regenerates(Tail(p)[i])
<1> DEFINE q == Tail(p)
<1>1. /\ Len(p) \in Nat \ {0} /\ Len(q) = Len(p) - 1
      /\ \A i \in 1 .. Len(q) : q[i] = p[i + 1]
  BY Rest
<1> HIDE DEF q
<1>2. ASSUME NEW i \in 1 .. Len(q), Regenerates(q[i])
      PROVE  FALSE
  <2>1. i + 1 \in 1 .. Len(p) /\ q[i] = p[i + 1] /\ 1 \in 1 .. ((i + 1) - 1)
    BY <1>1
  <2>2. p[1].do \in {"kind", "drop", "insert"}
    BY <1>2, <2>1 DEF Regenerates, ReplacesInOrder
  <2> QED BY <2>2
<1> QED BY <1>2 DEF q

LEMMA DescribeKeeps ==
  ASSUME ServiceInv, NEW w \in Worker, describe(w)
  PROVE  ServiceInv'
<1> DEFINE v == [task[w] EXCEPT !.todo = Tail(@)]
           p == task[w].todo
           g == task[w].made
           kind == Now(w).kind
           user == Now(w).user
<1>1. /\ p # <<>> /\ p[1].do = "describe" /\ task[w] \in Tasks /\ p \in Seq(Steps)
      /\ Now(w) = p[1] /\ p[1] \in Steps
  BY AtHead DEF describe
<1>2. /\ Moved(w, v) /\ Sound(v) /\ Goes(p, v.todo) /\ v.todo = Tail(p)
      /\ v.counted = task[w].counted /\ v.made = task[w].made
      /\ v.mark = task[w].mark /\ v.alone = task[w].alone
      /\ v.stale = task[w].stale /\ v.beyond = task[w].beyond
  BY <1>1, DoneTask DEF describe
<1>3. kind \in Kind /\ user \in BOOLEAN /\ (kind = "profile" => user)
  <2>1. p[1] \in DescribeSteps
    BY <1>1, StepShapes
  <2> QED BY <1>1, <2>1 DEF DescribeSteps
<1>4. /\ mem' = Described(g, kind, user)
      /\ UNCHANGED <<next, telemetry, dreams, budgets>>
  BY DEF describe
<1>5. /\ now' = now /\ next' = next /\ proposals' = proposals /\ demoted' = demoted
      /\ dreamt' = dreamt /\ events' = events /\ ops' = ops /\ failures' = failures
      /\ promised' = promised /\ prepared' = prepared /\ receipts' = receipts /\ counts' = counts
  BY <1>4 DEF dreams, budgets, telemetry
<1> HIDE DEF v, g, kind, user
<1>6. \A h \in Live : mem[h] \in Memories
  BY DEF ServiceInv, StoreTypes
<1>7. /\ DOMAIN mem' = Live /\ mem' \in [Live -> Memories]
      /\ \A h \in Live : /\ mem'[h].text = mem[h].text /\ mem'[h].stance = mem[h].stance
                         /\ mem'[h].made = mem[h].made
                         /\ mem'[h].kind = IF h = g THEN kind ELSE mem[h].kind
  <2>1. CASE g \in Live
    <3> DEFINE New(m) == [[m EXCEPT !.kind = kind] EXCEPT !.user = user]
    <3>1. \A m \in Memories : /\ New(m) \in Memories /\ New(m).text = m.text
                              /\ New(m).stance = m.stance /\ New(m).made = m.made
                              /\ New(m).kind = kind
      BY <1>3 DEF Memories
    <3>2. mem' = [h \in Live |-> IF h = g THEN New(mem[h]) ELSE mem[h]]
      <4>1. mem' = [mem EXCEPT ![g].kind = kind, ![g].user = user]
        BY <1>4, <2>1 DEF Described
      <4>2. mem = [h \in Live |-> mem[h]]
        BY DEF ServiceInv, StoreTypes
      <4> QED BY <2>1, <4>1, <4>2
    <3> HIDE DEF New
    <3> QED BY <1>6, <2>1, <3>1, <3>2
  <2>2. CASE g \notin Live
    <3>1. mem' = mem
      BY <1>4, <2>2 DEF Described
    <3>2. mem \in [Live -> Memories]
      BY DEF ServiceInv, StoreTypes
    <3> QED BY <2>2, <3>1, <3>2 DEF Live
  <2> QED BY <2>1, <2>2
<1>8. StoreTypes'
  BY <1>5, <1>7 DEF ServiceInv, StoreTypes, Live
<1>9. RecordTypes'
  BY <1>5 DEF ServiceInv, RecordTypes
<1>10. StoreGrows
  BY <1>5, <1>7 DEF StoreGrows
<1>11. \A k \in Delivery, h \in Handle : counts'[k][h] <= counts[k][h]
  BY <1>5 DEF ServiceInv, RecordTypes
<1>12. TaskTypes' /\ (AloneReplaces' => ServiceInv')
  BY <1>2, <1>5, <1>8, <1>9, <1>10, <1>11, WritingKeeps
<1>13. CASE kind # "profile"
  <2>1. Profiles' \subseteq Profiles
    BY <1>7, <1>13 DEF Profiles, Live
  <2>2. AloneReplaces'
    BY <1>2, <1>12, <2>1, AloneKept
  <2> QED BY <1>12, <2>2
<1>14. CASE kind = "profile"
  <2>1. Regenerating(w)
    <3>1. 1 \in 1 .. Len(p) /\ Regenerates(p[1])
      BY <1>1, <1>14, Rest DEF Regenerates, kind
    <3> QED BY <3>1, RegeneratingSteps DEF ServiceInv
  <2>2. task'[w].todo = v.todo /\ \A u \in Worker \ {w} :
          task'[u].todo = task[u].todo /\ (task'[u].alone => task[u].alone)
    BY <1>2, SettledTask DEF Moved, Sound
  <2>3. ~Regenerating(w)'
    <3>1. \A i \in 1 .. Len(v.todo) : ~Regenerates(v.todo[i])
      <4>1. ReplacesInOrder(p)
        BY DEF ServiceInv, Programs
      <4> QED BY <1>1, <1>2, <4>1, Regenerated
    <3>2. v.todo \in Seq(Steps)
      BY <1>2 DEF Sound, Tasks
    <3>3. DOMAIN v.todo = 1 .. Len(v.todo)
      BY <3>2
    <3> QED BY <2>2, <3>1, <3>3 DEF Regenerating, Regenerates
  <2>4. \A u \in Worker \ {w} : ~(task'[u].alone /\ Regenerating(u)')
    <3> TAKE u \in Worker \ {w}
    <3>1. Regenerating(u)' = Regenerating(u)
      BY <2>2 DEF Regenerating
    <3>2. task[u].alone /\ Regenerating(u) => ~Regenerating(w)
      BY DEF ServiceInv, AloneReplaces
    <3> QED BY <2>1, <2>2, <3>1, <3>2
  <2>5. AloneReplaces'
    BY <2>3, <2>4 DEF AloneReplaces
  <2> QED BY <1>12, <2>5
<1> QED BY <1>13, <1>14

\* Who is allowed again is barred from nobody; who is denied was not shown yet.
LEMMA PolicyKeeps ==
  ASSUME ServiceInv, NEW w \in Worker, update_memory_policy(w)
  PROVE  ServiceInv'
<1> DEFINE h == task[w].about
           stance == Now(w).stance
           Lifted(t) == IF stance = "allow" THEN [t EXCEPT !.barred = @ \ {h}] ELSE t
           v == [Lifted(task[w]) EXCEPT !.todo = Tail(@)]
           p == task[w].todo
<1>1. /\ p # <<>> /\ p[1].do = "stance" /\ task[w] \in Tasks /\ p \in Seq(Steps)
      /\ Now(w) = p[1] /\ p[1] \in Steps /\ BarsHold(task[w])
  BY AtHead DEF update_memory_policy
<1>2. UNCHANGED <<next, telemetry, dreams, budgets>>
  BY DEF update_memory_policy
<1>3. /\ now' = now /\ next' = next /\ proposals' = proposals /\ demoted' = demoted
      /\ dreamt' = dreamt /\ events' = events /\ ops' = ops /\ failures' = failures
      /\ promised' = promised /\ prepared' = prepared /\ receipts' = receipts /\ counts' = counts
  BY <1>2 DEF dreams, budgets, telemetry
<1>4. CASE h \notin Live
  <2>1. Errs(w) /\ mem' = mem
    BY <1>4 DEF update_memory_policy
  <2>2. UNCHANGED <<now, store, telemetry, dreams>> /\ ops' \in Nat /\ failures' \in Nat
    BY <1>3, <2>1 DEF ServiceInv, RecordTypes, store, telemetry, dreams
  <2> QED BY <1>1, <2>1, <2>2, ErrorKeeps
<1>5. CASE h \in Live
  <2>1. stance \in {"allow", "deny"}
    <3>1. p[1] \in StanceSteps
      BY <1>1, StepShapes
    <3> QED BY <1>1, <3>1 DEF StanceSteps
  <2>2. /\ mem' = [mem EXCEPT ![h].stance = stance]
        /\ task' = [u \in Worker |-> IF u = w THEN Settled(v) ELSE Lifted(task[u])]
    BY <1>5 DEF update_memory_policy
  <2>3. \A t \in Tasks :
          /\ Lifted(t) \in Tasks /\ Lifted(t).todo = t.todo /\ Lifted(t).counted = t.counted
          /\ Lifted(t).answered = t.answered /\ Lifted(t).made = t.made
          /\ Lifted(t).mark = t.mark /\ Lifted(t).alone = t.alone
          /\ Lifted(t).stale = t.stale /\ Lifted(t).beyond = t.beyond
          /\ Lifted(t).ok = t.ok
          /\ Lifted(t).hint = t.hint /\ Lifted(t).back = t.back /\ Lifted(t).orig = t.orig
          /\ Lifted(t).barred \subseteq t.barred
          /\ stance = "allow" => h \notin Lifted(t).barred
    <3> TAKE t \in Tasks
    <3>1. CASE stance = "allow"
      BY <3>1 DEF Tasks
    <3>2. CASE stance # "allow"
      BY <3>2
    <3> QED BY <3>1, <3>2
  <2>4. Lifted(Idle) = Idle
    BY DEF Idle
  <2> DEFINE l == Lifted(task[w])
  <2>5. /\ l \in Tasks /\ l.todo = p /\ l.counted = task[w].counted
        /\ l.answered = task[w].answered /\ l.made = task[w].made
        /\ l.mark = task[w].mark /\ l.alone = task[w].alone
        /\ l.stale = task[w].stale /\ l.beyond = task[w].beyond
        /\ l.ok = task[w].ok
        /\ l.hint = task[w].hint /\ l.back = task[w].back /\ l.orig = task[w].orig
        /\ l.barred \subseteq task[w].barred
        /\ stance = "allow" => h \notin l.barred
    BY <1>1, <2>3
  <2> HIDE DEF l
  <2>6. Tail(p) \in Seq(Steps) /\ v = [l EXCEPT !.todo = Tail(p)]
    BY <1>1, <2>5, Rest DEF l
  <2> HIDE DEF v
  <2>7. /\ v \in Tasks /\ v.todo = Tail(p) /\ v.counted = task[w].counted
        /\ v.answered = task[w].answered /\ v.made = task[w].made
        /\ v.mark = task[w].mark /\ v.alone = task[w].alone
        /\ v.stale = task[w].stale /\ v.beyond = task[w].beyond
        /\ v.ok = task[w].ok
        /\ v.hint = task[w].hint /\ v.back = task[w].back /\ v.orig = task[w].orig
        /\ v.barred \subseteq task[w].barred
        /\ stance = "allow" => h \notin v.barred
    BY <2>5, <2>6 DEF Tasks
  <2>8. BarsHold(v)
    BY <1>1, <2>7 DEF BarsHold
  <2>9. Sound(v) /\ Goes(p, v.todo)
    BY <1>1, <2>7, <2>8, SoundNow, RestSound
  <2>10. \A u \in Worker : task[u] \in Tasks /\ (task[u].todo = <<>> => task[u] = Idle)
    BY DEF ServiceInv, TaskTypes
  <2>11. Moved(w, v)
    <3>1. Settled(v) \in Tasks
      BY <2>7, SettledTask
    <3>2. \A u \in Worker : Lifted(task[u]) \in Tasks
      BY <2>3, <2>10
    <3>3. task' \in [Worker -> Tasks] /\ task'[w] = Settled(v)
          /\ \A u \in Worker \ {w} : task'[u] = Lifted(task[u])
      <4> HIDE DEF Lifted
      <4> QED BY <2>2, <3>1, <3>2
    <3> HIDE DEF Lifted
    <3> QED BY <2>3, <2>4, <2>10, <3>3 DEF Moved
  <2>12. \A u \in Worker : stance = "allow" => h \notin task'[u].barred
    <3> TAKE u \in Worker
    <3>1. CASE u = w
      <4>1. task'[u] \in {v, Idle}
        BY <2>2, <3>1 DEF Settled
      <4>2. Idle.barred = {}
        BY DEF Idle
      <4> QED BY <2>7, <4>1, <4>2
    <3>2. CASE u # w
      <4>1. task'[u] = Lifted(task[u])
        BY <2>2, <3>2
      <4> HIDE DEF Lifted
      <4> QED BY <2>3, <2>10, <4>1
    <3> QED BY <3>1, <3>2
  <2> HIDE DEF Lifted, h, stance
  <2>13. /\ DOMAIN mem' = Live /\ mem' \in [Live -> Memories]
         /\ \A g \in Live : /\ mem'[g].text = mem[g].text /\ mem'[g].kind = mem[g].kind
                            /\ mem'[g].made = mem[g].made
                            /\ mem'[g].stance = IF g = h THEN stance ELSE mem[g].stance
    <3> DEFINE New(m) == [m EXCEPT !.stance = stance]
    <3>1. \A m \in Memories : /\ New(m) \in Memories /\ New(m).text = m.text
                              /\ New(m).kind = m.kind /\ New(m).made = m.made
                              /\ New(m).stance = stance
      BY <2>1 DEF Memories, Stance
    <3>2. \A g \in Live : mem[g] \in Memories
      BY DEF ServiceInv, StoreTypes
    <3>3. mem = [g \in Live |-> mem[g]]
      BY DEF ServiceInv, StoreTypes
    <3>4. mem' = [g \in Live |-> IF g = h THEN New(mem[g]) ELSE mem[g]]
      BY <1>5, <2>2, <3>3
    <3> HIDE DEF New
    <3> QED BY <1>5, <3>1, <3>2, <3>4
  <2>14. StoreTypes' /\ RecordTypes' /\ Profiles' = Profiles
    BY <1>3, <2>13 DEF ServiceInv, StoreTypes, RecordTypes, Profiles, Live
  <2>15. StoreGrows
    <3>1. \A g \in Live : mem[g].stance = "deny" /\ mem'[g].stance # "deny" => g = h /\ stance = "allow"
      BY <2>1, <2>13
    <3> QED BY <1>3, <2>12, <2>13, <3>1 DEF StoreGrows
  <2>16. \A k \in Delivery, g \in Handle : counts'[k][g] <= counts[k][g]
    BY <1>3 DEF ServiceInv, RecordTypes
  <2>17. TaskTypes' /\ (AloneReplaces' => ServiceInv')
    BY <1>3, <2>7, <2>9, <2>11, <2>14, <2>15, <2>16, WritingKeeps
  <2>18. AloneReplaces'
    BY <2>7, <2>9, <2>11, <2>14, <2>17, AloneKept
  <2> QED BY <2>17, <2>18
<1> QED BY <1>4, <1>5
\* Whose next step is feedback has just marked its proposal.
LEMMA FeedbackNext ==
  ASSUME NEW p \in Seq(Steps), p # <<>>, ConsolidatesInOrder(p), Tail(p) # <<>>,
         Head(Tail(p)).do = "demote"
  PROVE  p[1].do = "applied" /\ Head(Tail(p)) = p[2] /\ Len(p) >= 2
<1>1. /\ Len(p) \in Nat \ {0} /\ Len(Tail(p)) = Len(p) - 1 /\ Tail(p) \in Seq(Steps)
      /\ \A i \in 1 .. Len(Tail(p)) : Tail(p)[i] = p[i + 1]
  BY Rest
<1>2. Len(Tail(p)) \in Nat \ {0} /\ Head(Tail(p)) = Tail(p)[1]
  BY <1>1, Rest
<1>3. Head(Tail(p)) = p[2] /\ 2 \in 1 .. Len(p)
  BY <1>1, <1>2
<1>4. p[2 - 1].do = "applied"
  BY <1>3 DEF ConsolidatesInOrder
<1> QED BY <1>3, <1>4

\* A mark that was the i-th step is the one after: what comes before it is known.
LEMMA MarkNext ==
  ASSUME NEW p \in Seq(Steps), p # <<>>, ConsolidatesInOrder(p), NEW i \in 1 .. 4,
         i \in 1 .. Len(Tail(p)), Tail(p)[i].do = "applied"
  PROVE  /\ i + 1 \in 1 .. Len(p) /\ p[i + 1].do = "applied"
         /\ Tail(p)[i + 1] = p[i + 2] /\ i + 2 <= Len(p) /\ Tail(p)[1] = p[2]
         /\ i = 1 => p[1].do = "look"
         /\ i = 2 => p[1].do = "describe"
         /\ i = 3 => p[1].do = "insert"
         /\ i = 4 => p[1].do = "propose" /\ p[1].group = p[6].group /\ p[1].text = p[2].text
<1> DEFINE q == Tail(p)
           j == i + 1
<1>1. /\ Len(p) \in Nat \ {0} /\ Len(q) = Len(p) - 1
      /\ \A n \in 1 .. Len(q) : q[n] = p[n + 1]
  BY Rest
<1>2. i \in 1 .. Len(q) /\ q[i].do = "applied"
  OBVIOUS
<1> HIDE DEF q
<1>3. j \in 1 .. Len(p) /\ p[j].do = "applied" /\ q[1] = p[2]
  BY <1>1, <1>2
<1>4. /\ j < Len(p)
      /\ j > 1 => p[j - 1].do = "look"
      /\ j > 2 => p[j - 2].do = "describe"
      /\ j > 3 => p[j - 3].do = "insert"
      /\ j > 4 => /\ p[j - 4].do = "propose"
                  /\ p[j - 4].group = p[j + 1].group /\ p[j - 4].text = p[j - 3].text
  <2> HIDE DEF j
  <2> QED BY <1>3 DEF ConsolidatesInOrder
<1>5. i + 1 \in 1 .. Len(q) /\ q[i + 1] = p[i + 2] /\ i + 2 <= Len(p)
  <2>1. i + 1 \in 1 .. Len(q) /\ i + 2 <= Len(p)
    BY <1>1, <1>4
  <2>2. q[i + 1] = p[(i + 1) + 1]
    BY <1>1, <2>1
  <2> QED BY <2>1, <2>2
<1>6. i = 1 => p[1].do = "look"
  BY <1>4
<1>7. i = 2 => p[1].do = "describe"
  BY <1>4
<1>8. i = 3 => p[1].do = "insert"
  BY <1>4
<1>9. i = 4 => p[1].do = "propose" /\ p[1].group = p[6].group /\ p[1].text = p[2].text
  <2> SUFFICES ASSUME i = 4
               PROVE  p[1].do = "propose" /\ p[1].group = p[6].group /\ p[1].text = p[2].text
    OBVIOUS
  <2>1. j = 5 /\ j > 4 /\ j - 4 = 1 /\ j - 3 = 2 /\ j + 1 = 6
    OBVIOUS
  <2> HIDE DEF j
  <2> QED BY <1>4, <2>1
<1> QED BY <1>3, <1>5, <1>6, <1>7, <1>8, <1>9 DEF q

\* The memory of a consolidation is the one its proposal waits for.
LEMMA InsertKeeps ==
  ASSUME ServiceInv, NEW w \in Worker, insert_memory(w)
  PROVE  ServiceInv'
<1> DEFINE s == [task[w] EXCEPT !.made = next]
           v == [s EXCEPT !.todo = Tail(@)]
           p == task[w].todo
           m == [kind |-> "session", user |-> FALSE, stance |-> "allow",
                 source |-> NoSource, text |-> Now(w).text, made |-> now]
<1>1. /\ p # <<>> /\ p[1].do = "insert" /\ task[w] \in Tasks /\ p \in Seq(Steps)
      /\ Now(w) = p[1] /\ p[1] \in Steps /\ BarsHold(task[w])
  BY AtHead DEF insert_memory
<1>2. /\ next <= MaxHandle /\ next' = next + 1 /\ Step(w, s)
      /\ mem' = [h \in Live \union {next} |-> IF h \in Live THEN mem[h] ELSE m]
      /\ UNCHANGED <<telemetry, dreams, budgets>>
  BY DEF insert_memory
<1>3. /\ now' = now /\ proposals' = proposals /\ demoted' = demoted
      /\ dreamt' = dreamt /\ events' = events /\ ops' = ops /\ failures' = failures
      /\ promised' = promised /\ prepared' = prepared /\ receipts' = receipts /\ counts' = counts
  BY <1>2 DEF dreams, budgets, telemetry
<1>4. /\ next \in Nat \ {0} /\ MaxHandle \in Nat /\ now \in 1 .. MaxTime
      /\ Live \subseteq 1 .. (next - 1) /\ next \notin Live /\ next \in Handle
  BY <1>2, ServiceAssumption DEF ServiceInv, StoreTypes, Handle
<1>5. /\ s \in Tasks /\ s.todo = p /\ s.counted = task[w].counted
      /\ s.answered = task[w].answered /\ s.made = next
      /\ s.mark = task[w].mark /\ s.alone = task[w].alone
      /\ s.stale = task[w].stale /\ s.beyond = task[w].beyond
      /\ s.ok = task[w].ok
      /\ s.hint = task[w].hint /\ s.back = task[w].back /\ s.orig = task[w].orig
      /\ s.barred = task[w].barred
  <2>1. next \in 0 .. MaxHandle
    BY <1>2, <1>4
  <2> QED BY <1>1, <2>1 DEF Tasks
<1> HIDE DEF s
<1>6. BarsHold(s)
  BY <1>1, <1>5 DEF BarsHold
<1>7. /\ v \in Tasks /\ v.todo = Tail(p) /\ BarsHold(v) /\ v.counted = task[w].counted
      /\ v.answered = task[w].answered /\ v.made = next
      /\ v.mark = task[w].mark /\ v.alone = task[w].alone
      /\ v.stale = task[w].stale /\ v.beyond = task[w].beyond
      /\ task' = [task EXCEPT ![w] = Settled(v)]
  <2>1. p # <<>> /\ s.todo = p /\ Step(w, s) /\ s \in Tasks /\ BarsHold(s)
    BY <1>1, <1>2, <1>5, <1>6
  <2>2. /\ v \in Tasks /\ v.todo = Tail(p) /\ BarsHold(v)
        /\ v.counted = s.counted /\ v.answered = s.answered /\ v.made = s.made
        /\ v.mark = s.mark /\ v.alone = s.alone /\ v.stale = s.stale /\ v.beyond = s.beyond
        /\ task' = [task EXCEPT ![w] = Settled(v)]
    BY <2>1, StepTask
  <2> HIDE DEF v
  <2> QED BY <1>5, <2>2
<1> HIDE DEF v
<1>8. Sound(v)
  BY <1>1, <1>7, SoundNow, RestSound
<1>9. Moved(w, v)
  BY <1>7, OneMoves DEF ServiceInv
<1>10. m \in Memories
  <2>1. p[1].text \in SUBSET Fact
    <3>1. p[1] \in InsertSteps
      BY <1>1, StepShapes
    <3> QED BY <3>1 DEF InsertSteps
  <2> QED BY <1>1, <1>4, <2>1, ServiceAssumption DEF Memories, Kind, Stance
<1>11. m.text = p[1].text /\ m.made = now /\ m.kind = "session"
  BY <1>1
<1> HIDE DEF m
<1>12. /\ DOMAIN mem' = Live \union {next} /\ mem'[next] = m
       /\ \A h \in Live : mem'[h] = mem[h]
  BY <1>2, <1>4
<1>13. StoreTypes'
  <2>1. mem' \in [Live \union {next} -> Memories]
    <3>1. \A h \in Live : mem[h] \in Memories
      BY DEF ServiceInv, StoreTypes
    <3> QED BY <1>2, <1>10, <3>1
  <2>2. Live \union {next} \subseteq 1 .. ((next + 1) - 1) /\ next + 1 \in 1 .. (MaxHandle + 1)
    BY <1>2, <1>4
  <2>3. \A h \in Live \union {next} : mem'[h].made <= now
    <3>1. \A h \in Live : mem'[h].made <= now
      BY <1>12 DEF ServiceInv, StoreTypes
    <3>2. mem'[next].made <= now
      BY <1>4, <1>11, <1>12
    <3> QED BY <3>1, <3>2
  <2>4. now \in 1 .. MaxTime
    BY <1>4
  <2>5. DOMAIN mem' = Live \union {next}
    BY <1>12
  <2> QED BY <1>2, <1>3, <2>1, <2>2, <2>3, <2>4, <2>5 DEF StoreTypes, Live
<1>14. RecordTypes'
  BY <1>3 DEF ServiceInv, RecordTypes
<1>15. StoreGrows
  BY <1>2, <1>12 DEF StoreGrows
<1>16. Profiles' = Profiles
  BY <1>4, <1>11, <1>12 DEF Profiles, Live
<1>17. /\ TaskTypes' /\ Programs' /\ \A u \in Worker : GroupsIn(task[u].todo)'
       /\ \A u \in Worker : u # w => task'[u].todo = task[u].todo /\ task'[u].made = task[u].made
       /\ task'[w].todo = v.todo /\ task'[w].counted = v.counted
       /\ v.todo # <<>> => task'[w] = v
  <2>1. now' \in Nat /\ now <= now' /\ v.mark <= now'
    BY <1>3, <1>4, <1>7 DEF ServiceInv, TaskTypes
  <2> QED BY <1>8, <1>9, <1>15, <2>1, TasksKept
<1>18. ReceiptsKept' /\ CountedOncePerRequest'
  <2>1. \A u \in Worker : task'[u].counted = task[u].counted
    BY <1>7, <1>9, <1>17 DEF Moved
  <2>2. \A k \in Delivery, h \in Handle : counts'[k][h] <= counts[k][h]
    BY <1>3 DEF ServiceInv, RecordTypes
  <2> QED BY <1>3, <1>14, <2>1, <2>2, RecordsKept
<1>19. AloneReplaces'
  <2>1. Drops(p, v.todo)
    BY <1>1, <1>7 DEF Drops
  <2> QED BY <1>7, <1>8, <1>9, <1>16, <1>17, <2>1, AloneKept
<1>20. ConsolidatesInOrder(p)
  BY DEF ServiceInv, Programs
<1>21. /\ \A x \in 1 .. (next - 1) : x \in 1 .. (next' - 1)
       /\ next \in 1 .. (next' - 1) /\ next \notin 1 .. (next - 1)
  <2>1. next' \in Nat /\ next <= next'
    BY <1>2, <1>4
  <2> QED BY <1>2, <1>4, <2>1, WiderInterval
<1>22. \A h \in 1 .. (next - 1) : h \in DOMAIN mem' => h \in Live /\ mem'[h] = mem[h]
  BY <1>12, <1>21
<1>23. GroupsExisted'
  <2>1. \A l \in 1 .. Len(proposals) : proposals[l].group \subseteq 1 .. (next' - 1)
    BY <1>21 DEF ServiceInv, GroupsExisted
  <2> QED BY <1>3, <1>17, <2>1 DEF GroupsExisted, GroupsIn
<1>24. FeedbackAccounted'
  <2>1. \A h \in Handle : Applied(h)' = Applied(h)
    BY <1>3 DEF Applied
  <2>2. \A h \in Handle : Demoting(h)' \subseteq Demoting(h)
    <3> SUFFICES ASSUME NEW u \in Worker, task'[u].todo # <<>>, Head(task'[u].todo).do = "demote"
                 PROVE  task'[u].todo = task[u].todo
      BY DEF Demoting, At, Now
    <3>1. CASE u # w
      BY <1>17, <3>1
    <3>2. CASE u = w
      <4>1. Tail(p) # <<>> /\ Head(Tail(p)).do = "demote"
        BY <1>7, <1>17, <3>2
      <4>2. p[1].do = "applied"
        BY <1>1, <1>20, <4>1, FeedbackNext
      <4> QED BY <1>1, <4>2
    <3> QED BY <3>1, <3>2
  <2> QED BY <1>3, <2>1, <2>2, FeedbackKept
<1>25. ASSUME NEW i \in 1 .. 4, AppliesNext(w, i)'
       PROVE  /\ i = 3 /\ AppliesNext(w, 4) /\ task'[w].made = next
              /\ task'[w].todo[i + 1].group = task[w].todo[5].group
  <2>1. i \in 1 .. Len(Tail(p)) /\ Tail(p)[i].do = "applied"
    BY <1>7, <1>17, <1>25 DEF AppliesNext
  <2>2. /\ i + 1 \in 1 .. Len(p) /\ p[i + 1].do = "applied"
        /\ Tail(p)[i + 1] = p[i + 2]
        /\ i = 1 => p[1].do = "look"
        /\ i = 2 => p[1].do = "describe"
        /\ i = 4 => p[1].do = "propose"
    BY SMTT(30), <1>1, <1>20, <2>1, MarkNext
  <2>3. i = 3
    BY <1>1, <2>2
  <2>4. v.todo # <<>>
    <3>1. Len(<<>>) = 0
      OBVIOUS
    <3> DEFINE q == Tail(p)
    <3>2. i \in 1 .. Len(q)
      BY <2>1
    <3> HIDE DEF q
    <3>3. q # <<>>
      BY <3>1, <3>2
    <3> QED BY <1>7, <3>3 DEF q
  <2>5. task'[w].made = next
    BY <1>7, <1>17, <2>4
  <2>6. AppliesNext(w, 4)
    BY <2>2, <2>3 DEF AppliesNext
  <2>7. task'[w].todo = Tail(p) /\ i + 2 = 5
    BY <1>7, <1>17, <2>3
  <2>8. task'[w].todo[i + 1] = task[w].todo[5]
    BY <2>2, <2>7
  <2> QED BY <2>3, <2>5, <2>6, <2>8
<1>26. \A u \in Worker : u # w => /\ HasMade(u)' = HasMade(u) /\ task'[u].made = task[u].made
                                  /\ \A i \in 1 .. 4 : AppliesNext(u, i)' = AppliesNext(u, i)
  BY <1>17 DEF HasMade, AppliesNext
<1>27. \A u \in Worker : HasMade(u) => task[u].made \in 1 .. (next - 1)
  <2> SUFFICES ASSUME NEW u \in Worker, NEW i \in 1 .. 3, AppliesNext(u, i)
               PROVE  task[u].made \in 1 .. (next - 1)
    BY DEF HasMade
  <2>1. i \in 1 .. 4 /\ i < 4
    OBVIOUS
  <2> QED BY <2>1 DEF ServiceInv, ProposalWaits
<1>28. HasMade(w)' => task'[w].made = next
  <2>1. \A i \in 1 .. 3 : i \in 1 .. 4
    OBVIOUS
  <2> QED BY <1>25, <2>1 DEF HasMade
<1>29. AppliedIsRemembered'
  <2>1. ASSUME NEW i \in DOMAIN proposals, proposals[i].status = "applied"
        PROVE  /\ proposals[i].made \in 1 .. (next' - 1) \ proposals[i].group
               /\ proposals[i].made \in DOMAIN mem' =>
                    mem'[proposals[i].made].text = proposals[i].text
               /\ \A j \in DOMAIN proposals :
                    j # i /\ proposals[j].status = "applied" => proposals[j].made # proposals[i].made
    <3>1. /\ proposals[i].made \in 1 .. (next - 1) \ proposals[i].group
          /\ proposals[i].made \in Live => mem[proposals[i].made].text = proposals[i].text
          /\ \A j \in DOMAIN proposals :
               j # i /\ proposals[j].status = "applied" => proposals[j].made # proposals[i].made
      BY <2>1 DEF ServiceInv, AppliedIsRemembered
    <3> QED BY <1>21, <1>22, <3>1
  <2> QED BY <1>3, <2>1 DEF AppliedIsRemembered, Live
<1>30. ASSUME NEW u \in Worker, NEW i \in 1 .. 4, AppliesNext(u, i)'
       PROVE  \E l \in 1 .. Len(proposals) :
           /\ IsLatest(u, l) /\ proposals[l].status = "proposed"
           /\ proposals[l].group = task'[u].todo[i + 1].group
           /\ i = 4 => proposals[l].text = task'[u].todo[1].text
           /\ i < 4 => /\ task'[u].made \in 1 .. (next' - 1) \ proposals[l].group
                       /\ task'[u].made \in DOMAIN mem' =>
                            mem'[task'[u].made].text = proposals[l].text
  <2>1. CASE u # w
    <3>1. AppliesNext(u, i) /\ task'[u].todo = task[u].todo /\ task'[u].made = task[u].made
      BY <1>17, <1>26, <1>30, <2>1
    <3>2. PICK l \in 1 .. Len(proposals) :
           /\ IsLatest(u, l) /\ proposals[l].status = "proposed"
           /\ proposals[l].group = task[u].todo[i + 1].group
           /\ i = 4 => proposals[l].text = task[u].todo[1].text
           /\ i < 4 => /\ task[u].made \in 1 .. (next - 1) \ proposals[l].group
                       /\ task[u].made \in Live => mem[task[u].made].text = proposals[l].text
      BY <3>1 DEF ServiceInv, ProposalWaits
    <3> QED BY <1>21, <1>22, <3>1, <3>2
  <2>2. CASE u = w
    <3>1. /\ i = 3 /\ AppliesNext(w, 4) /\ task'[w].made = next
          /\ task'[w].todo[i + 1].group = task[w].todo[5].group
      BY <1>25, <1>30, <2>2
    <3>2. PICK l \in 1 .. Len(proposals) :
           /\ IsLatest(w, l) /\ proposals[l].status = "proposed"
           /\ proposals[l].group = task[w].todo[4 + 1].group
           /\ proposals[l].text = task[w].todo[1].text
      BY <3>1 DEF ServiceInv, ProposalWaits
    <3>3. proposals[l].group \subseteq 1 .. (next - 1)
      BY <3>2 DEF ServiceInv, GroupsExisted
    <3>4. next \notin proposals[l].group
      BY <1>21, <3>3
    <3> QED BY <1>11, <1>12, <1>21, <2>2, <3>1, <3>2, <3>4
  <2> QED BY <2>1, <2>2
<1>31. ProposalWaits'
  <2>1. \A l \in 1 .. Len(proposals), u \in Worker : IsLatest(u, l)' = IsLatest(u, l)
    BY <1>3 DEF IsLatest
  <2>2. \A x, y \in Worker : HasMade(x)' /\ HasMade(y)' /\ task'[x].made = task'[y].made => x = y
    <3> SUFFICES ASSUME NEW x \in Worker, NEW y \in Worker, HasMade(x)', HasMade(y)',
                        task'[x].made = task'[y].made, x # y
                 PROVE  FALSE
      OBVIOUS
    <3>1. CASE x # w /\ y # w
      BY <1>26, <3>1 DEF ServiceInv, ProposalWaits
    <3>2. CASE x = w
      BY <1>21, <1>26, <1>27, <1>28, <3>2
    <3>3. CASE y = w
      BY <1>21, <1>26, <1>27, <1>28, <3>3
    <3> QED BY <3>1, <3>2, <3>3
  <2>3. \A u \in Worker, l \in 1 .. Len(proposals) :
          HasMade(u)' /\ proposals[l].status = "applied" => proposals[l].made # task'[u].made
    <3> SUFFICES ASSUME NEW u \in Worker, NEW l \in 1 .. Len(proposals),
                        HasMade(u)', proposals[l].status = "applied"
                 PROVE  proposals[l].made # task'[u].made
      OBVIOUS
    <3>1. CASE u # w
      BY <1>26, <3>1 DEF ServiceInv, ProposalWaits
    <3>2. CASE u = w
      <4>1. l \in DOMAIN proposals
        BY DEF ServiceInv, RecordTypes
      <4>2. proposals[l].made \in 1 .. (next - 1)
        BY <4>1 DEF ServiceInv, AppliedIsRemembered
      <4> QED BY <1>21, <1>28, <3>2, <4>2
    <3> QED BY <3>1, <3>2
  <2> HIDE DEF p
  <2>4. \A u \in Worker, i \in 1 .. 4 : AppliesNext(u, i)' =>
         \E l \in 1 .. Len(proposals') :
           /\ IsLatest(u, l)' /\ proposals'[l].status = "proposed"
           /\ proposals'[l].group = task'[u].todo[i + 1].group
           /\ i = 4 => proposals'[l].text = task'[u].todo[1].text
           /\ i < 4 => /\ task'[u].made \in 1 .. (next' - 1) \ proposals'[l].group
                       /\ task'[u].made \in DOMAIN mem' =>
                            mem'[task'[u].made].text = proposals'[l].text
    <3> TAKE u \in Worker, i \in 1 .. 4
    <3> HAVE AppliesNext(u, i)'
    <3> QED BY <1>3, <1>30, <2>1
  <2> QED BY <1>3, <2>2, <2>3, <2>4 DEF ProposalWaits, Live
<1> QED BY <1>13, <1>14, <1>17, <1>18, <1>19, <1>23, <1>24, <1>29, <1>31 DEF ServiceInv
-----------------------------------------------------------------------------
(* Turns that count and answer. *)

Holds(k, h, keyed) == {w \in Worker : <<k, h, keyed>> \in task[w].counted}
Retried(k, h) == <<k, h>> \in promised \/ Holds(k, h, TRUE) # {}
CountedOnce(k, h) ==
  counts[k][h] <= prepared[k][h] + Cardinality(Holds(k, h, FALSE))
                    + (IF Retried(k, h) THEN 1 ELSE 0)

LEMMA CountedOnceEach ==
  /\ CountedOncePerRequest <=> \A k \in Delivery, h \in Handle : CountedOnce(k, h)
  /\ CountedOncePerRequest' <=> \A k \in Delivery, h \in Handle : CountedOnce(k, h)'
<1>1. CountedOncePerRequest <=> \A k \in Delivery, h \in Handle : CountedOnce(k, h)
  BY DEF CountedOncePerRequest, CountedOnce, Holds, Retried
<1>2. CountedOncePerRequest' <=> \A k \in Delivery, h \in Handle : CountedOnce(k, h)'
  BY DEF CountedOncePerRequest, CountedOnce, Holds, Retried
<1> QED BY <1>1, <1>2

\* Whoever answers or dies leaves what it counted to what was prepared or promised.
LEMMA KeepKeeps ==
  ASSUME ServiceInv, NEW w \in Worker, Keep(task[w]), task'[w].counted = {},
         \A u \in Worker \ {w} : task'[u].counted = task[u].counted,
         counts' = counts, receipts' = receipts
  PROVE  /\ ReceiptsKept' /\ CountedOncePerRequest'
         /\ prepared' \in [Delivery -> [Handle -> Nat]] /\ promised' \subseteq Delivery \X Handle
<1>1. /\ prepared \in [Delivery -> [Handle -> Nat]] /\ promised \subseteq Delivery \X Handle
      /\ counts \in [Delivery -> [Handle -> Nat]]
      /\ promised \subseteq receipts
      /\ \A u \in Worker, k \in Delivery, h \in Handle :
           <<k, h, TRUE>> \in task[u].counted => <<k, h>> \in receipts
  BY DEF ServiceInv, RecordTypes, ReceiptsKept
<1>2. /\ prepared' = [k \in Delivery |-> [h \in Handle |->
           prepared[k][h] + (IF <<k, h, FALSE>> \in task[w].counted THEN 1 ELSE 0)]]
      /\ promised' = promised \union
           {d \in Delivery \X Handle : <<d[1], d[2], TRUE>> \in task[w].counted}
  BY DEF Keep
<1>3. /\ prepared' \in [Delivery -> [Handle -> Nat]]
      /\ \A k \in Delivery, h \in Handle :
           prepared'[k][h] = prepared[k][h] + (IF <<k, h, FALSE>> \in task[w].counted THEN 1 ELSE 0)
  <2> DEFINE Add(k, h) == IF <<k, h, FALSE>> \in task[w].counted THEN 1 ELSE 0
  <2>1. \A k \in Delivery, h \in Handle : Add(k, h) \in Nat
    OBVIOUS
  <2>2. prepared' = [k \in Delivery |-> [h \in Handle |-> prepared[k][h] + Add(k, h)]]
    BY <1>2
  <2> HIDE DEF Add
  <2>3. \A k \in Delivery, h \in Handle : prepared[k][h] + Add(k, h) \in Nat
    BY <1>1, <2>1
  <2>4. \A k \in Delivery, h \in Handle : prepared'[k][h] = prepared[k][h] + Add(k, h)
    BY <2>2
  <2>5. prepared' \in [Delivery -> [Handle -> Nat]]
    BY <2>2, <2>3
  <2> QED BY <2>4, <2>5 DEF Add
<1>4. /\ promised' \subseteq Delivery \X Handle
      /\ promised \subseteq promised'
      /\ \A k \in Delivery, h \in Handle : <<k, h, TRUE>> \in task[w].counted => <<k, h>> \in promised'
  <2> DEFINE C == {d \in Delivery \X Handle : <<d[1], d[2], TRUE>> \in task[w].counted}
  <2>1. C \subseteq Delivery \X Handle
    OBVIOUS
  <2>2. \A k \in Delivery, h \in Handle : <<k, h, TRUE>> \in task[w].counted => <<k, h>> \in C
    OBVIOUS
  <2>3. promised' = promised \union C
    BY <1>2
  <2> HIDE DEF C
  <2> QED BY <1>1, <2>1, <2>2, <2>3
<1>5. ReceiptsKept'
  <2>1. promised' \subseteq receipts
    <3> SUFFICES ASSUME NEW d \in Delivery \X Handle, <<d[1], d[2], TRUE>> \in task[w].counted
                 PROVE  d \in receipts
      BY <1>1, <1>2
    <3>1. d[1] \in Delivery /\ d[2] \in Handle /\ d = <<d[1], d[2]>>
      OBVIOUS
    <3> QED BY <1>1, <3>1
  <2>2. \A u \in Worker, k \in Delivery, h \in Handle :
           <<k, h, TRUE>> \in task'[u].counted => <<k, h>> \in receipts
    BY <1>1
  <2> QED BY <2>1, <2>2 DEF ReceiptsKept
<1>6. ASSUME NEW k \in Delivery, NEW h \in Handle
      PROVE  CountedOnce(k, h)'
  <2> DEFINE H == Holds(k, h, FALSE)
             G == Holds(k, h, FALSE)'
  <2>1. G = H \ {w} /\ (w \in H <=> <<k, h, FALSE>> \in task[w].counted) /\ H \in SUBSET Worker
    BY DEF Holds
  <2>2. Retried(k, h) => Retried(k, h)'
    <3>1. CASE <<k, h>> \in promised
      BY <1>4, <3>1 DEF Retried
    <3>2. CASE <<k, h, TRUE>> \in task[w].counted
      BY <1>4, <3>2 DEF Retried
    <3>3. ASSUME NEW u \in Worker \ {w}, <<k, h, TRUE>> \in task[u].counted
          PROVE  Retried(k, h)'
      <4>1. u \in Holds(k, h, TRUE)'
        BY <3>3 DEF Holds
      <4> QED BY <4>1 DEF Retried
    <3> QED BY <3>1, <3>2, <3>3 DEF Retried, Holds
  <2>3. CountedOnce(k, h)
    BY CountedOnceEach DEF ServiceInv
  <2>4. counts[k][h] \in Nat /\ prepared[k][h] \in Nat /\ prepared'[k][h] \in Nat
    BY <1>1, <1>3
  <2> DEFINE c == Cardinality(H)
             d == Cardinality(G)
  <2>5. counts[k][h] <= prepared[k][h] + c + (IF Retried(k, h) THEN 1 ELSE 0)
    BY <2>3 DEF CountedOnce
  <2> HIDE DEF H, G
  <2>6. c \in Nat /\ d = IF w \in H THEN c - 1 ELSE c
    <3>1. IsFiniteSet(H) /\ c \in Nat
      BY <2>1, HoldersFinite
    <3>2. CASE w \in H
      BY <2>1, <3>1, <3>2, FS_RemoveElement
    <3>3. CASE w \notin H
      <4>1. G = H
        BY <2>1, <3>3
      <4> QED BY <3>1, <3>3, <4>1
    <3> QED BY <3>1, <3>2, <3>3
  <2>7. prepared'[k][h] + d = prepared[k][h] + c
    <3> HIDE DEF c, d
    <3>1. prepared'[k][h] = prepared[k][h] + (IF w \in H THEN 1 ELSE 0)
      BY <1>3, <2>1
    <3> QED BY <2>4, <2>6, <3>1
  <2>8. d \in Nat
    <3>1. G \in SUBSET Worker
      BY <2>1
    <3> QED BY <3>1, HoldersFinite
  <2> HIDE DEF c, d
  <2>9. counts'[k][h] <= prepared'[k][h] + d + (IF Retried(k, h)' THEN 1 ELSE 0)
    BY <2>2, <2>4, <2>5, <2>6, <2>7, <2>8
  <2> QED BY <2>9 DEF CountedOnce, d, G
<1>7. CountedOncePerRequest'
  BY <1>6, CountedOnceEach
<1> QED BY <1>3, <1>4, <1>5, <1>7

LEMMA IdleSound == Sound(Idle) /\ NotYet(Idle.todo) /\ Idle.mark = 0 /\ ~Idle.alone
<1>1. Idle \in Tasks /\ Idle.todo = <<>> /\ CountsAndAnswers(Idle) /\ InOrder(Idle.todo)
  BY IdleTask
<1>2. BarsHold(Idle)
  BY DEF BarsHold, Idle
<1>3. GroupsIn(<<>>) /\ NotYet(<<>>)
  BY DEF GroupsIn, NotYet
<1>4. Idle.mark = 0 /\ ~Idle.alone
  BY DEF Idle
<1> QED BY <1>1, <1>2, <1>3, <1>4 DEF Sound

\* A turn that answers or dies.
LEMMA EndingKeeps ==
  ASSUME ServiceInv, NEW w \in Worker, NEW v, Moved(w, v), Sound(v),
         Goes(task[w].todo, v.todo), v.counted = {}, v.todo # <<>> => v.made = task[w].made,
         v.mark <= now,
         v.alone => task[w].alone /\ v.stale = task[w].stale /\ v.beyond = task[w].beyond,
         Keep(task[w]), now' = now,
         UNCHANGED <<store, counts, receipts, proposals, demoted, events>>,
         dreamt' \in 0 .. now, ops' \in Nat, failures' \in Nat
  PROVE  ServiceInv'
<1>1. StoreTypes' /\ Profiles' = Profiles
  BY DEF ServiceInv, StoreTypes, Profiles, Live, store
<1>2. StoreGrows
  BY DEF StoreGrows, store, Live
<1>3. now' \in Nat /\ now <= now' /\ v.mark <= now'
  BY DEF ServiceInv, StoreTypes
<1>4. /\ TaskTypes' /\ Programs' /\ \A u \in Worker : GroupsIn(task[u].todo)'
      /\ task'[w].counted = v.counted
  BY <1>2, <1>3, TasksKept
<1>5. /\ ReceiptsKept' /\ CountedOncePerRequest'
      /\ prepared' \in [Delivery -> [Handle -> Nat]] /\ promised' \subseteq Delivery \X Handle
  <2>1. task'[w].counted = {} /\ \A u \in Worker \ {w} : task'[u].counted = task[u].counted
    BY <1>4 DEF Moved
  <2> QED BY <2>1, KeepKeeps
<1>6. RecordTypes'
  BY <1>5 DEF ServiceInv, RecordTypes
<1>7. GroupsExisted' /\ ProposalWaits' /\ AppliedIsRemembered' /\ FeedbackAccounted'
  BY <1>2, <1>4, DreamsKept
<1>8. AloneReplaces'
  BY <1>1, <1>4, AloneKept
<1> QED BY <1>1, <1>4, <1>5, <1>6, <1>7, <1>8 DEF ServiceInv

LEMMA DiesKeeps ==
  ASSUME ServiceInv, NEW w \in Worker, Dies(w)
  PROVE  ServiceInv'
<1>1. /\ Keep(task[w]) /\ task' = [task EXCEPT ![w] = Idle] /\ dreamt' \in {0, dreamt}
      /\ failures' = failures + 1
      /\ UNCHANGED <<now, ops, store, counts, receipts, proposals, demoted, events>>
  BY DEF Dies
<1>2. Sound(Idle) /\ NotYet(Idle.todo) /\ Idle.mark = 0 /\ ~Idle.alone
  BY IdleSound
<1>3. Idle \in Tasks /\ Idle.todo = <<>> /\ Idle.counted = {}
  BY IdleTask
<1>4. Moved(w, Idle)
  <2>1. Settled(Idle) = Idle
    BY <1>3 DEF Settled
  <2> QED BY <1>1, <1>3, <2>1, OneMoves DEF ServiceInv
<1>5. Goes(task[w].todo, Idle.todo)
  BY <1>2, <1>3 DEF Goes
<1>6. now' = now /\ dreamt' \in 0 .. now /\ ops' \in Nat /\ failures' \in Nat /\ Idle.mark <= now
  <2>1. now \in Nat /\ dreamt \in 0 .. now /\ ops \in Nat /\ failures \in Nat
    BY DEF ServiceInv, StoreTypes, RecordTypes
  <2> QED BY <1>1, <1>2, <2>1
<1> HIDE DEF Idle
<1> QED BY <1>1, <1>2, <1>3, <1>4, <1>5, <1>6, EndingKeeps
\* A program that is about to count, or to answer, is at its end.
LEMMA CountsNow ==
  ASSUME NEW t \in Tasks, t.todo # <<>>, CountsAndAnswers(t), t.todo[1].do \in {"count", "answer"}
  PROVE  \/ t.todo[1].do = "answer" /\ t.counted = {} /\ NeverCounts(t.todo)
         \/ Ends(t, Len(t.todo), t.todo[1], t.todo[2], t.todo[3])
<1>1. Len(t.todo) \in Nat \ {0}
  <2>1. t.todo \in Seq(Steps)
    BY DEF Tasks
  <2> QED BY <2>1, Rest
<1>2. CASE t.counted = {} /\ NeverCounts(t.todo)
  BY <1>1, <1>2 DEF NeverCounts
<1>3. ASSUME NEW n \in 0 .. Len(t.todo), \A i \in 1 .. n : t.todo[i].do \in Reads, Closes(t, n)
      PROVE  Ends(t, Len(t.todo), t.todo[1], t.todo[2], t.todo[3])
  <2>1. n = 0
    <3>1. n # 0 => 1 \in 1 .. n
      OBVIOUS
    <3> QED BY <1>3, <3>1 DEF Reads
  <2>2. /\ Len(t.todo) - 0 = Len(t.todo) /\ 0 + 1 = 1 /\ 0 + 2 = 2 /\ 0 + 3 = 3
    BY <1>1
  <2> QED BY <1>3, <2>1, <2>2 DEF Closes
<1> QED BY <1>2, <1>3 DEF CountsAndAnswers

\* What follows the counting and the answer is in order.
LEMMA EndingSound ==
  ASSUME NEW t, Sound(t), t.todo # <<>>, t.todo[1].do \in {"count", "answer"},
         NEW v \in Tasks, BarsHold(v), v.todo = Tail(t.todo), CountsAndAnswers(v)
  PROVE  Sound(v) /\ Goes(t.todo, v.todo)
<1>1. t \in Tasks /\ t.todo \in Seq(Steps) /\ InOrder(t.todo) /\ GroupsIn(t.todo)
  BY DEF Sound, Tasks
<1>2. Steady(t.todo)
  BY <1>1, SteadyFrom DEF Consolidation
<1>3. Steady(v.todo) /\ v.todo \in Seq(Steps) /\ GroupsIn(v.todo)
  BY <1>1, <1>2, Rest, SteadyRest, GroupsRest
<1> QED BY <1>3, SteadyInOrder, SteadyGoes DEF Sound

LEMMA AnswerKeeps ==
  ASSUME ServiceInv, NEW w \in Worker, Answer_(w)
  PROVE  ServiceInv'
<1> DEFINE t == task[w]
           s == [t EXCEPT !.answered = TRUE, !.counted = {}]
           v == [s EXCEPT !.todo = Tail(@)]
           p == t.todo
<1>1. /\ p # <<>> /\ p[1].do = "answer" /\ t \in Tasks /\ p \in Seq(Steps) /\ BarsHold(t)
  BY AtHead DEF Answer_
<1>2. /\ Keep(t) /\ Step(w, s)
      /\ UNCHANGED <<store, counts, receipts, dreams, budgets>>
  BY DEF Answer_
<1>3. /\ s \in Tasks /\ s.todo = p /\ s.counted = {} /\ s.answered = TRUE /\ s.made = t.made
      /\ s.mark = t.mark /\ s.alone = t.alone
      /\ s.stale = t.stale /\ s.beyond = t.beyond
      /\ s.ok = t.ok /\ s.hint = t.hint
      /\ s.back = t.back /\ s.orig = t.orig /\ s.barred = t.barred
  BY <1>1 DEF Tasks
<1> HIDE DEF s
<1>4. BarsHold(s)
  BY <1>1, <1>3 DEF BarsHold
<1>5. /\ v \in Tasks /\ v.todo = Tail(p) /\ BarsHold(v) /\ v.counted = {}
      /\ v.answered = TRUE /\ v.made = t.made /\ v.mark = t.mark /\ v.alone = t.alone
      /\ v.stale = t.stale /\ v.beyond = t.beyond
      /\ task' = [task EXCEPT ![w] = Settled(v)]
  <2>1. p # <<>> /\ s.todo = p /\ Step(w, s) /\ s \in Tasks /\ BarsHold(s)
    BY <1>1, <1>2, <1>3, <1>4
  <2>2. /\ v \in Tasks /\ v.todo = Tail(p) /\ BarsHold(v)
        /\ v.counted = s.counted /\ v.answered = s.answered /\ v.made = s.made
        /\ v.mark = s.mark /\ v.alone = s.alone /\ v.stale = s.stale /\ v.beyond = s.beyond
        /\ task' = [task EXCEPT ![w] = Settled(v)]
    BY <2>1, StepTask
  <2> HIDE DEF v
  <2> QED BY <1>3, <2>2
<1> HIDE DEF v
<1>6. Sound(t) /\ CountsAndAnswers(t)
  BY SoundNow DEF Sound
<1>7. CountsAndAnswers(v)
  <2>1. /\ Len(p) \in Nat \ {0} /\ Len(v.todo) = Len(p) - 1
        /\ \A i \in 1 .. Len(v.todo) : v.todo[i] = p[i + 1]
    BY <1>1, <1>5, Rest
  <2>2. CASE NeverCounts(p)
    <3>1. NeverCounts(v.todo)
      BY <1>1, <1>5, <2>2, NeverCountsRest
    <3> QED BY <1>5, <3>1 DEF CountsAndAnswers
  <2>3. CASE Ends(t, Len(p), p[1], p[2], p[3])
    <3>1. Len(p) = 1 \/ (Len(p) = 2 /\ p[2].do = "count")
      BY <1>1, <2>3 DEF Ends
    <3>2. CASE Len(p) = 1
      <4>1. NeverCounts(v.todo)
        BY <2>1, <3>2 DEF NeverCounts
      <4> QED BY <1>5, <4>1 DEF CountsAndAnswers
    <3>3. CASE Len(p) = 2 /\ p[2].do = "count"
      <4>1. Len(v.todo) = 1 /\ v.todo[1].do = "count"
        BY <2>1, <3>3
      <4>2. Ends(v, 1, v.todo[1], v.todo[2], v.todo[3])
        BY <1>5, <4>1 DEF Ends
      <4>3. Len(v.todo) - 0 = 1 /\ 0 + 1 = 1 /\ 0 + 2 = 2 /\ 0 + 3 = 3
        BY <4>1
      <4>4. Closes(v, 0)
        BY <4>2, <4>3 DEF Closes
      <4>5. 0 \in 0 .. Len(v.todo) /\ 1 .. 0 = {}
        BY <4>1
      <4> QED BY <4>4, <4>5 DEF CountsAndAnswers
    <3> QED BY <3>1, <3>2, <3>3
  <2> QED BY <1>1, <1>6, <2>2, <2>3, CountsNow
<1>8. Sound(v) /\ Goes(p, v.todo)
  BY <1>1, <1>5, <1>6, <1>7, EndingSound
<1>9. Moved(w, v)
  BY <1>5, OneMoves DEF ServiceInv
<1>10. /\ now' = now /\ proposals' = proposals /\ demoted' = demoted /\ events' = events
       /\ dreamt' = dreamt /\ ops' = ops /\ failures' = failures
  BY <1>2 DEF dreams, budgets
<1>11. /\ UNCHANGED <<store, counts, receipts, proposals, demoted, events>>
       /\ dreamt' \in 0 .. now /\ ops' \in Nat /\ failures' \in Nat /\ v.mark <= now
  BY <1>2, <1>5, <1>10 DEF ServiceInv, RecordTypes, TaskTypes
<1> QED BY <1>2, <1>5, <1>8, <1>9, <1>10, <1>11, EndingKeeps

\* A turn that counts for an answer.
LEMMA CountingKeeps ==
  ASSUME ServiceInv, NEW w \in Worker, NEW v, Moved(w, v), Sound(v),
         Goes(task[w].todo, v.todo), v.made = task[w].made,
         v.mark = task[w].mark,
         v.alone => task[w].alone /\ v.stale = task[w].stale /\ v.beyond = task[w].beyond,
         UNCHANGED <<store, promised, dreams, budgets>>, RecordTypes',
         ReceiptsKept', CountedOncePerRequest'
  PROVE  ServiceInv'
<1>1. StoreTypes' /\ Profiles' = Profiles
  BY DEF ServiceInv, StoreTypes, Profiles, Live, store, budgets
<1>2. StoreGrows
  BY DEF StoreGrows, store, Live
<1>3. proposals' = proposals /\ demoted' = demoted /\ now' = now
  BY DEF dreams, budgets
<1>4. now' \in Nat /\ now <= now' /\ v.mark <= now'
  BY <1>3 DEF ServiceInv, StoreTypes, TaskTypes
<1>5. TaskTypes' /\ Programs' /\ \A u \in Worker : GroupsIn(task[u].todo)'
  BY <1>2, <1>4, TasksKept
<1>6. GroupsExisted' /\ ProposalWaits' /\ AppliedIsRemembered' /\ FeedbackAccounted'
  BY <1>2, <1>3, <1>5, DreamsKept
<1>7. AloneReplaces'
  BY <1>1, <1>5, AloneKept
<1> QED BY <1>1, <1>5, <1>6, <1>7 DEF ServiceInv
\* What is counted is prepared, held by the worker, or receipted.
LEMMA RecordKeeps ==
  ASSUME ServiceInv, NEW w \in Worker, record(w)
  PROVE  ServiceInv'
<1> DEFINE t == task[w]
           p == t.todo
           kind == Now(w).kind
           keyed == Now(w).keyed
           hs == Fresh(kind, Shown(t, Now(w).of), keyed)
           One(h) == IF h \in hs THEN 1 ELSE 0
           new == {<<kind, h, keyed>> : h \in hs}
           s == [t EXCEPT !.counted = @ \union new]
           v == [s EXCEPT !.todo = Tail(@)]
           u == [t EXCEPT !.todo = Tail(@)]
<1>1. /\ p # <<>> /\ p[1].do = "count" /\ t \in Tasks /\ p \in Seq(Steps) /\ BarsHold(t)
      /\ Now(w) = p[1] /\ p[1] \in Steps /\ Live \in SUBSET Handle
  BY AtHead DEF record
<1>2. kind \in Delivery /\ keyed \in BOOLEAN
  <2>1. p[1] \in CountSteps
    BY <1>1, StepShapes
  <2> QED BY <1>1, <2>1 DEF CountSteps
<1>3. hs \in SUBSET Handle /\ \A h \in hs : ~keyed \/ <<kind, h>> \notin receipts
  BY <1>1 DEF Fresh
<1>4. UNCHANGED <<store, promised, dreams, budgets>>
  BY DEF record
<1>5. /\ counts' = [counts EXCEPT ![kind] = [h \in Handle |-> @[h] + One(h)]]
      /\ receipts' = IF keyed THEN receipts \union {<<kind, h>> : h \in hs} ELSE receipts
      /\ IF t.answered
         THEN /\ prepared' = [prepared EXCEPT ![kind] = [h \in Handle |-> @[h] + One(h)]]
              /\ Done(w)
         ELSE Step(w, s) /\ prepared' = prepared
  BY DEF record
<1>6. \A h \in Handle : One(h) \in Nat /\ (h \in hs => One(h) = 1) /\ (h \notin hs => One(h) = 0)
  OBVIOUS
<1> HIDE DEF hs, kind, keyed, One
<1>7. /\ counts \in [Delivery -> [Handle -> Nat]] /\ prepared \in [Delivery -> [Handle -> Nat]]
      /\ receipts \subseteq Delivery \X Handle /\ promised \subseteq Delivery \X Handle
      /\ promised \subseteq receipts
      /\ \A x \in Worker, k \in Delivery, h \in Handle :
           <<k, h, TRUE>> \in task[x].counted => <<k, h>> \in receipts
  BY DEF ServiceInv, RecordTypes, ReceiptsKept
<1> DEFINE Raised(c) == [c EXCEPT ![kind] = [h \in Handle |-> @[h] + One(h)]]
<1>8. \A c \in [Delivery -> [Handle -> Nat]] :
        /\ Raised(c) \in [Delivery -> [Handle -> Nat]]
        /\ \A k \in Delivery, h \in Handle :
             Raised(c)[k][h] = IF k = kind THEN c[k][h] + One(h) ELSE c[k][h]
  <2> TAKE c \in [Delivery -> [Handle -> Nat]]
  <2> DEFINE f == [h \in Handle |-> c[kind][h] + One(h)]
  <2>1. \A h \in Handle : c[kind][h] + One(h) \in Nat
    BY <1>2, <1>6
  <2>2. f \in [Handle -> Nat] /\ \A h \in Handle : f[h] = c[kind][h] + One(h)
    BY <2>1
  <2>3. Raised(c) = [c EXCEPT ![kind] = f]
    OBVIOUS
  <2> HIDE DEF f, Raised
  <2> QED BY <1>2, <2>2, <2>3
<1>9. /\ counts' = Raised(counts)
      /\ t.answered => prepared' = Raised(prepared)
      /\ ~t.answered => prepared' = prepared
  BY <1>5
<1> HIDE DEF Raised
<1>10. /\ counts' \in [Delivery -> [Handle -> Nat]] /\ prepared' \in [Delivery -> [Handle -> Nat]]
       /\ \A k \in Delivery, h \in Handle :
            /\ counts'[k][h] = IF k = kind THEN counts[k][h] + One(h) ELSE counts[k][h]
            /\ prepared'[k][h] = IF t.answered /\ k = kind THEN prepared[k][h] + One(h)
                                                          ELSE prepared[k][h]
  <2>1. t.answered \in BOOLEAN
    BY <1>1 DEF Tasks
  <2> QED BY <1>7, <1>8, <1>9, <2>1
<1>11. /\ receipts' \subseteq Delivery \X Handle /\ receipts \subseteq receipts'
       /\ keyed => \A h \in hs : <<kind, h>> \in receipts'
  BY <1>2, <1>3, <1>5, <1>7
<1>12. RecordTypes'
  BY <1>4, <1>10, <1>11 DEF ServiceInv, RecordTypes, dreams, budgets
<1>13. Sound(t) /\ CountsAndAnswers(t)
  BY SoundNow DEF Sound
<1>14. Ends(t, Len(p), p[1], p[2], p[3])
  BY <1>1, <1>13, CountsNow
<1>15. promised' = promised
  BY <1>4
<1>16. CASE t.answered
  <2>1. Len(p) = 1 /\ t.counted = {}
    BY <1>1, <1>14, <1>16 DEF Ends
  <2>2. Done(w)
    BY <1>5, <1>16
  <2>3. Step(w, t)
    BY <2>2 DEF Done
  <2>4. /\ u \in Tasks /\ u.todo = Tail(p) /\ BarsHold(u) /\ u.counted = t.counted
        /\ u.answered = t.answered /\ u.made = t.made /\ u.mark = t.mark /\ u.alone = t.alone
        /\ u.stale = t.stale /\ u.beyond = t.beyond
        /\ task' = [task EXCEPT ![w] = Settled(u)]
    BY ZenonT(60), <1>1, <2>3, StepTask
  <2> HIDE DEF u
  <2>5. Len(u.todo) = 0
    BY <1>1, <2>1, <2>4, Rest
  <2>6. CountsAndAnswers(u)
    <3>1. u.counted = {}
      BY <2>1, <2>4
    <3>2. NeverCounts(u.todo)
      BY <2>5 DEF NeverCounts
    <3> QED BY <3>1, <3>2 DEF CountsAndAnswers
  <2>7. Sound(u) /\ Goes(p, u.todo)
    BY <1>1, <1>13, <2>4, <2>6, EndingSound
  <2>8. Moved(w, u)
    BY <2>4, OneMoves DEF ServiceInv
  <2>9. \A x \in Worker : task'[x].counted = task[x].counted
    <3>1. task'[w].counted = {}
      BY <2>1, <2>4, <2>6, <2>8, SettledTask DEF Moved
    <3> QED BY <2>1, <2>8, <3>1 DEF Moved
  <2>10. ReceiptsKept'
    BY <1>7, <1>11, <1>15, <2>9 DEF ReceiptsKept
  <2>11. ASSUME NEW k \in Delivery, NEW h \in Handle
         PROVE  CountedOnce(k, h)'
    <3>1. Holds(k, h, TRUE)' = Holds(k, h, TRUE) /\ Holds(k, h, FALSE)' = Holds(k, h, FALSE)
      BY <2>9 DEF Holds
    <3>2. Retried(k, h)' = Retried(k, h)
      BY <1>15, <3>1 DEF Retried
    <3>3. CountedOnce(k, h)
      BY CountedOnceEach DEF ServiceInv
    <3> DEFINE c == Cardinality(Holds(k, h, FALSE))
               r == IF Retried(k, h) THEN 1 ELSE 0
    <3>4. counts[k][h] <= prepared[k][h] + c + r
      BY <3>3 DEF CountedOnce
    <3>5. c \in Nat /\ r \in Nat
      <4>1. Holds(k, h, FALSE) \in SUBSET Worker
        BY DEF Holds
      <4> QED BY <4>1, HoldersFinite
    <3> HIDE DEF c, r
    <3>6. counts[k][h] \in Nat /\ prepared[k][h] \in Nat /\ One(h) \in Nat
      BY <1>6, <1>7
    <3>7. counts'[k][h] <= prepared'[k][h] + c + r
      BY <1>10, <1>16, <3>4, <3>5, <3>6
    <3> QED BY <3>1, <3>2, <3>7 DEF CountedOnce, c, r
  <2>12. CountedOncePerRequest'
    BY <2>11, CountedOnceEach
  <2> QED BY <1>4, <1>12, <2>4, <2>7, <2>8, <2>10, <2>12, CountingKeeps
<1>17. CASE ~t.answered
  <2>1. new \subseteq Delivery \X Handle \X BOOLEAN
    BY <1>2, <1>3
  <2>2. \A k \in Delivery, h \in Handle, b \in BOOLEAN :
          <<k, h, b>> \in new <=> k = kind /\ h \in hs /\ b = keyed
    OBVIOUS
  <2> HIDE DEF new
  <2>3. /\ s \in Tasks /\ s.todo = p /\ s.counted = t.counted \union new
        /\ s.answered = t.answered /\ s.made = t.made
        /\ s.mark = t.mark /\ s.alone = t.alone
        /\ s.stale = t.stale /\ s.beyond = t.beyond
        /\ s.ok = t.ok /\ s.hint = t.hint
        /\ s.back = t.back /\ s.orig = t.orig /\ s.barred = t.barred
    BY <1>1, <2>1 DEF Tasks
  <2>4. Step(w, s)
    BY <1>5, <1>17
  <2> HIDE DEF s
  <2>5. BarsHold(s)
    BY <1>1, <2>3 DEF BarsHold
  <2>6. /\ v \in Tasks /\ v.todo = Tail(p) /\ BarsHold(v) /\ v.counted = t.counted \union new
        /\ v.answered = t.answered /\ v.made = t.made /\ v.mark = t.mark /\ v.alone = t.alone
        /\ v.stale = t.stale /\ v.beyond = t.beyond
        /\ task' = [task EXCEPT ![w] = Settled(v)]
    <3>1. p # <<>> /\ s.todo = p /\ Step(w, s) /\ s \in Tasks /\ BarsHold(s)
      BY <1>1, <2>3, <2>4, <2>5
    <3>2. /\ v \in Tasks /\ v.todo = Tail(p) /\ BarsHold(v)
          /\ v.counted = s.counted /\ v.answered = s.answered /\ v.made = s.made
          /\ v.mark = s.mark /\ v.alone = s.alone /\ v.stale = s.stale /\ v.beyond = s.beyond
          /\ task' = [task EXCEPT ![w] = Settled(v)]
      BY <3>1, StepTask
    <3> HIDE DEF v
    <3> QED BY <2>3, <3>2
  <2> HIDE DEF v
  <2>7. \/ /\ Len(p) = 2 /\ p[2].do = "answer"
           /\ IF keyed THEN ~Unkeyed(t) ELSE t.counted = {}
        \/ Len(p) = 3 /\ p[2].do = "count" /\ p[3].do = "answer" /\ keyed /\ p[2].keyed /\ t.counted = {}
    BY <1>1, <1>14, <1>17 DEF Ends, keyed
  <2>8. /\ Len(v.todo) = Len(p) - 1 /\ \A i \in 1 .. Len(v.todo) : v.todo[i] = p[i + 1]
        /\ Len(p) \in Nat
    BY <1>1, <2>6, Rest
  <2>9. CountsAndAnswers(v)
    <3>1. Ends(v, Len(v.todo), v.todo[1], v.todo[2], v.todo[3])
      <4>1. CASE Len(p) = 2 /\ p[2].do = "answer"
        <5>1. Len(v.todo) = 1 /\ v.todo[1].do = "answer"
          BY <2>8, <4>1
        <5> QED BY <5>1 DEF Ends
      <4>2. CASE Len(p) = 3 /\ p[2].do = "count" /\ p[3].do = "answer" /\ keyed /\ p[2].keyed /\ t.counted = {}
        <5>1. /\ Len(v.todo) = 2 /\ v.todo[1].do = "count" /\ v.todo[2].do = "answer"
              /\ v.todo[1].keyed
          BY <2>8, <4>2
        <5>2. v.counted = new /\ ~v.answered
          BY <1>17, <2>6, <4>2
        <5>3. ~Unkeyed(v)
          <6> SUFFICES ASSUME NEW c \in new, c[3] = FALSE
                       PROVE  FALSE
            BY <5>2 DEF Unkeyed
          <6>1. PICK h \in hs : c = <<kind, h, keyed>>
            BY DEF new
          <6> QED BY <4>2, <6>1
        <5> QED BY <5>1, <5>2, <5>3 DEF Ends
      <4> QED BY <2>7, <4>1, <4>2
    <3>2. /\ Len(v.todo) \in Nat /\ Len(v.todo) - 0 = Len(v.todo)
          /\ 0 + 1 = 1 /\ 0 + 2 = 2 /\ 0 + 3 = 3
      BY <2>7, <2>8
    <3>3. Closes(v, 0)
      BY <3>1, <3>2 DEF Closes
    <3>4. 0 \in 0 .. Len(v.todo) /\ 1 .. 0 = {}
      BY <3>2
    <3> QED BY <3>3, <3>4 DEF CountsAndAnswers
  <2>10. Sound(v) /\ Goes(p, v.todo)
    BY <1>1, <1>13, <2>6, <2>9, EndingSound
  <2>11. Moved(w, v)
    BY <2>6, OneMoves DEF ServiceInv
  <2>12. /\ task'[w].counted = t.counted \union new
         /\ \A x \in Worker \ {w} : task'[x].counted = task[x].counted
    BY <2>6, <2>9, <2>11, SettledTask DEF Moved
  <2>13. ReceiptsKept'
    <3>1. \A x \in Worker, k \in Delivery, h \in Handle :
            <<k, h, TRUE>> \in task'[x].counted => <<k, h>> \in receipts'
      <4> TAKE x \in Worker, k \in Delivery, h \in Handle
      <4>1. CASE <<k, h, TRUE>> \in task[x].counted
        BY <1>7, <1>11, <4>1
      <4>2. CASE x = w /\ <<k, h, TRUE>> \in new
        <5>1. k = kind /\ h \in hs /\ keyed
          BY <2>2, <4>2
        <5> QED BY <1>11, <5>1
      <4> QED BY <2>12, <4>1, <4>2
    <3> QED BY <1>7, <1>11, <1>15, <3>1 DEF ReceiptsKept
  <2>14. ASSUME NEW k \in Delivery, NEW h \in Handle
         PROVE  CountedOnce(k, h)'
    <3> DEFINE H(b) == Holds(k, h, b)
               G(b) == Holds(k, h, b)'
               c == Cardinality(H(FALSE))
               d == Cardinality(G(FALSE))
    <3>1. /\ \A b \in BOOLEAN : H(b) \subseteq G(b) /\ H(b) \in SUBSET Worker
          /\ \A b \in BOOLEAN : ~(k = kind /\ h \in hs /\ b = keyed) => G(b) = H(b)
          /\ \A b \in BOOLEAN : k = kind /\ h \in hs /\ b = keyed => G(b) = H(b) \union {w}
      <4>1. \A b \in BOOLEAN : H(b) \subseteq G(b) /\ H(b) \in SUBSET Worker
        BY <2>12 DEF Holds
      <4>2. \A b \in BOOLEAN : ~(k = kind /\ h \in hs /\ b = keyed) => <<k, h, b>> \notin new
        BY <2>2
      <4>3. \A b \in BOOLEAN : ~(k = kind /\ h \in hs /\ b = keyed) => G(b) = H(b)
        BY <2>12, <4>2 DEF Holds
      <4>4. \A b \in BOOLEAN : k = kind /\ h \in hs /\ b = keyed => <<k, h, b>> \in new
        BY <2>2
      <4>5. ASSUME NEW b \in BOOLEAN, k = kind /\ h \in hs /\ b = keyed
            PROVE  G(b) = H(b) \union {w}
        <5>1. <<k, h, b>> \in task'[w].counted
          BY <2>12, <4>4, <4>5
        <5>2. \A x \in Worker \ {w} : <<k, h, b>> \in task'[x].counted <=> <<k, h, b>> \in task[x].counted
          BY <2>12
        <5> QED BY <5>1, <5>2 DEF Holds
      <4> QED BY <4>1, <4>3, <4>5
    <3>2. CountedOnce(k, h)
      BY CountedOnceEach DEF ServiceInv
    <3>3. counts[k][h] <= prepared[k][h] + c + (IF Retried(k, h) THEN 1 ELSE 0)
      BY <3>2 DEF CountedOnce
    <3>4. /\ counts[k][h] \in Nat /\ prepared[k][h] \in Nat /\ One(h) \in Nat
          /\ prepared'[k][h] = prepared[k][h]
          /\ counts'[k][h] = IF k = kind THEN counts[k][h] + One(h) ELSE counts[k][h]
      BY <1>6, <1>7, <1>10, <1>17
    <3>5. Retried(k, h) => Retried(k, h)'
      BY <1>15, <3>1 DEF Retried
    <3>6. c \in Nat
      <4>1. H(FALSE) \in SUBSET Worker
        BY <3>1
      <4> QED BY <4>1, HoldersFinite
    <3>7. CASE ~(k = kind /\ h \in hs)
      <4>1. counts'[k][h] = counts[k][h]
        BY <1>6, <3>4, <3>7
      <4>2. d = c
        BY <3>1, <3>7
      <4> HIDE DEF c, d
      <4>3. counts'[k][h] <= prepared'[k][h] + d + (IF Retried(k, h)' THEN 1 ELSE 0)
        BY <3>3, <3>4, <3>5, <3>6, <4>1, <4>2
      <4> QED BY <4>3 DEF CountedOnce, d
    <3>8. CASE k = kind /\ h \in hs /\ ~keyed
      <4>1. counts'[k][h] = counts[k][h] + 1
        BY <1>6, <3>4, <3>8
      <4>2. w \notin H(FALSE)
        <5>1. t.counted = {}
          BY <2>7, <3>8
        <5> QED BY <5>1 DEF Holds
      <4>3. d = c + 1
        <5> DEFINE A == H(FALSE)
                   B == G(FALSE)
        <5>1. B = A \union {w} /\ A \in SUBSET Worker /\ w \notin A
          BY <1>2, <3>1, <3>8, <4>2
        <5> HIDE DEF A, B
        <5>2. IsFiniteSet(A)
          BY <5>1, HoldersFinite
        <5>3. Cardinality(B) = Cardinality(A) + 1
          BY <5>1, <5>2, FS_AddElement
        <5> QED BY <5>3 DEF A, B
      <4> HIDE DEF c, d
      <4>4. counts'[k][h] <= prepared'[k][h] + d + (IF Retried(k, h)' THEN 1 ELSE 0)
        BY <3>3, <3>4, <3>5, <3>6, <4>1, <4>3
      <4> QED BY <4>4 DEF CountedOnce, d
    <3>9. CASE k = kind /\ h \in hs /\ keyed
      <4>1. counts'[k][h] = counts[k][h] + 1
        BY <1>6, <3>4, <3>9
      <4>2. ~Retried(k, h)
        <5>1. <<k, h>> \notin receipts
          BY <1>3, <3>9
        <5> QED BY <1>7, <5>1 DEF Retried, Holds
      <4>3. Retried(k, h)'
        <5>1. w \in G(TRUE)
          BY <1>2, <3>1, <3>9
        <5> QED BY <5>1 DEF Retried
      <4>4. d = c
        BY <3>1, <3>9
      <4> HIDE DEF c, d
      <4>5. counts'[k][h] <= prepared'[k][h] + d + (IF Retried(k, h)' THEN 1 ELSE 0)
        BY <3>3, <3>4, <3>6, <4>1, <4>2, <4>3, <4>4
      <4> QED BY <4>5 DEF CountedOnce, d
    <3> QED BY <1>2, <3>7, <3>8, <3>9
  <2>15. CountedOncePerRequest'
    BY <2>14, CountedOnceEach
  <2> QED BY <1>4, <1>12, <2>6, <2>10, <2>11, <2>13, <2>15, CountingKeeps
<1>18. t.answered \in BOOLEAN
  BY <1>1 DEF Tasks
<1> QED BY <1>16, <1>17, <1>18
-----------------------------------------------------------------------------
(* Turns of a dream. *)

\* A dream's turn, whatever it does to the proposals and to the feedback.
LEMMA DreamingKeeps ==
  ASSUME ServiceInv, NEW w \in Worker, task[w].todo # <<>>,
         task[w].todo[1].do \notin {"count", "answer", "kind", "replace", "drop"}, Done(w),
         UNCHANGED <<store, telemetry, budgets>>, RecordTypes',
         \A l \in 1 .. Len(proposals') : proposals'[l].group \subseteq 1 .. (next' - 1),
         ProposalWaits', AppliedIsRemembered', FeedbackAccounted'
  PROVE  ServiceInv'
<1> DEFINE v == [task[w] EXCEPT !.todo = Tail(@)]
<1>1. /\ Moved(w, v) /\ Sound(v) /\ v.todo = Tail(task[w].todo)
      /\ v.counted = task[w].counted /\ v.mark = task[w].mark /\ v.alone = task[w].alone
      /\ v.stale = task[w].stale /\ v.beyond = task[w].beyond
  BY DoneTask
<1> HIDE DEF v
<1>2. StoreTypes' /\ Profiles' = Profiles
  BY DEF ServiceInv, StoreTypes, Profiles, Live, store, budgets
<1>3. StoreGrows
  BY DEF StoreGrows, store, Live
<1>4. /\ promised' = promised /\ prepared' = prepared /\ receipts' = receipts
      /\ counts' = counts /\ now' = now
  BY DEF telemetry, budgets
<1>5. now' \in Nat /\ now <= now' /\ v.mark <= now'
  BY <1>1, <1>4 DEF ServiceInv, StoreTypes, TaskTypes
<1>6. /\ TaskTypes' /\ Programs' /\ \A u \in Worker : GroupsIn(task[u].todo)'
      /\ task'[w].counted = v.counted
  BY <1>1, <1>3, <1>5, TasksKept
<1>7. \A u \in Worker : task'[u].counted = task[u].counted
  BY <1>1, <1>6 DEF Moved
<1>8. \A k \in Delivery, h \in Handle : counts'[k][h] <= counts[k][h]
  BY <1>4 DEF ServiceInv, RecordTypes
<1>9. ReceiptsKept' /\ CountedOncePerRequest'
  BY <1>4, <1>7, <1>8, RecordsKept
<1>10. Drops(task[w].todo, v.todo)
  BY <1>1 DEF Drops
<1>11. AloneReplaces'
  BY <1>1, <1>2, <1>6, <1>10, AloneKept
<1>12. GroupsExisted'
  BY <1>6 DEF GroupsExisted, GroupsIn
<1> QED BY <1>2, <1>6, <1>9, <1>11, <1>12 DEF ServiceInv

\* The marks of a pass are no later than the clock.
LEMMA MarksKeep ==
  ASSUME ServiceInv, NEW w \in Worker, dreamt_at(w) \/ record_action(w)
  PROVE  ServiceInv'
<1> DEFINE v == [task[w] EXCEPT !.todo = Tail(@)]
<1>1. PICK do \in {"dreamt", "event"} : At(w, do)
  BY DEF dreamt_at, record_action
<1>2. task[w].todo # <<>> /\ task[w].todo[1].do = do /\ task[w] \in Tasks
  BY <1>1, AtHead
<1>3. /\ Moved(w, v) /\ Sound(v) /\ Goes(task[w].todo, v.todo)
      /\ v.counted = task[w].counted /\ v.made = task[w].made
      /\ v.mark = task[w].mark /\ v.alone = task[w].alone
      /\ v.stale = task[w].stale /\ v.beyond = task[w].beyond
  BY <1>2, DoneTask DEF dreamt_at, record_action
<1> HIDE DEF v
<1>4. /\ UNCHANGED <<store, telemetry, proposals, demoted, budgets>>
      /\ dreamt' \in {dreamt, task[w].mark} /\ events' \subseteq events \union {task[w].mark}
  BY DEF dreamt_at, record_action
<1>5. /\ now' = now /\ ops' = ops /\ failures' = failures /\ proposals' = proposals
      /\ demoted' = demoted /\ promised' = promised /\ prepared' = prepared
      /\ receipts' = receipts /\ counts' = counts
  BY <1>4 DEF budgets, telemetry
<1>6. StoreTypes' /\ Profiles' = Profiles
  BY <1>4, <1>5 DEF ServiceInv, StoreTypes, Profiles, Live, store
<1>7. StoreGrows
  BY <1>4 DEF StoreGrows, store, Live
<1>8. task[w].mark \in 0 .. now
  <2>1. task[w].mark \in Nat /\ task[w].mark <= now /\ now \in Nat
    BY <1>2 DEF ServiceInv, TaskTypes, Tasks, StoreTypes
  <2> QED BY <2>1
<1>9. dreamt' \in 0 .. now /\ events' \subseteq 0 .. now
  BY <1>4, <1>8 DEF ServiceInv, RecordTypes
<1>10. RecordTypes'
  BY <1>5, <1>9 DEF ServiceInv, RecordTypes
<1>11. \A k \in Delivery, h \in Handle : counts'[k][h] <= counts[k][h]
  BY <1>5 DEF ServiceInv, RecordTypes
<1>12. TaskTypes' /\ (AloneReplaces' => ServiceInv')
  BY <1>3, <1>5, <1>6, <1>7, <1>10, <1>11, WritingKeeps
<1>13. AloneReplaces'
  BY <1>3, <1>6, <1>12, AloneKept
<1> QED BY <1>12, <1>13

\* The feedback of a consolidation is given once.
LEMMA FeedbackKeeps ==
  ASSUME ServiceInv, NEW w \in Worker, record_memory_feedback(w)
  PROVE  ServiceInv'
<1> DEFINE v == [task[w] EXCEPT !.todo = Tail(@)]
           p == task[w].todo
           group == Now(w).group
           One(h) == IF h \in group THEN 1 ELSE 0
<1>1. p # <<>> /\ p[1].do = "demote" /\ p \in Seq(Steps) /\ Now(w) = p[1] /\ At(w, "demote")
  BY AtHead DEF record_memory_feedback
<1>2. /\ Moved(w, v) /\ Sound(v) /\ Goes(p, v.todo) /\ v.todo = Tail(p)
      /\ v.counted = task[w].counted /\ v.made = task[w].made
      /\ v.mark = task[w].mark /\ v.alone = task[w].alone
      /\ v.stale = task[w].stale /\ v.beyond = task[w].beyond
  BY <1>1, DoneTask DEF record_memory_feedback
<1> HIDE DEF v
<1>3. /\ UNCHANGED <<store, telemetry, proposals, dreamt, events, budgets>>
      /\ demoted' = [h \in Handle |-> demoted[h] + One(h)] /\ Done(w)
  BY DEF record_memory_feedback
<1>4. /\ now' = now /\ next' = next /\ ops' = ops /\ failures' = failures /\ proposals' = proposals
      /\ promised' = promised /\ prepared' = prepared
      /\ receipts' = receipts /\ counts' = counts /\ dreamt' = dreamt /\ events' = events
  BY <1>3 DEF budgets, telemetry, store
<1>5. \A h \in Handle : One(h) \in Nat /\ One(h) = (IF h \in group THEN 1 ELSE 0)
  OBVIOUS
<1> HIDE DEF One, group
<1>6. /\ demoted' \in [Handle -> Nat] /\ demoted \in [Handle -> Nat]
      /\ \A h \in Handle : demoted'[h] = demoted[h] + One(h)
  <2>1. demoted \in [Handle -> Nat]
    BY DEF ServiceInv, RecordTypes
  <2> QED BY <1>3, <1>5, <2>1
<1>7. RecordTypes'
  BY <1>4, <1>6 DEF ServiceInv, RecordTypes
<1>8. StoreGrows
  BY <1>3 DEF StoreGrows, store, Live
<1>9. now' \in Nat /\ now <= now' /\ v.mark <= now'
  BY <1>2, <1>4 DEF ServiceInv, StoreTypes, TaskTypes
<1>10. /\ \A u \in Worker : GroupsIn(task[u].todo)'
       /\ task'[w].todo = Tail(p) /\ \A u \in Worker \ {w} : task'[u].todo = task[u].todo
  BY <1>2, <1>8, <1>9, TasksKept
<1>11. GroupsExisted' /\ ProposalWaits' /\ AppliedIsRemembered'
  BY <1>2, <1>4, <1>8, <1>10, DreamsKept
<1>12. ASSUME NEW h \in Handle
       PROVE  demoted'[h] + Cardinality(Demoting(h)') <= Cardinality(Applied(h)')
  <2> DEFINE D == Demoting(h)
             E == Demoting(h)'
             a == Cardinality(Applied(h))
  <2>1. Applied(h)' = Applied(h)
    BY <1>4 DEF Applied
  <2>2. D \in SUBSET Worker /\ (w \in D <=> h \in group)
    BY <1>1 DEF Demoting, group
  <2>3. E = D \ {w}
    <3>1. ~(Tail(p) # <<>> /\ Head(Tail(p)).do = "demote")
      <4>1. ConsolidatesInOrder(p)
        BY DEF ServiceInv, Programs
      <4> QED BY <1>1, <4>1, FeedbackNext
    <3> QED BY <1>10, <3>1 DEF Demoting, At, Now
  <2> HIDE DEF D, E
  <2>4. /\ IsFiniteSet(D) /\ Cardinality(D) \in Nat
        /\ Cardinality(E) = IF w \in D THEN Cardinality(D) - 1 ELSE Cardinality(D)
    <3>1. IsFiniteSet(D) /\ Cardinality(D) \in Nat
      BY <2>2, HoldersFinite
    <3>2. w \in D => Cardinality(E) = Cardinality(D) - 1
      BY <2>3, <3>1, FS_RemoveElement
    <3>3. w \notin D => E = D
      BY <2>3
    <3> QED BY <3>1, <3>2, <3>3
  <2>5. demoted[h] + Cardinality(D) <= a /\ a \in Nat
    BY AppliedFinite DEF ServiceInv, FeedbackAccounted, D
  <2>6. demoted[h] \in Nat /\ demoted'[h] = demoted[h] + One(h) /\ One(h) = (IF w \in D THEN 1 ELSE 0)
    BY <1>5, <1>6, <2>2
  <2> HIDE DEF a
  <2>7. demoted'[h] + Cardinality(E) <= a
    BY <2>4, <2>5, <2>6
  <2> QED BY <2>1, <2>7 DEF E, a
<1>13. FeedbackAccounted'
  BY <1>12 DEF FeedbackAccounted
<1>14. \A l \in 1 .. Len(proposals') : proposals'[l].group \subseteq 1 .. (next' - 1)
  BY <1>11 DEF GroupsExisted
<1> QED BY <1>1, <1>3, <1>7, <1>11, <1>13, <1>14, DreamingKeeps
\* A dream's turn takes one step off the program of the worker whose turn it is.
LEMMA DreamTurn ==
  ASSUME ServiceInv, NEW w \in Worker, task[w].todo # <<>>,
         task[w].todo[1].do \notin {"count", "answer"}, Done(w)
  PROVE  LET p == task[w].todo
         IN  /\ p \in Seq(Steps) /\ ConsolidatesInOrder(p)
             /\ task'[w].todo = Tail(p) /\ (Tail(p) # <<>> => task'[w].made = task[w].made)
             /\ \A u \in Worker : u # w => task'[u].todo = task[u].todo /\ task'[u].made = task[u].made
             /\ \A u \in Worker, i \in 1 .. 4 : u # w /\ AppliesNext(u, i)' => AppliesNext(u, i)
<1> DEFINE v == [task[w] EXCEPT !.todo = Tail(@)]
           p == task[w].todo
<1>1. Moved(w, v) /\ Sound(v) /\ v.todo = Tail(p) /\ v.made = task[w].made
  BY DoneTask
<1> HIDE DEF v
<1>2. p \in Seq(Steps) /\ ConsolidatesInOrder(p)
  BY SoundNow DEF Sound, Tasks, InOrder
<1>3. /\ task'[w].todo = Tail(p) /\ (Tail(p) # <<>> => task'[w].made = task[w].made)
  BY ZenonT(60), <1>1, SettledTask DEF Moved, Sound
<1>4. \A u \in Worker : u # w => task'[u].todo = task[u].todo /\ task'[u].made = task[u].made
  BY <1>1 DEF Moved
<1>5. \A u \in Worker, i \in 1 .. 4 : u # w /\ AppliesNext(u, i)' => AppliesNext(u, i)
  BY <1>4 DEF AppliesNext
<1> QED BY <1>2, <1>3, <1>4, <1>5

\* A new proposal waits for its memory.
LEMMA ProposeKeeps ==
  ASSUME ServiceInv, NEW w \in Worker, insert_reflection_proposal(w)
  PROVE  ServiceInv'
<1> DEFINE p == task[w].todo
           r == [group |-> Now(w).group, text |-> Now(w).text, by |-> w,
                 status |-> "proposed", made |-> 0]
<1>0. PICK n \in Nat : n = Len(proposals)
  BY DEF ServiceInv, RecordTypes
<1>1. /\ p # <<>> /\ p[1].do = "propose" /\ p \in Seq(Steps) /\ Now(w) = p[1] /\ p[1] \in Steps
  BY AtHead DEF insert_reflection_proposal
<1>2. /\ UNCHANGED <<store, telemetry, demoted, dreamt, events, budgets>>
      /\ proposals' = Append(proposals, r) /\ Done(w)
  BY DEF insert_reflection_proposal
<1>3. /\ now' = now /\ next' = next /\ mem' = mem /\ ops' = ops /\ failures' = failures
      /\ promised' = promised /\ prepared' = prepared /\ demoted' = demoted
      /\ receipts' = receipts /\ counts' = counts /\ dreamt' = dreamt /\ events' = events
  BY <1>2 DEF budgets, telemetry, store
<1>4. /\ p[1].group \subseteq Handle /\ p[1].text \subseteq Fact
      /\ p[1].group \subseteq 1 .. (next - 1)
  <2>1. p[1] \in ProposeSteps
    BY <1>1, StepShapes
  <2>2. 1 \in 1 .. Len(p)
    BY <1>1, Rest
  <2>3. p[1].group \subseteq 1 .. (next - 1)
    BY <1>1, <2>2 DEF ServiceInv, GroupsExisted
  <2> QED BY <2>1, <2>3 DEF ProposeSteps
<1>5. /\ r \in Proposals /\ r.status = "proposed" /\ r.by = w /\ r.group = p[1].group
      /\ r.text = p[1].text
  <2>1. 0 \in 0 .. MaxHandle
    BY ServiceAssumption
  <2> QED BY <1>1, <1>4, <2>1 DEF Proposals
<1> HIDE DEF r
<1>6. /\ proposals \in Seq(Proposals) /\ n \in Nat /\ n = Len(proposals)
  BY <1>0 DEF ServiceInv, RecordTypes
<1>7. /\ proposals' \in Seq(Proposals) /\ Len(proposals') = n + 1 /\ proposals'[n + 1] = r
      /\ \A l \in 1 .. n : proposals'[l] = proposals[l] /\ l \in 1 .. (n + 1)
      /\ \A l \in 1 .. (n + 1) : l = n + 1 \/ l \in 1 .. n
  <2>1. \A l \in 1 .. (n + 1) : l = n + 1 \/ l \in 1 .. n
    BY <1>6
  <2> QED BY <1>0, <1>2, <1>5, <1>6, <2>1
<1>8. RecordTypes'
  BY <1>3, <1>7 DEF ServiceInv, RecordTypes
<1>9. /\ ConsolidatesInOrder(p) /\ task'[w].todo = Tail(p)
      /\ \A u \in Worker : u # w => task'[u].todo = task[u].todo /\ task'[u].made = task[u].made
      /\ \A u \in Worker, i \in 1 .. 4 : u # w /\ AppliesNext(u, i)' => AppliesNext(u, i)
  BY <1>1, <1>2, DreamTurn
<1>10. \A l \in 1 .. Len(proposals') : proposals'[l].group \subseteq 1 .. (next' - 1)
  BY <1>0, <1>3, <1>4, <1>5, <1>7 DEF ServiceInv, GroupsExisted
<1>11. /\ \A u \in Worker, l \in 1 .. n : u # w /\ IsLatest(u, l) => IsLatest(u, l)'
       /\ IsLatest(w, n + 1)'
  <2>1. \A u \in Worker, l \in 1 .. n : u # w /\ IsLatest(u, l) => IsLatest(u, l)'
    <3> SUFFICES ASSUME NEW u \in Worker, NEW l \in 1 .. n, u # w, IsLatest(u, l)
                 PROVE  IsLatest(u, l)'
      OBVIOUS
    <3>1. /\ proposals[l].by = u /\ \A j \in (l + 1) .. n : proposals[j].by # u
      BY <1>0 DEF IsLatest
    <3>2. l \in 1 .. (n + 1) /\ proposals'[l].by = u
      BY <1>7, <3>1
    <3>3. ASSUME NEW j \in (l + 1) .. (n + 1)
          PROVE  proposals'[j].by # u
      <4>1. j = n + 1 \/ (j \in 1 .. n /\ j \in (l + 1) .. n)
        BY <1>0, <1>6, <3>3
      <4> QED BY <1>5, <1>7, <3>1, <4>1
    <3> QED BY <1>7, <3>2, <3>3 DEF IsLatest
  <2>2. IsLatest(w, n + 1)'
    <3>1. n + 1 \in 1 .. (n + 1) /\ \A j \in ((n + 1) + 1) .. (n + 1) : FALSE
      BY <1>0, <1>6
    <3> QED BY <1>5, <1>7, <3>1 DEF IsLatest
  <2> QED BY <2>1, <2>2
<1>12. ASSUME NEW i \in 1 .. 4, AppliesNext(w, i)'
       PROVE  /\ i = 4 /\ task'[w].todo[5].group = p[1].group /\ task'[w].todo[1].text = p[1].text
  <2> DEFINE q == Tail(p)
  <2>1. i \in 1 .. Len(q) /\ q[i].do = "applied"
    BY <1>9, <1>12 DEF AppliesNext
  <2> HIDE DEF q
  <2>2. /\ q[i + 1] = p[i + 2] /\ q[1] = p[2]
        /\ i = 1 => p[1].do = "look"
        /\ i = 2 => p[1].do = "describe"
        /\ i = 3 => p[1].do = "insert"
        /\ i = 4 => p[1].do = "propose" /\ p[1].group = p[6].group /\ p[1].text = p[2].text
    <3> HIDE DEF p
    <3> QED BY SMTT(30), <1>1, <1>9, <2>1, MarkNext DEF q
  <2>3. i = 4
    BY <1>1, <2>2
  <2>4. i + 1 = 5 /\ i + 2 = 6
    BY <2>3
  <2> QED BY <1>9, <2>2, <2>3, <2>4 DEF q
<1>13. ~HasMade(w)' /\ \A u \in Worker : HasMade(u)' => u # w /\ HasMade(u)
  <2>1. \A i \in 1 .. 3 : i \in 1 .. 4 /\ i # 4
    OBVIOUS
  <2> QED BY <1>9, <1>12, <2>1 DEF HasMade
<1>14. ASSUME NEW u \in Worker, NEW i \in 1 .. 4, AppliesNext(u, i)'
       PROVE  \E l \in 1 .. Len(proposals') :
           /\ IsLatest(u, l)' /\ proposals'[l].status = "proposed"
           /\ proposals'[l].group = task'[u].todo[i + 1].group
           /\ i = 4 => proposals'[l].text = task'[u].todo[1].text
           /\ i < 4 => /\ task'[u].made \in 1 .. (next' - 1) \ proposals'[l].group
                       /\ task'[u].made \in DOMAIN mem' =>
                            mem'[task'[u].made].text = proposals'[l].text
  <2>1. CASE u = w
    <3>1. /\ i = 4 /\ task'[w].todo[5].group = p[1].group /\ task'[w].todo[1].text = p[1].text
      BY <1>12, <1>14, <2>1
    <3>2. i + 1 = 5 /\ ~(i < 4) /\ n + 1 \in 1 .. (n + 1)
      BY <1>0, <1>6, <3>1
    <3>3. n + 1 \in 1 .. Len(proposals') /\ proposals'[n + 1] = r /\ IsLatest(u, n + 1)'
      BY <1>7, <1>11, <2>1, <3>2
    <3> QED BY <1>5, <2>1, <3>1, <3>2, <3>3
  <2>2. CASE u # w
    <3>1. AppliesNext(u, i)
      BY <1>9, <1>14, <2>2
    <3>2. PICK l \in 1 .. n :
           /\ IsLatest(u, l) /\ proposals[l].status = "proposed"
           /\ proposals[l].group = task[u].todo[i + 1].group
           /\ i = 4 => proposals[l].text = task[u].todo[1].text
           /\ i < 4 => /\ task[u].made \in 1 .. (next - 1) \ proposals[l].group
                       /\ task[u].made \in Live => mem[task[u].made].text = proposals[l].text
      BY <1>0, <3>1 DEF ServiceInv, ProposalWaits
    <3>3. IsLatest(u, l)' /\ l \in 1 .. Len(proposals') /\ proposals'[l] = proposals[l]
      BY <1>7, <1>11, <2>2, <3>2
    <3>4. task'[u].todo = task[u].todo /\ task'[u].made = task[u].made
      BY <1>9, <2>2
    <3> QED BY <1>3, <3>2, <3>3, <3>4 DEF Live
  <2> QED BY <2>1, <2>2
<1>15. ProposalWaits'
  <2>1. \A x, y \in Worker : HasMade(x)' /\ HasMade(y)' /\ task'[x].made = task'[y].made => x = y
    BY <1>9, <1>13 DEF ServiceInv, ProposalWaits
  <2>2. ASSUME NEW u \in Worker, NEW l \in 1 .. Len(proposals'), HasMade(u)',
               proposals'[l].status = "applied"
        PROVE  proposals'[l].made # task'[u].made
    <3>1. HasMade(u) /\ task'[u].made = task[u].made
      BY <1>9, <1>13, <2>2
    <3>2. l \in 1 .. n /\ proposals'[l] = proposals[l]
      BY <1>5, <1>7, <2>2
    <3>3. l \in 1 .. Len(proposals)
      BY <1>0, <3>2
    <3> QED BY <2>2, <3>1, <3>2, <3>3 DEF ServiceInv, ProposalWaits
  <2> QED BY <1>14, <2>1, <2>2 DEF ProposalWaits, Live
<1>16. AppliedIsRemembered'
  <2>1. DOMAIN proposals = 1 .. n /\ DOMAIN proposals' = 1 .. (n + 1)
    BY <1>0, <1>6, <1>7
  <2>2. \A i \in DOMAIN proposals' : proposals'[i].status = "applied" =>
           i \in DOMAIN proposals /\ proposals'[i] = proposals[i]
    BY <1>5, <1>7, <2>1
  <2>3. ASSUME NEW i \in DOMAIN proposals', proposals'[i].status = "applied"
        PROVE  /\ proposals'[i].made \in 1 .. (next' - 1) \ proposals'[i].group
               /\ proposals'[i].made \in DOMAIN mem' =>
                    mem'[proposals'[i].made].text = proposals'[i].text
               /\ \A j \in DOMAIN proposals' :
                    j # i /\ proposals'[j].status = "applied" =>
                      proposals'[j].made # proposals'[i].made
    <3>1. /\ i \in DOMAIN proposals /\ proposals'[i] = proposals[i]
          /\ proposals[i].status = "applied"
      BY <2>2, <2>3
    <3>2. /\ proposals[i].made \in 1 .. (next - 1) \ proposals[i].group
          /\ proposals[i].made \in Live => mem[proposals[i].made].text = proposals[i].text
          /\ \A j \in DOMAIN proposals :
               j # i /\ proposals[j].status = "applied" => proposals[j].made # proposals[i].made
      BY <3>1 DEF ServiceInv, AppliedIsRemembered
    <3>3. \A j \in DOMAIN proposals' : j # i /\ proposals'[j].status = "applied" =>
                      proposals'[j].made # proposals'[i].made
      BY <2>2, <3>1, <3>2
    <3> QED BY <1>3, <3>1, <3>2, <3>3 DEF Live
  <2> QED BY <2>3 DEF AppliedIsRemembered, Live
<1>17. FeedbackAccounted'
  <2>1. ASSUME NEW h \in Handle
        PROVE  Applied(h)' = Applied(h) /\ Demoting(h)' \subseteq Demoting(h)
    <3>1. Applied(h)' \subseteq Applied(h)
      <4> SUFFICES ASSUME NEW l \in 1 .. Len(proposals'), proposals'[l].status = "applied",
                          h \in proposals'[l].group
                   PROVE  l \in Applied(h)
        BY DEF Applied
      <4>1. l \in 1 .. n /\ proposals'[l] = proposals[l]
        BY <1>5, <1>7
      <4> QED BY <1>0, <4>1 DEF Applied
    <3>2. Applied(h) \subseteq Applied(h)'
      BY <1>0, <1>7 DEF Applied
    <3>3. \A u \in Demoting(h)' : u \in Demoting(h)
      <4> SUFFICES ASSUME NEW u \in Worker, task'[u].todo # <<>>,
                          Head(task'[u].todo).do = "demote", h \in Head(task'[u].todo).group
                   PROVE  u \in Demoting(h)
        BY DEF Demoting, At, Now
      <4>1. u # w
        BY <1>1, <1>9, FeedbackNext
      <4>2. task'[u].todo = task[u].todo
        BY <1>9, <4>1
      <4> QED BY <4>2 DEF Demoting, At, Now
    <3> QED BY <3>1, <3>2, <3>3
  <2> QED BY <1>3, <2>1, FeedbackKept
<1> QED BY <1>1, <1>2, <1>8, <1>10, <1>15, <1>16, <1>17, DreamingKeeps
\* The proposal inserted last is the only one that is latest.
LEMMA LatestIs ==
  ASSUME ServiceInv, NEW w \in Worker, NEW l, IsLatest(w, l)
  PROVE  Latest(w) = l
<1>1. PICK n \in Nat : n = Len(proposals)
  BY DEF ServiceInv, RecordTypes
<1>2. DOMAIN proposals = 1 .. n
  BY <1>1 DEF ServiceInv, RecordTypes
<1> DEFINE P(i) == /\ proposals[i].by = w
                   /\ \A j \in (i + 1) .. n : proposals[j].by # w
           c == CHOOSE i \in 1 .. n : P(i)
<1>3. l \in 1 .. n /\ P(l)
  BY <1>1 DEF IsLatest
<1>4. c \in 1 .. n /\ P(c)
  BY <1>3
<1>5. Latest(w) = c
  BY <1>1, <1>2 DEF Latest
<1> HIDE DEF c
<1>6. c = l
  <2>1. ~(c < l)
    <3>1. c < l => l \in (c + 1) .. n
      BY <1>3, <1>4
    <3> QED BY <1>3, <1>4, <3>1
  <2>2. ~(l < c)
    <3>1. l < c => c \in (l + 1) .. n
      BY <1>3, <1>4
    <3> QED BY <1>3, <1>4, <3>1
  <2>3. c \in Int /\ l \in Int
    BY <1>3, <1>4
  <2> HIDE DEF P
  <2> QED BY <2>1, <2>2, <2>3
<1> QED BY <1>5, <1>6

\* A proposal is marked with the memory that waited for the mark, and the
\* feedback on its group comes next.
LEMMA AppliedKeeps ==
  ASSUME ServiceInv, NEW w \in Worker, mark_applied(w)
  PROVE  ServiceInv'
<1> DEFINE p == task[w].todo
<1>1. /\ p # <<>> /\ p[1].do = "applied" /\ p \in Seq(Steps) /\ Now(w) = p[1]
      /\ task[w] \in Tasks /\ Len(p) \in Nat \ {0}
  BY AtHead, Rest DEF mark_applied
<1>2. PICK n \in Nat : n = Len(proposals)
  BY DEF ServiceInv, RecordTypes
<1>3. /\ UNCHANGED <<store, telemetry, demoted, dreamt, events, budgets>> /\ Done(w)
  BY DEF mark_applied
<1>4. /\ now' = now /\ next' = next /\ mem' = mem /\ ops' = ops /\ failures' = failures
      /\ promised' = promised /\ prepared' = prepared /\ demoted' = demoted
      /\ receipts' = receipts /\ counts' = counts /\ dreamt' = dreamt /\ events' = events
  BY <1>3 DEF budgets, telemetry, store
<1>5. /\ ConsolidatesInOrder(p) /\ task'[w].todo = Tail(p)
      /\ \A u \in Worker : u # w => task'[u].todo = task[u].todo /\ task'[u].made = task[u].made
      /\ \A u \in Worker, i \in 1 .. 4 : u # w /\ AppliesNext(u, i)' => AppliesNext(u, i)
  BY <1>1, <1>3, DreamTurn
<1>6. AppliesNext(w, 1) /\ HasMade(w)
  <2>1. 1 \in 1 .. Len(p) /\ 1 \in 1 .. 3
    BY <1>1
  <2> QED BY <1>1, <2>1 DEF AppliesNext, HasMade
<1>7. PICK l \in 1 .. n :
        /\ IsLatest(w, l) /\ proposals[l].status = "proposed"
        /\ proposals[l].group = p[2].group
        /\ task[w].made \in 1 .. (next - 1) \ proposals[l].group
        /\ task[w].made \in Live => mem[task[w].made].text = proposals[l].text
  <2>1. 1 \in 1 .. 4 /\ 1 < 4 /\ 1 + 1 = 2
    OBVIOUS
  <2> QED BY <1>2, <1>6, <2>1 DEF ServiceInv, ProposalWaits
<1>8. PICK m \in 0 .. MaxHandle : m = task[w].made
  BY <1>1 DEF Tasks
<1>9. /\ proposals \in Seq(Proposals) /\ proposals[l] \in Proposals /\ proposals[l].by = w
      /\ DOMAIN proposals = 1 .. n
  BY <1>2, <1>7 DEF ServiceInv, RecordTypes, IsLatest
<1> DEFINE r == [proposals[l] EXCEPT !.status = "applied", !.made = m]
<1>10. proposals' = [proposals EXCEPT ![l] = r]
  <2>1. Latest(w) = l
    BY <1>7, LatestIs
  <2> QED BY <1>8, <2>1 DEF mark_applied
<1>11. /\ r \in Proposals /\ r.status = "applied" /\ r.made = m /\ r.by = w
       /\ r.group = proposals[l].group /\ r.text = proposals[l].text
  BY <1>9 DEF Proposals
<1> HIDE DEF r
<1>12. /\ proposals' \in Seq(Proposals) /\ Len(proposals') = n /\ DOMAIN proposals' = 1 .. n
       /\ proposals'[l] = r /\ \A k \in 1 .. n : k # l => proposals'[k] = proposals[k]
  BY <1>2, <1>9, <1>10, <1>11
<1>13. RecordTypes'
  BY <1>4, <1>12 DEF ServiceInv, RecordTypes
<1>14. \A k \in 1 .. n : /\ proposals'[k].group = proposals[k].group
                         /\ proposals'[k].by = proposals[k].by
  BY <1>9, <1>11, <1>12
<1>15. \A k \in 1 .. Len(proposals') : proposals'[k].group \subseteq 1 .. (next' - 1)
  BY <1>2, <1>4, <1>12, <1>14 DEF ServiceInv, GroupsExisted
<1>16. \A i \in 1 .. 4 : ~AppliesNext(w, i)'
  <2> SUFFICES ASSUME NEW i \in 1 .. 4, AppliesNext(w, i)'
               PROVE  FALSE
    OBVIOUS
  <2> DEFINE q == Tail(p)
  <2>1. i \in 1 .. Len(q) /\ q[i].do = "applied"
    BY <1>5 DEF AppliesNext
  <2> HIDE DEF q
  <2>2. p[1].do \in {"look", "describe", "insert", "propose"}
    <3>1. i = 1 \/ i = 2 \/ i = 3 \/ i = 4
      OBVIOUS
    <3> HIDE DEF p
    <3> QED BY <1>1, <1>5, <2>1, <3>1, MarkNext DEF q
  <2> QED BY <1>1, <2>2
<1>17. \A u \in Worker : HasMade(u)' => u # w /\ HasMade(u)
  <2>1. \A i \in 1 .. 3 : i \in 1 .. 4
    OBVIOUS
  <2> QED BY <1>5, <1>16, <2>1 DEF HasMade
<1>18. \A u \in Worker : HasMade(u)' => task'[u].made = task[u].made /\ task[u].made # m
  BY <1>5, <1>6, <1>8, <1>17 DEF ServiceInv, ProposalWaits
<1>19. \A k \in 1 .. n : proposals[k].status = "applied" => proposals[k].made # m
  BY <1>2, <1>6, <1>8 DEF ServiceInv, ProposalWaits
<1>20. ASSUME NEW u \in Worker, NEW i \in 1 .. 4, AppliesNext(u, i)'
       PROVE  \E k \in 1 .. Len(proposals') :
           /\ IsLatest(u, k)' /\ proposals'[k].status = "proposed"
           /\ proposals'[k].group = task'[u].todo[i + 1].group
           /\ i = 4 => proposals'[k].text = task'[u].todo[1].text
           /\ i < 4 => /\ task'[u].made \in 1 .. (next' - 1) \ proposals'[k].group
                       /\ task'[u].made \in DOMAIN mem' =>
                            mem'[task'[u].made].text = proposals'[k].text
  <2>1. u # w
    BY <1>16, <1>20
  <2>2. AppliesNext(u, i)
    BY <1>5, <1>20, <2>1
  <2>3. PICK k \in 1 .. n :
           /\ IsLatest(u, k) /\ proposals[k].status = "proposed"
           /\ proposals[k].group = task[u].todo[i + 1].group
           /\ i = 4 => proposals[k].text = task[u].todo[1].text
           /\ i < 4 => /\ task[u].made \in 1 .. (next - 1) \ proposals[k].group
                       /\ task[u].made \in Live => mem[task[u].made].text = proposals[k].text
    BY <1>2, <2>2 DEF ServiceInv, ProposalWaits
  <2>4. /\ proposals[k].by = u /\ \A j \in (k + 1) .. n : proposals[j].by # u
    BY <1>2, <2>3 DEF IsLatest
  <2>5. k # l /\ proposals'[k] = proposals[k]
    BY <1>9, <1>12, <2>1, <2>4
  <2>6. \A j \in (k + 1) .. n : j \in 1 .. n
    OBVIOUS
  <2>7. IsLatest(u, k)'
    BY <1>12, <1>14, <2>4, <2>6 DEF IsLatest
  <2>8. task'[u].todo = task[u].todo /\ task'[u].made = task[u].made
    BY <1>5, <2>1
  <2> QED BY <1>4, <1>12, <2>3, <2>5, <2>7, <2>8 DEF Live
<1>21. ProposalWaits'
  <2>1. \A x, y \in Worker : HasMade(x)' /\ HasMade(y)' /\ task'[x].made = task'[y].made => x = y
    BY <1>17, <1>18 DEF ServiceInv, ProposalWaits
  <2>2. ASSUME NEW u \in Worker, NEW k \in 1 .. Len(proposals'), HasMade(u)',
               proposals'[k].status = "applied"
        PROVE  proposals'[k].made # task'[u].made
    <3>1. HasMade(u) /\ task'[u].made = task[u].made /\ task[u].made # m
      BY <1>17, <1>18, <2>2
    <3>2. k # l => proposals'[k] = proposals[k] /\ k \in 1 .. Len(proposals)
      BY <1>2, <1>12
    <3>3. k # l => proposals'[k].made # task'[u].made
      BY <2>2, <3>1, <3>2 DEF ServiceInv, ProposalWaits
    <3> QED BY <1>11, <1>12, <3>1, <3>3
  <2> QED BY <1>20, <2>1, <2>2 DEF ProposalWaits, Live
<1>22. AppliedIsRemembered'
  <2>1. ASSUME NEW i \in DOMAIN proposals', proposals'[i].status = "applied"
        PROVE  /\ proposals'[i].made \in 1 .. (next' - 1) \ proposals'[i].group
               /\ proposals'[i].made \in DOMAIN mem' =>
                    mem'[proposals'[i].made].text = proposals'[i].text
               /\ \A j \in DOMAIN proposals' :
                    j # i /\ proposals'[j].status = "applied" =>
                      proposals'[j].made # proposals'[i].made
    <3>1. CASE i = l
      <4>1. /\ proposals'[i].made \in 1 .. (next' - 1) \ proposals'[i].group
            /\ proposals'[i].made \in DOMAIN mem' =>
                 mem'[proposals'[i].made].text = proposals'[i].text
        BY <1>4, <1>7, <1>8, <1>11, <1>12, <3>1 DEF Live
      <4>2. \A j \in DOMAIN proposals' : j # i /\ proposals'[j].status = "applied" =>
                      proposals'[j].made # proposals'[i].made
        BY <1>11, <1>12, <1>19, <3>1
      <4> QED BY <4>1, <4>2
    <3>2. CASE i # l
      <4>1. i \in DOMAIN proposals /\ proposals'[i] = proposals[i]
        BY <1>9, <1>12, <3>2
      <4>2. /\ proposals[i].made \in 1 .. (next - 1) \ proposals[i].group
            /\ proposals[i].made \in Live => mem[proposals[i].made].text = proposals[i].text
            /\ \A j \in DOMAIN proposals :
                 j # i /\ proposals[j].status = "applied" => proposals[j].made # proposals[i].made
        BY <2>1, <4>1 DEF ServiceInv, AppliedIsRemembered
      <4>3. \A j \in DOMAIN proposals' : j # i /\ proposals'[j].status = "applied" =>
                      proposals'[j].made # proposals'[i].made
        <5> SUFFICES ASSUME NEW j \in DOMAIN proposals', j # i, proposals'[j].status = "applied"
                     PROVE  proposals'[j].made # proposals'[i].made
          OBVIOUS
        <5>1. CASE j = l
          BY <1>11, <1>12, <1>19, <2>1, <4>1, <5>1, <1>9
        <5>2. CASE j # l
          BY <1>9, <1>12, <4>1, <4>2, <5>2
        <5> QED BY <5>1, <5>2
      <4> QED BY <1>4, <4>1, <4>2, <4>3 DEF Live
    <3> QED BY <3>1, <3>2
  <2> QED BY <2>1 DEF AppliedIsRemembered, Live
<1>23. ASSUME NEW h \in Handle
       PROVE  demoted'[h] + Cardinality(Demoting(h)') <= Cardinality(Applied(h)')
  <2> DEFINE A == Applied(h)
             B == Applied(h)'
             D == Demoting(h)
             E == Demoting(h)'
             a == Cardinality(A)
  <2>1. B = IF h \in proposals[l].group THEN A \union {l} ELSE A
    <3>1. \A k \in 1 .. n : k \in B <=> proposals'[k].status = "applied" /\ h \in proposals'[k].group
      BY <1>12 DEF Applied
    <3>2. \A k \in 1 .. n : k \in A <=> proposals[k].status = "applied" /\ h \in proposals[k].group
      BY <1>2 DEF Applied
    <3>3. A \subseteq 1 .. n /\ B \subseteq 1 .. n
      BY <1>2, <1>12 DEF Applied
    <3> HIDE DEF A, B
    <3>4. \A k \in 1 .. n : k # l => (k \in B <=> k \in A)
      BY <1>12, <3>1, <3>2
    <3>5. l \in B <=> h \in proposals[l].group
      BY <1>11, <1>12, <3>1
    <3>6. l \notin A
      BY <1>7, <3>2
    <3>7. CASE h \in proposals[l].group
      <4>1. \A x : x \in B <=> x \in A \union {l}
        BY <1>7, <3>3, <3>4, <3>5, <3>7
      <4> QED BY <3>7, <4>1
    <3>8. CASE h \notin proposals[l].group
      <4>1. \A x : x \in B <=> x \in A
        BY <3>3, <3>4, <3>5, <3>6, <3>8
      <4> QED BY <3>8, <4>1
    <3> QED BY <3>7, <3>8
  <2>2. l \notin A /\ IsFiniteSet(A) /\ a \in Nat
    BY <1>7, AppliedFinite DEF Applied
  <2>3. D \in SUBSET Worker /\ E \subseteq D \union {w}
    <3>1. \A u \in Worker : u # w => (u \in E => u \in D)
      BY <1>5 DEF Demoting, At, Now
    <3>2. E \subseteq Worker /\ D \subseteq Worker
      BY DEF Demoting
    <3> HIDE DEF D, E
    <3> QED BY <3>1, <3>2
  <2>4. w \in E => h \in proposals[l].group
    <3> SUFFICES ASSUME Tail(p) # <<>>, Head(Tail(p)).do = "demote", h \in Head(Tail(p)).group
                 PROVE  h \in proposals[l].group
      BY <1>5 DEF Demoting, At, Now
    <3>1. Head(Tail(p)) = p[2]
      BY <1>1, <1>5, FeedbackNext
    <3> QED BY <1>7, <3>1
  <2>5. demoted[h] + Cardinality(D) <= a /\ demoted[h] \in Nat /\ demoted'[h] = demoted[h]
    BY <1>4 DEF ServiceInv, FeedbackAccounted, RecordTypes
  <2> HIDE DEF A, B, D, E
  <2>6. IsFiniteSet(D) /\ Cardinality(D) \in Nat
    BY <2>3, HoldersFinite
  <2>7. CASE h \in proposals[l].group
    <3>1. Cardinality(B) = a + 1
      BY <2>1, <2>2, <2>7, FS_AddElement
    <3>2. /\ IsFiniteSet(D \union {w}) /\ Cardinality(D \union {w}) \in Nat
          /\ Cardinality(D \union {w}) <= Cardinality(D) + 1
      <4>1. /\ IsFiniteSet(D \union {w})
            /\ \/ Cardinality(D \union {w}) = Cardinality(D)
               \/ Cardinality(D \union {w}) = Cardinality(D) + 1
        BY <2>6, FS_AddElement
      <4> QED BY <2>6, <4>1
    <3>3. Cardinality(E) \in Nat /\ Cardinality(E) <= Cardinality(D \union {w})
      BY <2>3, <3>2, FS_Subset, FS_CardinalityType
    <3> HIDE DEF a
    <3>4. demoted'[h] + Cardinality(E) <= Cardinality(B)
      BY <2>2, <2>5, <2>6, <3>1, <3>2, <3>3
    <3> QED BY <3>4 DEF B, E
  <2>8. CASE h \notin proposals[l].group
    <3>1. B = A /\ E \subseteq D
      BY <2>1, <2>3, <2>4, <2>8
    <3>2. Cardinality(E) \in Nat /\ Cardinality(E) <= Cardinality(D)
      BY <2>6, <3>1, FS_Subset, FS_CardinalityType
    <3>3. Cardinality(B) = a
      BY <3>1
    <3> HIDE DEF a
    <3>4. demoted'[h] + Cardinality(E) <= Cardinality(B)
      BY <2>2, <2>5, <2>6, <3>2, <3>3
    <3> QED BY <3>4 DEF B, E
  <2> QED BY <2>7, <2>8
<1>24. FeedbackAccounted'
  BY <1>23 DEF FeedbackAccounted
<1> QED BY <1>1, <1>3, <1>13, <1>15, <1>21, <1>22, <1>24, DreamingKeeps
-----------------------------------------------------------------------------
(* Failing, beginning, and time. *)

\* A statement fails: what must not fail ends the program or is caught, a count
\* that fails is not made.
LEMMA FailureKeeps ==
  ASSUME ServiceInv, NEW w \in Worker, StatementFails(w)
  PROVE  ServiceInv'
<1> DEFINE t == task[w]
           p == t.todo
           v == [t EXCEPT !.todo = Tail(@)]
<1>1. PICK do \in Failing : At(w, do)
  BY DEF StatementFails
<1>2. /\ p # <<>> /\ p[1].do = do /\ t \in Tasks /\ p \in Seq(Steps) /\ Now(w) = p[1]
      /\ p[1] \in Steps /\ BarsHold(t)
  BY <1>1, AtHead
<1>3. /\ failures' = failures + 1 /\ ops' = ops /\ UNCHANGED <<now, store, telemetry, dreams>>
      /\ IF Now(w).soft THEN Done(w) ELSE Errs(w)
  BY DEF StatementFails
<1>4. ops' \in Nat /\ failures' \in Nat
  BY <1>3 DEF ServiceInv, RecordTypes
<1>5. do # "answer"
  BY DEF Failing
<1>6. CASE do # "count" /\ ~Now(w).soft
  BY <1>2, <1>3, <1>4, <1>5, <1>6, ErrorKeeps
<1>7. CASE do # "count" /\ Now(w).soft
  <2>1. p[1].do \notin {"propose", "insert", "applied", "kind", "replace", "drop"}
    BY <1>1, <1>2, <1>7, StepShapes DEF Failing
  <2> QED BY <1>2, <1>3, <1>4, <1>5, <1>7, <2>1, DoneKeeps
<1>8. CASE do = "count"
  <2>1. Done(w)
    BY <1>2, <1>3, <1>8, StepShapes
  <2>2. Step(w, t)
    BY <2>1 DEF Done
  <2>3. /\ v \in Tasks /\ v.todo = Tail(p) /\ BarsHold(v) /\ v.counted = t.counted
        /\ v.answered = t.answered /\ v.made = t.made /\ v.mark = t.mark /\ v.alone = t.alone
        /\ v.stale = t.stale /\ v.beyond = t.beyond
        /\ task' = [task EXCEPT ![w] = Settled(v)]
    BY <1>2, <2>2, StepTask
  <2> HIDE DEF v
  <2>4. Sound(t) /\ CountsAndAnswers(t)
    BY SoundNow DEF Sound
  <2>5. Ends(t, Len(p), p[1], p[2], p[3])
    BY <1>2, <1>8, <2>4, CountsNow
  <2>6. /\ Len(p) \in Nat \ {0} /\ Len(v.todo) = Len(p) - 1
        /\ \A i \in 1 .. Len(v.todo) : v.todo[i] = p[i + 1]
    BY <1>2, <2>3, Rest
  <2>7. CountsAndAnswers(v)
    <3>1. CASE Len(p) = 1
      <4>1. t.counted = {}
        BY <1>2, <1>8, <2>5, <3>1 DEF Ends
      <4>2. Len(v.todo) = 0
        BY <2>6, <3>1
      <4>3. NeverCounts(v.todo)
        BY <4>2 DEF NeverCounts
      <4> QED BY <2>3, <4>1, <4>3 DEF CountsAndAnswers
    <3>2. CASE Len(p) = 2
      <4>1. p[2].do = "answer"
        BY <1>2, <1>8, <2>5, <3>2 DEF Ends
      <4>2. Len(v.todo) = 1 /\ v.todo[1].do = "answer"
        BY <2>6, <3>2, <4>1
      <4>3. Ends(v, 1, v.todo[1], v.todo[2], v.todo[3])
        BY <4>2 DEF Ends
      <4>4. Closes(v, 0) /\ 0 \in 0 .. Len(v.todo)
        BY <4>2, <4>3 DEF Closes
      <4>5. \A i \in 1 .. 0 : FALSE
        OBVIOUS
      <4> QED BY <4>4, <4>5 DEF CountsAndAnswers
    <3>3. CASE Len(p) = 3
      <4>1. p[2].do = "count" /\ p[2].keyed /\ p[3].do = "answer" /\ ~t.answered /\ t.counted = {}
        BY <2>5, <3>3 DEF Ends
      <4>2. Len(v.todo) = 2 /\ v.todo[1] = p[2] /\ v.todo[2] = p[3]
        BY <2>6, <3>3
      <4>3. ~Unkeyed(v)
        BY <2>3, <4>1 DEF Unkeyed
      <4>4. Ends(v, 2, v.todo[1], v.todo[2], v.todo[3])
        BY <2>3, <4>1, <4>2, <4>3 DEF Ends
      <4>5. Closes(v, 0) /\ 0 \in 0 .. Len(v.todo)
        BY <4>2, <4>4 DEF Closes
      <4>6. \A i \in 1 .. 0 : FALSE
        OBVIOUS
      <4> QED BY <4>5, <4>6 DEF CountsAndAnswers
    <3> QED BY <2>5, <3>1, <3>2, <3>3 DEF Ends
  <2>8. Sound(v) /\ Goes(p, v.todo)
    BY <1>2, <1>8, <2>3, <2>4, <2>7, EndingSound
  <2>9. Moved(w, v)
    BY <2>3, OneMoves DEF ServiceInv
  <2> QED BY <1>3, <1>4, <2>3, <2>8, <2>9, ReadingKeeps
<1> QED BY <1>6, <1>7, <1>8

\* A worker begins with a program that fits, and with what is barred by now.
LEMMA BeginKeeps ==
  ASSUME ServiceInv, NEW w \in Worker, MayBegin(w), NEW program, Fits(program),
         NEW about \in 0 .. MaxHandle, NEW mark \in 0 .. now, Begin(w, program, about, mark)
  PROVE  ServiceInv'
<1> DEFINE v == [Idle EXCEPT !.todo = program, !.about = about, !.mark = mark, !.barred = Barred]
<1>1. /\ task[w] = Idle /\ ops' = ops + 1 /\ task' = [task EXCEPT ![w] = v]
      /\ UNCHANGED <<now, failures, store, telemetry, dreams>>
  BY DEF MayBegin, Begin
<1>2. /\ program \in Seq(Steps) /\ program # <<>> /\ Steady(program) /\ NeverProposes(program)
      /\ CountsAndAnswers([Idle EXCEPT !.todo = program])
  BY DEF Fits
<1>3. /\ now \in 1 .. MaxTime /\ MaxTime \in Nat /\ next \in 1 .. (MaxHandle + 1)
      /\ MaxHandle \in Nat /\ mark \in 0 .. MaxTime
  BY ServiceAssumption DEF ServiceInv, StoreTypes
<1>4. /\ Barred \subseteq Handle /\ Barred \subseteq 1 .. (next - 1)
      /\ \A h \in Barred : h \in Live => mem[h].stance = "deny"
  <2>1. \A x \in 1 .. (next - 1) : x \in 1 .. MaxHandle
    BY <1>3
  <2> QED BY <2>1 DEF Barred, Handle
<1>5. Idle \in Tasks /\ Idle.counted = {} /\ Idle.todo = <<>>
  BY IdleTask
<1>6. /\ v \in Tasks /\ v.todo = program /\ v.mark = mark /\ v.barred = Barred
      /\ v.counted = Idle.counted /\ v.answered = Idle.answered /\ v.made = Idle.made
      /\ v.alone = Idle.alone /\ v.stale = Idle.stale /\ v.beyond = Idle.beyond
      /\ v.ok = {} /\ v.hint = {} /\ v.back = {} /\ v.orig = {}
  <2>1. /\ v \in Tasks /\ v.todo = program /\ v.mark = mark /\ v.barred = Barred
        /\ v.counted = Idle.counted /\ v.answered = Idle.answered /\ v.made = Idle.made
        /\ v.alone = Idle.alone /\ v.stale = Idle.stale /\ v.beyond = Idle.beyond
        /\ v.ok = Idle.ok /\ v.hint = Idle.hint /\ v.back = Idle.back /\ v.orig = Idle.orig
    <3> HIDE DEF Idle
    <3> QED BY <1>2, <1>3, <1>4, <1>5 DEF Tasks
  <2>2. Idle.ok = {} /\ Idle.hint = {} /\ Idle.back = {} /\ Idle.orig = {}
    BY DEF Idle
  <2> HIDE DEF v
  <2> QED BY <2>1, <2>2
<1>7. BarsHold(v)
  <2> HIDE DEF v
  <2> QED BY <1>4, <1>6 DEF BarsHold
<1>8. CountsAndAnswers(v)
  <2> DEFINE u == [Idle EXCEPT !.todo = program]
  <2>1. u.todo = program /\ u.counted = Idle.counted /\ u.answered = Idle.answered
    BY <1>5 DEF Tasks
  <2>2. CountsAndAnswers(u)
    BY <1>2
  <2> HIDE DEF u, v
  <2> QED BY <1>6, <2>1, <2>2, CountsAlike
<1> HIDE DEF v
<1>9. InOrder(v.todo) /\ GroupsIn(v.todo) /\ Goes(<<>>, v.todo)
  <2>1. GroupsIn(program)
    BY <1>2 DEF GroupsIn, NeverProposes, Steady
  <2> QED BY <1>2, <1>6, <2>1, SteadyInOrder, SteadyGoes
<1>10. Sound(v) /\ Moved(w, v)
  <2>1. Settled(v) = v
    BY <1>2, <1>6 DEF Settled
  <2> QED BY <1>1, <1>6, <1>7, <1>8, <1>9, <2>1, OneMoves DEF Sound, ServiceInv
<1>11. ops' \in Nat /\ failures' \in Nat
  BY <1>1 DEF ServiceInv, RecordTypes
<1>12. /\ v.counted = task[w].counted /\ v.made = task[w].made
       /\ v.alone => task[w].alone /\ v.stale = task[w].stale
                      /\ v.beyond = task[w].beyond
       /\ Goes(task[w].todo, v.todo) /\ v.mark \in 0 .. now
  BY <1>1, <1>5, <1>6, <1>9
<1> QED BY <1>1, <1>10, <1>11, <1>12, ReadingKeeps

\* The newest memory is no newer than the clock.
LEMMA LastActivity ==
  ASSUME ServiceInv, Live # {}
  PROVE  last_activity \in 0 .. now
<1> DEFINE T == {mem[h].made : h \in Live}
<1>1. now \in Nat /\ T \in SUBSET (1 .. now) /\ T # {}
  <2>1. now \in Nat /\ mem \in [Live -> Memories] /\ \A h \in Live : mem[h].made <= now
    BY DEF ServiceInv, StoreTypes
  <2>2. \A h \in Live : mem[h].made \in 1 .. now
    BY <2>1, ServiceAssumption DEF Memories
  <2> QED BY <2>1, <2>2
<1>2. \E t \in T : \A s \in T : s <= t
  <2> HIDE DEF T
  <2> QED BY <1>1, GreatestOf
<1>3. \E t \in T : \A h \in Live : mem[h].made <= t
  BY <1>2
<1>4. last_activity \in T
  BY <1>3 DEF last_activity
<1> QED BY <1>1, <1>4

LEMMA BeginsKeep ==
  ASSUME ServiceInv, NEW w \in Worker, Begins(w)
  PROVE  ServiceInv'
<1>1. 0 \in 0 .. MaxHandle /\ 0 \in 0 .. now
  BY ServiceAssumption DEF ServiceInv, StoreTypes
<1>2. CASE Recall(w)
  BY <1>1, <1>2, RecallsFit, BeginKeeps DEF Recall
<1>3. CASE Lookup(w)
  <2>1. \A h \in 1 .. (next - 1) : h \in 0 .. MaxHandle
    BY ServiceAssumption DEF ServiceInv, StoreTypes
  <2> QED BY <1>1, <1>3, <2>1, LookupsFit, BeginKeeps DEF Lookup
<1>4. CASE Change(w)
  <2>1. \A h \in Live : h \in 0 .. MaxHandle
    BY ServiceAssumption DEF ServiceInv, StoreTypes
  <2> QED BY <1>1, <1>4, <2>1, ChangesFit, BeginKeeps DEF Change
<1>5. CASE Remember(w)
  BY <1>1, <1>5, RemembersFit, BeginKeeps DEF Remember
<1>6. CASE RefreshProfile(w)
  BY <1>1, <1>6, ProfilesFit, BeginKeeps DEF RefreshProfile
<1>7. CASE Dream(w)
  BY <1>1, <1>7, DreamsFit, BeginKeeps DEF Dream
<1>8. CASE watch(w)
  <2>1. Fits(run_pass)
    BY DreamsFit
  <2> QED BY <1>1, <1>8, <2>1, LastActivity, BeginKeeps DEF watch
<1>9. CASE SweepDreams(w)
  BY <1>1, <1>9, DreamsFit, LastActivity, BeginKeeps DEF SweepDreams, list_dream_candidates
<1> QED BY <1>2, <1>3, <1>4, <1>5, <1>6, <1>7, <1>8, <1>9 DEF Begins
\* Time passes, or nothing happens.
LEMMA WaitingKeeps ==
  ASSUME ServiceInv, now' \in 1 .. MaxTime, now <= now', ops' \in Nat, failures' \in Nat,
         UNCHANGED <<store, telemetry, dreams, task>>
  PROVE  ServiceInv'
<1>1. /\ mem' = mem /\ next' = next /\ task' = task /\ proposals' = proposals
      /\ demoted' = demoted /\ dreamt' = dreamt /\ events' = events
      /\ promised' = promised /\ prepared' = prepared /\ receipts' = receipts /\ counts' = counts
  BY DEF store, telemetry, dreams
<1>2. now \in Nat /\ now' \in Nat /\ \A t \in Nat : t <= now => t <= now'
  <2>1. now \in Nat /\ now' \in Nat
    BY DEF ServiceInv, StoreTypes
  <2> QED BY <2>1
<1>3. StoreTypes'
  <2>1. \A h \in Live : mem[h].made \in Nat
    BY ServiceAssumption DEF ServiceInv, StoreTypes, Memories
  <2> QED BY <1>1, <1>2, <2>1 DEF ServiceInv, StoreTypes, Live
<1>4. RecordTypes'
  <2>1. \A t \in 0 .. now : t \in 0 .. now'
    BY <1>2
  <2> QED BY <1>1, <2>1 DEF ServiceInv, RecordTypes
<1>5. TaskTypes'
  <2>1. \A w \in Worker : task[w].mark \in Nat
    BY DEF ServiceInv, TaskTypes, Tasks
  <2> QED BY <1>1, <1>2, <2>1 DEF ServiceInv, TaskTypes
<1>6. Programs'
  BY <1>1 DEF ServiceInv, Programs, BarsHold, Live
<1>7. ReceiptsKept'
  BY <1>1 DEF ServiceInv, ReceiptsKept
<1>8. CountedOncePerRequest'
  BY <1>1 DEF ServiceInv, CountedOncePerRequest
<1>9. GroupsExisted'
  BY <1>1 DEF ServiceInv, GroupsExisted
<1>10. ProposalWaits'
  BY <1>1 DEF ServiceInv, ProposalWaits, HasMade, AppliesNext, IsLatest, Live
<1>11. AppliedIsRemembered'
  BY <1>1 DEF ServiceInv, AppliedIsRemembered, Live
<1>12. FeedbackAccounted'
  BY <1>1 DEF ServiceInv, FeedbackAccounted, Applied, Demoting, At, Now
<1>13. AloneReplaces'
  BY <1>1 DEF ServiceInv, AloneReplaces, ToDrop, Regenerating, Profiles, Live
<1> QED BY <1>3, <1>4, <1>5, <1>6, <1>7, <1>8, <1>9, <1>10, <1>11, <1>12, <1>13 DEF ServiceInv

LEMMA ServiceInitInv ==
  ASSUME ServiceInit
  PROVE  ServiceInv
<1>1. PICK n \in 0 .. MaxHandle : mem \in [1 .. n -> Memories]
  BY ServiceAssumption DEF ServiceInit
<1>2. /\ n \in Nat /\ MaxHandle \in Nat /\ MaxTime \in Nat \ {0} /\ Live = 1 .. n
      /\ next = n + 1 /\ now \in 1 .. MaxTime /\ 0 \in 0 .. now
  <2>1. n \in Nat /\ MaxHandle \in Nat /\ MaxTime \in Nat \ {0} /\ DOMAIN mem = 1 .. n
    BY <1>1, ServiceAssumption
  <2>2. Cardinality(1 .. n) = n
    BY <2>1, FS_Interval
  <2> QED BY <2>1, <2>2 DEF ServiceInit, Live
<1>3. StoreTypes
  BY <1>1, <1>2 DEF ServiceInit, StoreTypes
<1>4. /\ proposals = <<>> /\ Len(proposals) = 0 /\ receipts = {} /\ promised = {}
      /\ \A k \in Delivery, h \in Handle : counts[k][h] = 0 /\ prepared[k][h] = 0
      /\ \A h \in Handle : demoted[h] = 0
  BY DEF ServiceInit
<1>5. RecordTypes
  BY <1>2, <1>4 DEF ServiceInit, RecordTypes
<1>6. /\ Idle \in Tasks /\ Idle.todo = <<>> /\ CountsAndAnswers(Idle) /\ InOrder(Idle.todo)
      /\ Idle.counted = {} /\ BarsHold(Idle) /\ Idle.mark = 0 /\ ~Idle.alone
  BY IdleTask, IdleSound DEF Sound
<1>7. \A w \in Worker : task[w] = Idle
  BY DEF ServiceInit
<1>8. /\ \A w \in Worker : task[w].todo = <<>> /\ Len(task[w].todo) = 0 /\ task[w].counted = {}
      /\ \A w \in Worker : ~Regenerating(w) /\ \A i : ~AppliesNext(w, i)
      /\ \A w \in Worker : ~At(w, "demote")
  <2>1. \A w \in Worker : task[w].todo = <<>> /\ Len(task[w].todo) = 0 /\ task[w].counted = {}
    BY <1>6, <1>7
  <2>2. DOMAIN <<>> = {}
    OBVIOUS
  <2> HIDE DEF Idle
  <2>3. \A w \in Worker : ~Regenerating(w)
    BY <2>1, <2>2 DEF Regenerating
  <2>4. \A w \in Worker : \A i : ~AppliesNext(w, i)
    BY <2>1 DEF AppliesNext
  <2> QED BY <2>1, <2>3, <2>4 DEF At
<1>9. TaskTypes
  <2>1. task = [w \in Worker |-> Idle]
    BY DEF ServiceInit
  <2> HIDE DEF Idle
  <2> QED BY <1>2, <1>6, <2>1 DEF TaskTypes
<1>10. Programs
  BY <1>6, <1>7 DEF Programs, InOrder
<1>11. ReceiptsKept
  BY <1>4, <1>8 DEF ReceiptsKept
<1>12. CountedOncePerRequest
  <2> SUFFICES ASSUME NEW k \in Delivery, NEW h \in Handle
               PROVE  CountedOnce(k, h)
    BY CountedOnceEach
  <2>1. Cardinality(Holds(k, h, FALSE)) \in Nat
    BY HoldersFinite DEF Holds
  <2> DEFINE c == Cardinality(Holds(k, h, FALSE))
             r == IF Retried(k, h) THEN 1 ELSE 0
  <2>2. c \in Nat /\ r \in Nat
    BY <2>1
  <2> HIDE DEF c, r
  <2>3. counts[k][h] <= prepared[k][h] + c + r
    BY <1>4, <2>2
  <2> QED BY <2>3 DEF CountedOnce, c, r
<1>13. GroupsExisted
  BY <1>4, <1>8 DEF GroupsExisted
<1>14. ProposalWaits
  BY <1>8 DEF ProposalWaits, HasMade
<1>15. AppliedIsRemembered
  <2>1. DOMAIN proposals = {}
    BY <1>4
  <2> QED BY <2>1 DEF AppliedIsRemembered
<1>16. FeedbackAccounted
  <2> SUFFICES ASSUME NEW h \in Handle
               PROVE  demoted[h] + Cardinality(Demoting(h)) <= Cardinality(Applied(h))
    BY DEF FeedbackAccounted
  <2>1. Demoting(h) = {} /\ Applied(h) = {}
    BY <1>4, <1>8 DEF Demoting, Applied
  <2>2. Cardinality({}) = 0
    BY FS_EmptySet
  <2> QED BY <1>4, <2>1, <2>2
<1>17. AloneReplaces
  BY <1>8 DEF AloneReplaces
<1> QED BY <1>3, <1>5, <1>9, <1>10, <1>11, <1>12, <1>13, <1>14, <1>15, <1>16, <1>17 DEF ServiceInv

LEMMA ServiceStep ==
  ASSUME ServiceInv, [ServiceNext]_serviceVars
  PROVE  ServiceInv'
<1>1. CASE Tick
  <2>1. now \in 1 .. MaxTime /\ now < MaxTime /\ now' = now + 1 /\ MaxTime \in Nat
    BY <1>1, ServiceAssumption DEF Tick, ServiceInv, StoreTypes
  <2>2. now' \in 1 .. MaxTime /\ now <= now'
    BY <2>1
  <2> QED BY <1>1, <2>2, WaitingKeeps DEF Tick, ServiceInv, RecordTypes
<1>2. CASE UNCHANGED serviceVars
  <2>1. now' \in 1 .. MaxTime /\ now <= now' /\ ops' \in Nat /\ failures' \in Nat
    BY <1>2 DEF serviceVars, ServiceInv, StoreTypes, RecordTypes
  <2>2. UNCHANGED <<store, telemetry, dreams, task>>
    BY <1>2 DEF serviceVars, store, telemetry, dreams
  <2> QED BY <2>1, <2>2, WaitingKeeps
<1>3. ASSUME NEW w \in Worker,
             \/ Begins(w) \/ Recalls(w) \/ Writes(w) \/ Dreams(w)
             \/ StatementFails(w) \/ Dies(w)
      PROVE  ServiceInv'
  <2>1. CASE Recalls(w)
    BY <2>1, FindsKeep, GateKeeps, RefuseKeeps, ExpandKeeps, BackSourcesKeeps, SelectKeeps,
       RecordKeeps, AnswerKeeps DEF Recalls
  <2>2. CASE Writes(w)
    BY <2>2, InsertKeeps, DescribeKeeps, DeleteKeeps, PolicyKeeps, AutoRefreshKeeps,
       ReadSourcesKeeps, KindKeeps, ReplaceKeeps, DropKeeps DEF Writes
  <2>3. CASE Dreams(w)
    BY <2>3, ReflectKeeps, SynthesizeKeeps, ProposeKeeps, AppliedKeeps, FeedbackKeeps,
       MarksKeep DEF Dreams
  <2> QED BY <1>3, <2>1, <2>2, <2>3, BeginsKeep, FailureKeeps, DiesKeeps
<1> QED BY <1>1, <1>2, <1>3 DEF ServiceNext

LEMMA ServiceInvHolds == ServiceSpec => []ServiceInv
BY ServiceInitInv, ServiceStep, PTL DEF ServiceSpec

-----------------------------------------------------------------------------
(* What the requests, commands, profiles and dreams promise. *)

\* Whatever the handlers of server.rs, mcp.rs and main.rs, the profile and the
\* dreams do to one store, a statement at a time, every row, counter and
\* proposal and all that a worker holds keep their types, and a worker with
\* nothing left to do holds nothing.
THEOREM ServiceTypeCorrect == ServiceSpec => []ServiceTypeOK
<1>1. ASSUME ServiceInv
      PROVE  ServiceTypeOK
  <2>1. \A w \in Worker : /\ task[w].todo = <<>> => task[w] = Idle
                          /\ task[w].found \union task[w].ok \union task[w].hint
                               \union task[w].back \union task[w].orig \subseteq Handle
                          /\ task[w].stale \union task[w].beyond \subseteq Handle
                          /\ task[w].barred \subseteq 1 .. (next - 1)
    <3> TAKE w \in Worker
    <3>1. task[w] \in Tasks /\ BarsHold(task[w]) /\ (task[w].todo = <<>> => task[w] = Idle)
      BY <1>1, SoundNow DEF Sound, ServiceInv, TaskTypes
    <3> HIDE DEF Idle
    <3> QED BY <3>1 DEF Tasks, BarsHold
  <2>2. /\ proposals \in Seq([group : SUBSET Handle, text : SUBSET Fact, by : Worker,
                              status : {"proposed", "applied"}, made : 0..MaxHandle])
    BY <1>1 DEF ServiceInv, RecordTypes, Proposals
  <2> HIDE DEF Idle
  <2>3. receipts \union promised \subseteq Delivery \X Handle
    BY <1>1 DEF ServiceInv, RecordTypes
  <2> QED BY <1>1, <2>1, <2>2, <2>3 DEF ServiceTypeOK, ServiceInv, StoreTypes, RecordTypes
<1> QED BY <1>1, ServiceInvHolds, PTL

\* No answer of server.rs, mcp.rs or main.rs shows a memory that had been
\* forgotten or denied when the call began, unless it was allowed meanwhile:
\* every handler shows only what gate_memories left, or what was left of that.
THEOREM BarredIsNeverShown == ServiceSpec => []NothingBarredIsShown
<1>1. ASSUME ServiceInv
      PROVE  NothingBarredIsShown
  <2> SUFFICES ASSUME NEW w \in Worker, At(w, "answer")
               PROVE  Shown(task[w], Now(w).of) \intersect task[w].barred = {}
    BY DEF NothingBarredIsShown
  <2>1. task[w].todo[1].do = "answer" /\ Now(w) = task[w].todo[1] /\ Now(w) \in Steps
        /\ BarsHold(task[w])
    BY <1>1, AtHead
  <2>2. Now(w).of \in Views
    <3>1. Now(w) \in AnswerSteps
      BY <2>1, StepShapes
    <3> QED BY <3>1 DEF AnswerSteps
  <2>3. Shown(task[w], Now(w).of)
          \subseteq task[w].ok \union task[w].hint \union task[w].back \union task[w].orig
    BY <2>2 DEF Shown, Views
  <2> QED BY <2>1, <2>3 DEF BarsHold
<1> QED BY <1>1, ServiceInvHolds, PTL

\* access::record counts a delivery for an answer that will be given, was given
\* or was ready when its process died, and once for a request that is retried:
\* in no handler can anything after the counting refuse the answer.
THEOREM DeliveriesAreCountedOnce == ServiceSpec => []CountedOncePerRequest
<1>1. ServiceInv => CountedOncePerRequest
  BY DEF ServiceInv
<1> QED BY <1>1, ServiceInvHolds, PTL

\* reflection.rs, auto_dream.rs and sweep.rs: an applied proposal names the memory that its
\* own pass inserted, and a source is demoted once for each applied proposal it
\* belongs to, however many passes run at once, fail or die.
THEOREM DreamsAreAccounted == ServiceSpec => []ConsolidationsAreAccounted
<1>1. ASSUME ServiceInv
      PROVE  DemotedIsConsolidated
  <2> SUFFICES ASSUME NEW h \in Handle
               PROVE  demoted[h] <= Cardinality({i \in DOMAIN proposals :
                        proposals[i].status = "applied" /\ h \in proposals[i].group})
    BY DEF DemotedIsConsolidated
  <2> DEFINE a == Cardinality(Applied(h))
             d == Cardinality(Demoting(h))
  <2>1. DOMAIN proposals = 1 .. Len(proposals)
    BY <1>1 DEF ServiceInv, RecordTypes
  <2>2. Applied(h) = {i \in DOMAIN proposals :
                        proposals[i].status = "applied" /\ h \in proposals[i].group}
    BY <2>1 DEF Applied
  <2>3. a \in Nat /\ d \in Nat
    BY <1>1, AppliedFinite, HoldersFinite DEF Demoting
  <2>4. demoted[h] + d <= a /\ demoted[h] \in Nat
    BY <1>1 DEF ServiceInv, FeedbackAccounted, RecordTypes
  <2> HIDE DEF a, d
  <2>5. demoted[h] <= a
    BY <2>3, <2>4
  <2> QED BY <2>2, <2>5 DEF a
<1>2. ServiceInv => ConsolidationsAreAccounted
  BY <1>1 DEF ServiceInv, ConsolidationsAreAccounted
<1> QED BY <1>2, ServiceInvHolds, PTL

\* profile::regenerate, when no other regeneration overlaps it, leaves the
\* profile it inserted and none of those among the memories it has listed, also
\* if deaths, errors or rivals left them behind: another profile that is there
\* when it describes its own lay beyond PROFILE_SOURCE_LIMIT newer memories.
THEOREM ProfilesAreReplaced == ServiceSpec => ReplacesEveryProfile
<1>1. ASSUME ServiceInv, NEW w \in Worker,
             At(w, "describe"), Now(w).kind = "profile", task[w].alone,
             task[w].made \in Live, describe(w)
      PROVE  {h \in DOMAIN mem' : mem'[h].kind = "profile"}
               \subseteq task[w].beyond \union {task[w].made}
  <2> DEFINE p == task[w].todo
             m == task[w].made
  <2>1. /\ p # <<>> /\ p[1].do = "describe" /\ Now(w) = p[1] /\ p \in Seq(Steps)
        /\ Len(p) \in Nat \ {0}
    BY <1>1, AtHead, Rest
  <2>2. 1 \in 1 .. Len(p) /\ DOMAIN p = 1 .. Len(p)
    BY <2>1
  <2>3. Regenerating(w)
    BY <1>1, <2>1, <2>2 DEF Regenerating
  <2>4. \A i \in 1 .. Len(p) : p[i].do \notin {"kind", "replace", "drop"}
    <3> SUFFICES ASSUME NEW i \in 1 .. Len(p), p[i].do \in {"kind", "replace", "drop"}
                 PROVE  FALSE
      OBVIOUS
    <3>1. ReplacesInOrder(p)
      BY <1>1 DEF ServiceInv, Programs, InOrder
    <3>2. CASE i = 1
      BY <2>1, <3>2
    <3>3. CASE i # 1
      <4>1. 1 \in 1 .. i /\ 1 \in 1 .. (i - 1)
        BY <2>1, <3>3
      <4>2. p[1].do \in {"kind", "drop"}
        BY <3>1, <4>1 DEF ReplacesInOrder
      <4> QED BY <2>1, <4>2
    <3> QED BY <3>2, <3>3
  <2>5. Profiles \subseteq task[w].beyond
    <3>1. \A h : ~ToDrop(task[w], h)
      BY <2>4 DEF ToDrop
    <3> QED BY <1>1, <2>3, <3>1 DEF ServiceInv, AloneReplaces
  <2>6. mem' = [mem EXCEPT ![m].kind = "profile", ![m].user = Now(w).user]
    BY <1>1 DEF describe, Described
  <2>7. mem \in [Live -> Memories]
    BY <1>1 DEF ServiceInv, StoreTypes
  <2>8. /\ DOMAIN mem' = Live /\ mem'[m].kind = "profile"
        /\ \A h \in Live \ {m} : mem'[h] = mem[h]
    BY <1>1, <2>6, <2>7 DEF Memories
  <2> HIDE DEF m
  <2> QED BY <1>1, <2>5, <2>8 DEF Profiles, m
<1>2. ServiceInv /\ [ServiceNext]_serviceVars =>
        [\A w \in Worker :
           ( /\ At(w, "describe") /\ Now(w).kind = "profile"
             /\ task[w].alone /\ task[w].made \in Live /\ describe(w) )
           => {h \in DOMAIN mem' : mem'[h].kind = "profile"}
                \subseteq task[w].beyond \union {task[w].made}]_serviceVars
  BY <1>1
<1> QED BY <1>2, ServiceInvHolds, PTL DEF ServiceSpec, ReplacesEveryProfile

=============================================================================
