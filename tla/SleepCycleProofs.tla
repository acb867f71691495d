-------------------------- MODULE SleepCycleProofs --------------------------
(***************************************************************************)
(* Proofs about SleepCycle: its types, the lease protocol and the order in *)
(* which a compression writes, for any number of sessions, sweepers and    *)
(* handlers, any lease time and any number of crashes and failures.        *)
(***************************************************************************)
EXTENDS SleepCycle, FiniteSetTheorems, SequenceTheorems, TLAPS

\* The program points and outcomes, as members of their sets.
LEMMA Constants ==
  /\ \A p \in {"idle", "scan", "acquire", "count", "record", "leased", "close",
             "read", "insert", "mark", "meta", "archive", "release"} : p \in PC
  /\ \A o \in {"success", "leased", "already_compressed", "failed"} : o \in Outcome
  /\ \A w \in Sweeper \cup Handler : w \in Worker
  /\ <<>> \in Seq(Session)
BY DEF PC, Leased, Outcome, Worker

\* A process whose locals go out of scope keeps its locals typed.
LEMMA ForgetOK ==
  ASSUME LocalsOK, NEW w \in Worker, Forget(w),
         queue' = queue \/ queue' = [queue EXCEPT ![w] = <<>>]
  PROVE  /\ LocalsOK'
         /\ \A v \in Worker : v # w => subject'[v] = subject[v]
<1>1. subject' \in [Worker -> Session \cup {None}]
  BY DEF LocalsOK, Forget
<1>2. queue' \in [Worker -> Seq(Session)]
  BY Constants DEF LocalsOK
<1>3. stamp' \in [Worker -> Nat] /\ seen' \in [Worker -> Nat]
  BY DEF LocalsOK, Forget
<1>4. outcome' \in [Worker -> Outcome]
  BY Constants DEF LocalsOK, Forget
<1> QED
  BY <1>1, <1>2, <1>3, <1>4 DEF LocalsOK, Forget

\* What the candidate query returns is a sequence of sessions.
LEMMA CandidatesOK ==
  ASSUME NEW q \in list_sweep_candidates PROVE q \in Seq(Session)
<1> DEFINE found == {s \in Session : IsCandidate(s)}
<1> DEFINE size == IF Cardinality(found) < Limit THEN Cardinality(found) ELSE Limit
<1>1. Cardinality(found) \in Nat
  <2>1. IsFiniteSet(Session)
    BY ConstantsAssumption DEF ConstantsAssumption
  <2>2. found \subseteq Session
    OBVIOUS
  <2>3. IsFiniteSet(found)
    BY <2>1, <2>2, FS_Subset
  <2> QED
    BY <2>3, FS_CardinalityType
<1>2. size \in Nat
  BY <1>1, ConstantsAssumption DEF ConstantsAssumption
<1>3. q \in [1..size -> found]
  BY DEF list_sweep_candidates
<1> HIDE DEF size
<1>4. q \in [1..size -> Session]
  BY <1>3
<1> QED
  BY <1>2, <1>4, SeqDef

\* The tables and every local of every process keep their types; a process
\* that is past its entry point has a session (sweep.rs, compress.rs, db.rs).
THEOREM TypeCorrect == Spec => []TypeOK
<1> USE ConstantsAssumption DEF ConstantsAssumption
<1>1. Init => TypeOK
  BY Constants DEF Init, TypeOK, TableOK, LocalsOK, ControlOK
<1>2. TypeOK /\ [Next]_vars => TypeOK'
  <2> SUFFICES ASSUME TypeOK, [Next]_vars PROVE TypeOK'
    OBVIOUS
  <2> USE DEF TypeOK
  <2>1. ASSUME NEW s \in Session, create_session(s) PROVE TypeOK'
    BY Constants, <2>1 DEF create_session, locals, budgets, TableOK, LocalsOK, ControlOK
  <2>2. ASSUME NEW s \in Session, insert_observation(s) PROVE TypeOK'
    BY SMTT(30), Constants, <2>2 DEF insert_observation, locals, budgets, TableOK, LocalsOK, ControlOK
  <2>3. CASE Tick
    BY Constants, <2>3 DEF Tick, table, locals, budgets, TableOK, LocalsOK, ControlOK
  <2>4. ASSUME NEW w \in Sweeper, StartSweep(w) PROVE TypeOK'
    <3>1. TableOK'
      BY <2>4 DEF StartSweep, table, TableOK
    <3>2. LocalsOK'
      BY CandidatesOK, Constants, <2>4 DEF StartSweep, LocalsOK
    <3>3. ControlOK'
      BY Constants, <2>4 DEF StartSweep, Goto, ControlOK
    <3> QED
      BY <3>1, <3>2, <3>3, <2>4 DEF StartSweep, budgets
  <2>5. ASSUME NEW w \in Sweeper, EndSweep(w) PROVE TypeOK'
    BY Constants, <2>5 DEF EndSweep, Goto, table, locals, budgets, TableOK, LocalsOK, ControlOK
  <2>6. ASSUME NEW w \in Sweeper, ExpireLease(w) PROVE TypeOK'
    <3>1. TableOK'
      BY Constants, <2>6 DEF ExpireLease, TableOK
    <3>2. LocalsOK'
      BY Constants, <2>6 DEF ExpireLease, LocalsOK
    <3>3. ControlOK'
      BY Constants, <2>6 DEF ExpireLease, Goto, LocalsOK, ControlOK
    <3> QED
      BY <3>1, <3>2, <3>3, <2>6 DEF ExpireLease, budgets
  <2>7. ASSUME NEW w \in Sweeper, InsertLease(w) PROVE TypeOK'
    <3>1. TableOK'
      <4>1. [owner |-> w, until |-> stamp[w] + LeaseSecs] \in Lease
        BY SMTT(30), Constants DEF LocalsOK, Lease
      <4> QED
        BY Constants, <4>1, <2>7 DEF InsertLease, TableOK
    <3>2. LocalsOK'
      BY <2>7 DEF InsertLease, locals, LocalsOK
    <3>3. ControlOK'
      BY Constants, <2>7 DEF InsertLease, Goto, locals, ControlOK
    <3> QED
      BY <3>1, <3>2, <3>3, <2>7 DEF InsertLease, budgets
  <2>8. ASSUME NEW w \in Sweeper, SkipLeased(w) PROVE TypeOK'
    <3>1. TableOK'
      BY <2>8 DEF SkipLeased, table, TableOK
    <3>2. LocalsOK'
      BY Constants, <2>8 DEF SkipLeased, LocalsOK
    <3>3. ControlOK'
      BY Constants, <2>8 DEF SkipLeased, Goto, ControlOK
    <3> QED
      BY <3>1, <3>2, <3>3, <2>8 DEF SkipLeased, budgets
  <2>9. ASSUME NEW w \in Sweeper, Recheck(w) PROVE TypeOK'
    <3>1. TableOK'
      BY <2>9 DEF Recheck, table, TableOK
    <3>2. LocalsOK'
      <4>1. outcome' \in [Worker -> Outcome]
        BY ZenonT(60), Constants, <2>9 DEF Recheck, LocalsOK
      <4>2. UNCHANGED <<subject, queue, stamp, seen>>
        BY <2>9 DEF Recheck
      <4> QED
        BY <4>1, <4>2 DEF LocalsOK
    <3>3. ControlOK'
      <4>1. ASSUME NEW p \in PC, Goto(w, "leased", p), UNCHANGED subject
            PROVE  ControlOK'
        BY Constants, <4>1 DEF Goto, ControlOK
      <4> QED
        BY Constants, <4>1, <2>9 DEF Recheck
    <3> QED
      BY <3>1, <3>2, <3>3, <2>9 DEF Recheck, budgets
  <2>10. ASSUME NEW w \in Sweeper, end_session_if_open(w) PROVE TypeOK'
    BY Constants, <2>10 DEF end_session_if_open, Goto, locals, budgets, TableOK, LocalsOK, ControlOK
  <2>11. ASSUME NEW w \in Sweeper, release_sweep_lease(w) PROVE TypeOK'
    <3>1. TableOK'
      BY Constants, <2>11 DEF release_sweep_lease, TableOK
    <3>2. LocalsOK'
      BY <2>11 DEF release_sweep_lease, locals, LocalsOK
    <3>3. ControlOK'
      BY Constants, <2>11 DEF release_sweep_lease, Goto, locals, ControlOK
    <3> QED
      BY <3>1, <3>2, <3>3, <2>11 DEF release_sweep_lease
  <2>12. ASSUME NEW w \in Sweeper, record_action(w) PROVE TypeOK'
    <3>1. TableOK'
      <4>1. subject[w] \in Session /\ outcome[w] \in Outcome
        BY Constants, <2>12 DEF record_action, Goto, LocalsOK, ControlOK
      <4>2. events[subject[w]] \cup {outcome[w]} \in SUBSET Outcome
        BY <4>1 DEF TableOK
      <4> QED
        BY <4>1, <4>2, <2>12 DEF record_action, TableOK
    <3>2. LocalsOK'
      BY Constants, ForgetOK, <2>12 DEF record_action
    <3>3. ControlOK'
      <4>1. pc' \in [Worker -> PC]
        BY Constants, <2>12 DEF record_action, Goto, ControlOK
      <4>2. ASSUME NEW v \in Worker, pc'[v] \notin {"idle", "scan"}
            PROVE  subject'[v] \in Session
        BY Constants, ForgetOK, <4>2, <2>12 DEF record_action, Goto, ControlOK
      <4> QED
        BY <4>1, <4>2 DEF ControlOK
    <3> QED
      BY <3>1, <3>2, <3>3, <2>12 DEF record_action, budgets
  <2>13. ASSUME NEW w \in Handler, NEW s \in Session, session_end(w, s) PROVE TypeOK'
    <3>1. TableOK'
      BY Constants, <2>13 DEF session_end, TableOK
    <3>2. LocalsOK'
      BY Constants, <2>13 DEF session_end, LocalsOK
    <3>3. ControlOK'
      BY Constants, <2>13 DEF session_end, Goto, LocalsOK, ControlOK
    <3> QED
      BY <3>1, <3>2, <3>3, <2>13 DEF session_end
  <2>14. ASSUME NEW w \in Handler, NEW s \in Session, compress_session(w, s) PROVE TypeOK'
    <3>1. TableOK'
      BY <2>14 DEF compress_session, table, TableOK
    <3>2. LocalsOK'
      BY Constants, <2>14 DEF compress_session, LocalsOK
    <3>3. ControlOK'
      BY Constants, <2>14 DEF compress_session, Goto, LocalsOK, ControlOK
    <3> QED
      BY <3>1, <3>2, <3>3, <2>14 DEF compress_session
  <2>15. ASSUME NEW w \in Handler, CountObservations(w) PROVE TypeOK'
    <3>1. TableOK'
      BY <2>15 DEF CountObservations, table, TableOK
    <3>2. LocalsOK'
      BY Constants, ForgetOK, <2>15 DEF CountObservations, LocalsOK
    <3>3. ControlOK'
      <4>1. pc' \in [Worker -> PC]
        BY Constants, <2>15 DEF CountObservations, Goto, ControlOK
      <4>2. ASSUME NEW v \in Worker, pc'[v] \notin {"idle", "scan"}
            PROVE  subject'[v] \in Session
        BY Constants, ForgetOK, <4>2, <2>15 DEF CountObservations, Goto, ControlOK
      <4> QED
        BY <4>1, <4>2 DEF ControlOK
    <3> QED
      BY <3>1, <3>2, <3>3, <2>15 DEF CountObservations, budgets
  <2>16. ASSUME NEW w \in Worker, ReadObservations(w) PROVE TypeOK'
    <3>1. TableOK'
      BY <2>16 DEF ReadObservations, table, TableOK
    <3>2. LocalsOK'
      <4>1. count[subject[w]] \in Nat
        BY Constants, <2>16 DEF ReadObservations, Goto, TableOK, ControlOK
      <4> QED
        BY <4>1, <2>16 DEF ReadObservations, LocalsOK
    <3>3. ControlOK'
      BY Constants, <2>16 DEF ReadObservations, Goto, ControlOK
    <3> QED
      BY <3>1, <3>2, <3>3, <2>16 DEF ReadObservations, budgets
  <2>17. ASSUME NEW w \in Worker, insert_memory(w) PROVE TypeOK'
    <3>1. TableOK'
      <4>1. subject[w] \in Session
        BY Constants, <2>17 DEF insert_memory, Goto, ControlOK
      <4>2. seen[w] \in Nat
        BY DEF LocalsOK
      <4>3. Append(narratives[subject[w]], seen[w]) \in Seq(Nat)
        BY <4>1, <4>2 DEF TableOK
      <4> QED
        BY <4>1, <4>3, <2>17 DEF insert_memory, TableOK
    <3>2. LocalsOK'
      BY <2>17 DEF insert_memory, locals, LocalsOK
    <3>3. ControlOK'
      BY Constants, <2>17 DEF insert_memory, Goto, locals, ControlOK
    <3> QED
      BY <3>1, <3>2, <3>3, <2>17 DEF insert_memory, budgets
  <2>18. ASSUME NEW w \in Worker, mark_compressed(w) PROVE TypeOK'
    BY Constants, <2>18 DEF mark_compressed, Goto, locals, budgets, TableOK, LocalsOK, ControlOK
  <2>19. ASSUME NEW w \in Worker, DescribeMemory(w) PROVE TypeOK'
    BY Constants, <2>19 DEF DescribeMemory, Goto, table, locals, budgets, TableOK, LocalsOK, ControlOK
  <2>20. ASSUME NEW w \in Worker, ArchiveTranscript(w) PROVE TypeOK'
    <3>1. TableOK'
      BY <2>20 DEF ArchiveTranscript, table, TableOK
    <3>2. LocalsOK'
      <4>1. CASE w \in Sweeper /\ outcome' = [outcome EXCEPT ![w] = "success"]
                 /\ UNCHANGED <<subject, stamp, seen>>
        BY Constants, <4>1, <2>20 DEF ArchiveTranscript, LocalsOK
      <4>2. CASE Forget(w)
        BY Constants, ForgetOK, <4>2, <2>20 DEF ArchiveTranscript
      <4> QED
        BY <4>1, <4>2, <2>20 DEF ArchiveTranscript
    <3>3. ControlOK'
      <4>1. pc' \in [Worker -> PC]
        BY Constants, <2>20 DEF ArchiveTranscript, Goto, ControlOK
      <4>2. ASSUME NEW v \in Worker, pc'[v] \notin {"idle", "scan"}
            PROVE  subject'[v] \in Session
        BY Constants, ForgetOK, <4>2, <2>20 DEF ArchiveTranscript, Goto, ControlOK
      <4> QED
        BY <4>1, <4>2 DEF ControlOK
    <3> QED
      BY <3>1, <3>2, <3>3, <2>20 DEF ArchiveTranscript, budgets
  <2>21. ASSUME NEW w \in Worker, StatementFails(w) PROVE TypeOK'
    <3>1. TableOK'
      BY <2>21 DEF StatementFails, table, TableOK
    <3>2. LocalsOK'
      <4>1. CASE outcome' = [outcome EXCEPT ![w] = "failed"]
                 /\ UNCHANGED <<subject, stamp, seen>>
        BY Constants, <4>1, <2>21 DEF StatementFails, LocalsOK
      <4>2. CASE Forget(w)
        BY Constants, ForgetOK, <4>2, <2>21 DEF StatementFails
      <4> QED
        BY <4>1, <4>2, <2>21 DEF StatementFails
    <3>3. ControlOK'
      <4>1. pc' \in [Worker -> PC]
        BY Constants, <2>21 DEF StatementFails, Fallible, ControlOK
      <4>2. ASSUME NEW v \in Worker, pc'[v] \notin {"idle", "scan"}
            PROVE  subject'[v] \in Session
        BY Constants, ForgetOK, <4>2, <2>21 DEF StatementFails, Fallible, ControlOK
      <4> QED
        BY <4>1, <4>2 DEF ControlOK
    <3> QED
      BY <3>1, <3>2, <3>3, <2>21 DEF StatementFails
  <2>22. ASSUME NEW w \in Worker, SweepAborts(w) PROVE TypeOK'
    <3>1. TableOK'
      BY <2>22 DEF SweepAborts, table, TableOK
    <3>2. LocalsOK'
      BY Constants, ForgetOK, <2>22 DEF SweepAborts
    <3>3. ControlOK'
      <4>1. pc' \in [Worker -> PC]
        BY Constants, <2>22 DEF SweepAborts, ControlOK
      <4>2. ASSUME NEW v \in Worker, pc'[v] \notin {"idle", "scan"}
            PROVE  subject'[v] \in Session
        BY Constants, ForgetOK, <4>2, <2>22 DEF SweepAborts, ControlOK
      <4> QED
        BY <4>1, <4>2 DEF ControlOK
    <3> QED
      BY <3>1, <3>2, <3>3, <2>22 DEF SweepAborts
  <2>23. ASSUME NEW w \in Worker, Crash(w) PROVE TypeOK'
    <3>1. TableOK'
      BY <2>23 DEF Crash, table, TableOK
    <3>2. LocalsOK'
      BY Constants, ForgetOK, <2>23 DEF Crash
    <3>3. ControlOK'
      <4>1. pc' \in [Worker -> PC]
        BY Constants, <2>23 DEF Crash, ControlOK
      <4>2. ASSUME NEW v \in Worker, pc'[v] \notin {"idle", "scan"}
            PROVE  subject'[v] \in Session
        BY Constants, ForgetOK, <4>2, <2>23 DEF Crash, ControlOK
      <4> QED
        BY <4>1, <4>2 DEF ControlOK
    <3> QED
      BY <3>1, <3>2, <3>3, <2>23 DEF Crash
  <2>24. CASE UNCHANGED vars
    BY <2>24 DEF vars, table, locals, budgets, TableOK, LocalsOK, ControlOK
  <2> QED
    BY <2>1, <2>2, <2>3, <2>4, <2>5, <2>6, <2>7, <2>8, <2>9, <2>10, <2>11, <2>12, <2>13, <2>14, <2>15, <2>16, <2>17, <2>18, <2>19, <2>20, <2>21, <2>22, <2>23, <2>24
       DEF Next, Client, SweepStep, Request, Compress, Fault
<1> QED
  BY <1>1, <1>2, PTL DEF Spec
-----------------------------------------------------------------------------
(* The lease protocol.                                                      *)

\* A sweeper never runs the request handlers' entry code, so that whatever
\* takes it to a leased program point went through InsertLease.
LeaseInv ==
  /\ LeaseIntact
  /\ \A w \in Sweeper : pc[w] # "count"

LEMMA LeaseInvariant == Spec => []LeaseInv
<1> USE ConstantsAssumption DEF ConstantsAssumption
<1>1. Init => LeaseInv
  BY Constants DEF Init, LeaseInv, LeaseIntact, HoldsLease, Leased
<1>2. TypeOK /\ LeaseInv /\ [Next]_vars => LeaseInv'
  <2> SUFFICES ASSUME TypeOK, LeaseInv, [Next]_vars PROVE LeaseInv'
    OBVIOUS
  <2> USE DEF TypeOK, TableOK, LocalsOK, ControlOK
  <2>1. ASSUME NEW s \in Session, create_session(s) PROVE LeaseInv'
    BY Constants, <2>1 DEF create_session, table, locals, LeaseInv, LeaseIntact, HoldsLease, Leased
  <2>2. ASSUME NEW s \in Session, insert_observation(s) PROVE LeaseInv'
    BY Constants, <2>2 DEF insert_observation, table, locals, LeaseInv, LeaseIntact, HoldsLease, Leased
  <2>3. CASE Tick
    BY Constants, <2>3 DEF Tick, table, locals, LeaseInv, LeaseIntact, HoldsLease, Leased
  <2>4. ASSUME NEW v \in Sweeper, StartSweep(v) PROVE LeaseInv'
    BY SMTT(30), Constants, <2>4 DEF StartSweep, Goto, table, locals, LeaseInv, LeaseIntact, HoldsLease, Leased
  <2>5. ASSUME NEW v \in Sweeper, EndSweep(v) PROVE LeaseInv'
    BY Constants, <2>5 DEF EndSweep, Goto, table, locals, LeaseInv, LeaseIntact, HoldsLease, Leased
  <2>6. ASSUME NEW v \in Sweeper, ExpireLease(v) PROVE LeaseInv'
    <3>1. ASSUME NEW w \in Sweeper, HoldsLease(w)'
          PROVE  (leases[subject[w]] = [owner |-> w, until |-> stamp[w] + LeaseSecs])'
      <4>1. CASE w = v
        BY Constants, <3>1, <4>1, <2>6 DEF ExpireLease, Goto, HoldsLease, Leased
      <4>2. CASE w # v
        <5>1. HoldsLease(w) /\ subject'[w] = subject[w] /\ stamp'[w] = stamp[w]
          BY Constants, <3>1, <4>2, <2>6 DEF ExpireLease, Goto, HoldsLease
        <5>2. leases[subject[w]] = [owner |-> w, until |-> stamp[w] + LeaseSecs]
          BY <5>1 DEF LeaseInv, LeaseIntact
        <5>3. leases[subject[w]].until > now
          BY Constants, <5>1, <5>2 DEF HoldsLease
        <5>4. \/ leases' = leases
              \/ /\ leases' = [leases EXCEPT ![Head(queue[v])] = None]
                 /\ leases[Head(queue[v])].until <= now
          BY <2>6 DEF ExpireLease
        <5>5. leases'[subject[w]] = leases[subject[w]]
          <6>1. subject[w] \in Session
            BY Constants, <5>1 DEF HoldsLease, Leased
          <6>2. CASE Head(queue[v]) = subject[w]
            <7>1. leases[subject[w]].until \in Int /\ now \in Int
              BY Constants, <5>2
            <7>2. ~(leases[subject[w]].until <= now)
              BY <5>3, <7>1
            <7> QED
              BY <5>4, <6>2, <7>2
          <6>3. CASE Head(queue[v]) # subject[w]
            BY <5>4, <6>1, <6>3
          <6> QED
            BY <6>2, <6>3
        <5> QED
          BY <5>1, <5>2, <5>5
      <4> QED
        BY <4>1, <4>2
    <3>2. \A w \in Sweeper : pc'[w] # "count"
      BY Constants, <2>6 DEF ExpireLease, Goto, LeaseInv
    <3> QED
      BY <3>1, <3>2 DEF LeaseInv, LeaseIntact
  <2>7. ASSUME NEW v \in Sweeper, InsertLease(v) PROVE LeaseInv'
    <3>1. ASSUME NEW w \in Sweeper, HoldsLease(w)'
          PROVE  (leases[subject[w]] = [owner |-> w, until |-> stamp[w] + LeaseSecs])'
      <4>1. CASE w = v
        BY Constants, <3>1, <4>1, <2>7 DEF InsertLease, Goto, locals, HoldsLease, Leased
      <4>2. CASE w # v
        <5>1. HoldsLease(w) /\ subject'[w] = subject[w] /\ stamp'[w] = stamp[w]
          BY Constants, <3>1, <4>2, <2>7 DEF InsertLease, Goto, locals, HoldsLease
        <5>2. leases[subject[w]] = [owner |-> w, until |-> stamp[w] + LeaseSecs]
          BY <5>1 DEF LeaseInv, LeaseIntact
        <5>3. leases[subject[w]] \in Lease
          BY SMTT(30), Constants, <5>2 DEF Lease
        <5>4. subject[w] # subject[v]
          BY <5>3, <2>7 DEF InsertLease
        <5> QED
          BY Constants, <5>1, <5>2, <5>4, <2>7 DEF InsertLease, Goto
      <4> QED
        BY <4>1, <4>2
    <3>2. \A w \in Sweeper : pc'[w] # "count"
      BY Constants, <2>7 DEF InsertLease, Goto, LeaseInv
    <3> QED
      BY <3>1, <3>2 DEF LeaseInv, LeaseIntact
  <2>8. ASSUME NEW v \in Sweeper, SkipLeased(v) PROVE LeaseInv'
    BY Constants, <2>8 DEF SkipLeased, Goto, table, locals, LeaseInv, LeaseIntact, HoldsLease, Leased
  <2>9. ASSUME NEW v \in Sweeper, Recheck(v) PROVE LeaseInv'
    BY SMTT(30), Constants, <2>9 DEF Recheck, Goto, table, locals, LeaseInv, LeaseIntact, HoldsLease, Leased
  <2>10. ASSUME NEW v \in Sweeper, end_session_if_open(v) PROVE LeaseInv'
    BY Constants, <2>10 DEF end_session_if_open, Goto, table, locals, LeaseInv, LeaseIntact, HoldsLease, Leased
  <2>11. ASSUME NEW v \in Sweeper, release_sweep_lease(v) PROVE LeaseInv'
    <3>1. ASSUME NEW w \in Sweeper, HoldsLease(w)'
          PROVE  (leases[subject[w]] = [owner |-> w, until |-> stamp[w] + LeaseSecs])'
      <4>1. CASE w = v
        BY Constants, <3>1, <4>1, <2>11 DEF release_sweep_lease, Goto, HoldsLease, Leased
      <4>2. CASE w # v
        <5>1. HoldsLease(w) /\ subject'[w] = subject[w] /\ stamp'[w] = stamp[w]
          BY Constants, <3>1, <4>2, <2>11 DEF release_sweep_lease, Goto, locals, HoldsLease
        <5>2. leases[subject[w]] = [owner |-> w, until |-> stamp[w] + LeaseSecs]
          BY <5>1 DEF LeaseInv, LeaseIntact
        <5>3. leases[subject[w]].owner # v
          BY <4>2, <5>2
        <5>4. \/ leases' = leases
              \/ /\ leases' = [leases EXCEPT ![subject[v]] = None]
                 /\ leases[subject[v]].owner = v
          BY <2>11 DEF release_sweep_lease
        <5>5. leases'[subject[w]] = leases[subject[w]]
          <6>1. subject[w] \in Session
            BY Constants, <5>1 DEF HoldsLease, Leased
          <6> QED
            BY <5>3, <5>4, <6>1
        <5> QED
          BY <5>1, <5>2, <5>5
      <4> QED
        BY <4>1, <4>2
    <3>2. \A w \in Sweeper : pc'[w] # "count"
      BY Constants, <2>11 DEF release_sweep_lease, Goto, LeaseInv
    <3> QED
      BY <3>1, <3>2 DEF LeaseInv, LeaseIntact
  <2>12. ASSUME NEW v \in Sweeper, record_action(v) PROVE LeaseInv'
    BY Constants, <2>12 DEF record_action, Goto, Forget, table, locals, LeaseInv, LeaseIntact, HoldsLease, Leased
  <2>13. ASSUME NEW v \in Handler, NEW s \in Session, session_end(v, s) PROVE LeaseInv'
    BY Constants, <2>13 DEF session_end, Goto, table, locals, LeaseInv, LeaseIntact, HoldsLease, Leased
  <2>14. ASSUME NEW v \in Handler, NEW s \in Session, compress_session(v, s) PROVE LeaseInv'
    BY ZenonT(60), Constants, <2>14 DEF compress_session, Goto, table, locals, LeaseInv, LeaseIntact, HoldsLease, Leased
  <2>15. ASSUME NEW v \in Handler, CountObservations(v) PROVE LeaseInv'
    <3>1. UNCHANGED <<leases, now>>
      BY <2>15 DEF CountObservations, table
    <3>2. ASSUME NEW w \in Sweeper
          PROVE  /\ pc'[w] = pc[w]
                 /\ subject'[w] = subject[w] /\ stamp'[w] = stamp[w]
      <4>1. v # w
        OBVIOUS
      <4>2. CASE pc' = [pc EXCEPT ![v] = "idle"] /\ Forget(v)
        BY <4>1, <4>2 DEF Forget
      <4>3. CASE pc' = [pc EXCEPT ![v] = "read"] /\ UNCHANGED <<subject, stamp>>
        BY <4>1, <4>3
      <4> QED
        BY <2>15, <4>2, <4>3 DEF CountObservations, Goto
    <3>3. LeaseIntact'
      BY <3>1, <3>2 DEF LeaseInv, LeaseIntact, HoldsLease
    <3>4. \A w \in Sweeper : pc'[w] # "count"
      BY <3>2 DEF LeaseInv
    <3> QED
      BY <3>3, <3>4 DEF LeaseInv
  <2>16. ASSUME NEW v \in Worker, ReadObservations(v) PROVE LeaseInv'
    BY Constants, <2>16 DEF ReadObservations, Goto, table, locals, LeaseInv, LeaseIntact, HoldsLease, Leased
  <2>17. ASSUME NEW v \in Worker, insert_memory(v) PROVE LeaseInv'
    BY Constants, <2>17 DEF insert_memory, Goto, table, locals, LeaseInv, LeaseIntact, HoldsLease, Leased
  <2>18. ASSUME NEW v \in Worker, mark_compressed(v) PROVE LeaseInv'
    BY Constants, <2>18 DEF mark_compressed, Goto, table, locals, LeaseInv, LeaseIntact, HoldsLease, Leased
  <2>19. ASSUME NEW v \in Worker, DescribeMemory(v) PROVE LeaseInv'
    BY Constants, <2>19 DEF DescribeMemory, Goto, table, locals, LeaseInv, LeaseIntact, HoldsLease, Leased
  <2>20. ASSUME NEW v \in Worker, ArchiveTranscript(v) PROVE LeaseInv'
    <3>1. ASSUME NEW w \in Sweeper, HoldsLease(w)'
          PROVE  (leases[subject[w]] = [owner |-> w, until |-> stamp[w] + LeaseSecs])'
      <4>1. CASE w = v
        <5>1. HoldsLease(w) /\ subject'[w] = subject[w] /\ stamp'[w] = stamp[w]
          BY Constants, <3>1, <4>1, <2>20 DEF ArchiveTranscript, Goto, Forget, HoldsLease, Leased
        <5> QED
          BY <5>1, <2>20 DEF ArchiveTranscript, table, LeaseInv, LeaseIntact
      <4>2. CASE w # v
        <5>1. HoldsLease(w) /\ subject'[w] = subject[w] /\ stamp'[w] = stamp[w]
          BY Constants, <3>1, <4>2, <2>20 DEF ArchiveTranscript, Goto, Forget, HoldsLease
        <5>2. leases[subject[w]] = [owner |-> w, until |-> stamp[w] + LeaseSecs]
          BY <5>1 DEF LeaseInv, LeaseIntact
        <5> QED
          BY <5>1, <5>2, <2>20 DEF ArchiveTranscript, table
      <4> QED
        BY <4>1, <4>2
    <3>2. \A w \in Sweeper : pc'[w] # "count"
      BY Constants, <2>20 DEF ArchiveTranscript, Goto, LeaseInv
    <3> QED
      BY <3>1, <3>2 DEF LeaseInv, LeaseIntact
  <2>21. ASSUME NEW v \in Worker, StatementFails(v) PROVE LeaseInv'
    <3>1. ASSUME NEW w \in Sweeper, HoldsLease(w)'
          PROVE  (leases[subject[w]] = [owner |-> w, until |-> stamp[w] + LeaseSecs])'
      <4>1. CASE w = v
        <5>1. HoldsLease(w) /\ subject'[w] = subject[w] /\ stamp'[w] = stamp[w]
          BY Constants, <3>1, <4>1, <2>21
             DEF StatementFails, Fallible, HoldsLease, Leased, LeaseInv
        <5> QED
          BY <5>1, <2>21 DEF StatementFails, table, LeaseInv, LeaseIntact
      <4>2. CASE w # v
        <5>1. HoldsLease(w) /\ subject'[w] = subject[w] /\ stamp'[w] = stamp[w]
          BY Constants, <3>1, <4>2, <2>21 DEF StatementFails, Forget, HoldsLease
        <5>2. leases[subject[w]] = [owner |-> w, until |-> stamp[w] + LeaseSecs]
          BY <5>1 DEF LeaseInv, LeaseIntact
        <5> QED
          BY <5>1, <5>2, <2>21 DEF StatementFails, table
      <4> QED
        BY <4>1, <4>2
    <3>2. \A w \in Sweeper : pc'[w] # "count"
      BY Constants, <2>21 DEF StatementFails, LeaseInv
    <3> QED
      BY <3>1, <3>2 DEF LeaseInv, LeaseIntact
  <2>22. ASSUME NEW v \in Worker, SweepAborts(v) PROVE LeaseInv'
    BY Constants, <2>22 DEF SweepAborts, Forget, table, locals, LeaseInv, LeaseIntact, HoldsLease, Leased
  <2>23. ASSUME NEW v \in Worker, Crash(v) PROVE LeaseInv'
    BY Constants, <2>23 DEF Crash, Forget, table, locals, LeaseInv, LeaseIntact, HoldsLease, Leased
  <2>24. CASE UNCHANGED vars
    BY <2>24 DEF vars, table, locals, LeaseInv, LeaseIntact, HoldsLease, Leased
  <2> QED
    BY <2>1, <2>2, <2>3, <2>4, <2>5, <2>6, <2>7, <2>8, <2>9, <2>10, <2>11, <2>12, <2>13, <2>14, <2>15, <2>16, <2>17, <2>18, <2>19, <2>20, <2>21, <2>22, <2>23, <2>24
       DEF Next, Client, SweepStep, Request, Compress, Fault
<1> QED
  BY <1>1, <1>2, TypeCorrect, PTL DEF Spec

\* A lease that has not run out is still in the table, as its owner wrote it:
\* neither the expiry DELETE, the INSERT nor the release of another sweeper
\* (db.rs try_acquire_sweep_lease, release_sweep_lease) can touch it.
THEOREM LeaseSafe == Spec => []LeaseIntact
<1>1. LeaseInv => LeaseIntact
  BY DEF LeaseInv
<1> QED
  BY <1>1, LeaseInvariant, PTL

\* Two sweepers never hold an unexpired lease on the same session, so a second
\* sweeper cannot acquire an active lease.
THEOREM LeasesExclude == Spec => []LeaseExclusion
<1>1. LeaseIntact => LeaseExclusion
  <2> SUFFICES ASSUME LeaseIntact, NEW v \in Sweeper, NEW w \in Sweeper,
                      HoldsLease(v), HoldsLease(w), subject[v] = subject[w]
               PROVE  v = w
    BY DEF LeaseExclusion
  <2>1. leases[subject[v]] = [owner |-> v, until |-> stamp[v] + LeaseSecs]
    BY DEF LeaseIntact
  <2>2. leases[subject[w]] = [owner |-> w, until |-> stamp[w] + LeaseSecs]
    BY DEF LeaseIntact
  <2>3. leases[subject[v]].owner = v /\ leases[subject[w]].owner = w
    BY <2>1, <2>2
  <2> QED
    BY <2>3
<1> QED
  BY <1>1, LeaseSafe, PTL

-----------------------------------------------------------------------------
(* The order of the writes of a compression.                                *)

\* What mark_compressed relies on: persist() comes to it with the memory row.
NarrativeInv ==
  /\ CompressedHasNarrative
  /\ \A w \in Worker : pc[w] = "mark" => narratives[subject[w]] # <<>>

\* Whatever crashes or fails, a session marked compressed has a narrative: the
\* sweep never skips a session it has nothing of (compress.rs persist).
THEOREM CompressedIsRemembered == Spec => []CompressedHasNarrative
<1> USE ConstantsAssumption DEF ConstantsAssumption
<1>1. Init => NarrativeInv
  BY DEF Init, NarrativeInv, CompressedHasNarrative
<1>2. TypeOK /\ NarrativeInv /\ [Next]_vars => NarrativeInv'
  <2> SUFFICES ASSUME TypeOK, NarrativeInv, [Next]_vars PROVE NarrativeInv'
    OBVIOUS
  <2> USE DEF TypeOK, TableOK, LocalsOK, ControlOK
  <2>1. ASSUME NEW s \in Session, create_session(s) PROVE NarrativeInv'
    BY Constants, <2>1 DEF create_session, locals, NarrativeInv, CompressedHasNarrative
  <2>2. ASSUME NEW s \in Session, insert_observation(s) PROVE NarrativeInv'
    BY Constants, <2>2 DEF insert_observation, locals, NarrativeInv, CompressedHasNarrative
  <2>3. CASE Tick
    BY Constants, <2>3 DEF Tick, table, locals, NarrativeInv, CompressedHasNarrative
  <2>4. ASSUME NEW v \in Sweeper, StartSweep(v) PROVE NarrativeInv'
    BY Constants, <2>4 DEF StartSweep, Goto, table, NarrativeInv, CompressedHasNarrative
  <2>5. ASSUME NEW v \in Sweeper, EndSweep(v) PROVE NarrativeInv'
    BY Constants, <2>5 DEF EndSweep, Goto, table, locals, NarrativeInv, CompressedHasNarrative
  <2>6. ASSUME NEW v \in Sweeper, ExpireLease(v) PROVE NarrativeInv'
    BY Constants, <2>6 DEF ExpireLease, Goto, NarrativeInv, CompressedHasNarrative
  <2>7. ASSUME NEW v \in Sweeper, InsertLease(v) PROVE NarrativeInv'
    BY Constants, <2>7 DEF InsertLease, Goto, locals, NarrativeInv, CompressedHasNarrative
  <2>8. ASSUME NEW v \in Sweeper, SkipLeased(v) PROVE NarrativeInv'
    BY Constants, <2>8 DEF SkipLeased, Goto, table, NarrativeInv, CompressedHasNarrative
  <2>9. ASSUME NEW v \in Sweeper, Recheck(v) PROVE NarrativeInv'
    BY Constants, <2>9 DEF Recheck, Goto, table, NarrativeInv, CompressedHasNarrative
  <2>10. ASSUME NEW v \in Sweeper, end_session_if_open(v) PROVE NarrativeInv'
    BY Constants, <2>10 DEF end_session_if_open, Goto, locals, NarrativeInv, CompressedHasNarrative
  <2>11. ASSUME NEW v \in Sweeper, release_sweep_lease(v) PROVE NarrativeInv'
    BY Constants, <2>11 DEF release_sweep_lease, Goto, locals, NarrativeInv, CompressedHasNarrative
  <2>12. ASSUME NEW v \in Sweeper, record_action(v) PROVE NarrativeInv'
    BY Constants, <2>12 DEF record_action, Goto, Forget, NarrativeInv, CompressedHasNarrative
  <2>13. ASSUME NEW v \in Handler, NEW s \in Session, session_end(v, s) PROVE NarrativeInv'
    BY Constants, <2>13 DEF session_end, Goto, NarrativeInv, CompressedHasNarrative
  <2>14. ASSUME NEW v \in Handler, NEW s \in Session, compress_session(v, s) PROVE NarrativeInv'
    BY Constants, <2>14 DEF compress_session, Goto, table, NarrativeInv, CompressedHasNarrative
  <2>15. ASSUME NEW v \in Handler, CountObservations(v) PROVE NarrativeInv'
    BY ZenonT(60), Constants, <2>15 DEF CountObservations, Goto, Forget, table, NarrativeInv, CompressedHasNarrative
  <2>16. ASSUME NEW v \in Worker, ReadObservations(v) PROVE NarrativeInv'
    BY Constants, <2>16 DEF ReadObservations, Goto, table, NarrativeInv, CompressedHasNarrative
  <2>17. ASSUME NEW v \in Worker, insert_memory(v) PROVE NarrativeInv'
    <3>1. subject[v] \in Session
      BY <2>17 DEF insert_memory, Goto
    <3>2. \A s \in Session : narratives'[s] = IF s = subject[v]
            THEN Append(narratives[s], seen[v])
            ELSE narratives[s]
      BY <3>1, <2>17 DEF insert_memory
    <3>3. \A s \in Session : narratives[s] # <<>> \/ s = subject[v] => narratives'[s] # <<>>
      <4> DEFINE row == seen[v]
      <4>1. row \in Nat
        OBVIOUS
      <4> HIDE DEF row
      <4>2. \A s \in Session : narratives[s] \in Seq(Nat)
        OBVIOUS
      <4>3. ASSUME NEW s \in Session PROVE Append(narratives[s], row) # <<>>
        <5>1. narratives[s] \in Seq(Nat)
          BY <4>2
        <5> QED
          BY ONLY SMTT(30), <4>1, <5>1, AppendProperties
      <4> HIDE DEF TypeOK
      <4> QED
        BY ONLY <3>2, <4>3 DEF row
    <3>4. CompressedHasNarrative'
      BY <3>3, <2>17 DEF insert_memory, NarrativeInv, CompressedHasNarrative
    <3>5. ASSUME NEW w \in Worker, pc'[w] = "mark" PROVE narratives'[subject'[w]] # <<>>
      <4>1. subject'[w] = subject[w] /\ subject[w] \in Session
        BY <3>5, <2>17 DEF insert_memory, Goto
      <4>2. w = v \/ pc[w] = "mark"
        BY <3>5, <2>17 DEF insert_memory, Goto
      <4> QED
        BY <4>1, <4>2, <3>3 DEF NarrativeInv
    <3> QED
      BY <3>4, <3>5 DEF NarrativeInv
  <2>18. ASSUME NEW v \in Worker, mark_compressed(v) PROVE NarrativeInv'
    BY Constants, <2>18 DEF mark_compressed, Goto, locals, NarrativeInv, CompressedHasNarrative
  <2>19. ASSUME NEW v \in Worker, DescribeMemory(v) PROVE NarrativeInv'
    BY Constants, <2>19 DEF DescribeMemory, Goto, table, locals, NarrativeInv, CompressedHasNarrative
  <2>20. ASSUME NEW v \in Worker, ArchiveTranscript(v) PROVE NarrativeInv'
    BY SMTT(30), Constants, <2>20 DEF ArchiveTranscript, Goto, Forget, table, NarrativeInv, CompressedHasNarrative
  <2>21. ASSUME NEW v \in Worker, StatementFails(v) PROVE NarrativeInv'
    BY SMTT(30), Constants, <2>21 DEF StatementFails, Forget, table, NarrativeInv, CompressedHasNarrative
  <2>22. ASSUME NEW v \in Worker, SweepAborts(v) PROVE NarrativeInv'
    BY Constants, <2>22 DEF SweepAborts, Forget, table, NarrativeInv, CompressedHasNarrative
  <2>23. ASSUME NEW v \in Worker, Crash(v) PROVE NarrativeInv'
    BY Constants, <2>23 DEF Crash, Forget, table, NarrativeInv, CompressedHasNarrative
  <2>24. CASE UNCHANGED vars
    BY <2>24 DEF vars, table, locals, NarrativeInv, CompressedHasNarrative
  <2> QED
    BY <2>1, <2>2, <2>3, <2>4, <2>5, <2>6, <2>7, <2>8, <2>9, <2>10, <2>11, <2>12, <2>13, <2>14, <2>15, <2>16, <2>17, <2>18, <2>19, <2>20, <2>21, <2>22, <2>23, <2>24
       DEF Next, Client, SweepStep, Request, Compress, Fault
<1> QED
  BY <1>1, <1>2, TypeCorrect, PTL DEF Spec, NarrativeInv

\* What an outcome in flight says: the session of a process past
\* mark_compressed, or about to report it compressed, is compressed.
AuditInv ==
  /\ AuditIsTrue
  /\ \A w \in Worker : pc[w] \in {"meta", "archive"} => compressed[subject[w]]
  /\ \A w \in Worker :
       pc[w] \in {"release", "record"} /\ outcome[w] \in {"success", "already_compressed"}
         => compressed[subject[w]]

\* A sweep_events row that says a session was compressed tells the truth
\* (sweep.rs record_action).
THEOREM AuditTruthful == Spec => []AuditIsTrue
<1> USE ConstantsAssumption DEF ConstantsAssumption
<1>1. Init => AuditInv
  BY DEF Init, AuditInv, AuditIsTrue
<1>2. TypeOK /\ AuditInv /\ [Next]_vars => AuditInv'
  <2> SUFFICES ASSUME TypeOK, AuditInv, [Next]_vars PROVE AuditInv'
    OBVIOUS
  <2> USE DEF TypeOK, TableOK, LocalsOK, ControlOK
  <2>1. ASSUME NEW s \in Session, create_session(s) PROVE AuditInv'
    BY Constants, <2>1 DEF create_session, locals, AuditInv, AuditIsTrue
  <2>2. ASSUME NEW s \in Session, insert_observation(s) PROVE AuditInv'
    BY Constants, <2>2 DEF insert_observation, locals, AuditInv, AuditIsTrue
  <2>3. CASE Tick
    BY Constants, <2>3 DEF Tick, table, locals, AuditInv, AuditIsTrue
  <2>4. ASSUME NEW v \in Sweeper, StartSweep(v) PROVE AuditInv'
    BY Constants, <2>4 DEF StartSweep, Goto, table, AuditInv, AuditIsTrue
  <2>5. ASSUME NEW v \in Sweeper, EndSweep(v) PROVE AuditInv'
    BY Constants, <2>5 DEF EndSweep, Goto, table, locals, AuditInv, AuditIsTrue
  <2>6. ASSUME NEW v \in Sweeper, ExpireLease(v) PROVE AuditInv'
    BY ZenonT(60), Constants, <2>6 DEF ExpireLease, Goto, AuditInv, AuditIsTrue
  <2>7. ASSUME NEW v \in Sweeper, InsertLease(v) PROVE AuditInv'
    BY Constants, <2>7 DEF InsertLease, Goto, locals, AuditInv, AuditIsTrue
  <2>8. ASSUME NEW v \in Sweeper, SkipLeased(v) PROVE AuditInv'
    BY Constants, <2>8 DEF SkipLeased, Goto, table, AuditInv, AuditIsTrue
  <2>9. ASSUME NEW v \in Sweeper, Recheck(v) PROVE AuditInv'
    <3>1. UNCHANGED <<compressed, events, subject>>
      BY <2>9 DEF Recheck, table
    <3>2. CASE /\ pc' = [pc EXCEPT ![v] = "release"]
               /\ compressed[subject[v]]
               /\ outcome' = [outcome EXCEPT ![v] = "already_compressed"]
      BY <3>1, <3>2 DEF AuditInv, AuditIsTrue
    <3>3. CASE pc' = [pc EXCEPT ![v] = "close"] /\ UNCHANGED outcome
      BY <3>1, <3>3 DEF AuditInv, AuditIsTrue
    <3> QED
      BY <2>9, <3>2, <3>3 DEF Recheck, Goto
  <2>10. ASSUME NEW v \in Sweeper, end_session_if_open(v) PROVE AuditInv'
    BY Constants, <2>10 DEF end_session_if_open, Goto, locals, AuditInv, AuditIsTrue
  <2>11. ASSUME NEW v \in Sweeper, release_sweep_lease(v) PROVE AuditInv'
    BY Constants, <2>11 DEF release_sweep_lease, Goto, locals, AuditInv, AuditIsTrue
  <2>12. ASSUME NEW v \in Sweeper, record_action(v) PROVE AuditInv'
    BY SMTT(30), Constants, <2>12 DEF record_action, Goto, Forget, AuditInv, AuditIsTrue
  <2>13. ASSUME NEW v \in Handler, NEW s \in Session, session_end(v, s) PROVE AuditInv'
    BY Constants, <2>13 DEF session_end, Goto, AuditInv, AuditIsTrue
  <2>14. ASSUME NEW v \in Handler, NEW s \in Session, compress_session(v, s) PROVE AuditInv'
    BY SMTT(30), Constants, <2>14 DEF compress_session, Goto, table, AuditInv, AuditIsTrue
  <2>15. ASSUME NEW v \in Handler, CountObservations(v) PROVE AuditInv'
    <3>1. AuditIsTrue'
      BY <2>15 DEF CountObservations, table, AuditInv, AuditIsTrue
    <3>2. ASSUME NEW w \in Worker,
                 \/ pc'[w] \in {"meta", "archive"}
                 \/ /\ pc'[w] \in {"release", "record"}
                    /\ outcome'[w] \in {"success", "already_compressed"}
          PROVE  compressed'[subject'[w]]
      <4>1. CASE w = v
        BY <3>2, <4>1, <2>15 DEF CountObservations, Goto, Forget, table, AuditInv
      <4>2. CASE w # v
        <5>1. pc'[w] = pc[w] /\ outcome'[w] = outcome[w] /\ subject'[w] = subject[w]
          BY Constants, <4>2, <2>15 DEF CountObservations, Goto, Forget
        <5> QED
          BY <3>2, <5>1, <2>15 DEF CountObservations, table, AuditInv
      <4> QED
        BY <4>1, <4>2
    <3> QED
      BY <3>1, <3>2 DEF AuditInv
  <2>16. ASSUME NEW v \in Worker, ReadObservations(v) PROVE AuditInv'
    BY Constants, <2>16 DEF ReadObservations, Goto, table, AuditInv, AuditIsTrue
  <2>17. ASSUME NEW v \in Worker, insert_memory(v) PROVE AuditInv'
    BY Constants, <2>17 DEF insert_memory, Goto, locals, AuditInv, AuditIsTrue
  <2>18. ASSUME NEW v \in Worker, mark_compressed(v) PROVE AuditInv'
    BY SMTT(30), Constants, <2>18 DEF mark_compressed, Goto, locals, AuditInv, AuditIsTrue
  <2>19. ASSUME NEW v \in Worker, DescribeMemory(v) PROVE AuditInv'
    BY Constants, <2>19 DEF DescribeMemory, Goto, table, locals, AuditInv, AuditIsTrue
  <2>20. ASSUME NEW v \in Worker, ArchiveTranscript(v) PROVE AuditInv'
    <3>1. AuditIsTrue'
      BY <2>20 DEF ArchiveTranscript, table, AuditInv, AuditIsTrue
    <3>2. ASSUME NEW w \in Worker,
                 \/ pc'[w] \in {"meta", "archive"}
                 \/ /\ pc'[w] \in {"release", "record"}
                    /\ outcome'[w] \in {"success", "already_compressed"}
          PROVE  compressed'[subject'[w]]
      <4>1. CASE w = v
        BY <3>2, <4>1, <2>20 DEF ArchiveTranscript, Goto, Forget, table, AuditInv
      <4>2. CASE w # v
        <5>1. pc'[w] = pc[w] /\ outcome'[w] = outcome[w] /\ subject'[w] = subject[w]
          BY Constants, <4>2, <2>20 DEF ArchiveTranscript, Goto, Forget
        <5> QED
          BY <3>2, <5>1, <2>20 DEF ArchiveTranscript, table, AuditInv
      <4> QED
        BY <4>1, <4>2
    <3> QED
      BY <3>1, <3>2 DEF AuditInv
  <2>21. ASSUME NEW v \in Worker, StatementFails(v) PROVE AuditInv'
    <3>1. AuditIsTrue'
      BY <2>21 DEF StatementFails, table, AuditInv, AuditIsTrue
    <3>2. ASSUME NEW w \in Worker,
                 \/ pc'[w] \in {"meta", "archive"}
                 \/ /\ pc'[w] \in {"release", "record"}
                    /\ outcome'[w] \in {"success", "already_compressed"}
          PROVE  compressed'[subject'[w]]
      <4>1. CASE w = v
        BY <3>2, <4>1, <2>21 DEF StatementFails, Forget, table, AuditInv
      <4>2. CASE w # v
        <5>1. pc'[w] = pc[w] /\ outcome'[w] = outcome[w] /\ subject'[w] = subject[w]
          BY Constants, <4>2, <2>21 DEF StatementFails, Forget
        <5> QED
          BY <3>2, <5>1, <2>21 DEF StatementFails, table, AuditInv
      <4> QED
        BY <4>1, <4>2
    <3> QED
      BY <3>1, <3>2 DEF AuditInv
  <2>22. ASSUME NEW v \in Worker, SweepAborts(v) PROVE AuditInv'
    BY Constants, <2>22 DEF SweepAborts, Forget, table, AuditInv, AuditIsTrue
  <2>23. ASSUME NEW v \in Worker, Crash(v) PROVE AuditInv'
    BY Constants, <2>23 DEF Crash, Forget, table, AuditInv, AuditIsTrue
  <2>24. CASE UNCHANGED vars
    BY <2>24 DEF vars, table, locals, AuditInv, AuditIsTrue
  <2> QED
    BY <2>1, <2>2, <2>3, <2>4, <2>5, <2>6, <2>7, <2>8, <2>9, <2>10, <2>11, <2>12, <2>13, <2>14, <2>15, <2>16, <2>17, <2>18, <2>19, <2>20, <2>21, <2>22, <2>23, <2>24
       DEF Next, Client, SweepStep, Request, Compress, Fault
<1> QED
  BY <1>1, <1>2, TypeCorrect, PTL DEF Spec, AuditInv

-----------------------------------------------------------------------------
(* One narrative per session.                                               *)

\* Nothing has failed, nobody has asked for a compression, no lease ran out.
Calm == faults = 0 /\ requests = 0 /\ now < LeaseSecs

(***************************************************************************)
(* Under a lease, and until it writes, a sweeper's session has no          *)
(* narrative; one that has a narrative is compressed, or its sweeper is    *)
(* about to mark it.  The candidate lists are as stale as they like.       *)
(***************************************************************************)
Once ==
  /\ \A w \in Handler : pc[w] = "idle"
  /\ \A w \in Sweeper : pc[w] \in {"close", "read", "insert"} => narratives[subject[w]] = <<>>
  /\ \A s \in Session :
       \/ narratives[s] = <<>>
       \/ compressed[s]
       \/ \E w \in Sweeper : pc[w] = "mark" /\ subject[w] = s
  /\ \A s \in Session : Len(narratives[s]) <= 1

OnceInv == Calm => Once

\* While no lease has run out, a sweeper at a leased point holds its lease, so
\* it is alone with its session.
LEMMA LeasedAlone ==
  ASSUME TypeOK, LeaseInv, Calm,
         NEW v \in Sweeper, NEW w \in Sweeper, v # w, pc[v] \in Leased, pc[w] \in Leased
  PROVE  subject[v] # subject[w]
<1>1. \A u \in Sweeper : stamp[u] \in Nat
  BY Constants DEF TypeOK, LocalsOK
<1>2. \A u \in Sweeper : now < stamp[u] + LeaseSecs
  BY <1>1, ConstantsAssumption DEF Calm, TypeOK
<1>3. HoldsLease(v) /\ HoldsLease(w)
  BY <1>2 DEF HoldsLease
<1>4. /\ leases[subject[v]] = [owner |-> v, until |-> stamp[v] + LeaseSecs]
      /\ leases[subject[w]] = [owner |-> w, until |-> stamp[w] + LeaseSecs]
  BY <1>3 DEF LeaseInv, LeaseIntact
<1>5. leases[subject[v]].owner = v /\ leases[subject[w]].owner = w
  BY <1>4
<1> QED BY <1>5

\* A step that writes neither a narrative nor a mark.
LEMMA OnceQuiet ==
  ASSUME Once, NEW v \in Sweeper, UNCHANGED <<narratives, compressed>>,
         \A w \in Worker : w # v => pc'[w] = pc[w] /\ subject'[w] = subject[w],
         pc[v] # "mark",
         pc'[v] \in {"close", "read", "insert"}
           => subject'[v] = subject[v] /\ narratives[subject[v]] = <<>>
  PROVE  Once'
<1>1. \A w \in Handler : pc'[w] = "idle" \/ w = v
  BY Constants DEF Once
<1>2. v \notin Handler
  BY ConstantsAssumption
<1>3. \A w \in Sweeper : pc'[w] \in {"close", "read", "insert"} => narratives'[subject'[w]] = <<>>
  BY Constants DEF Once
<1>4. \A s \in Session :
        \/ narratives'[s] = <<>> \/ compressed'[s]
        \/ \E w \in Sweeper : pc'[w] = "mark" /\ subject'[w] = s
  BY Constants DEF Once
<1> QED BY <1>1, <1>2, <1>3, <1>4 DEF Once

LEMMA NextOnceInv ==
  ASSUME TypeOK, LeaseInv, OnceInv, [Next]_vars
  PROVE  OnceInv'
<1> SUFFICES ASSUME Calm' PROVE Once'
  BY DEF OnceInv
<1> USE Constants, ConstantsAssumption
<1>t. /\ now \in Nat /\ requests \in Nat /\ faults \in Nat
      /\ DOMAIN pc = Worker /\ DOMAIN subject = Worker
      /\ \A w \in Worker : pc[w] \notin {"idle", "scan"} => subject[w] \in Session
  BY DEF TypeOK, LocalsOK, ControlOK
<1>f. ASSUME faults' = faults + 1 PROVE FALSE
  BY <1>t, <1>f DEF Calm
<1>q. ASSUME requests' = requests + 1 PROVE FALSE
  BY <1>t, <1>q DEF Calm
<1>c. ASSUME UNCHANGED <<faults, requests>>, now' = now \/ now' = now + 1 PROVE Once
  BY <1>t, <1>c DEF Calm, OnceInv
<1>s. \A w \in Sweeper : w \in Worker /\ w \notin Handler
  OBVIOUS
<1>1. ASSUME NEW s \in Session, create_session(s) PROVE Once'
  BY <1>c, <1>1 DEF create_session, locals, budgets, Once
<1>2. ASSUME NEW s \in Session, insert_observation(s) PROVE Once'
  BY <1>c, <1>2 DEF insert_observation, locals, budgets, Once
<1>3. CASE Tick
  BY <1>c, <1>3 DEF Tick, table, locals, budgets, Once
<1>4. ASSUME NEW v \in Sweeper, StartSweep(v) PROVE Once'
  BY <1>c, <1>t, <1>4, OnceQuiet DEF StartSweep, Goto, table, budgets
<1>5. ASSUME NEW v \in Sweeper, EndSweep(v) PROVE Once'
  BY <1>c, <1>t, <1>5, OnceQuiet DEF EndSweep, Goto, table, locals, budgets
<1>6. ASSUME NEW v \in Sweeper, ExpireLease(v) PROVE Once'
  BY <1>c, <1>t, <1>6, OnceQuiet DEF ExpireLease, Goto, budgets
<1>7. ASSUME NEW v \in Sweeper, InsertLease(v) PROVE Once'
  BY <1>c, <1>t, <1>7, OnceQuiet DEF InsertLease, Goto, locals, budgets
<1>8. ASSUME NEW v \in Sweeper, SkipLeased(v) PROVE Once'
  BY <1>c, <1>t, <1>8, OnceQuiet DEF SkipLeased, Goto, table, budgets
<1>9. ASSUME NEW v \in Sweeper, Recheck(v) PROVE Once'
  <2>1. Once /\ Calm /\ pc[v] = "leased" /\ UNCHANGED <<narratives, compressed, subject>>
    BY <1>c, <1>t, <1>9 DEF Recheck, Goto, table, budgets, Calm
  <2>2. ASSUME ~compressed[subject[v]] PROVE narratives[subject[v]] = <<>>
    <3>1. ASSUME NEW w \in Sweeper, pc[w] = "mark", subject[w] = subject[v] PROVE FALSE
      <4>1. w # v /\ pc[w] \in Leased /\ pc[v] \in Leased
        BY <2>1, <3>1 DEF Leased
      <4> QED BY <2>1, <3>1, <4>1, LeasedAlone
    <3>2. subject[v] \in Session
      BY <1>t, <2>1
    <3> QED BY <2>1, <2>2, <3>1, <3>2 DEF Once
  <2>3. /\ \A w \in Worker : w # v => pc'[w] = pc[w]
        /\ pc'[v] \in {"close", "release"} /\ (pc'[v] = "close" => ~compressed[subject[v]])
    BY <1>t, <1>9 DEF Recheck, Goto
  <2> QED BY <2>1, <2>2, <2>3, OnceQuiet
<1>10. ASSUME NEW v \in Sweeper, end_session_if_open(v) PROVE Once'
  <2>1. /\ Once /\ pc[v] = "close" /\ UNCHANGED <<narratives, compressed, subject>>
        /\ \A w \in Worker : w # v => pc'[w] = pc[w]
    BY <1>c, <1>t, <1>10 DEF end_session_if_open, Goto, locals, budgets
  <2>2. narratives[subject[v]] = <<>>
    BY <2>1 DEF Once
  <2> QED BY <2>1, <2>2, OnceQuiet
<1>11. ASSUME NEW v \in Sweeper, release_sweep_lease(v) PROVE Once'
  <2>1. UNCHANGED <<faults, requests, now, narratives, compressed, subject>> /\ Goto(v, "release", "record")
    BY <1>f, <1>11 DEF release_sweep_lease, locals
  <2> QED BY <1>c, <1>t, <2>1, OnceQuiet DEF Goto
<1>12. ASSUME NEW v \in Sweeper, record_action(v) PROVE Once'
  BY <1>c, <1>t, <1>12, OnceQuiet DEF record_action, Goto, Forget, budgets
<1>13. ASSUME NEW v \in Handler, NEW s \in Session, session_end(v, s) \/ compress_session(v, s)
       PROVE Once'
  BY <1>q, <1>13 DEF session_end, compress_session
<1>14. ASSUME NEW v \in Handler, CountObservations(v) PROVE Once'
  BY <1>c, <1>14 DEF CountObservations, Goto, budgets, Once
<1>w. ASSUME NEW v \in Worker, pc[v] # "idle", UNCHANGED budgets, UNCHANGED now
      PROVE  v \in Sweeper /\ Once /\ Calm
  BY <1>c, <1>w DEF Once, Worker, budgets, Calm
<1>15. ASSUME NEW v \in Worker, ReadObservations(v) PROVE Once'
  <2>1. /\ v \in Sweeper /\ Once /\ pc[v] = "read" /\ UNCHANGED <<narratives, compressed, subject>>
        /\ \A w \in Worker : w # v => pc'[w] = pc[w]
    BY <1>w, <1>t, <1>15 DEF ReadObservations, Goto, table
  <2>2. narratives[subject[v]] = <<>>
    BY <2>1 DEF Once
  <2> QED BY <2>1, <2>2, OnceQuiet
<1>16. ASSUME NEW v \in Worker, insert_memory(v) PROVE Once'
  <2>1. /\ v \in Sweeper /\ Once /\ Calm /\ pc[v] = "insert" /\ pc'[v] = "mark"
        /\ UNCHANGED <<compressed, subject>>
        /\ \A w \in Worker : w # v => pc'[w] = pc[w]
    BY <1>w, <1>t, <1>16 DEF insert_memory, Goto, locals
  <2>2. PICK t \in Session : t = subject[v]
    BY <1>t, <2>1
  <2>3. narratives[t] = <<>> /\ narratives' = [narratives EXCEPT ![t] = Append(@, seen[v])]
    BY <1>16, <2>1, <2>2 DEF insert_memory, Once
  <2>4. \A s \in Session : s # t => narratives'[s] = narratives[s]
    BY <2>3 DEF TypeOK, TableOK
  <2>5. Len(narratives'[t]) = 1
    <3>1. seen[v] \in Nat
      BY DEF TypeOK, LocalsOK
    <3>2. narratives'[t] = Append(<<>>, seen[v])
      BY <2>3 DEF TypeOK, TableOK
    <3>3. \A n \in Nat : Len(Append(<<>>, n)) = 1
      OBVIOUS
    <3> QED BY <3>1, <3>2, <3>3
  <2>6. ASSUME NEW w \in Sweeper, pc'[w] \in {"close", "read", "insert"}
        PROVE  narratives'[subject'[w]] = <<>>
    <3>1. w # v /\ pc'[w] = pc[w] /\ pc[w] \in Leased /\ pc[v] \in Leased
      BY <2>1, <2>6 DEF Leased
    <3>2. subject[w] # t
      BY <2>1, <2>2, <3>1, LeasedAlone
    <3>3. subject[w] \in Session
      BY <1>t, <2>6, <3>1
    <3> QED BY <2>1, <2>4, <2>6, <3>1, <3>2, <3>3 DEF Once
  <2>7. ASSUME NEW s \in Session
        PROVE  \/ narratives'[s] = <<>> \/ compressed'[s]
               \/ \E w \in Sweeper : pc'[w] = "mark" /\ subject'[w] = s
    <3>1. CASE s = t
      BY <2>1, <2>2, <3>1
    <3>2. ASSUME s # t, NEW w \in Sweeper, pc[w] = "mark", subject[w] = s
          PROVE  pc'[w] = "mark" /\ subject'[w] = s
      BY <2>1, <3>2
    <3> QED BY <2>1, <2>4, <3>1, <3>2 DEF Once
  <2>8. \A w \in Handler : pc'[w] = "idle"
    BY <1>s, <2>1 DEF Once
  <2>9. ASSUME NEW s \in Session PROVE Len(narratives'[s]) <= 1
    <3>1. CASE s = t
      <4>1. Len(narratives'[s]) = 1
        BY <2>5, <3>1, Zenon
      <4>2. \A n : n = 1 => n <= 1
        OBVIOUS
      <4> QED BY <4>1, <4>2, Zenon
    <3>2. CASE s # t
      <4>1. narratives'[s] = narratives[s] /\ Len(narratives[s]) <= 1
        BY <2>1, <2>4, <3>2 DEF Once
      <4> QED BY <4>1
    <3> QED BY <3>1, <3>2
  <2> QED BY <2>6, <2>7, <2>8, <2>9 DEF Once
<1>17. ASSUME NEW v \in Worker, mark_compressed(v) PROVE Once'
  <2>1. /\ v \in Sweeper /\ Once /\ pc[v] = "mark" /\ pc'[v] = "meta"
        /\ UNCHANGED <<narratives, subject>>
        /\ compressed' = [compressed EXCEPT ![subject[v]] = TRUE]
        /\ \A w \in Worker : w # v => pc'[w] = pc[w]
    BY <1>w, <1>t, <1>17 DEF mark_compressed, Goto, locals
  <2>2. \A s \in Session : compressed'[s] = (compressed[s] \/ s = subject[v])
    BY <2>1 DEF TypeOK, TableOK
  <2>3. ASSUME NEW s \in Session
        PROVE  \/ narratives'[s] = <<>> \/ compressed'[s]
               \/ \E w \in Sweeper : pc'[w] = "mark" /\ subject'[w] = s
    <3>1. ASSUME NEW w \in Sweeper, pc[w] = "mark", subject[w] = s
          PROVE  compressed'[s] \/ (pc'[w] = "mark" /\ subject'[w] = s)
      BY <2>1, <2>2, <3>1
    <3> QED BY <2>1, <2>2, <3>1 DEF Once
  <2>4. \A w \in Handler : pc'[w] = "idle"
    BY <1>s, <2>1 DEF Once
  <2>5. \A w \in Sweeper : pc'[w] \in {"close", "read", "insert"} => narratives'[subject'[w]] = <<>>
    BY <2>1 DEF Once
  <2> QED BY <2>1, <2>3, <2>4, <2>5 DEF Once
<1>18. ASSUME NEW v \in Worker, DescribeMemory(v) PROVE Once'
  <2>1. /\ v \in Sweeper /\ Once /\ pc[v] = "meta" /\ pc'[v] = "archive"
        /\ UNCHANGED <<narratives, compressed, subject>>
        /\ \A w \in Worker : w # v => pc'[w] = pc[w]
    BY <1>w, <1>t, <1>18 DEF DescribeMemory, Goto, table, locals
  <2> QED BY <2>1, OnceQuiet
<1>19. ASSUME NEW v \in Worker, ArchiveTranscript(v) PROVE Once'
  <2>1. v \in Sweeper /\ Once /\ pc[v] = "archive" /\ UNCHANGED <<narratives, compressed>>
    BY <1>w, <1>19 DEF ArchiveTranscript, Goto, table
  <2>2. /\ pc'[v] = "release" /\ UNCHANGED subject
        /\ \A w \in Worker : w # v => pc'[w] = pc[w]
    BY <1>s, <1>t, <1>19, <2>1 DEF ArchiveTranscript, Goto
  <2> QED BY <2>1, <2>2, OnceQuiet
<1>20. ASSUME NEW v \in Worker, Fault(v) PROVE Once'
  BY <1>f, <1>20 DEF Fault, StatementFails, SweepAborts, Crash
<1>21. CASE UNCHANGED vars
  BY <1>c, <1>21 DEF vars, table, locals, budgets, Once
<1> QED
  BY <1>1, <1>2, <1>3, <1>4, <1>5, <1>6, <1>7, <1>8, <1>9, <1>10, <1>11, <1>12, <1>13, <1>14,
     <1>15, <1>16, <1>17, <1>18, <1>19, <1>20, <1>21
     DEF Next, Client, SweepStep, Request, Compress

\* The lease protocol and the second look at the session make the sweep
\* idempotent, whatever the sweepers' candidate lists still say (sweep.rs
\* run_one_compression): one narrative per session, until a lease runs out.
THEOREM SweepIsIdempotent == Spec => []OneNarrativePerSession
<1>1. Init => OnceInv
  BY DEF Init, OnceInv, Once, Worker
<1>2. TypeOK /\ LeaseInv /\ OnceInv /\ [Next]_vars => OnceInv'
  BY NextOnceInv
<1>3. OnceInv => OneNarrativePerSession
  BY DEF OnceInv, Once, Calm, OneNarrativePerSession
<1> QED
  BY <1>1, <1>2, <1>3, TypeCorrect, LeaseInvariant, PTL DEF Spec
=============================================================================
