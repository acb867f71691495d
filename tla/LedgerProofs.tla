---------------------------- MODULE LedgerProofs ----------------------------
(***************************************************************************)
(* Proofs about the ledger, for any number of processes, tasks and         *)
(* namespaces, on either backend.                                          *)
(***************************************************************************)
EXTENDS Ledger, SequenceTheorems, TLAPS

\* The assumptions on the constants, one element at a time.
LEMMA Constants ==
  /\ Backend \in {"sqlite", "postgres"}
  /\ \A w \in Writer : Home[w] \in Process
  /\ Database \notin Namespace
  /\ \A w \in Writer : w \notin Process
  /\ None \notin Writer /\ None \notin Process /\ None \notin Namespace
  /\ MaxEntries \in Nat /\ MaxFaults \in Nat
  BY ConstantsAssumption

\* The operations and program points, spelled out.
LEMMA Names ==
  /\ {"append", "migration_genesis", "policy", "assertion"} \subseteq Op
  /\ {"idle", "evidence", "mutex", "begin", "check", "head", "insert", "commit"}
       \subseteq PC
  /\ {"check", "head", "insert", "commit"} = InTransaction
  /\ Versioned \subseteq Op
  BY DEF Op, PC, InTransaction, Versioned

\* What a returning set of tasks leaves behind is well typed.
LEMMA ReturnOK ==
  ASSUME NEW W, LocalsOK, Return(W)
  PROVE  LocalsOK'
  BY Names DEF LocalsOK, Return

\* Ending a transaction leaves locks and locals well typed.
LEMMA EndTransactionOK ==
  ASSUME NEW w \in Writer, LocksOK, LocalsOK, EndTransaction(w), UNCHANGED faults
  PROVE  LocksOK' /\ LocalsOK'
<1>1. LocalsOK'
  BY ReturnOK DEF EndTransaction
<1>2. LocksOK'
  BY DEF LocksOK, EndTransaction
<1> QED BY <1>1, <1>2

\* Entering an operation keeps the types.
LEMMA CallOK ==
  ASSUME NEW w \in Writer, NEW n \in Namespace, NEW o \in Op, NEW e \in Nat,
         NEW to \in PC, TypeOK, Call(w, n, o, e, to)
  PROVE  TypeOK'
<1>1. TablesOK' /\ LocksOK'
  BY DEF TypeOK, TablesOK, LocksOK, Call, tables, locks
<1>2. LocalsOK'
  BY Names DEF TypeOK, LocalsOK, Call, Goto
<1> QED BY <1>1, <1>2 DEF TypeOK

\* Moving on inside an operation keeps the types.
LEMMA AdvanceOK ==
  ASSUME NEW w \in Writer, NEW from \in PC, NEW to \in PC, from # "idle",
         LocalsOK, Goto(w, from, to), UNCHANGED <<op, ns, expected, head>>
  PROVE  LocalsOK'
  BY DEF LocalsOK, Goto

\* What a task appends is an entry.
LEMMA NewEntryOK ==
  ASSUME NEW w \in Writer, LocalsOK
  PROVE  NewEntry(w) \in Entry
  BY DEF LocalsOK, NewEntry, Entry

\* The initial states are well typed, legacy forks included.
LEMMA InitTypeOK == Init => TypeOK
<1> SUFFICES ASSUME Init PROVE TypeOK
  OBVIOUS
<1>1. \A n \in Namespace : log[n] \in Seq(Entry)
  <2> TAKE n \in Namespace
  <2> DEFINE e == [prev |-> 0, op |-> "append", version |-> 0]
  <2>1. e \in Entry
    BY Names DEF Entry
  <2>2. Legacy(<<0>>) = <<e>> /\ Legacy(<<0, 0>>) = <<e, e>>
    BY DEF Legacy
  <2>3. log[n] \in {<<>>, <<e>>, <<e, e>>}
    BY <2>2 DEF Init
  <2> HIDE DEF e
  <2>4. <<>> \in Seq(Entry) /\ <<e>> \in Seq(Entry)
    BY <2>1
  <2>5. <<e, e>> \in Seq(Entry)
    BY <2>1
  <2> QED BY <2>3, <2>4, <2>5
<1>2. log = [n \in Namespace |-> log[n]]
  BY DEF Init
<1>3. log \in [Namespace -> Seq(Entry)]
  BY ONLY <1>1, <1>2
<1>4. TablesOK
  BY <1>3 DEF Init, TablesOK
<1>5. LocksOK
  BY Constants DEF Init, LocksOK
<1>6. LocalsOK
  BY Names DEF Init, LocalsOK
<1> QED BY <1>4, <1>5, <1>6 DEF TypeOK

\* Every step keeps the types.
LEMMA NextTypeOK == TypeOK /\ [Next]_vars => TypeOK'
<1> SUFFICES ASSUME TypeOK, [Next]_vars PROVE TypeOK'
  OBVIOUS
<1> USE DEF TypeOK
<1>1. ASSUME NEW w \in Writer, NEW n \in Namespace,
             \/ append_memory_ledger(w, n)
             \/ update_memory_influence_policy(w, n)
             \/ append_assertion(w, n)
             \/ build_ledger_evidence(w, n)
      PROVE  TypeOK'
  <2>1. version[n]["policy"] \in Nat /\ version[n]["assertion"] \in Nat
    BY DEF TablesOK, Versioned
  <2>2. Len(log[n]) \in Nat
    BY DEF TablesOK
  <2>3. PICK o \in Op, e \in Nat, to \in PC : Call(w, n, o, e, to)
    BY <1>1, <2>1, <2>2, Names DEF append_memory_ledger,
       update_memory_influence_policy, append_assertion, build_ledger_evidence
  <2> QED BY <2>3, CallOK
<1>2. ASSUME NEW w \in Writer, Rollback(w) PROVE TypeOK'
  BY <1>2, EndTransactionOK DEF Rollback, tables, TablesOK
<1>3. ASSUME NEW w \in Writer, apply_ledger_migration(w) PROVE TypeOK'
  <2>1. TablesOK' /\ LocksOK'
    BY <1>3 DEF apply_ledger_migration, TablesOK, LocksOK, tables, locks
  <2>2. LocalsOK'
    BY <1>3, ReturnOK, AdvanceOK, Names DEF apply_ledger_migration, locals
  <2> QED BY <2>1, <2>2
<1>4. ASSUME NEW w \in Writer, LockMutex(w) PROVE TypeOK'
  <2>1. TablesOK' /\ LocksOK'
    BY <1>4, Constants DEF LockMutex, TablesOK, LocksOK, tables
  <2>2. LocalsOK'
    BY <1>4, AdvanceOK, Names DEF LockMutex, locals
  <2> QED BY <2>1, <2>2
<1>5. ASSUME NEW w \in Writer, Begin(w) PROVE TypeOK'
  <2>1. TablesOK' /\ LocksOK'
    BY <1>5 DEF Begin, TablesOK, LocksOK, tables
  <2>2. LocalsOK'
    BY <1>5, AdvanceOK, Names DEF Begin, AfterBegin, locals
  <2> QED BY <2>1, <2>2
<1>6. ASSUME NEW w \in Writer, CheckVersion(w) PROVE TypeOK'
  <2>1. CASE Rollback(w)
    BY <2>1, <1>2
  <2>2. CASE Goto(w, "check", "head") /\ UNCHANGED <<tables, locks, locals>>
    <3>1. TablesOK' /\ LocksOK'
      BY <2>2 DEF TablesOK, LocksOK, tables, locks
    <3>2. LocalsOK'
      BY <2>2, AdvanceOK, Names DEF locals
    <3> QED BY <3>1, <3>2
  <2> QED BY <1>6, <2>1, <2>2 DEF CheckVersion
<1>7. ASSUME NEW w \in Writer, ReadHead(w) PROVE TypeOK'
  <2>1. CASE Rollback(w)
    BY <2>1, <1>2
  <2>2. CASE /\ Goto(w, "head", "insert")
             /\ head' = [head EXCEPT ![w] = Len(log[ns[w]])]
             /\ UNCHANGED <<tables, locks, op, ns, expected>>
    <3>1. TablesOK' /\ LocksOK'
      BY <2>2 DEF TablesOK, LocksOK, tables, locks
    <3>2. Len(log[ns[w]]) \in Nat
      BY <2>2 DEF LocalsOK, TablesOK, Goto
    <3>3. LocalsOK'
      BY <2>2, <3>2, Names DEF LocalsOK, Goto
    <3> QED BY <3>1, <3>3
  <2> QED BY <1>7, <2>1, <2>2 DEF ReadHead
<1>8. ASSUME NEW w \in Writer, InsertEntry(w) PROVE TypeOK'
  <2>1. TablesOK' /\ LocksOK'
    BY <1>8 DEF InsertEntry, TablesOK, LocksOK, tables, locks
  <2>2. LocalsOK'
    BY <1>8, AdvanceOK, Names DEF InsertEntry, locals
  <2> QED BY <2>1, <2>2
<1>9. ASSUME NEW w \in Writer, Commit(w) PROVE TypeOK'
  <2>1. LocksOK' /\ LocalsOK'
    BY <1>9, EndTransactionOK DEF Commit
  <2>2. ns[w] \in Namespace /\ expected[w] \in Nat
    BY <1>9 DEF Commit, LocalsOK
  <2>3. log' \in [Namespace -> Seq(Entry)]
    BY <1>9, <2>2, NewEntryOK, AppendProperties DEF Commit, TablesOK
  <2>4. epochs' \in [Namespace -> Seq(Epoch)]
    <3>1. NewEpoch(w) \in Epoch
      BY <2>2 DEF NewEpoch, Epoch, TablesOK
    <3> QED BY <1>9, <2>2, <3>1, AppendProperties DEF Commit, TablesOK
  <2>5. version' \in [Namespace -> [Versioned -> Nat]]
    BY SMTT(30), <1>9, <2>2 DEF Commit, TablesOK
  <2> QED BY <2>1, <2>3, <2>4, <2>5 DEF TablesOK
<1>10. ASSUME NEW w \in Writer, CommitBusy(w) PROVE TypeOK'
  <2>1. LocalsOK'
    BY <1>10, ReturnOK DEF CommitBusy
  <2>2. TablesOK' /\ LocksOK'
    BY <1>10, Constants DEF CommitBusy, TablesOK, LocksOK, tables
  <2> QED BY <2>1, <2>2
<1>11. ASSUME NEW p \in Process, Crash(p) PROVE TypeOK'
  <2>1. LocalsOK'
    BY <1>11, ReturnOK DEF Crash
  <2>2. TablesOK' /\ LocksOK'
    BY <1>11 DEF Crash, TablesOK, LocksOK, tables
  <2> QED BY <2>1, <2>2
<1>12. CASE UNCHANGED vars
  BY <1>12 DEF vars, tables, locks, locals, TablesOK, LocksOK, LocalsOK
<1> QED
  BY <1>1, <1>2, <1>3, <1>4, <1>5, <1>6, <1>7, <1>8, <1>9, <1>10, <1>11, <1>12
     DEF Next, Step, BeginBusy, StatementFails

\* The ledger's tables, locks and tasks keep the shapes db.rs gives them.
THEOREM TypeCorrect == Spec => []TypeOK
  BY InitTypeOK, NextTypeOK, PTL DEF Spec

-----------------------------------------------------------------------------
\* A transaction holds the lock of its namespace from BEGIN to its end.
Locked == \A w \in Writer : pc[w] \in InTransaction => lock[LockKey(w)] = w

\* The head a transaction has read is still the newest row.
HeadCurrent ==
  \A w \in Writer :
    pc[w] \in {"insert", "commit"} => head[w] = Len(log[ns[w]])

\* Evidence covers rows that exist.
EvidenceExists ==
  \A w \in Writer :
    (op[w] = "migration_genesis" /\ pc[w] # "idle") =>
      expected[w] <= Len(log[ns[w]])

\* A migration past its epoch check holds evidence older than any epoch, and
\* evidence of the whole chain once its head has been compared.
EvidenceOld ==
  \A w \in Writer :
    (op[w] = "migration_genesis" /\ pc[w] \notin {"idle", "evidence"}) =>
      /\ \A k \in DOMAIN epochs[ns[w]] :
           expected[w] < epochs[ns[w]][k].start_entry_id
      /\ pc[w] \in {"insert", "commit"} => expected[w] = Len(log[ns[w]])

EpochsInLog ==
  \A n \in Namespace : \A k \in DOMAIN epochs[n] :
    epochs[n][k].start_entry_id <= Len(log[n])

\* The inductive invariant behind AppendsLink and MigratedOnce.
LedgerInv ==
  Locked /\ HeadCurrent /\ EvidenceExists /\ EvidenceOld /\ EpochsInLog /\ MigratedOnce

\* Two transactions on the same namespace cannot be open together.
LEMMA Exclusive ==
  ASSUME TypeOK, Locked, NEW v \in Writer, NEW w \in Writer, v # w,
         pc[v] \in InTransaction, pc[w] \in InTransaction
  PROVE  ns[v] # ns[w]
  BY DEF Locked, LockKey

\* An epoch starts at an entry id.
LEMMA EpochOK ==
  ASSUME TypeOK, NEW m \in Namespace, NEW k \in DOMAIN epochs[m]
  PROVE  epochs[m][k].start_entry_id \in Nat
<1>1. epochs[m][k] \in Epoch
  BY DEF TypeOK, TablesOK
<1> QED BY <1>1 DEF Epoch

\* Returning tasks leave the others where they are.
LEMMA ReturnFrame ==
  ASSUME NEW W, TypeOK, Return(W), NEW v \in Writer
  PROVE  /\ v \in W => pc'[v] = "idle"
         /\ v \notin W => /\ pc'[v] = pc[v] /\ op'[v] = op[v] /\ ns'[v] = ns[v]
                          /\ expected'[v] = expected[v] /\ head'[v] = head[v]
  BY DEF TypeOK, LocalsOK, Return

\* A step that leaves the tables alone, sends the tasks in W home and moves no
\* lock of another transaction keeps the invariant.
LEMMA RollbackInv ==
  ASSUME NEW W, TypeOK, LedgerInv, Return(W), UNCHANGED tables,
         \A v \in Writer \ W :
           pc[v] \in InTransaction => lock'[LockKey(v)] = v
  PROVE  LedgerInv'
<1>1. Locked'
  <2> SUFFICES ASSUME NEW v \in Writer, pc'[v] \in InTransaction
               PROVE  lock'[LockKey(v)'] = v
    BY DEF Locked
  <2>1. v \notin W
    BY ReturnFrame DEF InTransaction
  <2>2. pc'[v] = pc[v] /\ LockKey(v)' = LockKey(v)
    BY <2>1, ReturnFrame DEF LockKey
  <2> QED BY <2>1, <2>2
<1>2. HeadCurrent'
  <2> SUFFICES ASSUME NEW v \in Writer, pc'[v] \in {"insert", "commit"}
               PROVE  head'[v] = Len(log'[ns'[v]])
    BY DEF HeadCurrent
  <2>1. v \notin W
    BY ReturnFrame
  <2> QED BY <2>1, ReturnFrame DEF LedgerInv, HeadCurrent, tables
<1>3. EvidenceOld'
  <2> SUFFICES ASSUME NEW v \in Writer, op'[v] = "migration_genesis",
                      pc'[v] \notin {"idle", "evidence"}
               PROVE  /\ \A k \in DOMAIN epochs'[ns'[v]] :
                           expected'[v] < epochs'[ns'[v]][k].start_entry_id
                      /\ pc'[v] \in {"insert", "commit"} =>
                           expected'[v] = Len(log'[ns'[v]])
    BY DEF EvidenceOld
  <2>1. v \notin W
    BY ReturnFrame
  <2> QED BY <2>1, ReturnFrame DEF LedgerInv, EvidenceOld, tables
<1>4. EpochsInLog' /\ MigratedOnce'
  BY DEF LedgerInv, EpochsInLog, MigratedOnce, tables
<1>5. EvidenceExists'
  <2> SUFFICES ASSUME NEW v \in Writer, op'[v] = "migration_genesis",
                      pc'[v] # "idle"
               PROVE  expected'[v] <= Len(log'[ns'[v]])
    BY DEF EvidenceExists
  <2>1. v \notin W
    BY ReturnFrame
  <2> QED BY <2>1, ReturnFrame DEF LedgerInv, EvidenceExists, tables
<1> QED BY <1>1, <1>2, <1>3, <1>4, <1>5 DEF LedgerInv

\* The invariant holds before any task has started.
LEMMA InitLedgerInv == Init => LedgerInv
<1> SUFFICES ASSUME Init PROVE LedgerInv
  OBVIOUS
<1>1. \A w \in Writer : pc[w] = "idle"
  BY DEF Init
<1>2. \A n \in Namespace : epochs[n] = <<>>
  BY DEF Init
<1> QED BY <1>1, <1>2
        DEF LedgerInv, Locked, HeadCurrent, EvidenceOld, EpochsInLog,
            MigratedOnce, InTransaction, EvidenceExists

\* Every step keeps the invariant: one writer per chain, with a current head.
LEMMA NextLedgerInv == TypeOK /\ LedgerInv /\ [Next]_vars => LedgerInv'
<1> SUFFICES ASSUME TypeOK, LedgerInv, [Next]_vars PROVE LedgerInv'
  OBVIOUS
<1>1. ASSUME NEW w \in Writer, NEW n \in Namespace,
             \/ append_memory_ledger(w, n)
             \/ update_memory_influence_policy(w, n)
             \/ append_assertion(w, n)
             \/ build_ledger_evidence(w, n)
      PROVE  LedgerInv'
  <2>1. PICK o, e, to : /\ Call(w, n, o, e, to)
                        /\ to \in {"mutex", "evidence"}
                        /\ o = "migration_genesis" =>
                             to = "evidence" /\ e = Len(log[n])
    BY <1>1 DEF append_memory_ledger, update_memory_influence_policy,
       append_assertion, build_ledger_evidence
  <2>2. /\ pc'[w] = to /\ op'[w] = o /\ ns'[w] = n /\ expected'[w] = e
        /\ Len(log[n]) \in Nat
        /\ UNCHANGED <<tables, locks>>
    BY <2>1 DEF Call, Goto, TypeOK, LocalsOK, TablesOK
  <2>3. ASSUME NEW v \in Writer, v # w
        PROVE  /\ pc'[v] = pc[v] /\ op'[v] = op[v] /\ ns'[v] = ns[v]
               /\ expected'[v] = expected[v] /\ head'[v] = head[v]
    BY <2>1, <2>3 DEF Call, Goto, TypeOK, LocalsOK
  <2>4. Locked'
    BY <2>1, <2>2, <2>3
       DEF LedgerInv, Locked, LockKey, locks, InTransaction
  <2>5. HeadCurrent' /\ EvidenceExists'
    BY <2>1, <2>2, <2>3 DEF LedgerInv, HeadCurrent, EvidenceExists, tables
  <2>6. EvidenceOld'
    BY SMTT(30), <2>1, <2>2, <2>3 DEF LedgerInv, EvidenceOld, tables
  <2>7. EpochsInLog' /\ MigratedOnce'
    BY <2>2 DEF LedgerInv, EpochsInLog, MigratedOnce, tables
  <2> QED BY <2>4, <2>5, <2>6, <2>7 DEF LedgerInv
<1>2. ASSUME NEW w \in Writer, Rollback(w) PROVE LedgerInv'
  <2>1. \A v \in Writer \ {w} :
          pc[v] \in InTransaction => lock'[LockKey(v)] = v
    <3> SUFFICES ASSUME NEW v \in Writer, v # w, pc[v] \in InTransaction
                 PROVE  lock'[LockKey(v)] = v
      OBVIOUS
    <3>1. lock[LockKey(v)] = v
      BY DEF LedgerInv, Locked
    <3>2. LockKey(v) \in DOMAIN lock
      BY DEF LockKey, TypeOK, LocksOK, LocalsOK, InTransaction
    <3> QED BY <1>2, <3>1, <3>2 DEF Rollback, EndTransaction
  <2> QED BY <1>2, <2>1, RollbackInv DEF Rollback, EndTransaction
<1>3. ASSUME NEW w \in Writer, apply_ledger_migration(w) PROVE LedgerInv'
  <2>1. CASE Return({w}) /\ UNCHANGED <<tables, locks>>
    BY <2>1, RollbackInv DEF LedgerInv, Locked, locks
  <2>2. CASE /\ epochs[ns[w]] = <<>>
             /\ Goto(w, "evidence", "mutex")
             /\ UNCHANGED <<tables, locks, locals>>
    <3>1. /\ pc[w] = "evidence" /\ pc'[w] = "mutex"
          /\ \A v \in Writer \ {w} : pc'[v] = pc[v]
      BY <2>2 DEF Goto, TypeOK, LocalsOK
    <3>2. Locked'
      BY <2>2, <3>1 DEF LedgerInv, Locked, LockKey, locks, locals, InTransaction
    <3>3. HeadCurrent' /\ EvidenceExists'
      BY <2>2, <3>1 DEF LedgerInv, HeadCurrent, EvidenceExists, tables, locals
    <3>4. EvidenceOld'
      BY <2>2, <3>1 DEF LedgerInv, EvidenceOld, tables, locals
    <3>5. EpochsInLog' /\ MigratedOnce'
      BY <2>2 DEF LedgerInv, EpochsInLog, MigratedOnce, tables
    <3> QED BY <3>2, <3>3, <3>4, <3>5 DEF LedgerInv
  <2> QED BY <1>3, <2>1, <2>2 DEF apply_ledger_migration
<1>4. ASSUME NEW w \in Writer, LockMutex(w) PROVE LedgerInv'
  <2>1. /\ pc[w] = "mutex" /\ pc'[w] = "begin"
        /\ \A v \in Writer \ {w} : pc'[v] = pc[v]
        /\ UNCHANGED <<tables, lock, locals>>
    BY <1>4 DEF LockMutex, Goto, TypeOK, LocalsOK
  <2>2. Locked'
    BY <2>1 DEF LedgerInv, Locked, LockKey, locals, InTransaction
  <2>3. HeadCurrent' /\ EvidenceExists'
    BY <2>1 DEF LedgerInv, HeadCurrent, EvidenceExists, tables, locals
  <2>4. EvidenceOld'
    BY <2>1 DEF LedgerInv, EvidenceOld, tables, locals
  <2>5. EpochsInLog' /\ MigratedOnce'
    BY <2>1 DEF LedgerInv, EpochsInLog, MigratedOnce, tables
  <2> QED BY <2>2, <2>3, <2>4, <2>5 DEF LedgerInv
<1>5. ASSUME NEW w \in Writer, Begin(w) PROVE LedgerInv'
  <2>1. /\ pc[w] = "begin" /\ pc'[w] \in {"check", "head"}
        /\ \A v \in Writer \ {w} : pc'[v] = pc[v]
        /\ UNCHANGED <<tables, locals>>
    BY <1>5 DEF Begin, AfterBegin, Goto, TypeOK, LocalsOK
  <2>2. LockKey(w) \in DOMAIN lock
    BY <2>1 DEF LockKey, TypeOK, LocksOK, LocalsOK
  <2>3. Locked'
    <3> SUFFICES ASSUME NEW v \in Writer, pc'[v] \in InTransaction
                 PROVE  lock'[LockKey(v)'] = v
      BY DEF Locked
    <3>1. LockKey(v)' = LockKey(v)
      BY <2>1 DEF LockKey, locals
    <3>2. CASE v = w
      BY <1>5, <2>2, <3>1, <3>2 DEF Begin
    <3>3. CASE v # w
      <4>1. lock[LockKey(v)] = v
        BY <2>1, <3>3 DEF LedgerInv, Locked
      <4>2. LockKey(v) # LockKey(w)
        BY <1>5, <4>1, Constants DEF Begin
      <4> QED BY <1>5, <3>1, <4>1, <4>2 DEF Begin
    <3> QED BY <3>2, <3>3
  <2>4. HeadCurrent' /\ EvidenceExists'
    BY <2>1 DEF LedgerInv, HeadCurrent, EvidenceExists, tables, locals
  <2>5. EvidenceOld'
    BY <2>1 DEF LedgerInv, EvidenceOld, tables, locals
  <2>6. EpochsInLog' /\ MigratedOnce'
    BY <2>1 DEF LedgerInv, EpochsInLog, MigratedOnce, tables
  <2> QED BY <2>3, <2>4, <2>5, <2>6 DEF LedgerInv
<1>6. ASSUME NEW w \in Writer, CheckVersion(w) PROVE LedgerInv'
  <2>1. CASE Rollback(w)
    BY <2>1, <1>2
  <2>2. CASE Goto(w, "check", "head") /\ UNCHANGED <<tables, locks, locals>>
    <3>1. /\ pc[w] = "check" /\ pc'[w] = "head"
          /\ \A v \in Writer \ {w} : pc'[v] = pc[v]
      BY <2>2 DEF Goto, TypeOK, LocalsOK
    <3>2. Locked'
      BY <2>2, <3>1 DEF LedgerInv, Locked, LockKey, locks, locals, InTransaction
    <3>3. HeadCurrent' /\ EvidenceExists'
      BY <2>2, <3>1 DEF LedgerInv, HeadCurrent, EvidenceExists, tables, locals
    <3>4. EvidenceOld'
      BY <2>2, <3>1 DEF LedgerInv, EvidenceOld, tables, locals
    <3>5. EpochsInLog' /\ MigratedOnce'
      BY <2>2 DEF LedgerInv, EpochsInLog, MigratedOnce, tables
    <3> QED BY <3>2, <3>3, <3>4, <3>5 DEF LedgerInv
  <2> QED BY <1>6, <2>1, <2>2 DEF CheckVersion
<1>7. ASSUME NEW w \in Writer, ReadHead(w) PROVE LedgerInv'
  <2>1. CASE Rollback(w)
    BY <2>1, <1>2
  <2>2. CASE /\ Goto(w, "head", "insert")
             /\ op[w] = "migration_genesis" => Len(log[ns[w]]) = expected[w]
             /\ head' = [head EXCEPT ![w] = Len(log[ns[w]])]
             /\ UNCHANGED <<tables, locks, op, ns, expected>>
    <3>1. /\ pc[w] = "head" /\ pc'[w] = "insert"
          /\ head'[w] = Len(log[ns[w]])
          /\ \A v \in Writer \ {w} : pc'[v] = pc[v] /\ head'[v] = head[v]
      BY <2>2 DEF Goto, TypeOK, LocalsOK
    <3>2. Locked'
      BY <2>2, <3>1 DEF LedgerInv, Locked, LockKey, locks, InTransaction
    <3>3. HeadCurrent' /\ EvidenceExists'
      BY <2>2, <3>1 DEF LedgerInv, HeadCurrent, EvidenceExists, tables
    <3>4. EvidenceOld'
      BY <2>2, <3>1 DEF LedgerInv, EvidenceOld, tables
    <3>5. EpochsInLog' /\ MigratedOnce'
      BY <2>2 DEF LedgerInv, EpochsInLog, MigratedOnce, tables
    <3> QED BY <3>2, <3>3, <3>4, <3>5 DEF LedgerInv
  <2> QED BY <1>7, <2>1, <2>2 DEF ReadHead
<1>8. ASSUME NEW w \in Writer, InsertEntry(w) PROVE LedgerInv'
  <2>1. /\ pc[w] = "insert" /\ pc'[w] = "commit"
        /\ \A v \in Writer \ {w} : pc'[v] = pc[v]
        /\ UNCHANGED <<tables, locks, locals>>
    BY <1>8 DEF InsertEntry, Goto, TypeOK, LocalsOK
  <2>2. Locked'
    BY <2>1 DEF LedgerInv, Locked, LockKey, locks, locals, InTransaction
  <2>3. HeadCurrent' /\ EvidenceExists'
    BY <2>1 DEF LedgerInv, HeadCurrent, EvidenceExists, tables, locals
  <2>4. EvidenceOld'
    BY <2>1 DEF LedgerInv, EvidenceOld, tables, locals
  <2>5. EpochsInLog' /\ MigratedOnce'
    BY <2>1 DEF LedgerInv, EpochsInLog, MigratedOnce, tables
  <2> QED BY <2>2, <2>3, <2>4, <2>5 DEF LedgerInv
<1>9. ASSUME NEW w \in Writer, Commit(w) PROVE LedgerInv'
  <2> DEFINE n == ns[w]
  <2>1. /\ n \in Namespace /\ expected[w] \in Nat /\ pc[w] = "commit"
        /\ pc[w] \in InTransaction
    BY <1>9, Names DEF Commit, TypeOK, LocalsOK
  <2>2. /\ \A m \in Namespace \ {n} : log'[m] = log[m] /\ epochs'[m] = epochs[m]
        /\ log'[n] = Append(log[n], NewEntry(w))
        /\ op[w] = "migration_genesis" => epochs'[n] = Append(epochs[n], NewEpoch(w))
        /\ op[w] # "migration_genesis" => epochs'[n] = epochs[n]
    BY <1>9, <2>1 DEF Commit, TypeOK, TablesOK
  <2>3. Len(log'[n]) = Len(log[n]) + 1 /\ Len(log[n]) \in Nat
    BY <2>1, <2>2, NewEntryOK, AppendProperties DEF TypeOK, TablesOK
  <2>4. op[w] = "migration_genesis" => epochs[n] = <<>>
    <3> SUFFICES ASSUME op[w] = "migration_genesis", epochs[n] # <<>>
                 PROVE  FALSE
      OBVIOUS
    <3>1. epochs[n] \in Seq(Epoch)
      BY <2>1 DEF TypeOK, TablesOK
    <3>2. 1 \in DOMAIN epochs[n]
      BY <3>1
    <3>3. /\ expected[w] < epochs[n][1].start_entry_id
          /\ expected[w] = Len(log[n])
      BY <2>1, <3>2 DEF LedgerInv, EvidenceOld
    <3>4. epochs[n][1].start_entry_id <= Len(log[n])
      BY <2>1, <3>2 DEF LedgerInv, EpochsInLog
    <3>5. epochs[n][1].start_entry_id \in Nat
      BY <2>1, <3>2, EpochOK
    <3> QED BY <2>3, <3>3, <3>4, <3>5
  <2>5. ASSUME NEW m \in Namespace, NEW k \in DOMAIN epochs'[m]
        PROVE  \/ /\ k \in DOMAIN epochs[m] /\ epochs'[m][k] = epochs[m][k]
               \/ /\ m = n /\ epochs'[m][k].start_entry_id = Len(log[n]) + 1
                  /\ k = 1 /\ epochs'[m] = <<NewEpoch(w)>>
    <3>1. CASE m = n /\ op[w] = "migration_genesis"
      BY <2>2, <2>4, <3>1, <2>5 DEF NewEpoch
    <3>2. CASE ~(m = n /\ op[w] = "migration_genesis")
      BY <2>2, <3>2, <2>5
    <3> QED BY <3>1, <3>2
  <2>6. EpochsInLog'
    <3> SUFFICES ASSUME NEW m \in Namespace, NEW k \in DOMAIN epochs'[m]
                 PROVE  epochs'[m][k].start_entry_id <= Len(log'[m])
      BY DEF EpochsInLog
    <3>1. CASE m = n /\ epochs'[m][k].start_entry_id = Len(log[n]) + 1
      BY <2>3, <3>1
    <3>2. CASE k \in DOMAIN epochs[m] /\ epochs'[m][k] = epochs[m][k]
      <4>1. epochs[m][k].start_entry_id \in Nat
        BY <3>2, EpochOK
      <4>2. epochs[m][k].start_entry_id <= Len(log[m])
        BY <3>2 DEF LedgerInv, EpochsInLog
      <4> QED BY SMTT(30), <2>2, <2>3, <3>2, <4>1, <4>2
    <3> QED BY <2>5, <3>1, <3>2
  <2>7. MigratedOnce'
    <3> SUFFICES ASSUME NEW m \in Namespace PROVE Len(epochs'[m]) <= 1
      BY DEF MigratedOnce
    <3>1. CASE m = n /\ op[w] = "migration_genesis"
      <4>1. epochs'[m] = <<NewEpoch(w)>>
        BY <2>2, <2>4, <3>1
      <4> QED BY <4>1
    <3>2. CASE ~(m = n /\ op[w] = "migration_genesis")
      <4>1. epochs'[m] = epochs[m]
        BY <2>2, <3>2
      <4> QED BY <4>1 DEF LedgerInv, MigratedOnce
    <3> QED BY <3>1, <3>2
  <2>8. /\ pc'[w] = "idle"
        /\ \A v \in Writer \ {w} :
             /\ pc'[v] = pc[v] /\ op'[v] = op[v] /\ ns'[v] = ns[v]
             /\ expected'[v] = expected[v] /\ head'[v] = head[v]
    BY <1>9, ReturnFrame DEF Commit, EndTransaction
  <2>9. Locked'
    <3> SUFFICES ASSUME NEW v \in Writer, pc'[v] \in InTransaction
                 PROVE  lock'[LockKey(v)'] = v
      BY DEF Locked
    <3>1. v # w
      BY <2>8 DEF InTransaction
    <3>2. LockKey(v)' = LockKey(v) /\ lock[LockKey(v)] = v
      BY <2>8, <3>1 DEF LockKey, LedgerInv, Locked
    <3>3. LockKey(v) \in DOMAIN lock
      BY <2>8, <3>1 DEF LockKey, TypeOK, LocksOK, LocalsOK, InTransaction
    <3> QED BY <1>9, <3>1, <3>2, <3>3 DEF Commit, EndTransaction
  <2>10. HeadCurrent'
    <3> SUFFICES ASSUME NEW v \in Writer, pc'[v] \in {"insert", "commit"}
                 PROVE  head'[v] = Len(log'[ns'[v]])
      BY DEF HeadCurrent
    <3>1. v # w
      BY <2>8
    <3>2. pc[v] \in InTransaction /\ ns[v] \in Namespace
      BY <2>8, <3>1, Names DEF TypeOK, LocalsOK
    <3>3. ns[v] # n
      BY <2>1, <3>1, <3>2, Exclusive DEF LedgerInv
    <3> QED BY <2>2, <2>8, <3>1, <3>2, <3>3 DEF LedgerInv, HeadCurrent
  <2>11. EvidenceOld'
    <3> SUFFICES ASSUME NEW v \in Writer, op'[v] = "migration_genesis",
                        pc'[v] \notin {"idle", "evidence"}
                 PROVE  /\ \A k \in DOMAIN epochs'[ns'[v]] :
                             expected'[v] < epochs'[ns'[v]][k].start_entry_id
                        /\ pc'[v] \in {"insert", "commit"} =>
                             expected'[v] = Len(log'[ns'[v]])
      BY DEF EvidenceOld
    <3>1. v # w
      BY <2>8
    <3>2. /\ ns'[v] = ns[v] /\ ns[v] \in Namespace
          /\ expected'[v] = expected[v] /\ expected[v] \in Nat
          /\ pc'[v] = pc[v] /\ op[v] = "migration_genesis"
      BY <2>8, <3>1 DEF TypeOK, LocalsOK
    <3>3. ASSUME NEW k \in DOMAIN epochs'[ns[v]]
          PROVE  expected[v] < epochs'[ns[v]][k].start_entry_id
      <4>1. CASE /\ ns[v] = n
                 /\ epochs'[ns[v]][k].start_entry_id = Len(log[n]) + 1
        BY <2>3, <3>2, <4>1 DEF LedgerInv, EvidenceExists
      <4>2. CASE k \in DOMAIN epochs[ns[v]] /\ epochs'[ns[v]][k] = epochs[ns[v]][k]
        BY <3>2, <4>2 DEF LedgerInv, EvidenceOld
      <4> QED BY <2>5, <3>2, <3>3, <4>1, <4>2
    <3>4. ASSUME pc[v] \in {"insert", "commit"}
          PROVE  expected[v] = Len(log'[ns[v]])
      <4>1. pc[v] \in InTransaction
        BY <3>4, Names
      <4>2. ns[v] # n
        BY <2>1, <3>1, <4>1, Exclusive DEF LedgerInv
      <4> QED BY <2>2, <3>2, <3>4, <4>2 DEF LedgerInv, EvidenceOld
    <3> QED BY <3>2, <3>3, <3>4
  <2>12. EvidenceExists'
    <3> SUFFICES ASSUME NEW v \in Writer, op'[v] = "migration_genesis",
                        pc'[v] # "idle"
                 PROVE  expected'[v] <= Len(log'[ns'[v]])
      BY DEF EvidenceExists
    <3>1. v # w
      BY <2>8
    <3>2. /\ ns'[v] = ns[v] /\ ns[v] \in Namespace /\ Len(log[ns[v]]) \in Nat
          /\ expected'[v] = expected[v] /\ expected[v] \in Nat
          /\ expected[v] <= Len(log[ns[v]])
      BY <2>8, <3>1 DEF TypeOK, LocalsOK, TablesOK, LedgerInv, EvidenceExists
    <3> QED BY <2>2, <2>3, <3>2
  <2> QED BY <2>6, <2>7, <2>9, <2>10, <2>11, <2>12 DEF LedgerInv
<1>10. ASSUME NEW w \in Writer, CommitBusy(w) PROVE LedgerInv'
  <2>1. ASSUME NEW v \in Writer \ {w}, pc[v] \in InTransaction PROVE FALSE
    <3>1. LockKey(v) = Database /\ LockKey(w) = Database
      BY <1>10 DEF CommitBusy, TakesMutex, LockKey
    <3>2. pc[w] \in InTransaction
      BY <1>10, Names DEF CommitBusy
    <3> QED BY <2>1, <3>1, <3>2 DEF LedgerInv, Locked
  <2> QED BY <1>10, <2>1, RollbackInv DEF CommitBusy
<1>11. ASSUME NEW p \in Process, Crash(p) PROVE LedgerInv'
  <2> DEFINE W == {w \in Writer : Home[w] = p}
  <2>1. ASSUME NEW v \in Writer \ W, pc[v] \in InTransaction
        PROVE  lock'[LockKey(v)] = v
    <3>1. lock[LockKey(v)] = v
      BY <2>1 DEF LedgerInv, Locked
    <3>2. LockKey(v) \in DOMAIN lock
      BY <2>1 DEF LockKey, TypeOK, LocksOK, LocalsOK, InTransaction
    <3>3. v # p /\ Home[v] # p
      BY <2>1, Constants
    <3> QED BY <1>11, <3>1, <3>2, <3>3 DEF Crash
  <2> QED BY <1>11, <2>1, RollbackInv DEF Crash
<1>12. CASE UNCHANGED vars
  BY <1>12 DEF vars, tables, locks, locals, LedgerInv, Locked, LockKey,
     HeadCurrent, EvidenceExists, EvidenceOld, EpochsInLog, MigratedOnce
<1> QED
  BY <1>1, <1>2, <1>3, <1>4, <1>5, <1>6, <1>7, <1>8, <1>9, <1>10, <1>11, <1>12
     DEF Next, Step, BeginBusy, StatementFails

-----------------------------------------------------------------------------
\* Only COMMIT changes a table.
LEMMA OnlyCommit ==
  ASSUME [Next]_vars
  PROVE  UNCHANGED tables \/ \E w \in Writer : Commit(w)
  BY DEF Next, Step, append_memory_ledger, update_memory_influence_policy,
     append_assertion, build_ledger_evidence, Call, apply_ledger_migration,
     LockMutex, Begin, BeginBusy, CheckVersion, ReadHead, InsertEntry,
     StatementFails, CommitBusy, Crash, Rollback, vars

\* What COMMIT does to the chains: one grows by an entry that links to its end.
LEMMA CommitLinks ==
  ASSUME TypeOK, LedgerInv, NEW w \in Writer, Commit(w)
  PROVE  /\ ns[w] \in Namespace
         /\ log[ns[w]] \in Seq(Entry) /\ NewEntry(w) \in Entry
         /\ log'[ns[w]] = Append(log[ns[w]], NewEntry(w))
         /\ NewEntry(w).prev = Len(log[ns[w]])
         /\ \A m \in Namespace \ {ns[w]} : log'[m] = log[m] /\ epochs'[m] = epochs[m]
<1>1. ns[w] \in Namespace
  BY DEF Commit, TypeOK, LocalsOK
<1>2. log[ns[w]] \in Seq(Entry) /\ NewEntry(w) \in Entry
  BY <1>1, NewEntryOK DEF TypeOK, TablesOK
<1>3. /\ log'[ns[w]] = Append(log[ns[w]], NewEntry(w))
      /\ \A m \in Namespace \ {ns[w]} : log'[m] = log[m] /\ epochs'[m] = epochs[m]
  BY <1>1 DEF Commit, TypeOK, TablesOK
<1>4. NewEntry(w).prev = Len(log[ns[w]])
  BY DEF Commit, LedgerInv, HeadCurrent, NewEntry
<1> QED BY <1>1, <1>2, <1>3, <1>4

\* In every reachable state a chain has at most one open transaction (db.rs's
\* mutex and BEGIN IMMEDIATE, or the advisory lock), and that transaction works
\* from the newest entry.
THEOREM LedgerInvariant == Spec => []LedgerInv
<1>1. Init => LedgerInv
  BY InitLedgerInv
<1>2. TypeOK /\ LedgerInv /\ [Next]_vars => LedgerInv'
  BY NextLedgerInv
<1> QED BY <1>1, <1>2, TypeCorrect, PTL DEF Spec

\* Whatever the number of processes, tasks and namespaces, every append links
\* to the newest entry and none rewrites history.
THEOREM AppendsAlwaysLink == Spec => AppendsLink
<1> DEFINE Grows(n) ==
      \/ log'[n] = log[n]
      \/ LET e == log'[n][Len(log[n]) + 1]
         IN log'[n] = Append(log[n], e) /\ e.prev = Len(log[n])
<1>1. ASSUME TypeOK, LedgerInv, [Next]_vars
      PROVE  [\A n \in Namespace : Grows(n)]_vars
  <2> SUFFICES ASSUME NEW n \in Namespace PROVE Grows(n)
    OBVIOUS
  <2>1. CASE UNCHANGED tables
    BY <2>1 DEF tables
  <2>2. ASSUME NEW w \in Writer, Commit(w) PROVE Grows(n)
    <3>1. CASE n # ns[w]
      BY <1>1, <2>2, <3>1, CommitLinks
    <3>2. CASE n = ns[w]
      <4>1. /\ log'[n] = Append(log[n], NewEntry(w))
            /\ NewEntry(w).prev = Len(log[n])
            /\ log[n] \in Seq(Entry) /\ NewEntry(w) \in Entry
        BY <1>1, <2>2, <3>2, CommitLinks
      <4>2. log'[n][Len(log[n]) + 1] = NewEntry(w)
        BY ONLY <4>1, AppendProperties
      <4> QED BY <4>1, <4>2
    <3> QED BY <3>1, <3>2
  <2> QED BY <1>1, <2>1, <2>2, OnlyCommit
<1> QED BY <1>1, TypeCorrect, LedgerInvariant, PTL DEF Spec, AppendsLink

\* No namespace is ever migrated twice.
THEOREM MigratedAtMostOnce == Spec => []MigratedOnce
<1>1. LedgerInv => MigratedOnce
  BY DEF LedgerInv
<1> QED BY <1>1, LedgerInvariant, PTL

-----------------------------------------------------------------------------
\* What each epoch row says of its chain; unlike EpochVerifies it does not go
\* through the newest epoch, and keeps the genesis inside the chain.
EpochInv ==
  \A n \in Namespace : \A k \in DOMAIN epochs[n] :
    LET first == epochs[n][k].start_entry_id
    IN /\ first \in 1 .. Len(log[n])
       /\ epochs[n][k].prior_entry_count = first - 1
       /\ log[n][first].op = "migration_genesis"
       /\ Linked(n, first)

\* Every step keeps what the epochs say of their chain.
LEMMA NextEpochInv ==
  TypeOK /\ LedgerInv /\ EpochInv /\ [Next]_vars => EpochInv'
<1> SUFFICES ASSUME TypeOK, LedgerInv, EpochInv, [Next]_vars PROVE EpochInv'
  OBVIOUS
<1>1. CASE UNCHANGED tables
  BY <1>1 DEF tables, EpochInv, Linked
<1>2. ASSUME NEW w \in Writer, Commit(w) PROVE EpochInv'
  <2> DEFINE n == ns[w]
             e == NewEntry(w)
  <2>1. /\ n \in Namespace /\ log[n] \in Seq(Entry) /\ e \in Entry
        /\ log'[n] = Append(log[n], e) /\ e.prev = Len(log[n])
        /\ \A m \in Namespace \ {n} : log'[m] = log[m] /\ epochs'[m] = epochs[m]
    BY <1>2, CommitLinks
  <2>2. e.op = op[w]
    BY DEF NewEntry
  <2> HIDE DEF n, e
  <2>3. /\ Len(log[n]) \in Nat /\ Len(log'[n]) = Len(log[n]) + 1
        /\ log'[n][Len(log[n]) + 1] = e
        /\ \A i \in 1 .. Len(log[n]) : log'[n][i] = log[n][i]
    BY ONLY <2>1, AppendProperties, LenProperties
  <2> SUFFICES ASSUME NEW m \in Namespace, NEW k \in DOMAIN epochs'[m]
               PROVE  LET first == epochs'[m][k].start_entry_id
                      IN /\ first \in 1 .. Len(log'[m])
                         /\ epochs'[m][k].prior_entry_count = first - 1
                         /\ log'[m][first].op = "migration_genesis"
                         /\ \A i \in first .. Len(log'[m]) :
                              i > first => log'[m][i].prev = i - 1
    BY DEF EpochInv, Linked
  <2> DEFINE first == epochs'[m][k].start_entry_id
  <2>4. CASE m # n
    <3>1. log'[m] = log[m] /\ epochs'[m] = epochs[m]
      BY <2>1, <2>4
    <3>2. /\ first \in 1 .. Len(log[m]) /\ epochs[m][k].prior_entry_count = first - 1
          /\ log[m][first].op = "migration_genesis"
          /\ \A i \in first .. Len(log[m]) : i > first => log[m][i].prev = i - 1
      BY <3>1 DEF EpochInv, Linked
    <3> QED BY <3>1, <3>2
  <2>5. CASE m = n /\ k \in DOMAIN epochs[n] /\ epochs'[n][k] = epochs[n][k]
    <3>1. /\ first \in 1 .. Len(log[n])
          /\ epochs'[m][k].prior_entry_count = first - 1
          /\ log[n][first].op = "migration_genesis"
          /\ \A i \in first .. Len(log[n]) : i > first => log[n][i].prev = i - 1
      BY SMTT(30), <2>1, <2>5 DEF EpochInv, Linked
    <3>2. ASSUME NEW i \in first .. Len(log'[n]), i > first
          PROVE  log'[n][i].prev = i - 1
      <4>1. CASE i = Len(log[n]) + 1
        BY <2>1, <2>3, <4>1, SMTT(30)
      <4>2. CASE i # Len(log[n]) + 1
        BY <2>3, <3>1, <3>2, <4>2, SMTT(30)
      <4> QED BY <4>1, <4>2
    <3> HIDE DEF first
    <3>3. first \in 1 .. Len(log'[m]) /\ log'[m][first] = log[n][first]
      BY <2>3, <2>5, <3>1
    <3> QED BY <2>5, <3>1, <3>2, <3>3 DEF first
  <2>6. CASE m = n /\ op[w] = "migration_genesis" /\ epochs'[n] = <<NewEpoch(w)>>
    <3>1. k = 1 /\ epochs'[m][k] = NewEpoch(w)
      BY <2>6
    <3>2. first = Len(log[n]) + 1
      BY <3>1 DEF NewEpoch, n
    <3>3. expected[w] = Len(log[n])
      BY <1>2, <2>6 DEF Commit, LedgerInv, EvidenceOld, n
    <3>4. epochs'[m][k].prior_entry_count = Len(log[n])
      BY <3>1, <3>3 DEF NewEpoch
    <3> HIDE DEF first
    <3> QED BY <2>2, <2>3, <2>6, <3>2, <3>4 DEF first
  <2>7. \/ op[w] # "migration_genesis" /\ epochs'[n] = epochs[n]
        \/ op[w] = "migration_genesis" /\ epochs'[n] = <<NewEpoch(w)>>
    <3>1. CASE op[w] # "migration_genesis"
      BY <1>2, <3>1 DEF Commit
    <3>2. CASE op[w] = "migration_genesis"
      <4>1. epochs[n] \in Seq(Epoch)
        BY <2>1 DEF TypeOK, TablesOK
      <4>2. expected[w] = Len(log[n])
        BY <1>2, <3>2 DEF Commit, LedgerInv, EvidenceOld, n
      <4>3. ASSUME 1 \in DOMAIN epochs[n] PROVE FALSE
        <5>1. epochs[n][1].start_entry_id \in 1 .. Len(log[n])
          BY <2>1, <4>3 DEF EpochInv
        <5>2. expected[w] < epochs[n][1].start_entry_id
          BY <1>2, <3>2, <4>3 DEF Commit, LedgerInv, EvidenceOld, n
        <5> QED BY <2>3, <4>2, <5>1, <5>2
      <4>4. epochs[n] = <<>>
        BY <4>1, <4>3
      <4>5. epochs'[n] = Append(epochs[n], NewEpoch(w))
        BY <1>2, <2>1, <3>2 DEF Commit, TypeOK, TablesOK, n
      <4> QED BY <3>2, <4>4, <4>5
    <3> QED BY <3>1, <3>2
  <2> QED BY <2>4, <2>5, <2>6, <2>7
<1> QED BY <1>1, <1>2, OnlyCommit

\* A migrated namespace verifies from its genesis on for ever after, and its
\* epoch row counts exactly the entries the evidence preserved.
THEOREM EpochsVerify == Spec => []EpochVerifies
<1>1. Init => EpochInv
  BY DEF Init, EpochInv
<1>2. TypeOK /\ LedgerInv /\ EpochInv /\ [Next]_vars => EpochInv'
  BY NextEpochInv
<1>3. TypeOK /\ LedgerInv /\ EpochInv => EpochVerifies
  <2> SUFFICES ASSUME TypeOK, LedgerInv, EpochInv,
                      NEW n \in Namespace, NEW k \in DOMAIN epochs[n]
               PROVE  /\ epochs[n][k].prior_entry_count
                           = epochs[n][k].start_entry_id - 1
                      /\ log[n][epochs[n][k].start_entry_id].op
                           = "migration_genesis"
                      /\ verify_current_ledger_epoch(n)
    BY DEF EpochVerifies
  <2>1. epochs[n] \in Seq(Epoch) /\ Len(epochs[n]) <= 1
    BY DEF TypeOK, TablesOK, LedgerInv, MigratedOnce
  <2>2. k = Len(epochs[n]) /\ epochs[n] # <<>>
    BY <2>1
  <2>3. /\ epochs[n][k].start_entry_id \in 1 .. Len(log[n])
        /\ epochs[n][k].prior_entry_count = epochs[n][k].start_entry_id - 1
        /\ log[n][epochs[n][k].start_entry_id].op = "migration_genesis"
        /\ Linked(n, epochs[n][k].start_entry_id)
    BY DEF EpochInv
  <2>4. epochs[n][k].start_entry_id <= Len(log[n])
    BY <2>3 DEF TypeOK, TablesOK
  <2>5. verify_current_ledger_epoch(n)
    BY <2>2, <2>3, <2>4 DEF verify_current_ledger_epoch
  <2> QED BY <2>3, <2>5
<1> QED BY <1>1, <1>2, <1>3, TypeCorrect, LedgerInvariant, PTL DEF Spec

-----------------------------------------------------------------------------
\* A transaction past its version check still holds the current version.
VersionCurrent ==
  \A w \in Writer :
    (pc[w] \in {"head", "insert", "commit"} /\ op[w] \in Versioned) =>
      expected[w] = version[ns[w]][op[w]]

\* A task is past its version check because it was, or because it has just
\* compared the versions.
LEMMA PastCheck ==
  ASSUME TypeOK, [Next]_vars, NEW v \in Writer,
         pc'[v] \in {"head", "insert", "commit"}, op'[v] \in Versioned
  PROVE  /\ op'[v] = op[v] /\ ns'[v] = ns[v] /\ expected'[v] = expected[v]
         /\ \/ pc[v] \in {"head", "insert", "commit"}
            \/ /\ pc[v] = "check" /\ UNCHANGED tables
               /\ version[ns[v]][op[v]] = expected[v]
<1> DEFINE Goal ==
      /\ op'[v] = op[v] /\ ns'[v] = ns[v] /\ expected'[v] = expected[v]
      /\ \/ pc[v] \in {"head", "insert", "commit"}
         \/ /\ pc[v] = "check" /\ UNCHANGED tables
            /\ version[ns[v]][op[v]] = expected[v]
<1>1. ASSUME NEW w \in Writer, NEW n \in Namespace, NEW o, NEW e,
             NEW to \in {"mutex", "evidence"}, Call(w, n, o, e, to)
      PROVE  Goal
  BY <1>1 DEF Call, Goto, TypeOK, LocalsOK
<1>2. ASSUME NEW W, Return(W) PROVE Goal
  BY <1>2, ReturnFrame
<1>3. ASSUME NEW w \in Writer, NEW from, NEW to, Goto(w, from, to),
             UNCHANGED <<op, ns, expected>>,
             \/ to \notin {"head", "insert", "commit"}
             \/ from \in {"head", "insert", "commit"}
             \/ to = "head" /\ op[w] \notin Versioned
             \/ from = "check" /\ UNCHANGED tables
                  /\ version[ns[w]][op[w]] = expected[w]
      PROVE  Goal
  BY <1>3 DEF Goto, TypeOK, LocalsOK
<1>4. ASSUME NEW w \in Writer, NEW n \in Namespace,
             \/ append_memory_ledger(w, n)
             \/ update_memory_influence_policy(w, n)
             \/ append_assertion(w, n)
             \/ build_ledger_evidence(w, n)
      PROVE  Goal
  BY <1>1, <1>4 DEF append_memory_ledger, update_memory_influence_policy,
     append_assertion, build_ledger_evidence
<1>5. ASSUME NEW w \in Writer,
             \/ BeginBusy(w) \/ Commit(w) \/ StatementFails(w) \/ CommitBusy(w)
      PROVE  Goal
  BY <1>2, <1>5 DEF BeginBusy, Commit, StatementFails, CommitBusy, Rollback,
     EndTransaction
<1>6. ASSUME NEW w \in Writer, apply_ledger_migration(w) \/ LockMutex(w)
      PROVE  Goal
  BY <1>2, <1>3, <1>6 DEF apply_ledger_migration, LockMutex, locals
<1>7. ASSUME NEW w \in Writer, Begin(w) PROVE Goal
  <2>1. /\ Goto(w, "begin", AfterBegin(w)) /\ UNCHANGED <<op, ns, expected>>
    BY <1>7 DEF Begin, locals
  <2>2. \/ AfterBegin(w) = "check"
        \/ AfterBegin(w) = "head" /\ op[w] \notin Versioned
    BY DEF AfterBegin
  <2> QED BY <1>3, <2>1, <2>2
<1>8. ASSUME NEW w \in Writer, CheckVersion(w) PROVE Goal
  BY <1>2, <1>3, <1>8 DEF CheckVersion, Rollback, EndTransaction, locals
<1>9. ASSUME NEW w \in Writer, ReadHead(w) \/ InsertEntry(w) PROVE Goal
  BY <1>2, <1>3, <1>9
     DEF ReadHead, InsertEntry, Rollback, EndTransaction, locals
<1>10. ASSUME NEW p \in Process, Crash(p) PROVE Goal
  BY <1>2, <1>10 DEF Crash
<1>11. CASE UNCHANGED vars
  BY <1>11 DEF vars, locals
<1> QED
  BY <1>4, <1>5, <1>6, <1>7, <1>8, <1>9, <1>10, <1>11 DEF Next, Step

\* Nobody else moves a version while a transaction on its namespace is open.
LEMMA NextVersionCurrent ==
  TypeOK /\ LedgerInv /\ VersionCurrent /\ [Next]_vars => VersionCurrent'
<1> SUFFICES ASSUME TypeOK, LedgerInv, VersionCurrent, [Next]_vars,
                    NEW v \in Writer, pc'[v] \in {"head", "insert", "commit"},
                    op'[v] \in Versioned
             PROVE  expected'[v] = version'[ns'[v]][op'[v]]
  BY DEF VersionCurrent
<1>1. /\ op'[v] = op[v] /\ ns'[v] = ns[v] /\ expected'[v] = expected[v]
      /\ \/ pc[v] \in {"head", "insert", "commit"}
         \/ /\ pc[v] = "check" /\ UNCHANGED tables
            /\ version[ns[v]][op[v]] = expected[v]
  BY PastCheck
<1>2. CASE UNCHANGED tables
  BY <1>1, <1>2 DEF VersionCurrent, tables
<1>3. ASSUME NEW w \in Writer, Commit(w), pc[v] \in {"head", "insert", "commit"}
      PROVE  expected'[v] = version'[ns'[v]][op'[v]]
  <2>1. v # w
    BY <1>3, ReturnFrame DEF Commit, EndTransaction
  <2>2. pc[v] \in InTransaction /\ pc[w] \in InTransaction
    BY <1>3, Names DEF Commit
  <2>3. ns[v] # ns[w]
    BY <2>1, <2>2, Exclusive DEF LedgerInv
  <2>4. ns[v] \in Namespace
    BY <2>2 DEF TypeOK, LocalsOK, InTransaction
  <2>5. version'[ns[v]] = version[ns[v]]
    BY <1>3, <2>3, <2>4 DEF Commit, TypeOK, TablesOK
  <2> QED BY <1>1, <1>3, <2>5 DEF VersionCurrent
<1> QED BY <1>1, <1>2, <1>3, OnlyCommit

\* A COMMIT is one step of the abstract log.
LEMMA CommitIsAtomic ==
  ASSUME TypeOK, LedgerInv, VersionCurrent, NEW w \in Writer, Commit(w)
  PROVE  Audit!Next
<1> DEFINE n == ns[w]
<1>1. /\ n \in Namespace
      /\ log' = [log EXCEPT ![n] = Append(@, NewEntry(w))]
      /\ head[w] = Len(log[n])
  BY CommitLinks DEF Commit, LedgerInv, HeadCurrent
<1>2. CASE op[w] = "append"
  <2>1. NewEntry(w) = [prev |-> Len(log[n]), op |-> "append", version |-> 0]
    BY <1>1, <1>2 DEF NewEntry, Versioned
  <2>2. UNCHANGED <<version, epochs>>
    BY <1>2 DEF Commit, Versioned
  <2>3. Audit!Record(n)
    BY <1>1, <2>1, <2>2 DEF Audit!Record, Audit!Extend, Genesis
  <2> QED BY <1>1, <2>3 DEF Audit!Next
<1>3. CASE op[w] \in Versioned
  <2>1. expected[w] = version[n][op[w]]
    BY <1>3 DEF Commit, VersionCurrent
  <2>2. NewEntry(w) = [prev |-> Len(log[n]), op |-> op[w],
                       version |-> version[n][op[w]] + 1]
    BY <1>1, <1>3, <2>1 DEF NewEntry
  <2>3. version' = [version EXCEPT ![n][op[w]] = @ + 1] /\ epochs' = epochs
    BY <1>3, <2>1 DEF Commit, Versioned
  <2>4. Audit!Update(n, op[w])
    BY <1>1, <2>2, <2>3 DEF Audit!Update, Audit!Extend, Genesis
  <2> QED BY <1>1, <1>3, <2>4 DEF Audit!Next
<1>4. CASE op[w] = "migration_genesis"
  <2>1. /\ expected[w] = Len(log[n])
        /\ \A k \in DOMAIN epochs[n] : expected[w] < epochs[n][k].start_entry_id
    BY <1>4 DEF Commit, LedgerInv, EvidenceOld
  <2>2. epochs[n] \in Seq(Epoch) /\ Len(log[n]) \in Nat
    BY <1>1 DEF TypeOK, TablesOK
  <2>3. epochs[n] = <<>>
    <3>1. ASSUME 1 \in DOMAIN epochs[n] PROVE FALSE
      BY <1>1, <2>1, <2>2, <3>1, EpochOK DEF LedgerInv, EpochsInLog
    <3> QED BY <2>2, <3>1
  <2>4. /\ epochs' = [epochs EXCEPT ![n] = <<NewEpoch(w)>>]
        /\ UNCHANGED version
    BY <1>1, <1>4, <2>3 DEF Commit, Versioned, TypeOK, TablesOK
  <2>5. NewEntry(w) = [prev |-> Len(log[n]), op |-> "migration_genesis", version |-> 0]
    BY <1>1, <1>4 DEF NewEntry, Versioned
  <2>6. Genesis[n] = 0
    BY <1>1, <2>3 DEF Genesis
  <2>7. Genesis' = [Genesis EXCEPT ![n] = Len(log[n]) + 1]
    <3>1. \A m \in Namespace : epochs'[m] = IF m = n THEN <<NewEpoch(w)>> ELSE epochs[m]
      BY <1>1, <2>4 DEF TypeOK, TablesOK
    <3>2. NewEpoch(w).start_entry_id = Len(log[n]) + 1
      BY DEF NewEpoch
    <3>3. \A m \in Namespace :
            (IF epochs'[m] = <<>> THEN 0 ELSE epochs'[m][1].start_entry_id)
              = IF m = n THEN Len(log[n]) + 1
                ELSE IF epochs[m] = <<>> THEN 0 ELSE epochs[m][1].start_entry_id
      <4> TAKE m \in Namespace
      <4>1. CASE m = n
        <5>1. epochs'[m] # <<>> /\ epochs'[m][1] = NewEpoch(w)
          BY <3>1, <4>1
        <5> QED BY <3>2, <4>1, <5>1
      <4>2. CASE m # n
        BY <3>1, <4>2
      <4> QED BY <4>1, <4>2
    <3> QED BY <3>3 DEF Genesis
  <2>8. Audit!Migrate(n)
    BY <1>1, <2>4, <2>5, <2>6, <2>7 DEF Audit!Migrate, Audit!Extend
  <2> QED BY <1>1, <2>8 DEF Audit!Next
<1>5. op[w] \in Op
  BY DEF TypeOK, LocalsOK
<1> QED BY <1>2, <1>3, <1>4, <1>5 DEF Op

\* The mutex, the transactions and the version checks of db.rs implement the
\* abstract log: for any number of processes, tasks and namespaces, what a
\* reader of the tables can see is atomic records, updates and one migration.
THEOREM LedgerImplementsAuditLog == Spec => ImplementsAuditLog
<1>1. Init => Audit!Init
  <2> SUFFICES ASSUME Init PROVE Audit!Init
    OBVIOUS
  <2>1. Audit!Entry = Entry
    BY DEF Audit!Entry, Entry, Op
  <2>2. log \in [Namespace -> Seq(Entry)]
    BY InitTypeOK DEF TypeOK, TablesOK
  <2>3. \A n \in Namespace : \A i \in DOMAIN log[n] : log[n][i].op = "append"
    BY DEF Init, Legacy
  <2>4. Genesis = [n \in Namespace |-> 0]
    BY DEF Init, Genesis
  <2> QED BY <2>1, <2>2, <2>3, <2>4 DEF Init, Audit!Init
<1>2. Init => VersionCurrent
  BY DEF Init, VersionCurrent
<1>3. TypeOK /\ LedgerInv /\ VersionCurrent /\ [Next]_vars => VersionCurrent'
  BY NextVersionCurrent
<1>4. TypeOK /\ LedgerInv /\ VersionCurrent /\ [Next]_vars => [Audit!Next]_(Audit!vars)
  <2>1. CASE UNCHANGED tables
    BY <2>1 DEF tables, Audit!vars, Genesis
  <2> QED BY <2>1, CommitIsAtomic, OnlyCommit
<1> QED
  BY <1>1, <1>2, <1>3, <1>4, TypeCorrect, LedgerInvariant, PTL
     DEF Spec, ImplementsAuditLog, Audit!Spec
=============================================================================
