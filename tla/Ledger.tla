------------------------------- MODULE Ledger -------------------------------
(***************************************************************************)
(* memory_ledger: the hash-chained audit log, one chain per namespace, its *)
(* migration epochs, and the two versioned records that write a receipt in *)
(* the transaction of their update (influence policies and assertions).    *)
(* Writers are tasks of several processes that share one database.  SQLite *)
(* serialises them with an in-process mutex and BEGIN IMMEDIATE, Postgres  *)
(* with one advisory lock per namespace.                                   *)
(***************************************************************************)
EXTENDS Naturals, Sequences, FiniteSets

CONSTANTS
  Backend,      \* "sqlite" or "postgres"
  Namespace,
  Process,      \* daemons and CLI commands on the same database
  Writer,       \* their tasks
  Home,         \* Home[w]: the process of w
  Database,     \* the key of SQLite's single write reservation
  None,
  MaxEntries,   \* bound: no call starts once a chain is this long
  MaxFaults     \* bound: COMMITs that find the database busy

ASSUME ConstantsAssumption ==
  /\ Backend \in {"sqlite", "postgres"}
  /\ Home \in [Writer -> Process]
  /\ Database \notin Namespace
  /\ Writer \intersect Process = {}
  /\ None \notin Writer \union Process \union Namespace
  /\ MaxEntries \in Nat /\ MaxFaults \in Nat

Versioned == {"policy", "assertion"}
Op        == {"append", "migration_genesis"} \union Versioned

VARIABLES
  log,       \* log[n]: the rows of n by id; an entry_hash is known by its position
  epochs,    \* memory_ledger_epochs rows of n, by epoch number
  version,   \* current version of the policy and of the assertion of n
  mutex,     \* sqlite_ledger_write_lock of each process
  lock,      \* the reservation or advisory lock: a writer, a process, or None
  faults,
  pc, op, ns,        \* what each writer does, and where
  expected,          \* expected_prev_hash, or expected_version
  head               \* the prev_hash its entry will carry

tables == <<log, epochs, version>>
locks  == <<mutex, lock, faults>>
locals == <<op, ns, expected, head>>
vars   == <<tables, locks, pc, locals>>

\* prev is the position of the entry whose hash is prev_hash, 0 for NULL.
Entry == [prev : Nat, op : Op, version : Nat]
Epoch == [start_entry_id : Nat, prior_entry_count : Nat]

InTransaction == {"check", "head", "insert", "commit"}
PC == {"idle", "evidence", "mutex", "begin"} \union InTransaction

TablesOK ==
  /\ log \in [Namespace -> Seq(Entry)]
  /\ epochs \in [Namespace -> Seq(Epoch)]
  /\ version \in [Namespace -> [Versioned -> Nat]]

LocksOK ==
  /\ mutex \in [Process -> Writer \union {None}]
  /\ lock \in [Namespace \union {Database} -> Writer \union Process \union {None}]
  /\ faults \in 0..MaxFaults

LocalsOK ==
  /\ pc \in [Writer -> PC]
  /\ op \in [Writer -> Op]
  /\ ns \in [Writer -> Namespace \union {None}]
  /\ \A w \in Writer : pc[w] # "idle" => ns[w] \in Namespace
  /\ expected \in [Writer -> Nat]
  /\ head \in [Writer -> Nat]

\* Every table, lock and task of the ledger has the shape db.rs gives it.
TypeOK == TablesOK /\ LocksOK /\ LocalsOK

\* Rows written before appends were serialised: a chain, or one with forks.
Legacy(prevs) == [i \in DOMAIN prevs |->
                    [prev |-> prevs[i], op |-> "append", version |-> 0]]

Init ==
  /\ log \in [Namespace -> {<<>>, Legacy(<<0>>), Legacy(<<0, 0>>)}]
  /\ epochs = [n \in Namespace |-> <<>>]
  /\ version = [n \in Namespace |-> [k \in Versioned |-> 0]]
  /\ mutex = [p \in Process |-> None]
  /\ lock = [k \in Namespace \union {Database} |-> None]
  /\ faults = 0
  /\ pc = [w \in Writer |-> "idle"]
  /\ op = [w \in Writer |-> "append"]
  /\ ns = [w \in Writer |-> None]
  /\ expected = [w \in Writer |-> 0]
  /\ head = [w \in Writer |-> 0]

-----------------------------------------------------------------------------
\* The tasks in W return (or die): their locals are gone.
Return(W) ==
  /\ pc' = [w \in Writer |-> IF w \in W THEN "idle" ELSE pc[w]]
  /\ op' = [w \in Writer |-> IF w \in W THEN "append" ELSE op[w]]
  /\ ns' = [w \in Writer |-> IF w \in W THEN None ELSE ns[w]]
  /\ expected' = [w \in Writer |-> IF w \in W THEN 0 ELSE expected[w]]
  /\ head' = [w \in Writer |-> IF w \in W THEN 0 ELSE head[w]]

LockKey(w) == IF Backend = "sqlite" THEN Database ELSE ns[w]

\* Assertions open their transaction with begin_write, which skips the mutex.
TakesMutex(w) == Backend = "sqlite" /\ op[w] # "assertion"

Goto(w, from, to) ==
  /\ pc[w] = from
  /\ pc' = [pc EXCEPT ![w] = to]

\* A task enters an operation on namespace n.
Call(w, n, o, e, to) ==
  /\ Goto(w, "idle", to)
  /\ Len(log[n]) < MaxEntries
  /\ op' = [op EXCEPT ![w] = o]
  /\ ns' = [ns EXCEPT ![w] = n]
  /\ expected' = [expected EXCEPT ![w] = e]
  /\ UNCHANGED <<tables, locks, head>>

append_memory_ledger(w, n) == Call(w, n, "append", 0, "mutex")

\* The caller sends the version it has read; others may commit before its
\* transaction begins.
update_memory_influence_policy(w, n) ==
  Call(w, n, "policy", version[n]["policy"], "mutex")

append_assertion(w, n) ==
  Call(w, n, "assertion", version[n]["assertion"], "mutex")

\* `ledger-migrate --apply`: the evidence covers the rows that exist now.
build_ledger_evidence(w, n) ==
  /\ log[n] # <<>>
  /\ Call(w, n, "migration_genesis", Len(log[n]), "evidence")

\* Mutant: a namespace that has an epoch is given another.
apply_ledger_migration_Again(w) ==
  /\ Goto(w, "evidence", "mutex")
  /\ UNCHANGED <<tables, locks, locals>>

\* The namespace must have no epoch yet; this read is outside the transaction.
apply_ledger_migration(w) ==
  /\ pc[w] = "evidence"
  /\ IF epochs[ns[w]] = <<>>
     THEN Goto(w, "evidence", "mutex") /\ UNCHANGED locals
     ELSE Return({w})
  /\ UNCHANGED <<tables, locks>>

-----------------------------------------------------------------------------
\* Mutant: a refused statement returns without ROLLBACK.
EndTransaction_KeepsReservation(w) ==
  /\ Return({w})
  /\ lock' = [k \in DOMAIN lock |->
                IF lock[k] = w /\ pc[w] = "commit" THEN None ELSE lock[k]]
  /\ mutex' = [p \in Process |-> IF mutex[p] = w THEN None ELSE mutex[p]]

\* COMMIT or ROLLBACK ends the transaction and its lock; returning drops the
\* mutex guard.
EndTransaction(w) ==
  /\ Return({w})
  /\ lock' = [k \in DOMAIN lock |-> IF lock[k] = w THEN None ELSE lock[k]]
  /\ mutex' = [p \in Process |-> IF mutex[p] = w THEN None ELSE mutex[p]]

Rollback(w) ==
  /\ EndTransaction(w)
  /\ UNCHANGED <<tables, faults>>

LockMutex(w) ==
  /\ Goto(w, "mutex", "begin")
  /\ IF TakesMutex(w)
     THEN /\ mutex[Home[w]] = None
          /\ mutex' = [mutex EXCEPT ![Home[w]] = w]
     ELSE UNCHANGED mutex
  /\ UNCHANGED <<tables, lock, faults, locals>>

AfterBegin(w) == IF op[w] \in Versioned THEN "check" ELSE "head"

\* BEGIN IMMEDIATE, or BEGIN and pg_advisory_xact_lock.
Begin(w) ==
  /\ Goto(w, "begin", AfterBegin(w))
  /\ lock[LockKey(w)] = None
  /\ lock' = [lock EXCEPT ![LockKey(w)] = w]
  /\ UNCHANGED <<tables, mutex, faults, locals>>

\* SQLite gives up when the busy timeout ends; Postgres waits for the lock.
BeginBusy(w) ==
  /\ Backend = "sqlite"
  /\ pc[w] = "begin"
  /\ lock[LockKey(w)] # None
  /\ Rollback(w)

CheckVersion(w) ==
  /\ pc[w] = "check"
  /\ IF version[ns[w]][op[w]] = expected[w]
     THEN Goto(w, "check", "head") /\ UNCHANGED <<tables, locks, locals>>
     ELSE Rollback(w)

\* Mutant: the migration does not compare the head with its evidence.
ReadHead_Unchecked(w) ==
  /\ Goto(w, "head", "insert")
  /\ head' = [head EXCEPT ![w] = Len(log[ns[w]])]
  /\ UNCHANGED <<tables, locks, op, ns, expected>>

\* The newest row of the namespace; a migration insists on the one its
\* evidence ends with.
ReadHead(w) ==
  /\ pc[w] = "head"
  /\ IF op[w] = "migration_genesis" /\ Len(log[ns[w]]) # expected[w]
     THEN Rollback(w)
     ELSE /\ Goto(w, "head", "insert")
          /\ head' = [head EXCEPT ![w] = Len(log[ns[w]])]
          /\ UNCHANGED <<tables, locks, op, ns, expected>>

\* The entry, and with it the epoch row; nothing is visible before COMMIT.
InsertEntry(w) ==
  /\ Goto(w, "insert", "commit")
  /\ UNCHANGED <<tables, locks, locals>>

NewEntry(w) ==
  [prev |-> head[w], op |-> op[w],
   version |-> IF op[w] \in Versioned THEN expected[w] + 1 ELSE 0]

NewEpoch(w) ==
  [start_entry_id |-> Len(log[ns[w]]) + 1, prior_entry_count |-> expected[w]]

Commit(w) ==
  /\ pc[w] = "commit"
  /\ log' = [log EXCEPT ![ns[w]] = Append(@, NewEntry(w))]
  /\ epochs' = IF op[w] = "migration_genesis"
               THEN [epochs EXCEPT ![ns[w]] = Append(@, NewEpoch(w))]
               ELSE epochs
  /\ version' = IF op[w] \in Versioned
                THEN [version EXCEPT ![ns[w]][op[w]] = expected[w] + 1]
                ELSE version
  /\ EndTransaction(w)
  /\ UNCHANGED faults

\* A failing statement, a refused patch, or a COMMIT that cannot be written.
StatementFails(w) ==
  /\ pc[w] \in InTransaction
  /\ Rollback(w)

\* A COMMIT that finds the database busy leaves SQLite's transaction open.
\* The task returns the error without ROLLBACK, so the connection goes back
\* to the pool of its process still holding the reservation.  Assertions
\* commit an sqlx Transaction, which rolls back when it is dropped.
CommitBusy(w) ==
  /\ TakesMutex(w)
  /\ pc[w] = "commit"
  /\ faults < MaxFaults
  /\ faults' = faults + 1
  /\ Return({w})
  /\ lock' = [lock EXCEPT ![Database] = Home[w]]
  /\ mutex' = [mutex EXCEPT ![Home[w]] = None]
  /\ UNCHANGED tables

\* A process dies, or restarts: its connections close, their transactions
\* roll back.
Crash(p) ==
  /\ Return({w \in Writer : Home[w] = p})
  /\ mutex' = [mutex EXCEPT ![p] = None]
  /\ lock' = [k \in DOMAIN lock |->
                IF lock[k] = p \/ \E w \in Writer : lock[k] = w /\ Home[w] = p
                THEN None ELSE lock[k]]
  /\ UNCHANGED <<tables, faults>>

-----------------------------------------------------------------------------
Step(w) ==
  \/ apply_ledger_migration(w)
  \/ BeginBusy(w)
  \/ CheckVersion(w)
  \/ ReadHead(w)
  \/ InsertEntry(w)
  \/ Commit(w)
  \/ StatementFails(w)
  \/ CommitBusy(w)

Next ==
  \/ \E w \in Writer, n \in Namespace :
       \/ append_memory_ledger(w, n)
       \/ update_memory_influence_policy(w, n)
       \/ append_assertion(w, n)
       \/ build_ledger_evidence(w, n)
  \/ \E w \in Writer : LockMutex(w) \/ Begin(w) \/ Step(w)
  \/ \E p \in Process : Crash(p)

Spec == Init /\ [][Next]_vars

\* A running task takes its next step; tokio's mutex and Postgres' lock queue
\* are first come, first served.
Fairness ==
  \A w \in Writer :
    /\ WF_vars(Step(w))
    /\ SF_vars(LockMutex(w))
    /\ SF_vars(Begin(w))

FairSpec == Spec /\ Fairness

-----------------------------------------------------------------------------
\* verify_current_ledger_epoch, and verify_ledger_chain without an epoch: the
\* hashes re-derive (they are positions), so what is left are the links.
Linked(n, first) ==
  \A i \in first .. Len(log[n]) :
    i > first => log[n][i].prev = i - 1

verify_current_ledger_epoch(n) ==
  IF epochs[n] = <<>>
  THEN Linked(n, 1) /\ (log[n] # <<>> => log[n][1].prev = 0)
  ELSE LET first == epochs[n][Len(epochs[n])].start_entry_id
       IN first <= Len(log[n]) /\ Linked(n, first)

\* Every step leaves each chain as it is or adds one entry that links to the
\* newest row: whatever order the tasks of all processes run in, nobody
\* appends a sibling branch and nobody rewrites history.
AppendsLink ==
  [][\A n \in Namespace :
       \/ log'[n] = log[n]
       \/ LET e == log'[n][Len(log[n]) + 1]
          IN log'[n] = Append(log[n], e) /\ e.prev = Len(log[n])]_vars

\* Two migrations that both found no epoch cannot both commit: a namespace is
\* migrated at most once.
MigratedOnce == \A n \in Namespace : Len(epochs[n]) <= 1

\* A migrated namespace verifies from its genesis on, and the epoch row counts
\* exactly the rows its evidence bundle preserved, forks and all.
EpochVerifies ==
  \A n \in Namespace : \A k \in DOMAIN epochs[n] :
    /\ epochs[n][k].prior_entry_count = epochs[n][k].start_entry_id - 1
    /\ log[n][epochs[n][k].start_entry_id].op = "migration_genesis"
    /\ verify_current_ledger_epoch(n)

\* An epoch row is known by its genesis entry; locks and tasks are not seen.
Genesis ==
  [n \in Namespace |-> IF epochs[n] = <<>> THEN 0 ELSE epochs[n][1].start_entry_id]

Audit == INSTANCE AuditLog WITH genesis <- Genesis

\* Seen from outside, the transactions of any number of processes are one log
\* per namespace with atomic records, updates that come with their receipt,
\* and a single migration (db.rs and compliance.rs through their transactions).
ImplementsAuditLog == Audit!Spec

\* Every ledger call returns, with an entry or an error, and takes neither the
\* mutex nor the reservation with it.  What it may leave behind is a busy
\* COMMIT's open transaction: its connection goes back to the pool, so that the
\* reservation is the process's, and until that process ends the calls of all
\* others return at the busy timeout (db.rs:4634 has no ROLLBACK).
CallsReturn ==
  \A w \in Writer :
    /\ pc[w] # "idle" ~> pc[w] = "idle"
    /\ \A p \in Process : mutex[p] = w ~> mutex[p] # w
    /\ \A k \in Namespace \union {Database} : lock[k] = w ~> lock[k] # w
=============================================================================
