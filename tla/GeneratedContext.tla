-------------------------- MODULE GeneratedContext --------------------------
(***************************************************************************)
(* IRONMEM.md: the context file that `inject` publishes into a project and *)
(* that every later change of a memory must invalidate.  hooks.rs keeps a  *)
(* registration (content hash, dirty counter) beside the file; triggers on *)
(* the memory tables bump the counter and a global revision.  Files and    *)
(* tables do not share a transaction: tasks interleave between any two     *)
(* awaits, die, fail, and the user may edit the file at any time.          *)
(***************************************************************************)
EXTENDS Naturals, FiniteSets

CONSTANTS
  Backend,     \* "sqlite": begin_write reserves the writer; "postgres": it does not
  Memory,
  Task,        \* tasks of the daemon, of CLI commands and of MCP servers
  User,        \* the content of a file the user has edited
  None,
  UserRaces,   \* may the user save between a task's read and its unlink?
  MaxOps,      \* bound: operations started
  MaxEdits,    \* bound: edits of the user
  MaxFaults    \* bound: crashes, failed statements, busy timeouts

\* A rendered file is known by the memories it shows; so is its hash.
Content == (SUBSET Memory) \ {{}}
Row     == [hash : Content, dirty : Nat]   \* of generated_context_files

ASSUME ConstantsAssumption ==
  /\ Backend \in {"sqlite", "postgres"}
  /\ None \notin Task \union Row
  /\ User # None
  /\ \A c \in SUBSET Memory : c # User /\ c # None
  /\ UserRaces \in BOOLEAN
  /\ MaxOps \in Nat /\ MaxEdits \in Nat /\ MaxFaults \in Nat

VARIABLES
  status,     \* of each memory: "absent", "active", "gone" (tombstoned)
  revision,   \* context_revision
  reg,        \* the project's generated_context_files row
  file,       \* IRONMEM.md
  orphan,     \* history: the file was left by a publication that died or failed
  lock,       \* SQLite's write reservation
  pc,
  rev,        \* the revision a task captured before its selection
  chosen,     \* the memories it selected
  row,        \* the dirty row it invalidates
  ops, edits, faults

tables  == <<status, revision, reg>>
locals  == <<rev, chosen, row>>
budgets == <<ops, edits, faults>>
vars    == <<tables, file, orphan, lock, pc, locals, budgets>>

\* points inside a begin_write transaction
Publishing   == {"check", "write", "publish"}
Invalidating == {"rows", "read", "remove", "delete"}

PC == {"idle", "select", "preview_select", "preview", "deliver", "begin", "cleanup",
       "forget", "count", "begin_invalidate"} \union Publishing \union Invalidating

TablesOK ==
  /\ status \in [Memory -> {"absent", "active", "gone"}]
  /\ revision \in Nat
  /\ reg = None \/ reg \in Row
  /\ file \in {User, None} \/ file \in Content
  /\ orphan \in BOOLEAN
  /\ lock \in Task \union {None}
  /\ ops \in Nat /\ edits \in Nat /\ faults \in Nat

LocalsOK ==
  /\ pc \in [Task -> PC]
  /\ rev \in [Task -> Nat]
  /\ chosen \in [Task -> SUBSET Memory]
  /\ row \in [Task -> Row \union {None}]
  /\ \A t \in Task : pc[t] \in {"read", "remove", "delete"} => row[t] \in Row

\* Tables, file and locals have the shape db.rs and hooks.rs give them; an
\* invalidation that looks at the file has a row in hand.
TypeOK == TablesOK /\ LocalsOK

Init ==
  /\ status \in [Memory -> {"absent", "active"}]
  /\ revision = 0
  /\ reg = None
  /\ file \in {None, User}
  /\ orphan = FALSE
  /\ lock = None
  /\ pc = [t \in Task |-> "idle"]
  /\ rev = [t \in Task |-> 0]
  /\ chosen = [t \in Task |-> {}]
  /\ row = [t \in Task |-> None]
  /\ ops = 0 /\ edits = 0 /\ faults = 0

Active == {m \in Memory : status[m] = "active"}

Goto(t, from, to) ==
  /\ pc[t] = from
  /\ pc' = [pc EXCEPT ![t] = to]

\* A new operation of an idle task.
Starts == ops < MaxOps /\ ops' = ops + 1 /\ UNCHANGED <<edits, faults>>

Fault == faults < MaxFaults /\ faults' = faults + 1 /\ UNCHANGED <<ops, edits>>

\* begin_write.  PostgreSQL opens a transaction and locks nothing.
Reserve(t) ==
  IF Backend = "sqlite"
  THEN lock = None /\ lock' = t
  ELSE UNCHANGED lock

\* COMMIT, or the rollback of a dropped transaction.
Unlock(t) == lock' = IF lock = t THEN None ELSE lock

\* The task returns: its locals are gone.
Return(t) ==
  /\ pc' = [pc EXCEPT ![t] = "idle"]
  /\ rev' = [rev EXCEPT ![t] = 0]
  /\ chosen' = [chosen EXCEPT ![t] = {}]
  /\ row' = [row EXCEPT ![t] = None]

-----------------------------------------------------------------------------
(* Publication: run_inject, handle_inject_context, inject_with_budget.      *)

context_revision(t) ==
  /\ Goto(t, "idle", "select")
  /\ Starts
  /\ rev' = [rev EXCEPT ![t] = revision]
  /\ UNCHANGED <<tables, file, orphan, lock, chosen, row>>

\* Ranking, the influence gate and the working set leave some of the active
\* memories, or none.
rank_for_injection(t) ==
  /\ Goto(t, "select", "begin")
  /\ \E S \in SUBSET Active : chosen' = [chosen EXCEPT ![t] = S]
  /\ UNCHANGED <<tables, file, orphan, lock, rev, row, budgets>>

begin_write(t) ==
  /\ Goto(t, "begin", "check")
  /\ Reserve(t)
  /\ UNCHANGED <<tables, file, orphan, locals, budgets>>

\* Mutant: the revision is not verified again.
VerifyRevision_Skipped(t) ==
  /\ Goto(t, "check", "write")
  /\ UNCHANGED <<tables, file, orphan, lock, locals, budgets>>

VerifyRevision(t) ==
  /\ pc[t] = "check"
  /\ IF rev[t] = revision /\ chosen[t] \subseteq Active
     THEN Goto(t, "check", "write") /\ UNCHANGED <<lock, locals>>
     ELSE Return(t) /\ Unlock(t)
  /\ UNCHANGED <<tables, file, orphan, budgets>>

\* An atomic rename, or the removal of the file when nothing is to be shown.
write_ironmem_file(t) ==
  /\ Goto(t, "write", "publish")
  /\ file' = IF chosen[t] = {} THEN None ELSE chosen[t]
  /\ orphan' = FALSE
  /\ UNCHANGED <<tables, lock, locals, budgets>>

\* Registers the bytes this task rendered, and commits.
Publish(t) ==
  /\ pc[t] = "publish"
  /\ reg' = IF chosen[t] = {} THEN reg ELSE [hash |-> chosen[t], dirty |-> 0]
  /\ Return(t)
  /\ Unlock(t)
  /\ UNCHANGED <<status, revision, file, orphan, budgets>>

\* BEGIN, a check or the file operation fails, before anything is written.
InjectFails(t) ==
  /\ pc[t] \in {"select", "begin", "check", "write"}
  /\ Fault
  /\ Return(t)
  /\ Unlock(t)
  /\ UNCHANGED <<tables, file, orphan>>

\* The registration or its COMMIT fails: the transaction is rolled back first.
RegistrationFails(t) ==
  /\ Goto(t, "publish", "cleanup")
  /\ Fault
  /\ Unlock(t)
  /\ UNCHANGED <<tables, file, orphan, locals>>

\* Mutant: the cleanup does not compare the file with the rendered bytes.
Cleanup_Any(t) ==
  /\ pc[t] = "cleanup"
  /\ file' = None
  /\ Return(t)
  /\ UNCHANGED <<tables, orphan, lock, budgets>>

\* Removes the file if it still holds the rendered bytes; an unlink that fails
\* is only logged.
Cleanup(t) ==
  /\ pc[t] = "cleanup"
  /\ \/ /\ file' = IF file = chosen[t] THEN None ELSE file
        /\ UNCHANGED <<orphan, faults>>
     \/ /\ file = chosen[t]
        /\ faults < MaxFaults
        /\ faults' = faults + 1
        /\ orphan' = TRUE
        /\ UNCHANGED file
  /\ Return(t)
  /\ UNCHANGED <<tables, lock, ops, edits>>

-----------------------------------------------------------------------------
(* Changes of memories.  Each is a transaction with the triggers of         *)
(* access_mutations.rs, and ends in invalidate_generated_files.             *)

Bump(d) ==
  /\ revision' = revision + 1
  /\ reg' = IF reg = None THEN None ELSE [reg EXCEPT !.dirty = d]

\* A writer waits for SQLite's reservation.
Mutation(t) ==
  /\ Backend = "sqlite" => lock = None
  /\ UNCHANGED <<file, orphan, lock, locals>>

\* The tombstone; the ledger and the transcript's blob come before the rest.
governed_delete_memory(t, m) ==
  /\ Goto(t, "idle", "forget")
  /\ Starts
  /\ Mutation(t)
  /\ status[m] = "active"
  /\ status' = [status EXCEPT ![m] = "gone"]
  /\ Bump(reg.dirty + 1)

\* The row itself goes.
delete_memory(t) ==
  /\ Goto(t, "forget", "count")
  /\ Mutation(t)
  /\ Bump(reg.dirty + 1)
  /\ UNCHANGED <<status, budgets>>

\* A statement after the tombstone fails: the error is kept until the files
\* have been invalidated.
ForgetFails(t) ==
  /\ Goto(t, "forget", "count")
  /\ Fault
  /\ UNCHANGED <<tables, file, orphan, lock, locals>>

insert_memory(t, m) ==
  /\ Goto(t, "idle", "count")
  /\ Starts
  /\ Mutation(t)
  /\ status[m] = "absent"
  /\ status' = [status EXCEPT ![m] = "active"]
  /\ Bump(reg.dirty + 1)

\* An assertion sets the counter to 1 instead of raising it.
append_assertion(t) ==
  /\ Goto(t, "idle", "count")
  /\ Starts
  /\ Mutation(t)
  /\ Bump(1)
  /\ UNCHANGED status

-----------------------------------------------------------------------------
(* invalidate_generated_files                                               *)

\* Mutant: the first change is not counted.
IsDirty_OffByOne == reg # None /\ reg.dirty > 1

IsDirty == reg # None /\ reg.dirty > 0

\* The early return, outside any transaction.
CountDirty(t) ==
  /\ pc[t] = "count"
  /\ IF IsDirty
     THEN Goto(t, "count", "begin_invalidate") /\ UNCHANGED locals
     ELSE Return(t)
  /\ UNCHANGED <<tables, file, orphan, lock, budgets>>

BeginInvalidate(t) ==
  /\ Goto(t, "begin_invalidate", "rows")
  /\ Reserve(t)
  /\ UNCHANGED <<tables, file, orphan, locals, budgets>>

SelectDirty(t) ==
  /\ pc[t] = "rows"
  /\ IF IsDirty
     THEN /\ Goto(t, "rows", "read")
          /\ row' = [row EXCEPT ![t] = reg]
          /\ UNCHANGED <<lock, rev, chosen>>
     ELSE Return(t) /\ Unlock(t)
  /\ UNCHANGED <<tables, file, orphan, budgets>>

\* An edited or missing file is left alone.
ReadFile(t) ==
  /\ Goto(t, "read", IF file = row[t].hash THEN "remove" ELSE "delete")
  /\ UNCHANGED <<tables, file, orphan, lock, locals, budgets>>

\* A file that vanished since it was read is an error.
RemoveFile(t) ==
  /\ pc[t] = "remove"
  /\ IF file # None
     THEN Goto(t, "remove", "delete") /\ UNCHANGED <<lock, locals>>
     ELSE Return(t) /\ Unlock(t)
  /\ file' = None
  /\ UNCHANGED <<tables, orphan, budgets>>

\* Deletes the row it has read, unless it has changed, and commits.
DeleteRow(t) ==
  /\ pc[t] = "delete"
  /\ reg' = IF reg = row[t] THEN None ELSE reg
  /\ Return(t)
  /\ Unlock(t)
  /\ UNCHANGED <<status, revision, file, orphan, budgets>>

\* A failing statement or file operation: the caller logs it, and the row
\* stays dirty for the next change.
InvalidateFails(t) ==
  /\ pc[t] \in Invalidating \union {"count", "begin_invalidate"}
  /\ Fault
  /\ Return(t)
  /\ Unlock(t)
  /\ UNCHANGED <<tables, file, orphan>>

-----------------------------------------------------------------------------
(* diagnostics: a preview of the context, under the revision alone.         *)

diagnose(t) ==
  /\ Goto(t, "idle", "preview_select")
  /\ Starts
  /\ rev' = [rev EXCEPT ![t] = revision]
  /\ UNCHANGED <<tables, file, orphan, lock, chosen, row>>

PreviewSelect(t) ==
  /\ Goto(t, "preview_select", "preview")
  /\ \E S \in SUBSET Active : chosen' = [chosen EXCEPT ![t] = S]
  /\ UNCHANGED <<tables, file, orphan, lock, rev, row, budgets>>

\* A preview is released only if nothing changed since the diagnosis began.
Released(t) == rev[t] = revision

EndPreview(t) ==
  /\ pc[t] = "preview"
  /\ IF Released(t)
     THEN Goto(t, "preview", "deliver") /\ UNCHANGED locals
     ELSE Return(t)
  /\ UNCHANGED <<tables, file, orphan, lock, budgets>>

Deliver(t) ==
  /\ pc[t] = "deliver"
  /\ Return(t)
  /\ UNCHANGED <<tables, file, orphan, lock, budgets>>

-----------------------------------------------------------------------------
\* The user saves the file.
UserEdit ==
  /\ edits < MaxEdits
  /\ UserRaces \/ \A t \in Task : pc[t] # "remove"
  /\ file' = User
  /\ orphan' = FALSE
  /\ edits' = edits + 1
  /\ UNCHANGED <<tables, lock, pc, locals, ops, faults>>

\* The task's process dies; its transaction rolls back, its file stays.
Crash(t) ==
  /\ pc[t] # "idle"
  /\ Fault
  /\ Return(t)
  /\ Unlock(t)
  /\ orphan' = (orphan \/ (pc[t] \in {"publish", "cleanup"} /\ file = chosen[t]))
  /\ UNCHANGED <<tables, file>>

-----------------------------------------------------------------------------
Inject(t) ==
  \/ rank_for_injection(t) \/ begin_write(t) \/ VerifyRevision(t)
  \/ write_ironmem_file(t) \/ Publish(t) \/ Cleanup(t)

Mutate(t) ==
  \/ \E m \in Memory : governed_delete_memory(t, m) \/ insert_memory(t, m)
  \/ append_assertion(t)

invalidate_generated_files(t) ==
  \/ CountDirty(t) \/ BeginInvalidate(t) \/ SelectDirty(t)
  \/ ReadFile(t) \/ RemoveFile(t) \/ DeleteRow(t)

Step(t) ==
  \/ Inject(t) \/ delete_memory(t) \/ invalidate_generated_files(t)
  \/ PreviewSelect(t) \/ EndPreview(t) \/ Deliver(t)

Fails(t) ==
  \/ InjectFails(t) \/ RegistrationFails(t) \/ ForgetFails(t)
  \/ InvalidateFails(t) \/ Crash(t)

Next ==
  \/ \E t \in Task :
       context_revision(t) \/ diagnose(t) \/ Mutate(t) \/ Step(t) \/ Fails(t)
  \/ UserEdit

Spec == Init /\ [][Next]_vars

\* A task that has started and does not die comes to its end.
FairSpec == Spec /\ \A t \in Task : WF_vars(Step(t))

-----------------------------------------------------------------------------
\* The file is one that was published, and shows memory m.
Shows(m) == file \notin {User, None} /\ m \in file

\* The file shows a memory that has been forgotten.
IsStale == \E m \in Memory : Shows(m) /\ m \notin Active

\* A task is about to take the file it wrote back.
InCleanup == \E t \in Task : pc[t] = "cleanup" /\ chosen[t] = file

\* What is on disk is never stale without the database knowing: a file that
\* shows a forgotten memory is registered under its own hash and dirty, so the
\* next change of any memory removes it, whatever failed so far.  (Publications
\* that died between the rename and their COMMIT are the exception.)
StaleIsPending ==
  IsStale => \/ reg # None /\ reg.hash = file /\ reg.dirty > 0
             \/ InCleanup
             \/ orphan

\* Invalidation and cleanup never delete a file the user has edited; only a
\* publication with nothing to show does.
EditsPreserved ==
  [][file = User /\ file' = None => \E t \in Task : pc[t] = "write"]_vars

\* A diagnostic preview shows no memory that was forgotten while it was being
\* put together.
PreviewIsCurrent ==
  [][\A t \in Task :
       pc[t] = "preview" /\ pc'[t] = "deliver" => chosen[t] \subseteq Active]_vars

\* A forgotten memory leaves the context file, unless something fails.
ForgottenLeavesContext ==
  \A m \in Memory :
    status[m] = "gone" ~> ~Shows(m) \/ faults > 0
=============================================================================
