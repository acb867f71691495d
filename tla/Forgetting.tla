----------------------------- MODULE Forgetting -----------------------------
(***************************************************************************)
(* Governed deletion.  A memory is spread over its row, its metadata, its  *)
(* vectors, the ledger and the content-addressed transcript it shares with *)
(* other memories.  `forget` and `wipe` take them away in a sequence of    *)
(* single statements, while other tasks remember, compress, forget and     *)
(* collect garbage; any of them may fail or die in between.                *)
(***************************************************************************)
EXTENDS Naturals, FiniteSets

CONSTANTS
  Memory,
  Existing,    \* the memories that are there from the start
  Held,        \* the memories remembered under legal hold
  Blob,        \* transcripts, by content
  BlobOf,      \* the transcript of a session's narrative; None for the others
  Writer,      \* tasks that remember and compress
  Deleter,     \* tasks that forget and wipe
  None,
  MaxOps,      \* bound: operations started
  MaxFaults    \* bound: crashes and failed statements

Task == Writer \union Deleter

ASSUME ConstantsAssumption ==
  /\ IsFiniteSet(Memory) /\ Existing \subseteq Memory
  /\ Held \subseteq Memory
  /\ BlobOf \in [Memory -> Blob \union {None}]
  /\ None \notin Memory \union Blob
  /\ Writer \intersect Deleter = {}
  /\ MaxOps \in Nat /\ MaxFaults \in Nat

VARIABLES
  row,         \* of each memory: "absent", "live", "deleted" (memories)
  meta,        \* the memories with a memory_meta row
  hold,        \* legal_hold
  tombstoned,  \* tombstoned_at
  link,        \* session_blob
  vectors,     \* the memories with an embedding
  blobs,       \* the stored blobs
  refcount,
  released,    \* history: how often a memory's reference was released
  forgotten,   \* the memories with a "forget" entry in the ledger
  pc,
  subject,     \* the memory a task works on
  queue,       \* the memories a wipe has still to visit
  ops, faults

metas   == <<meta, hold, tombstoned, link>>
ccr     == <<blobs, refcount, released>>
locals  == <<subject, queue>>
budgets == <<ops, faults>>
vars    == <<row, metas, vectors, ccr, forgotten, pc, locals, budgets>>

Writing  == {"meta", "check", "govern", "embed", "store", "link"}
Deleting == {"tombstone", "ledger", "decref", "gc", "delete"}
Purging  == {"vectors", "unmeta"}
PC       == {"idle", "next", "read"} \union Writing \union Deleting \union Purging

TablesOK ==
  /\ row \in [Memory -> {"absent", "live", "deleted"}]
  /\ meta \subseteq Memory
  /\ hold \subseteq meta /\ tombstoned \subseteq meta
  /\ link \in [Memory -> Blob \union {None}]
  /\ vectors \subseteq Memory
  /\ blobs \subseteq Blob
  /\ refcount \in [Blob -> Nat]
  /\ released \in [Memory -> Nat]
  /\ forgotten \subseteq Memory
  /\ ops \in Nat /\ faults \in Nat

LocalsOK ==
  /\ pc \in [Task -> PC]
  /\ subject \in [Task -> Memory \union {None}]
  /\ \A t \in Task : pc[t] \notin {"idle", "next"} => subject[t] \in Memory
  /\ \A t \in Task : pc[t] \in {"store", "link"} => BlobOf[subject[t]] \in Blob
  /\ queue \in [Task -> SUBSET Memory]

\* Tables and locals have the shape of the schema: a hold, a tombstone and a
\* transcript are columns of a metadata row, a working task has a memory and a
\* storing one a transcript.
TypeOK ==
  /\ TablesOK /\ LocalsOK
  /\ \A m \in Memory : link[m] # None => m \in meta

Live == {m \in Memory : row[m] = "live"}

Init ==
  /\ row = [m \in Memory |-> IF m \in Existing THEN "live" ELSE "absent"]
  /\ meta = Existing
  /\ hold = Existing \intersect Held
  /\ tombstoned = {}
  /\ link = [m \in Memory |-> IF m \in Existing THEN BlobOf[m] ELSE None]
  /\ vectors = Existing
  /\ blobs = {BlobOf[m] : m \in Existing} \ {None}
  /\ refcount = [b \in Blob |-> Cardinality({m \in Existing : BlobOf[m] = b})]
  /\ released = [m \in Memory |-> 0]
  /\ forgotten = {}
  /\ pc = [t \in Task |-> "idle"]
  /\ subject = [t \in Task |-> None]
  /\ queue = [t \in Task |-> {}]
  /\ ops = 0 /\ faults = 0

Goto(t, from, to) ==
  /\ pc[t] = from
  /\ pc' = [pc EXCEPT ![t] = to]

Starts == ops < MaxOps /\ ops' = ops + 1 /\ UNCHANGED faults

Fault == faults < MaxFaults /\ faults' = faults + 1 /\ UNCHANGED ops

\* Does the task compress a session, or remember an explicit memory?
Narrative(t) == BlobOf[subject[t]] # None

-----------------------------------------------------------------------------
(* remember_with_governance, and persist with store_session_transcript.     *)

\* The row and its metadata appear in one transaction, ungoverned.
insert_memory(t, m) ==
  /\ Goto(t, "idle", "meta")
  /\ Starts
  /\ row[m] = "absent"
  /\ row' = [row EXCEPT ![m] = "live"]
  /\ meta' = meta \union {m}
  /\ subject' = [subject EXCEPT ![t] = m]
  /\ UNCHANGED <<hold, tombstoned, link, vectors, ccr, forgotten, queue>>

\* upsert_memory_meta and set_memory_scope_kind create a missing row.
DescribeMemory(t) ==
  /\ Goto(t, "meta", "check")
  /\ meta' = meta \union {subject[t]}
  /\ UNCHANGED <<row, hold, tombstoned, link, vectors, ccr, forgotten, locals,
                 budgets>>

\* apply_memory_governance looks for the memory first; compress goes on
\* without it, remember reports the error.
CheckMemory(t) ==
  /\ Goto(t, "check", IF row[subject[t]] = "live" THEN "govern"
                      ELSE IF Narrative(t) THEN "embed" ELSE "idle")
  /\ UNCHANGED <<row, metas, vectors, ccr, forgotten, locals, budgets>>

Govern(t) ==
  /\ Goto(t, "govern", "embed")
  /\ meta' = meta \union {subject[t]}
  /\ hold' = IF subject[t] \in Held THEN hold \union {subject[t]}
                                    ELSE hold \ {subject[t]}
  /\ UNCHANGED <<row, tombstoned, link, vectors, ccr, forgotten, locals, budgets>>

Embed(t) ==
  /\ Goto(t, "embed", IF Narrative(t) THEN "store" ELSE "idle")
  /\ vectors' = vectors \union {subject[t]}
  /\ UNCHANGED <<row, metas, ccr, forgotten, locals, budgets>>

\* Mutant: a blob that is already stored is not counted again.
insert_blob_Once(t) ==
  /\ Goto(t, "store", "link")
  /\ blobs' = blobs \union {BlobOf[subject[t]]}
  /\ refcount' = [refcount EXCEPT ![BlobOf[subject[t]]] =
                    IF BlobOf[subject[t]] \in blobs THEN @ ELSE 1]
  /\ UNCHANGED <<row, metas, vectors, released, forgotten, locals, budgets>>

insert_blob(t) ==
  /\ Goto(t, "store", "link")
  /\ blobs' = blobs \union {BlobOf[subject[t]]}
  /\ refcount' = [refcount EXCEPT ![BlobOf[subject[t]]] =
                    IF BlobOf[subject[t]] \in blobs THEN @ + 1 ELSE 1]
  /\ UNCHANGED <<row, metas, vectors, released, forgotten, locals, budgets>>

\* An UPDATE: nothing happens when the metadata is gone.
set_memory_session_blob(t) ==
  /\ Goto(t, "link", "idle")
  /\ link' = IF subject[t] \in meta
             THEN [link EXCEPT ![subject[t]] = BlobOf[subject[t]]] ELSE link
  /\ UNCHANGED <<row, meta, hold, tombstoned, vectors, ccr, forgotten, locals,
                 budgets>>

\* A failing statement: governance (of a narrative) and embedding are best
\* effort, the rest ends the operation.
WriterFails(t) ==
  /\ pc[t] \in Writing
  /\ Fault
  /\ pc' = [pc EXCEPT ![t] =
              IF ~Narrative(t) THEN "idle"
              ELSE IF pc[t] \in {"check", "govern"} THEN "embed"
              ELSE IF pc[t] = "embed" THEN "store" ELSE "idle"]
  /\ UNCHANGED <<row, metas, vectors, ccr, forgotten, locals>>

-----------------------------------------------------------------------------
(* run_forget, api_delete_memory; run_wipe, handle_wipe_project.            *)

forget(t, m) ==
  /\ Goto(t, "idle", "read")
  /\ Starts
  /\ row[m] # "absent"
  /\ subject' = [subject EXCEPT ![t] = m]
  /\ queue' = [queue EXCEPT ![t] = {}]
  /\ UNCHANGED <<row, metas, vectors, ccr, forgotten>>

\* memory_ids_for_project leaves out what is tombstoned.
wipe(t) ==
  /\ Goto(t, "idle", "next")
  /\ Starts
  /\ queue' = [queue EXCEPT ![t] = Live \ tombstoned]
  /\ UNCHANGED <<row, metas, vectors, ccr, forgotten, subject>>

NextId(t) ==
  /\ pc[t] = "next"
  /\ \/ \E m \in queue[t] :
          /\ subject' = [subject EXCEPT ![t] = m]
          /\ queue' = [queue EXCEPT ![t] = @ \ {m}]
          /\ pc' = [pc EXCEPT ![t] = "read"]
     \/ /\ queue[t] = {}
        /\ pc' = [pc EXCEPT ![t] = "idle"]
        /\ UNCHANGED <<subject, queue>>
  /\ UNCHANGED <<row, metas, vectors, ccr, forgotten, budgets>>

\* A memory that is gone is not found; a held one is refused.
ReadMemory(t) ==
  /\ Goto(t, "read", IF row[subject[t]] = "live" /\ subject[t] \notin hold
                     THEN "tombstone" ELSE "next")
  /\ UNCHANGED <<row, metas, vectors, ccr, forgotten, locals, budgets>>

Tombstone(t) ==
  /\ Goto(t, "tombstone", "ledger")
  /\ tombstoned' = IF subject[t] \in meta THEN tombstoned \union {subject[t]}
                                          ELSE tombstoned
  /\ UNCHANGED <<row, meta, hold, link, vectors, ccr, forgotten, locals, budgets>>

\* Mutant: an append that fails is only logged.
LedgerForget_Logged(t) ==
  /\ Goto(t, "ledger", "decref")
  /\ \/ forgotten' = forgotten \union {subject[t]}
     \/ UNCHANGED forgotten
  /\ UNCHANGED <<row, metas, vectors, ccr, locals, budgets>>

LedgerForget(t) ==
  /\ Goto(t, "ledger", "decref")
  /\ forgotten' = forgotten \union {subject[t]}
  /\ UNCHANGED <<row, metas, vectors, ccr, locals, budgets>>

decref_memory_session_blob(t) ==
  /\ Goto(t, "decref", "gc")
  /\ refcount' = IF link[subject[t]] = None \/ refcount[link[subject[t]]] = 0
                 THEN refcount
                 ELSE [refcount EXCEPT ![link[subject[t]]] = @ - 1]
  /\ released' = IF link[subject[t]] = None THEN released
                 ELSE [released EXCEPT ![subject[t]] = @ + 1]
  /\ UNCHANGED <<row, metas, vectors, blobs, forgotten, locals, budgets>>

\* The counters are hints; a blob some metadata refers to stays.
Garbage == {b \in blobs : refcount[b] = 0 /\ \A m \in Memory : link[m] # b}

CollectGarbage ==
  /\ blobs' = blobs \ Garbage
  /\ UNCHANGED <<refcount, released>>

gc_blobs(t) ==
  /\ Goto(t, "gc", "delete")
  /\ CollectGarbage
  /\ UNCHANGED <<row, metas, vectors, forgotten, locals, budgets>>

\* Only the task that deletes the row purges what belongs to it.
delete_memory(t) ==
  /\ Goto(t, "delete", IF row[subject[t]] = "live" THEN "vectors" ELSE "next")
  /\ row' = [row EXCEPT ![subject[t]] = IF @ = "live" THEN "deleted" ELSE @]
  /\ UNCHANGED <<metas, vectors, ccr, forgotten, locals, budgets>>

\* Mutant: vectors are left to a later clean-up.
PurgeVectors_Later(t) ==
  /\ Goto(t, "vectors", "unmeta")
  /\ UNCHANGED <<row, metas, vectors, ccr, forgotten, locals, budgets>>

PurgeVectors(t) ==
  /\ Goto(t, "vectors", "unmeta")
  /\ vectors' = vectors \ {subject[t]}
  /\ UNCHANGED <<row, metas, ccr, forgotten, locals, budgets>>

delete_memory_meta(t) ==
  /\ Goto(t, "unmeta", "next")
  /\ meta' = meta \ {subject[t]}
  /\ hold' = hold \ {subject[t]}
  /\ tombstoned' = tombstoned \ {subject[t]}
  /\ link' = [link EXCEPT ![subject[t]] = None]
  /\ UNCHANGED <<row, vectors, ccr, forgotten, locals, budgets>>

\* The error is reported or logged, and a wipe goes on with the next memory.
DeleterFails(t) ==
  /\ pc[t] \in Deleting \union Purging \union {"read"}
  /\ Fault
  /\ pc' = [pc EXCEPT ![t] = "next"]
  /\ UNCHANGED <<row, metas, vectors, ccr, forgotten, subject, queue>>

-----------------------------------------------------------------------------
\* The gc command.
run_gc ==
  /\ Starts
  /\ CollectGarbage
  /\ UNCHANGED <<row, metas, vectors, forgotten, pc, locals>>

\* The process dies; every statement so far is committed.
Crash(t) ==
  /\ pc[t] # "idle"
  /\ Fault
  /\ pc' = [pc EXCEPT ![t] = "idle"]
  /\ queue' = [queue EXCEPT ![t] = {}]
  /\ UNCHANGED <<row, metas, vectors, ccr, forgotten, subject>>

Write(t) ==
  \/ \E m \in Memory : insert_memory(t, m)
  \/ DescribeMemory(t) \/ CheckMemory(t) \/ Govern(t) \/ Embed(t)
  \/ insert_blob(t) \/ set_memory_session_blob(t)

Delete(t) ==
  \/ \E m \in Memory : forget(t, m)
  \/ wipe(t) \/ NextId(t) \/ ReadMemory(t) \/ Tombstone(t) \/ LedgerForget(t)
  \/ decref_memory_session_blob(t) \/ gc_blobs(t) \/ delete_memory(t)
  \/ PurgeVectors(t) \/ delete_memory_meta(t)

Next ==
  \/ \E t \in Writer : Write(t) \/ WriterFails(t)
  \/ \E t \in Deleter : Delete(t) \/ DeleterFails(t)
  \/ \E t \in Task : Crash(t)
  \/ run_gc

Spec == Init /\ [][Next]_vars

-----------------------------------------------------------------------------
\* A memory never disappears without a "forget" entry in the ledger, whatever
\* crashes, fails or runs at the same time: governed_delete_memory appends to
\* the ledger before it deletes.
DeletedIsLedgered == \A m \in Memory : row[m] = "deleted" => m \in forgotten

\* A transcript a memory refers to is there to be retrieved.
LinkedIsStored == \A m \in Memory : link[m] # None => link[m] \in blobs

\* gc_blobs never takes what is linked, nor what another task has stored and
\* not yet linked, whoever crashes: the counters err on the safe side as long
\* as no memory gives its reference back twice.
TranscriptKept == (\A m \in Memory : released[m] <= 1) => LinkedIsStored

\* Nobody is at work on memory m.
Settled(m) == \A t \in Task : subject[t] = m => pc[t] \in {"idle", "next"}

\* While nothing fails, a deleted memory leaves neither vectors nor metadata
\* behind: whoever wins the race for the row purges it.  (Of the memories that
\* nobody is still remembering.)
DeletedIsPurged ==
  faults = 0 =>
    \A m \in Existing :
      row[m] = "deleted" /\ Settled(m) => m \notin vectors \union meta
=============================================================================
