------------------------------- MODULE Startup -------------------------------
(***************************************************************************)
(* Opening a store: Database::migrate, which every command and the daemon  *)
(* run before anything else (db.rs).  It is a list of idempotent           *)
(* statements, and in the middle of them the evidence backfill walks every *)
(* legacy memory to the root of its derivation.  Starters run it at once,  *)
(* die in it and run it again, a daemon that is up writes a memory, and    *)
(* rows appear that know nothing of roots.                                 *)
(***************************************************************************)
EXTENDS Naturals, FiniteSets, SequencesExt

CONSTANTS
  Starter,    \* processes that open the store
  Legacy,     \* ids of memories from before the migration
  New,        \* id of a memory that a running daemon remembers
  Stores,     \* what a store may hold before: [schema, parent, stored, described, rooted]
  BATCH,      \* EVIDENCE_ROOT_BACKFILL_BATCH
  Gone,       \* the parent of a memory whose parent was deleted
  Null,
  Fallible,                \* bounds: the statements that may fail with the store,
  MaxStarts, MaxFaults     \* starts of all starters, faults

Memory == Legacy \union {New}

Writer  == "writer"
Process == Starter \union {Writer}

-----------------------------------------------------------------------------
(* The schema's statements, in the order of migrate.  Indexes are left out *)
(* unless they name a column that was added later.                         *)

Table(name)          == [kind |-> "table", table |-> name, column |-> ""]
Column(table, name)  == [kind |-> "column", table |-> table, column |-> name]
Index(table, column) == [kind |-> "index", table |-> table, column |-> column]

Tables(names) == [i \in DOMAIN names |-> Table(names[i])]
Columns(table, names) == [i \in DOMAIN names |-> Column(table, names[i])]

SessionGroup ==
  Tables(<<"sessions", "observations", "sweep_leases", "sweep_events">>)
    \o Columns("observations", <<"output_blob">>)

MemoryGroup ==
  Tables(<<"memory_identity_highwater", "memories", "embeddings",
           "memory_meta", "blobs">>)
    \o Columns("blobs", <<"dict_hash">>)
    \o Tables(<<"ccr_dicts", "ccr_chunks", "ccr_object_chunks">>)

add_memory_meta_column ==
  Columns("memory_meta",
    <<"session_blob", "scope", "kind", "event_time", "namespace", "source_type",
      "trust_tier", "writer_identity", "source_ref", "parent_memory_id",
      "classification", "consent_state", "residency", "retention_policy_id",
      "expires_at", "legal_hold", "record_hash", "tombstoned_at",
      "tombstone_reason", "trust_first_seen_at", "trust_last_validated_at",
      "trust_ref_count", "maturity">>)
    \o <<Index("memory_meta", "namespace"),
         Index("memory_meta", "retention_policy_id")>>

EvidenceGroup ==
  Columns("memory_meta", <<"evidence_root_id", "derivation_depth">>)
    \o Tables(<<"memory_evidence_roots">>)
    \o <<Index("memory_meta", "evidence_root_id")>>

InfluenceGroup ==
  Tables(<<"memory_influence_policy", "influence_replay_nonces",
           "memory_influence_events">>)

ContradictionGroup == Tables(<<"contradiction_sets", "contradiction_members">>)

LedgerGroup ==
  Tables(<<"memory_ledger", "extraction_receipts", "memory_ledger_epochs">>)

GraphGroup == Tables(<<"memory_entities", "memory_edges">>)

ChunkGroup == Tables(<<"memory_chunks", "injection_events", "memory_feedback">>)

AnchorGroup == Tables(<<"code_anchors", "reflection_proposals">>)

CheckpointGroup ==
  Tables(<<"brain_snapshots", "checkpoint_audit_evidence", "checkpoint_objects",
           "checkpoint_heads", "checkpoint_dependencies",
           "checkpoint_restore_events">>)

SyncGroup ==
  Tables(<<"sync_events">>)
    \o Columns("sync_events", <<"payload_hash", "prev_hash", "event_hash", "signer">>)

AccessGroup ==
  Tables(<<"memory_access", "access_receipts", "memory_mutations",
           "generated_context_files", "context_revision", "assertion_events">>)

\* The evidence backfill runs between the second list and the third.
BeforeBackfill ==
  SessionGroup \o MemoryGroup \o add_memory_meta_column
    \o Tables(<<"schema_migrations">>)
AfterBackfill  ==
  InfluenceGroup \o ContradictionGroup \o LedgerGroup \o GraphGroup
    \o ChunkGroup \o AnchorGroup \o CheckpointGroup \o SyncGroup \o AccessGroup

AllStatements == BeforeBackfill \o EvidenceGroup \o AfterBackfill
Schema        == Range(AllStatements)

ASSUME StartupAssumption ==
  /\ Legacy \subseteq Nat \ {0} /\ New \in Nat /\ \A m \in Legacy : m < New
  /\ Null \notin Nat /\ Gone \notin Nat /\ Writer \notin Starter
  /\ BATCH \in Nat \ {0} /\ MaxStarts \in Nat /\ MaxFaults \in Nat
  /\ \A s \in Stores :
       /\ s.schema \subseteq Schema
       /\ s.described \subseteq s.stored /\ s.stored \subseteq Legacy
       /\ s.parent \in [Legacy -> s.stored \union {Gone, Null}]
       /\ s.rooted \subseteq {m \in s.described : s.parent[m] \notin s.stored}
       /\ \A m \in Legacy \ s.described : s.parent[m] = Null

-----------------------------------------------------------------------------
VARIABLES
  backend,
  schema,     \* what exists of Schema
  stored,     \* rows of memories
  meta,       \* rows of memory_meta
  parent, root, depth,   \* their parent_memory_id, evidence_root_id, derivation_depth
  primary,    \* primary rows of memory_evidence_roots
  migration,  \* the row of schema_migrations
  pc,
  cursor,     \* a starter's position in the backfill
  batch,      \* the ids it has selected; it is at the smallest
  at,         \* the row it looks at
  chain,      \* the rows it has walked over
  write,      \* the primary root a process is persisting
  starts,
  began,      \* history: what was stored when a starter began
  late,       \* history: stored while a backfill was at work or waited
  torn,       \* history: memories whose root was being written in a crash
  lost,       \* those of them that no start has repaired since
  faults

storeRows  == <<stored, meta, parent, root, depth, primary>>
locals     == <<cursor, batch, at, chain, write>>
storePast  == <<starts, began, late, torn, lost, faults>>
openVars   == <<backend, schema, storeRows, migration, pc, locals, storePast>>

PC == {"down", "before", "describe", "evidence", "repair", "read", "begin", "select",
       "walk", "update", "delete", "insert", "progress", "complete", "fail", "after",
       "ready", "govern"}

OwnRoot(m) == m

Root(m, r, d) == [memory |-> m, root |-> r, depth |-> d]

OpenTypeOK ==
  /\ backend \in {"sqlite", "postgres"}
  /\ schema \subseteq Schema
  /\ stored \subseteq Memory /\ meta \subseteq stored
  /\ parent \in [Memory -> Memory \union {Gone, Null}]
  /\ root \in [Memory -> Memory \union {Null}]
  /\ depth \in [Memory -> Nat]
  /\ primary \subseteq [memory : meta, root : Memory]
  /\ migration \in [status : {"none", "running", "complete", "failed"},
                    cursor : Memory \union {0}]
  /\ pc \in [Process -> PC]
  /\ cursor \in [Process -> Memory \union {0}]
  /\ batch \in [Process -> SUBSET Legacy]
  /\ at \in [Process -> Legacy \union {Gone, 0}]
  /\ chain \in [Process -> Seq(Legacy)]
  /\ \A p \in Process :
       pc[p] \in {"update", "delete", "insert"} =>
         write[p] \in [memory : meta, root : Memory, depth : Nat]

-----------------------------------------------------------------------------
OpenInit ==
  \E s \in Stores :
    /\ backend \in {"sqlite", "postgres"}
    /\ schema = s.schema
    /\ stored = s.stored /\ meta = s.described
    /\ parent = [m \in Memory |-> IF m \in Legacy THEN s.parent[m] ELSE Null]
    /\ root = [m \in Memory |-> IF m \in s.rooted THEN OwnRoot(m) ELSE Null]
    /\ depth = [m \in Memory |-> 0]
    /\ primary = {}
    /\ migration = [status |-> "none", cursor |-> 0]
    /\ pc = [p \in Process |-> "down"]
    /\ cursor = [p \in Process |-> 0]
    /\ batch = [p \in Process |-> {}]
    /\ at = [p \in Process |-> 0]
    /\ chain = [p \in Process |-> <<>>]
    /\ write = [p \in Process |-> Null]
    /\ starts = 0
    /\ began = [p \in Starter |-> {}]
    /\ late = {} /\ torn = s.rooted /\ lost = s.rooted /\ faults = 0

Goto(p, from, to) == pc[p] = from /\ pc' = [pc EXCEPT ![p] = to]

Start(p) ==
  /\ Goto(p, "down", "before")
  /\ starts < MaxStarts /\ starts' = starts + 1
  /\ began' = [began EXCEPT ![p] = stored]
  /\ UNCHANGED <<backend, schema, storeRows, migration, locals, late, torn, lost, faults>>

Close(p) ==
  /\ Goto(p, "ready", "down")
  /\ began' = [began EXCEPT ![p] = {}]
  /\ UNCHANGED <<backend, schema, storeRows, migration, locals, starts, late, torn, lost, faults>>

\* Mutant: on SQLite no failing statement ends the start.
Statements_AllDropped(p, from, list, to) ==
  \E bad \in {i \in DOMAIN list : list[i] \in Fallible} \union {0} :
    /\ Goto(p, from, to)
    /\ schema' = schema \union {list[j] : j \in DOMAIN list \ {bad}}
    /\ faults' = IF bad = 0 THEN faults ELSE faults + 1
    /\ faults' <= MaxFaults
    /\ UNCHANGED <<backend, storeRows, migration, locals, starts, began, late, torn, lost>>

\* A statement fails with the store, or because its column is not there.
\* SQLite's ALTER TABLE has no IF NOT EXISTS and its errors are dropped, so
\* the list goes on without the column; any other error ends the start.
Statements(p, from, list, to) ==
  \E bad \in {i \in DOMAIN list : list[i] \in Fallible} \union {0} :
    LET dropped == bad # 0 /\ backend = "sqlite" /\ list[bad].kind = "column"
        made(i) == {list[j] : j \in (1..i - 1) \ {bad}}
        stops   == {i \in DOMAIN list :
                      \/ i = bad /\ ~dropped
                      \/ /\ list[i].kind = "index"
                         /\ Column(list[i].table, list[i].column)
                              \notin schema \union made(i)}
        last    == Min(stops \union {Len(list) + 1})
    IN /\ Goto(p, from, IF stops = {} THEN to ELSE "down")
       /\ schema' = schema \union made(last)
       /\ faults' = IF bad = 0 THEN faults ELSE faults + 1
       /\ faults' <= MaxFaults
       /\ UNCHANGED <<backend, storeRows, migration, locals, starts, began, late, torn, lost>>

\* Memories of an older version have no metadata.
Describe(p) ==
  /\ Goto(p, "describe", "evidence")
  /\ meta' = stored
  /\ UNCHANGED <<backend, schema, stored, parent, root, depth, primary, migration,
                 locals, storePast>>

Repair(p) ==
  /\ Goto(p, "repair", "read")
  /\ primary' = primary \union
       {[memory |-> m, root |-> root[m]] : m \in {n \in meta : root[n] # Null}}
  /\ lost' = {m \in lost : root[m] = Null}
  /\ UNCHANGED <<backend, schema, stored, meta, parent, root, depth, migration,
                 locals, starts, began, late, torn, faults>>

Rootless == {m \in meta : root[m] = Null}

\* Mutant: a store that was complete is scanned from where that ended.
ReadState_FromCursor(p) ==
  /\ Goto(p, "read", IF migration.status = "complete" /\ Rootless = {}
                     THEN "after" ELSE "begin")
  /\ cursor' = [cursor EXCEPT ![p] =
                  IF migration.status \in {"running", "complete"} THEN migration.cursor ELSE 0]
  /\ UNCHANGED <<backend, schema, storeRows, migration, batch, at, chain, write, storePast>>

\* A backfill that was interrupted is resumed; a complete one is scanned
\* again from the first row when rows without a root have come.
ReadState(p) ==
  /\ Goto(p, "read", IF migration.status = "complete" /\ Rootless = {}
                     THEN "after" ELSE "begin")
  /\ cursor' = [cursor EXCEPT ![p] =
                  IF migration.status = "running" THEN migration.cursor ELSE 0]
  /\ UNCHANGED <<backend, schema, storeRows, migration, batch, at, chain, write, storePast>>

store_evidence_migration_state(p, status) ==
  /\ migration' = [status |-> status, cursor |-> cursor[p]]
  /\ UNCHANGED <<backend, schema, storeRows, storePast>>

Forget(p) ==
  /\ cursor' = [cursor EXCEPT ![p] = 0] /\ at' = [at EXCEPT ![p] = 0]
  /\ batch' = [batch EXCEPT ![p] = {}] /\ chain' = [chain EXCEPT ![p] = <<>>]
  /\ write' = [write EXCEPT ![p] = Null]

Begin(p) ==
  /\ Goto(p, "begin", "select")
  /\ store_evidence_migration_state(p, "running") /\ UNCHANGED locals

Progress(p) ==
  /\ Goto(p, "progress", "select")
  /\ store_evidence_migration_state(p, "running") /\ UNCHANGED locals

Fail(p) ==
  Goto(p, "fail", "down") /\ store_evidence_migration_state(p, "failed") /\ Forget(p)

Complete(p) ==
  Goto(p, "complete", "after") /\ store_evidence_migration_state(p, "complete") /\ Forget(p)

\* The next ids without a root, at most BATCH of them.
Select(p) ==
  LET ids  == {m \in Rootless : m > cursor[p]}
      next == {m \in ids : Cardinality({n \in ids : n <= m}) <= BATCH}
  IN /\ Goto(p, "select", IF ids = {} THEN "complete" ELSE "walk")
     /\ batch' = [batch EXCEPT ![p] = next]
     /\ at' = [at EXCEPT ![p] = IF ids = {} THEN 0 ELSE Min(next)]
     /\ UNCHANGED <<backend, schema, storeRows, migration, cursor, chain, write, storePast>>

\* Towards the root of the derivation, one row at a time.  A row that was
\* walked over before closes a cycle.
ReachCycle(p) ==
  /\ Goto(p, "walk", "fail")
  /\ at[p] \in Range(chain[p])
  /\ UNCHANGED <<chain, at, write>>

\* The parent's metadata is gone: its child becomes a root.
ReachBroken(p) ==
  /\ at[p] \notin Range(chain[p]) /\ at[p] \notin meta
  /\ IF chain[p] = <<>> THEN Goto(p, "walk", "down") /\ UNCHANGED <<chain, write>>
     ELSE /\ Goto(p, "walk", "update")
          /\ chain' = [chain EXCEPT ![p] = Front(@)]
          /\ write' = [write EXCEPT ![p] = Root(Last(chain[p]), OwnRoot(Last(chain[p])), 0)]
  /\ UNCHANGED at

\* A row that has its root is persisted again, with its rows.
ReachRoot(p) ==
  /\ Goto(p, "walk", "update")
  /\ at[p] \in meta \ Range(chain[p]) /\ root[at[p]] # Null
  /\ write' = [write EXCEPT ![p] = Root(at[p], root[at[p]], depth[at[p]])]
  /\ UNCHANGED <<chain, at>>

ReachOrigin(p) ==
  /\ Goto(p, "walk", "update")
  /\ at[p] \in Rootless \ Range(chain[p]) /\ parent[at[p]] = Null
  /\ write' = [write EXCEPT ![p] = Root(at[p], OwnRoot(at[p]), 0)]
  /\ UNCHANGED <<chain, at>>

ReachParent(p) ==
  /\ Goto(p, "walk", "walk")
  /\ at[p] \in Rootless \ Range(chain[p]) /\ parent[at[p]] # Null
  /\ chain' = [chain EXCEPT ![p] = Append(@, at[p])]
  /\ at' = [at EXCEPT ![p] = parent[at[p]]]
  /\ UNCHANGED write

resolve_missing_evidence_root(p) ==
  /\ ReachCycle(p) \/ ReachBroken(p) \/ ReachRoot(p) \/ ReachOrigin(p) \/ ReachParent(p)
  /\ UNCHANGED <<backend, schema, storeRows, migration, cursor, batch, storePast>>

-----------------------------------------------------------------------------
(* persist_primary_evidence_root: three statements. *)

Update(p) ==
  /\ Goto(p, "update", "delete")
  /\ root' = [root EXCEPT ![write[p].memory] = write[p].root]
  /\ depth' = [depth EXCEPT ![write[p].memory] = write[p].depth]
  /\ UNCHANGED <<backend, schema, stored, meta, parent, primary, migration, locals, storePast>>

\* Mutant: only the row that is inserted next is deleted.
Delete_SameRoot(p) ==
  /\ Goto(p, "delete", "insert")
  /\ primary' = primary \ {[memory |-> write[p].memory, root |-> write[p].root]}
  /\ UNCHANGED <<backend, schema, stored, meta, parent, root, depth, migration, locals, storePast>>

Delete(p) ==
  /\ Goto(p, "delete", "insert")
  /\ primary' = {row \in primary : row.memory # write[p].memory}
  /\ UNCHANGED <<backend, schema, stored, meta, parent, root, depth, migration, locals, storePast>>

InsertRow(p, to) ==
  /\ Goto(p, "insert", to)
  /\ primary' = primary \union {[memory |-> write[p].memory, root |-> write[p].root]}
  /\ UNCHANGED <<backend, schema, stored, meta, parent, root, depth, migration, storePast>>

\* Back along the chain: every child inherits the root, one level deeper.
Inherit(p) ==
  /\ chain[p] # <<>>
  /\ InsertRow(p, "update")
  /\ write' = [write EXCEPT ![p] = Root(Last(chain[p]), @.root, @.depth + 1)]
  /\ chain' = [chain EXCEPT ![p] = Front(@)]
  /\ UNCHANGED <<cursor, batch, at>>

NextInBatch(p) ==
  LET done == Min(batch[p])
      rest == batch[p] \ {done}
  IN /\ chain[p] = <<>>
     /\ InsertRow(p, IF rest = {} THEN "progress" ELSE "walk")
     /\ batch' = [batch EXCEPT ![p] = rest]
     /\ at' = [at EXCEPT ![p] = IF rest = {} THEN 0 ELSE Min(rest)]
     /\ cursor' = [cursor EXCEPT ![p] = IF rest = {} THEN done ELSE @]
     /\ write' = [write EXCEPT ![p] = Null]
     /\ UNCHANGED chain

-----------------------------------------------------------------------------
(* A daemon that is up remembers a memory: insert_memory publishes it with *)
(* a root of its own, apply_memory_governance replaces that by its         *)
(* parent's.                                                               *)

InsertMemory ==
  /\ \E p \in Starter : pc[p] = "ready"
  /\ New \notin stored
  /\ Goto(Writer, "down", "govern")
  /\ stored' = stored \union {New} /\ meta' = meta \union {New}
  /\ root' = [root EXCEPT ![New] = OwnRoot(New)]
  /\ primary' = primary \union {[memory |-> New, root |-> OwnRoot(New)]}
  /\ UNCHANGED <<backend, schema, parent, depth, migration, locals, storePast>>

govern_new_memory(q) ==
  /\ q \in meta \ {New}
  /\ IF root[q] = Null
     THEN Goto(Writer, "govern", "down") /\ UNCHANGED <<parent, root, depth, write>>
     ELSE /\ Goto(Writer, "govern", "update")
          /\ parent' = [parent EXCEPT ![New] = q]
          /\ root' = [root EXCEPT ![New] = root[q]]
          /\ depth' = [depth EXCEPT ![New] = depth[q] + 1]
          /\ write' = [write EXCEPT ![Writer] = Root(New, root[q], depth[q] + 1)]
  /\ UNCHANGED <<backend, schema, stored, meta, primary, migration,
                 cursor, batch, at, chain, storePast>>

EndGovernance ==
  /\ InsertRow(Writer, "down")
  /\ write' = [write EXCEPT ![Writer] = Null]
  /\ UNCHANGED <<cursor, batch, at, chain>>

-----------------------------------------------------------------------------
\* A row written by hand, or by a version without metadata.
LegacyInsert(m) ==
  /\ m \notin stored
  /\ stored' = stored \union {m}
  /\ late' = IF migration.status = "running"
                  \/ \E p \in Starter : pc[p] \notin {"down", "ready"}
             THEN late \union {m} ELSE late
  /\ UNCHANGED <<backend, schema, meta, parent, root, depth, primary, migration, pc,
                 locals, starts, began, torn, lost, faults>>

\* The root of m is written, not all of its statements have run.
Persisting(p, m) ==
  /\ pc[p] \in {"delete", "insert"} \/ (p = Writer /\ pc[p] = "update")
  /\ write[p].memory = m

\* A process dies; a statement of the backfill that fails ends the start alike.
Die(p) ==
  LET cut == {m \in Memory : Persisting(p, m)} IN
  /\ pc[p] \notin {"down", "ready"}
  /\ faults < MaxFaults
  /\ faults' = faults + 1
  /\ pc' = [pc EXCEPT ![p] = "down"]
  /\ torn' = torn \union cut /\ lost' = lost \union cut
  /\ Forget(p)
  /\ UNCHANGED <<backend, schema, storeRows, migration, starts, began, late>>

Migrate(p) ==
  \/ Start(p) \/ Close(p)
  \/ Statements(p, "before", BeforeBackfill, "describe")
  \/ Statements(p, "evidence", EvidenceGroup, "repair")
  \/ Statements(p, "after", AfterBackfill, "ready")
  \/ Describe(p) \/ Repair(p) \/ ReadState(p) \/ Begin(p) \/ Select(p)
  \/ resolve_missing_evidence_root(p)
  \/ Inherit(p) \/ NextInBatch(p)
  \/ Progress(p) \/ Fail(p) \/ Complete(p)

OpenNext ==
  \/ \E p \in Starter : Migrate(p)
  \/ \E p \in Process : Update(p) \/ Delete(p) \/ Die(p)
  \/ InsertMemory \/ EndGovernance
  \/ \E m \in Legacy : govern_new_memory(m) \/ LegacyInsert(m)

OpenSpec == OpenInit /\ [][OpenNext]_openVars

-----------------------------------------------------------------------------
(***************************************************************************)
(* A start that returns has brought the schema up to date, whatever failed *)
(* before or went on beside it; only a column whose ALTER failed silently  *)
(* on SQLite may be missing, and none that an index names.                 *)
(***************************************************************************)
ReadyIsMigrated ==
  (\E p \in Starter : pc[p] = "ready") =>
    \A missing \in Schema \ schema :
      /\ backend = "sqlite" /\ missing.kind = "column"
      /\ Index(missing.table, missing.column) \notin Schema

(***************************************************************************)
(* A start that returns has given every memory it began with a root: it    *)
(* neither counts a cycle as done nor leaves out what an earlier start, a  *)
(* batch or an insert by hand left behind.  Only rows that came with an id *)
(* below the cursor while a backfill was at work or waited are left to the *)
(* next start.                                                             *)
(***************************************************************************)
ReadyIsRooted ==
  \A p \in Starter : pc[p] = "ready" => \A m \in began[p] \ late : root[m] # Null

(***************************************************************************)
(* Wherever backfills stop, resume or work on the same chain, a memory     *)
(* with a root has its parent's, one level deeper, and a memory without a  *)
(* living parent is its own.                                               *)
(***************************************************************************)
RootsInherit ==
  \A m \in meta : root[m] # Null =>
    IF parent[m] \in meta
    THEN root[m] = root[parent[m]] /\ depth[m] = depth[parent[m]] + 1
    ELSE root[m] = OwnRoot(m) /\ depth[m] = 0

(***************************************************************************)
(* The normalized rows agree with the metadata although each root is       *)
(* written in three statements by several processes: exactly one primary   *)
(* row, with the root of the metadata.  After a crash the next start's     *)
(* repair brings that row back, beside which an older one may be left.     *)
(***************************************************************************)
PrimaryRowMatches ==
  \A m \in meta :
    root[m] # Null /\ (\A p \in Process : ~Persisting(p, m)) =>
      LET of == {row.root : row \in {r \in primary : r.memory = m}} IN
      /\ m \notin torn => of = {root[m]}
      /\ m \notin lost => root[m] \in of

(***************************************************************************)
(* What a memory rests on has one answer, in its metadata, in its parent's *)
(* and in the rows that the gate joins.                                    *)
(***************************************************************************)
RootsAgree == RootsInherit /\ PrimaryRowMatches
=============================================================================
