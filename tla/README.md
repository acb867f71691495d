# Formal models of Iron-mem

TLA+ models of the memory daemon in `src/` (Rust, with SQLite or PostgreSQL
below it), the TLC configurations that check them on small instances, and
theorems about them that TLAPS checks for every value of the constants.
Paths without a directory, such as `db.rs:2721`, are files of the daemon
(`src/src/`).

Contents: [1 inventory](#1-the-system), [2 modules](#2-the-modules),
[3 runs](#3-the-runs), [4 bounds](#4-bounds), [5 fairness](#5-fairness),
[6 proofs](#6-what-is-proved), [7 limits of the code](#7-limits-of-the-code),
[8 what is left out](#8-what-is-not-modelled), [9 plan](#9-plan).

## 1. The system

A coding assistant's session sends its tool calls to the daemon, which keeps
them as *observations*. When the session ends, or a sweep finds it idle, the
observations are compressed into a *narrative memory*. Memories are ranked into
a context file, `IRONMEM.md`, that the assistant reads at its next start. Around
this path lie governance (metadata, legal holds, a hash-chained ledger), a
content-addressed store for transcripts (CCR), recovery of facts from archived
transcripts, temporal assertions, contradiction sets and influence control.

The daemon is one tokio process per machine, but nothing makes it the only one:
the CLI (`ironmem sweep`, `forget`, `backfill`, `ledger migrate`...) opens the
same database directly, and PostgreSQL deployments have several daemons. So the
concurrency that matters is between *statements of separate tasks on one
database*, and, for `IRONMEM.md`, between the daemon and the user's editor.
Most handlers are sequences of autocommitted statements, each an await point:
another task may run, the statement may fail, or the process may die between
any two of them. Only a few paths use a transaction; `begin_write`
(`db.rs:34-46`) is `BEGIN IMMEDIATE` on SQLite and an ordinary transaction on
PostgreSQL, a difference two of the models turn on.

| Component | State | Operations | What makes it hard | Correct when |
|---|---|---|---|---|
| Sweep and compression (`sweep.rs`, `compress.rs`) | sessions, observations, `sweep_leases`, `sweep_audit` | list candidates, take a lease, re-check, compress, release, audit; `session_end` and `compress_session` without lease | leases that expire during a slow provider call; crashes between insert and mark; stale candidate lists | leases exclude; a session is compressed once; compressed means remembered; the audit is true; idle sessions get compressed |
| Recovery (`recovery.rs`) | extraction receipts, child memories | backfill candidates, receipt start, complete and fail, child adoption | a crash between insert, governance and receipt; two runners | one child per item; a complete receipt has governed, ledgered children; every readable transcript gets through |
| Ledger (`db.rs`, `compliance.rs`, `influence.rs`, `assertions.rs`) | `memory_ledger`, `ledger_epochs`, versioned policies | append, policy update, assertion append, epoch migration | two processes reading one head; migration racing appends; a lock kept on an error path | entries link; one migration; the epoch verifies; one receipt per version; every call returns |
| Generated context (`hooks.rs`, `diagnostics.rs`) | `IRONMEM.md`, `generated_context_files`, the revision counter kept by triggers | select, publish, invalidate, preview | file and database share no transaction; the user edits the file | a stale file is registered dirty; the user's edits survive; a preview shows nothing forgotten |
| Governed deletion (`db.rs`, `vectorstore.rs`) | memories, `memory_meta`, embeddings, tombstones, holds | forget, wipe, purge | four statements in a row, retries, a hold set meanwhile | nothing deleted without a ledger entry; nothing held is deleted; nothing of a deleted memory is left |
| CCR (`ccr/`, `db.rs`) | `ccr_blobs` with reference counts, links from memories, observations, snapshots | store, link, release, collect | store and link are two statements, the collector runs in between | a linked transcript is there |
| Relation edges, contradiction sets (`contradiction.rs`, `db.rs`) | `memory_edges`, `contradiction_sets`, `contradiction_members` | insert an edge, detect competitors, retire older edges; create, read and review a set; reconcile the graph | two calls that look for each other's edge; a member that arrives during a review; a plan over edges that have changed | competing edges are members; a review covers what the operator read; the ledger names members; one current state |
| Influence (`influence.rs`, `purpose.rs`, `egress.rs`) | policies with versions, purpose tokens, claimed nonces, decision events | patch a policy; verify a purpose, claim nonces, read policies and contradictions, decide, record, release | a retry with the same tokens; policies that change between the reads; records written one by one | a token is honoured once; a restriction binds the calls after it; what needs a human waits for one; releases are on record |
| Schema and evidence roots (`db.rs`) | the schema, `memory_meta`'s root and depth, `memory_evidence_roots`, the stored state of the backfill | open and migrate, resumable backfill of roots, repair; governance of a new memory | several starters, restarts from a stored cursor, errors that SQLite's `ALTER` drops | who is up has the whole schema and every root; metadata and rows agree |
| Assertions (`assertions.rs`) | version chains, evidence | append, supersede, query | the successor's evidence is gone while the predecessor's is there | a superseded claim does not come back; history only grows |
| Checkpoints, snapshots (`checkpoint.rs`) | snapshots, deltas in CCR, the head, evidence of checkpoints and restores | create, delete, export, import, restore | a restore against writers, policies, forgets and the collector | a snapshot loads; what was forgotten stays hidden; a restore only tightens; handles are not reused |
| Dreams and reflection (`auto_dream.rs`, `reflection.rs`) | proposals, feedback signals, the watcher's mark, `sweep_events` | reflect, synthesize, dream, dream sweep | no lease; a pass that dies half way | sources lose standing only to consolidations that exist |
| Telemetry (`access.rs`) | access counters and receipts | deliver | counted beside the answer; retries | counted for an answer, and once per request |
| Profile, corrections (`profile.rs`, `corrections.rs`) | one profile memory | regenerate by hand, on remember, at a session's end | old profiles go one by one before the new one comes | an undisturbed regeneration replaces those it lists |
| Retrieval (`retrieval.rs`, `reranker.rs`, `embedder.rs`, `context.rs`) | none of its own | narrow and wide pass, fusion, quotas, hops, rerank, materialize | rows appear and vanish between the reads; rounding; fallbacks | an answer is clean and keeps its quotas; only the model demotes |
| Surfaces (`main.rs`, `server.rs`, `mcp.rs`) | none of their own | the handlers and commands | a candidate read before the gate and expanded after it | nothing barred is shown |
| Vector stores (`vectorstore.rs`, `storage.rs`) | embeddings | upsert, look up, purge | rows purged after the memory | nothing of a deleted memory is left |
| Sync, code anchors, providers, configuration, evaluation, installers | see section 8 | | | |

How they interact: the sweep and the handlers call `compress::run`, which
writes memories, stores the transcript in CCR and marks the session; every write
of a memory bumps the mutation counter (a trigger) and, through
`apply_memory_governance`, appends to the ledger. The counter and the `dirty`
column are how all writers tell the generated context that it is stale.
`governed_delete_memory` reaches into the ledger, CCR, the vector store and the
generated context. The backfill reads transcripts from CCR and writes memories
by the same path as `remember`. `PROJECT.json` lists every hazard met on the
way, with its line and the properties that watch it.

## 2. The modules

One module per component; theorems in a `...Proofs` module beside it, and an
`MC...` module only where the configuration needs definitions. Three
conventions are common to all:

- *A step is what the database makes atomic.* One autocommitted statement, or
  one transaction between two awaits, is one action. Names follow the Rust
  functions; a function that awaits several times becomes several actions,
  ordered by `pc`.
- *Failure is explicit.* `StatementFails`-like actions take the `?`, the
  `let _ =` or the `warn!` that the code has at that statement. `Crash` loses
  the task's locals and leaves the tables.
- *Definitions such as `release_sweep_lease_Any`* (an operation's name, an
  underscore and a defect) are defective variants of the next definition.
  Nothing uses them; `PROJECT.json` records which property refutes which.

### SleepCycle

`Sweeper`s run `sweep::run_sweep` and `Handler`s run `session_end` or
`compress_session`; both run `compress::run`.

| State | Code |
|---|---|
| sessions, observations, `narratives`, compressed flags | tables `sessions`, `observations`, `memories` |
| leases with owner and expiry | `sweep_leases` |
| audit events | `sweep_events`, written by `record_action` |
| `pc`, candidate queue, `stamp` | the worker's locals and await points |
| `now` | the clock in seconds |

`ExpireLease` and `InsertLease` are the two statements of
`try_acquire_sweep_lease` (`db.rs:2050`); `Recheck` is the one look at the session
after the lease. `ReadObservations`, `insert_memory`, `mark_compressed`,
`DescribeMemory` and `ArchiveTranscript` are the pipeline. A narrative is the
number of observations it has seen: whether the provider wrote it, or the local
extractor because the provider failed, there always is one
(`compress.rs:31-45`).

### Backfill

`archived_candidates` picks transcripts without a complete receipt; for each,
`load_blob`, `start_receipt`, then per item `FindChild`, `insert_memory`,
`set_memory_scope_kind`, `apply_memory_governance`, `append_memory_ledger` and
`IndexChild`, and finally `complete_receipt`. A child is the *level* it has
reached (inserted, kind set, governed, ledgered), because that is what a later
run can see of it. What the extraction finds in a transcript is the set
`1..Items`; `Corrupt` transcripts do not load.

The same command then compresses the sessions that are still open
(`uncompressed_candidates`): `mark_compressed`, one child per item
(`persist_fact`, `persist_procedure`), `store_session_transcript`,
`persist_memory_skim`, `record_compression`. `archive` says whether a session is
open, compressed but unlinked, or archived; `skim` whether the chunks that
are stored cite spans of the transcript; `swallowed` the sessions where a
failure was only logged (`SoftFailure`, `PassOver`) and the receipt became
complete all the same.

### Ledger

Writers of several processes append to per-namespace chains. `LockMutex` is
the in-process tokio mutex, `Begin` the reservation (SQLite) or the advisory
lock (PostgreSQL), `CheckVersion`, `ReadHead`, `InsertEntry` and `Commit` the
statements of the transaction. `update_memory_influence_policy` and
`append_assertion` are the two records that write their receipt in the same
transaction, and `build_ledger_evidence` with `apply_ledger_migration` the epoch
migration: evidence is prepared outside the transaction and its expected head
compared inside. A hash is the position of the entry it digests, so `prev` is
the entry it links to and two entries with one `prev` are a fork. Logs from
before the epochs may be empty, linked or forked (legacy data).

`AuditLog` is what the ledger promises, without processes, locks or
transactions: `Record` appends, `Update` bumps a version and appends its receipt
in one step, `Migrate` opens the epoch once. `Ledger` implements it
(`ImplementsAuditLog`): logs and versions are the committed tables, `genesis` is
the first entry of the epoch row (`Genesis`), every `Commit` is one abstract step
and every other action a stutter.

### GeneratedContext

Tasks select (`context_revision`, `rank_for_injection`), publish
(`begin_write`, `VerifyRevision`, `write_ironmem_file`, `Publish`, or `Cleanup`
when the registration fails), change memories (`governed_delete_memory`,
`insert_memory`, `append_assertion`) and invalidate (`CountDirty`,
`BeginInvalidate`, `SelectDirty`, `ReadFile`, `RemoveFile`, `DeleteRow`).
`Bump` is what the triggers do inside the statement of the change. The file is
absent, the set of memories it shows, or `User`: something the daemon did not
write. `diagnose` is the preview path, which compares revisions and takes no
lock. `Backend` says what `begin_write` reserves.

### Forgetting

Writers `remember` or compress (`insert_memory`, `DescribeMemory`, `Govern`,
`Embed`, `insert_blob`, `set_memory_session_blob`), deleters `forget` or `wipe`
(`ReadMemory`, `Tombstone`, `LedgerForget`, `decref_memory_session_blob`,
`gc_blobs`, `delete_memory`, `PurgeVectors`, `delete_memory_meta`), and `run_gc`
is the command. A memory is its row, its metadata, its vectors, its tombstone,
its hold and its link to a transcript, each written by a statement of its own.

### ClaimGraph

One relation of one source, such as `gateway status ...`, and its contradiction
set. Each memory asserts it once, with a target. `insert_memory_edge` is
`InsertEdge`, `detect_graph_contradiction`, `FoundSet`, `InsertMember` (one per
member), `ReopenSet`, `append_memory_ledger`, `SupersedeDuplicates` and
`SupersedeState`, each an autocommitted statement on both backends. The operator
creates, reads and updates the set in transactions (`create_contradiction_set`,
`get_contradiction_set`, `update_contradiction_set`), and
`reconcile_memory_graph` plans over one read (`PlanReconcile`) and applies the
plan edge by edge (`ApplyUpdate`).

| State | Code |
|---|---|
| `relation`, `closed`, `TargetOf` | what the edges say; whether they give a `valid_until` |
| `inserted`, `supersededBy` | `memory_edges`, by id; an edge is active while nothing supersedes it |
| `status`, `version`, `members` | `contradiction_sets`, `contradiction_members`; `settled` stands for `preferred` and `resolved` |
| `founder` | whose `proposed_id` the row has |
| `reported` | the members that `contradiction_detected` and creation entries name |
| `pc`, `competing`, `queue`, `added` | a call's place and locals |
| `view`, `seen` | what the operator has read, and had read at the last update |

Times are the order of insertion. All edges of a target have one `valid_from`,
and every memory has its metadata, in one namespace and scope, before its edge.
The invalidation of `IRONMEM.md` that ends a call is in GeneratedContext.

### InfluenceRules and EgressGate

`InfluenceRules` has no state: a memory's policy and its patches
(`PatchAccepted`, `NextPolicy`), the matrix of states and uses
(`state_disposition`) and the evaluator (`evaluate`). `EgressGate` runs them
inside a call: `Verify` (attestation and confirmation), `PurgeNonces` and
`ClaimAttestation` / `ClaimConfirmation`, `ReadPolicies`, `ReadContradictions`
with the decisions, `record_influence_decisions` one by one, `Release`. An
operator's `update_memory_policy`, a review, a purge and the clock move in
between, and each statement may fail.

| State | Code |
|---|---|
| `pc`, `asked`, the policies a call has `seen` | a call's place, request and locals |
| `honoured` | the claims that succeeded (history; the rows themselves, which a purge removes, are `nonces`) |
| `events` | `memory_influence_events` |
| `began` | history: the policies in force when the call began |
| `config` | the daemon's influence configuration, any of `Configs` |

### Startup

`Database::migrate` as the list of its statements (tables, columns, indexes in
the order of the source) that each `Starter` runs to its end, the evidence
backfill in the middle. `Statements` runs a stretch up to the next statement
that can fail; on SQLite a failing `ALTER` is dropped. The backfill is
`ReadState`, `Begin`, `Select` of a batch, per memory the walk to the root
(`ReachParent`, `ReachRoot`, `ReachOrigin`, `ReachBroken`, `ReachCycle`), then
`Update`, `Delete` and `InsertRow`, and `Progress` or `Complete`. A batch is the set of the
ids it selected, of which the smallest is next, since `ORDER BY id` hands them out
in that order.

| State | Code |
|---|---|
| `schema` | tables, columns and indexes that exist |
| `meta`, `parent`, `root`, `depth` | `memory_meta` |
| `primary` | primary rows of `memory_evidence_roots` |
| `late`, `torn`, `lost`, `began` | history: rows that came below a cursor, rows a crash left half written, what was there at the start |

A daemon that is ready meanwhile remembers `New` (`InsertMemory`,
`govern_new_memory`, the part of `apply_memory_governance` that concerns a new
row), and `LegacyInsert` is a row from a program that
knows nothing of roots.

### Search

One search of one namespace: `Start` chooses the route, `Fulltext` and `Recall`
read and fuse the lists of the signals (`rrf_fuse`, with weights by route and
integer reciprocals), `Nudged` applies the bonuses, `exclude_derived` and
`Quarantine` keep inferences out, `promote_source_fact_floor` and
`reserve_narrative_slots` reserve places, `Rows` and `Materialize` read what was
chosen. A reranked search makes a narrow and a wide pass (`reanchor`,
`rerank_candidates`, `fuse_rerank`), a multi-hop search repeats this
(`FollowUp`). What the model replies is any order or none (`Replies`). The world
moves between the reads: `remember_with_governance` in its three statements,
`Forget` (the row) and `purge_memory` (the metadata), and `ReadFails`. A row
whose metadata is not written yet, or purged, has no kind on record: for
`exclude_derived` it is no inference, for `reserve_narrative_slots` a
narrative (`kind`). `hidden` and `derived` are the forgotten or foreign
memories and the inferences on record when the search began.

A list names nobody twice (every signal is an id list, and fusion keeps one entry
for each id), so the operators treat it as its members in an order: `Place` is a
member's position, `Listed` makes a list from numbered members, `Only` filters one,
`Ranked` is the stable sort by score. `Scale` is any common multiple of the
ranks' denominators, so that reciprocals are integers and compare as the code's
fractions do.

### Checkpoint

Snapshots of one project, and what they must not rewind. An envelope is a full
state or a delta with its base; its hash is its content. `create` captures and
stores (`capture`, `difference`, `Envelopes`), `delete` gives the reference
back, `export` and `import` carry a state to another database (`Recreate`),
and a restore is two steps: `load_payload` or `import` read it (`pending`),
`restore` replaces the rows in one transaction after `validate` and `Merged`.
Beside them run a remember (`insert_memory`, `apply_memory_governance`,
`store_blob`, `set_memory_session_blob`), a forget in its seven statements,
`update_memory_influence_policy`, `append_assertion` and a query
(`read_chain`, `read_evidence`, `answer`), and `gc_blobs` with the roots
that snapshots, deltas and memories pin (`PinnedObject`, `PinnedSource`).

| State | Code |
|---|---|
| `tables` | `memories` with `memory_meta`, `memory_influence_policy`, `assertion_events` |
| `highwater` | `memory_identity_highwater` |
| `snapshots`, `head`, `objects`, `sources` | `brain_snapshots`, `checkpoint_heads`, reference counts in CCR |
| `saved`, `restores`, `ledger` | evidence of checkpoints, restore events, ledger entries |
| `writing`, `forgetting`, `pending`, `query` | a task's place and locals |
| `handed`, `gone` | history: handles given out, handles of removed memories until they are given out again |
| `credit` | history: which rows hold a reference to their transcript, whose count was drawn on by a row that holds none, which rows were linked after that |

### Handlers and Service

`Handlers` writes every REST handler, MCP tool and CLI command that reads or
changes memories as a sequence of steps, in the order of its statements, such
as `get_context` or `run_lineage`. `Service` executes these programs against one
store: one step of one worker at a time, each named after its function
(`gate_memories`, `record`, `insert_memory`, `describe`, `delete_memory`,
`reflect`, `mark_applied`...). A handler's error paths are in its program: the
evidence chains refuse a REST answer when they cannot be read
(`context_evidence_chains`), and are left incomplete over MCP
(`evidence_chains_json`). A failing step goes to the program's next `Catch`
or ends it; a death drops it. `Recall` and `Lookup` begin reading programs,
`Change`, `Remember` and `RefreshProfile` writing ones, `Dream`, `watch` and
`SweepDreams` the passes. A regeneration lists the newest user memories (`read_sources`),
reads the kind of each (`kind_of_source`), drops the profiles among them one by
one and writes the new one (`replace_profiles`). A run starts from one of `InitialStores`, whose
memories are numbered from 1 as `INTEGER PRIMARY KEY` numbers them; `Sources` are
the archived transcripts a memory may come from; `MaxFailures` bounds failing
statements and deaths together.

| State | Code |
|---|---|
| `mem`, `next` | `memories` with kind, scope, text, source and influence |
| `counts`, `receipts` | `memory_access`, `access_receipts` |
| `proposals`, `demoted` | `reflection_proposals`, `memory_feedback` |
| `dreamt`, `events` | the watcher's in-memory mark, `sweep_events` |
| `task` | what a request has yet to do, and its locals (of a regeneration also, as history, whether it has been `alone` and which profiles lay `beyond` its list) |
| `prepared`, `promised` | history: deliveries in answers that were ready |

## 3. The runs

| Run | Properties | Shows |
|---|---|---|
| `SleepCycle_faults` | `LeaseExclusion`, `CompressedHasNarrative`, `AuditIsTrue`, `OneNarrativePerSession`, `ObservationsAreCompressed` | two sweepers and a handler, leases that expire mid-compression, a crash or a failing statement: unexpired leases exclude; no session is compressed without a narrative; no audit event lies; until a lease runs out, something fails or somebody asks by hand, a session is compressed once; and a crashed sweeper does not keep a session from being compressed |
| `Backfill_restart` | `CompleteMeansGoverned`, `OneGovernedChild`, `SpansResolve`, `BackfillCompletes` | however often it dies, repeating the command makes one governed child per item, completes a receipt only over governed children unless a compression logged their loss, cites only transcripts that are stored, and finishes |
| `Ledger_sqlite` | `ImplementsAuditLog`, `CallsReturn` | two processes on SQLite with a crash, a failing statement or a busy `COMMIT`: the transactions implement `AuditLog`; every call returns and gives back the mutex and the reservation, except that a busy `COMMIT` leaves the reservation with its process, and the calls of the others return at the busy timeout. The theorems of section 6 cover PostgreSQL's advisory locks |
| `GeneratedContext_sqlite` | `StaleIsPending`, `EditsPreserved`, `ForgottenLeavesContext` | three tasks, an edit and a crash or failure: a stale file is registered dirty; edits survive; unless something fails a forgotten memory leaves the file |
| `Forgetting_races` | `DeletedIsLedgered`, `DeletedIsPurged`, `TranscriptKept` | two deleters, a writer, the collector and two crashes or failures: no deletion without a ledger entry; whichever deleter wins the row purges the rest; a linked transcript is kept as long as no memory gives its reference back twice |
| `ClaimGraph_reviews` | `CompetitorsAreMembers`, `UnseenMemberReopens`, `CurrentFactIsLatest`, `ReconcileConverges` | two calls against a recorded edge and each other, two reviews, a reconciliation and a failure: competing edges of calls that return are members, a review of the operator's own set never outlives a member it had not read, calls that do not overlap leave the latest state current, and a reconciliation repairs what the others left |
| `EgressGate_retries` | `TokenOnce`, `ConfirmedBeforeRelease`, `RestrictionIsObserved` | two calls, the second possibly the retry of the first, against an operator, a review, a purge, the clock and a failure: an unexpired token is honoured once; what asks for a human is released to confirmed calls only; a restriction made before a call began binds it |
| `Startup_restart` | `ReadyIsMigrated`, `ReadyIsRooted`, `RootsAgree` | two starters on stores of five ages, with failing statements, a death and a writer: whoever is ready finds the schema and the roots in place, and metadata, parents and joined rows give one answer |
| `Search_hops` | `AnswerIsClean`, `QuotasHold`, `RerankOnlyPromotes` | passes, hops and rerankings while memories are remembered and forgotten and a read fails: an answer holds nothing that was forgotten or foreign when the search began, and no inference that is still on record; reserved places are kept; only rows the model named overtake |
| `Checkpoint_restore` | `ReferencedIsKept`, `RemovedReturnsHidden`, `HandlesAreStable`, `SupersededStaysDown`, `RestoreOnlyTightens`, `HistoryNeverShrinks` | snapshots, deltas, restores, forgets, the collector and appends in any order: what is referenced stays, although a transcript is stored first and linked afterwards; what was forgotten returns hidden; handles are not reused; superseded claims stay down; a restore loosens nothing and loses no event |
| `Checkpoint_handles` | `RemovedHandlesStayRetired` | expects a violation: after a restore in a separate database, the handle of a memory that was imported and then forgotten is given out again (section 7) |
| `Service_calls` | `NothingBarredIsShown`, `CountedOncePerRequest`, `ConsolidationsAreAccounted`, `ReplacesEveryProfile` | two workers in the middle of any two handlers, with a death, an error or a retry: nothing barred is shown; a delivery is counted for an answer and once per request; dreams account for what they demote; an undisturbed regeneration replaces every profile among the memories it lists |

For every property of a passing run `PROJECT.json` names a defect (a dropped guard, a swapped
order, an off-by-one) that the run detects. The modules keep a few more
formulas: a `TypeOK` per component (`OpenTypeOK` in Startup, `SearchTypeOK` in Search,
`ServiceTypeOK` in Service), and `LeaseIntact`, `AppendsLink`, `MigratedOnce`,
`EpochVerifies`, `PreviewIsCurrent`, `MembersAreReported` and
`ReleasedIsRecorded`, which section 6 proves instead of checking them.

## 4. Bounds

Every bound is a constant named `Max...` or a small set in the `.cfg`. They are
chosen so that each behaviour of interest fits:

- *SleepCycle*: two sweepers suffice for every lease conflict, since a lease has
  one owner and one contender; one session (leases of two sessions do not
  interact, and the order of candidates only matters for who comes first); a
  lease of one second, an idle period of two and a clock that reaches two, so
  that a lease can expire and be taken again and a session can become idle;
  two observations, so that one can come after the compression has read; one
  handler with one request, and one fault.
- *Backfill*: three sessions, any number of them archived and the rest open,
  one dated and one unreadable; two items, so that a crash can fall between
  items; two faults, so that a recovery can fail as well; a `Limit` below the
  number of sessions. One runner: two at once do write two children. 445
  thousand states.
- *Ledger*: three entries are a head, a successor and a competitor; one task in
  each of two processes, because the mutex is per process and the database's
  lock is what separates processes. Legacy logs of up to two entries give all
  three shapes: empty, chain, fork. The theorems of section 6 hold for any
  number of tasks per process.
- *GeneratedContext*: two memories (one stays when the other goes), three
  tasks: a publisher, a mutator and an invalidator at once; three operations;
  one edit; one fault.
- *Forgetting*: three memories of which two share a transcript and one is held;
  one writer, two deleters; four operations and two faults.
- *ClaimGraph*: three memories, one recorded and two whose calls race, of which
  two agree and one may be closed; three relations, so that each of "single
  valued" and "current state" occurs alone and together; two reviews, so that a
  created set can be updated once; one failure.
- *EgressGate*: two memories, one plain and one derived; two calls, since a
  retry or a competitor is one other call; tokens that attest, confirm, confirm
  for less and are stale; seven requests and three configurations that between
  them reach every decision; two seconds, so that a token expires within a skew
  of one; one policy change and one fault. 1.2 million states.
- *Startup*: three old memories are a root, a child and a grandchild, or a cycle
  and a bystander; a batch of two, so that a cursor falls between them; two
  starters, three starts, one fault; the statements that may fail are one of
  each kind that the code treats differently (`MCFallible`); the five stores are
  one for each version, with a chain against the order of ids, a lost parent and
  a cycle. 1.8 million states.
- *Search*: a fact, a narrative, an inference still being written and a foreign
  fact: each rule of the code tells two of these apart. Two places of a pool of
  three, so that one row is left out; two hops; one memory forgotten, perhaps
  purged, and one failing read. The inference may be governed before the search
  begins, and forgotten and purged during it. The depth of a list is scaled down
  (`DepthFactor`, `DepthFloor`; 5 and 50 in the code) to what four memories can
  fill. The route is the one with the early exit; the others differ in the
  weights and in the lists they ask, which the theorems leave open. 2.4 million
  states.
- *Checkpoint*: two memories of one session, whose transcript they share, so
  that one outlives the other and gives back what they both count on; a full
  envelope and one delta on it (`MAX_DEPTH`); two claims, one superseding; three
  snapshots, two restores, one move to another database and six operations in
  all, enough for snapshot, forget, purge, collect, restore and one more.
  3.3 million states. One provenance: a second one only stops a restore, and is
  in `Checkpoint_handles`, which needs one snapshot, one restore and the same six
  operations.
- *Service*: two workers, since every interference is between two programs; five
  handles, two operations, one failure; three stores that give every program
  something to do; a recall finds at most two memories (`MaxFound`). A profile is
  made of three user memories (`PROFILE_SOURCE_LIMIT`, 100 in the code), and one
  store has four of them, the oldest a profile. 2.3 million states.

`CHECK_DEADLOCK FALSE` stands where the operations of a run are bounded, so
the system may really come to rest. The Ledger run checks for deadlock.
Symmetry is used over interchangeable tasks (callers, writers, deleters, workers,
starters), in safety runs only.

## 5. Fairness

Weak fairness per task is what the tokio scheduler gives: a future that can
make progress is polled. It is assumed of

- *SleepCycle*: the clock, each sweeper's steps (the scheduler loop sweeps
  periodically, `sweep.rs`), each worker's compression once begun and a
  handler's count. Clients and requests owe nothing: they may never come.
- *Backfill*: each runner's step, where starting anew is a step: the operator
  repeats the command until it finishes.
- *Ledger*: each writer's step, and strong fairness of `LockMutex` and `Begin`,
  since tokio's mutex and PostgreSQL's lock queue are first in, first out, and
  SQLite's busy handler retries. Nobody is obliged to call.
- *GeneratedContext*: each task's steps. Operations are started, or not, at will.

The other modules are safety only: a request may be dropped at any await, and
nothing in them is promised to happen. Failures and crashes are never fair.

## 6. What is proved

Each theorem holds for every value of the constants that satisfies the
component's assumption (`ConstantsAssumption`, `GateAssumption`,
`CheckpointAssumption`, `StartupAssumption`, `SearchAssumption`,
`ServiceAssumption`): finite sets, distinct names, natural bounds, and for
Service stores whose memories are well formed and numbered 1 to n.
TLC evaluates that assumption in every run.

| Module | Theorem | Argument |
|---|---|---|
| `SleepCycleProofs` | `TypeCorrect` | induction, one case per action |
| | `LeaseSafe`, `LeasesExclude` | `LeaseInv`: while a worker is past acquisition and its stamp has not run out, the lease row is its own. The exclusion is not inductive without it: the row alone does not say who believes to hold it |
| | `CompressedIsRemembered` | `NarrativeInv`: a worker at `mark` has stored a narrative, or saw no observations |
| | `AuditTruthful` | `AuditInv`: the outcome a worker carries to `record` is what happened |
| | `SweepIsIdempotent` | `OnceInv` on top of `LeaseInv`: from its second look until it writes, a sweeper's session has no narrative, and one that has a narrative is compressed or about to be marked. `LeasedAlone` gives that no two sweepers are there for one session; the candidate lists may be as stale as they like |
| `BackfillProofs` | `TypeCorrect` | with `Placed`, which says where a runner stands: in the loop exactly while it has a candidate, and writing only to rows that exist |
| | `CompletesGoverned` | `Behind`: what a runner has passed has governed children, and rows only grow (`RowsGrow`), so another runner's receipt stays true. For any number of runners, failures and crashes |
| | `ChunksResolve` | `AloneAt`: a session in hand is nobody else's and open until its runner closes it, and chunks come after the link |
| | `ChildIsSingle` | `UnclaimedAt`: between the look for a child and its governance no row carries the `source_ref`; `Single`: at most one does. This and `ChunksResolve` assume `SoleRunner` (one backfill at a time): the schema does not stop two, and two do write two children |
| `LedgerProofs` | `LedgerInvariant` | `LedgerInv`: who holds which lock; what a transaction has read is still so; evidence is at most as new as the log; epochs start within it |
| | `AppendsAlwaysLink`, `MigratedAtMostOnce`, `EpochsVerify` | from `LedgerInv` and the one action, `Commit`, that changes tables |
| | `LedgerImplementsAuditLog` | `VersionCurrent`: past its check a transaction holds the current version, since the lock of its namespace keeps others out; with `LedgerInv`, a `Commit` is then a `Record`, an `Update` or a `Migrate`. This is a refinement of the safety part, without fairness |
| `GeneratedContextProofs` | `PreviewsAreCurrent` | `RevisionInv`: a captured revision never exceeds the counter, and while equal the selection is active |
| | `EditsArePreserved` | `UnlinksOwn`, assuming the user does not save between the comparison and the unlink |
| | `StaleContextIsPending` | on SQLite: `ContextInv` says who holds the reservation, that only active memories are published under it, that the row a task will delete is the row it read, and which stale file is on account of which task |
| `ForgettingProofs` | `DeletionsAreLedgered` | `PastLedger`: a deleter past its ledger step has its memory in the ledger, whatever fails |
| | `TranscriptsKept` | `CountInv`: a transcript's counter is never below the number of its `Holders`, the memories that are linked or about to be, and what is counted is stored. `TranscriptKept` alone is not inductive: between the store and the link no row refers to the transcript, and the collector would take it. `WrittenOnce`: a memory is linked at the end of its writing, so nobody releases it before |
| | `DeletionsPurge` | `PurgeInv`: until something fails, the deleter that won the row of an old memory is on its way to the rest, and writers are busy with new ones |
| `MemoryProofs`, on ClaimGraph | `TypeCorrect` | part of `Inv`, on which the five others rest |
| | `CompetitorsFound` | `Found`: of two competing active edges that are past detection, one is among what the other's call read; `CallOK`: what a call read and has no longer to insert is stored |
| | `MembersReported` | `Reporting`: until a call fails, a member is in the ledger or in the hands of a call that has inserted a member and not yet written its entry |
| | `ReviewsAreUndone` | `Reviewed`: while no call fails, a member that the review in force has not read is accounted for by a call between its insert and its reopening, and a view of the current version knows all members but those of such calls |
| | `LatestStaysCurrent` | `Alone` on top of `Ordered`: while no calls overlap, the running one owns the last edge, that edge is active, and the open edges of calls that returned agree; a plan retires an edge only for a newer one (`Ordered`) |
| | `ReconciliationConverges` | `Planned`: for every two active edges that may not stand side by side an update is still in the plan. The plan chooses the newest edge of each kind, whose existence (`NewestExists`) is a well-founded minimum |
| `MemoryProofs`, on Service | `ServiceTypeCorrect` | the invariant `ServiceInv` of all five theorems. A program is a sequence of steps, so its parts say what may still come in the rest of a worker's program, and two lemmas carry each part over every program: the program has the shape when it begins (`RecallsFit`, `LookupsFit`, `ChangesFit`, `RemembersFit`, `ProfilesFit`, `DreamsFit`), and a rest, or what follows the next `Catch`, keeps it (`RestSound`, `ErrorSound`) |
| | `BarredIsNeverShown` | `BarsHold`: a barred memory is gone or denied, handles are not reused, and no list of the call holds it once the gate has decided, so neither do chunks or originals that are read later |
| | `DeliveriesAreCountedOnce` | `CountsAndAnswers`: up to its last three steps a program only reads, and those count and answer without anything that refuses; `ReceiptsKept`: what a retried request was promised, or is about to be, has a receipt. The property is then inductive: each count is matched by a worker that holds it, whose answer or death hands it on |
| | `DreamsAreAccounted` | `ConsolidatesInOrder`, `ProposalWaits`: proposal, memory, mark and feedback of one group come in this order, with the pass's latest proposal and its memory waiting for the mark; `GroupsExisted`: a group is older than its consolidation; `FeedbackAccounted`: feedback given, and feedback about to be given, is for applied proposals. Neither half of the property is inductive without them: the tables do not say which memory a proposal waits for |
| | `ProfilesAreReplaced` | `AloneReplaces`: a regeneration that is alone has still to drop, or to look at, every profile that was not beyond its list; `ReplacesInOrder`: drops come before the insertion, so none is left when the new profile is described |
| `StoreProofs`, on Checkpoint | `TypeCorrect` | the invariant `Inv` of all seven theorems, as a conjunction of twelve parts with a step lemma each: counters, tables, reference counts, tasks, states, the chain, handles, removed memories, the query and the sources |
| | `ReferencedStays` | `StatesOK`: every stored envelope loads, parts and bases included, and a snapshot's gives the state it was taken of; `MapsOK`: what something refers to is stored. `CreditOK`: a transcript's count is never below the number of rows that hold a reference and have not given it back, plus the one a remember holds between store and link, unless a row without one has drawn on it; what is counted is stored. Without it the collector could take a transcript between its store and its link. For every depth of delta chains |
| | `RemovedStaysHidden` | `GoneOK`: a memory goes after its ledger entry, which is what a restore looks at |
| | `HandlesStay` | `HandedOK`: no handle given out is above the mark, and no step lowers it |
| | `SupersededStays` | `QueryOK`: what a query shows so far is not superseded by a claim it has read; an event comes after its predecessor in the chain |
| | `HistoryStays`, `RestoreTightens` | action properties: every step but `Recreate` unites events (`EventsStay`); `Merged` keeps the tighter of each live and restored limit |
| `StoreProofs`, on Startup | `OpenTypeCorrect` | the invariant `OpenInv` of all four theorems: the types of the store, of the processes and of their history, and the nine parts named below |
| | `StartMigrates` | `DescribedBefore`: what lies before a starter's place in the list of statements exists, or is a column whose failure is dropped, and nothing removes it; the lists of `migrate` are data, so that every index comes after its table and column is looked up in them (`ListsAreStatements`) |
| | `StartRoots` | `Passed`: what a starter began with and its cursor has passed has a root, and so has what the stored cursor has passed (`RootedTo`), since a cursor moves to a memory once its root is written. Rows that come from a program that knows no roots may come below a cursor: `late` names them, and they are the next start's |
| | `RootsStayAgreed` | `Chains`: what a walk has gone over are rows without a root, each the parent of the next, up to where it stands; `Writes`: the root and depth a process is about to write are what the memory inherits (`Inherits`), so two backfills that meet write the same; `RootsInherit`, `RowsMatch`, `MadeBy`: what follows of the table, outside the statements in between. For parents that end anywhere or form a cycle, of any length |
| `AnswerProofs`, on EgressGate | `ConfirmationOnlyConfirms`, `RiskNeverHelps` | about the evaluator alone, for every candidate, purpose, consumer and configuration: a confirmation lifts no other refusal, and more risk never gets more |
| | `TokensAreHonouredOnce` | `RowsKept`: while a honoured token is valid its nonce has a row, since a purge takes expired rows only |
| | `ReleasesAreRecorded` | `ReleasedInv`: what a call has released is what it decided to, with nothing left to record; no step deletes an event |
| | `RestrictionsAreObserved` | `ProgressInv`: versions only grow and purged metadata does not come back, so what a call has seen is at least what was in force when it began; `DecidedInv` ties its decisions to what it has seen |
| | `ReleasesAreConfirmed` | `ClaimInv`: a call past its claims has claimed the confirmation it presents, which was signed for its purpose and at least its risk |
| `AnswerProofs`, on Search | `SearchTypeCorrect` | the invariant `SearchInv` of all four theorems. That each list names its members once rests on lemmas about the operators, for lists of any length: `ListedIs` (a one to one numbering of a finite set is a list of it), and from it `OnlyIs`, `RankedIs`, `MergedIs`, `FirstOfIs`, `FusedLists`, `PromotedIs`, `ReservedIs` and `RerankedIs`, which also say what each keeps and in which order |
| | `AnswersAreClean` | `StaysHidden`: what was hidden when the search began stays so, and what was an inference on record keeps its kind until it is purged; `Clean`: the full-text list holds nothing hidden, past the quarantine an inference of `derived` is a candidate only if it is purged, and a row must be a full-text row or readable; `Short`: each pass and hop brings its limit at most |
| | `QuotasAreHeld` | `Offered`: until places are reserved, the stored narratives of the full-text list and the floor's first are candidates, and then the latter is the first or all of them fit. `NarrativeShare`: from a limit of two the share leaves one place, which the first candidate gets (`ReservedIs`) |
| | `RerankOnlyLifts` | `Anchored`: in what is reranked, narrow rows stand where the narrow pass had them and all others behind. With `FusedLists`, who is not named stays behind whom it was behind, since reciprocals fall along a list (`ReciprocalFalls`) and a reply only adds to a score |

Type correctness is proved for each of these eleven components, and every safety
property that a passing run checks is also a theorem. Checkpoint and Startup
share a module of proofs, since both are about what a store keeps from one
process to the next; so do EgressGate and Search, which decide what an agent is
given, and ClaimGraph and Service, which join memories and serve them. The
variables of such a pair are disjoint, and no lemma about the steps of one is
used for the other.

The theorems about Service are about every number of workers at once, any such store
and any number of operations, failures and deaths; the run has two workers.

Left to TLC is liveness (`ObservationsAreCompressed`, `BackfillCompletes`,
`CallsReturn`, `ForgottenLeavesContext`): TLAPS does not reason about fairness.

## 7. Limits of the code

Where a property carries a condition, the code breaks the unconditional form,
and TLC gives the counterexample when the condition is left out. The other
items were read in the source. Only the first of them is a run of its own: the
others are visible in the conditions of the properties.

*Against what a document, comment or test says:*

- "SQLite's durable ID high-water mark and PostgreSQL sequences prevent future
  memories from reusing removed handles"
  (`docs/benchmarks/memory-density/README.md:52`). The restore raises the mark
  over the rows it is about to delete and inserts the snapshot's rows
  afterwards (`checkpoint.rs:883`), so in a separate database an imported memory
  can have a handle above the mark; once it is forgotten, the next memory gets
  that handle. The run `Checkpoint_handles` shows it.
- A memory can be deleted under a hold: `governed_delete_memory` checks the hold
  several statements before it deletes (`db.rs:2732`), while
  `docs/reference.md:1023` says it "Prevents governed deletion while true".
- Two forgets of one memory each give its transcript's reference back
  (`db.rs:2772`, `7614-7615`), so the collector may take a transcript that
  another memory links. `TranscriptKept` excludes a reference given back twice.
- The child of a crashed backfill that has its metadata row but no governance is
  not adopted (`recovery.rs:487-490` says that window is closed); it stays beside its
  successor. `OneGovernedChild` counts governed children. Dated facts are stored
  as `... (as of ...)` (`compress.rs:855-858`) and are not recognised by text, so
  they get a second child too.
- On PostgreSQL `begin_write` reserves nothing, so a forget may commit between
  the revision check and the registration and a stale `IRONMEM.md` is registered
  clean (`hooks.rs:156`, `316`). `StaleIsPending` is about SQLite.
- Two calls may retire each other's edge, and no state is current
  (`db.rs:5458`; the test at `db.rs:8687` has the calls one after the other).
  `CurrentFactIsLatest` is about calls that do not overlap.
- When the provider fails, the local result is stored and the session marked
  compressed (`compress.rs:31-45`), as `docs/reference.md:71-72` has it;
  `docs/sleep-cycle-autocompress.md:57` says such failures "do not mark the
  session compressed".
- A rerank "can never push a strong base hit out" (`retrieval.rs:1884-1888`): a
  row the model names can. `RerankOnlyPromotes` states what is kept.
- Inferences "never enter the candidate set" (`retrieval.rs:1628-1631`): one
  that is being written is a row of the default kind until its second statement,
  and one that the full-text list has read, and that is forgotten and purged
  before the quarantine, is kept because its kind is missing (`unwrap_or(true)`,
  `retrieval.rs:1634-1643`) and shown as it was read (`retrieval.rs:1313`).
  `AnswerIsClean` is about what was on record as an inference when the search
  began and has not been purged since.
- "Replace any prior profile(s) so exactly one exists" (`profile.rs:62`): a
  profile older than the 100 newest user memories is not listed
  (`profile.rs:24`, `44`) and stays. `ReplacesEveryProfile` is about the others.
- "Reference counters are hints; durable source and snapshot roots always win"
  (`db.rs:7749`): between the store of a transcript and its link there is no
  root, only the count. A restore stores a transcript without a reference
  (`checkpoint.rs:899`), and a forget that died after its release releases
  again. Either gives back what another row counts on: when the other row is
  between its store and its link, a collection leaves the link dangling.
  `ReferencedIsKept` excepts rows linked to a transcript after that happened.

*Lost or doubled work:*

- A lease that runs out during a slow provider call, or a crash after the
  narrative's insert, brings a second narrative. An observation recorded during
  the compression belongs to a compressed session and is never compressed.
- `record_compression` writes a complete receipt although a fact's write failed
  and was only logged (`recovery.rs:109`); the backfill never looks again.
- A process that dies between `mark_compressed` and `set_memory_session_blob`
  leaves a session that is neither an archived nor an uncompressed candidate.
- `replace_memory_chunks` deletes and inserts one by one (`db.rs:6039`): a
  failure leaves a torn skim.
- A dream's own memories make the project due again (`auto_dream.rs:43-44`,
  `55-56`, `73`), so passes go on without a new observation.
- Two regenerations at once leave two profiles, a death in between none
  (`profile.rs:62`). The profile deletes without ledger entry and without looking at
  a hold.

*Kept for too long:*

- A `COMMIT` of a ledger append that finds SQLite busy returns without
  `ROLLBACK` (`db.rs:4634`): the connection goes back to the pool with its
  transaction open, and until the process ends every other ledger write gives up
  at the busy timeout. `CallsReturn` is about what a task holds, and about those
  who find the reservation taken.

*Windows:*

- A save between the comparison and the unlink of `IRONMEM.md` is lost
  (`UserRaces`, assumed away in `EditsPreserved`).
- A writer goes on writing metadata and vectors of a memory deleted under it,
  and a repeated wipe skips what a crashed one had tombstoned (`db.rs:2597`).
- A child whose ledger append was lost in a crash counts as governed.
- A set that a call founded, or whose reopening a crash prevented, stays
  reviewed although a member arrived after the reading (`db.rs:4563`).
- For the clock skew after its expiry a token still verifies while its nonce
  may have been purged (`db.rs:3688`): it is honoured again then.
- A crash between the metadata's root and its rows leaves an older primary row
  beside the one that the repair adds (`db.rs:692`).
- A restore removes memories made after its snapshot, held ones included,
  without a ledger entry (`checkpoint.rs:886`).
- With one place asked for, the narrative always wins over the exact fact
  (`retrieval.rs:1493`); hits of other namespaces take places of the list they
  came from and are dropped only when rows are read (`retrieval.rs:1315`).
- A fact that is purged during a search counts as a narrative and may take the
  place kept for one (`retrieval.rs:1490-1492`); `QuotasHold` counts it as one.
- `sync::publish` reads the highest Lamport time and inserts in two statements
  (`sync.rs:31`): two publishers get one time.

## 8. What is not modelled

Within the modelled components:

- SleepCycle: `--dry-run` and the text of a narrative.
- Backfill: dry runs, reports, `--after-memory-id`, the verification of the
  extracted text against the transcript, two runners at once.
- Ledger: export of evidence, signatures, canonical encoding.
- GeneratedContext: rendering budgets, the import line in the user's own file.
  Comparing and unlinking in `Cleanup` is one step (there is no await between
  them); two invalidations that follow each other in a governed deletion are
  one; expiry does not invalidate in the code either; `wipe` removes the file
  unconditionally, which is left out.
- Forgetting: entity, edge and chunk rows share the fate of the metadata; the
  profile's deletion is in Service, the collector's other roots in Checkpoint.
- CCR: codecs, dictionaries and chunking transform bytes and have no state to
  interleave.
- ClaimGraph: text normalisation and the tables of relations, stances and the
  basis of a review, authorisation, and memories whose namespace or scope
  changes after their edges were stored.
- EgressGate: signatures and key rotation (which tokens exist is given), cursor
  pages and projections.
- Startup: column types and what the indexes index; an index is there or not.
- Search: scores, embeddings and text matching are given sets and orders; only
  their combination is computed. The embedding codec.
- Checkpoint: snapshots over several projects, conflicts of residency and
  retention, envelopes of older formats, intervals of valid time (an event is
  in force or not), assertions of several subjects.
- Service: the purge of receipts after seven days, the temperature of the
  working set, and handlers that read without the gate (`get_profile`,
  `list_corrections`, `memory_graph`, lineage over REST) or only report on
  components modelled elsewhere. Three programs at once are out of TLC's reach;
  the theorems cover them.

Components without a model: *sync* (publishing and importing signed bundles,
called only from the CLI and REST); *code anchors* (staleness against files and
git); *providers and extraction* (text and HTTP; their result is a choice in
SleepCycle, Backfill, Service and Search); *configuration, metrics, helpers*;
*evaluation*; *installers, gateway, SDK and editor plugin* (outside the daemon).

## 9. Plan

All the daemon's main paths have a module. What would add most, in this order:

1. An abstract specification of governed memory (remembered, held, forgotten),
   implemented by Forgetting as AuditLog is by Ledger, with its proof.
2. `Sync`: Lamport times of several nodes, imports that repeat.
3. A second runner in `Backfill`, with `OneGovernedChild` and `SpansResolve`
   weakened to what two runners keep, which would free `ChildIsSingle` and
   `ChunksResolve` of `SoleRunner`.
4. `VectorIndex`: backfill of embeddings and the ANN index against the table;
   `CodeAnchors`.
