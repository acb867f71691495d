----------------------------- MODULE Checkpoint -----------------------------
(***************************************************************************)
(* Snapshots of a project and the claims they must not rewind.  A snapshot *)
(* is a content-addressed envelope: a full state, or a delta on the        *)
(* envelope of the last snapshot.  Restoring one replaces the rows of the  *)
(* project in a transaction, while memories are remembered and forgotten   *)
(* in their several statements, policies change, assertions are appended   *)
(* and queried, snapshots are deleted and garbage is collected.            *)
(*                                                                         *)
(* A hash is the content it stands for.  One project, whose rows are in    *)
(* one namespace.                                                          *)
(***************************************************************************)
EXTENDS Naturals, Sequences, SequencesExt, FiniteSets, FiniteSetsExt

CONSTANTS
  None,
  Blob, BlobOf,       \* transcripts; the transcript of each memory, or None
  Provenance, DefaultProvenance,  \* namespace, source_type, writer_identity
  Limit,              \* columns a restore may only tighten
  MAX_DEPTH,          \* deltas on a full envelope
  MaxMemories, MaxVersion, MaxEvents, MaxSnapshots, MaxRestores, MaxRecreates,
  MaxOps              \* bounds

ASSUME CheckpointAssumption ==
  /\ {MAX_DEPTH, MaxMemories, MaxVersion, MaxOps} \subseteq Nat
  /\ DefaultProvenance \in Provenance
  /\ "legal_hold" \in Limit
  /\ \A n \in 1..MaxMemories : BlobOf[n] \in Blob \union {None}

VARIABLES
  tables,      \* the rows of memories with memory_meta, of their policies,
               \* and the assertion events
  orphans,     \* memory_meta rows whose memory is gone
  highwater,   \* memory_identity_highwater
  ledger,      \* how many ledger entries each memory has
  saved,       \* checkpoint_audit_evidence
  restores,    \* checkpoint_restore_events
  sources,     \* refcount of each stored transcript
  objects,     \* refcount of each stored envelope
  snapshots,   \* brain_snapshots, with the state each was taken of (history)
  head,        \* checkpoint_heads
  exports,     \* exported files; they outlive the database
  writing,     \* a remember in progress
  forgetting,  \* a forget in progress
  pending,     \* a restore that has read its state
  query,       \* a query in progress or answered
  born,        \* memories remembered so far, in any database
  handed,      \* history: the handles this database has given out
  gone,        \* history: the handles of removed memories, until given out again
  credit,      \* history: who holds a reference to a transcript, whose count
               \* was drawn by a row without one, which rows were linked since
  made,        \* snapshots made so far
  recreates, ops

store   == <<tables, orphans, highwater, ledger, saved, restores>>
blobs   == <<sources, objects>>
points  == <<snapshots, head, exports>>
tasks   == <<writing, forgetting, pending, query>>
history == <<born, handed, gone, credit, made>>
vars    == <<store, blobs, points, tasks, history, recreates, ops>>

TABLES == {"memories", "policies", "events"}

ids(rows) == {r.id : r \in rows}
Row(rows, id) == CHOOSE r \in rows : r.id = id
Without(rows, id) == {r \in rows : r.id # id}

\* A map with a key added or replaced.
Bind(map, key, value) ==
  [k \in DOMAIN map \union {key} |-> IF k = key THEN value ELSE map[k]]

NoCredit == [held |-> {}, overdrawn |-> {}, unbacked |-> {}]

Init ==
  /\ tables = [t \in TABLES |-> {}]
  /\ orphans = {} /\ highwater = 0 /\ ledger = [id \in 1..MaxMemories |-> 0]
  /\ saved = {} /\ restores = 0
  /\ sources = << >> /\ objects = << >>
  /\ snapshots = << >> /\ head = None /\ exports = {}
  /\ writing = None /\ forgetting = None /\ pending = None /\ query = None
  /\ born = 0 /\ handed = {} /\ gone = {} /\ credit = NoCredit /\ made = 0
  /\ recreates = 0 /\ ops = 0

\* A new request, within the bound.
Starts == ops < MaxOps /\ ops' = ops + 1

Logged(id) == ledger' = [ledger EXCEPT ![id] = @ + 1]

-----------------------------------------------------------------------------
(* Remembering: the row and its default metadata in one transaction, then   *)
(* the governance, then the transcript.                                     *)

\* Mutant: without the high-water mark.
NextHandle_FromRows ==
  Max({0} \union ids(tables.memories) \union ids(orphans)) + 1

NextHandle ==
  Max({highwater} \union ids(tables.memories) \union ids(orphans)) + 1

insert_memory ==
  /\ Starts /\ writing = None /\ born < MaxMemories
  /\ LET id == NextHandle
     IN /\ highwater' = id
        /\ tables' = [tables EXCEPT !.memories = @ \union
             {[id |-> id, body |-> born + 1, provenance |-> DefaultProvenance,
               limits |-> {}, tombstoned |-> FALSE, session_blob |-> None]}]
        /\ writing' = [id |-> id, body |-> born + 1, at |-> "govern"]
        /\ handed' = handed \union {<<id, born + 1>>}
        /\ gone' = gone \ {id}
  /\ born' = born + 1
  /\ UNCHANGED <<orphans, ledger, saved, restores, blobs, points, forgetting, pending,
                 query, credit, made, recreates>>

\* The metadata is replaced, the tombstone is not; a memory that is gone fails.
apply_memory_governance ==
  /\ writing # None /\ writing.at = "govern"
  /\ IF writing.id \in ids(tables.memories)
     THEN /\ \E provenance \in Provenance, limits \in SUBSET Limit :
               LET row == [Row(tables.memories, writing.id) EXCEPT
                             !.provenance = provenance, !.limits = limits]
               IN tables' = [tables EXCEPT
                               !.memories = Without(@, writing.id) \union {row}]
          /\ Logged(writing.id)
          /\ writing' = IF BlobOf[writing.body] = None THEN None
                        ELSE [writing EXCEPT !.at = "store"]
     ELSE writing' = None /\ UNCHANGED <<tables, ledger>>
  /\ UNCHANGED <<orphans, highwater, saved, restores, blobs, points, forgetting,
                 pending, query, history, recreates, ops>>

Stored(blob) == Bind(sources, blob, IF blob \in DOMAIN sources THEN sources[blob] + 1 ELSE 1)

\* store_session_transcript: first the blob takes a reference.
store_blob ==
  /\ writing # None /\ writing.at = "store"
  /\ sources' = Stored(BlobOf[writing.body])
  /\ writing' = [writing EXCEPT !.at = "link"]
  /\ UNCHANGED <<store, objects, points, forgetting, pending, query, history, recreates, ops>>

LinkedTo(rows, id, blob) ==
  {IF r.id = id THEN [r EXCEPT !.session_blob = blob] ELSE r : r \in rows}

\* Then the metadata, if it is there, takes the hash, whatever has become of
\* the blob.
set_memory_session_blob ==
  /\ writing # None /\ writing.at = "link"
  /\ LET blob == BlobOf[writing.body]
         link == <<writing.id, blob>>
     IN /\ tables' = [tables EXCEPT !.memories = LinkedTo(@, writing.id, blob)]
        /\ orphans' = LinkedTo(orphans, writing.id, blob)
        /\ credit' = IF writing.id \notin ids(tables.memories \union orphans) THEN credit
                     ELSE [credit EXCEPT !.held = @ \union {link},
                             !.unbacked = IF blob \in credit.overdrawn
                                          THEN @ \union {link} ELSE @]
  /\ writing' = None
  /\ UNCHANGED <<highwater, ledger, saved, restores, blobs, points, forgetting, pending,
                 query, born, handed, gone, made, recreates, ops>>

-----------------------------------------------------------------------------
(* Policies and assertions.                                                 *)

Version(id) ==
  IF id \in ids(tables.policies) THEN Row(tables.policies, id).version ELSE 0

\* Found by its metadata alone; the version rises by one.
update_memory_influence_policy(id) ==
  /\ Starts
  /\ id \in ids(tables.memories) \union ids(orphans)
  /\ Version(id) < MaxVersion
  /\ tables' = [tables EXCEPT !.policies =
                  Without(@, id) \union {[id |-> id, version |-> Version(id) + 1]}]
  /\ Logged(id)
  /\ UNCHANGED <<orphans, highwater, saved, restores, blobs, points, tasks, history, recreates>>

\* The event a chain ends with.
LastEvent(events) ==
  IF events = {} THEN None
  ELSE CHOOSE e \in events : e.version = Cardinality(events)

\* Contiguous, each event linked to the one before, superseding an earlier
\* event with a value; a retraction has a target.
validate_chain(events) ==
  \A n \in 1..Cardinality(events) :
    \E e \in events :
      /\ e.version = n
      /\ e.previous = IF n = 1 THEN None
                      ELSE CHOOSE p \in events : p.version = n - 1
      /\ e.value \/ e.supersedes # None
      /\ e.supersedes # None =>
           /\ e.supersedes \in events
           /\ e.supersedes.version < n /\ e.supersedes.value

\* Write: the expected version, the evidence and the append in a transaction.
append_assertion(evidence, value, supersedes) ==
  /\ Starts
  /\ ~evidence.tombstoned
  /\ LET chain == tables.events
         event == [version |-> Cardinality(chain) + 1, memory |-> evidence.id,
                   evidence |-> evidence.body, value |-> value,
                   supersedes |-> supersedes, previous |-> LastEvent(chain)]
     IN /\ event.version <= MaxEvents
        /\ validate_chain(chain \union {event})
        /\ tables' = [tables EXCEPT !.events = @ \union {event}]
  /\ Logged(evidence.id)
  /\ UNCHANGED <<orphans, highwater, saved, restores, blobs, points, tasks, history, recreates>>

\* Query: the whole chain first.
read_chain ==
  /\ Starts /\ query = None
  /\ query' = [known |-> tables.events, todo |-> tables.events,
               visible |-> {}, withheld |-> FALSE]
  /\ UNCHANGED <<store, blobs, points, writing, forgetting, pending, history, recreates>>

\* Mutant: a retraction supersedes nothing.
Superseded_ByValue(e, known) == \E new \in known : new.value /\ new.supersedes = e

Superseded(e, known) == \E new \in known : new.supersedes = e

Candidate(e, q) == e.value /\ ~Superseded(e, q.known)

\* Then the evidence of each candidate, in a read of its own; the gate may
\* withhold it.
read_evidence(e) ==
  /\ query # None
  /\ LET found == {r \in tables.memories : r.id = e.memory /\ ~r.tombstoned}
     IN IF ~Candidate(e, query)
        THEN query' = [query EXCEPT !.todo = @ \ {e}]
        ELSE \/ /\ \E r \in found : r.body = e.evidence
                /\ query' = [query EXCEPT !.todo = @ \ {e}, !.visible = @ \union {e}]
             \/ query' = [query EXCEPT !.todo = @ \ {e}, !.withheld = TRUE]
  /\ UNCHANGED <<store, blobs, points, writing, forgetting, pending, history, recreates, ops>>

\* The claim an answer calls current: the only visible one, nothing withheld.
current_id(q) ==
  IF q.todo = {} /\ ~q.withheld /\ Cardinality(q.visible) = 1
  THEN CHOOSE e \in q.visible : TRUE
  ELSE None

answer ==
  /\ query # None /\ query.todo = {}
  /\ query' = None
  /\ UNCHANGED <<store, blobs, points, writing, forgetting, pending, history, recreates, ops>>

-----------------------------------------------------------------------------
(* Forgetting: tombstone, ledger, reference, garbage, row, metadata.        *)

governed_delete_memory(m) ==
  /\ Starts /\ forgetting = None
  /\ "legal_hold" \notin m.limits
  /\ tables' = [tables EXCEPT !.memories =
                  Without(@, m.id) \union {[m EXCEPT !.tombstoned = TRUE]}]
  /\ forgetting' = [id |-> m.id, at |-> "ledger"]
  /\ UNCHANGED <<orphans, highwater, ledger, saved, restores, blobs, points, writing,
                 pending, query, history, recreates>>

ForgetGoes(from, to) ==
  /\ forgetting # None /\ forgetting.at = from
  /\ forgetting' = IF to = None THEN None ELSE [forgetting EXCEPT !.at = to]
  /\ UNCHANGED <<points, writing, pending, query, recreates, ops>>

append_forget ==
  /\ ForgetGoes("ledger", "decref")
  /\ Logged(forgetting.id)
  /\ UNCHANGED <<tables, orphans, highwater, saved, restores, blobs, history>>

\* A count that is zero stays zero.
Released(map, key) ==
  IF key \in DOMAIN map /\ map[key] > 0 THEN [map EXCEPT ![key] = @ - 1] ELSE map

Linked(id) ==
  {r.session_blob : r \in {s \in tables.memories \union orphans : s.id = id}} \ {None}

\* A row that was restored, or whose forget died after this, gives back what
\* it does not hold.
decref_memory_session_blob ==
  /\ ForgetGoes("decref", "gc")
  /\ IF Linked(forgetting.id) = {} THEN UNCHANGED <<sources, credit>>
     ELSE LET blob == CHOOSE b \in Linked(forgetting.id) : TRUE
              link == <<forgetting.id, blob>>
          IN /\ sources' = Released(sources, blob)
             /\ credit' = IF link \in credit.held
                          THEN [credit EXCEPT !.held = @ \ {link}]
                          ELSE [credit EXCEPT !.overdrawn = @ \union {blob}]
  /\ UNCHANGED <<store, objects, born, handed, gone, made>>

\* Mutant: deltas do not hold what they build on.
PinnedObject_NoDependencies(o) ==
  (\E s \in DOMAIN snapshots : snapshots[s].blob_hash = o) \/ head = o

\* Blobs something durable still points to, whatever their count says.
PinnedSource(b) == \E r \in tables.memories \union orphans : r.session_blob = b
PinnedObject(o) ==
  \/ \E s \in DOMAIN snapshots : snapshots[s].blob_hash = o
  \/ \E child \in DOMAIN objects : Len(child) > 1 /\ Front(child) = o
  \/ head = o

gc_blobs ==
  /\ sources' = RestrictDomain(sources, LAMBDA b : sources[b] > 0 \/ PinnedSource(b))
  /\ objects' = RestrictDomain(objects, LAMBDA o : objects[o] > 0 \/ PinnedObject(o))

collect ==
  /\ ForgetGoes("gc", "delete")
  /\ gc_blobs
  /\ UNCHANGED <<store, history>>

\* The row goes, and its metadata stays for the purge; no row, no purge.
delete_memory ==
  /\ LET found == {r \in tables.memories : r.id = forgetting.id}
     IN /\ ForgetGoes("delete", IF found = {} THEN None ELSE "purge")
        /\ tables' = [tables EXCEPT !.memories = @ \ found]
        /\ orphans' = orphans \union found
        /\ gone' = gone \union ids(found)
  /\ UNCHANGED <<highwater, ledger, saved, restores, blobs, born, handed, credit, made>>

purge_memory ==
  /\ ForgetGoes("purge", None)
  /\ orphans' = Without(orphans, forgetting.id)
  /\ tables' = [tables EXCEPT !.policies = Without(@, forgetting.id)]
  /\ UNCHANGED <<highwater, ledger, saved, restores, blobs, history>>

\* `ironmem ccr gc`, at any time.
run_gc ==
  /\ gc_blobs
  /\ UNCHANGED <<store, points, tasks, history, recreates, ops>>

-----------------------------------------------------------------------------
(* The state of a project, and what lies between two of them.               *)

Handles == ids(tables.memories)

capture ==
  [tables  |-> [tables EXCEPT !.policies = {p \in @ : p.id \in Handles}],
   sources |-> {r.session_blob : r \in tables.memories} \ {None},
   audit   |-> saved \union {e \in Handles \X (1..Max(Range(ledger) \union {0})) :
                               e[2] <= ledger[e[1]]}
                     \union {<<0, n>> : n \in 1..restores}]

difference(base, next) ==
  [removed         |-> [t \in TABLES |-> base.tables[t] \ next.tables[t]],
   added           |-> [t \in TABLES |-> next.tables[t] \ base.tables[t]],
   sources         |-> next.sources \ base.sources,
   removed_sources |-> base.sources \ next.sources,
   audit           |-> next.audit]

\* A delta that removes what is not there is refused.
apply_delta(base, delta) ==
  IF /\ \A t \in TABLES : delta.removed[t] \subseteq base.tables[t]
     /\ delta.removed_sources \subseteq base.sources
  THEN [tables  |-> [t \in TABLES |-> (base.tables[t] \ delta.removed[t]) \union delta.added[t]],
        sources |-> (base.sources \ delta.removed_sources) \union delta.sources,
        audit   |-> delta.audit]
  ELSE None

\* The events of a scope are read in the order of their versions.
validate_checkpoint(events) == validate_chain(events)

validate(state) ==
  /\ validate_checkpoint(state.tables.events)
  /\ \A r, s \in state.tables.memories : r.id = s.id => r = s
  /\ ids(state.tables.policies) \subseteq ids(state.tables.memories)
  /\ {r.session_blob : r \in state.tables.memories} \ {None} \subseteq state.sources

\* An envelope is the sequence of what its chain holds: the full state, then
\* the deltas, each with the hash of the state it leads to.
Full(state) == <<[state_hash |-> state, content |-> state]>>
HashOf(envelope) == envelope[Len(envelope)].state_hash

\* Every envelope of the chain is there, and each delta leads from one hash to
\* the next.
load(envelope) ==
  /\ Len(envelope) <= MAX_DEPTH + 1
  /\ \A n \in 1..Len(envelope) : SubSeq(envelope, 1, n) \in DOMAIN objects
  /\ envelope[1].content = envelope[1].state_hash
  /\ \A n \in 2..Len(envelope) :
       apply_delta(envelope[n - 1].state_hash, envelope[n].content) = envelope[n].state_hash
  /\ validate(HashOf(envelope))

-----------------------------------------------------------------------------
(* Snapshots.                                                               *)

\* The last envelope again when nothing changed, a delta on it when that is
\* smaller and the chain not too long, else the full state.
Envelopes(state, incremental) ==
  IF ~incremental \/ head = None THEN {Full(state)}
  ELSE IF HashOf(head) = state THEN {head}
  ELSE {Full(state)} \union
       (IF Len(head) - 1 < MAX_DEPTH
        THEN {Append(head, [state_hash |-> state,
                            content |-> difference(HashOf(head), state)])}
        ELSE {})

\* Snapshots are numbered in the order they were made.
insert_brain_snapshot(envelope) ==
  Bind(snapshots, made + 1, [blob_hash |-> envelope, taken |-> capture])

brain_snapshot(s) == snapshots[s].blob_hash

\* A transaction; a source or a parent that cannot be loaded fails it.
create(incremental) ==
  /\ Starts /\ made < MaxSnapshots
  /\ capture.sources \subseteq DOMAIN sources
  /\ validate(capture)
  /\ incremental /\ head # None => load(head)
  /\ \E envelope \in Envelopes(capture, incremental) :
       /\ objects' = Bind(objects, envelope,
                          IF envelope \in DOMAIN objects THEN objects[envelope] + 1 ELSE 1)
       /\ snapshots' = insert_brain_snapshot(envelope)
       /\ head' = envelope
  /\ made' = made + 1
  /\ UNCHANGED <<store, sources, exports, tasks, born, handed, gone, credit, recreates>>

\* Another snapshot becomes the head: the newest, of which several can have
\* the same second.
delete(s) ==
  /\ Starts /\ s \in DOMAIN snapshots
  /\ LET hash == brain_snapshot(s)
         rest == RestrictDomain(snapshots, LAMBDA r : r # s)
     IN /\ snapshots' = rest
        /\ objects' = Released(objects, hash)
        /\ IF head # None /\ head # hash THEN UNCHANGED head
           ELSE IF rest = << >> THEN head' = None
           ELSE \E r \in DOMAIN rest : head' = rest[r].blob_hash
  /\ UNCHANGED <<store, sources, exports, tasks, history, recreates>>

export(s) ==
  /\ Starts /\ s \in DOMAIN snapshots
  /\ load(brain_snapshot(s))
  /\ exports' = exports \union {HashOf(brain_snapshot(s))}
  /\ UNCHANGED <<store, blobs, snapshots, head, tasks, history, recreates>>

-----------------------------------------------------------------------------
(* Restoring: the state is read first, and committed in a transaction.      *)

load_payload(s) ==
  /\ Starts /\ pending = None /\ restores < MaxRestores
  /\ s \in DOMAIN snapshots
  /\ load(brain_snapshot(s))
  /\ pending' = [state |-> HashOf(brain_snapshot(s)), snapshot |-> s]
  /\ UNCHANGED <<store, blobs, points, writing, forgetting, query, history, recreates>>

import(state) ==
  /\ Starts /\ pending = None /\ restores < MaxRestores
  /\ pending' = [state |-> state, snapshot |-> 0]
  /\ UNCHANGED <<store, blobs, points, writing, forgetting, query, history, recreates>>

Live(id) == {r \in tables.memories : r.id = id}

\* Mutant: only the snapshots of this database are suspected.
Removed_LocalOnly(id) == pending.snapshot \in DOMAIN snapshots

\* A memory that is not there any more comes back hidden, if this database
\* knows it.
Removed(id) == ledger[id] > 0 \/ pending.snapshot \in DOMAIN snapshots

\* Mutant: the historical row as it was.
Merged_Historical(row) ==
  IF Live(row.id) = {} THEN [row EXCEPT !.tombstoned = @ \/ Removed(row.id)] ELSE row

\* The historical row under the restrictions of the live one.
Merged(row) ==
  IF Live(row.id) = {}
  THEN [row EXCEPT !.tombstoned = @ \/ Removed(row.id)]
  ELSE LET live == Row(tables.memories, row.id)
       IN [row EXCEPT !.limits = @ \union live.limits,
                      !.tombstoned = @ \/ live.tombstoned]

LivePolicies ==
  {p \in tables.policies : p.id \in Handles \intersect ids(pending.state.tables.memories)}

\* Mutant: the events of the snapshot replace the live ones.
Replacement_PastEvents ==
  LET past == pending.state.tables
  IN [memories |-> {Merged(row) : row \in past.memories},
      policies |-> {p \in past.policies : p.id \notin ids(LivePolicies)} \union LivePolicies,
      events   |-> past.events]

\* No event is erased; the live policy of a restored memory stays.
Replacement ==
  LET past == pending.state.tables
  IN [memories |-> {Merged(row) : row \in past.memories},
      policies |-> {p \in past.policies : p.id \notin ids(LivePolicies)} \union LivePolicies,
      events   |-> past.events \union tables.events]

\* What stops it: another provenance, a forked history, a handle whose purge
\* is not over.
Restorable ==
  /\ \A row \in pending.state.tables.memories :
       \A live \in Live(row.id) : live.provenance = row.provenance
  /\ validate_chain(Replacement.events)
  /\ ids(Replacement.memories) \intersect ids(orphans) = {}

\* The sources of the state, without a reference when they were gone.
Reinserted ==
  [b \in DOMAIN sources \union pending.state.sources |->
     IF b \in DOMAIN sources THEN sources[b] ELSE 0]

restore ==
  /\ pending # None
  /\ pending' = None
  /\ IF Restorable
     THEN /\ tables' = [Replacement EXCEPT
                !.policies = @ \union {p \in tables.policies : p.id \notin Handles}]
          /\ highwater' = Max({highwater} \union Handles \union ids(orphans))
          /\ sources' = Reinserted
          /\ saved' = saved \union pending.state.audit
          /\ restores' = restores + 1
     ELSE UNCHANGED <<tables, highwater, sources, saved, restores>>
  /\ UNCHANGED <<orphans, ledger, objects, points, writing, forgetting, query, history,
                 recreates, ops>>

-----------------------------------------------------------------------------

\* The processes die; the statements already executed stay.
Crash ==
  /\ Starts
  /\ writing' = None /\ forgetting' = None /\ pending' = None /\ query' = None
  /\ UNCHANGED <<store, blobs, points, history, recreates>>

\* A separate database for recovery: everything but the exported files is new.
Recreate ==
  /\ Starts /\ recreates < MaxRecreates
  /\ recreates' = recreates + 1
  /\ tables' = [t \in TABLES |-> {}] /\ orphans' = {} /\ highwater' = 0
  /\ ledger' = [id \in 1..MaxMemories |-> 0] /\ saved' = {} /\ restores' = 0
  /\ sources' = << >> /\ objects' = << >> /\ snapshots' = << >> /\ head' = None
  /\ writing' = None /\ forgetting' = None /\ pending' = None /\ query' = None
  /\ handed' = {} /\ gone' = {} /\ credit' = NoCredit
  /\ UNCHANGED <<exports, born, made>>

Remembering ==
  \/ insert_memory \/ apply_memory_governance
  \/ store_blob \/ set_memory_session_blob
Asserting ==
  \/ \E m \in tables.memories, value \in BOOLEAN, s \in tables.events \union {None} :
       append_assertion(m, value, s)
  \/ read_chain \/ answer
  \/ \E e \in IF query = None THEN {} ELSE query.todo : read_evidence(e)
Forgetting ==
  \/ \E m \in tables.memories : governed_delete_memory(m)
  \/ append_forget \/ decref_memory_session_blob \/ collect
  \/ delete_memory \/ purge_memory
Snapshotting ==
  \/ \E incremental \in BOOLEAN : create(incremental)
  \/ \E s \in DOMAIN snapshots : delete(s) \/ export(s) \/ load_payload(s)
  \/ \E state \in exports : import(state)
  \/ restore

Next ==
  \/ Remembering \/ Asserting \/ Forgetting \/ Snapshotting
  \/ \E id \in 1..MaxMemories : update_memory_influence_policy(id)
  \/ run_gc \/ Crash \/ Recreate

Spec == Init /\ [][Next]_vars

-----------------------------------------------------------------------------

Rows ==
  [id : 1..MaxMemories, body : 1..MaxMemories, provenance : Provenance,
   limits : SUBSET Limit, tombstoned : BOOLEAN, session_blob : Blob \union {None}]

\* The tables keep their keys: one row and one policy for a handle, metadata
\* of a row that is gone only while it is gone, one chain of events.
TypeOK ==
  /\ tables.memories \subseteq Rows /\ orphans \subseteq Rows
  /\ \A r, s \in tables.memories \union orphans : r.id = s.id => r = s
  /\ \A p, q \in tables.policies : p.id = q.id => p = q
  /\ \A p \in tables.policies : p.version \in 1..MaxVersion
  /\ ids(tables.memories) \intersect ids(orphans) = {}
  /\ validate_chain(tables.events)
  /\ Range(sources) \subseteq Nat /\ Range(objects) \subseteq Nat

\* Every snapshot, and the head the next delta is taken on, can be loaded and
\* gives the state it was taken of, whatever was deleted and collected since.
SnapshotsLoad ==
  /\ \A s \in DOMAIN snapshots :
       load(snapshots[s].blob_hash) /\ HashOf(snapshots[s].blob_hash) = snapshots[s].taken
  /\ head # None => load(head)

\* The transcript a memory names is in the store, unless the memory was linked
\* after a row without a reference had drawn on the count: then the blob may
\* have been collected between the store and the link.
SourcesSurvive ==
  \A r \in tables.memories :
    r.session_blob # None =>
      \/ r.session_blob \in DOMAIN sources
      \/ <<r.id, r.session_blob>> \in credit.unbacked

\* The collector takes nothing that a snapshot, a delta taken on it or a memory
\* still refers to, in whichever order rows are forgotten, restored and purged.
ReferencedIsKept == SnapshotsLoad /\ SourcesSurvive

\* A memory that was removed is hidden if it ever comes back: a restored row
\* under the handle of a removed memory has a tombstone.
RemovedReturnsHidden ==
  \A r \in tables.memories : r.id \in gone => r.tombstoned

\* No memory gets the handle of one that was removed, as the mark of the
\* highest handle is there to ensure (docs/benchmarks/memory-density/README.md).
\* A restore raises the mark before it inserts its rows.
RemovedHandlesStayRetired == NextHandle \notin gone

\* The database never gives one handle to two memories.
HandlesAreStable ==
  \A h, g \in handed : h[1] = g[1] => h = g

\* An answer never calls a claim current that another one has superseded,
\* even when the evidence of the other is gone.
SupersededStaysDown ==
  query # None /\ query.todo = {} /\ current_id(query) # None =>
    \A e \in query.known : e.supersedes # current_id(query)

\* A restore lifts no restriction, no tombstone and no policy of a memory that
\* is there.
RestoreOnlyTightens ==
  [][restores' = restores + 1 =>
       \A old \in tables.memories, new \in tables'.memories :
         old.id = new.id =>
           /\ old.limits \subseteq new.limits
           /\ old.tombstoned => new.tombstoned
           /\ \A p \in tables.policies : p.id = old.id => p \in tables'.policies]_vars

\* The history of claims only grows: no restore rewinds the version the next
\* writer has to expect.
HistoryNeverShrinks ==
  [][recreates' = recreates => tables.events \subseteq tables'.events]_vars

=============================================================================
