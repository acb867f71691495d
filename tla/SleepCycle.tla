----------------------------- MODULE SleepCycle -----------------------------
(***************************************************************************)
(* Sessions, observations and their compression into narrative memories.  *)
(*                                                                         *)
(* Two kinds of process share one database:                                *)
(*   - sweepers (`ironmem sweep`, the scheduler loop) list candidates,     *)
(*     take a lease per session, and compress it;                          *)
(*   - handlers (REST/MCP session_end, compress_session) compress a        *)
(*     session on request, without looking at the lease.                   *)
(* Both run the same pipeline, compress::run.  Every database statement    *)
(* that is awaited on its own is a step of its own, a process may crash    *)
(* between any two of them, and a statement may fail.                      *)
(***************************************************************************)
EXTENDS Integers, Sequences, FiniteSets

CONSTANTS
  Session,       \* session ids
  Sweeper,       \* sweeper processes; the process stands for its owner uuid
  Handler,       \* request handlers of the REST and MCP servers
  None,          \* "no value": a missing row, an unset local
  IdleSecs,      \* compress_idle_secs
  MinObs,        \* min_observations
  Limit,         \* LIMIT of the candidate query
  LeaseSecs,     \* lease_secs
  MaxTime,       \* bound: last value of the clock
  MaxObs,        \* bound: observations per session
  MaxRequests,   \* bound: compression requests the handlers serve
  MaxFaults      \* bound: crashes and failed statements

Worker == Sweeper \cup Handler
Lease  == [owner : Sweeper, until : Int]   \* a row of sweep_leases

ASSUME ConstantsAssumption ==
  /\ IsFiniteSet(Session)
  /\ Sweeper \cap Handler = {}
  /\ None \notin Session \cup Worker \cup Lease
  /\ IdleSecs \in Nat \ {0}
  /\ MinObs \in Nat
  /\ Limit \in Nat \ {0}
  /\ LeaseSecs \in Nat \ {0}
  /\ MaxTime \in Nat /\ MaxObs \in Nat
  /\ MaxRequests \in Nat /\ MaxFaults \in Nat

VARIABLES
  now,         \* Utc::now().timestamp()
  state,       \* sessions row: None, or "open" / "ended" (ended_at set)
  started,     \* sessions.started_at
  compressed,  \* sessions.compressed
  count,       \* observations: how many rows the session has
  last,        \* observations: MAX(created_at)
  leases,      \* sweep_leases: None, or [owner, until]
  narratives,  \* memories: the narrative rows of a session, in insertion order
  events,      \* sweep_events: the outcomes recorded for a session
  pc,          \* where each process is
  subject,     \* the session it works on
  queue,       \* a sweeper's remaining candidates
  stamp,       \* try_acquire_sweep_lease's local `now`
  seen,        \* compress::run's local `observations`: how many were read
  outcome,     \* the SweepAction being returned
  requests,    \* requests served so far
  faults       \* crashes and failed statements so far

table   == <<state, started, compressed, count, last, leases, narratives, events>>
locals  == <<subject, queue, stamp, seen, outcome>>
budgets == <<requests, faults>>
vars    == <<now, table, pc, locals, budgets>>

Outcome == {"success", "leased", "already_compressed", "failed"}

\* program points at which a sweeper has acquired and not yet released
Leased == {"leased", "close", "read", "insert", "mark", "meta", "archive", "release"}

\* program points of compress::run, up to its last fallible statement
Fallible == {"leased", "close", "count", "read", "insert", "mark", "meta"}

PC == {"idle", "scan", "acquire", "count", "record"} \cup Leased

TableOK ==
  /\ state \in [Session -> {None, "open", "ended"}]
  /\ started \in [Session -> Nat]
  /\ compressed \in [Session -> BOOLEAN]
  /\ count \in [Session -> Nat]
  /\ last \in [Session -> Nat]
  /\ leases \in [Session -> Lease \cup {None}]
  /\ narratives \in [Session -> Seq(Nat)]
  /\ events \in [Session -> SUBSET Outcome]

LocalsOK ==
  /\ subject \in [Worker -> Session \cup {None}]
  /\ queue \in [Worker -> Seq(Session)]
  /\ stamp \in [Worker -> Nat]
  /\ seen \in [Worker -> Nat]
  /\ outcome \in [Worker -> Outcome]

\* Past its entry point a process works on a session.
ControlOK ==
  /\ pc \in [Worker -> PC]
  /\ \A w \in Worker : pc[w] \notin {"idle", "scan"} => subject[w] \in Session

\* Tables and locals have the shape db.rs, sweep.rs and compress.rs give them,
\* and a process past its entry point has a session.
TypeOK ==
  /\ now \in Nat /\ requests \in Nat /\ faults \in Nat
  /\ TableOK
  /\ LocalsOK
  /\ ControlOK

Init ==
  /\ now = 0
  /\ state = [s \in Session |-> None]
  /\ started = [s \in Session |-> 0]
  /\ compressed = [s \in Session |-> FALSE]
  /\ count = [s \in Session |-> 0]
  /\ last = [s \in Session |-> 0]
  /\ leases = [s \in Session |-> None]
  /\ narratives = [s \in Session |-> <<>>]
  /\ events = [s \in Session |-> {}]
  /\ pc = [w \in Worker |-> "idle"]
  /\ subject = [w \in Worker |-> None]
  /\ queue = [w \in Worker |-> <<>>]
  /\ stamp = [w \in Worker |-> 0]
  /\ seen = [w \in Worker |-> 0]
  /\ outcome = [w \in Worker |-> "failed"]
  /\ requests = 0
  /\ faults = 0

Goto(w, from, to) ==
  /\ pc[w] = from
  /\ pc' = [pc EXCEPT ![w] = to]

\* The locals of a process go out of scope.
Forget(w) ==
  /\ subject' = [subject EXCEPT ![w] = None]
  /\ stamp' = [stamp EXCEPT ![w] = 0]
  /\ seen' = [seen EXCEPT ![w] = 0]
  /\ outcome' = [outcome EXCEPT ![w] = "failed"]

-----------------------------------------------------------------------------
(* The client: it opens sessions and records tool calls.  Nothing stops it  *)
(* from recording into a session that has ended or been compressed.         *)

create_session(s) ==
  /\ state[s] = None
  /\ state' = [state EXCEPT ![s] = "open"]
  /\ started' = [started EXCEPT ![s] = now]
  /\ UNCHANGED <<now, compressed, count, last, leases, narratives, events,
                 pc, locals, budgets>>

\* Bound: an observation is recorded only early enough for the session to
\* become idle before the clock stops.
insert_observation(s) ==
  /\ state[s] # None
  /\ count[s] < MaxObs
  /\ now + IdleSecs <= MaxTime
  /\ count' = [count EXCEPT ![s] = @ + 1]
  /\ last' = [last EXCEPT ![s] = now]
  /\ UNCHANGED <<now, state, started, compressed, leases, narratives, events,
                 pc, locals, budgets>>

Tick ==
  /\ now < MaxTime
  /\ now' = now + 1
  /\ UNCHANGED <<table, pc, locals, budgets>>

-----------------------------------------------------------------------------
(* The compression sweep.                                                   *)

IsCandidate(s) ==
  /\ state[s] # None
  /\ ~compressed[s]
  /\ count[s] > 0
  /\ count[s] >= MinObs \/ last[s] <= now - IdleSecs

\* ORDER BY last_activity_at, started_at; the database breaks ties.
Before(s, t) ==
  \/ last[s] < last[t]
  \/ last[s] = last[t] /\ started[s] < started[t]

\* The results the candidate query may return.
list_sweep_candidates ==
  LET found == {s \in Session : IsCandidate(s)}
      size  == IF Cardinality(found) < Limit THEN Cardinality(found) ELSE Limit
  IN {q \in [1..size -> found] :
        /\ \A i, j \in 1..size : i < j => q[i] # q[j] /\ ~Before(q[j], q[i])
        /\ \A s \in found : (\A i \in 1..size : q[i] # s)
                               => \A i \in 1..size : ~Before(s, q[i])}

StartSweep(w) ==
  /\ Goto(w, "idle", "scan")
  /\ \E s \in Session : IsCandidate(s)
  /\ \E q \in list_sweep_candidates : queue' = [queue EXCEPT ![w] = q]
  /\ UNCHANGED <<now, table, subject, stamp, seen, outcome, budgets>>

EndSweep(w) ==
  /\ Goto(w, "scan", "idle")
  /\ queue[w] = <<>>
  /\ UNCHANGED <<now, table, locals, budgets>>

\* Mutant: an expired lease is never dropped.
ExpireLease_Never(w) ==
  /\ Goto(w, "scan", "acquire")
  /\ queue[w] # <<>>
  /\ subject' = [subject EXCEPT ![w] = Head(queue[w])]
  /\ queue' = [queue EXCEPT ![w] = Tail(@)]
  /\ stamp' = [stamp EXCEPT ![w] = now]
  /\ UNCHANGED <<now, table, seen, outcome, budgets>>

\* try_acquire_sweep_lease, first statement: drop the row if it has expired.
ExpireLease(w) ==
  /\ Goto(w, "scan", "acquire")
  /\ queue[w] # <<>>
  /\ LET s == Head(queue[w]) IN
       /\ subject' = [subject EXCEPT ![w] = s]
       /\ leases' = IF leases[s] # None /\ leases[s].until <= now
                      THEN [leases EXCEPT ![s] = None]
                      ELSE leases
  /\ queue' = [queue EXCEPT ![w] = Tail(@)]
  /\ stamp' = [stamp EXCEPT ![w] = now]
  /\ UNCHANGED <<now, state, started, compressed, count, last, narratives,
                 events, seen, outcome, budgets>>

\* Second statement: the INSERT meets the primary key on session_id.
InsertLease(w) ==
  /\ Goto(w, "acquire", "leased")
  /\ leases[subject[w]] = None
  /\ leases' = [leases EXCEPT ![subject[w]] =
                  [owner |-> w, until |-> stamp[w] + LeaseSecs]]
  /\ UNCHANGED <<now, state, started, compressed, count, last, narratives,
                 events, locals, budgets>>

SkipLeased(w) ==
  /\ Goto(w, "acquire", "record")
  /\ leases[subject[w]] # None
  /\ outcome' = [outcome EXCEPT ![w] = "leased"]
  /\ UNCHANGED <<now, table, subject, queue, stamp, seen, budgets>>

\* Mutant: the candidate row is trusted, the session is not read again.
Recheck_Trusting(w) ==
  /\ Goto(w, "leased", "close")
  /\ UNCHANGED <<now, table, locals, budgets>>

\* run_one_compression reads the session again, now under the lease.  No code
\* deletes sessions, so its "missing_session" answer does not occur.
Recheck(w) ==
  /\ \/ /\ Goto(w, "leased", "release")
        /\ compressed[subject[w]]
        /\ outcome' = [outcome EXCEPT ![w] = "already_compressed"]
     \/ /\ Goto(w, "leased", "close")
        /\ ~compressed[subject[w]]
        /\ UNCHANGED outcome
  /\ UNCHANGED <<now, table, subject, queue, stamp, seen, budgets>>

end_session_if_open(w) ==
  /\ Goto(w, "close", "read")
  /\ state' = [state EXCEPT ![subject[w]] = "ended"]
  /\ UNCHANGED <<now, started, compressed, count, last, leases, narratives,
                 events, locals, budgets>>

\* Mutant: the DELETE forgets its owner condition.
release_sweep_lease_Any(w) ==
  /\ Goto(w, "release", "record")
  /\ leases' = [leases EXCEPT ![subject[w]] = None]
  /\ UNCHANGED <<now, state, started, compressed, count, last, narratives,
                 events, locals, budgets>>

\* DELETE ... WHERE session_id AND owner; a failed delete is only logged, and
\* the row stays until it expires (bound: early enough for that).
release_sweep_lease(w) ==
  /\ Goto(w, "release", "record")
  /\ LET s == subject[w] IN
       \/ /\ leases' = IF leases[s] # None /\ leases[s].owner = w
                         THEN [leases EXCEPT ![s] = None]
                         ELSE leases
          /\ UNCHANGED faults
       \/ /\ faults < MaxFaults
          /\ now + LeaseSecs <= MaxTime
          /\ faults' = faults + 1
          /\ UNCHANGED leases
  /\ UNCHANGED <<now, state, started, compressed, count, last, narratives,
                 events, locals, requests>>

record_action(w) ==
  /\ Goto(w, "record", "scan")
  /\ events' = [events EXCEPT ![subject[w]] = @ \cup {outcome[w]}]
  /\ Forget(w)
  /\ UNCHANGED <<now, state, started, compressed, count, last, leases,
                 narratives, queue, budgets>>

-----------------------------------------------------------------------------
(* Requests: session_end closes the session and compresses it when it has   *)
(* observations; compress_session goes straight to the pipeline.            *)

session_end(w, s) ==
  /\ state[s] # None
  /\ requests < MaxRequests
  /\ Goto(w, "idle", "count")
  /\ state' = [state EXCEPT ![s] = "ended"]
  /\ subject' = [subject EXCEPT ![w] = s]
  /\ requests' = requests + 1
  /\ UNCHANGED <<now, started, compressed, count, last, leases, narratives,
                 events, queue, stamp, seen, outcome, faults>>

CountObservations(w) ==
  /\ \/ /\ Goto(w, "count", "idle")
        /\ count[subject[w]] = 0
        /\ Forget(w)
     \/ /\ Goto(w, "count", "read")
        /\ count[subject[w]] > 0
        /\ UNCHANGED <<subject, stamp, seen, outcome>>
  /\ UNCHANGED <<now, table, queue, budgets>>

compress_session(w, s) ==
  /\ state[s] # None
  /\ requests < MaxRequests
  /\ Goto(w, "idle", "read")
  /\ subject' = [subject EXCEPT ![w] = s]
  /\ requests' = requests + 1
  /\ UNCHANGED <<now, table, queue, stamp, seen, outcome, faults>>

-----------------------------------------------------------------------------
(* compress::run                                                            *)

\* Mutant: the session is marked before there is a memory of it.
ReadObservations_MarksFirst(w) ==
  /\ Goto(w, "read", "insert")
  /\ seen' = [seen EXCEPT ![w] = count[subject[w]]]
  /\ compressed' = [compressed EXCEPT ![subject[w]] = TRUE]
  /\ UNCHANGED <<now, state, started, count, last, leases, narratives, events,
                 subject, queue, stamp, outcome, budgets>>

\* The observations are read once.  When the provider is asked and fails, the
\* deterministic local result takes its place, so there always is a narrative.
ReadObservations(w) ==
  /\ Goto(w, "read", "insert")
  /\ seen' = [seen EXCEPT ![w] = count[subject[w]]]
  /\ UNCHANGED <<now, table, subject, queue, stamp, outcome, budgets>>

insert_memory(w) ==
  /\ Goto(w, "insert", "mark")
  /\ narratives' = [narratives EXCEPT ![subject[w]] =
       Append(@, seen[w])]
  /\ UNCHANGED <<now, state, started, compressed, count, last, leases, events,
                 subject, queue, stamp, seen, outcome, budgets>>

mark_compressed(w) ==
  /\ Goto(w, "mark", "meta")
  /\ compressed' = [compressed EXCEPT ![subject[w]] = TRUE]
  /\ UNCHANGED <<now, state, started, count, last, leases, narratives,
                 events, locals, budgets>>

\* upsert_memory_meta and set_memory_scope_kind, then the best-effort writes
\* (governance, skim, embedding, entities, edges, procedures, facts).
DescribeMemory(w) ==
  /\ Goto(w, "meta", "archive")
  /\ UNCHANGED <<now, table, locals, budgets>>

\* store_session_transcript, the skim, the extraction receipt, correction
\* mining and the observer: an error is logged and the compression succeeds.
ArchiveTranscript(w) ==
  /\ \/ /\ Goto(w, "archive", "release")
        /\ w \in Sweeper
        /\ outcome' = [outcome EXCEPT ![w] = "success"]
        /\ UNCHANGED <<subject, stamp, seen>>
     \/ /\ Goto(w, "archive", "idle")
        /\ w \in Handler
        /\ Forget(w)
  /\ UNCHANGED <<now, table, queue, budgets>>

-----------------------------------------------------------------------------
(* Failure.                                                                 *)

\* Mutant: the sweep reports a failed compression as a success.
StatementFails_Swallowed(w) ==
  /\ pc[w] \in Fallible
  /\ faults < MaxFaults
  /\ faults' = faults + 1
  /\ w \in Sweeper
  /\ pc' = [pc EXCEPT ![w] = "release"]
  /\ outcome' = [outcome EXCEPT ![w] = "success"]
  /\ UNCHANGED <<now, table, subject, stamp, seen, queue, requests>>

\* A statement followed by `?` fails: a sweeper releases and records the
\* failure, a handler answers with the error.
StatementFails(w) ==
  /\ pc[w] \in Fallible
  /\ faults < MaxFaults
  /\ faults' = faults + 1
  /\ \/ /\ w \in Sweeper
        /\ pc' = [pc EXCEPT ![w] = "release"]
        /\ outcome' = [outcome EXCEPT ![w] = "failed"]
        /\ UNCHANGED <<subject, stamp, seen>>
     \/ /\ w \in Handler
        /\ pc' = [pc EXCEPT ![w] = "idle"]
        /\ Forget(w)
  /\ UNCHANGED <<now, table, queue, requests>>

\* try_acquire_sweep_lease and record_action are followed by `?` in the loop
\* itself: their failure returns from the sweep, the other candidates with it.
SweepAborts(w) ==
  /\ pc[w] \in {"scan", "acquire", "record"}
  /\ faults < MaxFaults
  /\ faults' = faults + 1
  /\ pc' = [pc EXCEPT ![w] = "idle"]
  /\ queue' = [queue EXCEPT ![w] = <<>>]
  /\ Forget(w)
  /\ UNCHANGED <<now, table, requests>>

\* The process dies, or the client of a handler disconnects and the request is
\* dropped at the await: its locals are gone, its lease row stays.  Bound: only
\* early enough for that lease to expire before the clock stops.
Crash(w) ==
  /\ pc[w] # "idle"
  /\ faults < MaxFaults
  /\ now + LeaseSecs <= MaxTime
  /\ faults' = faults + 1
  /\ pc' = [pc EXCEPT ![w] = "idle"]
  /\ queue' = [queue EXCEPT ![w] = <<>>]
  /\ Forget(w)
  /\ UNCHANGED <<now, table, requests>>

-----------------------------------------------------------------------------
Compress(w) ==
  \/ ReadObservations(w) \/ insert_memory(w) \/ mark_compressed(w)
  \/ DescribeMemory(w) \/ ArchiveTranscript(w)

SweepStep(w) ==
  \/ StartSweep(w) \/ EndSweep(w)
  \/ ExpireLease(w) \/ InsertLease(w) \/ SkipLeased(w)
  \/ Recheck(w) \/ end_session_if_open(w)
  \/ release_sweep_lease(w) \/ record_action(w)

Request(w) == \E s \in Session : session_end(w, s) \/ compress_session(w, s)

Client == \E s \in Session : create_session(s) \/ insert_observation(s)

Fault(w) == StatementFails(w) \/ SweepAborts(w) \/ Crash(w)

Next ==
  \/ Client
  \/ Tick
  \/ \E w \in Sweeper : SweepStep(w)
  \/ \E w \in Handler : Request(w) \/ CountObservations(w)
  \/ \E w \in Worker : Compress(w) \/ Fault(w)

Spec == Init /\ [][Next]_vars

(***************************************************************************)
(* Fairness: time passes, the scheduler loop keeps sweeping, and a process *)
(* that has not crashed finishes what it started.  Clients and requests    *)
(* owe nothing.                                                            *)
(***************************************************************************)
Fairness ==
  /\ WF_vars(Tick)
  /\ \A w \in Sweeper : WF_vars(SweepStep(w))
  /\ \A w \in Worker : WF_vars(Compress(w))
  /\ \A w \in Handler : WF_vars(CountObservations(w))

FairSpec == Spec /\ Fairness

-----------------------------------------------------------------------------
(* Properties.                                                              *)

\* The sweeper believes it owns the lease of its subject, and the lease it
\* took has not run out.
HoldsLease(w) == pc[w] \in Leased /\ now < stamp[w] + LeaseSecs

\* A second sweeper cannot acquire an active lease: while a sweeper's lease
\* has not expired its row is still there, untouched by the expiry DELETE, the
\* INSERT and the release of every other sweeper, however late they run.
LeaseIntact ==
  \A w \in Sweeper :
    HoldsLease(w) =>
      leases[subject[w]] = [owner |-> w, until |-> stamp[w] + LeaseSecs]

\* Hence two sweepers never both hold an unexpired lease on one session.
LeaseExclusion ==
  \A v, w \in Sweeper :
    v # w /\ HoldsLease(v) /\ HoldsLease(w) => subject[v] # subject[w]

\* persist() inserts the memory before it marks the session: whatever crashes
\* or fails, a session marked compressed has a narrative memory (otherwise the
\* sweep would skip it for ever and the session would be lost).
CompressedHasNarrative ==
  \A s \in Session : compressed[s] => narratives[s] # <<>>

\* An audit row says "success" only for a session that was compressed, and
\* "already_compressed" likewise.
AuditIsTrue ==
  \A s \in Session :
    events[s] \cap {"success", "already_compressed"} # {} => compressed[s]

\* The sweep is idempotent: however sweepers interleave and however stale their
\* candidate lists are, a session gets one narrative memory.  (As long as no
\* lease has run out, no statement failed, nobody crashed and nobody asked for
\* a compression by hand: each of these does produce a second one.)
OneNarrativePerSession ==
  faults = 0 /\ requests = 0 /\ now < LeaseSecs =>
    \A s \in Session : Len(narratives[s]) <= 1

\* The compression of s has read its observations and not yet marked it.
InFlight(s) ==
  \E w \in Worker : pc[w] \in {"insert", "mark"} /\ subject[w] = s

Covered(s, n) == \E i \in DOMAIN narratives[s] : narratives[s][i] >= n

\* What the sleep cycle owes its client: an observation recorded into a session
\* that is not compressed, and whose compression has not already read past it,
\* is eventually summarised, through crashes, failures and orphaned leases.
ObservationsAreCompressed ==
  \A s \in Session : \A n \in 1..MaxObs :
    (count[s] >= n /\ ~compressed[s] /\ ~InFlight(s)) ~> Covered(s, n)
=============================================================================
