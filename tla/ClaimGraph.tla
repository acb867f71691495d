----------------------------- MODULE ClaimGraph -----------------------------
(***************************************************************************)
(* A relation of a source, extracted from memories, and its contradiction  *)
(* set.  `insert_memory_edge` stores an edge, records its competitors in   *)
(* the set and retires older edges, in autocommitted statements that other *)
(* calls interleave with; an operator reviews the set in transactions, and *)
(* a maintenance command reconciles old edges.  Claims share no rows, so   *)
(* the module has one; its memories exist, with metadata in one namespace  *)
(* and scope, before the first edge does.                                  *)
(***************************************************************************)
EXTENDS Naturals, Sequences, FiniteSets

CONSTANTS
  Memory,      \* memory ids; each memory asserts the relation once
  TargetOf,
  MayClose,    \* the memories whose relation may come with a valid_until
  Recorded,    \* the memory whose edge is there from the start, if any
  Relation,
  Single,      \* relations of relation_cardinality Single
  Current,     \* relations of is_current_state_relation
  Operator,
  None,
  MaxReviews,  \* bound: times the operator creates or updates the set
  MaxFaults    \* bound: calls that fail or die

ASSUME ConstantsAssumption ==
  /\ Memory \subseteq Nat /\ IsFiniteSet(Memory)
  /\ MayClose \subseteq Memory /\ Recorded \subseteq Memory \ MayClose
  /\ \A m, n \in Recorded : m = n
  /\ Single \subseteq Relation /\ Current \subseteq Relation
  /\ Operator \notin Memory /\ None \notin Memory \union {Operator}
  /\ MaxReviews \in Nat /\ MaxFaults \in Nat

VARIABLES
  relation,      \* which relation it is
  closed,        \* the memories that give it a valid_until
  inserted,      \* memory_edges in the order of their ids
  supersededBy,
  status,        \* of the row in contradiction_sets; "none" without one
  version,
  founder,       \* whose row it is: `id` is equal to that call's proposed_id
  members,       \* contradiction_members
  reported,      \* the members that ledger entries name
  seen,          \* history: the members the operator had read at the last update
  pc,            \* of the call that inserts a memory's edge
  competing,     \* memory_ids of the call
  queue,         \* the members it has still to insert
  added,         \* inserted > 0
  overlapped,    \* history: two calls have been in flight at a time
  view,          \* the set as the operator has read it
  reviews,
  sweep,         \* the reconciliation of old edges
  faults

given     == <<relation, closed>>
edges     == <<given, inserted, supersededBy>>
set       == <<status, version, founder, members, reported, seen>>
calls     == <<pc, competing, queue, added, overlapped>>
reviewing == <<view, reviews>>
vars      == <<edges, set, calls, reviewing, sweep, faults>>

Statuses  == {"unresolved", "settled", "obsolete"}    \* settled: preferred or resolved
InFlight  == {"detect", "found", "member", "reopen", "report", "duplicate", "supersede"}
Unread    == [version |-> 0, members |-> {}]
Link      == Memory \X Memory

TypeOK ==
  /\ relation \in Relation /\ closed \subseteq MayClose
  /\ inserted \in Seq(Memory)
  /\ supersededBy \in [Memory -> Memory \union {None}]
  /\ status \in Statuses \union {"none"}
  /\ status = "none" => members = {}
  /\ version \in Nat
  /\ founder \in Memory \union {Operator, None}
  /\ members \subseteq Memory /\ reported \subseteq Memory /\ seen \subseteq Memory
  /\ pc \in [Memory -> InFlight \union {"new", "done", "failed"}]
  /\ competing \in [Memory -> SUBSET Memory]
  /\ queue \in [Memory -> SUBSET Memory]
  /\ added \in [Memory -> BOOLEAN]
  /\ overlapped \in BOOLEAN
  /\ view \in [version : Nat, members : SUBSET Memory]
  /\ reviews \in 0..MaxReviews
  /\ sweep \in [stage : {"idle", "apply", "done", "failed"}, scanned : Nat,
                duplicates : SUBSET Link, updates : SUBSET Link]
  /\ faults \in 0..MaxFaults

Stored      == {inserted[i] : i \in 1..Len(inserted)}
Active      == {m \in Stored : supersededBy[m] = None}
SameTarget(m)  == {n \in Active : TargetOf[n] = TargetOf[m]}
OtherTarget(m) == {n \in Active : TargetOf[n] # TargetOf[m]}
Newer(m, n) == \E i, j \in 1..Len(inserted) : i > j /\ inserted[i] = m /\ inserted[j] = n
IsNewest(m, S) == m \in S /\ \A n \in S \ {m} : Newer(m, n)
IsLeast(m, S)  == m \in S /\ \A n \in S : m <= n
Running     == {m \in Memory : pc[m] \in InFlight}

Init ==
  /\ relation \in Relation /\ closed \in SUBSET MayClose
  /\ inserted = IF Recorded = {} THEN <<>> ELSE <<CHOOSE m \in Recorded : TRUE>>
  /\ supersededBy = [m \in Memory |-> None]
  /\ status = "none" /\ version = 0 /\ founder = None
  /\ members = {} /\ reported = {} /\ seen = {}
  /\ pc = [m \in Memory |-> IF m \in Recorded THEN "done" ELSE "new"]
  /\ competing = [m \in Memory |-> {}]
  /\ queue = [m \in Memory |-> {}]
  /\ added = [m \in Memory |-> FALSE]
  /\ overlapped = FALSE
  /\ view = Unread
  /\ reviews = 0
  /\ sweep = [stage |-> "idle", scanned |-> 0, duplicates |-> {}, updates |-> {}]
  /\ faults = 0

-----------------------------------------------------------------------------
(* insert_memory_edge. *)

GoTo(m, stage) == pc' = [pc EXCEPT ![m] = stage]

InsertEdge(m) ==
  /\ pc[m] = "new"
  /\ inserted' = Append(inserted, m)
  /\ overlapped' = (overlapped \/ Running # {})
  /\ GoTo(m, IF relation \in Single /\ m \notin closed THEN "detect" ELSE "duplicate")
  /\ UNCHANGED <<given, supersededBy, set, competing, queue, added, reviewing, sweep,
                 faults>>

\* The edges with other targets that are active now.
detect_graph_contradiction(m) ==
  /\ pc[m] = "detect"
  /\ IF OtherTarget(m) = {}
     THEN GoTo(m, "duplicate") /\ UNCHANGED <<competing, queue>>
     ELSE /\ competing' = [competing EXCEPT ![m] = OtherTarget(m) \union {m}]
          /\ queue' = [queue EXCEPT ![m] = competing'[m]]
          /\ GoTo(m, "found")
  /\ UNCHANGED <<edges, set, added, overlapped, reviewing, sweep, faults>>

\* Mutant: the row that is there counts as the whole set.
FoundSet_ExistingIsComplete(m) ==
  /\ pc[m] = "found"
  /\ IF status # "none" THEN GoTo(m, "duplicate") /\ UNCHANGED <<status, version, founder>>
     ELSE status' = "unresolved" /\ version' = 1 /\ founder' = m /\ GoTo(m, "member")
  /\ UNCHANGED <<edges, members, reported, seen, competing, queue, added, overlapped,
                 reviewing, sweep, faults>>

\* INSERT ... ON CONFLICT DO NOTHING, and the id of the row that is there.
FoundSet(m) ==
  /\ pc[m] = "found"
  /\ IF status # "none" THEN UNCHANGED <<status, version, founder>>
     ELSE status' = "unresolved" /\ version' = 1 /\ founder' = m
  /\ GoTo(m, "member")
  /\ UNCHANGED <<edges, members, reported, seen, competing, queue, added, overlapped,
                 reviewing, sweep, faults>>

InsertMember(m) ==
  /\ pc[m] = "member"
  /\ \E n \in queue[m] :
       /\ IsLeast(n, queue[m])
       /\ members' = members \union {n}
       /\ added' = [added EXCEPT ![m] = @ \/ n \notin members]
       /\ queue' = [queue EXCEPT ![m] = @ \ {n}]
  /\ GoTo(m, IF queue'[m] # {} THEN "member" ELSE IF added'[m] THEN "reopen" ELSE "duplicate")
  /\ UNCHANGED <<edges, status, version, founder, reported, seen, competing, overlapped,
                 reviewing, sweep, faults>>

\* UPDATE ... WHERE id = the set's AND id <> proposed_id.
ReopenSet(m) ==
  /\ pc[m] = "reopen"
  /\ IF founder # m THEN status' = "unresolved" /\ version' = version + 1
     ELSE UNCHANGED <<status, version>>
  /\ GoTo(m, "report")
  /\ UNCHANGED <<edges, founder, members, reported, seen, competing, queue, added,
                 overlapped, reviewing, sweep, faults>>

append_memory_ledger(m) ==
  /\ pc[m] = "report"
  /\ reported' = reported \union competing[m]
  /\ GoTo(m, "duplicate")
  /\ UNCHANGED <<edges, status, version, founder, members, seen, competing, queue, added,
                 overlapped, reviewing, sweep, faults>>

Superseding(m, S) ==
  supersededBy' = [n \in Memory |-> IF n \in S THEN m ELSE supersededBy[n]]

\* Mutant: id <> new_id is missing.
SupersedeDuplicates_Itself(m) ==
  /\ pc[m] = "duplicate"
  /\ Superseding(m, SameTarget(m))
  /\ GoTo(m, IF relation \in Current /\ m \notin closed THEN "supersede" ELSE "done")
  /\ UNCHANGED <<given, inserted, set, competing, queue, added, overlapped, reviewing,
                 sweep, faults>>

\* Edges with one target have one valid_from here.
SupersedeDuplicates(m) ==
  /\ pc[m] = "duplicate"
  /\ Superseding(m, SameTarget(m) \ {m})
  /\ GoTo(m, IF relation \in Current /\ m \notin closed THEN "supersede" ELSE "done")
  /\ UNCHANGED <<given, inserted, set, competing, queue, added, overlapped, reviewing,
                 sweep, faults>>

SupersedeState(m) ==
  /\ pc[m] = "supersede"
  /\ Superseding(m, OtherTarget(m))
  /\ GoTo(m, "done")
  /\ UNCHANGED <<given, inserted, set, competing, queue, added, overlapped, reviewing,
                 sweep, faults>>

\* A statement fails, or the process dies; no caller tries again.
CallFails(m) ==
  /\ pc[m] \in InFlight
  /\ faults < MaxFaults
  /\ faults' = faults + 1
  /\ GoTo(m, "failed")
  /\ UNCHANGED <<edges, set, competing, queue, added, overlapped, reviewing, sweep>>

insert_memory_edge(m) ==
  \/ InsertEdge(m)
  \/ detect_graph_contradiction(m)
  \/ FoundSet(m)
  \/ InsertMember(m)
  \/ ReopenSet(m)
  \/ append_memory_ledger(m)
  \/ SupersedeDuplicates(m)
  \/ SupersedeState(m)
  \/ CallFails(m)

-----------------------------------------------------------------------------
(* The operator. *)

\* Any two memories or more that exist.
create_contradiction_set(S) ==
  /\ reviews < MaxReviews
  /\ Cardinality(S) >= 2
  /\ status = "none"
  /\ status' = "unresolved" /\ version' = 1 /\ founder' = Operator
  /\ members' = S
  /\ reported' = reported \union S
  /\ reviews' = reviews + 1
  /\ UNCHANGED <<edges, seen, calls, view, sweep, faults>>

get_contradiction_set ==
  /\ status # "none"
  /\ reviews < MaxReviews
  /\ view' = [version |-> version, members |-> members]
  /\ UNCHANGED <<edges, set, calls, reviews, sweep, faults>>

\* Mutant: the version is not compared.
update_contradiction_set_Unchecked(s) ==
  /\ view # Unread /\ reviews < MaxReviews
  /\ s = "settled" => members # {}
  /\ status' = s
  /\ version' = version + 1
  /\ seen' = view.members
  /\ view' = Unread
  /\ reviews' = reviews + 1
  /\ UNCHANGED <<edges, founder, members, reported, calls, sweep, faults>>

\* A settled set names a preferred memory among its members.
update_contradiction_set(s) ==
  /\ view # Unread /\ reviews < MaxReviews
  /\ version = view.version
  /\ s = "settled" => members # {}
  /\ status' = s
  /\ version' = version + 1
  /\ seen' = view.members
  /\ view' = Unread
  /\ reviews' = reviews + 1
  /\ UNCHANGED <<edges, founder, members, reported, calls, sweep, faults>>

Review ==
  \/ \E S \in SUBSET Memory : create_contradiction_set(S)
  \/ get_contradiction_set
  \/ \E s \in Statuses : update_contradiction_set(s)

-----------------------------------------------------------------------------
(* reconcile_memory_graph: plans over one read of the edges, then updates. *)

DuplicateUpdates ==
  {u \in Active \X Active : u[1] # u[2] /\ IsNewest(u[2], SameTarget(u[1]))}

\* Mutant: the comparison of targets is inverted.
StateUpdates_SameTarget ==
  LET Rest == {m \in Active \ closed : \A u \in DuplicateUpdates : u[1] # m} IN
  {u \in Rest \X Rest : /\ relation \in Current /\ IsNewest(u[2], Rest)
                        /\ u[1] # u[2] /\ TargetOf[u[1]] = TargetOf[u[2]]}

\* The newest open edge of a current-state relation retires other values.
StateUpdates ==
  LET Rest == {m \in Active \ closed : \A u \in DuplicateUpdates : u[1] # m} IN
  {u \in Rest \X Rest : /\ relation \in Current /\ IsNewest(u[2], Rest)
                        /\ TargetOf[u[1]] # TargetOf[u[2]]}

PlanReconcile ==
  /\ sweep.stage = "idle"
  /\ sweep' = [stage |-> "apply", scanned |-> Len(inserted),
               duplicates |-> DuplicateUpdates, updates |-> StateUpdates]
  /\ UNCHANGED <<edges, set, calls, reviewing, faults>>

\* UPDATE ... WHERE id = the edge's AND superseded_by IS NULL.
ApplyUpdate ==
  /\ sweep.stage = "apply"
  /\ \E u \in IF sweep.duplicates # {} THEN sweep.duplicates ELSE sweep.updates :
       /\ Superseding(u[2], {u[1]} \intersect Active)
       /\ sweep' = [sweep EXCEPT !.duplicates = @ \ {u}, !.updates = @ \ {u}]
  /\ UNCHANGED <<given, inserted, set, calls, reviewing, faults>>

EndReconcile ==
  /\ sweep.stage = "apply"
  /\ sweep.duplicates = {} /\ sweep.updates = {}
  /\ sweep' = [sweep EXCEPT !.stage = "done"]
  /\ UNCHANGED <<edges, set, calls, reviewing, faults>>

ReconcileFails ==
  /\ sweep.stage = "apply"
  /\ faults < MaxFaults
  /\ faults' = faults + 1
  /\ sweep' = [sweep EXCEPT !.stage = "failed", !.duplicates = {}, !.updates = {}]
  /\ UNCHANGED <<edges, set, calls, reviewing>>

reconcile_memory_graph == PlanReconcile \/ ApplyUpdate \/ EndReconcile \/ ReconcileFails

Next ==
  \/ \E m \in Memory : insert_memory_edge(m)
  \/ Review
  \/ reconcile_memory_graph

Spec == Init /\ [][Next]_vars

-----------------------------------------------------------------------------
(* Properties. *)

Quiet == Running = {}

\* Two calls that succeed cannot both miss the other's edge: whichever reads last
\* finds the first (detect_graph_contradiction reads after its own insert).
CompetitorsAreMembers ==
  relation \in Single =>
    \A m, n \in Active \ closed :
      TargetOf[m] # TargetOf[n] /\ pc[m] = "done" /\ pc[n] = "done" => {m, n} \subseteq members

\* A review does not outlive the arrival of a member the operator had not read:
\* either the version check refuses the review or the call reopens the set.  It is
\* not true of a set that a call founded: that call's UPDATE leaves its own row
\* alone (id <> proposed_id), reviewed in the meantime or not.
UnseenMemberReopens ==
  faults = 0 /\ Quiet /\ founder \notin Memory /\ status \in Statuses \ {"unresolved"}
  => members \subseteq seen

\* The ledger names the members of the set, whichever of the racing calls
\* happened to insert them (ensure_graph_contradiction_set).
MembersAreReported ==
  faults = 0 /\ Quiet => reported = members

LatestIsCurrent ==
  /\ \E m \in Active : IsNewest(m, Stored)
  /\ \A m, n \in Active \ closed : TargetOf[m] = TargetOf[n]

\* Calls that do not overlap leave the latest relation active, and active open
\* edges agree, whatever the reconciliation does meanwhile.
CurrentFactIsLatest ==
  faults = 0 /\ Quiet /\ ~overlapped /\ relation \in Current /\ Stored # {} => LatestIsCurrent

\* Whatever calls left behind, a finished reconciliation that nothing was
\* inserted under leaves no duplicates and one open value of a current state.
ReconcileConverges ==
  sweep.stage = "done" /\ sweep.scanned = Len(inserted) =>
    \A m, n \in Active : m # n =>
      /\ TargetOf[m] # TargetOf[n]
      /\ relation \in Current => {m, n} \intersect closed # {}
=============================================================================
