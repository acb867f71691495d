------------------------------- MODULE Search -------------------------------
(***************************************************************************)
(* Hybrid retrieval: a search fuses a full-text list with the lists of the *)
(* other signals, keeps inferences out, reserves places for exact facts    *)
(* and for narratives, and materializes what it chose.  A reranked search  *)
(* does this twice, for the asked number of memories and for a wider pool, *)
(* and lets a model reorder both; a multi-hop search repeats it with the   *)
(* follow-up queries the model names.  Every read of the store is a step:  *)
(* memories are written, in the three statements of a remember, and        *)
(* forgotten in between, and any read may fail.                            *)
(***************************************************************************)
EXTENDS Integers, Sequences, SequencesExt, FiniteSetsExt, TLC

CONSTANTS
  Memories,
  Stored,              \* memories governed before the search
  Kind, Home,          \* the kind and the namespace a memory is governed with
  SourceLinked,        \* memories whose tags or text name a source
  Synthesized,         \* memories whose text or tags say derived
  OffTopic,            \* memories the abstention guard drops
  Unrelated,           \* memories that share no term with the question
  Dated,               \* memories with an event time
  Ends,                \* the entities a memory's edges join
  Named,               \* the entities of the query
  GraphChainDepth,
  Outdated,            \* pairs: an edge of the first is superseded by the second's
  Bonus,               \* trust, tier and activation nudge of each memory
  StaleDemotionWeight,
  Here,                \* the namespace of the search
  Route,               \* QueryRoute
  Auxiliary,           \* bound: the signals that add a list of their own
  TemporalFusionWeight, ChunkFusionWeight, TierEarlyExit,
  RRF_K,
  Scale,               \* a common multiple of the ranks' denominators
  SOURCE_FACT_FLOOR_MAX_SLOTS,
  DepthFactor, DepthFloor,   \* the depth of a signal's list: 5 and 50
  FloorFactor,               \* one floor place for this many: 5
  Limit, RerankPool, MaxHops,
  MaxForgotten, MaxFailures  \* bounds

Larger(a, b) == IF a >= b THEN a ELSE b
Smaller(a, b) == IF a <= b THEN a ELSE b

\* The orders in which up to depth members of a set may be listed.
Lists(set, depth) ==
  {list \in UNION {[1 .. n -> set] : n \in 0 .. Smaller(depth, Cardinality(set))} :
     IsInjective(list)}

Signals == {"vector", "variant_fts", "variant_vector", "event_year", "temporal_event",
            "graph", "chunk"}

ASSUME SearchAssumption ==
  /\ IsFiniteSet(Memories) /\ Stored \subseteq Memories
  /\ \A m \in Memories : Kind[m] \in {"session", "fact", "inference"}
  /\ Dated \subseteq Memories /\ GraphChainDepth \in Nat \ {0}
  /\ Route # {} /\ Route \subseteq {"Temporal", "MultiHop", "SingleHop", "OpenDomain"}
  /\ Auxiliary \subseteq Signals
  /\ TemporalFusionWeight \in Nat /\ ChunkFusionWeight \in Nat
  /\ \A nudge \in {"trust", "tier", "activation"} : Bonus[nudge] \in [Memories -> Int]
  /\ StaleDemotionWeight \in Nat
  /\ DepthFactor \in Nat /\ DepthFloor \in Nat /\ FloorFactor \in Nat \ {0}
  /\ SOURCE_FACT_FLOOR_MAX_SLOTS \in Nat
  /\ Limit \in Nat /\ RerankPool \in Nat /\ MaxHops \in Nat
  /\ RRF_K \in Nat \ {0} /\ Scale \in Nat
  /\ \A r \in 0 .. Cardinality(Memories) - 1 : Scale % (RRF_K + r) = 0

VARIABLES
  status,    \* of each memory: the statements of a remember, then its end
  at,        \* the statement the search stands before
  hop,       \* searches of the loop
  wide,      \* the pass for the wider pool
  route,
  fts,       \* the rows of the full-text pass
  cand,      \* the ranked candidates, the chosen ones, then those to rerank
  floor,     \* the lexical facts to hold on to
  narrow,    \* the rows of the narrow pass
  pool,      \* the rows of the hops so far
  named,     \* the order the model gave in the last rerank
  answer,
  hidden,    \* the forgotten and the foreign memories when the search began
  derived,   \* the inferences then on record
  failures

searchVars == <<status, at, hop, wide, route, fts, cand, floor, narrow, pool,
          named, answer, hidden, derived, failures>>

pass == <<fts, cand, floor>>
loop == <<hop, wide, narrow, pool, named, answer>>

(***************************************************************************)
(* What a reader sees.  insert_memory publishes the row in the default     *)
(* namespace and kind; the kind and then the namespace follow.  The row    *)
(* goes before its metadata, and a kind that is not on record is taken for *)
(* the default one.                                                        *)
(***************************************************************************)
Forgotten == {"gone", "purged"}
Live(m) == status[m] \in {"inserted", "kinded", "governed"}
kind(m) == IF status[m] \in {"inserted", "purged"} THEN "session" ELSE Kind[m]
InNamespace(m) == status[m] = "governed" => Home[m] = Here
Readable == {m \in Memories : Live(m) /\ InNamespace(m)}
Hidden ==
  {m \in Memories : status[m] \in Forgotten \/ (status[m] = "governed" /\ Home[m] # Here)}
Derived ==
  {m \in Memories : status[m] = "governed" /\ Home[m] = Here /\ Kind[m] = "inference"}

(***************************************************************************)
(* What the lists of the signals may name.  Only the chunk list is read    *)
(* within the namespace, and neither it nor the graph list is joined with  *)
(* the memories: they name forgotten ones until the purge, which removes   *)
(* the metadata first and may end there, comes to their edges and chunks.  *)
(***************************************************************************)
knn == {m \in Memories : Live(m)}
memories_by_event_time == {m \in Dated : Live(m)}
dated_memories == {m \in Dated : Live(m)}

\* Dated memories that share a term with the question.
temporal_event_ids_for_query == dated_memories \ Unrelated

Written(m) == status[m] # "none"

\* The edges of an entity that nothing has superseded.
memory_edges_for_entity(entity) ==
  {m \in Memories : /\ Written(m) /\ entity \in Ends[m]
                  /\ ~\E n \in Memories : Written(n) /\ <<m, n>> \in Outdated}

\* The entities of the question, then those an edge connects them with, and so on.
graph_ids_for_query ==
  LET touching(entities) == UNION {memory_edges_for_entity(e) : e \in entities}
      reached[level \in 0 .. GraphChainDepth] ==
        IF level = 0 THEN Named
        ELSE reached[level - 1] \union UNION {Ends[m] : m \in touching(reached[level - 1])}
  IN touching(reached[GraphChainDepth])

search_memory_chunk_parents == {m \in Memories : Written(m) /\ InNamespace(m)}

Visible(signal) ==
  CASE signal \in {"vector", "variant_vector"} -> knn
    [] signal = "event_year"     -> memories_by_event_time
    [] signal = "temporal_event" -> temporal_event_ids_for_query
    [] signal = "graph"          -> graph_ids_for_query
    [] signal = "chunk"          -> search_memory_chunk_parents
    [] signal = "variant_fts"    -> Readable

FusionWeights(r) ==
  LET temporal == Larger(TemporalFusionWeight, 1) IN
  CASE r = "Temporal" ->
         [fts |-> 1, vector |-> 1, query_variant |-> 1, event_year |-> 2,
          temporal_event |-> temporal + 2, graph |-> 0, chunk |-> 0]
    [] r = "MultiHop" ->
         [fts |-> 1, vector |-> 2, query_variant |-> 2, event_year |-> 1,
          temporal_event |-> temporal, graph |-> 3, chunk |-> 0]
    [] r = "SingleHop" ->
         [fts |-> 2, vector |-> 1, query_variant |-> 0, event_year |-> 1,
          temporal_event |-> temporal, graph |-> 1, chunk |-> 0]
    [] r = "OpenDomain" ->
         [fts |-> 1, vector |-> 2, query_variant |-> 0, event_year |-> 1,
          temporal_event |-> temporal, graph |-> 1,
          chunk |-> ChunkFusionWeight]

\* The two lists of a decomposed query share a weight.
Weight(r, signal) ==
  FusionWeights(r)[IF signal \in {"variant_fts", "variant_vector"}
                     THEN "query_variant" ELSE signal]

\* The signals a route asks: its variants, dates and graph, all of them only
\* without the early exit.
Asked(r, early) ==
  IF early THEN {"graph"}
  ELSE CASE r = "Temporal" -> {"vector", "variant_fts", "variant_vector",
                               "event_year", "temporal_event"}
         [] r = "MultiHop" -> {"vector", "variant_fts", "variant_vector",
                               "event_year", "graph"}
         [] OTHER -> {"vector", "event_year", "graph", "chunk"}

(***************************************************************************)
(* A list names nobody twice, so it is its members in an order.            *)
(***************************************************************************)
Place(list, m) == CHOOSE i \in DOMAIN list : list[i] = m

\* A list from its members, each with its number.
Listed(numbered) ==
  [n \in 1 .. Cardinality(numbered) |-> (CHOOSE p \in numbered : p[1] = n)[2]]

\* The members of a list that are in a set, as the list has them.
Only(list, set) ==
  LET kept == {i \in DOMAIN list : list[i] \in set}
  IN Listed({<<Cardinality({j \in kept : j <= i}), list[i]>> : i \in kept})

(***************************************************************************)
(* Reciprocal ranks, scaled by a common multiple of the denominators.      *)
(***************************************************************************)
Reciprocal(i) == Scale \div (RRF_K + i - 1)

\* The stable sort by descending score.
Ranked(list, score) ==
  LET scored   == {<<score[list[i]], i>> : i \in DOMAIN list}
      ahead(s) == {t \in scored : t[1] > s[1] \/ (t[1] = s[1] /\ t[2] <= s[2])}
  IN Listed({<<Cardinality(ahead(s)), list[s[2]]>> : s \in scored})

Merged(first, second) ==
  first \o Only(second, Memories \ ToSet(first))

\* Two lists, each entered as often as its weight says.
rrf_fuse(one, wOne, two, wTwo) ==
  LET order == Merged(one, two)
      part(list, w, m) == IF m \in ToSet(list) THEN w * Reciprocal(Place(list, m))
                          ELSE 0
  IN Ranked(order, [m \in ToSet(order) |-> part(one, wOne, m) + part(two, wTwo, m)])

\* A list without an entry or a weight is no list, and one list keeps its order.
Fused(r, signal, list) ==
  LET w == Weight(r, signal) IN
  IF list = <<>> \/ w = 0 THEN fts ELSE rrf_fuse(fts, Weight(r, "fts"), list, w)

\* A nudge of the reciprocal rank; nothing moves when nobody has one.
Boosted(list, bonus) ==
  IF Len(list) < 2 \/ \A m \in ToSet(list) : bonus[m] = 0 THEN list
  ELSE Ranked(list, [m \in ToSet(list) |-> Reciprocal(Place(list, m)) + bonus[m]])

\* A candidate is stale when another candidate holds the edge that closed its own.
Demoted(list) ==
  Boosted(list,
          [m \in Memories |->
             IF \E n \in ToSet(list) : <<m, n>> \in Outdated
               THEN -StaleDemotionWeight ELSE 0])

Nudged(list) == Boosted(Demoted(Boosted(Boosted(list, Bonus.trust), Bonus.tier)),
                        Bonus.activation)

exclude_derived(list) == Only(list, {m \in Memories : kind(m) # "inference"})

(***************************************************************************)
(* The places kept for facts and for narratives.                           *)
(***************************************************************************)
source_fact_floor_slots(limit) ==
  IF limit = 0 THEN 0
  ELSE Smaller(Larger(limit \div FloorFactor, 1), SOURCE_FACT_FLOOR_MAX_SLOTS)

narr_slots_AtLeastTwo(limit) == Larger((limit * 2) \div 5, 2)
narr_slots(limit) == Larger((limit * 2) \div 5, 1)

FirstOf(list, n) == SubSeq(list, 1, Smaller(n, Len(list)))

\* Full-text rows that state a fact or name a source, by overlap with the query.
FloorLists(limit) ==
  Lists({m \in ToSet(fts) : /\ kind(m) # "inference"
                            /\ m \notin Synthesized
                            /\ kind(m) = "fact" \/ m \in SourceLinked},
        source_fact_floor_slots(limit))

promote_source_fact_floor(list, limit) ==
  IF Len(list) <= limit \/ limit = 0 THEN list
  ELSE Merged(Only(floor, ToSet(list)), list)

reserve_narrative_slots(list, limit) ==
  IF Len(list) <= limit THEN list
  ELSE LET narratives ==
             FirstOf(Only(list, {m \in Memories : kind(m) # "fact"}), narr_slots(limit))
       IN Only(list, ToSet(FirstOf(Merged(narratives, list), limit)))

(***************************************************************************)
(* One pass.                                                               *)
(***************************************************************************)
PassLimit == IF wide THEN Larger(2 * Limit, RerankPool) ELSE Limit
ListDepth(signal) ==
  LET depth == Larger(PassLimit * DepthFactor, DepthFloor)
  IN IF signal \in {"variant_fts", "variant_vector"} THEN depth \div 2 ELSE depth

Then(from, to) == at = from /\ at' = to

Start ==
  /\ Then("idle", "fulltext")
  /\ route' \in Route
  /\ hidden' = Hidden /\ derived' = Derived
  /\ UNCHANGED <<status, failures, pass, loop>>

Fulltext ==
  /\ Then("fulltext", "recall")
  /\ fts' \in Lists(Readable, ListDepth("fts"))
  /\ UNCHANGED <<status, failures, cand, floor, loop, route, hidden, derived>>

\* The early exit wants a first row with every term of the query.
Recall ==
  /\ Then("recall", "floor")
  /\ \/ cand' = Nudged(fts)
     \/ \E early \in {FALSE,
                     TierEarlyExit /\ route = "SingleHop" /\ fts # <<>>} :
         \E signal \in Auxiliary \intersect Asked(route, early) :
           \E list \in Lists(Visible(signal), ListDepth(signal)) :
             cand' = Nudged(Fused(route, signal, list))
  /\ UNCHANGED <<status, failures, fts, floor, loop, route, hidden, derived>>

lexical_source_fact_floor_ids ==
  /\ Then("floor", "quarantine")
  /\ floor' \in FloorLists(PassLimit)
  /\ UNCHANGED <<status, failures, fts, cand, loop, route, hidden, derived>>

Quarantine ==
  /\ Then("quarantine", "reserve")
  /\ cand' = promote_source_fact_floor(exclude_derived(cand), PassLimit)
  /\ UNCHANGED <<status, failures, fts, floor, loop, route, hidden, derived>>

Reserve ==
  /\ Then("reserve", "materialize")
  /\ cand' = reserve_narrative_slots(cand, PassLimit)
  /\ UNCHANGED <<status, failures, fts, floor, loop, route, hidden, derived>>

Rows_AnyNamespace == Only(cand, {m \in Memories : Live(m)} \ OffTopic)

\* Full-text rows are reused as they were read, the others are read now.
Rows ==
  Only(cand, (ToSet(fts) \union Readable) \ OffTopic)

reanchor_WideFirst(first, second) == Merged(second, first)

\* Narrow rows come first, whatever the wide pass thinks of them.
reanchor(first, second) == Merged(first, second)

Materialize ==
  /\ at = "materialize"
  /\ fts' = <<>> /\ floor' = <<>>
  /\ \/ /\ ~wide
        /\ at' = "fulltext" /\ wide' = TRUE
        /\ narrow' = Rows /\ cand' = <<>>
        /\ UNCHANGED <<hop, pool, named, answer>>
     \/ /\ wide
        /\ at' = "rerank" /\ cand' = reanchor(narrow, Rows)
        /\ UNCHANGED loop
     \/ /\ ~wide /\ hop = 1   \* a search without a reranker
        /\ at' = "done" /\ answer' = Rows /\ cand' = <<>>
        /\ UNCHANGED <<hop, wide, narrow, pool, named>>
  /\ UNCHANGED <<status, failures, route, hidden, derived>>

(***************************************************************************)
(* The reranker, whose reply may name any candidates in any order, or none *)
(* when the provider fails; and the follow-up queries.                     *)
(***************************************************************************)
fuse_rerank(list, order) ==
  FirstOf(IF order = <<>> THEN list ELSE rrf_fuse(list, 1, order, 1), Limit)

\* Zero or one candidate is not worth a call.
Replies(list) ==
  IF Len(list) <= 1 \/ Limit = 0 THEN {<<>>}
  ELSE Lists(ToSet(list), Len(list))

rerank_candidates ==
  /\ at = "rerank"
  /\ named' \in Replies(cand)
  /\ cand' = <<>>
  /\ LET found == fuse_rerank(cand, named')
         merged == Merged(pool, found)
     IN /\ pool' = merged
        /\ at' = IF merged = pool /\ hop > 1 THEN "final" ELSE "loop"
  /\ UNCHANGED <<status, failures, fts, floor, hop, wide, narrow, answer, route, hidden, derived>>

\* Without hops to make, or without rows, the first result is the answer.
ReturnFirst ==
  /\ Then("loop", "done")
  /\ hop = 1
  /\ answer' = pool
  /\ UNCHANGED <<status, failures, pass, hop, wide, narrow, pool, named, route, hidden, derived>>

FollowUp ==
  /\ Then("loop", "fulltext")
  /\ pool # <<>> /\ hop < MaxHops
  /\ hop' = hop + 1 /\ wide' = FALSE
  /\ route' \in Route
  /\ narrow' = <<>> /\ named' = <<>>
  /\ UNCHANGED <<status, failures, pass, pool, answer, hidden, derived>>

\* The model says DONE, repeats itself or fails, or the hops are used up.
StopHops ==
  /\ Then("loop", "final")
  /\ pool # <<>> /\ MaxHops > 1
  /\ UNCHANGED <<status, failures, pass, loop, route, hidden, derived>>

FinalRerank ==
  /\ Then("final", "done")
  /\ named' \in Replies(pool)
  /\ answer' = fuse_rerank(pool, named')
  /\ UNCHANGED <<status, failures, pass, hop, wide, narrow, pool, route, hidden, derived>>

\* An error ends a search; in a later hop it only ends the hops.
ReadFails ==
  /\ at \in {"fulltext", "recall", "floor", "quarantine", "reserve", "materialize"}
  /\ failures < MaxFailures
  /\ failures' = failures + 1
  /\ at' = IF hop = 1 THEN "error" ELSE "final"
  /\ fts' = <<>> /\ cand' = <<>> /\ floor' = <<>>
  /\ UNCHANGED <<status, loop, route, hidden, derived>>

(***************************************************************************)
(* Others, while the search runs.                                          *)
(***************************************************************************)
Running == at \notin {"done", "error"}

Write(m, from, to) == status[m] = from /\ status' = [status EXCEPT ![m] = to]

remember_with_governance(m) ==
  \/ Write(m, "none", "inserted")
  \/ Write(m, "inserted", "kinded")
  \/ Write(m, "kinded", "governed")

Forget(m) ==
  /\ Cardinality({n \in Memories : status[n] \in Forgotten}) < MaxForgotten
  /\ Write(m, "governed", "gone")

purge_memory(m) == Write(m, "gone", "purged")

Others ==
  /\ Running
  /\ \E m \in Memories : remember_with_governance(m) \/ Forget(m) \/ purge_memory(m)
  /\ UNCHANGED <<at, pass, loop, route, hidden, derived, failures>>

SearchInit ==
  /\ status = [m \in Memories |-> IF m \in Stored THEN "governed" ELSE "none"]
  /\ at = "idle" /\ hop = 1 /\ wide = FALSE /\ route = CHOOSE r \in Route : TRUE
  /\ fts = <<>> /\ cand = <<>> /\ floor = <<>>
  /\ narrow = <<>> /\ pool = <<>> /\ named = <<>> /\ answer = <<>>
  /\ hidden = {} /\ derived = {} /\ failures = 0

SearchNext ==
  \/ Start \/ Fulltext \/ Recall \/ lexical_source_fact_floor_ids
  \/ Quarantine \/ Reserve \/ Materialize \/ ReadFails
  \/ rerank_candidates \/ ReturnFirst \/ FollowUp \/ StopHops \/ FinalRerank
  \/ Others

SearchSpec == SearchInit /\ [][SearchNext]_searchVars

(***************************************************************************)
(* Properties.                                                             *)
(***************************************************************************)
Injective(list) == Cardinality(ToSet(list)) = Len(list)

SearchTypeOK ==
  /\ status \in [Memories -> {"none", "inserted", "kinded", "governed", "gone", "purged"}]
  /\ \A list \in {fts, cand, floor, narrow, pool, named, answer} :
       ToSet(list) \subseteq Memories /\ Injective(list)
  /\ hop \in 1 .. Larger(MaxHops, 1)
  /\ Len(narrow) <= Limit /\ Len(pool) <= hop * Limit
  /\ hidden \subseteq Memories /\ derived \subseteq Memories

\* An answer holds at most the number of memories asked for and none that was
\* forgotten or in another namespace when the search began: not through a
\* vector or graph list, which are read across namespaces, nor through the rows
\* an earlier pass or hop kept.  Nor does it hold an inference that was on record
\* then, unless it was forgotten and purged since: a row the full-text list read
\* before passes the quarantine once its kind is off the record.
AnswerIsClean ==
  /\ Len(answer) <= Limit
  /\ ToSet(answer) \intersect hidden = {}
  /\ \A m \in ToSet(answer) \intersect derived : status[m] = "purged"

\* The strongest exact fact of the full-text list is among the chosen, and so
\* are as many narratives as the list offers, up to their share, although each
\* is reserved before the other and the signals may have ranked both out (with
\* one place the narrative wins).  A row whose kind is not on record, yet or any
\* more, counts as a narrative and may take the place of one.
QuotasHold ==
  at = "materialize" /\ PassLimit >= 2 =>
    /\ floor # <<>> /\ Kind[Head(floor)] # "inference"
         => Head(floor) \in ToSet(cand)
    /\ LET found == {m \in ToSet(fts) \intersect Stored : Kind[m] = "session"}
           narratives == {m \in ToSet(cand) : m \in Stored /\ status[m] # "purged"
                                                => Kind[m] = "session"}
       IN Cardinality(narratives)
            >= Smaller(Cardinality(found), narr_slots(PassLimit))

\* Pairs of a row that was left out and one behind it that got in.
Overtaken(list, result) ==
  {pair \in ToSet(list) \X ToSet(result) :
     /\ pair[1] \notin ToSet(result)
     /\ pair[2] \in ToSet(list) => Place(list, pair[2]) > Place(list, pair[1])}

\* A row of the narrow pass loses its place only to rows the model named: the
\* wide pass alone, a failed or an empty reply, or a follow-up that adds rows
\* demotes nothing that came before.
RerankOnlyPromotes ==
  /\ at = "loop" /\ hop = 1
       => \A pair \in Overtaken(narrow, pool) : pair[2] \in ToSet(named)
  /\ at = "done"
       => \A pair \in Overtaken(pool, answer) : pair[2] \in ToSet(named)
=============================================================================
