---------------------------- MODULE Handlers ----------------------------
(* What the REST handlers, the MCP tools and the CLI commands do, one       *)
(* statement after the other: a program is a sequence of steps, and Service *)
(* executes it against the shared store, one step at a time.  A step that   *)
(* is "soft" ignores the failure of its statement; after the failure of     *)
(* another one the program goes on behind its next Catch, or ends with an   *)
(* error reply.  Handlers that only report on components modelled elsewhere *)
(* (edges, contradiction sets, assertions, snapshots) are not here.         *)
EXTENDS Integers, Sequences

CONSTANTS
  Fact    \* what a text can say

Do(do, soft) == [do |-> do, soft |-> soft]

(* A read of the store that chooses the candidates of a recall: the rows of  *)
(* a search, of a ranking or the most recent ones.                           *)
Find(soft) == <<Do("find", soft)>>

Look == <<Do("look", FALSE)>>
Glance == <<Do("look", TRUE)>>

(* The rows of memories whose chunks were found.                             *)
memories_by_ids_in_namespace == Look

(* The memory the request names, and whatever owns the source it refers to.  *)
ByHandle == <<Do("handle", FALSE)>>
ByReference == <<Do("owners", FALSE)>>

(* The influence gate, with the consumer's capabilities: whether advisory    *)
(* content may be passed on (reasoning_only_channel) and whether originals   *)
(* can be expanded (exact_source_expansion).                                 *)
Gate(hints, exact) ==
  <<[do |-> "gate", soft |-> FALSE, hints |-> hints, exact |-> exact]>>

(* The refusal of a request for which the gate left none of the named lists. *)
RefuseWithout(lists) ==
  <<[do |-> "refuse", soft |-> FALSE, lists |-> lists]>>

Chunks == <<Do("chunks", FALSE)>>
Expand == <<Do("expand", FALSE)>>
BackSources == <<Do("back", FALSE)>>

(* Statements whose effect is modelled elsewhere and that can only fail here:*)
(* the metadata of a memory, its edges, ancestry, evidence roots, maturity.  *)
get_memory_meta_full == Look
memory_edges_for_memories == Look
memory_lineage == Look
add_supporting_evidence_from_memories == Look
promote_memories_maturity == Glance

(* The delivery counters; a keyed count carries the request's identifier.    *)
Count(kind, of, keyed) ==
  <<[do |-> "count", soft |-> TRUE, kind |-> kind, of |-> of,
     keyed |-> keyed]>>

(* The answer shows the memories the gate authorised, those and the advisory *)
(* ones, also those whose original was retrieved or is needed, or just what  *)
(* was read.                                                                 *)
Answer(of) == <<[do |-> "answer", soft |-> TRUE, of |-> of]>>

Catch == <<Do("catch", TRUE)>>

(* compress::remember_with_governance: the row, then what describes it, then *)
(* its chunks and vector and, for a user's memory, the profile.              *)
Insert(text, kind, user) ==
  <<[do |-> "insert", soft |-> FALSE, text |-> text],
    [do |-> "describe", soft |-> FALSE, kind |-> kind, user |-> user]>>

remember_with_governance(text, kind, user) ==
  Insert(text, kind, user) \o Glance
    \o (IF user THEN <<Do("keepfresh", TRUE)>> ELSE <<>>)

(* profile::regenerate lists the sources first; the rest follows from them.  *)
regenerate == <<Do("sources", FALSE)>>

(***************************************************************************)
(* REST.                                                                   *)
(***************************************************************************)

(* The ranked search of a request with a query gives nothing when it fails;  *)
(* the recent memories of one without are an error.                          *)
retrieve_context_candidates(query) == Find(query)

(* Edges of all the memories, then the metadata of each: without them there  *)
(* is no answer.                                                             *)
context_evidence_chains == memory_edges_for_memories \o get_memory_meta_full

get_context_CountsFirst(query) ==
  retrieve_context_candidates(query) \o Gate(TRUE, FALSE) \o Chunks \o Glance
    \o Count("recall", "both", FALSE) \o context_evidence_chains
    \o Answer("both")
get_context(query) ==
  retrieve_context_candidates(query) \o Gate(TRUE, FALSE) \o Chunks \o Glance
    \o context_evidence_chains \o Count("recall", "both", FALSE)
    \o Answer("both")

(* Originals the policy asks for are retrieved one by one; a memory whose    *)
(* original cannot be had is denied after all.                               *)
evaluate_context(query) ==
  retrieve_context_candidates(query) \o Gate(TRUE, TRUE) \o BackSources
    \o Chunks \o context_evidence_chains \o Glance
    \o Count("recall", "backed", TRUE) \o Count("expansion", "originals", TRUE)
    \o Answer("backed")

get_skim ==
  Find(FALSE) \o memories_by_ids_in_namespace \o Gate(TRUE, FALSE)
    \o Count("recall", "both", FALSE) \o Answer("both")

retrieve_original ==
  ByReference \o RefuseWithout({"found"}) \o Gate(TRUE, TRUE)
    \o RefuseWithout({"ok", "hint", "back"}) \o Expand
    \o Count("expansion", "originals", FALSE) \o Answer("gated")

(* The evidence view answers for one authorised memory and counts nothing.   *)
api_memory_evidence ==
  ByHandle \o RefuseWithout({"found"}) \o Gate(FALSE, FALSE)
    \o RefuseWithout({"ok"}) \o get_memory_meta_full \o Chunks
    \o memory_edges_for_memories \o Answer("ok")

api_list_memories(query) ==
  retrieve_context_candidates(query) \o Gate(TRUE, FALSE) \o Answer("ok")

(* A simulation evaluates the policy and shows decisions, never content.     *)
api_simulate_memory_influence == ByHandle \o Look \o Answer("none")

api_delete_memory == <<Do("delete", FALSE)>> \o Glance \o Answer("none")
put_memory_influence(stance) ==
  <<[do |-> "stance", soft |-> FALSE, stance |-> stance]>> \o Answer("none")
remember(text, kind, user) ==
  remember_with_governance(text, kind, user) \o Answer("none")
refresh_profile == regenerate \o Look \o Answer("none")

(***************************************************************************)
(* MCP tools.                                                              *)
(***************************************************************************)

event_times_map == Glance
(* Here what cannot be read of the chains is left out of them.               *)
evidence_chains_json == Glance \o Glance

handle_get_context(query) ==
  Find(query) \o Gate(TRUE, FALSE) \o Chunks \o event_times_map
    \o evidence_chains_json \o Count("recall", "both", FALSE)
    \o Answer("both")

handle_memory_skim ==
  Find(FALSE) \o memories_by_ids_in_namespace \o Gate(TRUE, FALSE) \o Glance
    \o Count("recall", "both", FALSE) \o Answer("both")

handle_retrieve_original ==
  ByReference \o RefuseWithout({"found"}) \o Gate(TRUE, TRUE)
    \o RefuseWithout({"ok", "hint", "back"}) \o Expand
    \o Count("expansion", "originals", FALSE) \o Answer("gated")

Listing ==
  Gate(TRUE, FALSE) \o event_times_map \o Count("recall", "both", FALSE)
    \o Answer("both")
handle_list_memories == Find(FALSE) \o Listing
handle_search_memories == Find(FALSE) \o Listing
handle_search_global == Find(FALSE) \o Listing

(* The most recent memories, weighed by likeness, feedback and metadata, and  *)
(* then the profile in front of them.                                        *)
injection_rank == Find(FALSE)
rank_for_injection == injection_rank \o Look

(* Injection reads the revision, ranks, asks the gate without a channel for  *)
(* advice, and lets the working set choose among what is still there.        *)
Injecting ==
  Look \o rank_for_injection \o Gate(FALSE, FALSE)
    \o <<Do("select", FALSE), Do("inject", FALSE)>> \o Answer("none")
handle_inject_context == Injecting

handle_set_memory_influence(stance) == put_memory_influence(stance)

(* The time of the event is stamped on the memory once it is there.          *)
handle_remember(text, kind, user, dated) ==
  remember_with_governance(text, kind, user)
    \o (IF dated THEN Look ELSE <<>>) \o Answer("none")
handle_refresh_profile == regenerate \o Look \o Answer("none")

(***************************************************************************)
(* CLI.  A command prints first and counts afterwards; with nothing to      *)
(* print it ends at once.                                                   *)
(***************************************************************************)

Printed ==
  Gate(TRUE, FALSE) \o RefuseWithout({"ok", "hint"}) \o Answer("both")
    \o Count("recall", "both", FALSE)
run_search == Find(FALSE) \o Printed
run_search_global == Find(FALSE) \o Printed
run_list == Find(FALSE) \o Printed
run_inject == Injecting
run_remember(text, kind, user) == remember_with_governance(text, kind, user)
run_profile(refresh) == (IF refresh THEN regenerate ELSE <<>>) \o Look

(* The lineage is read whatever the gate says; its summary is blanked when   *)
(* the gate left nothing.                                                    *)
run_lineage_NeverBlank ==
  ByHandle \o Gate(TRUE, FALSE) \o memory_lineage \o Answer("found")
run_lineage ==
  ByHandle \o Gate(TRUE, FALSE) \o memory_lineage \o Answer("both")

(***************************************************************************)
(* Dreaming.                                                               *)
(***************************************************************************)

(* reflection::run and synthesize, each kind and each group in turn.         *)
Reflect(kind, apply) ==
  <<[do |-> "reflect", soft |-> FALSE, kind |-> kind, apply |-> apply]>>
Synthesize(apply) ==
  <<[do |-> "synthesize", soft |-> FALSE, apply |-> apply]>>

run_reflection(apply) ==
  Reflect("fact", apply) \o Reflect("lesson", apply) \o Answer("none")
run_dream(apply) == run_reflection(apply)
handle_dream_memory(apply) == run_reflection(apply)
run_reflect(apply) == run_reflection(apply)
run_synthesis(apply) == Synthesize(apply) \o Answer("none")

(* What one group of overlapping memories becomes.                           *)
Consolidate_AppliedFirst(group, text, kind, apply) ==
  <<[do |-> "propose", soft |-> FALSE, group |-> group, text |-> text]>>
    \o (IF apply
        THEN <<[do |-> "applied", soft |-> FALSE]>>
               \o remember_with_governance(text, kind, FALSE)
               \o <<[do |-> "demote", soft |-> TRUE, group |-> group]>>
        ELSE <<>>)
Consolidate(group, text, kind, apply) ==
  <<[do |-> "propose", soft |-> FALSE, group |-> group, text |-> text]>>
    \o (IF apply
        THEN remember_with_governance(text, kind, FALSE)
               \o <<[do |-> "applied", soft |-> FALSE],
                    [do |-> "demote", soft |-> TRUE, group |-> group]>>
        ELSE <<>>)

(* What one group of complementary facts becomes, when the model derives     *)
(* something: the inference, its evidence, its edges and ledger entry, and   *)
(* the reinforcement of its sources.                                         *)
Derive(group, text) ==
  remember_with_governance(text, "inference", FALSE)
    \o add_supporting_evidence_from_memories \o Glance \o Glance

(* The watcher's pass survives the failure of either half.                   *)
run_pass ==
  Reflect("fact", TRUE) \o Reflect("lesson", TRUE) \o Catch
    \o Synthesize(TRUE) \o Catch \o Glance \o <<Do("dreamt", TRUE)>>

(* The scheduler's pass fails as a whole, and its outcome is an event.       *)
run_one_dream(apply) ==
  Reflect("fact", apply) \o Reflect("lesson", apply) \o Synthesize(apply)
run_dream_sweep(apply) ==
  promote_memories_maturity \o run_one_dream(apply) \o Catch \o <<Do("event", FALSE)>>
    \o Glance

=============================================================================
