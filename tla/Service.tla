------------------------------ MODULE Service ------------------------------
(* The memory service at work: REST and MCP handlers, CLI commands, the      *)
(* profile and the dreams execute the programs of Handlers against one       *)
(* store, a statement at a time, each seeing what the others have done in    *)
(* between.  The store keeps a memory's kind, scope, text, source and        *)
(* influence; its ledger, vectors and blobs are other modules' matter.       *)
EXTENDS Handlers, FiniteSets, SequencesExt

CONSTANTS
  Worker,         \* what runs at once: requests, commands, background tasks
  InitialStores,  \* the stores a run may start from
  Sources,        \* archived transcripts
  NoSource,       \* of a memory without one
  Gap,            \* idle time after which a project is dreamt about
  RefreshEvery,   \* PROFILE_REFRESH_EVERY
  PROFILE_SOURCE_LIMIT,  \* how many user memories a profile is made of
  MaxHandle,      \* bound on the memories ever inserted
  MaxFound,       \* bound on the candidates a recall finds
  MaxTime,        \* bound on the clock
  MaxOps,         \* bound on the operations that begin
  MaxFailures       \* bound on failing statements and deaths

Handle == 1..MaxHandle
Delivery == {"recall", "expansion"}
Stance == {"allow", "advise", "source", "deny"}
Kind == {"session", "fact", "lesson", "inference", "profile"}

(* A memory as its row and what describes it have it: only the user's        *)
(* profile is of that kind.                                                  *)
Memories ==
  {m \in [kind : Kind, user : BOOLEAN, stance : Stance, source : Sources,
          text : SUBSET Fact, made : 1..MaxTime] :
     m.kind = "profile" => m.user}

ASSUME ServiceAssumption ==
  /\ IsFiniteSet(Worker)
  /\ NoSource \in Sources
  /\ \A s \in InitialStores :
       \E n \in 0..MaxHandle : s \in [1..n -> Memories]
  /\ Gap \in Nat /\ RefreshEvery \in Nat \ {0} /\ PROFILE_SOURCE_LIMIT \in Nat
  /\ MaxHandle \in Nat /\ MaxFound \in Nat /\ MaxTime \in Nat \ {0}
  /\ MaxOps \in Nat /\ MaxFailures \in Nat

VARIABLES
  now,        \* the clock
  mem,        \* the live memories
  next,       \* the handle the next insertion gets
  counts,     \* memory_access: deliveries of each kind
  receipts,   \* access_receipts of the request that is retried
  proposals,  \* reflection_proposals, and the memory each became
  demoted,    \* memory_feedback with the signal "consolidated"
  dreamt,     \* the watcher's mark of the project, lost with its process
  events,     \* the marks of successful dream events in sweep_events
  task,       \* what each worker has yet to do, and what it holds
  prepared,   \* history: deliveries in answers that were prepared
  promised,   \* history: deliveries in answers to the retried request
  ops,        \* operations begun
  failures      \* statements failed, processes died

serviceVars == <<now, mem, next, counts, receipts, proposals, demoted, dreamt,
          events, task, prepared, promised, ops, failures>>
store == <<mem, next>>
telemetry == <<counts, receipts, prepared, promised>>
dreams == <<proposals, demoted, dreamt, events>>
budgets == <<now, ops, failures>>

Live == DOMAIN mem
Profiles == {h \in Live : mem[h].kind = "profile"}
UserMemories == {h \in Live : mem[h].user}
TextOf(group) == UNION {mem[h].text : h \in group}

(* The project's last activity: its newest memory, dreamt ones included.     *)
last_activity ==
  CHOOSE t \in {mem[h].made : h \in Live} : \A h \in Live : mem[h].made <= t

Idle ==
  [todo |-> <<>>, about |-> 0, found |-> {}, ok |-> {}, hint |-> {},
   back |-> {}, orig |-> {}, counted |-> {}, answered |-> FALSE,
   barred |-> {}, made |-> 0, mark |-> 0, stale |-> {}, beyond |-> {},
   alone |-> FALSE, failed |-> FALSE]

ServiceInit ==
  /\ mem \in InitialStores
  /\ now \in 1..MaxTime
  /\ \A h \in Live : mem[h].made <= now
  /\ next = Cardinality(DOMAIN mem) + 1
  /\ counts = [k \in Delivery |-> [h \in Handle |-> 0]]
  /\ receipts = {}
  /\ proposals = <<>>
  /\ demoted = [h \in Handle |-> 0]
  /\ dreamt = 0
  /\ events = {}
  /\ task = [w \in Worker |-> Idle]
  /\ prepared = [k \in Delivery |-> [h \in Handle |-> 0]]
  /\ promised = {}
  /\ ops = 0
  /\ failures = 0

(***************************************************************************)
(* Executing a program.                                                    *)
(***************************************************************************)

At(w, do) == task[w].todo # <<>> /\ Head(task[w].todo).do = do
Now(w) == Head(task[w].todo)

Regenerating(w) ==
  \E i \in DOMAIN task[w].todo :
    \/ task[w].todo[i].do = "replace"
    \/ /\ task[w].todo[i].do = "describe"
       /\ task[w].todo[i].kind = "profile"
Watching(w) ==
  \E i \in DOMAIN task[w].todo : task[w].todo[i].do = "dreamt"

Settled(t) == IF t.todo = <<>> THEN Idle ELSE t
Becomes(w, t) == task' = [task EXCEPT ![w] = Settled(t)]

(* The step is done, and changes what the task holds; it may put steps in    *)
(* front of the rest.                                                        *)
Step(w, t) == Becomes(w, [t EXCEPT !.todo = Tail(@)])
Done(w) == Step(w, task[w])
Unfolds(w, steps) == Becomes(w, [task[w] EXCEPT !.todo = steps \o Tail(@)])

(* Where the program goes on after an error: behind its next Catch.          *)
AfterError(todo) ==
  IF \E i \in DOMAIN todo : todo[i].do = "catch"
  THEN LET c == CHOOSE i \in DOMAIN todo :
                  /\ todo[i].do = "catch"
                  /\ \A j \in 1..(i - 1) : todo[j].do # "catch"
       IN  SubSeq(todo, c + 1, Len(todo))
  ELSE <<>>
Errs(w) ==
  Becomes(w, [task[w] EXCEPT !.todo = AfterError(@), !.failed = TRUE])

(* Handles of memories that are gone or denied: no answer to a call that     *)
(* begins now may show them, unless they are allowed meanwhile.              *)
Barred == {h \in 1..(next - 1) : h \notin Live \/ mem[h].stance = "deny"}

MayBegin(w) == task[w] = Idle /\ ops < MaxOps

Begin(w, program, about, mark) ==
  /\ ops' = ops + 1
  /\ task' = [task EXCEPT ![w] =
                [Idle EXCEPT !.todo = program, !.about = about,
                             !.mark = mark, !.barred = Barred]]
  /\ UNCHANGED <<now, failures, store, telemetry, dreams>>

Recall(w) ==
  /\ MayBegin(w)
  /\ \E query \in BOOLEAN :
       \E program \in
            {get_context(query), evaluate_context(query), get_skim,
             api_list_memories(query), handle_get_context(query),
             handle_memory_skim, handle_list_memories, handle_search_memories,
             handle_search_global, handle_inject_context, run_search,
             run_search_global, run_list, run_inject} :
         Begin(w, program, 0, 0)

Lookup(w) ==
  /\ MayBegin(w)
  /\ \E h \in 1..(next - 1) :
       \E program \in
            {retrieve_original, handle_retrieve_original, api_memory_evidence,
             api_simulate_memory_influence, run_lineage} :
         Begin(w, program, h, 0)

Change(w) ==
  /\ MayBegin(w)
  /\ \E h \in Live, stance \in {"allow", "deny"} :
       \E program \in
            {api_delete_memory, put_memory_influence(stance),
             handle_set_memory_influence(stance)} :
         Begin(w, program, h, 0)

Remember(w) ==
  /\ MayBegin(w)
  /\ \E fact \in Fact, user, dated \in BOOLEAN :
       \E program \in
            {remember({fact}, "fact", user), run_remember({fact}, "fact", user),
             handle_remember({fact}, "fact", user, dated)} :
         Begin(w, program, 0, 0)

RefreshProfile(w) ==
  /\ MayBegin(w)
  /\ \E program \in {refresh_profile, handle_refresh_profile, run_profile(TRUE)} :
       Begin(w, program, 0, 0)

Dream(w) ==
  /\ MayBegin(w)
  /\ \E apply \in BOOLEAN :
       \E program \in
            {run_reflection(apply), run_dream(apply), handle_dream_memory(apply),
             run_reflect(apply), run_synthesis(apply)} :
         Begin(w, program, 0, 0)

(* The watcher dreams about a project that is idle for long enough and has   *)
(* moved since the mark of the last pass.                                    *)
watch(w) ==
  /\ MayBegin(w)
  /\ Live # {}
  /\ \A u \in Worker : ~Watching(u)
  /\ now - last_activity >= Gap
  /\ dreamt < last_activity
  /\ Begin(w, run_pass, 0, last_activity)

(* A scheduler's candidate is idle, and no successful event covers its mark. *)
list_dream_candidates ==
  /\ Live # {}
  /\ now - last_activity >= Gap
  /\ \A mark \in events : mark < last_activity
SweepDreams(w) ==
  /\ MayBegin(w)
  /\ list_dream_candidates
  /\ \E apply \in BOOLEAN : Begin(w, run_dream_sweep(apply), 0, last_activity)

(***************************************************************************)
(* The steps of a recall.                                                  *)
(***************************************************************************)

Find_(w) ==
  /\ At(w, "find")
  /\ \E chosen \in SUBSET Live :
       /\ Cardinality(chosen) <= MaxFound
       /\ Step(w, [task[w] EXCEPT !.found = chosen])
  /\ UNCHANGED <<store, telemetry, dreams, budgets>>

ByHandle_(w) ==
  /\ At(w, "handle")
  /\ Step(w, [task[w] EXCEPT !.found = {task[w].about} \cap Live])
  /\ UNCHANGED <<store, telemetry, dreams, budgets>>

(* A reference names one memory, or by its hash every owner of the source.   *)
Owners(h) ==
  IF h \in Live /\ mem[h].source # NoSource
  THEN {g \in Live : mem[g].source = mem[h].source}
  ELSE {}
memory_ids_for_original_reference(w) ==
  /\ At(w, "owners")
  /\ LET h == task[w].about
     IN  \E owners \in {{h} \cap Live, Owners(h)} :
           Step(w, [task[w] EXCEPT !.found = owners])
  /\ UNCHANGED <<store, telemetry, dreams, budgets>>

(* A memory whose metadata is gone is denied like one its policy denies.     *)
gate_memories(w) ==
  /\ At(w, "gate")
  /\ LET t == task[w]
         With(stance) == {h \in t.found \cap Live : mem[h].stance = stance}
     IN  Step(w, [t EXCEPT
                    !.ok = With("allow"),
                    !.hint = IF Now(w).hints THEN With("advise") ELSE {},
                    !.back = IF Now(w).exact THEN With("source") ELSE {}])
  /\ UNCHANGED <<store, telemetry, dreams, budgets>>

Refuse(w) ==
  /\ At(w, "refuse")
  /\ IF \A list \in Now(w).lists : task[w][list] = {} THEN Errs(w) ELSE Done(w)
  /\ UNCHANGED <<store, telemetry, dreams, budgets>>

(* The one original of a request.  Without a source a chunk is answered by   *)
(* its summary, which is no original, and any other reference by an error.   *)
Expandable(hs) == {h \in hs \cap Live : mem[h].source # NoSource}
Expand_(w) ==
  /\ At(w, "expand")
  /\ LET t == task[w]
     IN  IF Expandable(t.found) # {}
         THEN Step(w, [t EXCEPT !.orig = t.ok \cup t.hint \cup t.back])
         ELSE \/ t.found \cap Live # {} /\ Done(w)
              \/ Errs(w)
  /\ UNCHANGED <<store, telemetry, dreams, budgets>>

(* The originals of the memories that need one: every memory is loaded by a  *)
(* call of its own, and any of them may fail or come too late.  Those that   *)
(* did are recorded, and recording can fail.                                 *)
BackSources_(w) ==
  /\ At(w, "back")
  /\ LET t == task[w]
     IN  \E loaded \in SUBSET Expandable(t.back) :
           Becomes(w, [t EXCEPT
             !.orig = loaded,
             !.todo = (IF loaded = t.back THEN <<>> ELSE Look \o Look)
                        \o Tail(@)])
  /\ UNCHANGED <<store, telemetry, dreams, budgets>>

(* The working set drops what has gone since the ranking.                    *)
select(w) ==
  /\ At(w, "select")
  /\ \E chosen \in SUBSET (task[w].ok \cap Live) :
       Step(w, [task[w] EXCEPT !.ok = chosen])
  /\ UNCHANGED <<store, telemetry, dreams, budgets>>

(* Reads and writes whose effect on the store is some other module's.        *)
Elsewhere(w) ==
  /\ \E do \in {"look", "chunks", "inject", "catch"} : At(w, do)
  /\ Done(w)
  /\ UNCHANGED <<store, telemetry, dreams, budgets>>

Shown(t, of) ==
  CASE of = "found" -> t.found
    [] of = "ok" -> t.ok
    [] of = "both" -> t.ok \cup t.hint
    [] of = "backed" -> t.ok \cup t.hint \cup t.orig
    [] of = "gated" -> t.ok \cup t.hint \cup t.back
    [] of = "originals" -> t.orig
    [] OTHER -> {}

(* access::record counts every memory once, skips those whose metadata is    *)
(* gone, and with a request's key those the request has counted before.      *)
Fresh(kind, hs, keyed) ==
  {h \in hs \cap Live : ~keyed \/ <<kind, h>> \notin receipts}
record(w) ==
  /\ At(w, "count")
  /\ LET t == task[w]
         kind == Now(w).kind
         keyed == Now(w).keyed
         hs == Fresh(kind, Shown(t, Now(w).of), keyed)
     IN  /\ counts' = [counts EXCEPT ![kind] =
                         [h \in Handle |-> @[h] + (IF h \in hs THEN 1 ELSE 0)]]
         /\ receipts' = IF keyed THEN receipts \cup {<<kind, h>> : h \in hs}
                                 ELSE receipts
         /\ IF t.answered
            THEN /\ prepared' = [prepared EXCEPT ![kind] =
                       [h \in Handle |-> @[h] + (IF h \in hs THEN 1 ELSE 0)]]
                 /\ Done(w)
            ELSE /\ Step(w, [t EXCEPT !.counted =
                                @ \cup {<<kind, h, keyed>> : h \in hs}])
                 /\ UNCHANGED prepared
  /\ UNCHANGED <<store, promised, dreams, budgets>>

(* Once nothing can refuse the answer any more, it was prepared.             *)
Keep(t) ==
  /\ prepared' = [k \in Delivery |-> [h \in Handle |->
       prepared[k][h] + (IF <<k, h, FALSE>> \in t.counted THEN 1 ELSE 0)]]
  /\ promised' = promised \cup
       {d \in Delivery \X Handle : <<d[1], d[2], TRUE>> \in t.counted}
Answer_(w) ==
  /\ At(w, "answer")
  /\ Keep(task[w])
  /\ Step(w, [task[w] EXCEPT !.answered = TRUE, !.counted = {}])
  /\ UNCHANGED <<store, counts, receipts, dreams, budgets>>

(***************************************************************************)
(* The steps that write.                                                   *)
(***************************************************************************)

insert_memory(w) ==
  /\ At(w, "insert")
  /\ next <= MaxHandle
  /\ mem' = [h \in Live \cup {next} |->
               IF h \in Live THEN mem[h]
               ELSE [kind |-> "session", user |-> FALSE, stance |-> "allow",
                     source |-> NoSource, text |-> Now(w).text, made |-> now]]
  /\ next' = next + 1
  /\ Step(w, [task[w] EXCEPT !.made = next])
  /\ UNCHANGED <<telemetry, dreams, budgets>>

(* Importance, scope, kind and governance of the new row, if it is there.    *)
Described(h, kind, user) ==
  IF h \in Live
  THEN [mem EXCEPT ![h].kind = kind, ![h].user = user]
  ELSE mem
describe(w) ==
  /\ At(w, "describe")
  /\ mem' = Described(task[w].made, Now(w).kind, Now(w).user)
  /\ Done(w)
  /\ UNCHANGED <<next, telemetry, dreams, budgets>>

Without(h) == [g \in Live \ {h} |-> mem[g]]
delete_memory(w) ==
  /\ At(w, "delete")
  /\ mem' = Without(task[w].about)
  /\ counts' = [k \in Delivery |-> [counts[k] EXCEPT ![task[w].about] = 0]]
  /\ Done(w)
  /\ UNCHANGED <<next, receipts, prepared, promised, dreams, budgets>>

(* Allowing a memory lifts the bar on it for the calls that are running.     *)
update_memory_policy(w) ==
  /\ At(w, "stance")
  /\ LET h == task[w].about
         stance == Now(w).stance
         Lifted(t) == IF stance = "allow" THEN [t EXCEPT !.barred = @ \ {h}]
                                          ELSE t
     IN  IF h \notin Live
         THEN Errs(w) /\ UNCHANGED mem
         ELSE /\ mem' = [mem EXCEPT ![h].stance = stance]
              /\ task' = [u \in Worker |->
                   IF u = w
                   THEN Settled([Lifted(task[w]) EXCEPT !.todo = Tail(@)])
                   ELSE Lifted(task[u])]
  /\ UNCHANGED <<next, telemetry, dreams, budgets>>

(***************************************************************************)
(* The profile.                                                            *)
(***************************************************************************)

(* After a user's memory: when there is no profile, or every so many.        *)
auto_refresh(w) ==
  /\ At(w, "keepfresh")
  /\ LET n == Cardinality(UserMemories \ Profiles)
         due == \/ Profiles = {}
                \/ n > 0 /\ n % RefreshEvery = 0
     IN  Unfolds(w, IF due THEN regenerate ELSE <<>>)
  /\ UNCHANGED <<store, telemetry, dreams, budgets>>

(* The newest memories of the user, in seconds; their kinds are read one by  *)
(* one, and what has no metadata any more is a source like the others.       *)
get_recent_memories_scoped ==
  {listed \in SUBSET UserMemories :
     /\ Cardinality(listed) <= PROFILE_SOURCE_LIMIT
     /\ listed # UserMemories => Cardinality(listed) = PROFILE_SOURCE_LIMIT
     /\ \A h \in listed, g \in UserMemories \ listed : mem[g].made <= mem[h].made}
ForEach(do, hs) ==
  [i \in 1..Cardinality(hs) |->
     [do |-> do, soft |-> FALSE, handle |-> SetToSeq(hs)[i]]]
read_sources(w) ==
  /\ At(w, "sources")
  /\ \E listed \in get_recent_memories_scoped :
       LET others == {u \in Worker \ {w} : Regenerating(u)}
           replace == [do |-> "replace", soft |-> FALSE,
                       texts |-> [h \in listed |-> mem[h].text]]
           t == [task[w] EXCEPT
                   !.todo = ForEach("kind", listed) \o <<replace>> \o Tail(@),
                   !.stale = {}, !.beyond = Profiles \ listed,
                   !.alone = others = {}]
       IN  task' = [u \in Worker |->
                      CASE u = w -> t
                        [] u \in others -> [task[u] EXCEPT !.alone = FALSE]
                        [] OTHER -> task[u]]
  /\ UNCHANGED <<store, telemetry, dreams, budgets>>

kind_of_source(w) ==
  /\ At(w, "kind")
  /\ Step(w, [task[w] EXCEPT !.stale = @ \cup (Profiles \cap {Now(w).handle})])
  /\ UNCHANGED <<store, telemetry, dreams, budgets>>

(* Without any source the profile stays.  Else the old ones are dropped one  *)
(* by one, then the new one is written.                                      *)
Stale_NewestOnly(w) ==
  LET all == task[w].stale IN {h \in all : \A g \in all : g <= h}
Stale(w) == task[w].stale
Replacing(w) ==
  LET texts == Now(w).texts
  IN  ForEach("drop", Stale(w))
        \o Insert(UNION {texts[h] : h \in DOMAIN texts \ task[w].stale},
                  "profile", TRUE)
        \o Look \o Glance
replace_profiles(w) ==
  /\ At(w, "replace")
  /\ Unfolds(w, IF DOMAIN Now(w).texts \subseteq task[w].stale
                THEN <<>> ELSE Replacing(w))
  /\ UNCHANGED <<store, telemetry, dreams, budgets>>

drop(w) ==
  /\ At(w, "drop")
  /\ mem' = Without(Now(w).handle)
  /\ counts' = [k \in Delivery |-> [counts[k] EXCEPT ![Now(w).handle] = 0]]
  /\ Done(w)
  /\ UNCHANGED <<next, receipts, prepared, promised, dreams, budgets>>

(***************************************************************************)
(* Dreams.                                                                 *)
(***************************************************************************)

(* find_groups: memories with the same words, and, newest first, each with   *)
(* the unused ones after it that share half of theirs.                       *)
Similar(g, h) ==
  2 * Cardinality(mem[g].text \cap mem[h].text)
    >= Cardinality(mem[g].text \cup mem[h].text)
find_groups(hs) ==
  LET GroupOf(h, used) ==
        IF h \in used THEN {}
        ELSE {h} \cup {g \in hs \ used : g < h /\ Similar(h, g)}
      used[n \in 0..MaxHandle] ==   \* by the n newest handles
        IF n = 0 THEN {}
        ELSE LET h == MaxHandle + 1 - n
                 g == GroupOf(h, used[n - 1])
             IN  used[n - 1] \cup
                   (IF h \in hs /\ Cardinality(g) > 1 THEN g ELSE {})
      groups == {{g \in hs : mem[g].text = mem[h].text} : h \in hs}
                  \cup {GroupOf(h, used[MaxHandle - h]) : h \in hs}
  IN  {g \in groups : Cardinality(g) > 1}

(* Facts that share a word, however many words they share.                   *)
find_synthesis_groups(hs) ==
  {g \in {{h \in hs : fact \in mem[h].text} : fact \in Fact} :
     Cardinality(g) > 1}

OfKind(kind) == {h \in Live : mem[h].kind = kind}

(* The program of each group, one after the other; they are equally long.    *)
Each(program) ==
  LET order == SetToSeq(DOMAIN program)
      n == Len(program[order[1]])
  IN  IF DOMAIN program = {} THEN <<>>
      ELSE [i \in 1..(n * Len(order)) |->
              program[order[1 + ((i - 1) \div n)]][1 + ((i - 1) % n)]]

reflect(w) ==
  /\ At(w, "reflect")
  /\ LET kind == Now(w).kind
     IN  Unfolds(w, Each([g \in find_groups(OfKind(kind)) |->
                            Consolidate(g, TextOf(g), kind, Now(w).apply)]))
  /\ UNCHANGED <<store, telemetry, dreams, budgets>>

(* Of some groups the model derives something; without apply that is only    *)
(* reported.                                                                 *)
synthesize(w) ==
  /\ At(w, "synthesize")
  /\ \E fruitful \in SUBSET find_synthesis_groups(OfKind("fact")) :
       Unfolds(w, IF Now(w).apply
                    THEN Each([g \in fruitful |-> Derive(g, TextOf(g))])
                    ELSE <<>>)
  /\ UNCHANGED <<store, telemetry, dreams, budgets>>

insert_reflection_proposal(w) ==
  /\ At(w, "propose")
  /\ proposals' = Append(proposals,
       [group |-> Now(w).group, text |-> Now(w).text, by |-> w,
        status |-> "proposed", made |-> 0])
  /\ Done(w)
  /\ UNCHANGED <<store, telemetry, demoted, dreamt, events, budgets>>

(* A pass marks the proposal it inserted last.                               *)
Latest(w) ==
  CHOOSE i \in DOMAIN proposals :
    /\ proposals[i].by = w
    /\ \A j \in (i + 1)..Len(proposals) : proposals[j].by # w
mark_applied(w) ==
  /\ At(w, "applied")
  /\ proposals' = [proposals EXCEPT ![Latest(w)].status = "applied",
                                    ![Latest(w)].made = task[w].made]
  /\ Done(w)
  /\ UNCHANGED <<store, telemetry, demoted, dreamt, events, budgets>>

(* The feedback that the group's members are superseded.                     *)
record_memory_feedback(w) ==
  /\ At(w, "demote")
  /\ demoted' = [h \in Handle |->
                   demoted[h] + (IF h \in Now(w).group THEN 1 ELSE 0)]
  /\ Done(w)
  /\ UNCHANGED <<store, telemetry, proposals, dreamt, events, budgets>>

(* The watcher remembers the mark it found, not the one its pass has left.   *)
dreamt_at(w) ==
  /\ At(w, "dreamt")
  /\ dreamt' = task[w].mark
  /\ Done(w)
  /\ UNCHANGED <<store, telemetry, proposals, demoted, events, budgets>>

record_action(w) ==
  /\ At(w, "event")
  /\ events' = IF task[w].failed THEN events ELSE events \cup {task[w].mark}
  /\ Done(w)
  /\ UNCHANGED <<store, telemetry, proposals, demoted, dreamt, budgets>>

(***************************************************************************)
(* Failures, time, and the specification.                                  *)
(***************************************************************************)

(* A statement fails: what is soft is passed over.                           *)
Failing == {"find", "handle", "owners", "gate", "chunks", "expand", "look",
            "count", "select", "insert", "describe", "delete", "stance",
            "sources", "kind", "drop", "keepfresh", "reflect", "synthesize",
            "propose", "applied", "demote", "event"}
StatementFails(w) ==
  /\ \E do \in Failing : At(w, do)
  /\ failures < MaxFailures
  /\ failures' = failures + 1
  /\ IF Now(w).soft THEN Done(w) ELSE Errs(w)
  /\ UNCHANGED <<now, ops, store, telemetry, dreams>>

(* A worker's process dies, and with it what the watcher remembers.          *)
Dies(w) ==
  /\ task[w] # Idle
  /\ failures < MaxFailures
  /\ failures' = failures + 1
  /\ Keep(task[w])
  /\ task' = [task EXCEPT ![w] = Idle]
  /\ dreamt' = IF Watching(w) THEN 0 ELSE dreamt
  /\ UNCHANGED <<now, ops, store, counts, receipts, proposals, demoted, events>>

Tick ==
  /\ now < MaxTime
  /\ now' = now + 1
  /\ UNCHANGED <<store, telemetry, dreams, task, ops, failures>>

Begins(w) ==
  \/ Recall(w) \/ Lookup(w) \/ Change(w) \/ Remember(w)
  \/ RefreshProfile(w) \/ Dream(w) \/ watch(w) \/ SweepDreams(w)
Recalls(w) ==
  \/ Find_(w) \/ ByHandle_(w) \/ memory_ids_for_original_reference(w)
  \/ gate_memories(w) \/ Refuse(w) \/ Expand_(w) \/ BackSources_(w)
  \/ select(w) \/ Elsewhere(w) \/ record(w) \/ Answer_(w)
Writes(w) ==
  \/ insert_memory(w) \/ describe(w) \/ delete_memory(w)
  \/ update_memory_policy(w) \/ auto_refresh(w) \/ read_sources(w)
  \/ kind_of_source(w) \/ replace_profiles(w) \/ drop(w)
Dreams(w) ==
  \/ reflect(w) \/ synthesize(w) \/ insert_reflection_proposal(w)
  \/ mark_applied(w) \/ record_memory_feedback(w) \/ dreamt_at(w)
  \/ record_action(w)

ServiceNext ==
  \/ Tick
  \/ \E w \in Worker :
       \/ Begins(w) \/ Recalls(w) \/ Writes(w) \/ Dreams(w)
       \/ StatementFails(w) \/ Dies(w)

ServiceSpec == ServiceInit /\ [][ServiceNext]_serviceVars

(***************************************************************************)
(* Properties.                                                             *)
(***************************************************************************)

(* The store, the counters and what each worker holds keep their types, and  *)
(* who has nothing left to do holds nothing.                                 *)
ServiceTypeOK ==
  /\ now \in 1..MaxTime /\ next \in 1..(MaxHandle + 1)
  /\ Live \subseteq 1..(next - 1) /\ mem \in [Live -> Memories]
  /\ \A h \in Live : mem[h].made <= now
  /\ counts \in [Delivery -> [Handle -> Nat]]
  /\ prepared \in [Delivery -> [Handle -> Nat]]
  /\ receipts \cup promised \subseteq Delivery \X Handle
  /\ proposals \in
       Seq([group : SUBSET Handle, text : SUBSET Fact, by : Worker,
            status : {"proposed", "applied"}, made : 0..MaxHandle])
  /\ demoted \in [Handle -> Nat]
  /\ dreamt \in 0..now /\ events \subseteq 0..now
  /\ \A w \in Worker :
       LET t == task[w]
       IN  /\ t.todo = <<>> => t = Idle
           /\ t.found \cup t.ok \cup t.hint \cup t.back \cup t.orig \subseteq Handle
           /\ t.stale \cup t.beyond \subseteq Handle
           /\ t.barred \subseteq 1..(next - 1)

(* What an answer is about to show was neither forgotten nor denied when the *)
(* call began, unless it was allowed meanwhile: the candidates of a recall   *)
(* are read before the gate decides and their chunks and originals after it. *)
NothingBarredIsShown ==
  \A w \in Worker :
    At(w, "answer") => Shown(task[w], Now(w).of) \cap task[w].barred = {}

(* A delivery is counted for an answer that is still going to be given, was  *)
(* given or was ready when its process died, and once for a request that is  *)
(* retried: nothing after the counting may refuse the answer.                *)
CountedOncePerRequest ==
  \A k \in Delivery, h \in Handle :
    LET Holding(keyed) == {w \in Worker : <<k, h, keyed>> \in task[w].counted}
        retried == <<k, h>> \in promised \/ Holding(TRUE) # {}
    IN  counts[k][h] <= prepared[k][h] + Cardinality(Holding(FALSE))
                          + (IF retried THEN 1 ELSE 0)

(* A regeneration that no other one overlaps replaces every profile that is  *)
(* among the newest user memories, however many deaths, errors or rivals     *)
(* left there: beside the new one it leaves only those that lay beyond the   *)
(* PROFILE_SOURCE_LIMIT memories it has listed.                              *)
ReplacesEveryProfile ==
  [][\A w \in Worker :
       ( /\ At(w, "describe") /\ Now(w).kind = "profile"
         /\ task[w].alone /\ task[w].made \in Live /\ describe(w) )
       => {h \in DOMAIN mem' : mem'[h].kind = "profile"}
            \subseteq task[w].beyond \cup {task[w].made}]_serviceVars

(* A proposal counts as applied once its consolidation is a memory of its    *)
(* own, with the text proposed, whoever else inserts memories meanwhile.     *)
AppliedIsRemembered ==
  \A i \in DOMAIN proposals :
    LET p == proposals[i]
    IN  p.status = "applied" =>
          /\ p.made \in 1..(next - 1) \ p.group
          /\ p.made \in Live => mem[p.made].text = p.text
          /\ \A j \in DOMAIN proposals :
               j # i /\ proposals[j].status = "applied" => proposals[j].made # p.made

(* A memory loses standing only to consolidations that exist: at most once   *)
(* for every applied proposal it belongs to.                                 *)
DemotedIsConsolidated ==
  \A h \in Handle :
    demoted[h] <= Cardinality({i \in DOMAIN proposals :
                    proposals[i].status = "applied" /\ h \in proposals[i].group})

(* However many passes run at once or die, what they say they did to sources *)
(* and proposals is accounted for by consolidations that were made.          *)
ConsolidationsAreAccounted == AppliedIsRemembered /\ DemotedIsConsolidated

=============================================================================
