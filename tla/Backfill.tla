------------------------------ MODULE Backfill ------------------------------
(***************************************************************************)
(* recovery.rs: the offline backfill that re-extracts facts and procedures *)
(* from archived transcripts, and then compresses the sessions that were   *)
(* never compressed (compress.rs in local mode).  A receipt per transcript *)
(* says how far it got; the child memories it writes carry a source_ref    *)
(* that a later run recognises.  A runner may die between any two          *)
(* statements and the command is simply run again.                         *)
(***************************************************************************)
EXTENDS Integers, Sequences, FiniteSets

CONSTANTS
  Transcripts,   \* number of sessions, in the order of their narratives' memory ids
  Items,         \* number of facts and procedures extracted from each
  Corrupt,       \* the ones whose CCR blob cannot be loaded
  Dated,         \* archives whose compression dated them: a child reads "... (as of ...)"
  Runner,        \* concurrent `ironmem extraction backfill` processes
  Limit,         \* LIMIT of the candidate query
  None,          \* no receipt, no value
  MaxFaults      \* bound: crashes and failed statements

Transcript == 1..Transcripts
Item       == 1..Items

ASSUME ConstantsAssumption ==
  /\ Transcripts \in Nat /\ Items \in Nat
  /\ Corrupt \subseteq Transcript /\ Dated \subseteq Transcript
  /\ Limit \in Nat \ {0}
  /\ None \notin {"running", "complete", "failed", "plain", "cited", "torn"}
  /\ MaxFaults \in Nat

\* How far a child row has been written.  insert_memory creates it together
\* with a default memory_meta row (kind "session", no parent); a Derived row
\* is a complete child of an earlier compression, under its own source_ref.
Bare     == 0
Kinded   == 1
Derived  == 2
Governed == 3   \* parent and source_ref written: the row a later run recognises
Ledgered == 4   \* its "derive" event is in the ledger
Indexed  == 5   \* its event time and embedding are written

VARIABLES
  archive,    \* a session is open, compressed, or archived: compressed with a session_blob
  skim,       \* the narrative's chunks: plain, citing the transcript, or torn by a failure
  receipt,    \* extraction_receipts.status
  children,   \* children[t][i]: the child rows of item i of t, in id order
  swallowed,  \* history: the sessions whose compression passed over a failed child
  pc, todo, item, child,   \* a runner's position, candidates, item and child row
  left,                    \* how many sessions its LIMIT leaves it to compress
  faults

sessions == <<archive, skim, swallowed>>
rows     == <<receipt, children>>
place    == <<todo, item, child, left>>
vars     == <<sessions, rows, pc, place, faults>>

Loop     == {"load", "check", "start", "find", "insert", "kind", "govern",
             "ledger", "index", "complete", "fail", "mark_failed"}
Graduate == {"mark", "outline", "birth", "tag", "adopt", "transcript", "spans", "record"}

\* Receipts, child rows and runners have the shape recovery.rs gives them, and a
\* runner inside the loop has a candidate.
TypeOK ==
  /\ archive \in [Transcript -> {"open", "compressed", "archived"}]
  /\ skim \in [Transcript -> {None, "plain", "cited", "torn"}]
  /\ swallowed \subseteq Transcript
  /\ receipt \in [Transcript -> {None, "running", "complete", "failed"}]
  /\ children \in [Transcript -> [Item -> Seq(Bare..Indexed)]]
  /\ pc \in [Runner -> {"idle", "sessions"} \cup Loop \cup Graduate]
  /\ todo \in [Runner -> Seq(Transcript)]
  /\ \A r \in Runner : pc[r] \in Loop \cup Graduate <=> todo[r] # <<>>
  /\ left \in [Runner -> Nat]
  /\ item \in [Runner -> Nat]
  /\ child \in [Runner -> Nat]
  /\ faults \in Nat

\* Archives from before the backfill existed: some have children, written by
\* their compression, none has a receipt.  Later sessions are still open.
Init ==
  /\ \E n \in 0..Transcripts :
       /\ Dated \subseteq 1..n
       /\ archive = [t \in Transcript |-> IF t <= n THEN "archived" ELSE "open"]
  /\ skim = [t \in Transcript |-> IF archive[t] = "open" THEN None ELSE "cited"]
  /\ swallowed = {}
  /\ receipt = [t \in Transcript |-> None]
  /\ children \in [Transcript -> [Item -> {<<>>, <<Derived>>}]]
  /\ \A t \in Transcript : archive[t] = "open" => children[t] = [i \in Item |-> <<>>]
  /\ pc = [r \in Runner |-> "idle"]
  /\ todo = [r \in Runner |-> <<>>]
  /\ item = [r \in Runner |-> 0]
  /\ child = [r \in Runner |-> 0]
  /\ left = [r \in Runner |-> 0]
  /\ faults = 0

Subject(r) == Head(todo[r])

Goto(r, from, to) ==
  /\ pc[r] = from
  /\ pc' = [pc EXCEPT ![r] = to]

\* The runner turns to its next candidate, or to the sessions never compressed.
NextCandidate(r) ==
  /\ todo' = [todo EXCEPT ![r] = Tail(@)]
  /\ pc' = [pc EXCEPT ![r] = IF Len(todo[r]) > 1 THEN "load"
                            ELSE IF left[r] > 0 THEN "sessions" ELSE "idle"]
  /\ item' = [item EXCEPT ![r] = 0]
  /\ child' = [child EXCEPT ![r] = 0]
  /\ UNCHANGED left

\* A write to row child[r]; what is already there stays.
Raise(r, level) ==
  children' = [children EXCEPT ![Subject(r)][item[r]][child[r]] =
                 IF @ < level THEN level ELSE @]

-----------------------------------------------------------------------------
\* Mutant: a receipt of any status counts as done.
ReceiptComplete_Any(t) == receipt[t] # None

ReceiptComplete(t) == receipt[t] = "complete"

\* ORDER BY ... LIMIT
FirstOf(T, limit) ==
  LET rank(t) == Cardinality({u \in T : u <= t})
      size    == IF Cardinality(T) < limit THEN Cardinality(T) ELSE limit
  IN [k \in 1..size |-> CHOOSE t \in T : rank(t) = k]

\* The archives without a complete receipt.
archived_candidates ==
  FirstOf({t \in Transcript : archive[t] = "archived" /\ ~ReceiptComplete(t)}, Limit)

\* `ironmem extraction status`: archived_candidates_remaining or
\* uncompressed_sessions_remaining is above zero.
status == \/ archived_candidates # <<>>
          \/ \E t \in Transcript : archive[t] = "open"

\* The command, run while the status says something remains.
backfill(r) ==
  /\ status
  /\ Goto(r, "idle", IF archived_candidates = <<>> THEN "sessions" ELSE "load")
  /\ todo' = [todo EXCEPT ![r] = archived_candidates]
  /\ left' = [left EXCEPT ![r] = Limit - Len(archived_candidates)]
  /\ UNCHANGED <<sessions, rows, item, child, faults>>

\* ccr::load_blob verifies the hash; a transcript it cannot load is failed.
load_blob(r) ==
  /\ Goto(r, "load", IF Subject(r) \in Corrupt THEN "fail" ELSE "check")
  /\ UNCHANGED <<sessions, rows, place, faults>>

receipt_complete(r) ==
  /\ pc[r] = "check"
  /\ \/ /\ ReceiptComplete(Subject(r))
        /\ NextCandidate(r)
     \/ /\ ~ReceiptComplete(Subject(r))
        /\ Goto(r, "check", "start")
        /\ UNCHANGED place
  /\ UNCHANGED <<sessions, rows, faults>>

start_receipt(r) ==
  /\ Goto(r, "start", IF Items = 0 THEN "complete" ELSE "find")
  /\ receipt' = [receipt EXCEPT ![Subject(r)] = "running"]
  /\ item' = [item EXCEPT ![r] = 1]
  /\ UNCHANGED <<sessions, children, todo, child, left, faults>>

-----------------------------------------------------------------------------
(* persist_children, for the item in hand.                                  *)

\* Mutant: a child is recognised only by its text, never by its source_ref.
recoverable_child_id_TextOnly(t, i) ==
  {k \in DOMAIN children[t][i] : children[t][i][k] = Derived}

\* The row the query returns, if any: one under this source_ref, else one of
\* the same text that belongs to the narrative.  (It also accepts a row without
\* memory_meta; insert_memory leaves none.  The children of a dated session were
\* stored with the date in their text and are not alike.)
recoverable_child_id(t, i) ==
  LET kids  == DOMAIN children[t][i]
      exact == {k \in kids : children[t][i][k] >= Governed}
      alike == {k \in kids : children[t][i][k] = Derived /\ t \notin Dated}
  IN IF exact # {} THEN exact ELSE alike

NextItem(r) ==
  /\ pc' = [pc EXCEPT ![r] = IF item[r] = Items THEN "complete" ELSE "find"]
  /\ item' = [item EXCEPT ![r] = IF item[r] = Items THEN @ ELSE @ + 1]

FindChild(r) ==
  /\ pc[r] = "find"
  /\ LET t     == Subject(r)
         found == recoverable_child_id(t, item[r])
         first == CHOOSE k \in found : \A l \in found : k <= l
     IN \/ /\ found = {}
           /\ Goto(r, "find", "insert")
           /\ UNCHANGED <<item, child>>
        \/ /\ found # {} /\ children[t][item[r]][first] >= Governed
           /\ NextItem(r)
           /\ UNCHANGED child
        \/ /\ found # {} /\ children[t][item[r]][first] < Governed
           /\ Goto(r, "find", "kind")
           /\ child' = [child EXCEPT ![r] = first]
           /\ UNCHANGED item
  /\ UNCHANGED <<sessions, rows, todo, left, faults>>

insert_memory(r) ==
  /\ Goto(r, "insert", "kind")
  /\ children' = [children EXCEPT ![Subject(r)][item[r]] = Append(@, Bare)]
  /\ child' = [child EXCEPT ![r] = Len(children[Subject(r)][item[r]]) + 1]
  /\ UNCHANGED <<sessions, receipt, todo, item, left, faults>>

\* upsert_memory_meta and set_memory_scope_kind
set_memory_scope_kind(r) ==
  /\ Goto(r, "kind", "govern")
  /\ Raise(r, Kinded)
  /\ UNCHANGED <<sessions, receipt, place, faults>>

\* apply_memory_governance writes memory_meta first and the ledger after it.
apply_memory_governance(r) ==
  /\ Goto(r, "govern", "ledger")
  /\ Raise(r, Governed)
  /\ UNCHANGED <<sessions, receipt, place, faults>>

append_memory_ledger(r) ==
  /\ Goto(r, "ledger", "index")
  /\ Raise(r, Ledgered)
  /\ UNCHANGED <<sessions, receipt, place, faults>>

\* set_memory_event_time and the vector upsert
IndexChild(r) ==
  /\ pc[r] = "index"
  /\ Raise(r, Indexed)
  /\ NextItem(r)
  /\ UNCHANGED <<sessions, receipt, todo, child, left, faults>>

complete_receipt(r) ==
  /\ pc[r] = "complete"
  /\ receipt' = [receipt EXCEPT ![Subject(r)] = "complete"]
  /\ NextCandidate(r)
  /\ UNCHANGED <<sessions, children, faults>>

-----------------------------------------------------------------------------
(* fail_receipt, and the failures that lead to it.                          *)

FailStart(r) ==
  /\ Goto(r, "fail", "mark_failed")
  /\ receipt' = [receipt EXCEPT ![Subject(r)] = "running"]
  /\ UNCHANGED <<sessions, children, place, faults>>

FailMark(r) ==
  /\ pc[r] = "mark_failed"
  /\ receipt' = [receipt EXCEPT ![Subject(r)] = "failed"]
  /\ NextCandidate(r)
  /\ UNCHANGED <<sessions, children, faults>>

\* Mutant: an error of persist_children is dropped and the receipt completed.
StatementFails_Dropped(r) ==
  /\ pc[r] \in {"find", "insert", "kind", "govern", "ledger", "index"}
  /\ faults < MaxFaults
  /\ faults' = faults + 1
  /\ pc' = [pc EXCEPT ![r] = "complete"]
  /\ UNCHANGED <<sessions, rows, place>>

\* persist_children returns an error.
StatementFails(r) ==
  /\ pc[r] \in {"find", "insert", "kind", "govern", "ledger", "index"}
  /\ faults < MaxFaults
  /\ faults' = faults + 1
  /\ pc' = [pc EXCEPT ![r] = "fail"]
  /\ UNCHANGED <<sessions, rows, place>>

\* The process dies, or a statement whose error `?` passes up fails: one of the
\* loop itself, or of persist up to the narrative's kind.
Crash(r) ==
  /\ pc[r] # "idle"
  /\ faults < MaxFaults
  /\ faults' = faults + 1
  /\ pc' = [pc EXCEPT ![r] = "idle"]
  /\ todo' = [todo EXCEPT ![r] = <<>>]
  /\ item' = [item EXCEPT ![r] = 0]
  /\ child' = [child EXCEPT ![r] = 0]
  /\ left' = [left EXCEPT ![r] = 0]
  /\ UNCHANGED <<sessions, rows>>

-----------------------------------------------------------------------------
(* The second half of backfill: compress::run over the sessions that were   *)
(* never compressed.                                                        *)

uncompressed_candidates(r) ==
  LET open == FirstOf({t \in Transcript : archive[t] = "open"}, left[r])
  IN /\ Goto(r, "sessions", IF open = <<>> THEN "idle" ELSE "mark")
     /\ todo' = [todo EXCEPT ![r] = open]
     /\ left' = [left EXCEPT ![r] = 0]
     /\ UNCHANGED <<sessions, rows, item, child, faults>>

NextSession(r) ==
  /\ pc' = [pc EXCEPT ![r] = IF Len(todo[r]) > 1 THEN "mark" ELSE "idle"]
  /\ todo' = [todo EXCEPT ![r] = Tail(@)]
  /\ item' = [item EXCEPT ![r] = 0]
  /\ child' = [child EXCEPT ![r] = 0]
  /\ UNCHANGED left

\* persist inserts the narrative, which nothing here can see without its
\* session_blob, and marks the session compressed.
mark_compressed(r) ==
  /\ Goto(r, "mark", "outline")
  /\ archive' = [archive EXCEPT ![Subject(r)] = "compressed"]
  /\ UNCHANGED <<skim, swallowed, rows, place, faults>>

NextBirth(r) ==
  /\ pc' = [pc EXCEPT ![r] = IF item[r] = Items THEN "transcript" ELSE "birth"]
  /\ item' = [item EXCEPT ![r] = @ + 1]
  /\ child' = [child EXCEPT ![r] = 0]

\* persist_memory_skim without a transcript: chunks that cite nothing.
Outline(r) ==
  /\ pc[r] = "outline"
  /\ skim' = [skim EXCEPT ![Subject(r)] = "plain"]
  /\ NextBirth(r)
  /\ UNCHANGED <<archive, swallowed, rows, todo, left, faults>>

\* persist_procedure and persist_fact: insert the row, tag its kind, govern it.
ChildIsBorn(r) ==
  /\ Goto(r, "birth", "tag")
  /\ children' = [children EXCEPT ![Subject(r)][item[r]] = Append(@, Bare)]
  /\ child' = [child EXCEPT ![r] = Len(children[Subject(r)][item[r]]) + 1]
  /\ UNCHANGED <<sessions, receipt, todo, item, left, faults>>

ChildIsTagged(r) ==
  /\ Goto(r, "tag", "adopt")
  /\ Raise(r, Kinded)
  /\ UNCHANGED <<sessions, receipt, place, faults>>

persist_procedure(r) ==
  /\ pc[r] = "adopt"
  /\ Raise(r, Derived)
  /\ NextBirth(r)
  /\ UNCHANGED <<sessions, receipt, todo, left, faults>>

persist_fact(r) == ChildIsBorn(r) \/ ChildIsTagged(r) \/ persist_procedure(r)

store_session_transcript(r) ==
  /\ Goto(r, "transcript", "spans")
  /\ archive' = [archive EXCEPT ![Subject(r)] = "archived"]
  /\ UNCHANGED <<skim, swallowed, rows, place, faults>>

\* The chunks are replaced by ones that cite spans of the transcript.
persist_memory_skim(r) ==
  /\ Goto(r, "spans", "record")
  /\ skim' = [skim EXCEPT ![Subject(r)] = "cited"]
  /\ UNCHANGED <<archive, swallowed, rows, place, faults>>

\* A complete receipt whatever became of the children.  (Correction mining and the
\* observer follow; they write memories of their own.)
record_compression(r) ==
  /\ pc[r] = "record"
  /\ receipt' = [receipt EXCEPT ![Subject(r)] = "complete"]
  /\ NextSession(r)
  /\ UNCHANGED <<sessions, children, faults>>

\* Mutant: the skim is written although the transcript was not stored.
PassOver_CitesAnyway(r) ==
  LET t == Subject(r) IN
  \/ /\ pc[r] \in {"birth", "tag", "adopt"}
     /\ \/ NextBirth(r) /\ pc[r] # "tag" /\ swallowed' = swallowed \cup {t}
        \/ Goto(r, "tag", "adopt") /\ UNCHANGED <<item, child, swallowed>>
     /\ UNCHANGED <<skim, todo, left>>
  \/ Goto(r, "transcript", "spans") /\ UNCHANGED <<skim, swallowed, place>>

\* What compress::run does about an error it only logs.  replace_memory_chunks
\* deletes the old chunks before it inserts the new ones, one by one.
PassOver(r) ==
  LET t == Subject(r) IN
  \/ /\ pc[r] \in {"birth", "tag", "adopt"}
     /\ \/ NextBirth(r) /\ pc[r] # "tag" /\ swallowed' = swallowed \cup {t}
        \/ Goto(r, "tag", "adopt") /\ UNCHANGED <<item, child, swallowed>>
     /\ UNCHANGED <<skim, todo, left>>
  \/ /\ pc[r] = "outline"
     /\ NextBirth(r)
     /\ UNCHANGED <<skim, swallowed, todo, left>>
  \/ /\ Goto(r, "spans", "record")
     /\ skim' = [skim EXCEPT ![t] = "torn"]
     /\ UNCHANGED <<swallowed, place>>
  \/ /\ pc[r] \in {"transcript", "record"}
     /\ NextSession(r)
     /\ UNCHANGED <<skim, swallowed>>

SoftFailure(r) ==
  /\ pc[r] \in Graduate
  /\ faults < MaxFaults
  /\ faults' = faults + 1
  /\ PassOver(r)
  /\ \/ UNCHANGED children
     \/ pc[r] = "adopt" /\ Raise(r, Derived)   \* the ledger append failed
  /\ UNCHANGED <<archive, receipt>>

-----------------------------------------------------------------------------
PersistChild(r) ==
  \/ FindChild(r) \/ insert_memory(r) \/ set_memory_scope_kind(r)
  \/ apply_memory_governance(r) \/ append_memory_ledger(r) \/ IndexChild(r)

run(r) ==
  \/ mark_compressed(r) \/ Outline(r) \/ persist_fact(r)
  \/ store_session_transcript(r) \/ persist_memory_skim(r) \/ record_compression(r)

Step(r) ==
  \/ backfill(r) \/ load_blob(r) \/ receipt_complete(r) \/ start_receipt(r)
  \/ PersistChild(r) \/ complete_receipt(r)
  \/ FailStart(r) \/ FailMark(r) \/ uncompressed_candidates(r) \/ run(r)

Next == \E r \in Runner : Step(r) \/ StatementFails(r) \/ SoftFailure(r) \/ Crash(r)

Spec == Init /\ [][Next]_vars

\* The operator runs the command until nothing is left, and a run that does not
\* die comes to its end.
FairSpec == Spec /\ \A r \in Runner : WF_vars(Step(r))

-----------------------------------------------------------------------------
HasChild(t, i) == \E k \in DOMAIN children[t][i] : children[t][i][k] >= Derived

\* A complete receipt closes a transcript for good, so it may only be written
\* once every extracted item has a child of its narrative, through failures,
\* crashes and retries.  Sessions whose compression logged the loss of a child
\* and went on are the exception: their receipt is complete all the same
\* (recovery.rs, record_compression).
CompleteMeansGoverned ==
  \A t \in Transcript \ swallowed :
    receipt[t] = "complete" => \A i \in Item : HasChild(t, i)

\* Retries do not write a second child under a source_ref (one runner at a time:
\* nothing in the schema stops two).
OneGovernedChild ==
  \A t \in Transcript, i \in Item :
    Cardinality({k \in DOMAIN children[t][i] : children[t][i][k] >= Governed}) <= 1

\* A chunk cites spans of a transcript only once the transcript is stored and the
\* narrative refers to it, whichever statement of the compression failed or
\* ended it (persist_memory_skim, store_session_transcript).
SpansResolve ==
  \A t \in Transcript : skim[t] \in {"cited", "torn"} => archive[t] = "archived"

\* Every session is eventually compressed, and every transcript that is archived
\* and can be read is eventually extracted: an interrupted or failed receipt is
\* taken up again.
BackfillCompletes ==
  \A t \in Transcript \ Corrupt :
    /\ <>(archive[t] # "open")
    /\ (archive[t] = "archived") ~> (receipt[t] = "complete")
=============================================================================
