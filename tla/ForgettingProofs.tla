-------------------------- MODULE ForgettingProofs --------------------------
(***************************************************************************)
(* Proofs about governed deletion, for any memories, transcripts and tasks *)
(* and without the bounds of the TLC runs.                                 *)
(***************************************************************************)
EXTENDS Forgetting, FiniteSetTheorems, TLAPS

(***************************************************************************)
(* A task past the ledger has its memory's "forget" entry behind it; this  *)
(* is what makes the order of governed_delete_memory matter.               *)
(***************************************************************************)
PastLedger ==
  \A t \in Deleter :
    pc[t] \in {"decref", "gc", "delete"} => subject[t] \in forgotten

LedgerInv == PastLedger /\ DeletedIsLedgered

(***************************************************************************)
(* Nobody remembers a memory that is there already, so what is left of one *)
(* after its deletion has somebody who is about to purge it.               *)
(***************************************************************************)
WritersAreElsewhere ==
  /\ \A m \in Existing : row[m] # "absent"
  /\ \A t \in Writer : pc[t] \in Writing => subject[t] \notin Existing

PurgeUnderWay ==
  \A m \in Existing : row[m] = "deleted" =>
    /\ m \in vectors =>
         \E t \in Deleter : subject[t] = m /\ pc[t] = "vectors"
    /\ m \in meta =>
         \E t \in Deleter : subject[t] = m /\ pc[t] \in Purging

PurgeInv == faults = 0 => WritersAreElsewhere /\ PurgeUnderWay

(***************************************************************************)
(* Who counts on transcript b: a memory that is linked to it, or that its  *)
(* writer is about to link, and that has not given its reference back.     *)
(***************************************************************************)
Holders(b) ==
  {m \in Memory :
     /\ BlobOf[m] = b /\ released[m] = 0
     /\ \/ link[m] = b
        \/ \E t \in Writer : pc[t] = "link" /\ subject[t] = m}

OnceReleased == \A m \in Memory : released[m] <= 1

\* The counter is never below the number of those who count on it, ...
Counted == OnceReleased => \A b \in Blob : Cardinality(Holders(b)) <= refcount[b]

\* ... and what is counted is stored.
CountedIsStored == \A b \in Blob : refcount[b] > 0 => b \in blobs

(***************************************************************************)
(* A memory is written once, by one task, and is linked only at the end,   *)
(* so nobody takes its reference away while it is being written.           *)
(***************************************************************************)
WrittenOnce ==
  /\ \A m \in Memory : row[m] = "absent" => link[m] = None /\ released[m] = 0
  /\ \A m \in Memory : link[m] # None => link[m] = BlobOf[m]
  /\ \A t \in Writer : pc[t] \in Writing =>
       row[subject[t]] # "absent" /\ link[subject[t]] = None /\ released[subject[t]] = 0
  /\ \A t, u \in Writer :
       pc[t] \in Writing /\ pc[u] \in Writing /\ subject[t] = subject[u] => t = u

CountInv == Counted /\ CountedIsStored /\ TranscriptKept

-----------------------------------------------------------------------------
\* The program points, spelled out.
LEMMA Names ==
  /\ PC = {"idle", "next", "read", "meta", "check", "govern", "embed", "store",
           "link", "tombstone", "ledger", "decref", "gc", "delete", "vectors",
           "unmeta"}
  /\ Writing = {"meta", "check", "govern", "embed", "store", "link"}
  /\ Deleting = {"tombstone", "ledger", "decref", "gc", "delete"}
  /\ Purging = {"vectors", "unmeta"}
  BY DEF PC, Writing, Deleting, Purging

\* The initial states are well typed; the counters are cardinalities.
LEMMA InitTypeOK == Init => TypeOK
<1> SUFFICES ASSUME Init PROVE TypeOK
  OBVIOUS
<1>1. ASSUME NEW b \in Blob
      PROVE  Cardinality({m \in Existing : BlobOf[m] = b}) \in Nat
  <2>1. {m \in Existing : BlobOf[m] = b} \subseteq Memory
    BY ConstantsAssumption
  <2> QED BY <2>1, FS_Subset, FS_CardinalityType, ConstantsAssumption
<1>2. refcount \in [Blob -> Nat]
  BY <1>1 DEF Init
<1>3. blobs \subseteq Blob /\ link \in [Memory -> Blob \union {None}]
  BY ConstantsAssumption DEF Init
<1>4. TablesOK
  BY <1>2, <1>3, ConstantsAssumption DEF Init, TablesOK
<1>5. LocalsOK
  BY Names DEF Init, LocalsOK
<1>6. \A m \in Memory : link[m] # None => m \in meta
  BY SMTT(30), ConstantsAssumption DEF Init
<1> QED BY <1>4, <1>5, <1>6 DEF TypeOK

\* Every step keeps the types.
LEMMA NextTypeOK ==
  ASSUME TypeOK, [Next]_vars
  PROVE  TypeOK'
<1> USE ConstantsAssumption, Names
    DEF TypeOK, TablesOK, LocalsOK, vars, metas, ccr, locals, budgets, Goto,
        Starts, Fault, Task
<1>1. ASSUME NEW t \in Writer, NEW m \in Memory, insert_memory(t, m)
      PROVE  TypeOK'
  BY <1>1 DEF insert_memory
<1>2. ASSUME NEW t \in Writer, DescribeMemory(t) PROVE TypeOK'
  BY <1>2 DEF DescribeMemory
<1>3. ASSUME NEW t \in Writer, CheckMemory(t) PROVE TypeOK'
  BY <1>3 DEF CheckMemory, Narrative
<1>4. ASSUME NEW t \in Writer, Govern(t) PROVE TypeOK'
  BY <1>4 DEF Govern
<1>5. ASSUME NEW t \in Writer, Embed(t) PROVE TypeOK'
  BY <1>5 DEF Embed, Narrative
<1>6. ASSUME NEW t \in Writer, insert_blob(t) PROVE TypeOK'
  BY <1>6 DEF insert_blob
<1>7. ASSUME NEW t \in Writer, set_memory_session_blob(t) PROVE TypeOK'
  BY <1>7 DEF set_memory_session_blob
<1>8. ASSUME NEW t \in Writer, WriterFails(t) PROVE TypeOK'
  BY <1>8 DEF WriterFails, Narrative
<1>9. ASSUME NEW t \in Deleter, NEW m \in Memory, forget(t, m) PROVE TypeOK'
  BY <1>9 DEF forget
<1>10. ASSUME NEW t \in Deleter, wipe(t) PROVE TypeOK'
  BY <1>10 DEF wipe, Live
<1>11. ASSUME NEW t \in Deleter, NextId(t) PROVE TypeOK'
  BY <1>11 DEF NextId
<1>12. ASSUME NEW t \in Deleter, ReadMemory(t) PROVE TypeOK'
  BY <1>12 DEF ReadMemory
<1>13. ASSUME NEW t \in Deleter, Tombstone(t) PROVE TypeOK'
  BY <1>13 DEF Tombstone
<1>14. ASSUME NEW t \in Deleter, LedgerForget(t) PROVE TypeOK'
  BY <1>14 DEF LedgerForget
<1>15. ASSUME NEW t \in Deleter, decref_memory_session_blob(t) PROVE TypeOK'
  BY <1>15 DEF decref_memory_session_blob
<1>16. ASSUME NEW t \in Deleter, gc_blobs(t) PROVE TypeOK'
  BY <1>16 DEF gc_blobs, CollectGarbage
<1>17. ASSUME NEW t \in Deleter, delete_memory(t) PROVE TypeOK'
  BY <1>17 DEF delete_memory
<1>18. ASSUME NEW t \in Deleter, PurgeVectors(t) PROVE TypeOK'
  BY <1>18 DEF PurgeVectors
<1>19. ASSUME NEW t \in Deleter, delete_memory_meta(t) PROVE TypeOK'
  BY <1>19 DEF delete_memory_meta
<1>20. ASSUME NEW t \in Deleter, DeleterFails(t) PROVE TypeOK'
  BY <1>20 DEF DeleterFails
<1>21. ASSUME NEW t \in Task, Crash(t) PROVE TypeOK'
  BY <1>21 DEF Crash
<1>22. ASSUME run_gc PROVE TypeOK'
  BY <1>22 DEF run_gc, CollectGarbage
<1>23. ASSUME UNCHANGED vars PROVE TypeOK'
  BY <1>23 DEF vars
<1> QED
  BY <1>1, <1>2, <1>3, <1>4, <1>5, <1>6, <1>7, <1>8, <1>9, <1>10, <1>11,
     <1>12, <1>13, <1>14, <1>15, <1>16, <1>17, <1>18, <1>19, <1>20,
     <1>21, <1>22, <1>23
     DEF Next, Write, Delete, Task

\* Every step keeps the ledger ahead of the deletions.
LEMMA LedgerStep ==
  ASSUME TypeOK, LedgerInv, [Next]_vars
  PROVE  LedgerInv'
<1> USE ConstantsAssumption, Names
    DEF TypeOK, TablesOK, LocalsOK, LedgerInv, PastLedger, DeletedIsLedgered,
        vars, metas, ccr, locals, budgets, Goto, Starts, Fault, Task
<1>1. ASSUME NEW t \in Writer, NEW m \in Memory, insert_memory(t, m)
      PROVE  LedgerInv'
  BY <1>1 DEF insert_memory
<1>2. ASSUME NEW t \in Writer, DescribeMemory(t) PROVE LedgerInv'
  BY <1>2 DEF DescribeMemory
<1>3. ASSUME NEW t \in Writer, CheckMemory(t) PROVE LedgerInv'
  BY <1>3 DEF CheckMemory, Narrative
<1>4. ASSUME NEW t \in Writer, Govern(t) PROVE LedgerInv'
  BY <1>4 DEF Govern
<1>5. ASSUME NEW t \in Writer, Embed(t) PROVE LedgerInv'
  BY <1>5 DEF Embed, Narrative
<1>6. ASSUME NEW t \in Writer, insert_blob(t) PROVE LedgerInv'
  BY <1>6 DEF insert_blob
<1>7. ASSUME NEW t \in Writer, set_memory_session_blob(t) PROVE LedgerInv'
  BY <1>7 DEF set_memory_session_blob
<1>8. ASSUME NEW t \in Writer, WriterFails(t) PROVE LedgerInv'
  BY <1>8 DEF WriterFails, Narrative
<1>9. ASSUME NEW t \in Deleter, NEW m \in Memory, forget(t, m)
      PROVE  LedgerInv'
  BY <1>9 DEF forget
<1>10. ASSUME NEW t \in Deleter, wipe(t) PROVE LedgerInv'
  BY <1>10 DEF wipe, Live
<1>11. ASSUME NEW t \in Deleter, NextId(t) PROVE LedgerInv'
  BY <1>11 DEF NextId
<1>12. ASSUME NEW t \in Deleter, ReadMemory(t) PROVE LedgerInv'
  BY <1>12 DEF ReadMemory
<1>13. ASSUME NEW t \in Deleter, Tombstone(t) PROVE LedgerInv'
  BY <1>13 DEF Tombstone
<1>14. ASSUME NEW t \in Deleter, LedgerForget(t) PROVE LedgerInv'
  BY <1>14 DEF LedgerForget
<1>15. ASSUME NEW t \in Deleter, decref_memory_session_blob(t)
      PROVE  LedgerInv'
  BY <1>15 DEF decref_memory_session_blob
<1>16. ASSUME NEW t \in Deleter, gc_blobs(t) PROVE LedgerInv'
  BY <1>16 DEF gc_blobs, CollectGarbage
<1>17. ASSUME NEW t \in Deleter, delete_memory(t) PROVE LedgerInv'
  BY <1>17 DEF delete_memory
<1>18. ASSUME NEW t \in Deleter, PurgeVectors(t) PROVE LedgerInv'
  BY <1>18 DEF PurgeVectors
<1>19. ASSUME NEW t \in Deleter, delete_memory_meta(t) PROVE LedgerInv'
  BY <1>19 DEF delete_memory_meta
<1>20. ASSUME NEW t \in Deleter, DeleterFails(t) PROVE LedgerInv'
  BY <1>20 DEF DeleterFails
<1>21. ASSUME NEW t \in Task, Crash(t) PROVE LedgerInv'
  BY <1>21 DEF Crash
<1>22. ASSUME run_gc PROVE LedgerInv'
  BY <1>22 DEF run_gc, CollectGarbage
<1>23. ASSUME UNCHANGED vars PROVE LedgerInv'
  BY <1>23 DEF vars
<1> QED
  BY <1>1, <1>2, <1>3, <1>4, <1>5, <1>6, <1>7, <1>8, <1>9, <1>10, <1>11,
     <1>12, <1>13, <1>14, <1>15, <1>16, <1>17, <1>18, <1>19, <1>20,
     <1>21, <1>22, <1>23
     DEF Next, Write, Delete, Task

\* While nothing fails, nobody but the deleter of the row touches what is left
\* of it.
LEMMA PurgeStep ==
  ASSUME TypeOK, PurgeInv, [Next]_vars
  PROVE  PurgeInv'
<1> USE ConstantsAssumption, Names
    DEF TypeOK, TablesOK, LocalsOK, PurgeInv, WritersAreElsewhere, PurgeUnderWay,
        vars, metas, ccr, locals, budgets, Goto, Starts, Fault, Task
<1>1. ASSUME NEW t \in Writer, NEW m \in Memory, insert_memory(t, m)
      PROVE  PurgeInv'
  BY <1>1 DEF insert_memory
<1>2. ASSUME NEW t \in Writer, DescribeMemory(t)
      PROVE  PurgeInv'
  BY <1>2 DEF DescribeMemory
<1>3. ASSUME NEW t \in Writer, CheckMemory(t)
      PROVE  PurgeInv'
  BY <1>3 DEF CheckMemory, Narrative
<1>4. ASSUME NEW t \in Writer, Govern(t)
      PROVE  PurgeInv'
  BY <1>4 DEF Govern
<1>5. ASSUME NEW t \in Writer, Embed(t)
      PROVE  PurgeInv'
  BY <1>5 DEF Embed, Narrative
<1>6. ASSUME NEW t \in Writer, insert_blob(t)
      PROVE  PurgeInv'
  BY <1>6 DEF insert_blob
<1>7. ASSUME NEW t \in Writer, set_memory_session_blob(t)
      PROVE  PurgeInv'
  BY <1>7 DEF set_memory_session_blob
<1>8. ASSUME NEW t \in Writer, WriterFails(t)
      PROVE  PurgeInv'
  BY <1>8 DEF WriterFails, Narrative
<1>9. ASSUME NEW t \in Deleter, NEW m \in Memory, forget(t, m)
      PROVE  PurgeInv'
  BY <1>9 DEF forget
<1>10. ASSUME NEW t \in Deleter, wipe(t)
      PROVE  PurgeInv'
  BY <1>10 DEF wipe, Live
<1>11. ASSUME NEW t \in Deleter, NextId(t)
      PROVE  PurgeInv'
  BY <1>11 DEF NextId
<1>12. ASSUME NEW t \in Deleter, ReadMemory(t)
      PROVE  PurgeInv'
  BY <1>12 DEF ReadMemory
<1>13. ASSUME NEW t \in Deleter, Tombstone(t)
      PROVE  PurgeInv'
  BY <1>13 DEF Tombstone
<1>14. ASSUME NEW t \in Deleter, LedgerForget(t)
      PROVE  PurgeInv'
  BY <1>14 DEF LedgerForget
<1>15. ASSUME NEW t \in Deleter, decref_memory_session_blob(t)
      PROVE  PurgeInv'
  BY <1>15 DEF decref_memory_session_blob
<1>16. ASSUME NEW t \in Deleter, gc_blobs(t)
      PROVE  PurgeInv'
  BY <1>16 DEF gc_blobs, CollectGarbage
<1>17. ASSUME NEW t \in Deleter, delete_memory(t)
      PROVE  PurgeInv'
  BY <1>17 DEF delete_memory
<1>18. ASSUME NEW t \in Deleter, PurgeVectors(t)
      PROVE  PurgeInv'
  BY <1>18 DEF PurgeVectors
<1>19. ASSUME NEW t \in Deleter, delete_memory_meta(t)
      PROVE  PurgeInv'
  BY <1>19 DEF delete_memory_meta
<1>20. ASSUME NEW t \in Deleter, DeleterFails(t)
      PROVE  PurgeInv'
  BY <1>20 DEF DeleterFails
<1>21. ASSUME NEW t \in Task, Crash(t)
      PROVE  PurgeInv'
  BY <1>21 DEF Crash
<1>22. ASSUME run_gc PROVE PurgeInv'
  BY <1>22 DEF run_gc, CollectGarbage
<1>23. ASSUME UNCHANGED vars PROVE PurgeInv'
  BY SMTT(30), <1>23 DEF vars
<1> QED
  BY <1>1, <1>2, <1>3, <1>4, <1>5, <1>6, <1>7, <1>8, <1>9, <1>10, <1>11,
     <1>12, <1>13, <1>14, <1>15, <1>16, <1>17, <1>18, <1>19, <1>20,
     <1>21, <1>22, <1>23
     DEF Next, Write, Delete, Task

\* Every step keeps memories written once.
LEMMA WrittenStep ==
  ASSUME TypeOK, WrittenOnce, [Next]_vars
  PROVE  WrittenOnce'
<1> USE ConstantsAssumption, Names
    DEF TypeOK, TablesOK, LocalsOK, WrittenOnce,
        vars, metas, ccr, locals, budgets, Goto, Starts, Fault, Task
<1>1. ASSUME NEW t \in Writer, NEW m \in Memory, insert_memory(t, m)
      PROVE  WrittenOnce'
  BY <1>1 DEF insert_memory
<1>2. ASSUME NEW t \in Writer, DescribeMemory(t)
      PROVE  WrittenOnce'
  BY <1>2 DEF DescribeMemory
<1>3. ASSUME NEW t \in Writer, CheckMemory(t)
      PROVE  WrittenOnce'
  BY <1>3 DEF CheckMemory, Narrative
<1>4. ASSUME NEW t \in Writer, Govern(t)
      PROVE  WrittenOnce'
  BY <1>4 DEF Govern
<1>5. ASSUME NEW t \in Writer, Embed(t)
      PROVE  WrittenOnce'
  BY <1>5 DEF Embed, Narrative
<1>6. ASSUME NEW t \in Writer, insert_blob(t)
      PROVE  WrittenOnce'
  BY <1>6 DEF insert_blob
<1>7. ASSUME NEW t \in Writer, set_memory_session_blob(t)
      PROVE  WrittenOnce'
  BY <1>7 DEF set_memory_session_blob
<1>8. ASSUME NEW t \in Writer, WriterFails(t)
      PROVE  WrittenOnce'
  BY <1>8 DEF WriterFails, Narrative
<1>9. ASSUME NEW t \in Deleter, NEW m \in Memory, forget(t, m)
      PROVE  WrittenOnce'
  BY <1>9 DEF forget
<1>10. ASSUME NEW t \in Deleter, wipe(t)
      PROVE  WrittenOnce'
  BY <1>10 DEF wipe, Live
<1>11. ASSUME NEW t \in Deleter, NextId(t)
      PROVE  WrittenOnce'
  BY <1>11 DEF NextId
<1>12. ASSUME NEW t \in Deleter, ReadMemory(t)
      PROVE  WrittenOnce'
  BY <1>12 DEF ReadMemory
<1>13. ASSUME NEW t \in Deleter, Tombstone(t)
      PROVE  WrittenOnce'
  BY <1>13 DEF Tombstone
<1>14. ASSUME NEW t \in Deleter, LedgerForget(t)
      PROVE  WrittenOnce'
  BY <1>14 DEF LedgerForget
<1>15. ASSUME NEW t \in Deleter, decref_memory_session_blob(t)
      PROVE  WrittenOnce'
  BY <1>15 DEF decref_memory_session_blob
<1>16. ASSUME NEW t \in Deleter, gc_blobs(t)
      PROVE  WrittenOnce'
  BY <1>16 DEF gc_blobs, CollectGarbage
<1>17. ASSUME NEW t \in Deleter, delete_memory(t)
      PROVE  WrittenOnce'
  BY <1>17 DEF delete_memory
<1>18. ASSUME NEW t \in Deleter, PurgeVectors(t)
      PROVE  WrittenOnce'
  BY <1>18 DEF PurgeVectors
<1>19. ASSUME NEW t \in Deleter, delete_memory_meta(t)
      PROVE  WrittenOnce'
  BY <1>19 DEF delete_memory_meta
<1>20. ASSUME NEW t \in Deleter, DeleterFails(t)
      PROVE  WrittenOnce'
  BY <1>20 DEF DeleterFails
<1>21. ASSUME NEW t \in Task, Crash(t)
      PROVE  WrittenOnce'
  BY <1>21 DEF Crash
<1>22. ASSUME run_gc
      PROVE  WrittenOnce'
  BY <1>22 DEF run_gc, CollectGarbage
<1>23. ASSUME UNCHANGED vars
      PROVE  WrittenOnce'
  BY <1>23 DEF vars
<1> QED
  BY <1>1, <1>2, <1>3, <1>4, <1>5, <1>6, <1>7, <1>8, <1>9, <1>10, <1>11,
     <1>12, <1>13, <1>14, <1>15, <1>16, <1>17, <1>18, <1>19, <1>20,
     <1>21, <1>22, <1>23
     DEF Next, Write, Delete, Task

\* What is counted are finitely many memories.
LEMMA HoldersAreFinite ==
  \A b : IsFiniteSet(Holders(b)) /\ Cardinality(Holders(b)) \in Nat
  BY FS_Subset, FS_CardinalityType, ConstantsAssumption DEF Holders

\* A step that touches neither the counters nor what is stored, and after which
\* nobody new counts on a transcript or is linked.
LEMMA QuietCount ==
  ASSUME TypeOK, CountInv, UNCHANGED ccr,
         \A m \in Memory : link'[m] \in {link[m], None},
         \A t \in Writer : pc'[t] = "link" => pc[t] = "link" /\ subject'[t] = subject[t]
  PROVE  CountInv'
<1>1. UNCHANGED <<blobs, refcount, released>> /\ None \notin Blob
  BY ConstantsAssumption DEF ccr
<1>2. ASSUME NEW b \in Blob
      PROVE  Cardinality(Holders(b)') <= Cardinality(Holders(b))
  <2>1. Holders(b)' \subseteq Holders(b)
    BY <1>1 DEF Holders
  <2> QED BY <2>1, FS_Subset, HoldersAreFinite
<1>3. Counted'
  <2> SUFFICES ASSUME OnceReleased', NEW b \in Blob
               PROVE  Cardinality(Holders(b)') <= refcount'[b]
    BY DEF Counted
  <2>1. OnceReleased
    BY <1>1 DEF OnceReleased
  <2>2. Cardinality(Holders(b)) <= refcount[b]
    BY <2>1 DEF CountInv, Counted
  <2>3. refcount[b] \in Nat /\ refcount'[b] = refcount[b]
    BY <1>1 DEF TypeOK, TablesOK
  <2>4. Cardinality(Holders(b)') \in Nat /\ Cardinality(Holders(b)) \in Nat
    <3>1. IsFiniteSet(Holders(b)')
      <4>1. Holders(b)' \subseteq Memory
        BY DEF Holders
      <4> QED BY <4>1, FS_Subset, ConstantsAssumption
    <3> QED BY <3>1, FS_CardinalityType, HoldersAreFinite
  <2> QED BY <1>2, <2>2, <2>3, <2>4
<1>4. CountedIsStored' /\ TranscriptKept'
  BY <1>1 DEF CountInv, CountedIsStored, TranscriptKept, LinkedIsStored
<1> QED BY <1>3, <1>4 DEF CountInv

\* gc_blobs takes what nobody is linked to and nobody counts on.
LEMMA Collected ==
  ASSUME TypeOK, CountInv, CollectGarbage, UNCHANGED <<link, subject>>,
         \A t \in Writer : pc'[t] = pc[t]
  PROVE  CountInv'
<1>1. UNCHANGED <<refcount, released>> /\ blobs' = blobs \ Garbage
  BY DEF CollectGarbage
<1>2. Counted'
  <2>1. ASSUME NEW b \in Blob PROVE Holders(b)' = Holders(b)
    BY <1>1 DEF Holders
  <2>2. OnceReleased' = OnceReleased
    BY <1>1 DEF OnceReleased
  <2> QED BY <1>1, <2>1, <2>2 DEF Counted, CountInv
<1>3. CountedIsStored' /\ TranscriptKept'
  BY <1>1 DEF CountInv, CountedIsStored, TranscriptKept, LinkedIsStored, Garbage, TypeOK, TablesOK
<1> QED BY <1>2, <1>3 DEF CountInv

\* Every step keeps the counters on the safe side.
LEMMA CountStep ==
  ASSUME TypeOK, WrittenOnce, CountInv, [Next]_vars
  PROVE  CountInv'
<1>c. Writer \intersect Deleter = {}
  BY ConstantsAssumption
<1>w. WrittenOnce
  OBVIOUS
<1>1. ASSUME NEW t \in Writer, NEW m \in Memory, insert_memory(t, m)
      PROVE  CountInv'
  BY <1>1, <1>c, QuietCount, Names
     DEF insert_memory, TypeOK, TablesOK, LocalsOK, metas, ccr, locals, Goto, Task
<1>2. ASSUME NEW t \in Writer, DescribeMemory(t)
      PROVE  CountInv'
  BY <1>2, <1>c, QuietCount, Names
     DEF DescribeMemory, TypeOK, TablesOK, LocalsOK, metas, ccr, locals, Goto, Task
<1>3. ASSUME NEW t \in Writer, CheckMemory(t)
      PROVE  CountInv'
  BY <1>3, <1>c, QuietCount, Names
     DEF CheckMemory, Narrative, TypeOK, TablesOK, LocalsOK, metas, ccr, locals, Goto, Task
<1>4. ASSUME NEW t \in Writer, Govern(t)
      PROVE  CountInv'
  BY <1>4, <1>c, QuietCount, Names
     DEF Govern, TypeOK, TablesOK, LocalsOK, metas, ccr, locals, Goto, Task
<1>5. ASSUME NEW t \in Writer, Embed(t)
      PROVE  CountInv'
  BY <1>5, <1>c, QuietCount, Names
     DEF Embed, Narrative, TypeOK, TablesOK, LocalsOK, metas, ccr, locals, Goto, Task
<1>6. ASSUME NEW t \in Writer, insert_blob(t)
      PROVE  CountInv'
  <2> DEFINE x == subject[t]
             b == BlobOf[x]
  <2>1. /\ x \in Memory /\ b \in Blob /\ UNCHANGED <<link, released, subject>>
        /\ blobs' = blobs \union {b}
        /\ refcount' = [refcount EXCEPT ![b] = IF b \in blobs THEN @ + 1 ELSE 1]
        /\ pc' = [pc EXCEPT ![t] = "link"]
    BY <1>6 DEF insert_blob, TypeOK, TablesOK, LocalsOK, metas, locals, Goto, Task
  <2>x. x = subject[t] /\ b = BlobOf[x]
    OBVIOUS
  <2> HIDE DEF x, b
  <2>2. /\ refcount[b] \in Nat /\ refcount'[b] = refcount[b] + 1
        /\ \A c \in Blob \ {b} : refcount'[c] = refcount[c]
    BY <2>1 DEF TypeOK, TablesOK, CountInv, CountedIsStored
  <2>3. Counted'
    <3> SUFFICES ASSUME OnceReleased', NEW c \in Blob
                 PROVE  Cardinality(Holders(c)') <= refcount'[c]
      BY DEF Counted
    <3>1. Cardinality(Holders(c)) <= refcount[c] /\ Cardinality(Holders(c)) \in Nat
      BY <2>1, HoldersAreFinite DEF CountInv, Counted, OnceReleased
    <3>2. CASE c = b
      <4>1. Holders(c)' \subseteq Holders(c) \union {x}
        BY <2>1, <2>x DEF Holders, TypeOK, LocalsOK, Task
      <4>2. /\ IsFiniteSet(Holders(c) \union {x})
            /\ Cardinality(Holders(c) \union {x}) \in Nat
            /\ Cardinality(Holders(c) \union {x}) <= Cardinality(Holders(c)) + 1
        <5> DEFINE H == Holders(c)
        <5>1. IsFiniteSet(H) /\ Cardinality(H) \in Nat
          BY HoldersAreFinite
        <5> HIDE DEF H
        <5>2. /\ IsFiniteSet(H \union {x})
              /\ \/ Cardinality(H \union {x}) = Cardinality(H)
                 \/ Cardinality(H \union {x}) = Cardinality(H) + 1
          BY <5>1, FS_AddElement
        <5>3. /\ IsFiniteSet(H \union {x})
              /\ Cardinality(H \union {x}) \in Nat
              /\ Cardinality(H \union {x}) <= Cardinality(H) + 1
          BY <5>1, <5>2
        <5> QED BY <5>3 DEF H
      <4>3. /\ Cardinality(Holders(c)') \in Nat
            /\ Cardinality(Holders(c)') <= Cardinality(Holders(c) \union {x})
        BY <4>1, <4>2, FS_Subset, FS_CardinalityType
      <4>4. refcount'[c] = refcount[c] + 1 /\ refcount[c] \in Nat
        BY <2>2, <3>2
      <4> QED BY <4>2, <4>3, <4>4, <3>1
    <3>3. CASE c # b
      <4>1. Holders(c)' \subseteq Holders(c)
        BY <2>1, <2>x, <3>3 DEF Holders, TypeOK, LocalsOK, Task
      <4>2. Cardinality(Holders(c)') \in Nat /\ Cardinality(Holders(c)') <= Cardinality(Holders(c))
        BY <4>1, FS_Subset, FS_CardinalityType, HoldersAreFinite
      <4>3. refcount[c] \in Nat /\ refcount'[c] = refcount[c]
        BY <2>2, <3>3 DEF TypeOK, TablesOK
      <4> QED BY <4>2, <4>3, <3>1
    <3> QED BY <3>2, <3>3
  <2>4. CountedIsStored' /\ TranscriptKept'
    BY <2>1, <2>2 DEF CountInv, CountedIsStored, TranscriptKept, LinkedIsStored
  <2> QED BY <2>3, <2>4 DEF CountInv
<1>7. ASSUME NEW t \in Writer, set_memory_session_blob(t)
      PROVE  CountInv'
  <2> DEFINE x == subject[t]
             b == BlobOf[x]
  <2>1. /\ x \in Memory /\ b \in Blob /\ UNCHANGED <<blobs, refcount, released, subject>>
        /\ pc[t] = "link" /\ pc' = [pc EXCEPT ![t] = "idle"]
        /\ link' = link \/ link' = [link EXCEPT ![x] = b]
    BY <1>7 DEF set_memory_session_blob, TypeOK, TablesOK, LocalsOK, ccr, locals, Goto, Task
  <2>x. x = subject[t] /\ b = BlobOf[x]
    OBVIOUS
  <2> HIDE DEF x, b
  <2>2. x \in Holders(b)
    BY <1>7, <1>w, <2>1, <2>x, Names DEF Holders, WrittenOnce
  <2>3. ASSUME NEW c \in Blob
        PROVE  Holders(c)' \subseteq Holders(c)
    <3> SUFFICES ASSUME NEW m \in Holders(c)' PROVE m \in Holders(c)
      OBVIOUS
    <3>1. CASE m = x
      BY <2>2, <2>1, <2>x, <3>1 DEF Holders
    <3>2. CASE m # x
      BY <2>1, <2>x, <3>2 DEF Holders, TypeOK, TablesOK, LocalsOK, Task
    <3> QED BY <3>1, <3>2
  <2>4. Counted'
    <3> SUFFICES ASSUME OnceReleased', NEW c \in Blob
                 PROVE  Cardinality(Holders(c)') <= refcount'[c]
      BY DEF Counted
    <3>1. Cardinality(Holders(c)) <= refcount[c] /\ Cardinality(Holders(c)) \in Nat
      BY <2>1, HoldersAreFinite DEF CountInv, Counted, OnceReleased
    <3>2. Cardinality(Holders(c)') \in Nat /\ Cardinality(Holders(c)') <= Cardinality(Holders(c))
      BY <2>3, FS_Subset, FS_CardinalityType, HoldersAreFinite
    <3> QED BY <2>1, <3>1, <3>2 DEF TypeOK, TablesOK
  <2>5. OnceReleased => b \in blobs
    <3>1. Cardinality(Holders(b)) # 0
      BY <2>2, FS_EmptySet, HoldersAreFinite
    <3> QED BY <2>1, <3>1, HoldersAreFinite DEF CountInv, Counted, CountedIsStored, TypeOK, TablesOK
  <2>6. CountedIsStored' /\ TranscriptKept'
    BY <2>1, <2>5 DEF CountInv, CountedIsStored, TranscriptKept, LinkedIsStored, OnceReleased,
                      TypeOK, TablesOK
  <2> QED BY <2>4, <2>6 DEF CountInv
<1>8. ASSUME NEW t \in Writer, WriterFails(t)
      PROVE  CountInv'
  BY <1>8, <1>c, QuietCount, Names
     DEF WriterFails, Narrative, TypeOK, TablesOK, LocalsOK, metas, ccr, locals, Goto, Task
<1>9. ASSUME NEW t \in Deleter, NEW m \in Memory, forget(t, m)
      PROVE  CountInv'
  BY <1>9, <1>c, QuietCount, Names
     DEF forget, TypeOK, TablesOK, LocalsOK, metas, ccr, locals, Goto, Task
<1>10. ASSUME NEW t \in Deleter, wipe(t)
      PROVE  CountInv'
  BY <1>10, <1>c, QuietCount, Names
     DEF wipe, Live, TypeOK, TablesOK, LocalsOK, metas, ccr, locals, Goto, Task
<1>11. ASSUME NEW t \in Deleter, NextId(t)
      PROVE  CountInv'
  BY <1>11, <1>c, QuietCount, Names
     DEF NextId, TypeOK, TablesOK, LocalsOK, metas, ccr, locals, Goto, Task
<1>12. ASSUME NEW t \in Deleter, ReadMemory(t)
      PROVE  CountInv'
  BY <1>12, <1>c, QuietCount, Names
     DEF ReadMemory, TypeOK, TablesOK, LocalsOK, metas, ccr, locals, Goto, Task
<1>13. ASSUME NEW t \in Deleter, Tombstone(t)
      PROVE  CountInv'
  BY <1>13, <1>c, QuietCount, Names
     DEF Tombstone, TypeOK, TablesOK, LocalsOK, metas, ccr, locals, Goto, Task
<1>14. ASSUME NEW t \in Deleter, LedgerForget(t)
      PROVE  CountInv'
  BY <1>14, <1>c, QuietCount, Names
     DEF LedgerForget, TypeOK, TablesOK, LocalsOK, metas, ccr, locals, Goto, Task
<1>15. ASSUME NEW t \in Deleter, decref_memory_session_blob(t)
      PROVE  CountInv'
  <2> DEFINE x == subject[t]
             b == link[x]
  <2>1. /\ x \in Memory /\ b \in Blob \union {None} /\ UNCHANGED <<link, blobs, subject>>
        /\ pc' = [pc EXCEPT ![t] = "gc"]
        /\ refcount' = IF b = None \/ refcount[b] = 0 THEN refcount
                       ELSE [refcount EXCEPT ![b] = @ - 1]
        /\ released' = IF b = None THEN released ELSE [released EXCEPT ![x] = @ + 1]
    BY <1>15, Names DEF decref_memory_session_blob, TypeOK, TablesOK, LocalsOK, metas, locals, Goto, Task
  <2>x. x = subject[t] /\ b = link[x]
    OBVIOUS
  <2> HIDE DEF x, b
  <2>2. /\ \A c \in Blob : refcount[c] \in Nat /\ refcount'[c] <= refcount[c]
        /\ \A c \in Blob \ {b} : refcount'[c] = refcount[c]
        /\ b \in Blob => refcount'[b] >= refcount[b] - 1
        /\ b \in Blob /\ refcount[b] = 0 => refcount'[b] = 0
        /\ \A c \in Blob : refcount'[c] \in Nat
    BY <2>1 DEF TypeOK, TablesOK
  <2>3. /\ \A m \in Memory : released[m] \in Nat /\ released'[m] >= released[m]
        /\ b # None => released'[x] = released[x] + 1
    BY <2>1 DEF TypeOK, TablesOK
  <2>4. \A m \in Memory : released'[m] \in Nat
    BY <2>1 DEF TypeOK, TablesOK
  <2>5. OnceReleased' => OnceReleased
    BY <2>3, <2>4 DEF OnceReleased
  <2>6. \A u \in Writer : pc'[u] = pc[u]
    BY <2>1, ConstantsAssumption DEF TypeOK, LocalsOK, Task
  <2>7. ASSUME NEW c \in Blob
        PROVE  Holders(c)' \subseteq Holders(c) \ (IF c = b THEN {x} ELSE {})
    BY <2>1, <2>3, <2>4, <2>6, ConstantsAssumption DEF Holders
  <2>8. OnceReleased' /\ b \in Blob => x \in Holders(b)
    BY <2>1, <2>x, <2>3, <1>w, ConstantsAssumption DEF OnceReleased, Holders, WrittenOnce
  <2>9. Counted'
    <3> SUFFICES ASSUME OnceReleased', NEW c \in Blob
                 PROVE  Cardinality(Holders(c)') <= refcount'[c]
      BY DEF Counted
    <3>1. Cardinality(Holders(c)) <= refcount[c] /\ Cardinality(Holders(c)) \in Nat
      BY <2>5, HoldersAreFinite DEF CountInv, Counted
    <3>2. CASE c = b
      <4>1. Cardinality(Holders(c) \ {x}) = Cardinality(Holders(c)) - 1
        BY <2>8, <3>2, FS_RemoveElement, HoldersAreFinite
      <4>2. IsFiniteSet(Holders(c) \ {x}) /\ Cardinality(Holders(c) \ {x}) \in Nat
        BY FS_RemoveElement, FS_CardinalityType, HoldersAreFinite
      <4>3. /\ Cardinality(Holders(c)') \in Nat
            /\ Cardinality(Holders(c)') <= Cardinality(Holders(c) \ {x})
        BY <2>7, <3>2, <4>2, FS_Subset, FS_CardinalityType
      <4>4. refcount'[c] >= refcount[c] - 1 /\ refcount[c] \in Nat /\ refcount'[c] \in Nat
        BY <2>2, <3>2
      <4> QED BY <4>1, <4>3, <4>4, <3>1, <3>2
    <3>3. CASE c # b
      <4>1. Cardinality(Holders(c)') \in Nat /\ Cardinality(Holders(c)') <= Cardinality(Holders(c))
        BY <2>7, <3>3, FS_Subset, FS_CardinalityType, HoldersAreFinite
      <4> QED BY <4>1, <3>1, <3>3, <2>2
    <3> QED BY <3>2, <3>3
  <2>10. CountedIsStored' /\ TranscriptKept'
    BY <2>1, <2>2, <2>5 DEF CountInv, CountedIsStored, TranscriptKept, LinkedIsStored, OnceReleased
  <2> QED BY <2>9, <2>10 DEF CountInv
<1>16. ASSUME NEW t \in Deleter, gc_blobs(t)
      PROVE  CountInv'
  BY <1>16, <1>c, Collected DEF gc_blobs, metas, locals, Goto, TypeOK, LocalsOK, Task
<1>17. ASSUME NEW t \in Deleter, delete_memory(t)
      PROVE  CountInv'
  BY <1>17, <1>c, QuietCount, Names
     DEF delete_memory, TypeOK, TablesOK, LocalsOK, metas, ccr, locals, Goto, Task
<1>18. ASSUME NEW t \in Deleter, PurgeVectors(t)
      PROVE  CountInv'
  BY <1>18, <1>c, QuietCount, Names
     DEF PurgeVectors, TypeOK, TablesOK, LocalsOK, metas, ccr, locals, Goto, Task
<1>19. ASSUME NEW t \in Deleter, delete_memory_meta(t)
      PROVE  CountInv'
  BY <1>19, <1>c, QuietCount, Names
     DEF delete_memory_meta, TypeOK, TablesOK, LocalsOK, metas, ccr, locals, Goto, Task
<1>20. ASSUME NEW t \in Deleter, DeleterFails(t)
      PROVE  CountInv'
  BY <1>20, <1>c, QuietCount, Names
     DEF DeleterFails, TypeOK, TablesOK, LocalsOK, metas, ccr, locals, Goto, Task
<1>21. ASSUME NEW t \in Task, Crash(t)
      PROVE  CountInv'
  BY <1>21, <1>c, QuietCount, Names
     DEF Crash, TypeOK, TablesOK, LocalsOK, metas, ccr, locals, Goto, Task
<1>22. ASSUME run_gc
      PROVE  CountInv'
  BY <1>22, <1>c, Collected DEF run_gc, metas, locals, Goto, TypeOK, LocalsOK, Task
<1>23. ASSUME UNCHANGED vars
      PROVE  CountInv'
  BY <1>23, QuietCount DEF vars, metas, locals, ccr, TypeOK, TablesOK, LocalsOK
<1> QED
  BY <1>1, <1>2, <1>3, <1>4, <1>5, <1>6, <1>7, <1>8, <1>9, <1>10, <1>11,
     <1>12, <1>13, <1>14, <1>15, <1>16, <1>17, <1>18, <1>19, <1>20,
     <1>21, <1>22, <1>23
     DEF Next, Write, Delete, Task

-----------------------------------------------------------------------------
\* Memories, metadata, vectors, blobs and the tasks' locals stay well typed.
THEOREM TypeCorrect == Spec => []TypeOK
<1>1. TypeOK /\ [Next]_vars => TypeOK'
  BY NextTypeOK
<1> QED BY InitTypeOK, <1>1, PTL DEF Spec

\* db.rs: a memory that is gone has a "forget" entry in the ledger, whatever
\* else runs, fails or dies: governed_delete_memory appends before it deletes.
THEOREM DeletionsAreLedgered == Spec => []DeletedIsLedgered
<1>1. Init => LedgerInv
  BY DEF Init, LedgerInv, PastLedger, DeletedIsLedgered, Task
<1>2. TypeOK /\ LedgerInv /\ [Next]_vars => LedgerInv'
  BY LedgerStep
<1>3. LedgerInv => DeletedIsLedgered
  BY DEF LedgerInv
<1> QED BY <1>1, <1>2, <1>3, TypeCorrect, PTL DEF Spec

\* db.rs, vectorstore.rs: when deleters race and nothing fails, the one that
\* takes the row also takes the vectors and the metadata.
THEOREM DeletionsPurge == Spec => []DeletedIsPurged
<1>1. Init => PurgeInv
  BY ConstantsAssumption, Names
     DEF Init, PurgeInv, WritersAreElsewhere, PurgeUnderWay, Task
<1>2. TypeOK /\ PurgeInv /\ [Next]_vars => PurgeInv'
  BY PurgeStep
<1>3. TypeOK /\ PurgeInv => DeletedIsPurged
  BY Names, ConstantsAssumption DEF PurgeInv, PurgeUnderWay, DeletedIsPurged, Settled, Task
<1> QED BY <1>1, <1>2, <1>3, TypeCorrect, PTL DEF Spec

\* db.rs: the transcript a memory is linked to is in the store,
\* whoever stores, links, releases, collects, fails or dies in between, as long
\* as no reference is given back twice: gc_blobs looks at the links as well as
\* at the counters, and the counters never fall below the memories that count
\* on them.
THEOREM TranscriptsKept == Spec => []TranscriptKept
<1>1. Init => WrittenOnce
  BY ConstantsAssumption, Names DEF Init, WrittenOnce, Task
<1>2. TypeOK /\ WrittenOnce /\ [Next]_vars => WrittenOnce'
  BY WrittenStep
<1>3. Init => CountInv
  <2> SUFFICES ASSUME Init PROVE CountInv
    OBVIOUS
  <2>1. ASSUME NEW b \in Blob
        PROVE  Cardinality(Holders(b)) = refcount[b]
    <3>1. Holders(b) = {m \in Existing : BlobOf[m] = b}
      BY ConstantsAssumption DEF Holders, Init, Task
    <3> QED BY <3>1 DEF Init
  <2>2. Counted
    BY <2>1, HoldersAreFinite DEF Counted
  <2>3. CountedIsStored
    <3> SUFFICES ASSUME NEW b \in Blob, refcount[b] > 0 PROVE b \in blobs
      BY DEF CountedIsStored
    <3>1. {m \in Existing : BlobOf[m] = b} # {}
      BY FS_EmptySet DEF Init
    <3> QED BY <3>1, ConstantsAssumption DEF Init
  <2>4. TranscriptKept
    BY ConstantsAssumption DEF Init, TranscriptKept, LinkedIsStored
  <2> QED BY <2>2, <2>3, <2>4 DEF CountInv
<1>4. TypeOK /\ WrittenOnce /\ CountInv /\ [Next]_vars => CountInv'
  BY CountStep
<1>5. CountInv => TranscriptKept
  BY DEF CountInv
<1> QED BY <1>1, <1>2, <1>3, <1>4, <1>5, TypeCorrect, PTL DEF Spec
=============================================================================
