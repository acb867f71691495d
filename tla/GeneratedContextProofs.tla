----------------------- MODULE GeneratedContextProofs -----------------------
(***************************************************************************)
(* Proofs about the context file, for any number of tasks and memories and *)
(* without the bounds of the TLC runs.                                     *)
(***************************************************************************)
EXTENDS GeneratedContext, TLAPS

(***************************************************************************)
(* What holds on both backends: captured revisions are not ahead of the    *)
(* current one, a selection whose revision is still current is active, and *)
(* the file a task is about to unlink is not the user's.                   *)
(***************************************************************************)
Captured == \A t \in Task : rev[t] <= revision

SelectionCurrent ==
  \A t \in Task :
    pc[t] = "preview" /\ rev[t] = revision => chosen[t] \subseteq Active

RevisionInv == Captured /\ SelectionCurrent

UnlinksOwn == ~UserRaces => \A t \in Task : pc[t] = "remove" => file # User

(***************************************************************************)
(* What SQLite's reservation adds.                                         *)
(***************************************************************************)
LockHeld ==
  \A t \in Task : pc[t] \in Publishing \union Invalidating => lock = t

PublishesActive ==
  \A t \in Task : pc[t] \in {"write", "publish"} => chosen[t] \subseteq Active

RowIsCurrent ==
  \A t \in Task : /\ pc[t] \in {"read", "remove", "delete"} => row[t] = reg
                  /\ pc[t] = "delete" => file # row[t].hash

\* Between its rename and its COMMIT a task has its own file on disk, unless
\* it was edited or taken back.
WrittenByHolder ==
  \A t \in Task : pc[t] = "publish" => file \in {chosen[t], User, None}

\* Every published file is accounted for.
Accounted ==
  file \notin {User, None} =>
    \/ reg # None /\ reg.hash = file
    \/ \E t \in Task : pc[t] \in {"publish", "cleanup"} /\ chosen[t] = file
    \/ orphan

ContextInv ==
  /\ LockHeld /\ PublishesActive /\ RowIsCurrent /\ WrittenByHolder
  /\ Accounted /\ StaleIsPending

-----------------------------------------------------------------------------
\* The program points, spelled out.
LEMMA Names ==
  /\ PC = {"idle", "select", "preview_select", "preview", "deliver", "begin",
           "cleanup", "count", "begin_invalidate", "check", "write", "publish",
           "forget", "rows", "read", "remove", "delete"}
  /\ Publishing = {"check", "write", "publish"}
  /\ Invalidating = {"rows", "read", "remove", "delete"}
  BY DEF PC, Publishing, Invalidating

\* The initial states are well typed.
LEMMA InitTypeOK == Init => TypeOK
<1> SUFFICES ASSUME Init PROVE TypeOK
  OBVIOUS
<1>1. orphan \in BOOLEAN
  BY Zenon DEF Init
<1>2. TablesOK
  BY <1>1, ConstantsAssumption DEF Init, TablesOK
<1>3. LocalsOK
  BY Names DEF Init, LocalsOK
<1> QED BY <1>2, <1>3 DEF TypeOK

\* Every step keeps the types.
LEMMA NextTypeOK ==
  ASSUME TypeOK, [Next]_vars
  PROVE  TypeOK'
<1> USE ConstantsAssumption, Names
    DEF TypeOK, TablesOK, LocalsOK, Content, Row,
           tables, locals, budgets, Goto, Return, Reserve, Unlock, Starts,
           Fault, Mutation, Bump
<1>1. ASSUME NEW t \in Task, context_revision(t) PROVE TypeOK'
  BY <1>1 DEF context_revision
<1>2. ASSUME NEW t \in Task, rank_for_injection(t) PROVE TypeOK'
  BY <1>2 DEF rank_for_injection, Active
<1>3. ASSUME NEW t \in Task, begin_write(t) PROVE TypeOK'
  BY <1>3 DEF begin_write
<1>4. ASSUME NEW t \in Task, VerifyRevision(t) PROVE TypeOK'
  BY <1>4 DEF VerifyRevision
<1>5. ASSUME NEW t \in Task, write_ironmem_file(t) PROVE TypeOK'
  BY <1>5 DEF write_ironmem_file
<1>6. ASSUME NEW t \in Task, Publish(t) PROVE TypeOK'
  BY <1>6 DEF Publish
<1>7. ASSUME NEW t \in Task, InjectFails(t) PROVE TypeOK'
  BY <1>7 DEF InjectFails
<1>8. ASSUME NEW t \in Task, RegistrationFails(t) PROVE TypeOK'
  BY <1>8 DEF RegistrationFails
<1>9. ASSUME NEW t \in Task, Cleanup(t) PROVE TypeOK'
  <2>1. orphan' \in BOOLEAN
    BY <1>9, Zenon DEF Cleanup
  <2> QED BY <1>9, <2>1 DEF Cleanup
<1>10. ASSUME NEW t \in Task, NEW m \in Memory, governed_delete_memory(t, m)
      PROVE  TypeOK'
  BY <1>10 DEF governed_delete_memory
<1>11. ASSUME NEW t \in Task, NEW m \in Memory, insert_memory(t, m)
      PROVE  TypeOK'
  BY <1>11 DEF insert_memory
<1>12. ASSUME NEW t \in Task, append_assertion(t) PROVE TypeOK'
  BY <1>12 DEF append_assertion
<1>27. ASSUME NEW t \in Task, delete_memory(t) PROVE TypeOK'
  BY <1>27 DEF delete_memory
<1>28. ASSUME NEW t \in Task, ForgetFails(t) PROVE TypeOK'
  BY <1>28 DEF ForgetFails
<1>13. ASSUME NEW t \in Task, CountDirty(t) PROVE TypeOK'
  BY <1>13 DEF CountDirty, IsDirty
<1>14. ASSUME NEW t \in Task, BeginInvalidate(t) PROVE TypeOK'
  BY <1>14 DEF BeginInvalidate
<1>15. ASSUME NEW t \in Task, SelectDirty(t) PROVE TypeOK'
  BY <1>15 DEF SelectDirty, IsDirty
<1>16. ASSUME NEW t \in Task, ReadFile(t) PROVE TypeOK'
  BY <1>16 DEF ReadFile
<1>17. ASSUME NEW t \in Task, RemoveFile(t) PROVE TypeOK'
  BY <1>17 DEF RemoveFile
<1>18. ASSUME NEW t \in Task, DeleteRow(t) PROVE TypeOK'
  BY <1>18 DEF DeleteRow
<1>19. ASSUME NEW t \in Task, InvalidateFails(t) PROVE TypeOK'
  BY <1>19 DEF InvalidateFails
<1>20. ASSUME NEW t \in Task, diagnose(t) PROVE TypeOK'
  BY <1>20 DEF diagnose
<1>21. ASSUME NEW t \in Task, PreviewSelect(t) PROVE TypeOK'
  BY <1>21 DEF PreviewSelect, Active
<1>22. ASSUME NEW t \in Task, EndPreview(t) PROVE TypeOK'
  BY <1>22 DEF EndPreview
<1>23. ASSUME NEW t \in Task, Deliver(t) PROVE TypeOK'
  BY <1>23 DEF Deliver
<1>24. ASSUME NEW t \in Task, Crash(t) PROVE TypeOK'
  BY <1>24 DEF Crash
<1>25. ASSUME UserEdit PROVE TypeOK'
  <2>1. orphan' \in BOOLEAN
    BY <1>25, Zenon DEF UserEdit
  <2> QED BY <1>25, <2>1 DEF UserEdit
<1>26. ASSUME UNCHANGED vars PROVE TypeOK'
  BY <1>26 DEF vars
<1> QED
  BY <1>1, <1>2, <1>3, <1>4, <1>5, <1>6, <1>7, <1>8, <1>9, <1>10, <1>11,
     <1>12, <1>13, <1>14, <1>15, <1>16, <1>17, <1>18, <1>19, <1>20,
     <1>21, <1>22, <1>23, <1>24, <1>25, <1>26, <1>27, <1>28
     DEF Next, Step, Fails, Inject, Mutate, invalidate_generated_files

\* Every change of a memory raises the revision, so a selection made before
\* it no longer carries the current one.
LEMMA RevisionStep ==
  ASSUME TypeOK, RevisionInv, [Next]_vars
  PROVE  RevisionInv'
<1> USE ConstantsAssumption, Names
    DEF TypeOK, TablesOK, LocalsOK, RevisionInv, Captured, SelectionCurrent,
           Active,
           tables, locals, budgets, Goto, Return, Reserve, Unlock, Starts,
           Fault, Mutation, Bump
<1>1. ASSUME NEW t \in Task, context_revision(t) PROVE RevisionInv'
  BY <1>1 DEF context_revision
<1>2. ASSUME NEW t \in Task, rank_for_injection(t) PROVE RevisionInv'
  BY <1>2 DEF rank_for_injection
<1>3. ASSUME NEW t \in Task, begin_write(t) PROVE RevisionInv'
  BY <1>3 DEF begin_write
<1>4. ASSUME NEW t \in Task, VerifyRevision(t) PROVE RevisionInv'
  BY <1>4 DEF VerifyRevision
<1>5. ASSUME NEW t \in Task, write_ironmem_file(t) PROVE RevisionInv'
  BY <1>5 DEF write_ironmem_file
<1>6. ASSUME NEW t \in Task, Publish(t) PROVE RevisionInv'
  BY <1>6 DEF Publish
<1>7. ASSUME NEW t \in Task, InjectFails(t) PROVE RevisionInv'
  BY <1>7 DEF InjectFails
<1>8. ASSUME NEW t \in Task, RegistrationFails(t) PROVE RevisionInv'
  BY <1>8 DEF RegistrationFails
<1>9. ASSUME NEW t \in Task, Cleanup(t) PROVE RevisionInv'
  BY <1>9 DEF Cleanup
<1>10. ASSUME NEW t \in Task, NEW m \in Memory, governed_delete_memory(t, m)
      PROVE  RevisionInv'
  BY <1>10 DEF governed_delete_memory
<1>11. ASSUME NEW t \in Task, NEW m \in Memory, insert_memory(t, m)
      PROVE  RevisionInv'
  BY <1>11 DEF insert_memory
<1>12. ASSUME NEW t \in Task, append_assertion(t) PROVE RevisionInv'
  BY <1>12 DEF append_assertion
<1>27. ASSUME NEW t \in Task, delete_memory(t) PROVE RevisionInv'
  BY <1>27 DEF delete_memory
<1>28. ASSUME NEW t \in Task, ForgetFails(t) PROVE RevisionInv'
  BY <1>28 DEF ForgetFails
<1>13. ASSUME NEW t \in Task, CountDirty(t) PROVE RevisionInv'
  BY <1>13 DEF CountDirty
<1>14. ASSUME NEW t \in Task, BeginInvalidate(t) PROVE RevisionInv'
  BY <1>14 DEF BeginInvalidate
<1>15. ASSUME NEW t \in Task, SelectDirty(t) PROVE RevisionInv'
  BY <1>15 DEF SelectDirty
<1>16. ASSUME NEW t \in Task, ReadFile(t) PROVE RevisionInv'
  BY <1>16 DEF ReadFile
<1>17. ASSUME NEW t \in Task, RemoveFile(t) PROVE RevisionInv'
  BY <1>17 DEF RemoveFile
<1>18. ASSUME NEW t \in Task, DeleteRow(t) PROVE RevisionInv'
  BY <1>18 DEF DeleteRow
<1>19. ASSUME NEW t \in Task, InvalidateFails(t) PROVE RevisionInv'
  BY <1>19 DEF InvalidateFails
<1>20. ASSUME NEW t \in Task, diagnose(t) PROVE RevisionInv'
  BY <1>20 DEF diagnose
<1>21. ASSUME NEW t \in Task, PreviewSelect(t) PROVE RevisionInv'
  BY <1>21 DEF PreviewSelect
<1>22. ASSUME NEW t \in Task, EndPreview(t) PROVE RevisionInv'
  BY <1>22 DEF EndPreview
<1>23. ASSUME NEW t \in Task, Deliver(t) PROVE RevisionInv'
  BY <1>23 DEF Deliver
<1>24. ASSUME NEW t \in Task, Crash(t) PROVE RevisionInv'
  BY <1>24 DEF Crash
<1>25. ASSUME UserEdit PROVE RevisionInv'
  BY <1>25 DEF UserEdit
<1>26. ASSUME UNCHANGED vars PROVE RevisionInv'
  BY <1>26 DEF vars
<1> QED
  BY <1>1, <1>2, <1>3, <1>4, <1>5, <1>6, <1>7, <1>8, <1>9, <1>10, <1>11,
     <1>12, <1>13, <1>14, <1>15, <1>16, <1>17, <1>18, <1>19, <1>20,
     <1>21, <1>22, <1>23, <1>24, <1>25, <1>26, <1>27, <1>28
     DEF Next, Step, Fails, Inject, Mutate, invalidate_generated_files

\* A task unlinks what it compared, unless the user saves in between.
LEMMA UnlinkStep ==
  ASSUME TypeOK, UnlinksOwn, [Next]_vars
  PROVE  UnlinksOwn'
<1> USE ConstantsAssumption, Names
    DEF TypeOK, TablesOK, LocalsOK, UnlinksOwn, Row, Content,
           tables, locals, budgets, Goto, Return, Reserve, Unlock, Starts,
           Fault, Mutation, Bump
<1>1. ASSUME NEW t \in Task, context_revision(t) PROVE UnlinksOwn'
  BY <1>1 DEF context_revision
<1>2. ASSUME NEW t \in Task, rank_for_injection(t) PROVE UnlinksOwn'
  BY <1>2 DEF rank_for_injection
<1>3. ASSUME NEW t \in Task, begin_write(t) PROVE UnlinksOwn'
  BY <1>3 DEF begin_write
<1>4. ASSUME NEW t \in Task, VerifyRevision(t) PROVE UnlinksOwn'
  BY <1>4 DEF VerifyRevision
<1>5. ASSUME NEW t \in Task, write_ironmem_file(t) PROVE UnlinksOwn'
  BY <1>5 DEF write_ironmem_file
<1>6. ASSUME NEW t \in Task, Publish(t) PROVE UnlinksOwn'
  BY <1>6 DEF Publish
<1>7. ASSUME NEW t \in Task, InjectFails(t) PROVE UnlinksOwn'
  BY <1>7 DEF InjectFails
<1>8. ASSUME NEW t \in Task, RegistrationFails(t) PROVE UnlinksOwn'
  BY <1>8 DEF RegistrationFails
<1>9. ASSUME NEW t \in Task, Cleanup(t) PROVE UnlinksOwn'
  BY <1>9 DEF Cleanup
<1>10. ASSUME NEW t \in Task, NEW m \in Memory, governed_delete_memory(t, m)
      PROVE  UnlinksOwn'
  BY <1>10 DEF governed_delete_memory
<1>11. ASSUME NEW t \in Task, NEW m \in Memory, insert_memory(t, m)
      PROVE  UnlinksOwn'
  BY <1>11 DEF insert_memory
<1>12. ASSUME NEW t \in Task, append_assertion(t) PROVE UnlinksOwn'
  BY <1>12 DEF append_assertion
<1>27. ASSUME NEW t \in Task, delete_memory(t) PROVE UnlinksOwn'
  BY <1>27 DEF delete_memory
<1>28. ASSUME NEW t \in Task, ForgetFails(t) PROVE UnlinksOwn'
  BY <1>28 DEF ForgetFails
<1>13. ASSUME NEW t \in Task, CountDirty(t) PROVE UnlinksOwn'
  BY <1>13 DEF CountDirty
<1>14. ASSUME NEW t \in Task, BeginInvalidate(t) PROVE UnlinksOwn'
  BY <1>14 DEF BeginInvalidate
<1>15. ASSUME NEW t \in Task, SelectDirty(t) PROVE UnlinksOwn'
  BY <1>15 DEF SelectDirty
<1>16. ASSUME NEW t \in Task, ReadFile(t) PROVE UnlinksOwn'
  BY <1>16 DEF ReadFile
<1>17. ASSUME NEW t \in Task, RemoveFile(t) PROVE UnlinksOwn'
  BY <1>17 DEF RemoveFile
<1>18. ASSUME NEW t \in Task, DeleteRow(t) PROVE UnlinksOwn'
  BY <1>18 DEF DeleteRow
<1>19. ASSUME NEW t \in Task, InvalidateFails(t) PROVE UnlinksOwn'
  BY <1>19 DEF InvalidateFails
<1>20. ASSUME NEW t \in Task, diagnose(t) PROVE UnlinksOwn'
  BY <1>20 DEF diagnose
<1>21. ASSUME NEW t \in Task, PreviewSelect(t) PROVE UnlinksOwn'
  BY <1>21 DEF PreviewSelect
<1>22. ASSUME NEW t \in Task, EndPreview(t) PROVE UnlinksOwn'
  BY <1>22 DEF EndPreview
<1>23. ASSUME NEW t \in Task, Deliver(t) PROVE UnlinksOwn'
  BY <1>23 DEF Deliver
<1>24. ASSUME NEW t \in Task, Crash(t) PROVE UnlinksOwn'
  BY <1>24 DEF Crash
<1>25. ASSUME UserEdit PROVE UnlinksOwn'
  BY <1>25 DEF UserEdit
<1>26. ASSUME UNCHANGED vars PROVE UnlinksOwn'
  BY <1>26 DEF vars
<1> QED
  BY <1>1, <1>2, <1>3, <1>4, <1>5, <1>6, <1>7, <1>8, <1>9, <1>10, <1>11,
     <1>12, <1>13, <1>14, <1>15, <1>16, <1>17, <1>18, <1>19, <1>20,
     <1>21, <1>22, <1>23, <1>24, <1>25, <1>26, <1>27, <1>28
     DEF Next, Step, Fails, Inject, Mutate, invalidate_generated_files

\* Only the holder of the reservation is inside a transaction.
LEMMA LockHeldStep ==
  ASSUME TypeOK, ContextInv, Backend = "sqlite", [Next]_vars
  PROVE  LockHeld'
<1> USE ConstantsAssumption, Names
    DEF TypeOK, TablesOK, LocalsOK, ContextInv, LockHeld,
           tables, locals, budgets, Goto, Return, Reserve, Unlock, Starts,
           Fault, Mutation, Bump
<1>1. ASSUME NEW t \in Task, context_revision(t) PROVE LockHeld'
  BY <1>1 DEF context_revision
<1>2. ASSUME NEW t \in Task, rank_for_injection(t) PROVE LockHeld'
  BY <1>2 DEF rank_for_injection
<1>3. ASSUME NEW t \in Task, begin_write(t) PROVE LockHeld'
  BY <1>3 DEF begin_write
<1>4. ASSUME NEW t \in Task, VerifyRevision(t) PROVE LockHeld'
  BY <1>4 DEF VerifyRevision
<1>5. ASSUME NEW t \in Task, write_ironmem_file(t) PROVE LockHeld'
  BY <1>5 DEF write_ironmem_file
<1>6. ASSUME NEW t \in Task, Publish(t) PROVE LockHeld'
  BY <1>6 DEF Publish
<1>7. ASSUME NEW t \in Task, InjectFails(t) PROVE LockHeld'
  BY <1>7 DEF InjectFails
<1>8. ASSUME NEW t \in Task, RegistrationFails(t) PROVE LockHeld'
  BY <1>8 DEF RegistrationFails
<1>9. ASSUME NEW t \in Task, Cleanup(t) PROVE LockHeld'
  BY <1>9 DEF Cleanup
<1>10. ASSUME NEW t \in Task, NEW m \in Memory, governed_delete_memory(t, m)
      PROVE  LockHeld'
  BY <1>10 DEF governed_delete_memory
<1>11. ASSUME NEW t \in Task, NEW m \in Memory, insert_memory(t, m)
      PROVE  LockHeld'
  BY <1>11 DEF insert_memory
<1>12. ASSUME NEW t \in Task, append_assertion(t) PROVE LockHeld'
  BY <1>12 DEF append_assertion
<1>27. ASSUME NEW t \in Task, delete_memory(t) PROVE LockHeld'
  BY <1>27 DEF delete_memory
<1>28. ASSUME NEW t \in Task, ForgetFails(t) PROVE LockHeld'
  BY <1>28 DEF ForgetFails
<1>13. ASSUME NEW t \in Task, CountDirty(t) PROVE LockHeld'
  BY <1>13 DEF CountDirty
<1>14. ASSUME NEW t \in Task, BeginInvalidate(t) PROVE LockHeld'
  BY <1>14 DEF BeginInvalidate
<1>15. ASSUME NEW t \in Task, SelectDirty(t) PROVE LockHeld'
  BY <1>15 DEF SelectDirty
<1>16. ASSUME NEW t \in Task, ReadFile(t) PROVE LockHeld'
  BY <1>16 DEF ReadFile
<1>17. ASSUME NEW t \in Task, RemoveFile(t) PROVE LockHeld'
  BY <1>17 DEF RemoveFile
<1>18. ASSUME NEW t \in Task, DeleteRow(t) PROVE LockHeld'
  BY <1>18 DEF DeleteRow
<1>19. ASSUME NEW t \in Task, InvalidateFails(t) PROVE LockHeld'
  BY <1>19 DEF InvalidateFails
<1>20. ASSUME NEW t \in Task, diagnose(t) PROVE LockHeld'
  BY <1>20 DEF diagnose
<1>21. ASSUME NEW t \in Task, PreviewSelect(t) PROVE LockHeld'
  BY <1>21 DEF PreviewSelect
<1>22. ASSUME NEW t \in Task, EndPreview(t) PROVE LockHeld'
  BY <1>22 DEF EndPreview
<1>23. ASSUME NEW t \in Task, Deliver(t) PROVE LockHeld'
  BY <1>23 DEF Deliver
<1>24. ASSUME NEW t \in Task, Crash(t) PROVE LockHeld'
  BY <1>24 DEF Crash
<1>25. ASSUME UserEdit PROVE LockHeld'
  BY <1>25 DEF UserEdit
<1>26. ASSUME UNCHANGED vars PROVE LockHeld'
  BY <1>26 DEF vars
<1> QED
  BY <1>1, <1>2, <1>3, <1>4, <1>5, <1>6, <1>7, <1>8, <1>9, <1>10, <1>11,
     <1>12, <1>13, <1>14, <1>15, <1>16, <1>17, <1>18, <1>19, <1>20,
     <1>21, <1>22, <1>23, <1>24, <1>25, <1>26, <1>27, <1>28
     DEF Next, Step, Fails, Inject, Mutate, invalidate_generated_files

\* No memory is forgotten while a publication holds the reservation.
LEMMA PublishesActiveStep ==
  ASSUME TypeOK, ContextInv, Backend = "sqlite", [Next]_vars
  PROVE  PublishesActive'
<1> USE ConstantsAssumption, Names
    DEF TypeOK, TablesOK, LocalsOK, ContextInv, PublishesActive, Active,
        LockHeld,
           tables, locals, budgets, Goto, Return, Reserve, Unlock, Starts,
           Fault, Mutation, Bump
<1>1. ASSUME NEW t \in Task, context_revision(t) PROVE PublishesActive'
  BY <1>1 DEF context_revision
<1>2. ASSUME NEW t \in Task, rank_for_injection(t) PROVE PublishesActive'
  BY <1>2 DEF rank_for_injection
<1>3. ASSUME NEW t \in Task, begin_write(t) PROVE PublishesActive'
  BY <1>3 DEF begin_write
<1>4. ASSUME NEW t \in Task, VerifyRevision(t) PROVE PublishesActive'
  BY <1>4 DEF VerifyRevision
<1>5. ASSUME NEW t \in Task, write_ironmem_file(t) PROVE PublishesActive'
  BY <1>5 DEF write_ironmem_file
<1>6. ASSUME NEW t \in Task, Publish(t) PROVE PublishesActive'
  BY <1>6 DEF Publish
<1>7. ASSUME NEW t \in Task, InjectFails(t) PROVE PublishesActive'
  BY <1>7 DEF InjectFails
<1>8. ASSUME NEW t \in Task, RegistrationFails(t) PROVE PublishesActive'
  BY <1>8 DEF RegistrationFails
<1>9. ASSUME NEW t \in Task, Cleanup(t) PROVE PublishesActive'
  BY <1>9 DEF Cleanup
<1>10. ASSUME NEW t \in Task, NEW m \in Memory, governed_delete_memory(t, m)
      PROVE  PublishesActive'
  BY <1>10 DEF governed_delete_memory
<1>11. ASSUME NEW t \in Task, NEW m \in Memory, insert_memory(t, m)
      PROVE  PublishesActive'
  BY <1>11 DEF insert_memory
<1>12. ASSUME NEW t \in Task, append_assertion(t) PROVE PublishesActive'
  BY <1>12 DEF append_assertion
<1>27. ASSUME NEW t \in Task, delete_memory(t) PROVE PublishesActive'
  BY <1>27 DEF delete_memory
<1>28. ASSUME NEW t \in Task, ForgetFails(t) PROVE PublishesActive'
  BY <1>28 DEF ForgetFails
<1>13. ASSUME NEW t \in Task, CountDirty(t) PROVE PublishesActive'
  BY <1>13 DEF CountDirty
<1>14. ASSUME NEW t \in Task, BeginInvalidate(t) PROVE PublishesActive'
  BY <1>14 DEF BeginInvalidate
<1>15. ASSUME NEW t \in Task, SelectDirty(t) PROVE PublishesActive'
  BY <1>15 DEF SelectDirty
<1>16. ASSUME NEW t \in Task, ReadFile(t) PROVE PublishesActive'
  BY <1>16 DEF ReadFile
<1>17. ASSUME NEW t \in Task, RemoveFile(t) PROVE PublishesActive'
  BY <1>17 DEF RemoveFile
<1>18. ASSUME NEW t \in Task, DeleteRow(t) PROVE PublishesActive'
  BY <1>18 DEF DeleteRow
<1>19. ASSUME NEW t \in Task, InvalidateFails(t) PROVE PublishesActive'
  BY <1>19 DEF InvalidateFails
<1>20. ASSUME NEW t \in Task, diagnose(t) PROVE PublishesActive'
  BY <1>20 DEF diagnose
<1>21. ASSUME NEW t \in Task, PreviewSelect(t) PROVE PublishesActive'
  BY <1>21 DEF PreviewSelect
<1>22. ASSUME NEW t \in Task, EndPreview(t) PROVE PublishesActive'
  BY <1>22 DEF EndPreview
<1>23. ASSUME NEW t \in Task, Deliver(t) PROVE PublishesActive'
  BY <1>23 DEF Deliver
<1>24. ASSUME NEW t \in Task, Crash(t) PROVE PublishesActive'
  BY <1>24 DEF Crash
<1>25. ASSUME UserEdit PROVE PublishesActive'
  BY <1>25 DEF UserEdit
<1>26. ASSUME UNCHANGED vars PROVE PublishesActive'
  BY <1>26 DEF vars
<1> QED
  BY <1>1, <1>2, <1>3, <1>4, <1>5, <1>6, <1>7, <1>8, <1>9, <1>10, <1>11,
     <1>12, <1>13, <1>14, <1>15, <1>16, <1>17, <1>18, <1>19, <1>20,
     <1>21, <1>22, <1>23, <1>24, <1>25, <1>26, <1>27, <1>28
     DEF Next, Step, Fails, Inject, Mutate, invalidate_generated_files

\* The row an invalidation has read stays the registered one.
LEMMA RowIsCurrentStep ==
  ASSUME TypeOK, ContextInv, Backend = "sqlite", [Next]_vars
  PROVE  RowIsCurrent'
<1> USE ConstantsAssumption, Names
    DEF TypeOK, TablesOK, LocalsOK, ContextInv, RowIsCurrent, Row, Content,
        LockHeld,
           tables, locals, budgets, Goto, Return, Reserve, Unlock, Starts,
           Fault, Mutation, Bump
<1>1. ASSUME NEW t \in Task, context_revision(t) PROVE RowIsCurrent'
  BY <1>1 DEF context_revision
<1>2. ASSUME NEW t \in Task, rank_for_injection(t) PROVE RowIsCurrent'
  BY <1>2 DEF rank_for_injection
<1>3. ASSUME NEW t \in Task, begin_write(t) PROVE RowIsCurrent'
  BY <1>3 DEF begin_write
<1>4. ASSUME NEW t \in Task, VerifyRevision(t) PROVE RowIsCurrent'
  BY <1>4 DEF VerifyRevision
<1>5. ASSUME NEW t \in Task, write_ironmem_file(t) PROVE RowIsCurrent'
  BY <1>5 DEF write_ironmem_file
<1>6. ASSUME NEW t \in Task, Publish(t) PROVE RowIsCurrent'
  BY <1>6 DEF Publish
<1>7. ASSUME NEW t \in Task, InjectFails(t) PROVE RowIsCurrent'
  BY <1>7 DEF InjectFails
<1>8. ASSUME NEW t \in Task, RegistrationFails(t) PROVE RowIsCurrent'
  BY <1>8 DEF RegistrationFails
<1>9. ASSUME NEW t \in Task, Cleanup(t) PROVE RowIsCurrent'
  BY ZenonT(60), <1>9 DEF Cleanup
<1>10. ASSUME NEW t \in Task, NEW m \in Memory, governed_delete_memory(t, m)
      PROVE  RowIsCurrent'
  BY <1>10 DEF governed_delete_memory
<1>11. ASSUME NEW t \in Task, NEW m \in Memory, insert_memory(t, m)
      PROVE  RowIsCurrent'
  BY <1>11 DEF insert_memory
<1>12. ASSUME NEW t \in Task, append_assertion(t) PROVE RowIsCurrent'
  BY <1>12 DEF append_assertion
<1>27. ASSUME NEW t \in Task, delete_memory(t) PROVE RowIsCurrent'
  BY <1>27 DEF delete_memory
<1>28. ASSUME NEW t \in Task, ForgetFails(t) PROVE RowIsCurrent'
  BY <1>28 DEF ForgetFails
<1>13. ASSUME NEW t \in Task, CountDirty(t) PROVE RowIsCurrent'
  BY <1>13 DEF CountDirty
<1>14. ASSUME NEW t \in Task, BeginInvalidate(t) PROVE RowIsCurrent'
  BY <1>14 DEF BeginInvalidate
<1>15. ASSUME NEW t \in Task, SelectDirty(t) PROVE RowIsCurrent'
  BY <1>15 DEF SelectDirty
<1>16. ASSUME NEW t \in Task, ReadFile(t) PROVE RowIsCurrent'
  BY <1>16 DEF ReadFile
<1>17. ASSUME NEW t \in Task, RemoveFile(t) PROVE RowIsCurrent'
  <2>1. row[t] \in Row /\ row[t].hash # None
    BY <1>17 DEF RemoveFile
  <2>2. \A u \in Task : pc[u] \in {"read", "remove", "delete"} => u = t
    BY <1>17 DEF RemoveFile
  <2> QED BY <1>17, <2>1, <2>2 DEF RemoveFile
<1>18. ASSUME NEW t \in Task, DeleteRow(t) PROVE RowIsCurrent'
  BY <1>18 DEF DeleteRow
<1>19. ASSUME NEW t \in Task, InvalidateFails(t) PROVE RowIsCurrent'
  BY <1>19 DEF InvalidateFails
<1>20. ASSUME NEW t \in Task, diagnose(t) PROVE RowIsCurrent'
  BY <1>20 DEF diagnose
<1>21. ASSUME NEW t \in Task, PreviewSelect(t) PROVE RowIsCurrent'
  BY <1>21 DEF PreviewSelect
<1>22. ASSUME NEW t \in Task, EndPreview(t) PROVE RowIsCurrent'
  BY <1>22 DEF EndPreview
<1>23. ASSUME NEW t \in Task, Deliver(t) PROVE RowIsCurrent'
  BY <1>23 DEF Deliver
<1>24. ASSUME NEW t \in Task, Crash(t) PROVE RowIsCurrent'
  BY <1>24 DEF Crash
<1>25. ASSUME UserEdit PROVE RowIsCurrent'
  BY <1>25 DEF UserEdit
<1>26. ASSUME UNCHANGED vars PROVE RowIsCurrent'
  BY <1>26 DEF vars
<1> QED
  BY <1>1, <1>2, <1>3, <1>4, <1>5, <1>6, <1>7, <1>8, <1>9, <1>10, <1>11,
     <1>12, <1>13, <1>14, <1>15, <1>16, <1>17, <1>18, <1>19, <1>20,
     <1>21, <1>22, <1>23, <1>24, <1>25, <1>26, <1>27, <1>28
     DEF Next, Step, Fails, Inject, Mutate, invalidate_generated_files

\* Nobody else publishes between a task's rename and its COMMIT.
LEMMA WrittenByHolderStep ==
  ASSUME TypeOK, ContextInv, Backend = "sqlite", [Next]_vars
  PROVE  WrittenByHolder'
<1> USE ConstantsAssumption, Names
    DEF TypeOK, TablesOK, LocalsOK, ContextInv, WrittenByHolder, LockHeld,
           tables, locals, budgets, Goto, Return, Reserve, Unlock, Starts,
           Fault, Mutation, Bump
<1>1. ASSUME NEW t \in Task, context_revision(t) PROVE WrittenByHolder'
  BY <1>1 DEF context_revision
<1>2. ASSUME NEW t \in Task, rank_for_injection(t) PROVE WrittenByHolder'
  BY <1>2 DEF rank_for_injection
<1>3. ASSUME NEW t \in Task, begin_write(t) PROVE WrittenByHolder'
  BY <1>3 DEF begin_write
<1>4. ASSUME NEW t \in Task, VerifyRevision(t) PROVE WrittenByHolder'
  BY <1>4 DEF VerifyRevision
<1>5. ASSUME NEW t \in Task, write_ironmem_file(t) PROVE WrittenByHolder'
  BY <1>5 DEF write_ironmem_file
<1>6. ASSUME NEW t \in Task, Publish(t) PROVE WrittenByHolder'
  BY <1>6 DEF Publish
<1>7. ASSUME NEW t \in Task, InjectFails(t) PROVE WrittenByHolder'
  BY <1>7 DEF InjectFails
<1>8. ASSUME NEW t \in Task, RegistrationFails(t) PROVE WrittenByHolder'
  BY <1>8 DEF RegistrationFails
<1>9. ASSUME NEW t \in Task, Cleanup(t) PROVE WrittenByHolder'
  BY <1>9 DEF Cleanup
<1>10. ASSUME NEW t \in Task, NEW m \in Memory, governed_delete_memory(t, m)
      PROVE  WrittenByHolder'
  BY <1>10 DEF governed_delete_memory
<1>11. ASSUME NEW t \in Task, NEW m \in Memory, insert_memory(t, m)
      PROVE  WrittenByHolder'
  BY <1>11 DEF insert_memory
<1>12. ASSUME NEW t \in Task, append_assertion(t) PROVE WrittenByHolder'
  BY <1>12 DEF append_assertion
<1>27. ASSUME NEW t \in Task, delete_memory(t) PROVE WrittenByHolder'
  BY <1>27 DEF delete_memory
<1>28. ASSUME NEW t \in Task, ForgetFails(t) PROVE WrittenByHolder'
  BY <1>28 DEF ForgetFails
<1>13. ASSUME NEW t \in Task, CountDirty(t) PROVE WrittenByHolder'
  BY <1>13 DEF CountDirty
<1>14. ASSUME NEW t \in Task, BeginInvalidate(t) PROVE WrittenByHolder'
  BY <1>14 DEF BeginInvalidate
<1>15. ASSUME NEW t \in Task, SelectDirty(t) PROVE WrittenByHolder'
  BY <1>15 DEF SelectDirty
<1>16. ASSUME NEW t \in Task, ReadFile(t) PROVE WrittenByHolder'
  BY <1>16 DEF ReadFile
<1>17. ASSUME NEW t \in Task, RemoveFile(t) PROVE WrittenByHolder'
  BY <1>17 DEF RemoveFile
<1>18. ASSUME NEW t \in Task, DeleteRow(t) PROVE WrittenByHolder'
  BY <1>18 DEF DeleteRow
<1>19. ASSUME NEW t \in Task, InvalidateFails(t) PROVE WrittenByHolder'
  BY <1>19 DEF InvalidateFails
<1>20. ASSUME NEW t \in Task, diagnose(t) PROVE WrittenByHolder'
  BY <1>20 DEF diagnose
<1>21. ASSUME NEW t \in Task, PreviewSelect(t) PROVE WrittenByHolder'
  BY <1>21 DEF PreviewSelect
<1>22. ASSUME NEW t \in Task, EndPreview(t) PROVE WrittenByHolder'
  BY <1>22 DEF EndPreview
<1>23. ASSUME NEW t \in Task, Deliver(t) PROVE WrittenByHolder'
  BY <1>23 DEF Deliver
<1>24. ASSUME NEW t \in Task, Crash(t) PROVE WrittenByHolder'
  BY <1>24 DEF Crash
<1>25. ASSUME UserEdit PROVE WrittenByHolder'
  BY <1>25 DEF UserEdit
<1>26. ASSUME UNCHANGED vars PROVE WrittenByHolder'
  BY <1>26 DEF vars
<1> QED
  BY <1>1, <1>2, <1>3, <1>4, <1>5, <1>6, <1>7, <1>8, <1>9, <1>10, <1>11,
     <1>12, <1>13, <1>14, <1>15, <1>16, <1>17, <1>18, <1>19, <1>20,
     <1>21, <1>22, <1>23, <1>24, <1>25, <1>26, <1>27, <1>28
     DEF Next, Step, Fails, Inject, Mutate, invalidate_generated_files

\* A published file is registered, in the hands of a task, or orphaned.
LEMMA AccountedStep ==
  ASSUME TypeOK, ContextInv, Backend = "sqlite", [Next]_vars
  PROVE  Accounted'
<1> USE ConstantsAssumption, Names
    DEF TypeOK, TablesOK, LocalsOK, ContextInv, Accounted, Row, Content,
        LockHeld, RowIsCurrent, WrittenByHolder,
           tables, locals, budgets, Goto, Return, Reserve, Unlock, Starts,
           Fault, Mutation, Bump
<1>1. ASSUME NEW t \in Task, context_revision(t) PROVE Accounted'
  BY <1>1 DEF context_revision
<1>2. ASSUME NEW t \in Task, rank_for_injection(t) PROVE Accounted'
  BY <1>2 DEF rank_for_injection
<1>3. ASSUME NEW t \in Task, begin_write(t) PROVE Accounted'
  BY <1>3 DEF begin_write
<1>4. ASSUME NEW t \in Task, VerifyRevision(t) PROVE Accounted'
  BY <1>4 DEF VerifyRevision
<1>5. ASSUME NEW t \in Task, write_ironmem_file(t) PROVE Accounted'
  BY <1>5 DEF write_ironmem_file
<1>6. ASSUME NEW t \in Task, Publish(t) PROVE Accounted'
  BY <1>6 DEF Publish
<1>7. ASSUME NEW t \in Task, InjectFails(t) PROVE Accounted'
  BY <1>7 DEF InjectFails
<1>8. ASSUME NEW t \in Task, RegistrationFails(t) PROVE Accounted'
  BY <1>8 DEF RegistrationFails
<1>9. ASSUME NEW t \in Task, Cleanup(t) PROVE Accounted'
  BY <1>9 DEF Cleanup
<1>10. ASSUME NEW t \in Task, NEW m \in Memory, governed_delete_memory(t, m)
      PROVE  Accounted'
  BY <1>10 DEF governed_delete_memory
<1>11. ASSUME NEW t \in Task, NEW m \in Memory, insert_memory(t, m)
      PROVE  Accounted'
  BY <1>11 DEF insert_memory
<1>12. ASSUME NEW t \in Task, append_assertion(t) PROVE Accounted'
  BY <1>12 DEF append_assertion
<1>27. ASSUME NEW t \in Task, delete_memory(t) PROVE Accounted'
  BY <1>27 DEF delete_memory
<1>28. ASSUME NEW t \in Task, ForgetFails(t) PROVE Accounted'
  BY <1>28 DEF ForgetFails
<1>13. ASSUME NEW t \in Task, CountDirty(t) PROVE Accounted'
  BY <1>13 DEF CountDirty
<1>14. ASSUME NEW t \in Task, BeginInvalidate(t) PROVE Accounted'
  BY <1>14 DEF BeginInvalidate
<1>15. ASSUME NEW t \in Task, SelectDirty(t) PROVE Accounted'
  BY <1>15 DEF SelectDirty
<1>16. ASSUME NEW t \in Task, ReadFile(t) PROVE Accounted'
  BY <1>16 DEF ReadFile
<1>17. ASSUME NEW t \in Task, RemoveFile(t) PROVE Accounted'
  BY <1>17 DEF RemoveFile
<1>18. ASSUME NEW t \in Task, DeleteRow(t) PROVE Accounted'
  BY <1>18 DEF DeleteRow
<1>19. ASSUME NEW t \in Task, InvalidateFails(t) PROVE Accounted'
  BY <1>19 DEF InvalidateFails
<1>20. ASSUME NEW t \in Task, diagnose(t) PROVE Accounted'
  BY <1>20 DEF diagnose
<1>21. ASSUME NEW t \in Task, PreviewSelect(t) PROVE Accounted'
  BY <1>21 DEF PreviewSelect
<1>22. ASSUME NEW t \in Task, EndPreview(t) PROVE Accounted'
  BY <1>22 DEF EndPreview
<1>23. ASSUME NEW t \in Task, Deliver(t) PROVE Accounted'
  BY <1>23 DEF Deliver
<1>24. ASSUME NEW t \in Task, Crash(t) PROVE Accounted'
  BY ZenonT(60), <1>24 DEF Crash
<1>25. ASSUME UserEdit PROVE Accounted'
  BY <1>25 DEF UserEdit
<1>26. ASSUME UNCHANGED vars PROVE Accounted'
  BY <1>26 DEF vars
<1> QED
  BY <1>1, <1>2, <1>3, <1>4, <1>5, <1>6, <1>7, <1>8, <1>9, <1>10, <1>11,
     <1>12, <1>13, <1>14, <1>15, <1>16, <1>17, <1>18, <1>19, <1>20,
     <1>21, <1>22, <1>23, <1>24, <1>25, <1>26, <1>27, <1>28
     DEF Next, Step, Fails, Inject, Mutate, invalidate_generated_files

\* A change dirties the registration of the file it makes stale.
LEMMA StaleIsPendingStep ==
  ASSUME TypeOK, ContextInv, Backend = "sqlite", [Next]_vars
  PROVE  StaleIsPending'
<1> USE ConstantsAssumption, Names
    DEF TypeOK, TablesOK, LocalsOK, ContextInv, StaleIsPending, LockHeld,
        RowIsCurrent, WrittenByHolder, PublishesActive, Accounted, IsStale,
        Shows, InCleanup, Active, Row, Content,
           tables, locals, budgets, Goto, Return, Reserve, Unlock, Starts,
           Fault, Mutation, Bump
<1>1. ASSUME NEW t \in Task, context_revision(t) PROVE StaleIsPending'
  BY <1>1 DEF context_revision
<1>2. ASSUME NEW t \in Task, rank_for_injection(t) PROVE StaleIsPending'
  BY <1>2 DEF rank_for_injection
<1>3. ASSUME NEW t \in Task, begin_write(t) PROVE StaleIsPending'
  BY <1>3 DEF begin_write
<1>4. ASSUME NEW t \in Task, VerifyRevision(t) PROVE StaleIsPending'
  BY <1>4 DEF VerifyRevision
<1>5. ASSUME NEW t \in Task, write_ironmem_file(t) PROVE StaleIsPending'
  BY <1>5 DEF write_ironmem_file
<1>6. ASSUME NEW t \in Task, Publish(t) PROVE StaleIsPending'
  BY <1>6 DEF Publish
<1>7. ASSUME NEW t \in Task, InjectFails(t) PROVE StaleIsPending'
  BY <1>7 DEF InjectFails
<1>8. ASSUME NEW t \in Task, RegistrationFails(t) PROVE StaleIsPending'
  BY <1>8 DEF RegistrationFails
<1>9. ASSUME NEW t \in Task, Cleanup(t) PROVE StaleIsPending'
  BY <1>9 DEF Cleanup
<1>10. ASSUME NEW t \in Task, NEW m \in Memory, governed_delete_memory(t, m)
      PROVE  StaleIsPending'
  <2>1. \A u \in Task : pc[u] # "publish"
    BY <1>10 DEF governed_delete_memory
  <2>2. UNCHANGED file /\ UNCHANGED orphan /\ (InCleanup => InCleanup')
    BY <1>10 DEF governed_delete_memory
  <2>3. reg # None => reg'.hash = reg.hash /\ reg'.dirty > 0 /\ reg' # None
    BY <1>10 DEF governed_delete_memory
  <2> QED BY <2>1, <2>2, <2>3
<1>11. ASSUME NEW t \in Task, NEW m \in Memory, insert_memory(t, m)
      PROVE  StaleIsPending'
  <2>1. \A u \in Task : pc[u] # "publish"
    BY <1>11 DEF insert_memory
  <2>2. UNCHANGED file /\ UNCHANGED orphan /\ (InCleanup => InCleanup')
    BY <1>11 DEF insert_memory
  <2>3. reg # None => reg'.hash = reg.hash /\ reg'.dirty > 0 /\ reg' # None
    BY <1>11 DEF insert_memory
  <2> QED BY <2>1, <2>2, <2>3
<1>12. ASSUME NEW t \in Task, append_assertion(t) PROVE StaleIsPending'
  <2>1. \A u \in Task : pc[u] # "publish"
    BY <1>12 DEF append_assertion
  <2>2. UNCHANGED file /\ UNCHANGED orphan /\ (InCleanup => InCleanup')
    BY <1>12 DEF append_assertion
  <2>3. reg # None => reg'.hash = reg.hash /\ reg'.dirty > 0 /\ reg' # None
    BY <1>12 DEF append_assertion
  <2> QED BY <2>1, <2>2, <2>3
<1>27. ASSUME NEW t \in Task, delete_memory(t) PROVE StaleIsPending'
  <2>1. \A u \in Task : pc[u] # "publish"
    BY <1>27 DEF delete_memory
  <2>2. UNCHANGED file /\ UNCHANGED orphan /\ (InCleanup => InCleanup')
    BY <1>27 DEF delete_memory
  <2>3. reg # None => reg'.hash = reg.hash /\ reg'.dirty > 0 /\ reg' # None
    BY <1>27 DEF delete_memory
  <2> QED BY <2>1, <2>2, <2>3
<1>28. ASSUME NEW t \in Task, ForgetFails(t) PROVE StaleIsPending'
  BY <1>28 DEF ForgetFails
<1>13. ASSUME NEW t \in Task, CountDirty(t) PROVE StaleIsPending'
  BY <1>13 DEF CountDirty
<1>14. ASSUME NEW t \in Task, BeginInvalidate(t) PROVE StaleIsPending'
  BY <1>14 DEF BeginInvalidate
<1>15. ASSUME NEW t \in Task, SelectDirty(t) PROVE StaleIsPending'
  BY <1>15 DEF SelectDirty
<1>16. ASSUME NEW t \in Task, ReadFile(t) PROVE StaleIsPending'
  BY <1>16 DEF ReadFile
<1>17. ASSUME NEW t \in Task, RemoveFile(t) PROVE StaleIsPending'
  BY <1>17 DEF RemoveFile
<1>18. ASSUME NEW t \in Task, DeleteRow(t) PROVE StaleIsPending'
  BY <1>18 DEF DeleteRow
<1>19. ASSUME NEW t \in Task, InvalidateFails(t) PROVE StaleIsPending'
  BY <1>19 DEF InvalidateFails
<1>20. ASSUME NEW t \in Task, diagnose(t) PROVE StaleIsPending'
  BY <1>20 DEF diagnose
<1>21. ASSUME NEW t \in Task, PreviewSelect(t) PROVE StaleIsPending'
  BY <1>21 DEF PreviewSelect
<1>22. ASSUME NEW t \in Task, EndPreview(t) PROVE StaleIsPending'
  BY <1>22 DEF EndPreview
<1>23. ASSUME NEW t \in Task, Deliver(t) PROVE StaleIsPending'
  BY <1>23 DEF Deliver
<1>24. ASSUME NEW t \in Task, Crash(t) PROVE StaleIsPending'
  <2>1. UNCHANGED <<file, tables>> /\ (orphan => orphan')
    BY <1>24 DEF Crash
  <2>2. ASSUME NEW u \in Task, pc[u] = "cleanup", chosen[u] = file
        PROVE  InCleanup' \/ orphan'
    <3>1. CASE u = t
      BY <1>24, <2>2, <3>1 DEF Crash
    <3>2. CASE u # t
      <4>1. pc'[u] = pc[u] /\ chosen'[u] = chosen[u]
        BY <1>24, <3>2 DEF Crash
      <4> QED BY <2>1, <2>2, <4>1
    <3> QED BY <3>1, <3>2
  <2> QED BY <2>1, <2>2
<1>25. ASSUME UserEdit PROVE StaleIsPending'
  BY <1>25 DEF UserEdit
<1>26. ASSUME UNCHANGED vars PROVE StaleIsPending'
  BY <1>26 DEF vars
<1> QED
  BY <1>1, <1>2, <1>3, <1>4, <1>5, <1>6, <1>7, <1>8, <1>9, <1>10, <1>11,
     <1>12, <1>13, <1>14, <1>15, <1>16, <1>17, <1>18, <1>19, <1>20,
     <1>21, <1>22, <1>23, <1>24, <1>25, <1>26, <1>27, <1>28
     DEF Next, Step, Fails, Inject, Mutate, invalidate_generated_files

-----------------------------------------------------------------------------
\* Every state of the context file, its registration and the tasks around it
\* is well typed, and an invalidation that looks at the file has its row.
THEOREM TypeCorrect == Spec => []TypeOK
<1>1. TypeOK /\ [Next]_vars => TypeOK'
  BY NextTypeOK
<1> QED BY InitTypeOK, <1>1, PTL DEF Spec

\* diagnostics.rs: comparing the revision before and after is enough, without
\* a lock and on both backends, for a preview to show no memory that was
\* forgotten meanwhile.
THEOREM PreviewsAreCurrent == Spec => PreviewIsCurrent
<1>1. Init => RevisionInv
  BY DEF Init, RevisionInv, Captured, SelectionCurrent
<1>2. TypeOK /\ RevisionInv /\ [Next]_vars => RevisionInv'
  BY RevisionStep
<1>3. TypeOK /\ RevisionInv /\ [Next]_vars =>
        [\A t \in Task : pc[t] = "preview" /\ pc'[t] = "deliver"
                           => chosen[t] \subseteq Active]_vars
  <2> SUFFICES ASSUME TypeOK, RevisionInv, Next, NEW t \in Task,
                      pc[t] = "preview", pc'[t] = "deliver"
               PROVE  chosen[t] \subseteq Active
    OBVIOUS
  <2>1. ASSUME NEW u \in Task, EndPreview(u) PROVE rev[t] = revision
    BY <2>1 DEF EndPreview, Released, Goto, Return, TypeOK, LocalsOK
  <2>2. \E u \in Task : EndPreview(u)
    BY DEF Next, Step, Fails, Inject, Mutate, invalidate_generated_files,
       context_revision, rank_for_injection, begin_write, VerifyRevision,
       write_ironmem_file, Publish, InjectFails, RegistrationFails,
       Cleanup, governed_delete_memory, delete_memory, ForgetFails,
       insert_memory, append_assertion,
       CountDirty, BeginInvalidate, SelectDirty, ReadFile, RemoveFile,
       DeleteRow, InvalidateFails, diagnose, PreviewSelect, Deliver, Crash,
       Goto, Return, Mutation, UserEdit, TypeOK, LocalsOK
  <2> QED BY <2>1, <2>2 DEF RevisionInv, SelectionCurrent
<1> QED BY <1>1, <1>2, <1>3, TypeCorrect, PTL DEF Spec, PreviewIsCurrent

\* hooks.rs: as long as the user does not save in the instant between the hash
\* comparison and the unlink, neither invalidation nor the cleanup of a failed
\* publication deletes an edited file.
THEOREM EditsArePreserved ==
  ASSUME ~UserRaces
  PROVE  Spec => EditsPreserved
<1>1. Init => UnlinksOwn
  BY DEF Init, UnlinksOwn
<1>2. TypeOK /\ UnlinksOwn /\ [Next]_vars => UnlinksOwn'
  BY UnlinkStep
<1>3. TypeOK /\ UnlinksOwn /\ [Next]_vars =>
        [file = User /\ file' = None => \E t \in Task : pc[t] = "write"]_vars
  <2> SUFFICES ASSUME TypeOK, UnlinksOwn, Next, file = User, file' = None,
                      \A t \in Task : pc[t] # "write"
               PROVE  FALSE
    OBVIOUS
  <2>1. User # None /\ file' # file
    BY ConstantsAssumption
  <2>2. ASSUME NEW t \in Task, RemoveFile(t) PROVE FALSE
    BY <2>2, ~UserRaces DEF RemoveFile, UnlinksOwn
  <2>3. ASSUME NEW t \in Task, Cleanup(t) PROVE FALSE
    BY <2>1, <2>3, ConstantsAssumption DEF Cleanup, TypeOK, LocalsOK
  <2>4. ASSUME NEW t \in Task, write_ironmem_file(t) PROVE FALSE
    BY <2>4 DEF write_ironmem_file, Goto
  <2>5. ASSUME UserEdit PROVE FALSE
    BY <2>1, <2>5 DEF UserEdit
  <2> QED
    BY <2>1, <2>2, <2>3, <2>4, <2>5
    DEF Next, Step, Fails, Inject, Mutate, invalidate_generated_files,
       context_revision, rank_for_injection, begin_write, VerifyRevision,
       Publish, InjectFails, RegistrationFails, governed_delete_memory,
       delete_memory, ForgetFails, insert_memory, append_assertion, CountDirty, BeginInvalidate,
       SelectDirty, ReadFile, DeleteRow, InvalidateFails, diagnose,
       PreviewSelect, EndPreview, Deliver, Crash,
       Mutation, tables
<1> QED BY <1>1, <1>2, <1>3, TypeCorrect, PTL DEF Spec, EditsPreserved

\* hooks.rs on SQLite: a context file that shows a forgotten memory is
\* registered and dirty, so that the next change removes it, whatever order
\* publications, changes, invalidations, edits, failures and crashes come in.
THEOREM StaleContextIsPending ==
  ASSUME Backend = "sqlite"
  PROVE  Spec => []StaleIsPending
<1>1. Init => ContextInv
  BY Names, ConstantsAssumption
     DEF Init, ContextInv, LockHeld, PublishesActive, RowIsCurrent,
         WrittenByHolder, Accounted, StaleIsPending, IsStale, Shows
<1>2. TypeOK /\ ContextInv /\ [Next]_vars => ContextInv'
  BY LockHeldStep, PublishesActiveStep, RowIsCurrentStep, WrittenByHolderStep,
     AccountedStep, StaleIsPendingStep, Backend = "sqlite" DEF ContextInv
<1>3. ContextInv => StaleIsPending
  BY DEF ContextInv
<1> QED BY <1>1, <1>2, <1>3, TypeCorrect, PTL DEF Spec
=============================================================================
