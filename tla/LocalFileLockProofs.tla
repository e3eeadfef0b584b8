-------------------------- MODULE LocalFileLockProofs --------------------------
(* Proofs about LocalFileLock for any set of calls, processes and hosts, and  *)
(* for any kinds of trouble.                                                  *)
EXTENDS LocalFileLockProps, TLAPS

\* The two shapes of a directory that the steps write.
LEMMA LockRecords ==
    /\ NoLock \in Locks
    /\ \A c \in Calls, full \in BOOLEAN : [by |-> c, full |-> full, old |-> FALSE] \in Locks
    /\ NoLock.by = NoCall /\ ~NoLock.full
BY DEF NoLock, Locks

\* A look at an intent counts it or unlinks it, and unlinks one of a live
\* process only when it was stale or could not be read.
LEMMA JudgeEffect ==
    ASSUME NEW c \in Calls, NEW d \in Calls, Examine(c, d) \/ ExamineUnread(c, d)
    PROVE  /\ pc[c] = "examine" /\ d \in scan[c]
           /\ \/ /\ found' = [found EXCEPT ![c] = TRUE]
                 /\ scan' = [scan EXCEPT ![c] = scan[c] \ {d}]
                 /\ intent' = intent
              \/ /\ UnlinkIntent(d)
                 /\ found' = found
                 /\ ~IntentActive(c, d) \/ "readIntent" \in errors
           /\ UNCHANGED <<pc, role, lock, sawOld, out, deadProcs, reusedPids, errors>>
<1>1. CASE Examine(c, d)
  <2>1. CASE IntentActive(c, d)
    BY <1>1, <2>1 DEF Examine, Judge
  <2>2. CASE ~IntentActive(c, d)
    BY <1>1, <2>2 DEF Examine, Judge
  <2>3. QED
    BY <2>1, <2>2
<1>2. CASE ExamineUnread(c, d)
  <2>1. CASE intent[d] \in {"empty", "full"}
    BY <1>2, <2>1 DEF ExamineUnread, Judge
  <2>2. CASE ~(intent[d] \in {"empty", "full"})
    BY <1>2, <2>2 DEF ExamineUnread, Judge
  <2>3. QED
    BY <2>1, <2>2
<1>3. QED
  BY <1>1, <1>2

\* An inspection decides on the rename of what Reapable allows, or of a
\* directory whose owner.json could not be read.
LEMMA InspectEffect ==
    ASSUME NEW c \in Calls, ReadOwner(c) \/ ReadOwnerFails(c)
    PROVE  /\ pc[c] = "readOwner"
           /\ \/ /\ Goto(c, "quarantine") /\ UNCHANGED out
                 /\ Reapable(c) \/ "readOwner" \in errors
              \/ Goto(c, "removeIntent") /\ out' = [out EXCEPT ![c] = "kept"]
           /\ sawOld' = [sawOld EXCEPT ![c] = FALSE]
           /\ UNCHANGED <<role, intent, scan, found, lock, deadProcs, reusedPids, errors>>
<1>1. CASE ReadOwner(c)
  <2>1. CASE Reapable(c)
    BY <1>1, <2>1 DEF ReadOwner, Inspect
  <2>2. CASE ~Reapable(c)
    BY <1>1, <2>2 DEF ReadOwner, Inspect
  <2>3. QED
    BY <2>1, <2>2
<1>2. CASE ReadOwnerFails(c)
  <2>1. CASE sawOld[c]
    BY <1>2, <2>1 DEF ReadOwnerFails, Inspect
  <2>2. CASE ~sawOld[c]
    BY <1>2, <2>2 DEF ReadOwnerFails, Inspect
  <2>3. QED
    BY <2>1, <2>2
<1>3. QED
  BY <1>1, <1>2

\* The trouble a behaviour may meet is chosen once.
LEMMA ErrorsStay == ASSUME [Next]_vars PROVE UNCHANGED errors
BY DEF Next, Step, Fails, CreateIntent, FillIntent, CreateIntentFails, Snapshot, Examine,
       ExamineUnread, Judge, ScanFails, ScanClear, BlockedByReaper, PollAgain, RemoveIntent,
       RemoveIntentFails, Mkdir, MkdirFails, WriteOwner, WriteOwnerFails, Discard, Lstat,
       ReadOwner, ReadOwnerFails, Inspect, Quarantine, ReapFails, Retry, OperationEnds,
       ReadOwnToken, ReadTokenFails, RenameReleased, RecheckToken, UnlinkOwner,
       RmdirReleased, RemovalFails, IntentAges, LockAges, Crash, ReusePid, vars

\* Every step keeps the types; ControlInv says that a call that removes its
\* intent has an outcome, which AfterIntent and RoleAfterIntent need.
LEMMA TypeStep == ASSUME IInv, [Next]_vars PROVE TypeOK'
<1> USE DEF TypeOK, IInv, PCs, Kinds, IntentStates, Outcomes
<1>1. ASSUME NEW c \in Calls, CreateIntent(c) PROVE TypeOK'
  BY <1>1 DEF CreateIntent, Goto
<1>2. ASSUME NEW c \in Calls, FillIntent(c) PROVE TypeOK'
  BY <1>2 DEF FillIntent, Goto
<1>3. ASSUME NEW c \in Calls, CreateIntentFails(c) PROVE TypeOK'
  BY <1>3 DEF CreateIntentFails, Goto
<1>4. ASSUME NEW c \in Calls, Snapshot(c) PROVE TypeOK'
  BY <1>4 DEF Snapshot, Goto
<1>5. ASSUME NEW c \in Calls, NEW d \in Calls, Examine(c, d) \/ ExamineUnread(c, d) PROVE TypeOK'
  <2>1. /\ \A e \in Calls : scan[e] \ {d} \in SUBSET Calls
        /\ UNCHANGED <<pc, role, lock, sawOld, out, deadProcs, reusedPids, errors>>
    BY <1>5, JudgeEffect
  <2>2. CASE /\ scan' = [scan EXCEPT ![c] = scan[c] \ {d}]
             /\ found' = [found EXCEPT ![c] = TRUE] /\ intent' = intent
    <3>1. scan' \in [Calls -> SUBSET Calls] /\ found' \in [Calls -> BOOLEAN]
      BY <2>1, <2>2
    <3>2. QED
      BY <2>1, <2>2, <3>1
  <2>3. CASE UnlinkIntent(d) /\ found' = found
    <3>1. scan' = [e \in Calls |-> scan[e] \ {d}] /\ intent' = [intent EXCEPT ![d] = "absent"]
      BY <2>3 DEF UnlinkIntent
    <3>2. scan' \in [Calls -> SUBSET Calls]
      BY <2>1, <3>1
    <3>3. QED
      BY <2>1, <2>3, <3>1, <3>2
  <2>4. QED
    BY <1>5, <2>2, <2>3, JudgeEffect
<1>6. ASSUME NEW c \in Calls, ScanFails(c) PROVE TypeOK'
  BY <1>6 DEF ScanFails, Throws, Goto
<1>7. ASSUME NEW c \in Calls, ScanClear(c) PROVE TypeOK'
  BY <1>7 DEF ScanClear, Goto
<1>8. ASSUME NEW c \in Calls, BlockedByReaper(c) PROVE TypeOK'
  BY <1>8 DEF BlockedByReaper, Goto
<1>9. ASSUME NEW c \in Calls, PollAgain(c) PROVE TypeOK'
  BY <1>9 DEF PollAgain, Goto
<1>10. ASSUME NEW c \in Calls, RemoveIntent(c) PROVE TypeOK'
  BY <1>10 DEF RemoveIntent, UnlinkIntent, AfterIntent, RoleAfterIntent, Goto, ControlInv
<1>11. ASSUME NEW c \in Calls, RemoveIntentFails(c) PROVE TypeOK'
  BY <1>11 DEF RemoveIntentFails, Goto
<1>12. ASSUME NEW c \in Calls, Mkdir(c) PROVE TypeOK'
  BY <1>12, LockRecords DEF Mkdir, Goto
<1>13. ASSUME NEW c \in Calls, MkdirFails(c) PROVE TypeOK'
  BY <1>13 DEF MkdirFails, Throws, Goto
<1>14. ASSUME NEW c \in Calls, WriteOwner(c) PROVE TypeOK'
  BY <1>14, LockRecords DEF WriteOwner, Goto
<1>15. ASSUME NEW c \in Calls, WriteOwnerFails(c) PROVE TypeOK'
  BY <1>15, LockRecords DEF WriteOwnerFails, Goto
<1>16. ASSUME NEW c \in Calls, Discard(c) PROVE TypeOK'
  BY <1>16, LockRecords DEF Discard, Goto
<1>17. ASSUME NEW c \in Calls, Lstat(c) PROVE TypeOK'
  <2>1. lock.old \in BOOLEAN
    BY DEF Locks
  <2>2. QED
    BY <1>17, <2>1 DEF Lstat, Goto
<1>18. ASSUME NEW c \in Calls, ReadOwner(c) \/ ReadOwnerFails(c) PROVE TypeOK'
  BY <1>18, InspectEffect DEF Goto
<1>19. ASSUME NEW c \in Calls, Quarantine(c) PROVE TypeOK'
  BY <1>19, LockRecords DEF Quarantine, Goto
<1>20. ASSUME NEW c \in Calls, ReapFails(c) PROVE TypeOK'
  BY <1>20, LockRecords DEF ReapFails, Throws, Goto
<1>21. ASSUME NEW c \in Calls, Retry(c) PROVE TypeOK'
  BY <1>21 DEF Retry, Goto
<1>22. ASSUME NEW c \in Calls, OperationEnds(c) PROVE TypeOK'
  BY <1>22 DEF OperationEnds, Goto
<1>23. ASSUME NEW c \in Calls, ReadOwnToken(c) PROVE TypeOK'
  BY <1>23 DEF ReadOwnToken, Goto
<1>24. ASSUME NEW c \in Calls, ReadTokenFails(c) PROVE TypeOK'
  BY <1>24 DEF ReadTokenFails, Goto
<1>25. ASSUME NEW c \in Calls, RenameReleased(c) PROVE TypeOK'
  BY <1>25, LockRecords DEF RenameReleased, Goto
<1>26. ASSUME NEW c \in Calls, RecheckToken(c) PROVE TypeOK'
  BY <1>26 DEF RecheckToken, Goto
<1>27. ASSUME NEW c \in Calls, UnlinkOwner(c) PROVE TypeOK'
  BY <1>27 DEF UnlinkOwner, Locks, Goto
<1>28. ASSUME NEW c \in Calls, RmdirReleased(c) PROVE TypeOK'
  BY <1>28, LockRecords DEF RmdirReleased, Goto
<1>29. ASSUME NEW c \in Calls, RemovalFails(c) PROVE TypeOK'
  BY <1>29 DEF RemovalFails, Goto
<1>30. ASSUME NEW c \in Calls, IntentAges(c) PROVE TypeOK'
  BY <1>30 DEF IntentAges, Goto
<1>31. ASSUME LockAges PROVE TypeOK'
  BY <1>31 DEF LockAges, Locks
<1>32. ASSUME NEW p \in Procs, Crash(p) PROVE TypeOK'
  BY <1>32 DEF Crash, Procs
<1>33. ASSUME NEW p \in Procs, ReusePid(p) PROVE TypeOK'
  BY <1>33 DEF ReusePid, Goto
<1>34. CASE UNCHANGED vars
  BY <1>34 DEF vars
<1>35. QED
  BY <1>1, <1>2, <1>3, <1>4, <1>5, <1>6, <1>7, <1>8, <1>9, <1>10, <1>11, <1>12, <1>13, <1>14,
     <1>15, <1>16, <1>17, <1>18, <1>19, <1>20, <1>21, <1>22, <1>23, <1>24, <1>25, <1>26, <1>27,
     <1>28, <1>29, <1>30, <1>31, <1>32, <1>33, <1>34
  DEF Next, Step, Fails

\* A live call never becomes "dead" by itself; it removes its intent only with
\* an outcome, and takes the steps of its role.
LEMMA ControlStep == ASSUME IInv, [Next]_vars PROVE ControlInv'
<1> USE DEF TypeOK, IInv, ControlInv, MayMake, MayReap, Alive
<1>1. ASSUME NEW c \in Calls, CreateIntent(c) PROVE ControlInv'
  BY <1>1 DEF CreateIntent, Goto
<1>2. ASSUME NEW c \in Calls, FillIntent(c) PROVE ControlInv'
  BY <1>2 DEF FillIntent, Goto
<1>3. ASSUME NEW c \in Calls, CreateIntentFails(c) PROVE ControlInv'
  BY <1>3 DEF CreateIntentFails, Goto
<1>4. ASSUME NEW c \in Calls, Snapshot(c) PROVE ControlInv'
  BY <1>4 DEF Snapshot, Goto
<1>5. ASSUME NEW c \in Calls, NEW d \in Calls, Examine(c, d) \/ ExamineUnread(c, d) PROVE ControlInv'
  BY <1>5, JudgeEffect DEF UnlinkIntent
<1>6. ASSUME NEW c \in Calls, ScanFails(c) PROVE ControlInv'
  BY <1>6 DEF ScanFails, Throws, Goto
<1>7. ASSUME NEW c \in Calls, ScanClear(c) PROVE ControlInv'
  BY <1>7 DEF ScanClear, Goto, Kinds
<1>8. ASSUME NEW c \in Calls, BlockedByReaper(c) PROVE ControlInv'
  BY <1>8 DEF BlockedByReaper, Goto
<1>9. ASSUME NEW c \in Calls, PollAgain(c) PROVE ControlInv'
  BY <1>9 DEF PollAgain, Goto
<1>10. ASSUME NEW c \in Calls, RemoveIntent(c) PROVE ControlInv'
  BY <1>10 DEF RemoveIntent, AfterIntent, RoleAfterIntent, Goto, Outcomes
<1>11. ASSUME NEW c \in Calls, RemoveIntentFails(c) PROVE ControlInv'
  BY <1>11 DEF RemoveIntentFails, Goto
<1>12. ASSUME NEW c \in Calls, Mkdir(c) PROVE ControlInv'
  BY <1>12, LockRecords DEF Mkdir, Goto
<1>13. ASSUME NEW c \in Calls, MkdirFails(c) PROVE ControlInv'
  BY <1>13 DEF MkdirFails, Throws, Goto
<1>14. ASSUME NEW c \in Calls, WriteOwner(c) PROVE ControlInv'
  BY <1>14 DEF WriteOwner, Goto
<1>15. ASSUME NEW c \in Calls, WriteOwnerFails(c) PROVE ControlInv'
  BY <1>15 DEF WriteOwnerFails, Goto
<1>16. ASSUME NEW c \in Calls, Discard(c) PROVE ControlInv'
  BY <1>16, LockRecords DEF Discard, Goto
<1>17. ASSUME NEW c \in Calls, Lstat(c) PROVE ControlInv'
  BY <1>17 DEF Lstat, Goto
<1>18. ASSUME NEW c \in Calls, ReadOwner(c) \/ ReadOwnerFails(c) PROVE ControlInv'
  BY <1>18, InspectEffect DEF Goto
<1>19. ASSUME NEW c \in Calls, Quarantine(c) PROVE ControlInv'
  BY <1>19, LockRecords DEF Quarantine, Goto
<1>20. ASSUME NEW c \in Calls, ReapFails(c) PROVE ControlInv'
  BY <1>20, LockRecords DEF ReapFails, Throws, Goto
<1>21. ASSUME NEW c \in Calls, Retry(c) PROVE ControlInv'
  BY <1>21 DEF Retry, Goto
<1>22. ASSUME NEW c \in Calls, OperationEnds(c) PROVE ControlInv'
  BY <1>22 DEF OperationEnds, Goto
<1>23. ASSUME NEW c \in Calls, ReadOwnToken(c) PROVE ControlInv'
  BY <1>23 DEF ReadOwnToken, Goto
<1>24. ASSUME NEW c \in Calls, ReadTokenFails(c) PROVE ControlInv'
  BY <1>24 DEF ReadTokenFails, Goto
<1>25. ASSUME NEW c \in Calls, RenameReleased(c) PROVE ControlInv'
  BY <1>25, LockRecords DEF RenameReleased, Goto
<1>26. ASSUME NEW c \in Calls, RecheckToken(c) PROVE ControlInv'
  BY <1>26 DEF RecheckToken, Goto
<1>27. ASSUME NEW c \in Calls, UnlinkOwner(c) PROVE ControlInv'
  BY <1>27 DEF UnlinkOwner, Goto
<1>28. ASSUME NEW c \in Calls, RmdirReleased(c) PROVE ControlInv'
  BY <1>28, LockRecords DEF RmdirReleased, Goto
<1>29. ASSUME NEW c \in Calls, RemovalFails(c) PROVE ControlInv'
  BY <1>29 DEF RemovalFails, Goto
<1>30. ASSUME NEW c \in Calls, IntentAges(c) PROVE ControlInv'
  BY <1>30 DEF IntentAges, Goto
<1>31. ASSUME LockAges PROVE ControlInv'
  BY <1>31 DEF LockAges, Goto
<1>32. ASSUME NEW p \in Procs, Crash(p) PROVE ControlInv'
  BY <1>32 DEF Crash, Goto
<1>33. ASSUME NEW p \in Procs, ReusePid(p) PROVE ControlInv'
  BY <1>33 DEF ReusePid, Goto
<1>34. CASE UNCHANGED vars
  BY <1>34 DEF vars
<1>35. QED
  BY <1>1, <1>2, <1>3, <1>4, <1>5, <1>6, <1>7, <1>8, <1>9, <1>10, <1>11, <1>12, <1>13, <1>14,
     <1>15, <1>16, <1>17, <1>18, <1>19, <1>20, <1>21, <1>22, <1>23, <1>24, <1>25, <1>26, <1>27,
     <1>28, <1>29, <1>30, <1>31, <1>32, <1>33, <1>34
  DEF Next, Step, Fails

\* Who publishes its intent before it looks cannot be missed by somebody who
\* looks later: Snapshot lists every intent, and who has lost its own misses
\* nobody by definition.
LEMMA FenceStep == ASSUME IInv, [Next]_vars PROVE FenceInv'
<1> USE DEF TypeOK, IInv, FenceInv, Missed, MayMake, MayReap
<1>1. ASSUME NEW c \in Calls, CreateIntent(c) PROVE FenceInv'
  BY <1>1 DEF CreateIntent, Goto
<1>2. ASSUME NEW c \in Calls, FillIntent(c) PROVE FenceInv'
  BY <1>2 DEF FillIntent, Goto
<1>3. ASSUME NEW c \in Calls, CreateIntentFails(c) PROVE FenceInv'
  BY <1>3 DEF CreateIntentFails, Goto
<1>4. ASSUME NEW c \in Calls, Snapshot(c) PROVE FenceInv'
  <2> SUFFICES ASSUME NEW x \in Calls, NEW y \in Calls, role'[x] # role'[y],
                      Missed(x, y)', Missed(y, x)'
               PROVE FALSE
    OBVIOUS
  <2>1. scan'[c] = {e \in Calls : intent[e] # "absent" /\ role[e] # role[c]}
    BY <1>4 DEF Snapshot
  <2>2. CASE x = c
    BY <1>4, <2>1, <2>2 DEF Snapshot, Goto
  <2>3. CASE y = c
    BY <1>4, <2>1, <2>3 DEF Snapshot, Goto
  <2>4. CASE x # c /\ y # c
    BY <1>4, <2>4 DEF Snapshot, Goto
  <2>5. QED
    BY <2>2, <2>3, <2>4
<1>5. ASSUME NEW c \in Calls, NEW d \in Calls, Examine(c, d) \/ ExamineUnread(c, d) PROVE FenceInv'
  <2>1. UNCHANGED <<pc, role>>
    BY <1>5, JudgeEffect
  <2>2. CASE /\ found' = [found EXCEPT ![c] = TRUE] /\ intent' = intent
             /\ scan' = [scan EXCEPT ![c] = scan[c] \ {d}]
    BY <2>1, <2>2
  <2>3. CASE UnlinkIntent(d) /\ found' = found
    <3>1. scan' = [e \in Calls |-> scan[e] \ {d}] /\ intent' = [intent EXCEPT ![d] = "absent"]
      BY <2>3 DEF UnlinkIntent
    <3>2. \A x, y \in Calls : Missed(x, y)' => x # d
      BY <3>1
    <3>3. \A x, y \in Calls : y # d /\ Missed(x, y)' => Missed(x, y)
      BY <2>1, <2>3, <3>1
    <3>4. QED
      BY <2>1, <3>2, <3>3
  <2>4. QED
    BY <1>5, <2>2, <2>3, JudgeEffect
<1>6. ASSUME NEW c \in Calls, ScanFails(c) PROVE FenceInv'
  BY <1>6 DEF ScanFails, Throws, Goto
<1>7. ASSUME NEW c \in Calls, ScanClear(c) PROVE FenceInv'
  BY <1>7 DEF ScanClear, Goto
<1>8. ASSUME NEW c \in Calls, BlockedByReaper(c) PROVE FenceInv'
  BY <1>8 DEF BlockedByReaper, Goto
<1>9. ASSUME NEW c \in Calls, PollAgain(c) PROVE FenceInv'
  BY <1>9 DEF PollAgain, Goto
<1>10. ASSUME NEW c \in Calls, RemoveIntent(c) PROVE FenceInv'
  <2>1. intent'[c] = "absent" /\ \A e \in Calls : e # c => UNCHANGED <<pc[e], role[e], found[e], intent[e]>>
    BY <1>10 DEF RemoveIntent, UnlinkIntent, Goto
  <2>2. \A e \in Calls : scan'[e] = scan[e] \ {c}
    BY <1>10 DEF RemoveIntent, UnlinkIntent
  <2>3. \A x, y \in Calls : x # c /\ y # c /\ Missed(x, y)' => Missed(x, y)
    BY <2>1, <2>2
  <2>4. QED
    BY <2>1, <2>3
<1>11. ASSUME NEW c \in Calls, RemoveIntentFails(c) PROVE FenceInv'
  BY <1>11 DEF RemoveIntentFails, Goto
<1>12. ASSUME NEW c \in Calls, Mkdir(c) PROVE FenceInv'
  BY <1>12 DEF Mkdir, Goto
<1>13. ASSUME NEW c \in Calls, MkdirFails(c) PROVE FenceInv'
  BY <1>13 DEF MkdirFails, Throws, Goto
<1>14. ASSUME NEW c \in Calls, WriteOwner(c) PROVE FenceInv'
  BY <1>14 DEF WriteOwner, Goto
<1>15. ASSUME NEW c \in Calls, WriteOwnerFails(c) PROVE FenceInv'
  BY <1>15 DEF WriteOwnerFails, Goto
<1>16. ASSUME NEW c \in Calls, Discard(c) PROVE FenceInv'
  BY <1>16 DEF Discard, Goto
<1>17. ASSUME NEW c \in Calls, Lstat(c) PROVE FenceInv'
  BY <1>17 DEF Lstat, Goto
<1>18. ASSUME NEW c \in Calls, ReadOwner(c) \/ ReadOwnerFails(c) PROVE FenceInv'
  BY <1>18, InspectEffect DEF Goto
<1>19. ASSUME NEW c \in Calls, Quarantine(c) PROVE FenceInv'
  BY <1>19 DEF Quarantine, Goto
<1>20. ASSUME NEW c \in Calls, ReapFails(c) PROVE FenceInv'
  BY <1>20 DEF ReapFails, Throws, Goto
<1>21. ASSUME NEW c \in Calls, Retry(c) PROVE FenceInv'
  BY <1>21 DEF Retry, Goto
<1>22. ASSUME NEW c \in Calls, OperationEnds(c) PROVE FenceInv'
  BY <1>22 DEF OperationEnds, Goto
<1>23. ASSUME NEW c \in Calls, ReadOwnToken(c) PROVE FenceInv'
  BY <1>23 DEF ReadOwnToken, Goto
<1>24. ASSUME NEW c \in Calls, ReadTokenFails(c) PROVE FenceInv'
  BY <1>24 DEF ReadTokenFails, Goto
<1>25. ASSUME NEW c \in Calls, RenameReleased(c) PROVE FenceInv'
  BY <1>25 DEF RenameReleased, Goto
<1>26. ASSUME NEW c \in Calls, RecheckToken(c) PROVE FenceInv'
  BY <1>26 DEF RecheckToken, Goto
<1>27. ASSUME NEW c \in Calls, UnlinkOwner(c) PROVE FenceInv'
  BY <1>27 DEF UnlinkOwner, Goto
<1>28. ASSUME NEW c \in Calls, RmdirReleased(c) PROVE FenceInv'
  BY <1>28 DEF RmdirReleased, Goto
<1>29. ASSUME NEW c \in Calls, RemovalFails(c) PROVE FenceInv'
  BY <1>29 DEF RemovalFails, Goto
<1>30. ASSUME NEW c \in Calls, IntentAges(c) PROVE FenceInv'
  BY <1>30 DEF IntentAges, Goto
<1>31. ASSUME LockAges PROVE FenceInv'
  BY <1>31 DEF LockAges, Goto
<1>32. ASSUME NEW p \in Procs, Crash(p) PROVE FenceInv'
  BY <1>32 DEF Crash, Goto
<1>33. ASSUME NEW p \in Procs, ReusePid(p) PROVE FenceInv'
  BY <1>33 DEF ReusePid, Goto
<1>34. CASE UNCHANGED vars
  BY <1>34 DEF vars
<1>35. QED
  BY <1>1, <1>2, <1>3, <1>4, <1>5, <1>6, <1>7, <1>8, <1>9, <1>10, <1>11, <1>12, <1>13, <1>14,
     <1>15, <1>16, <1>17, <1>18, <1>19, <1>20, <1>21, <1>22, <1>23, <1>24, <1>25, <1>26, <1>27,
     <1>28, <1>29, <1>30, <1>31, <1>32, <1>33, <1>34
  DEF Next, Step, Fails

\* The intent of a live call stays from its create to its removal: only an
\* orphan's is removed by somebody else, and without stalls none is stale.
LEMMA IntentStep == ASSUME IInv, IntentsStay, [Next]_vars PROVE IntentInv'
<1> USE DEF TypeOK, IInv, IntentInv, MayMake, MayReap
<1>1. ASSUME NEW c \in Calls, CreateIntent(c) PROVE IntentInv'
  BY <1>1 DEF CreateIntent, Goto
<1>2. ASSUME NEW c \in Calls, FillIntent(c) PROVE IntentInv'
  BY <1>2 DEF FillIntent, Goto
<1>3. ASSUME NEW c \in Calls, CreateIntentFails(c) PROVE IntentInv'
  BY <1>3 DEF CreateIntentFails, Goto
<1>4. ASSUME NEW c \in Calls, Snapshot(c) PROVE IntentInv'
  BY <1>4 DEF Snapshot, Goto
<1>5. ASSUME NEW c \in Calls, NEW d \in Calls, Examine(c, d) \/ ExamineUnread(c, d) PROVE IntentInv'
  <2>1. UNCHANGED pc
    BY <1>5, JudgeEffect
  <2>2. CASE intent' = intent
    BY <2>1, <2>2
  <2>3. CASE UnlinkIntent(d) /\ (~IntentActive(c, d) \/ "readIntent" \in errors)
    <3>1. pc[d] = "dead" \/ intent[d] \notin {"empty", "full", "aged"}
      BY <2>3 DEF IntentActive, SeemsAlive, ControlInv, Alive, IntentsStay
    <3>2. intent' = [intent EXCEPT ![d] = "absent"]
      BY <2>3 DEF UnlinkIntent
    <3>3. QED
      BY <2>1, <3>1, <3>2
  <2>4. QED
    BY <1>5, <2>2, <2>3, JudgeEffect
<1>6. ASSUME NEW c \in Calls, ScanFails(c) PROVE IntentInv'
  BY <1>6 DEF ScanFails, Throws, Goto
<1>7. ASSUME NEW c \in Calls, ScanClear(c) PROVE IntentInv'
  BY <1>7 DEF ScanClear, Goto
<1>8. ASSUME NEW c \in Calls, BlockedByReaper(c) PROVE IntentInv'
  BY <1>8 DEF BlockedByReaper, Goto
<1>9. ASSUME NEW c \in Calls, PollAgain(c) PROVE IntentInv'
  BY <1>9 DEF PollAgain, Goto
<1>10. ASSUME NEW c \in Calls, RemoveIntent(c) PROVE IntentInv'
  BY <1>10 DEF RemoveIntent, UnlinkIntent, AfterIntent, Goto, ControlInv, Outcomes
<1>11. ASSUME NEW c \in Calls, RemoveIntentFails(c) PROVE IntentInv'
  BY <1>11 DEF RemoveIntentFails, Goto
<1>12. ASSUME NEW c \in Calls, Mkdir(c) PROVE IntentInv'
  BY <1>12 DEF Mkdir, Goto
<1>13. ASSUME NEW c \in Calls, MkdirFails(c) PROVE IntentInv'
  BY <1>13 DEF MkdirFails, Throws, Goto
<1>14. ASSUME NEW c \in Calls, WriteOwner(c) PROVE IntentInv'
  BY <1>14 DEF WriteOwner, Goto
<1>15. ASSUME NEW c \in Calls, WriteOwnerFails(c) PROVE IntentInv'
  BY <1>15 DEF WriteOwnerFails, Goto
<1>16. ASSUME NEW c \in Calls, Discard(c) PROVE IntentInv'
  BY <1>16 DEF Discard, Goto
<1>17. ASSUME NEW c \in Calls, Lstat(c) PROVE IntentInv'
  BY <1>17 DEF Lstat, Goto
<1>18. ASSUME NEW c \in Calls, ReadOwner(c) \/ ReadOwnerFails(c) PROVE IntentInv'
  BY <1>18, InspectEffect DEF Goto
<1>19. ASSUME NEW c \in Calls, Quarantine(c) PROVE IntentInv'
  BY <1>19 DEF Quarantine, Goto
<1>20. ASSUME NEW c \in Calls, ReapFails(c) PROVE IntentInv'
  BY <1>20 DEF ReapFails, Throws, Goto
<1>21. ASSUME NEW c \in Calls, Retry(c) PROVE IntentInv'
  BY <1>21 DEF Retry, Goto
<1>22. ASSUME NEW c \in Calls, OperationEnds(c) PROVE IntentInv'
  BY <1>22 DEF OperationEnds, Goto
<1>23. ASSUME NEW c \in Calls, ReadOwnToken(c) PROVE IntentInv'
  BY <1>23 DEF ReadOwnToken, Goto
<1>24. ASSUME NEW c \in Calls, ReadTokenFails(c) PROVE IntentInv'
  BY <1>24 DEF ReadTokenFails, Goto
<1>25. ASSUME NEW c \in Calls, RenameReleased(c) PROVE IntentInv'
  BY <1>25 DEF RenameReleased, Goto
<1>26. ASSUME NEW c \in Calls, RecheckToken(c) PROVE IntentInv'
  BY <1>26 DEF RecheckToken, Goto
<1>27. ASSUME NEW c \in Calls, UnlinkOwner(c) PROVE IntentInv'
  BY <1>27 DEF UnlinkOwner, Goto
<1>28. ASSUME NEW c \in Calls, RmdirReleased(c) PROVE IntentInv'
  BY <1>28 DEF RmdirReleased, Goto
<1>29. ASSUME NEW c \in Calls, RemovalFails(c) PROVE IntentInv'
  BY <1>29 DEF RemovalFails, Goto
<1>30. ASSUME NEW c \in Calls, IntentAges(c) PROVE IntentInv'
  BY <1>30 DEF IntentAges, IntentsStay
<1>31. ASSUME LockAges PROVE IntentInv'
  BY <1>31 DEF LockAges, Goto
<1>32. ASSUME NEW p \in Procs, Crash(p) PROVE IntentInv'
  BY <1>32 DEF Crash, Goto
<1>33. ASSUME NEW p \in Procs, ReusePid(p) PROVE IntentInv'
  BY <1>33 DEF ReusePid, Goto
<1>34. CASE UNCHANGED vars
  BY <1>34 DEF vars
<1>35. QED
  BY <1>1, <1>2, <1>3, <1>4, <1>5, <1>6, <1>7, <1>8, <1>9, <1>10, <1>11, <1>12, <1>13, <1>14,
     <1>15, <1>16, <1>17, <1>18, <1>19, <1>20, <1>21, <1>22, <1>23, <1>24, <1>25, <1>26, <1>27,
     <1>28, <1>29, <1>30, <1>31, <1>32, <1>33, <1>34
  DEF Next, Step, Fails

\* What a reaper has found dead stays what it is: while it holds its intent,
\* nobody completes an owner.json (FenceInv).
LEMMA ReapStep == ASSUME IInv, OwnersSeen, [Next]_vars PROVE ReapInv'
<1> USE DEF TypeOK, IInv, ReapInv, Alive, OwnersSeen
<1>1. ASSUME NEW c \in Calls, CreateIntent(c) PROVE ReapInv'
  BY <1>1 DEF CreateIntent, Goto
<1>2. ASSUME NEW c \in Calls, FillIntent(c) PROVE ReapInv'
  BY <1>2 DEF FillIntent, Goto
<1>3. ASSUME NEW c \in Calls, CreateIntentFails(c) PROVE ReapInv'
  BY <1>3 DEF CreateIntentFails, Goto
<1>4. ASSUME NEW c \in Calls, Snapshot(c) PROVE ReapInv'
  BY <1>4 DEF Snapshot, Goto
<1>5. ASSUME NEW c \in Calls, NEW d \in Calls, Examine(c, d) \/ ExamineUnread(c, d) PROVE ReapInv'
  BY <1>5, JudgeEffect DEF UnlinkIntent
<1>6. ASSUME NEW c \in Calls, ScanFails(c) PROVE ReapInv'
  BY <1>6 DEF ScanFails, Throws, Goto
<1>7. ASSUME NEW c \in Calls, ScanClear(c) PROVE ReapInv'
  BY <1>7 DEF ScanClear, Goto
<1>8. ASSUME NEW c \in Calls, BlockedByReaper(c) PROVE ReapInv'
  BY <1>8 DEF BlockedByReaper, Goto
<1>9. ASSUME NEW c \in Calls, PollAgain(c) PROVE ReapInv'
  BY <1>9 DEF PollAgain, Goto
<1>10. ASSUME NEW c \in Calls, RemoveIntent(c) PROVE ReapInv'
  BY <1>10 DEF RemoveIntent, AfterIntent, Goto, ControlInv, Outcomes
<1>11. ASSUME NEW c \in Calls, RemoveIntentFails(c) PROVE ReapInv'
  BY <1>11 DEF RemoveIntentFails, Goto
<1>12. ASSUME NEW c \in Calls, Mkdir(c) PROVE ReapInv'
  BY <1>12, LockRecords DEF Mkdir, Goto
<1>13. ASSUME NEW c \in Calls, MkdirFails(c) PROVE ReapInv'
  BY <1>13 DEF MkdirFails, Throws, Goto
<1>14. ASSUME NEW c \in Calls, WriteOwner(c) PROVE ReapInv'
  <2>1. \A e \in Calls : pc[e] # "quarantine"
    BY <1>14 DEF WriteOwner, FenceInv, IntentInv, ControlInv, Missed, MayMake, MayReap
  <2>2. QED
    BY <1>14, <2>1 DEF WriteOwner, Goto
<1>15. ASSUME NEW c \in Calls, WriteOwnerFails(c) PROVE ReapInv'
  <2>1. \A e \in Calls : pc[e] # "quarantine"
    BY <1>15 DEF WriteOwnerFails, FenceInv, IntentInv, ControlInv, Missed, MayMake, MayReap
  <2>2. QED
    BY <1>15, <2>1 DEF WriteOwnerFails, Goto
<1>16. ASSUME NEW c \in Calls, Discard(c) PROVE ReapInv'
  BY <1>16, LockRecords DEF Discard, Goto
<1>17. ASSUME NEW c \in Calls, Lstat(c) PROVE ReapInv'
  BY <1>17 DEF Lstat, Goto
<1>18. ASSUME NEW c \in Calls, ReadOwner(c) \/ ReadOwnerFails(c) PROVE ReapInv'
  <2>1. lock.full => lock.by \in Calls
    BY DEF ControlInv
  <2>2. QED
    BY <1>18, <2>1, InspectEffect DEF Reapable, SeemsAlive, Goto
<1>19. ASSUME NEW c \in Calls, Quarantine(c) PROVE ReapInv'
  BY <1>19, LockRecords DEF Quarantine, Goto
<1>20. ASSUME NEW c \in Calls, ReapFails(c) PROVE ReapInv'
  BY <1>20, LockRecords DEF ReapFails, Throws, Goto
<1>21. ASSUME NEW c \in Calls, Retry(c) PROVE ReapInv'
  BY <1>21 DEF Retry, Goto
<1>22. ASSUME NEW c \in Calls, OperationEnds(c) PROVE ReapInv'
  BY <1>22 DEF OperationEnds, Goto
<1>23. ASSUME NEW c \in Calls, ReadOwnToken(c) PROVE ReapInv'
  BY <1>23 DEF ReadOwnToken, Goto
<1>24. ASSUME NEW c \in Calls, ReadTokenFails(c) PROVE ReapInv'
  BY <1>24 DEF ReadTokenFails, Goto
<1>25. ASSUME NEW c \in Calls, RenameReleased(c) PROVE ReapInv'
  BY <1>25, LockRecords DEF RenameReleased, Goto
<1>26. ASSUME NEW c \in Calls, RecheckToken(c) PROVE ReapInv'
  BY <1>26 DEF RecheckToken, Goto
<1>27. ASSUME NEW c \in Calls, UnlinkOwner(c) PROVE ReapInv'
  BY <1>27 DEF UnlinkOwner, Goto
<1>28. ASSUME NEW c \in Calls, RmdirReleased(c) PROVE ReapInv'
  BY <1>28, LockRecords DEF RmdirReleased, Goto
<1>29. ASSUME NEW c \in Calls, RemovalFails(c) PROVE ReapInv'
  BY <1>29 DEF RemovalFails, Goto
<1>30. ASSUME NEW c \in Calls, IntentAges(c) PROVE ReapInv'
  BY <1>30 DEF IntentAges, Goto
<1>31. ASSUME LockAges PROVE ReapInv'
  BY <1>31 DEF LockAges, Goto
<1>32. ASSUME NEW p \in Procs, Crash(p) PROVE ReapInv'
  BY <1>32 DEF Crash, Goto
<1>33. ASSUME NEW p \in Procs, ReusePid(p) PROVE ReapInv'
  BY <1>33 DEF ReusePid, Goto
<1>34. CASE UNCHANGED vars
  BY <1>34 DEF vars
<1>35. QED
  BY <1>1, <1>2, <1>3, <1>4, <1>5, <1>6, <1>7, <1>8, <1>9, <1>10, <1>11, <1>12, <1>13, <1>14,
     <1>15, <1>16, <1>17, <1>18, <1>19, <1>20, <1>21, <1>22, <1>23, <1>24, <1>25, <1>26, <1>27,
     <1>28, <1>29, <1>30, <1>31, <1>32, <1>33, <1>34
  DEF Next, Step, Fails

\* Nobody takes a directory a live call acts on: the renames of reapers fall
\* outside every window in which an acquirer makes it (FenceInv), and those of
\* Discard and RenameReleased name the directory of their own call.
LEMMA LockStep == ASSUME IInv, Steady, [Next]_vars PROVE LockInv'
<1> USE DEF TypeOK, IInv, LockInv, Holds, OwnedBy, Alive, ControlInv, Steady, OwnersSeen
<1>1. ASSUME NEW c \in Calls, CreateIntent(c) PROVE LockInv'
  BY <1>1 DEF CreateIntent, Goto
<1>2. ASSUME NEW c \in Calls, FillIntent(c) PROVE LockInv'
  BY <1>2 DEF FillIntent, Goto
<1>3. ASSUME NEW c \in Calls, CreateIntentFails(c) PROVE LockInv'
  BY <1>3 DEF CreateIntentFails, Goto
<1>4. ASSUME NEW c \in Calls, Snapshot(c) PROVE LockInv'
  BY <1>4 DEF Snapshot, Goto
<1>5. ASSUME NEW c \in Calls, NEW d \in Calls, Examine(c, d) \/ ExamineUnread(c, d) PROVE LockInv'
  BY <1>5, JudgeEffect DEF UnlinkIntent
<1>6. ASSUME NEW c \in Calls, ScanFails(c) PROVE LockInv'
  BY <1>6 DEF ScanFails, Throws, Goto
<1>7. ASSUME NEW c \in Calls, ScanClear(c) PROVE LockInv'
  BY <1>7 DEF ScanClear, Goto
<1>8. ASSUME NEW c \in Calls, BlockedByReaper(c) PROVE LockInv'
  BY <1>8 DEF BlockedByReaper, Goto
<1>9. ASSUME NEW c \in Calls, PollAgain(c) PROVE LockInv'
  BY <1>9 DEF PollAgain, Goto
<1>10. ASSUME NEW c \in Calls, RemoveIntent(c) PROVE LockInv'
  BY <1>10 DEF RemoveIntent, AfterIntent, Goto, Outcomes
<1>11. ASSUME NEW c \in Calls, RemoveIntentFails(c) PROVE LockInv'
  BY <1>11 DEF RemoveIntentFails, Goto
<1>12. ASSUME NEW c \in Calls, Mkdir(c) PROVE LockInv'
  BY <1>12, CallsAssumption DEF Mkdir, Goto
<1>13. ASSUME NEW c \in Calls, MkdirFails(c) PROVE LockInv'
  BY <1>13 DEF MkdirFails, Throws, Goto
<1>14. ASSUME NEW c \in Calls, WriteOwner(c) PROVE LockInv'
  BY <1>14 DEF WriteOwner, Goto
<1>15. ASSUME NEW c \in Calls, WriteOwnerFails(c) PROVE LockInv'
  BY <1>15 DEF WriteOwnerFails, Goto
<1>16. ASSUME NEW c \in Calls, Discard(c) PROVE LockInv'
  BY <1>16, LockRecords DEF Discard, Goto
<1>17. ASSUME NEW c \in Calls, Lstat(c) PROVE LockInv'
  BY <1>17 DEF Lstat, Goto
<1>18. ASSUME NEW c \in Calls, ReadOwner(c) \/ ReadOwnerFails(c) PROVE LockInv'
  BY <1>18, InspectEffect DEF Goto
<1>19. ASSUME NEW c \in Calls, Quarantine(c) PROVE LockInv'
  <2>1. \A e \in Calls : pc[e] \notin {"writeOwner", "discard"}
    BY <1>19 DEF Quarantine, FenceInv, IntentInv, Missed, MayMake, MayReap
  <2>2. \A e \in Calls : ~Holds(e)
    BY <1>19 DEF Quarantine, ReapInv
  <2>3. /\ \A e \in Calls : Holds(e)' => Holds(e)
        /\ lock' = NoLock \/ lock' = lock
        /\ \A e \in Calls : pc'[e] # pc[e] => e = c /\ pc'[c] = "removeIntent"
    BY <1>19 DEF Quarantine, Goto
  <2>4. QED
    BY <2>1, <2>2, <2>3, LockRecords
<1>20. ASSUME NEW c \in Calls, ReapFails(c) PROVE LockInv'
  <2>1. CASE pc[c] = "quarantine"
    <3>1. \A e \in Calls : pc[e] \notin {"writeOwner", "discard"}
      BY <2>1 DEF FenceInv, IntentInv, Missed, MayMake, MayReap
    <3>2. \A e \in Calls : ~Holds(e)
      BY <2>1 DEF ReapInv
    <3>3. /\ \A e \in Calls : Holds(e)' => Holds(e)
          /\ lock' = NoLock \/ lock' = lock
          /\ \A e \in Calls : pc'[e] # pc[e] => e = c /\ pc'[c] = "removeIntent"
      BY <1>20, <2>1 DEF ReapFails, Throws, Goto
    <3>4. QED
      BY <3>1, <3>2, <3>3, LockRecords
  <2>2. CASE pc[c] # "quarantine"
    BY <1>20, <2>2 DEF ReapFails, Throws, Goto
  <2>3. QED
    BY <2>1, <2>2
<1>21. ASSUME NEW c \in Calls, Retry(c) PROVE LockInv'
  BY <1>21 DEF Retry, Goto
<1>22. ASSUME NEW c \in Calls, OperationEnds(c) PROVE LockInv'
  BY <1>22 DEF OperationEnds, Goto
<1>23. ASSUME NEW c \in Calls, ReadOwnToken(c) PROVE LockInv'
  BY <1>23 DEF ReadOwnToken, Goto
<1>24. ASSUME NEW c \in Calls, ReadTokenFails(c) PROVE LockInv'
  BY <1>24 DEF ReadTokenFails, Goto
<1>25. ASSUME NEW c \in Calls, RenameReleased(c) PROVE LockInv'
  BY <1>25, LockRecords DEF RenameReleased, Goto
<1>26. ASSUME NEW c \in Calls, RecheckToken(c) PROVE LockInv'
  BY <1>26 DEF RecheckToken, Goto
<1>27. ASSUME NEW c \in Calls, UnlinkOwner(c) PROVE LockInv'
  BY <1>27 DEF UnlinkOwner, Goto
<1>28. ASSUME NEW c \in Calls, RmdirReleased(c) PROVE LockInv'
  BY <1>28 DEF RmdirReleased, Goto
<1>29. ASSUME NEW c \in Calls, RemovalFails(c) PROVE LockInv'
  BY <1>29 DEF RemovalFails, Goto
<1>30. ASSUME NEW c \in Calls, IntentAges(c) PROVE LockInv'
  BY <1>30 DEF IntentAges, Goto
<1>31. ASSUME LockAges PROVE LockInv'
  BY <1>31 DEF LockAges, Goto
<1>32. ASSUME NEW p \in Procs, Crash(p) PROVE LockInv'
  BY <1>32 DEF Crash, Goto
<1>33. ASSUME NEW p \in Procs, ReusePid(p) PROVE LockInv'
  BY <1>33 DEF ReusePid, Goto
<1>34. CASE UNCHANGED vars
  BY <1>34 DEF vars
<1>35. QED
  BY <1>1, <1>2, <1>3, <1>4, <1>5, <1>6, <1>7, <1>8, <1>9, <1>10, <1>11, <1>12, <1>13, <1>14,
     <1>15, <1>16, <1>17, <1>18, <1>19, <1>20, <1>21, <1>22, <1>23, <1>24, <1>25, <1>26, <1>27,
     <1>28, <1>29, <1>30, <1>31, <1>32, <1>33, <1>34
  DEF Next, Step, Fails

\* While Steady, every step is a step of GenerationLock or changes nothing there.
LEMMA StepRefines == ASSUME IInv, Steady, Steady', [Next]_vars PROVE [Generations!Next]_(Generations!vars)
<1> USE DEF IInv, TypeOK, Locks, Generations!vars
<1>1. ASSUME NEW c \in Calls, CreateIntent(c) PROVE [Generations!Next]_(Generations!vars)
  BY <1>1 DEF CreateIntent, Goto
<1>2. ASSUME NEW c \in Calls, FillIntent(c) PROVE [Generations!Next]_(Generations!vars)
  BY <1>2 DEF FillIntent, Goto
<1>3. ASSUME NEW c \in Calls, CreateIntentFails(c) PROVE [Generations!Next]_(Generations!vars)
  BY <1>3 DEF CreateIntentFails, Goto
<1>4. ASSUME NEW c \in Calls, Snapshot(c) PROVE [Generations!Next]_(Generations!vars)
  BY <1>4 DEF Snapshot, Goto
<1>5. ASSUME NEW c \in Calls, NEW d \in Calls, Examine(c, d) \/ ExamineUnread(c, d) PROVE [Generations!Next]_(Generations!vars)
  BY <1>5, JudgeEffect DEF UnlinkIntent
<1>6. ASSUME NEW c \in Calls, ScanFails(c) PROVE [Generations!Next]_(Generations!vars)
  BY <1>6 DEF ScanFails, Throws, Goto
<1>7. ASSUME NEW c \in Calls, ScanClear(c) PROVE [Generations!Next]_(Generations!vars)
  BY <1>7 DEF ScanClear, Goto
<1>8. ASSUME NEW c \in Calls, BlockedByReaper(c) PROVE [Generations!Next]_(Generations!vars)
  BY <1>8 DEF BlockedByReaper, Goto
<1>9. ASSUME NEW c \in Calls, PollAgain(c) PROVE [Generations!Next]_(Generations!vars)
  BY <1>9 DEF PollAgain, Goto
<1>10. ASSUME NEW c \in Calls, RemoveIntent(c) PROVE [Generations!Next]_(Generations!vars)
  BY <1>10 DEF RemoveIntent, Goto
<1>11. ASSUME NEW c \in Calls, RemoveIntentFails(c) PROVE [Generations!Next]_(Generations!vars)
  BY <1>11 DEF RemoveIntentFails, Goto
<1>12. ASSUME NEW c \in Calls, Mkdir(c) PROVE [Generations!Next]_(Generations!vars)
  BY <1>12 DEF Mkdir, Goto
<1>13. ASSUME NEW c \in Calls, MkdirFails(c) PROVE [Generations!Next]_(Generations!vars)
  BY <1>13 DEF MkdirFails, Throws, Goto
<1>14. ASSUME NEW c \in Calls, WriteOwner(c) PROVE [Generations!Next]_(Generations!vars)
  <2>1. CASE UNCHANGED lock
    BY <1>14, <2>1 DEF WriteOwner
  <2>2. CASE ~UNCHANGED lock
    <3>1. Generations!Acquire(c)
      BY <1>14, <2>2 DEF WriteOwner, Generations!Acquire, ControlInv, Alive
    <3>2. QED
      BY <3>1 DEF Generations!Next
  <2>3. QED
    BY <2>1, <2>2
<1>15. ASSUME NEW c \in Calls, WriteOwnerFails(c) PROVE [Generations!Next]_(Generations!vars)
  <2>1. CASE UNCHANGED lock
    BY <1>15, <2>1 DEF WriteOwnerFails
  <2>2. CASE ~UNCHANGED lock
    <3>1. Generations!Acquire(c)
      BY <1>15, <2>2 DEF WriteOwnerFails, Generations!Acquire, ControlInv, Alive
    <3>2. QED
      BY <3>1 DEF Generations!Next
  <2>3. QED
    BY <2>1, <2>2
<1>16. ASSUME NEW c \in Calls, Discard(c) PROVE [Generations!Next]_(Generations!vars)
  <2>1. CASE lock' = NoLock /\ lock.full
    <3>1. Generations!Release(c)
      BY <1>16, <2>1, LockRecords, CallsAssumption DEF Discard, Generations!Release, ControlInv, LockInv, Holds, OwnedBy, Alive
    <3>2. QED
      BY <3>1 DEF Generations!Next
  <2>2. CASE lock' = NoLock /\ ~lock.full
    BY <1>16, <2>2, LockRecords DEF Discard
  <2>3. CASE UNCHANGED lock
    BY <1>16, <2>3 DEF Discard
  <2>4. QED
    BY <1>16, <2>1, <2>2, <2>3 DEF Discard
<1>17. ASSUME NEW c \in Calls, Lstat(c) PROVE [Generations!Next]_(Generations!vars)
  BY <1>17 DEF Lstat, Goto
<1>18. ASSUME NEW c \in Calls, ReadOwner(c) \/ ReadOwnerFails(c) PROVE [Generations!Next]_(Generations!vars)
  BY <1>18, InspectEffect DEF Goto
<1>19. ASSUME NEW c \in Calls, Quarantine(c) PROVE [Generations!Next]_(Generations!vars)
  <2>1. CASE lock' = NoLock /\ lock.full
    <3>1. Generations!Reclaim(c)
      BY <1>19, <2>1, LockRecords, CallsAssumption DEF Quarantine, Generations!Reclaim, ControlInv, ReapInv, Steady, Alive
    <3>2. QED
      BY <3>1 DEF Generations!Next
  <2>2. CASE lock' = NoLock /\ ~lock.full
    BY <1>19, <2>2, LockRecords DEF Quarantine
  <2>3. CASE UNCHANGED lock
    BY <1>19, <2>3 DEF Quarantine
  <2>4. QED
    BY <1>19, <2>1, <2>2, <2>3 DEF Quarantine
<1>20. ASSUME NEW c \in Calls, ReapFails(c) PROVE [Generations!Next]_(Generations!vars)
  <2>1. CASE lock' = NoLock /\ lock.full
    <3>1. Generations!Reclaim(c)
      BY <1>20, <2>1, LockRecords, CallsAssumption DEF ReapFails, Generations!Reclaim, Throws, ControlInv, ReapInv, Steady, Alive
    <3>2. QED
      BY <3>1 DEF Generations!Next
  <2>2. CASE lock' = NoLock /\ ~lock.full
    BY <1>20, <2>2, LockRecords DEF ReapFails
  <2>3. CASE UNCHANGED lock
    BY <1>20, <2>3 DEF ReapFails
  <2>4. QED
    BY <1>20, <2>1, <2>2, <2>3 DEF ReapFails
<1>21. ASSUME NEW c \in Calls, Retry(c) PROVE [Generations!Next]_(Generations!vars)
  BY <1>21 DEF Retry, Goto
<1>22. ASSUME NEW c \in Calls, OperationEnds(c) PROVE [Generations!Next]_(Generations!vars)
  BY <1>22 DEF OperationEnds, Goto
<1>23. ASSUME NEW c \in Calls, ReadOwnToken(c) PROVE [Generations!Next]_(Generations!vars)
  BY <1>23 DEF ReadOwnToken, Goto
<1>24. ASSUME NEW c \in Calls, ReadTokenFails(c) PROVE [Generations!Next]_(Generations!vars)
  BY <1>24 DEF ReadTokenFails, Goto
<1>25. ASSUME NEW c \in Calls, RenameReleased(c) PROVE [Generations!Next]_(Generations!vars)
  <2>1. CASE lock' = NoLock /\ lock.full
    <3>1. Generations!Release(c)
      BY <1>25, <2>1, LockRecords, CallsAssumption DEF RenameReleased, Generations!Release, ControlInv, LockInv, Holds, OwnedBy, Alive
    <3>2. QED
      BY <3>1 DEF Generations!Next
  <2>2. CASE lock' = NoLock /\ ~lock.full
    BY <1>25, <2>2, LockRecords DEF RenameReleased
  <2>3. CASE UNCHANGED lock
    BY <1>25, <2>3 DEF RenameReleased
  <2>4. QED
    BY <1>25, <2>1, <2>2, <2>3 DEF RenameReleased
<1>26. ASSUME NEW c \in Calls, RecheckToken(c) PROVE [Generations!Next]_(Generations!vars)
  BY <1>26 DEF RecheckToken, Goto
<1>27. ASSUME NEW c \in Calls, UnlinkOwner(c) PROVE [Generations!Next]_(Generations!vars)
  BY <1>27 DEF UnlinkOwner, LockInv
<1>28. ASSUME NEW c \in Calls, RmdirReleased(c) PROVE [Generations!Next]_(Generations!vars)
  BY <1>28 DEF RmdirReleased, LockInv
<1>29. ASSUME NEW c \in Calls, RemovalFails(c) PROVE [Generations!Next]_(Generations!vars)
  BY <1>29 DEF RemovalFails, Goto
<1>30. ASSUME NEW c \in Calls, IntentAges(c) PROVE [Generations!Next]_(Generations!vars)
  BY <1>30 DEF IntentAges, Goto
<1>31. ASSUME LockAges PROVE [Generations!Next]_(Generations!vars)
  BY <1>31 DEF LockAges, Goto
<1>32. ASSUME NEW p \in Procs, Crash(p) PROVE [Generations!Next]_(Generations!vars)
  <2> DEFINE D == {c \in Calls : ProcOf[c] = p}
  <2>1. Generations!Die(D)
    BY <1>32 DEF Crash, Generations!Die
  <2>2. QED
    BY <2>1 DEF Generations!Next
<1>33. ASSUME NEW p \in Procs, ReusePid(p) PROVE [Generations!Next]_(Generations!vars)
  BY <1>33 DEF ReusePid, Goto
<1>34. CASE UNCHANGED vars
  BY <1>34 DEF vars
<1>35. QED
  BY <1>1, <1>2, <1>3, <1>4, <1>5, <1>6, <1>7, <1>8, <1>9, <1>10, <1>11, <1>12, <1>13, <1>14,
     <1>15, <1>16, <1>17, <1>18, <1>19, <1>20, <1>21, <1>22, <1>23, <1>24, <1>25, <1>26, <1>27,
     <1>28, <1>29, <1>30, <1>31, <1>32, <1>33, <1>34
  DEF Next, Step, Fails

\* Otherwise GenerationLock sees no owner, and processes that die.
LEMMA StepUnseen == ASSUME ~Steady, ~Steady', [Next]_vars PROVE [Generations!Next]_(Generations!vars)
<1> USE DEF Generations!vars
<1>1. ASSUME NEW c \in Calls, CreateIntent(c) PROVE [Generations!Next]_(Generations!vars)
  BY <1>1 DEF CreateIntent, Goto
<1>2. ASSUME NEW c \in Calls, FillIntent(c) PROVE [Generations!Next]_(Generations!vars)
  BY <1>2 DEF FillIntent, Goto
<1>3. ASSUME NEW c \in Calls, CreateIntentFails(c) PROVE [Generations!Next]_(Generations!vars)
  BY <1>3 DEF CreateIntentFails, Goto
<1>4. ASSUME NEW c \in Calls, Snapshot(c) PROVE [Generations!Next]_(Generations!vars)
  BY <1>4 DEF Snapshot, Goto
<1>5. ASSUME NEW c \in Calls, NEW d \in Calls, Examine(c, d) \/ ExamineUnread(c, d) PROVE [Generations!Next]_(Generations!vars)
  BY <1>5, JudgeEffect DEF UnlinkIntent
<1>6. ASSUME NEW c \in Calls, ScanFails(c) PROVE [Generations!Next]_(Generations!vars)
  BY <1>6 DEF ScanFails, Throws, Goto
<1>7. ASSUME NEW c \in Calls, ScanClear(c) PROVE [Generations!Next]_(Generations!vars)
  BY <1>7 DEF ScanClear, Goto
<1>8. ASSUME NEW c \in Calls, BlockedByReaper(c) PROVE [Generations!Next]_(Generations!vars)
  BY <1>8 DEF BlockedByReaper, Goto
<1>9. ASSUME NEW c \in Calls, PollAgain(c) PROVE [Generations!Next]_(Generations!vars)
  BY <1>9 DEF PollAgain, Goto
<1>10. ASSUME NEW c \in Calls, RemoveIntent(c) PROVE [Generations!Next]_(Generations!vars)
  BY <1>10 DEF RemoveIntent, Goto
<1>11. ASSUME NEW c \in Calls, RemoveIntentFails(c) PROVE [Generations!Next]_(Generations!vars)
  BY <1>11 DEF RemoveIntentFails, Goto
<1>12. ASSUME NEW c \in Calls, Mkdir(c) PROVE [Generations!Next]_(Generations!vars)
  BY <1>12 DEF Mkdir, Goto
<1>13. ASSUME NEW c \in Calls, MkdirFails(c) PROVE [Generations!Next]_(Generations!vars)
  BY <1>13 DEF MkdirFails, Throws, Goto
<1>14. ASSUME NEW c \in Calls, WriteOwner(c) PROVE [Generations!Next]_(Generations!vars)
  BY <1>14 DEF WriteOwner, Goto
<1>15. ASSUME NEW c \in Calls, WriteOwnerFails(c) PROVE [Generations!Next]_(Generations!vars)
  BY <1>15 DEF WriteOwnerFails, Goto
<1>16. ASSUME NEW c \in Calls, Discard(c) PROVE [Generations!Next]_(Generations!vars)
  BY <1>16 DEF Discard, Goto
<1>17. ASSUME NEW c \in Calls, Lstat(c) PROVE [Generations!Next]_(Generations!vars)
  BY <1>17 DEF Lstat, Goto
<1>18. ASSUME NEW c \in Calls, ReadOwner(c) \/ ReadOwnerFails(c) PROVE [Generations!Next]_(Generations!vars)
  BY <1>18, InspectEffect DEF Goto
<1>19. ASSUME NEW c \in Calls, Quarantine(c) PROVE [Generations!Next]_(Generations!vars)
  BY <1>19 DEF Quarantine, Goto
<1>20. ASSUME NEW c \in Calls, ReapFails(c) PROVE [Generations!Next]_(Generations!vars)
  BY <1>20 DEF ReapFails, Throws, Goto
<1>21. ASSUME NEW c \in Calls, Retry(c) PROVE [Generations!Next]_(Generations!vars)
  BY <1>21 DEF Retry, Goto
<1>22. ASSUME NEW c \in Calls, OperationEnds(c) PROVE [Generations!Next]_(Generations!vars)
  BY <1>22 DEF OperationEnds, Goto
<1>23. ASSUME NEW c \in Calls, ReadOwnToken(c) PROVE [Generations!Next]_(Generations!vars)
  BY <1>23 DEF ReadOwnToken, Goto
<1>24. ASSUME NEW c \in Calls, ReadTokenFails(c) PROVE [Generations!Next]_(Generations!vars)
  BY <1>24 DEF ReadTokenFails, Goto
<1>25. ASSUME NEW c \in Calls, RenameReleased(c) PROVE [Generations!Next]_(Generations!vars)
  BY <1>25 DEF RenameReleased, Goto
<1>26. ASSUME NEW c \in Calls, RecheckToken(c) PROVE [Generations!Next]_(Generations!vars)
  BY <1>26 DEF RecheckToken, Goto
<1>27. ASSUME NEW c \in Calls, UnlinkOwner(c) PROVE [Generations!Next]_(Generations!vars)
  BY <1>27 DEF UnlinkOwner, Goto
<1>28. ASSUME NEW c \in Calls, RmdirReleased(c) PROVE [Generations!Next]_(Generations!vars)
  BY <1>28 DEF RmdirReleased, Goto
<1>29. ASSUME NEW c \in Calls, RemovalFails(c) PROVE [Generations!Next]_(Generations!vars)
  BY <1>29 DEF RemovalFails, Goto
<1>30. ASSUME NEW c \in Calls, IntentAges(c) PROVE [Generations!Next]_(Generations!vars)
  BY <1>30 DEF IntentAges, Goto
<1>31. ASSUME LockAges PROVE [Generations!Next]_(Generations!vars)
  BY <1>31 DEF LockAges, Goto
<1>32. ASSUME NEW p \in Procs, Crash(p) PROVE [Generations!Next]_(Generations!vars)
  <2> DEFINE D == {c \in Calls : ProcOf[c] = p}
  <2>1. Generations!Die(D)
    BY <1>32 DEF Crash, Generations!Die
  <2>2. QED
    BY <2>1 DEF Generations!Next
<1>33. ASSUME NEW p \in Procs, ReusePid(p) PROVE [Generations!Next]_(Generations!vars)
  BY <1>33 DEF ReusePid, Goto
<1>34. CASE UNCHANGED vars
  BY <1>34 DEF vars
<1>35. QED
  BY <1>1, <1>2, <1>3, <1>4, <1>5, <1>6, <1>7, <1>8, <1>9, <1>10, <1>11, <1>12, <1>13, <1>14,
     <1>15, <1>16, <1>17, <1>18, <1>19, <1>20, <1>21, <1>22, <1>23, <1>24, <1>25, <1>26, <1>27,
     <1>28, <1>29, <1>30, <1>31, <1>32, <1>33, <1>34
  DEF Next, Step, Fails

-----------------------------------------------------------------------------

\* The inductive invariant holds before any call has touched the file system.
THEOREM InitIInv == Init => IInv
<1> SUFFICES ASSUME Init PROVE IInv
  OBVIOUS
<1>1. TypeOK
  BY LockRecords, CallsAssumption DEF Init, TypeOK, PCs, Kinds, IntentStates, Outcomes
<1>2. ControlInv /\ IntentInv /\ FenceInv
  BY LockRecords DEF Init, ControlInv, IntentInv, FenceInv, Missed, MayMake, MayReap, Alive
<1>3. LockInv /\ ReapInv
  BY DEF Init, LockInv, ReapInv, Holds, NoLock
<1>4. QED
  BY <1>1, <1>2, <1>3 DEF IInv

\* Every file-system step, error, crash and passage of time keeps the inductive
\* invariant.
LEMMA StepIInv == ASSUME IInv, [Next]_vars PROVE IInv'
<1>1. UNCHANGED errors
  BY ErrorsStay
<1>2. TypeOK' /\ ControlInv' /\ FenceInv'
  BY TypeStep, ControlStep, FenceStep
<1>3. IntentsStay' => IntentInv'
  BY <1>1, IntentStep DEF IntentsStay
<1>4. OwnersSeen' => ReapInv'
  BY <1>1, ReapStep DEF OwnersSeen, IntentsStay
<1>5. Steady' => LockInv'
  BY <1>1, LockStep DEF Steady, OwnersSeen, IntentsStay
<1>6. QED
  BY <1>2, <1>3, <1>4, <1>5 DEF IInv

\* The invariant that makes the properties below inductive holds in every
\* reachable state, for any number of calls, processes and hosts: types, control
\* and the fence of the intents whatever goes wrong; that live calls keep their
\* intents without stalls and failing reads of intents; that only dead owners are
\* reaped when owner.json can be read besides; and who owns the directory when no
\* release falls back to the direct removal either.
THEOREM Inductive == Spec => []IInv
<1>1. Init => IInv
  BY InitIInv
<1>2. IInv /\ [Next]_vars => IInv'
  BY StepIInv
<1>3. QED
  BY <1>1, <1>2, PTL DEF Spec

\* Type correctness, whatever goes wrong.
THEOREM Typing == Spec => []TypeOK
<1>1. IInv => TypeOK
  BY DEF IInv
<1>2. QED
  BY <1>1, Inductive, PTL

\* While Steady, a call in its operation is the owner owner.json names.
THEOREM HolderIsOwner == Spec => []HolderOwnsLock
<1>1. IInv => HolderOwnsLock
  BY DEF IInv, LockInv, Holds, HolderOwnsLock
<1>2. QED
  BY <1>1, Inductive, PTL

\* While Steady, two calls never run their operation at the same time: both
\* would be the one owner owner.json names.
THEOREM Exclusion == Spec => []MutualExclusion
<1>1. IInv => MutualExclusion
  BY DEF IInv, LockInv, Holds, OwnedBy, MutualExclusion
<1>2. QED
  BY <1>1, Inductive, PTL

\* Whatever goes wrong, a reaper and an acquirer are both past their look at the
\* other's intents only if one of them has lost its own, which takes a stall or
\* a failing read of an intent.
THEOREM Fencing == Spec => []Fence
<1>1. IInv => Fence
  <2> SUFFICES ASSUME IInv, NEW c \in Calls, NEW d \in Calls, pc[c] \in MayReap, pc[d] \in MayMake
               PROVE  ~IntentsStay /\ "absent" \in {intent[c], intent[d]}
    BY DEF Fence, MayReap, MayMake
  <2>1. "absent" \in {intent[c], intent[d]}
    BY DEF IInv, ControlInv, FenceInv, Missed
  <2>2. IntentsStay => intent[c] # "absent" /\ intent[d] # "absent"
    BY DEF IInv, IntentInv
  <2>3. QED
    BY <2>1, <2>2
<1>2. QED
  BY <1>1, Inductive, PTL

\* While OwnersSeen, releases by direct removal included, the rename of a reaper
\* never meets the lock of a live process.
THEOREM ReapedDead == Spec => []ReapedIsDead
<1>1. IInv => ReapedIsDead
  BY DEF IInv, ReapInv, ReapedIsDead, OnlyDeadReaped
<1>2. QED
  BY <1>1, Inductive, PTL

\* While Steady, the lock implements its generations: each ends by the release of
\* its own owner or, once the owner's process is dead, by a reaper on the owner's
\* host.
THEOREM Refinement == Spec => ImplementsGenerations
<1>1. Init => Generations!Init
  BY DEF Init, Generations!Init, NoLock
<1>2. IInv /\ [Next]_vars => [Generations!Next]_(Generations!vars)
  <2> SUFFICES ASSUME IInv, [Next]_vars PROVE [Generations!Next]_(Generations!vars)
    OBVIOUS
  <2>1. Steady' <=> Steady
    BY ErrorsStay DEF Steady, OwnersSeen, IntentsStay
  <2>2. QED
    BY <2>1, StepRefines, StepUnseen
<1>3. QED
  BY <1>1, <1>2, Inductive, PTL DEF Spec, ImplementsGenerations, Generations!Spec
==============================================================================
