------------------------ MODULE BackgroundJobsProofs ------------------------
(***************************************************************************)
(* Proofs about BackgroundJobs, for any sets of jobs and sessions and any  *)
(* number of crashes.  The inductive invariant says, besides the types,    *)
(* what the program counter of a goroutine tells about its job             *)
(* (Lifecycle), where the evidence of a change is until a delivered turn   *)
(* has reviewed it (Custody), and what is known of a session at each phase *)
(* of its destruction (Destruction).                                       *)
(***************************************************************************)
EXTENDS BackgroundJobs, TLAPS

Returned == {"returned", "judged", "flushed", "noted", "published", "exited"}

\* What a program counter says of the job.  A job that works is in the table
\* and is Running or Killed; one that has no memory in this process has no
\* trace in it.
Lifecycle ==
  \A j \in Jobs :
    /\ pc[j] = "unborn" => home[j] = NoSession /\ meta[j] = "none"
                           /\ j \notin mutated
    /\ pc[j] \in {"unborn", "gone"} => /\ j \notin table \union receipts \union committed
                                       /\ j \notin completed \union turn.leased
                                       /\ status[j] = "none"
    /\ pc[j] # "unborn" => home[j] \in Sessions
    /\ Working(j) => j \in table /\ status[j] \in {"running", "killed"}
    /\ pc[j] \in {"published", "exited"} => status[j] \in Terminal
    /\ Open(j) => j \notin committed \union turn.leased
    /\ pc[j] \in {"registered", "running", "returned", "judged"} =>
         meta[j] \in {"none", "running"}
    /\ pc[j] \in {"judged", "flushed", "noted"} => verdict[j] \in {"done", "failed", "killed"}

\* A change that no delivered turn has reviewed is held by the job once its
\* run has returned, by its metadata once that is terminal, and by the ledger
\* of the turn that has leased the job.
Custody ==
  /\ \A j \in mutated \ reviewed :
       /\ pc[j] \in Returned /\ status[j] # "interrupted" => j \in receipts
       /\ meta[j] \in {"done", "failed", "killed"} => j \in saved
       /\ j \in turn.leased /\ status[j] # "interrupted" => j \in turn.merged
       /\ j \in committed => status[j] = "interrupted"
  /\ turn.phase = "delivered" => turn.merged \subseteq reviewed

\* No job of the session works.
Settled(s) == \A j \in Jobs : home[j] = s => ~Working(j)

\* The session has no note.
Unmentioned(s) == \A j \in completed : home[j] # s

Destruction ==
  /\ turn.phase = "idle" <=> turn.session = NoSession
  /\ turn.session # NoSession =>
       /\ turn.session = active /\ turn.session \notin deleted \union marker
       /\ teardown[turn.session].phase = "idle"
  /\ \A s \in Sessions :
       /\ teardown[s].phase \in {"begun", "overdue"} =>
            \A j \in Jobs : home[j] = s /\ Working(j) => j \in teardown[s].targets
       /\ teardown[s].phase \in {"unwound", "drained", "removed", "finished"} => Settled(s)
       /\ teardown[s].phase \in Phases \ {"idle", "finished"} => s \in destroying
       /\ teardown[s].phase = "removed" => s \notin marker
       /\ teardown[s].phase # "idle" => Unmentioned(s)
       /\ s \in destroying => Unmentioned(s)
       /\ s \in marker /\ teardown[s].phase = "idle" =>
            active # s /\ Settled(s) /\ Unmentioned(s)
       /\ s \in deleted =>
            /\ Settled(s) /\ Unmentioned(s)
            /\ \A j \in Jobs : home[j] = s => meta[j] = "none"

IInv == TypeOK /\ Lifecycle /\ Custody /\ Destruction

-----------------------------------------------------------------------------
(* One step preserves each part. *)

LEMMA TypeStep ==
  ASSUME TypeOK, [Next]_vars PROVE TypeOK'
<1> USE SessionAssumption, CrashAssumption DEF TypeOK, Verdicts, Statuses, Terminal, PCs, Phases, Callers, OwnedBy, Open, Working, Unfinished, NoTurn, NoTeardown, vars, memory, ledger, manager, durable, world
<1>1. ASSUME NEW j \in Jobs, Launch(j) PROVE TypeOK'
  BY <1>1 DEF Launch
<1>2. ASSUME NEW j \in Jobs, Mutate(j) PROVE TypeOK'
  BY <1>2 DEF Mutate
<1>3. ASSUME NEW j \in Jobs, Return(j) PROVE TypeOK'
  BY <1>3 DEF Return
<1>4. ASSUME NEW j \in Jobs, Judge(j) PROVE TypeOK'
  BY <1>4 DEF Judge
<1>5. ASSUME NEW j \in Jobs, Flush(j) PROVE TypeOK'
  BY <1>5 DEF Flush
<1>6. ASSUME NEW j \in Jobs, RecordCompletion(j) PROVE TypeOK'
  BY <1>6 DEF RecordCompletion
<1>7. ASSUME NEW j \in Jobs, Publish(j) PROVE TypeOK'
  BY <1>7 DEF Publish
<1>8. ASSUME NEW j \in Jobs, CloseDone(j) PROVE TypeOK'
  BY <1>8 DEF CloseDone
<1>9. ASSUME NEW j \in Jobs, Kill(j) PROVE TypeOK'
  BY <1>9 DEF Kill
<1>10. ASSUME NEW j \in Jobs, Cancel(j) PROVE TypeOK'
  BY <1>10 DEF Cancel
<1>11. ASSUME NEW plan \in BOOLEAN, BeginTurn(plan) PROVE TypeOK'
  BY <1>11 DEF BeginTurn
<1>12. ASSUME LeasePending PROVE TypeOK'
  BY <1>12 DEF LeasePending, Leasing, Ready
<1>13. ASSUME TurnFails PROVE TypeOK'
  BY <1>13 DEF TurnFails
<1>14. ASSUME TurnDelivers PROVE TypeOK'
  BY <1>14 DEF TurnDelivers
<1>15. ASSUME EndTurn PROVE TypeOK'
  BY <1>15 DEF EndTurn
<1>16. ASSUME NEW j \in Jobs, Register(j) PROVE TypeOK'
  BY <1>16 DEF Register
<1>17. ASSUME NEW j \in Jobs, Collect(j) PROVE TypeOK'
  BY <1>17 DEF Collect, Leasing, Ready
<1>18. ASSUME NEW j \in Jobs, CommitEvidence(j) PROVE TypeOK'
  BY <1>18 DEF CommitEvidence, Ready
<1>19. ASSUME NEW s \in Sessions, NEW caller \in Callers, BeginDestroySession(s, caller) PROVE TypeOK'
  BY <1>19 DEF BeginDestroySession, Targets
<1>20. ASSUME NEW s \in Sessions, Unwound(s) PROVE TypeOK'
  BY <1>20 DEF Unwound, AllDone
<1>21. ASSUME NEW s \in Sessions, Overdue(s) PROVE TypeOK'
  BY <1>21 DEF Overdue
<1>22. ASSUME NEW s \in Sessions, Drained(s) PROVE TypeOK'
  BY <1>22 DEF Drained, AllDone
<1>23. ASSUME NEW s \in Sessions, RemoveArtifacts(s) PROVE TypeOK'
  BY <1>23 DEF RemoveArtifacts, FinishesFirst
<1>24. ASSUME NEW s \in Sessions, FinishDestroySession(s) PROVE TypeOK'
  BY <1>24 DEF FinishDestroySession, FinishesFirst
<1>25. ASSUME NEW s \in Sessions, SetActiveSessionPath(s) PROVE TypeOK'
  BY <1>25 DEF SetActiveSessionPath, Foreign, Stale, Own
<1>26. ASSUME NEW s \in Sessions, ReconcileCleanupPending(s) PROVE TypeOK'
  BY <1>26 DEF ReconcileCleanupPending
<1>27. ASSUME CancelRoot PROVE TypeOK'
  BY <1>27 DEF CancelRoot
<1>28. ASSUME CloseTargets PROVE TypeOK'
  BY <1>28 DEF CloseTargets
<1>29. ASSUME Crash PROVE TypeOK'
  BY <1>29 DEF Crash
<1>30. CASE UNCHANGED vars
  BY <1>30
<1> HIDE DEF TypeOK, Verdicts, Statuses, Terminal, PCs, Phases, Callers, OwnedBy, Open, Working, Unfinished, NoTurn, NoTeardown, vars, memory, ledger, manager, durable, world
<1> QED
  BY <1>1, <1>2, <1>3, <1>4, <1>5, <1>6, <1>7, <1>8, <1>9, <1>10, <1>11, <1>12, <1>13, <1>14, <1>15, <1>16, <1>17, <1>18, <1>19, <1>20, <1>21, <1>22, <1>23, <1>24, <1>25, <1>26, <1>27, <1>28, <1>29, <1>30 DEF Next, Goroutine, TurnStep, SessionStep

LEMMA LifecycleStep ==
  ASSUME TypeOK, Lifecycle, Destruction, [Next]_vars PROVE Lifecycle'
<1> USE SessionAssumption, CrashAssumption DEF TypeOK, Verdicts, Statuses, Terminal, PCs, Phases, Callers, Lifecycle, Destruction, Settled, OwnedBy, Open, Working, Unfinished, NoTurn, NoTeardown, vars, memory, ledger, manager, durable, world
<1>1. ASSUME NEW j \in Jobs, Launch(j) PROVE Lifecycle'
  BY <1>1 DEF Launch
<1>2. ASSUME NEW j \in Jobs, Mutate(j) PROVE Lifecycle'
  BY <1>2 DEF Mutate
<1>3. ASSUME NEW j \in Jobs, Return(j) PROVE Lifecycle'
  BY <1>3 DEF Return
<1>4. ASSUME NEW j \in Jobs, Judge(j) PROVE Lifecycle'
  BY <1>4 DEF Judge
<1>5. ASSUME NEW j \in Jobs, Flush(j) PROVE Lifecycle'
  BY <1>5 DEF Flush
<1>6. ASSUME NEW j \in Jobs, RecordCompletion(j) PROVE Lifecycle'
  BY <1>6 DEF RecordCompletion
<1>7. ASSUME NEW j \in Jobs, Publish(j) PROVE Lifecycle'
  BY <1>7 DEF Publish
<1>8. ASSUME NEW j \in Jobs, CloseDone(j) PROVE Lifecycle'
  BY <1>8 DEF CloseDone
<1>9. ASSUME NEW j \in Jobs, Kill(j) PROVE Lifecycle'
  BY <1>9 DEF Kill
<1>10. ASSUME NEW j \in Jobs, Cancel(j) PROVE Lifecycle'
  BY <1>10 DEF Cancel
<1>11. ASSUME NEW plan \in BOOLEAN, BeginTurn(plan) PROVE Lifecycle'
  BY <1>11 DEF BeginTurn
<1>12. ASSUME LeasePending PROVE Lifecycle'
  BY <1>12 DEF LeasePending, Leasing, Ready
<1>13. ASSUME TurnFails PROVE Lifecycle'
  BY <1>13 DEF TurnFails
<1>14. ASSUME TurnDelivers PROVE Lifecycle'
  BY <1>14 DEF TurnDelivers
<1>15. ASSUME EndTurn PROVE Lifecycle'
  BY <1>15 DEF EndTurn
<1>16. ASSUME NEW j \in Jobs, Register(j) PROVE Lifecycle'
  BY <1>16 DEF Register
<1>17. ASSUME NEW j \in Jobs, Collect(j) PROVE Lifecycle'
  BY <1>17 DEF Collect, Leasing, Ready
<1>18. ASSUME NEW j \in Jobs, CommitEvidence(j) PROVE Lifecycle'
  BY <1>18 DEF CommitEvidence, Ready
<1>19. ASSUME NEW s \in Sessions, NEW caller \in Callers, BeginDestroySession(s, caller) PROVE Lifecycle'
  BY <1>19 DEF BeginDestroySession, Targets
<1>20. ASSUME NEW s \in Sessions, Unwound(s) PROVE Lifecycle'
  BY <1>20 DEF Unwound, AllDone
<1>21. ASSUME NEW s \in Sessions, Overdue(s) PROVE Lifecycle'
  BY <1>21 DEF Overdue
<1>22. ASSUME NEW s \in Sessions, Drained(s) PROVE Lifecycle'
  BY <1>22 DEF Drained, AllDone
<1>23. ASSUME NEW s \in Sessions, RemoveArtifacts(s) PROVE Lifecycle'
  BY <1>23 DEF RemoveArtifacts, FinishesFirst
<1>24. ASSUME NEW s \in Sessions, FinishDestroySession(s) PROVE Lifecycle'
  BY <1>24 DEF FinishDestroySession, FinishesFirst
<1>25. ASSUME NEW s \in Sessions, SetActiveSessionPath(s) PROVE Lifecycle'
  BY <1>25 DEF SetActiveSessionPath, Foreign, Stale, Own
<1>26. ASSUME NEW s \in Sessions, ReconcileCleanupPending(s) PROVE Lifecycle'
  BY <1>26 DEF ReconcileCleanupPending
<1>27. ASSUME CancelRoot PROVE Lifecycle'
  BY <1>27 DEF CancelRoot
<1>28. ASSUME CloseTargets PROVE Lifecycle'
  BY <1>28 DEF CloseTargets
<1>29. ASSUME Crash PROVE Lifecycle'
  BY <1>29 DEF Crash
<1>30. CASE UNCHANGED vars
  BY <1>30
<1> HIDE DEF TypeOK, Verdicts, Statuses, Terminal, PCs, Phases, Callers, Lifecycle, Destruction, Settled, OwnedBy, Open, Working, Unfinished, NoTurn, NoTeardown, vars, memory, ledger, manager, durable, world
<1> QED
  BY <1>1, <1>2, <1>3, <1>4, <1>5, <1>6, <1>7, <1>8, <1>9, <1>10, <1>11, <1>12, <1>13, <1>14, <1>15, <1>16, <1>17, <1>18, <1>19, <1>20, <1>21, <1>22, <1>23, <1>24, <1>25, <1>26, <1>27, <1>28, <1>29, <1>30 DEF Next, Goroutine, TurnStep, SessionStep

LEMMA CustodyStep ==
  ASSUME TypeOK, Lifecycle, Custody, [Next]_vars PROVE Custody'
<1> USE SessionAssumption, CrashAssumption DEF TypeOK, Verdicts, Statuses, Terminal, PCs, Phases, Callers, Lifecycle, Custody, Returned, OwnedBy, Open, Working, Unfinished, NoTurn, NoTeardown, vars, memory, ledger, manager, durable, world
<1>1. ASSUME NEW j \in Jobs, Launch(j) PROVE Custody'
  BY <1>1 DEF Launch
<1>2. ASSUME NEW j \in Jobs, Mutate(j) PROVE Custody'
  BY <1>2 DEF Mutate
<1>3. ASSUME NEW j \in Jobs, Return(j) PROVE Custody'
  BY <1>3 DEF Return
<1>4. ASSUME NEW j \in Jobs, Judge(j) PROVE Custody'
  BY <1>4 DEF Judge
<1>5. ASSUME NEW j \in Jobs, Flush(j) PROVE Custody'
  BY <1>5 DEF Flush
<1>6. ASSUME NEW j \in Jobs, RecordCompletion(j) PROVE Custody'
  BY <1>6 DEF RecordCompletion
<1>7. ASSUME NEW j \in Jobs, Publish(j) PROVE Custody'
  BY <1>7 DEF Publish
<1>8. ASSUME NEW j \in Jobs, CloseDone(j) PROVE Custody'
  BY <1>8 DEF CloseDone
<1>9. ASSUME NEW j \in Jobs, Kill(j) PROVE Custody'
  BY <1>9 DEF Kill
<1>10. ASSUME NEW j \in Jobs, Cancel(j) PROVE Custody'
  BY <1>10 DEF Cancel
<1>11. ASSUME NEW plan \in BOOLEAN, BeginTurn(plan) PROVE Custody'
  BY <1>11 DEF BeginTurn
<1>12. ASSUME LeasePending PROVE Custody'
  BY <1>12 DEF LeasePending, Leasing, Ready
<1>13. ASSUME TurnFails PROVE Custody'
  BY <1>13 DEF TurnFails
<1>14. ASSUME TurnDelivers PROVE Custody'
  BY <1>14 DEF TurnDelivers
<1>15. ASSUME EndTurn PROVE Custody'
  BY <1>15 DEF EndTurn
<1>16. ASSUME NEW j \in Jobs, Register(j) PROVE Custody'
  BY <1>16 DEF Register
<1>17. ASSUME NEW j \in Jobs, Collect(j) PROVE Custody'
  BY <1>17 DEF Collect, Leasing, Ready
<1>18. ASSUME NEW j \in Jobs, CommitEvidence(j) PROVE Custody'
  BY <1>18 DEF CommitEvidence, Ready
<1>19. ASSUME NEW s \in Sessions, NEW caller \in Callers, BeginDestroySession(s, caller) PROVE Custody'
  BY <1>19 DEF BeginDestroySession, Targets
<1>20. ASSUME NEW s \in Sessions, Unwound(s) PROVE Custody'
  BY <1>20 DEF Unwound, AllDone
<1>21. ASSUME NEW s \in Sessions, Overdue(s) PROVE Custody'
  BY <1>21 DEF Overdue
<1>22. ASSUME NEW s \in Sessions, Drained(s) PROVE Custody'
  BY <1>22 DEF Drained, AllDone
<1>23. ASSUME NEW s \in Sessions, RemoveArtifacts(s) PROVE Custody'
  BY <1>23 DEF RemoveArtifacts, FinishesFirst
<1>24. ASSUME NEW s \in Sessions, FinishDestroySession(s) PROVE Custody'
  BY <1>24 DEF FinishDestroySession, FinishesFirst
<1>25. ASSUME NEW s \in Sessions, SetActiveSessionPath(s) PROVE Custody'
  BY <1>25 DEF SetActiveSessionPath, Foreign, Stale, Own
<1>26. ASSUME NEW s \in Sessions, ReconcileCleanupPending(s) PROVE Custody'
  BY <1>26 DEF ReconcileCleanupPending
<1>27. ASSUME CancelRoot PROVE Custody'
  BY <1>27 DEF CancelRoot
<1>28. ASSUME CloseTargets PROVE Custody'
  BY <1>28 DEF CloseTargets
<1>29. ASSUME Crash PROVE Custody'
  BY <1>29 DEF Crash
<1>30. CASE UNCHANGED vars
  BY <1>30
<1> HIDE DEF TypeOK, Verdicts, Statuses, Terminal, PCs, Phases, Callers, Lifecycle, Custody, Returned, OwnedBy, Open, Working, Unfinished, NoTurn, NoTeardown, vars, memory, ledger, manager, durable, world
<1> QED
  BY <1>1, <1>2, <1>3, <1>4, <1>5, <1>6, <1>7, <1>8, <1>9, <1>10, <1>11, <1>12, <1>13, <1>14, <1>15, <1>16, <1>17, <1>18, <1>19, <1>20, <1>21, <1>22, <1>23, <1>24, <1>25, <1>26, <1>27, <1>28, <1>29, <1>30 DEF Next, Goroutine, TurnStep, SessionStep

LEMMA DestructionStep ==
  ASSUME TypeOK, Lifecycle, Destruction, [Next]_vars PROVE Destruction'
<1> USE SessionAssumption, CrashAssumption DEF TypeOK, Verdicts, Statuses, Terminal, PCs, Phases, Callers, Lifecycle, Destruction, Settled, Unmentioned, OwnedBy, Open, Working, Unfinished, NoTurn, NoTeardown, vars, memory, ledger, manager, durable, world
<1>1. ASSUME NEW j \in Jobs, Launch(j) PROVE Destruction'
  BY <1>1 DEF Launch
<1>2. ASSUME NEW j \in Jobs, Mutate(j) PROVE Destruction'
  BY <1>2 DEF Mutate
<1>3. ASSUME NEW j \in Jobs, Return(j) PROVE Destruction'
  BY <1>3 DEF Return
<1>4. ASSUME NEW j \in Jobs, Judge(j) PROVE Destruction'
  BY <1>4 DEF Judge
<1>5. ASSUME NEW j \in Jobs, Flush(j) PROVE Destruction'
  BY <1>5 DEF Flush
<1>6. ASSUME NEW j \in Jobs, RecordCompletion(j) PROVE Destruction'
  BY <1>6 DEF RecordCompletion
<1>7. ASSUME NEW j \in Jobs, Publish(j) PROVE Destruction'
  BY <1>7 DEF Publish
<1>8. ASSUME NEW j \in Jobs, CloseDone(j) PROVE Destruction'
  BY <1>8 DEF CloseDone
<1>9. ASSUME NEW j \in Jobs, Kill(j) PROVE Destruction'
  BY <1>9 DEF Kill
<1>10. ASSUME NEW j \in Jobs, Cancel(j) PROVE Destruction'
  BY <1>10 DEF Cancel
<1>11. ASSUME NEW plan \in BOOLEAN, BeginTurn(plan) PROVE Destruction'
  BY <1>11 DEF BeginTurn
<1>12. ASSUME LeasePending PROVE Destruction'
  BY <1>12 DEF LeasePending, Leasing, Ready
<1>13. ASSUME TurnFails PROVE Destruction'
  BY <1>13 DEF TurnFails
<1>14. ASSUME TurnDelivers PROVE Destruction'
  BY <1>14 DEF TurnDelivers
<1>15. ASSUME EndTurn PROVE Destruction'
  BY <1>15 DEF EndTurn
<1>16. ASSUME NEW j \in Jobs, Register(j) PROVE Destruction'
  BY <1>16 DEF Register
<1>17. ASSUME NEW j \in Jobs, Collect(j) PROVE Destruction'
  BY <1>17 DEF Collect, Leasing, Ready
<1>18. ASSUME NEW j \in Jobs, CommitEvidence(j) PROVE Destruction'
  BY <1>18 DEF CommitEvidence, Ready
<1>19. ASSUME NEW s \in Sessions, NEW caller \in Callers, BeginDestroySession(s, caller) PROVE Destruction'
  BY <1>19 DEF BeginDestroySession, Targets
<1>20. ASSUME NEW s \in Sessions, Unwound(s) PROVE Destruction'
  BY <1>20 DEF Unwound, AllDone
<1>21. ASSUME NEW s \in Sessions, Overdue(s) PROVE Destruction'
  BY <1>21 DEF Overdue
<1>22. ASSUME NEW s \in Sessions, Drained(s) PROVE Destruction'
  BY <1>22 DEF Drained, AllDone
<1>23. ASSUME NEW s \in Sessions, RemoveArtifacts(s) PROVE Destruction'
  BY <1>23 DEF RemoveArtifacts, FinishesFirst
<1>24. ASSUME NEW s \in Sessions, FinishDestroySession(s) PROVE Destruction'
  <2>1. CASE teardown[s].phase = "removed"
    BY <1>24, <2>1 DEF FinishDestroySession, FinishesFirst
  <2>2. CASE FinishesFirst(s)
    BY <1>24, <2>2 DEF FinishDestroySession, FinishesFirst
  <2> QED  BY <1>24, <2>1, <2>2 DEF FinishDestroySession
<1>25. ASSUME NEW s \in Sessions, SetActiveSessionPath(s) PROVE Destruction'
  BY <1>25 DEF SetActiveSessionPath, Foreign, Stale, Own
<1>26. ASSUME NEW s \in Sessions, ReconcileCleanupPending(s) PROVE Destruction'
  BY <1>26 DEF ReconcileCleanupPending
<1>27. ASSUME CancelRoot PROVE Destruction'
  BY <1>27 DEF CancelRoot
<1>28. ASSUME CloseTargets PROVE Destruction'
  BY <1>28 DEF CloseTargets
<1>29. ASSUME Crash PROVE Destruction'
  BY <1>29 DEF Crash
<1>30. CASE UNCHANGED vars
  BY <1>30
<1> HIDE DEF TypeOK, Verdicts, Statuses, Terminal, PCs, Phases, Callers, Lifecycle, Destruction, Settled, Unmentioned, OwnedBy, Open, Working, Unfinished, NoTurn, NoTeardown, vars, memory, ledger, manager, durable, world
<1> QED
  BY <1>1, <1>2, <1>3, <1>4, <1>5, <1>6, <1>7, <1>8, <1>9, <1>10, <1>11, <1>12, <1>13, <1>14, <1>15, <1>16, <1>17, <1>18, <1>19, <1>20, <1>21, <1>22, <1>23, <1>24, <1>25, <1>26, <1>27, <1>28, <1>29, <1>30 DEF Next, Goroutine, TurnStep, SessionStep

-----------------------------------------------------------------------------
(* The theorems *)

LEMMA InitIInv == Init => IInv
BY SessionAssumption, CrashAssumption
   DEF Init, IInv, TypeOK, Lifecycle, Custody, Destruction, Settled, Unmentioned,
       Verdicts, Statuses, Terminal, PCs, Phases, Callers, NoTurn, NoTeardown, Open, Working,
       Unfinished, Returned

\* The parts hold together in every state.
THEOREM Invariance == Spec => []IInv
<1>1. IInv /\ [Next]_vars => IInv'
  BY TypeStep, LifecycleStep, CustodyStep, DestructionStep DEF IInv
<1> QED  BY InitIInv, <1>1, PTL DEF Spec

\* Every variable has its type.
THEOREM TypeCorrect == Spec => []TypeOK
<1>1. IInv => TypeOK
  BY DEF IInv
<1> QED  BY <1>1, Invariance, PTL

\* The evidence of a change is consumed only once a delivered turn has had it
\* in its ledger (CommitEvidenceForSession).
THEOREM EvidenceReviewed == Spec => []CommittedMeansReviewed
<1>1. IInv => CommittedMeansReviewed
  BY DEF IInv, TypeOK, Custody, CommittedMeansReviewed
<1> QED  BY <1>1, Invariance, PTL

\* A change nobody has reviewed stays pending on its job
\* (PendingEvidenceJobIDsForSession).
THEOREM EvidencePending == Spec => []UnreviewedStaysPending
<1>1. IInv => UnreviewedStaysPending
  BY DEF IInv, TypeOK, Lifecycle, Custody, UnreviewedStaysPending, Open, PCs, Unfinished,
         Returned
<1> QED  BY <1>1, Invariance, PTL

\* Nothing writes the files of a removed session again (WaitTeardown, WaitAll).
THEOREM RemovalFinal == Spec => []RemovedStaysRemoved
<1>1. IInv => RemovedStaysRemoved
  <2> SUFFICES ASSUME IInv, NEW j \in Jobs, home[j] \in deleted
               PROVE  ~Working(j) /\ meta[j] = "none"
    BY DEF RemovedStaysRemoved
  <2>1. home[j] \in Sessions
    BY DEF IInv, TypeOK
  <2> QED  BY <2>1 DEF IInv, Destruction, Settled
<1> QED  BY <1>1, Invariance, PTL

\* No completion note outlives the destruction of its session
\* (BeginDestroySession, recordCompletion).
THEOREM NotesLiving == Spec => []NotesOfLivingSessions
<1>1. IInv => NotesOfLivingSessions
  BY DEF IInv, TypeOK, Destruction, Unmentioned, NotesOfLivingSessions
<1> QED  BY <1>1, Invariance, PTL

\* A purge forgets no job that still works (FinishDestroySession).
THEOREM PurgeSettled == Spec => PurgesOnlySettled
<1>1. ASSUME IInv, [Next]_vars
      PROVE  [\A j \in table \ table' : crashes' = crashes => ~Working(j)]_vars
  <2>1. ASSUME NEW s \in Sessions, FinishDestroySession(s), NEW j \in OwnedBy(s)
        PROVE  ~Working(j)
    BY <1>1, <2>1 DEF IInv, TypeOK, Destruction, Settled, OwnedBy, FinishDestroySession,
                      FinishesFirst
  <2>2. table \subseteq table' \/ Crash
        \/ \E s \in Sessions : FinishDestroySession(s) /\ table' = table \ OwnedBy(s)
    <3> USE <1>1
    <3>1. CASE \E s \in Sessions : FinishDestroySession(s)
      BY <3>1 DEF FinishDestroySession
    <3>2. ASSUME ~\E s \in Sessions : FinishDestroySession(s), ~Crash
          PROVE  table \subseteq table'
      <4>1. ASSUME NEW j \in Jobs, Goroutine(j) \/ Kill(j) \/ Cancel(j)
            PROVE  table \subseteq table'
        BY <4>1 DEF Goroutine, Launch, Mutate, Return, Judge, Flush, RecordCompletion,
                    Publish, CloseDone, Kill, Cancel, memory
      <4>2. ASSUME TurnStep PROVE table \subseteq table'
        BY <4>2 DEF TurnStep, BeginTurn, LeasePending, TurnFails, TurnDelivers, EndTurn,
                    Register, Collect, CommitEvidence, memory
      <4>3. ASSUME NEW s \in Sessions, SessionStep(s) PROVE table \subseteq table'
        BY <3>2, <4>3 DEF SessionStep, BeginDestroySession, Unwound, Overdue, Drained,
                    RemoveArtifacts, SetActiveSessionPath, ReconcileCleanupPending, memory
      <4>4. ASSUME CancelRoot \/ CloseTargets \/ UNCHANGED vars PROVE table \subseteq table'
        BY <4>4 DEF CancelRoot, CloseTargets, vars, memory
      <4> QED  BY <3>2, <4>1, <4>2, <4>3, <4>4 DEF Next
    <3> QED  BY <3>1, <3>2
  <2>3. Crash => crashes' # crashes
    BY <1>1, CrashAssumption DEF IInv, TypeOK, Crash
  <2> QED  BY <2>1, <2>2, <2>3
<1> QED  BY <1>1, Invariance, PTL DEF Spec, PurgesOnlySettled
=============================================================================
