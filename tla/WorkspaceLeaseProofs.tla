------------------------ MODULE WorkspaceLeaseProofs ------------------------
(***************************************************************************)
(* Proofs about WorkspaceLease for every set of processes, sessions, runs,  *)
(* calls and jobs.                                                          *)
(***************************************************************************)
EXTENDS WorkspaceLease, FiniteSetTheorems, TLAPS

-----------------------------------------------------------------------------
(* The inductive invariant *)

ActiveRuns(o) == {r \in Runs : OwnerOf[r] = o /\ run[r] = "active"}

RetainedJobs(o) ==
  {j \in Jobs : OwnerOf[RunOf[j]] = o /\ job[j].retained /\ job[j].at \in {"running", "closed"}}

\* The counters count the runs and the jobs that keep the lease.
CountsExact ==
  \A o \in Owners : /\ activeRuns[o] = Cardinality(ActiveRuns(o))
                    /\ background[o] = Cardinality(RetainedJobs(o))

\* A lease, and a release under way, own the locks they are about to use.
LocksOfLease ==
  \A o \in Owners :
    /\ acquired[o] => /\ token[Process(o)] = o /\ lockFile = o
                      /\ releasing[o] = "no" /\ ~acquiring[o]
    /\ releasing[o] # "no" => token[Process(o)] = o
    /\ releasing[o] = "file" => lockFile = o

\* An owner has one leader at a time, which owns the locks it has taken.
LocksOfLeader ==
  /\ \A c, d \in Calls :
       call[c] \in Leading /\ call[d] \in Leading /\ OwnerOfCall(c) = OwnerOfCall(d) => c = d
  /\ \A c \in Calls : call[c] \in Leading => acquiring[OwnerOfCall(c)]
  /\ \A c \in Calls : call[c] \in {"file", "retry", "locked"} =>
       token[Process(OwnerOfCall(c))] = OwnerOfCall(c) /\ releasing[OwnerOfCall(c)] = "no"
  /\ \A c \in Calls : call[c] = "locked" => lockFile = OwnerOfCall(c)

\* Whoever needs the lease is counted, and has it.
UsersHoldLease ==
  /\ \A c \in Calls : call[c] # "idle" => run[RunOf[c]] # "idle"
  /\ \A c \in Calls : call[c] \notin {"idle", "wrote", "refused"} => run[RunOf[c]] = "active"
  /\ \A c \in Calls : call[c] \in {"granted", "wrote"} /\ run[RunOf[c]] = "active" =>
       acquired[OwnerOfCall(c)]
  /\ \A j \in Jobs : job[j].at = "running" /\ job[j].writer =>
       job[j].retained /\ acquired[OwnerOf[RunOf[j]]]
  /\ \A j \in Jobs : job[j].at = "closed" => job[j].retained

IInv == TypeOK /\ CountsExact /\ LocksOfLease /\ LocksOfLeader /\ UsersHoldLease

-----------------------------------------------------------------------------
(* The counters *)

LEMMA CardinalityOfNonempty ==
  ASSUME NEW S, IsFiniteSet(S), NEW x \in S
  PROVE  Cardinality(S) \in Nat \ {0}
BY FS_CardinalityType, FS_EmptySet

LEMMA CountedFinite ==
  ASSUME NEW o
  PROVE  /\ IsFiniteSet(ActiveRuns(o)) /\ Cardinality(ActiveRuns(o)) \in 0 .. Cardinality(Runs)
         /\ IsFiniteSet(RetainedJobs(o)) /\ Cardinality(RetainedJobs(o)) \in 0 .. Cardinality(Jobs)
<1>1. ActiveRuns(o) \in SUBSET Runs /\ RetainedJobs(o) \in SUBSET Jobs
  BY DEF ActiveRuns, RetainedJobs
<1> QED  BY <1>1, Structure, FS_Subset, FS_CardinalityType

LEMMA CountedFinitePrimed ==
  ASSUME NEW o
  PROVE  /\ IsFiniteSet(ActiveRuns(o)') /\ Cardinality(ActiveRuns(o)') \in 0 .. Cardinality(Runs)
         /\ IsFiniteSet(RetainedJobs(o)') /\ Cardinality(RetainedJobs(o)') \in 0 .. Cardinality(Jobs)
<1>1. ActiveRuns(o)' \in SUBSET Runs /\ RetainedJobs(o)' \in SUBSET Jobs
  BY DEF ActiveRuns, RetainedJobs
<1> QED  BY <1>1, Structure, FS_Subset, FS_CardinalityType

\* Counters at zero leave no run active and no job that retains the lease.
LEMMA NobodyCounted ==
  ASSUME CountsExact', NEW o \in Owners
  PROVE  /\ activeRuns'[o] = 0 => \A r \in Runs : OwnerOf[r] = o => run'[r] # "active"
         /\ background'[o] = 0 =>
              \A j \in Jobs : OwnerOf[RunOf[j]] = o => job'[j].at # "running" \/ ~job'[j].retained
<1>1. ASSUME NEW r \in Runs, OwnerOf[r] = o, run'[r] = "active" PROVE activeRuns'[o] # 0
  <2>1. r \in ActiveRuns(o)'
    BY <1>1 DEF ActiveRuns
  <2> QED  BY <2>1, CountedFinitePrimed, CardinalityOfNonempty DEF CountsExact
<1>2. ASSUME NEW j \in Jobs, OwnerOf[RunOf[j]] = o, job'[j].at = "running", job'[j].retained
      PROVE  background'[o] # 0
  <2>1. j \in RetainedJobs(o)'
    BY <1>2 DEF RetainedJobs
  <2> QED  BY <2>1, CountedFinitePrimed, CardinalityOfNonempty DEF CountsExact
<1> QED  BY <1>1, <1>2

\* Only the runs and jobs of the owner that steps are counted anew.
LEMMA CountsExactStep ==
  ASSUME IInv, [Next]_vars PROVE CountsExact'
<1> USE Structure DEF IInv, TypeOK
<1>0. ASSUME UNCHANGED <<run, activeRuns, background>>,
             \A j \in Jobs : /\ job'[j].retained = job[j].retained
                             /\ job'[j].at \in {"running", "closed"} <=>
                                job[j].at \in {"running", "closed"}
      PROVE  CountsExact'
  <2>1. \A o : ActiveRuns(o)' = ActiveRuns(o)
    BY <1>0 DEF ActiveRuns
  <2>2. \A o : RetainedJobs(o)' = RetainedJobs(o)
    BY <1>0 DEF RetainedJobs
  <2> QED  BY <1>0, <2>1, <2>2 DEF CountsExact
<1>1. ASSUME NEW r \in Runs, BeginRun(r) PROVE CountsExact'
  <2> DEFINE q == OwnerOf[r]
  <2>1. ActiveRuns(q)' = ActiveRuns(q) \cup {r} /\ r \notin ActiveRuns(q)
    BY <1>1 DEF BeginRun, ActiveRuns
  <2>2. \A o \in Owners : o # q => ActiveRuns(o)' = ActiveRuns(o)
    BY <1>1 DEF BeginRun, ActiveRuns
  <2>3. \A o \in Owners : RetainedJobs(o)' = RetainedJobs(o)
    BY <1>1 DEF BeginRun, RetainedJobs
  <2>4. Cardinality(ActiveRuns(q)') = Cardinality(ActiveRuns(q)) + 1
    BY <2>1, CountedFinite, FS_AddElement
  <2>5. /\ activeRuns' = [activeRuns EXCEPT ![q] = @ + 1] /\ background' = background
        /\ q \in Owners
    BY <1>1 DEF BeginRun
  <2> QED  BY <2>2, <2>3, <2>4, <2>5 DEF CountsExact
<1>2. ASSUME NEW r \in Runs, EndRun(r) PROVE CountsExact'
  <2> DEFINE q == OwnerOf[r]
  <2>1. ActiveRuns(q)' = ActiveRuns(q) \ {r} /\ r \in ActiveRuns(q)
    BY <1>2 DEF EndRun, ActiveRuns
  <2>2. \A o \in Owners : o # q => ActiveRuns(o)' = ActiveRuns(o)
    BY <1>2 DEF EndRun, ActiveRuns
  <2>3. \A o \in Owners : RetainedJobs(o)' = RetainedJobs(o)
    BY <1>2 DEF EndRun, RetainedJobs
  <2>4. Cardinality(ActiveRuns(q)') = Cardinality(ActiveRuns(q)) - 1
    <3>1. IsFiniteSet(ActiveRuns(q))
      BY CountedFinite
    <3> HIDE DEF IInv, TypeOK, q
    <3> QED  BY <2>1, <3>1, FS_RemoveElement
  <2>5. Cardinality(ActiveRuns(q)) \in Nat \ {0}
    BY <2>1, CountedFinite, CardinalityOfNonempty
  <2>6. /\ activeRuns' = [activeRuns EXCEPT ![q] = Saturating(@)] /\ background' = background
        /\ q \in Owners
    BY <1>2 DEF EndRun
  <2> QED  BY <2>2, <2>3, <2>4, <2>5, <2>6 DEF CountsExact, Saturating
<1>3. ASSUME NEW c \in Calls, CallStep(c) PROVE CountsExact'
  <2>1. UNCHANGED <<run, job, activeRuns, background>>
    BY <1>3 DEF CallStep, Enter, FollowerCancelled, TakeToken, WaitForToken, TokenCancelled,
                LockFile, LockFileHeld, Retry, LockFileFails, Settle, Wrote, owner
  <2> QED  BY <1>0, <2>1
<1>4. ASSUME NEW j \in Jobs, NEW writer \in BOOLEAN, StartJob(j, writer) PROVE CountsExact'
  <2> DEFINE q == OwnerOf[RunOf[j]]
  <2>0. q \in Owners /\ acquired[q] \in BOOLEAN
    OBVIOUS
  <2>1. RetainedJobs(q)' = IF acquired[q] THEN RetainedJobs(q) \cup {j} ELSE RetainedJobs(q)
    BY <1>4, <2>0 DEF StartJob, RetainedJobs, JobState
  <2>2. j \notin RetainedJobs(q)
    BY <1>4 DEF StartJob, RetainedJobs
  <2>3. \A o \in Owners : o # q => RetainedJobs(o)' = RetainedJobs(o)
    BY <1>4 DEF StartJob, RetainedJobs
  <2>4. \A o \in Owners : ActiveRuns(o)' = ActiveRuns(o)
    BY <1>4 DEF StartJob, ActiveRuns
  <2>5. Cardinality(RetainedJobs(q)') =
          IF acquired[q] THEN Cardinality(RetainedJobs(q)) + 1 ELSE Cardinality(RetainedJobs(q))
    <3>1. CASE acquired[q]
      BY <2>1, <2>2, <3>1, CountedFinite, FS_AddElement
    <3>2. CASE ~acquired[q]
      BY <2>1, <3>2
    <3> QED  BY <2>0, <3>1, <3>2
  <2>6. /\ background' = [background EXCEPT ![q] = IF acquired[q] THEN @ + 1 ELSE @]
        /\ activeRuns' = activeRuns
    BY <1>4 DEF StartJob
  <2> QED  BY <2>0, <2>3, <2>4, <2>5, <2>6 DEF CountsExact
<1>5. ASSUME NEW j \in Jobs, JobDone(j) PROVE CountsExact'
  <2>1. UNCHANGED <<run, activeRuns, background>>
    BY <1>5 DEF JobDone, owner
  <2>2. \A k \in Jobs \ {j} : job'[k] = job[k]
    BY <1>5 DEF JobDone
  <2>3. job[j].at = "running" /\ job[j].retained \in BOOLEAN /\ job'[j].retained = job[j].retained
        /\ job'[j].at = IF job[j].retained THEN "closed" ELSE "over"
    BY <1>5 DEF JobDone, JobState
  <2>4. \A o : RetainedJobs(o)' = RetainedJobs(o)
    BY <2>2, <2>3 DEF RetainedJobs
  <2>5. \A o : ActiveRuns(o)' = ActiveRuns(o)
    BY <2>1 DEF ActiveRuns
  <2> QED  BY <2>1, <2>4, <2>5 DEF CountsExact
<1>6. ASSUME NEW j \in Jobs, Unretain(j) PROVE CountsExact'
  <2> DEFINE q == OwnerOf[RunOf[j]]
  <2>0. q \in Owners /\ job[j].retained /\ job[j].at = "closed" /\ job'[j].at = "over"
    BY <1>6 DEF Unretain, UsersHoldLease, JobState
  <2>1. RetainedJobs(q)' = RetainedJobs(q) \ {j} /\ j \in RetainedJobs(q)
    <3>1. \A k \in Jobs \ {j} : job'[k] = job[k]
      BY <1>6 DEF Unretain
    <3> QED  BY <2>0, <3>1 DEF RetainedJobs
  <2>2. \A o \in Owners : o # q => RetainedJobs(o)' = RetainedJobs(o)
    BY <1>6 DEF Unretain, RetainedJobs
  <2>3. \A o \in Owners : ActiveRuns(o)' = ActiveRuns(o)
    BY <1>6 DEF Unretain, ActiveRuns
  <2>4. Cardinality(RetainedJobs(q)') = Cardinality(RetainedJobs(q)) - 1
    <3> DEFINE S == RetainedJobs(q)
    <3>1. IsFiniteSet(S) /\ j \in S
      BY <2>1, CountedFinite
    <3> HIDE DEF S
    <3>2. Cardinality(S \ {j}) = Cardinality(S) - 1
      BY <3>1, FS_RemoveElement
    <3> QED  BY <2>1, <3>2 DEF S
  <2>5. Cardinality(RetainedJobs(q)) \in Nat \ {0}
    BY <2>1, CountedFinite, CardinalityOfNonempty
  <2>6. /\ background' = [background EXCEPT ![q] = Saturating(@)]
        /\ activeRuns' = activeRuns
    BY <1>6 DEF Unretain
  <2> QED  BY <2>0, <2>2, <2>3, <2>4, <2>5, <2>6 DEF CountsExact, Saturating
<1>7. ASSUME NEW o \in Owners, ReleaseFile(o) \/ ReleaseToken(o) PROVE CountsExact'
  <2>1. UNCHANGED <<run, job, activeRuns, background>>
    BY <1>7 DEF ReleaseFile, ReleaseToken
  <2> QED  BY <1>0, <2>1
<1>8. ASSUME NEW p \in Processes, Crash(p) PROVE CountsExact'
  <2> USE DEF Process
  <2>1. ASSUME NEW o \in Owners, Process(o) = p
        PROVE  /\ ActiveRuns(o)' = {} /\ RetainedJobs(o)' = {}
               /\ activeRuns'[o] = 0 /\ background'[o] = 0
    BY <1>8, <2>1 DEF Crash, ActiveRuns, RetainedJobs, NoJob
  <2>2. ASSUME NEW o \in Owners, Process(o) # p
        PROVE  /\ ActiveRuns(o)' = ActiveRuns(o) /\ RetainedJobs(o)' = RetainedJobs(o)
               /\ activeRuns'[o] = activeRuns[o] /\ background'[o] = background[o]
    BY <1>8, <2>2 DEF Crash, ActiveRuns, RetainedJobs
  <2> QED  BY <2>1, <2>2, FS_EmptySet DEF CountsExact
<1>9. CASE UNCHANGED vars
  BY <1>0, <1>9 DEF vars
<1> QED
  BY <1>1, <1>2, <1>3, <1>4, <1>5, <1>6, <1>7, <1>8, <1>9 DEF Next, RunStep, JobStep

-----------------------------------------------------------------------------
(* The locks *)

LEMMA LocksOfLeaseStep ==
  ASSUME IInv, [Next]_vars PROVE LocksOfLease'
<1> USE Structure DEF IInv, TypeOK, LocksOfLease, LocksOfLeader, Leading, OwnerOfCall, Process, owner, locks
<1>1. ASSUME NEW r \in Runs, BeginRun(r) PROVE LocksOfLease'
  BY <1>1 DEF BeginRun
<1>2. ASSUME NEW r \in Runs, EndRun(r) PROVE LocksOfLease'
  BY <1>2 DEF EndRun, ReleaseIfIdle
<1>3. ASSUME NEW c \in Calls, Enter(c) PROVE LocksOfLease'
  BY <1>3 DEF Enter
<1>4. ASSUME NEW c \in Calls, FollowerCancelled(c) PROVE LocksOfLease'
  BY <1>4 DEF FollowerCancelled
<1>5. ASSUME NEW c \in Calls, TakeToken(c) PROVE LocksOfLease'
  BY <1>5 DEF TakeToken
<1>6. ASSUME NEW c \in Calls, WaitForToken(c) PROVE LocksOfLease'
  BY <1>6 DEF WaitForToken
<1>7. ASSUME NEW c \in Calls, TokenCancelled(c) PROVE LocksOfLease'
  BY <1>7 DEF TokenCancelled
<1>8. ASSUME NEW c \in Calls, LockFile(c) PROVE LocksOfLease'
  BY <1>8 DEF LockFile
<1>9. ASSUME NEW c \in Calls, LockFileHeld(c) PROVE LocksOfLease'
  BY <1>9 DEF LockFileHeld
<1>10. ASSUME NEW c \in Calls, Retry(c) PROVE LocksOfLease'
  BY <1>10 DEF Retry
<1>11. ASSUME NEW c \in Calls, LockFileFails(c) PROVE LocksOfLease'
  BY <1>11 DEF LockFileFails
<1>12. ASSUME NEW c \in Calls, Settle(c) PROVE LocksOfLease'
  BY <1>12 DEF Settle, ReleaseIfIdle
<1>13. ASSUME NEW c \in Calls, Wrote(c) PROVE LocksOfLease'
  BY <1>13 DEF Wrote
<1>14. ASSUME NEW j \in Jobs, NEW writer \in BOOLEAN, StartJob(j, writer) PROVE LocksOfLease'
  BY <1>14 DEF StartJob
<1>15. ASSUME NEW j \in Jobs, JobDone(j) PROVE LocksOfLease'
  BY <1>15 DEF JobDone
<1>16. ASSUME NEW j \in Jobs, Unretain(j) PROVE LocksOfLease'
  BY <1>16 DEF Unretain, ReleaseIfIdle
<1>17. ASSUME NEW o \in Owners, ReleaseFile(o) PROVE LocksOfLease'
  BY <1>17 DEF ReleaseFile
<1>18. ASSUME NEW o \in Owners, ReleaseToken(o) PROVE LocksOfLease'
  BY <1>18 DEF ReleaseToken
<1>19. ASSUME NEW p \in Processes, Crash(p) PROVE LocksOfLease'
  BY <1>19 DEF Crash
<1>20. CASE UNCHANGED vars
  BY <1>20 DEF vars
<1> QED
  BY <1>1, <1>2, <1>3, <1>4, <1>5, <1>6, <1>7, <1>8, <1>9, <1>10, <1>11, <1>12, <1>13, <1>14, <1>15, <1>16, <1>17, <1>18, <1>19, <1>20 DEF Next, RunStep, CallStep, JobStep

LEMMA LocksOfLeaderStep ==
  ASSUME IInv, [Next]_vars PROVE LocksOfLeader'
<1> USE Structure DEF IInv, TypeOK, LocksOfLease, LocksOfLeader, Leading, OwnerOfCall, Process, owner, locks
<1>1. ASSUME NEW r \in Runs, BeginRun(r) PROVE LocksOfLeader'
  BY <1>1 DEF BeginRun
<1>2. ASSUME NEW r \in Runs, EndRun(r) PROVE LocksOfLeader'
  BY <1>2 DEF EndRun, ReleaseIfIdle
<1>3. ASSUME NEW c \in Calls, Enter(c) PROVE LocksOfLeader'
  <2> DEFINE o == OwnerOf[RunOf[c]]
  <2>1. /\ UNCHANGED <<token, lockFile, releasing>> /\ o \in Owners
        /\ acquiring' = [acquiring EXCEPT ![o] = acquiring[o] \/ ~acquired[o]]
        /\ \A d \in Calls \ {c} : call'[d] = call[d]
    BY <1>3 DEF Enter
  <2>2. CASE acquired[o] \/ acquiring[o]
    <3>1. call'[c] \notin Leading /\ acquiring'[o] = acquiring[o]
      BY <1>3, <2>1, <2>2 DEF Enter
    <3> QED  BY <2>1, <3>1
  <2>3. CASE ~acquired[o] /\ ~acquiring[o]
    <3>1. acquiring'[o]
      <4>1. acquiring'[o] = (acquiring[o] \/ ~acquired[o])
        BY <2>1
      <4> QED  BY <2>3, <4>1, Zenon
    <3>4. call'[c] = "token"
      BY <1>3, <2>3 DEF Enter
    <3>2. \A d \in Calls : OwnerOf[RunOf[d]] = o => call[d] \notin Leading
      BY <2>3
    <3> QED  BY <2>1, <3>1, <3>2, <3>4
  <2> QED  BY <2>2, <2>3
<1>4. ASSUME NEW c \in Calls, FollowerCancelled(c) PROVE LocksOfLeader'
  BY <1>4 DEF FollowerCancelled
<1>5. ASSUME NEW c \in Calls, TakeToken(c) PROVE LocksOfLeader'
  BY <1>5 DEF TakeToken
<1>6. ASSUME NEW c \in Calls, WaitForToken(c) PROVE LocksOfLeader'
  BY <1>6 DEF WaitForToken
<1>7. ASSUME NEW c \in Calls, TokenCancelled(c) PROVE LocksOfLeader'
  BY <1>7 DEF TokenCancelled
<1>8. ASSUME NEW c \in Calls, LockFile(c) PROVE LocksOfLeader'
  BY <1>8 DEF LockFile
<1>9. ASSUME NEW c \in Calls, LockFileHeld(c) PROVE LocksOfLeader'
  BY <1>9 DEF LockFileHeld
<1>10. ASSUME NEW c \in Calls, Retry(c) PROVE LocksOfLeader'
  BY <1>10 DEF Retry
<1>11. ASSUME NEW c \in Calls, LockFileFails(c) PROVE LocksOfLeader'
  BY <1>11 DEF LockFileFails
<1>12. ASSUME NEW c \in Calls, Settle(c) PROVE LocksOfLeader'
  BY <1>12 DEF Settle, ReleaseIfIdle
<1>13. ASSUME NEW c \in Calls, Wrote(c) PROVE LocksOfLeader'
  BY <1>13 DEF Wrote
<1>14. ASSUME NEW j \in Jobs, NEW writer \in BOOLEAN, StartJob(j, writer) PROVE LocksOfLeader'
  BY <1>14 DEF StartJob
<1>15. ASSUME NEW j \in Jobs, JobDone(j) PROVE LocksOfLeader'
  BY <1>15 DEF JobDone
<1>16. ASSUME NEW j \in Jobs, Unretain(j) PROVE LocksOfLeader'
  BY <1>16 DEF Unretain, ReleaseIfIdle
<1>17. ASSUME NEW o \in Owners, ReleaseFile(o) PROVE LocksOfLeader'
  BY <1>17 DEF ReleaseFile
<1>18. ASSUME NEW o \in Owners, ReleaseToken(o) PROVE LocksOfLeader'
  BY <1>18 DEF ReleaseToken
<1>19. ASSUME NEW p \in Processes, Crash(p) PROVE LocksOfLeader'
  BY <1>19 DEF Crash
<1>20. CASE UNCHANGED vars
  BY <1>20 DEF vars
<1> HIDE DEF IInv, TypeOK, LocksOfLease, LocksOfLeader, Leading, UsersHoldLease, JobState, NoJob, OwnerOfCall, Process, owner, locks
<1> QED
  BY <1>1, <1>2, <1>3, <1>4, <1>5, <1>6, <1>7, <1>8, <1>9, <1>10, <1>11, <1>12, <1>13, <1>14, <1>15, <1>16, <1>17, <1>18, <1>19, <1>20 DEF Next, RunStep, CallStep, JobStep

LEMMA UsersHoldLeaseStep ==
  ASSUME IInv, CountsExact', [Next]_vars PROVE UsersHoldLease'
<1> USE Structure DEF IInv, TypeOK, LocksOfLease, LocksOfLeader, Leading, UsersHoldLease, JobState, NoJob, OwnerOfCall, Process, owner, locks
<1>1. ASSUME NEW r \in Runs, BeginRun(r) PROVE UsersHoldLease'
  BY <1>1 DEF BeginRun
<1>2. ASSUME NEW r \in Runs, EndRun(r) PROVE UsersHoldLease'
  <2> DEFINE q == OwnerOf[r]
  <2>1. /\ UNCHANGED <<call, job, acquiring>> /\ q \in Owners
        /\ run' = [run EXCEPT ![r] = "ended"]
        /\ activeRuns'[q] = Saturating(activeRuns[q])
        /\ \A o \in Owners \ {q} : acquired'[o] = acquired[o]
    BY <1>2 DEF EndRun, ReleaseIfIdle
  <2>2. ASSUME acquired[q], ~acquired'[q]
        PROVE  /\ \A s \in Runs : OwnerOf[s] = q => run'[s] # "active"
               /\ \A j \in Jobs : OwnerOf[RunOf[j]] = q => job'[j].at # "running" \/ ~job'[j].retained
    <3>1. activeRuns'[q] = 0 /\ background'[q] = 0
      BY <1>2, <2>1, <2>2 DEF EndRun, ReleaseIfIdle
    <3> QED  BY <2>1, <3>1, NobodyCounted
  <2> QED  BY <1>2, <2>1, <2>2 DEF EndRun
<1>3. ASSUME NEW c \in Calls, Enter(c) PROVE UsersHoldLease'
  BY <1>3 DEF Enter
<1>4. ASSUME NEW c \in Calls, FollowerCancelled(c) PROVE UsersHoldLease'
  BY <1>4 DEF FollowerCancelled
<1>5. ASSUME NEW c \in Calls, TakeToken(c) PROVE UsersHoldLease'
  BY <1>5 DEF TakeToken
<1>6. ASSUME NEW c \in Calls, WaitForToken(c) PROVE UsersHoldLease'
  BY <1>6 DEF WaitForToken
<1>7. ASSUME NEW c \in Calls, TokenCancelled(c) PROVE UsersHoldLease'
  BY <1>7 DEF TokenCancelled
<1>8. ASSUME NEW c \in Calls, LockFile(c) PROVE UsersHoldLease'
  BY <1>8 DEF LockFile
<1>9. ASSUME NEW c \in Calls, LockFileHeld(c) PROVE UsersHoldLease'
  BY <1>9 DEF LockFileHeld
<1>10. ASSUME NEW c \in Calls, Retry(c) PROVE UsersHoldLease'
  BY <1>10 DEF Retry
<1>11. ASSUME NEW c \in Calls, LockFileFails(c) PROVE UsersHoldLease'
  BY <1>11 DEF LockFileFails
<1>12. ASSUME NEW c \in Calls, Settle(c) PROVE UsersHoldLease'
  <2> DEFINE o == OwnerOf[RunOf[c]]
  <2>1. /\ UNCHANGED <<run, job>> /\ o \in Owners
        /\ \A d \in Calls \ {c} : call'[d] = call[d] \/ (call[d] = "following" /\ call'[d] = "woken")
        /\ call'[c] = IF call[c] = "locked" THEN "granted" ELSE "refused"
    <3>1. UNCHANGED <<run, job>> /\ o \in Owners
      BY <1>12 DEF Settle
    <3>2. call' = [d \in Calls |->
                     IF d = c
                     THEN IF call[c] = "locked" THEN "granted" ELSE "refused"
                     ELSE IF OwnerOfCall(d) = o /\ call[d] = "following" THEN "woken"
                     ELSE call[d]]
      BY <1>12 DEF Settle
    <3> HIDE DEF o
    <3> QED  BY <3>1, <3>2
  <2>2. \A q \in Owners : acquired[q] => acquired'[q]
    BY <1>12 DEF Settle, ReleaseIfIdle
  <2>3. call[c] = "locked" => acquired'[o]
    <3>1. run'[RunOf[c]] = "active"
      BY <1>12, <2>1 DEF Settle
    <3>2. activeRuns'[o] # 0
      BY <2>1, <3>1, NobodyCounted
    <3> QED  BY <1>12, <3>2 DEF Settle, ReleaseIfIdle
  <2> QED  BY <1>12, <2>1, <2>2, <2>3 DEF Settle
<1>13. ASSUME NEW c \in Calls, Wrote(c) PROVE UsersHoldLease'
  BY <1>13 DEF Wrote
<1>14. ASSUME NEW j \in Jobs, NEW writer \in BOOLEAN, StartJob(j, writer) PROVE UsersHoldLease'
  BY <1>14 DEF StartJob
<1>15. ASSUME NEW j \in Jobs, JobDone(j) PROVE UsersHoldLease'
  BY <1>15 DEF JobDone
<1>16. ASSUME NEW j \in Jobs, Unretain(j) PROVE UsersHoldLease'
  <2> DEFINE q == OwnerOf[RunOf[j]]
  <2>1. /\ UNCHANGED <<call, run, acquiring>> /\ q \in Owners
        /\ job' = [job EXCEPT ![j].at = "over"]
        /\ \A o \in Owners \ {q} : acquired'[o] = acquired[o]
    BY <1>16 DEF Unretain, ReleaseIfIdle
  <2>2. ASSUME acquired[q], ~acquired'[q]
        PROVE  /\ \A s \in Runs : OwnerOf[s] = q => run'[s] # "active"
               /\ \A k \in Jobs : OwnerOf[RunOf[k]] = q => job'[k].at # "running" \/ ~job'[k].retained
    <3>1. activeRuns'[q] = 0 /\ background'[q] = 0
      BY <1>16, <2>1, <2>2 DEF Unretain, ReleaseIfIdle
    <3> QED  BY <2>1, <3>1, NobodyCounted
  <2>3. \A k \in Jobs : k # j => job'[k] = job[k]
    BY <2>1
  <2>4. \A k \in Jobs : job'[k].at \in {"running", "closed"} => k # j
    BY <2>1
  <2>5. /\ \A c \in Calls : call'[c] # "idle" => run'[RunOf[c]] # "idle"
        /\ \A c \in Calls : call'[c] \notin {"idle", "wrote", "refused"} => run'[RunOf[c]] = "active"
    BY <2>1
  <2>6. \A c \in Calls : call'[c] \in {"granted", "wrote"} /\ run'[RunOf[c]] = "active" =>
          acquired'[OwnerOfCall(c)]
    BY <2>1, <2>2 DEF OwnerOfCall
  <2>7. \A k \in Jobs : job'[k].at = "running" /\ job'[k].writer =>
          job'[k].retained /\ acquired'[OwnerOf[RunOf[k]]]
    BY <2>1, <2>2, <2>3, <2>4
  <2>8. \A k \in Jobs : job'[k].at = "closed" => job'[k].retained
    BY <2>3, <2>4
  <2> HIDE <1>16 DEF IInv, TypeOK, LocksOfLease, LocksOfLeader, JobState, NoJob, OwnerOfCall,
                     Process, owner, locks, Leading, q
  <2> QED  BY <2>5, <2>6, <2>7, <2>8, Zenon DEF UsersHoldLease
<1>17. ASSUME NEW o \in Owners, ReleaseFile(o) PROVE UsersHoldLease'
  BY <1>17 DEF ReleaseFile
<1>18. ASSUME NEW o \in Owners, ReleaseToken(o) PROVE UsersHoldLease'
  BY <1>18 DEF ReleaseToken
<1>19. ASSUME NEW p \in Processes, Crash(p) PROVE UsersHoldLease'
  BY <1>19 DEF Crash
<1>20. CASE UNCHANGED vars
  BY <1>20 DEF vars
<1> HIDE DEF IInv, TypeOK, LocksOfLease, LocksOfLeader, Leading, UsersHoldLease, JobState, NoJob, OwnerOfCall, Process, owner, locks
<1> QED
  BY <1>1, <1>2, <1>3, <1>4, <1>5, <1>6, <1>7, <1>8, <1>9, <1>10, <1>11, <1>12, <1>13, <1>14, <1>15, <1>16, <1>17, <1>18, <1>19, <1>20 DEF Next, RunStep, CallStep, JobStep

-----------------------------------------------------------------------------
(* Type correctness: the counters are bounded because they are exact *)

TypeOfStates ==
  /\ alive \subseteq Processes
  /\ run \in [Runs -> RunState]
  /\ call \in [Calls -> CallState]
  /\ job \in [Jobs -> JobState]
  /\ DOMAIN activeRuns = Owners /\ activeRuns = [o \in Owners |-> activeRuns[o]]
  /\ DOMAIN background = Owners /\ background = [o \in Owners |-> background[o]]
  /\ acquired \in [Owners -> BOOLEAN]
  /\ acquiring \in [Owners -> BOOLEAN]
  /\ waiting \in [Owners -> BOOLEAN]
  /\ releasing \in [Owners -> {"no", "file", "token"}]
  /\ token \in [Processes -> Owners \cup {None}]
  /\ lockFile \in Owners \cup {None}

LEMMA TypeOfStatesStep ==
  ASSUME TypeOK, [Next]_vars PROVE TypeOfStates'
<1> USE Structure DEF TypeOK, TypeOfStates, RunState, CallState, OwnerOfCall, Process, owner, locks
<1>1. ASSUME NEW r \in Runs, BeginRun(r) PROVE TypeOfStates'
  BY <1>1 DEF BeginRun
<1>2. ASSUME NEW r \in Runs, EndRun(r) PROVE TypeOfStates'
  BY <1>2 DEF EndRun, ReleaseIfIdle
<1>3. ASSUME NEW c \in Calls, Enter(c) PROVE TypeOfStates'
  BY <1>3 DEF Enter
<1>4. ASSUME NEW c \in Calls, FollowerCancelled(c) PROVE TypeOfStates'
  BY <1>4 DEF FollowerCancelled
<1>5. ASSUME NEW c \in Calls, TakeToken(c) PROVE TypeOfStates'
  BY <1>5 DEF TakeToken
<1>6. ASSUME NEW c \in Calls, WaitForToken(c) PROVE TypeOfStates'
  BY <1>6 DEF WaitForToken
<1>7. ASSUME NEW c \in Calls, TokenCancelled(c) PROVE TypeOfStates'
  BY <1>7 DEF TokenCancelled
<1>8. ASSUME NEW c \in Calls, LockFile(c) PROVE TypeOfStates'
  BY <1>8 DEF LockFile
<1>9. ASSUME NEW c \in Calls, LockFileHeld(c) PROVE TypeOfStates'
  BY <1>9 DEF LockFileHeld
<1>10. ASSUME NEW c \in Calls, Retry(c) PROVE TypeOfStates'
  BY <1>10 DEF Retry
<1>11. ASSUME NEW c \in Calls, LockFileFails(c) PROVE TypeOfStates'
  BY <1>11 DEF LockFileFails
<1>12. ASSUME NEW c \in Calls, Settle(c) PROVE TypeOfStates'
  BY <1>12 DEF Settle, ReleaseIfIdle
<1>13. ASSUME NEW c \in Calls, Wrote(c) PROVE TypeOfStates'
  BY <1>13 DEF Wrote
<1>14. ASSUME NEW j \in Jobs, NEW writer \in BOOLEAN, StartJob(j, writer) PROVE TypeOfStates'
  BY <1>14 DEF StartJob, JobState, NoJob
<1>15. ASSUME NEW j \in Jobs, JobDone(j) PROVE TypeOfStates'
  BY <1>15 DEF JobDone, JobState, NoJob
<1>16. ASSUME NEW j \in Jobs, Unretain(j) PROVE TypeOfStates'
  BY <1>16 DEF Unretain, ReleaseIfIdle, JobState, NoJob
<1>17. ASSUME NEW o \in Owners, ReleaseFile(o) PROVE TypeOfStates'
  BY <1>17 DEF ReleaseFile
<1>18. ASSUME NEW o \in Owners, ReleaseToken(o) PROVE TypeOfStates'
  BY <1>18 DEF ReleaseToken
<1>19. ASSUME NEW p \in Processes, Crash(p) PROVE TypeOfStates'
  BY <1>19 DEF Crash, JobState, NoJob
<1>20. CASE UNCHANGED vars
  BY <1>20 DEF vars
<1> QED
  BY <1>1, <1>2, <1>3, <1>4, <1>5, <1>6, <1>7, <1>8, <1>9, <1>10, <1>11, <1>12, <1>13, <1>14, <1>15, <1>16, <1>17, <1>18, <1>19, <1>20 DEF Next, RunStep, CallStep, JobStep

LEMMA TypeStep ==
  ASSUME TypeOK, [Next]_vars, CountsExact' PROVE TypeOK'
<1>1. TypeOfStates'
  BY TypeOfStatesStep
<1>2. \A o \in Owners : /\ activeRuns'[o] \in 0 .. Cardinality(Runs)
                        /\ background'[o] \in 0 .. Cardinality(Jobs)
  BY CountedFinitePrimed DEF CountsExact
<1> QED  BY <1>1, <1>2 DEF TypeOK, TypeOfStates

LEMMA InvInit == Init => IInv
<1> SUFFICES ASSUME Init PROVE IInv
  OBVIOUS
<1>1. \A o \in Owners : ActiveRuns(o) = {} /\ RetainedJobs(o) = {}
  BY Structure DEF Init, ActiveRuns, RetainedJobs, NoJob
<1>2. Cardinality(Runs) \in Nat /\ Cardinality(Jobs) \in Nat
  BY Structure, FS_CardinalityType
<1>3. TypeOK
  BY <1>2, Structure DEF Init, TypeOK, RunState, CallState, JobState, NoJob
<1>4. CountsExact
  BY <1>1, FS_EmptySet DEF Init, CountsExact
<1> QED
  BY <1>3, <1>4, Structure
  DEF Init, IInv, LocksOfLease, LocksOfLeader, Leading, UsersHoldLease, NoJob, OwnerOfCall

THEOREM Invariance == Spec => []IInv
<1>1. IInv /\ [Next]_vars => IInv'
  BY CountsExactStep, TypeStep, LocksOfLeaseStep, LocksOfLeaderStep, UsersHoldLeaseStep DEF IInv
<1> QED  BY InvInit, <1>1, PTL DEF Spec

-----------------------------------------------------------------------------
(* The properties *)

\* Every variable keeps its type; no counter of an owner is ever saturated.
THEOREM TypeCorrect == Spec => []TypeOK
BY Invariance, PTL DEF IInv

\* The promise of the package comment: from the first mutation of a run to its
\* end, and while a background writer runs, the session owns the process token
\* and the lock file, in every interleaving with cancellations and crashes.
THEOREM LeaseHeld == Spec => []HeldFromFirstMutation
<1>1. ASSUME IInv PROVE HeldFromFirstMutation
  <2> SUFFICES ASSUME NEW r \in Runs,
                      \/ /\ run[r] = "active"
                         /\ \E c \in Calls : RunOf[c] = r /\ call[c] \in {"granted", "wrote"}
                      \/ \E j \in Jobs : RunOf[j] = r /\ job[j].at = "running" /\ job[j].writer
               PROVE  acquired[OwnerOf[r]]
    BY <1>1, Structure DEF IInv, LocksOfLease, HeldFromFirstMutation
  <2> QED  BY <1>1 DEF IInv, UsersHoldLease, OwnerOfCall
<1> QED  BY Invariance, <1>1, PTL

\* Tools and background writers of two sessions never write at the same time.
THEOREM WritersExclusive == Spec => []OneWritingSession
<1>1. ASSUME IInv PROVE OneWritingSession
  <2>1. \A o \in Writing : o \in Owners /\ acquired[o]
    BY <1>1, Structure DEF IInv, UsersHoldLease, Writing, OwnerOfCall
  <2> QED  BY <1>1, <2>1 DEF IInv, LocksOfLease, OneWritingSession
<1> QED  BY Invariance, <1>1, PTL

\* A session is given the lease only while it owns the lock file.
LEMMA LockedBeforeAcquired ==
  ASSUME IInv, [Next]_vars, NEW q \in Owners, acquired'[q] PROVE lockFile = q
<1> USE DEF IInv, TypeOK, LocksOfLease, owner
<1>1. ASSUME NEW c \in Calls, Settle(c) PROVE acquired[q] \/ lockFile = q
  <2>1. OwnerOfCall(c) \in Owners /\ call[c] \in {"locked", "failed"}
    BY <1>1, Structure DEF Settle, OwnerOfCall
  <2>2. CASE q = OwnerOfCall(c)
    BY <1>1, <2>1, <2>2 DEF Settle, ReleaseIfIdle, LocksOfLeader
  <2>3. CASE q # OwnerOfCall(c)
    BY <1>1, <2>1, <2>3 DEF Settle, ReleaseIfIdle
  <2> QED  BY <2>2, <2>3
<1>2. ASSUME NEW c \in Calls, CallStep(c), ~Settle(c) PROVE acquired[q]
  BY <1>2 DEF CallStep, Enter, FollowerCancelled, TakeToken, WaitForToken, TokenCancelled,
              LockFile, LockFileHeld, Retry, LockFileFails, Wrote
<1>3. ASSUME NEW r \in Runs, RunStep(r) PROVE acquired[q]
  BY <1>3, Structure DEF RunStep, BeginRun, EndRun, ReleaseIfIdle
<1>4. ASSUME NEW j \in Jobs, JobStep(j) PROVE acquired[q]
  BY <1>4, Structure DEF JobStep, StartJob, JobDone, Unretain, ReleaseIfIdle
<1>5. ASSUME NEW o \in Owners, ReleaseFile(o) \/ ReleaseToken(o) PROVE acquired[q]
  BY <1>5 DEF ReleaseFile, ReleaseToken
<1>6. ASSUME NEW p \in Processes, Crash(p) PROVE acquired[q]
  BY <1>6 DEF Crash
<1>7. CASE UNCHANGED vars
  BY <1>7 DEF vars
<1> QED  BY <1>1, <1>2, <1>3, <1>4, <1>5, <1>6, <1>7 DEF Next

\* The sessions implement the abstract lock of WriterLock: a session gets the
\* workspace only when no session has it.
THEOREM RefinesLock == Spec => Lock!SafetySpec
<1> DEFINE h == IF \E o \in Owners : acquired[o]
                THEN CHOOSE o \in Owners : acquired[o] ELSE None
<1>1. Init => Lock!Init
  BY DEF Init, Lock!Init
<1>2. ASSUME IInv, IInv', [Next]_vars PROVE [Lock!Next]_h
  <2>1. \A o, q \in Owners : (acquired[o] /\ acquired[q] => o = q)
                             /\ (acquired'[o] /\ acquired'[q] => o = q)
    BY <1>2 DEF IInv, LocksOfLease
  <2>2. ASSUME NEW o \in Owners, acquired[o] PROVE h = o
    BY <2>1, <2>2
  <2>3. ASSUME NEW o \in Owners, acquired'[o] PROVE h' = o
    BY <2>1, <2>3
  <2>4. ASSUME \A o \in Owners : ~acquired[o] PROVE h = None
    BY <2>4
  <2>5. ASSUME \A o \in Owners : ~acquired'[o] PROVE h' = None
    BY <2>5
  <2>6. ASSUME NEW o \in Owners, NEW q \in Owners, acquired[o], acquired'[q] PROVE o = q
    <3>1. lockFile = o
      BY <1>2, <2>6 DEF IInv, LocksOfLease
    <3>2. lockFile = q
      BY <1>2, <2>6, LockedBeforeAcquired
    <3> QED  BY <3>1, <3>2
  <2> HIDE DEF h
  <2> QED  BY <2>2, <2>3, <2>4, <2>5, <2>6, Structure DEF Lock!Next, Lock!Grab, Lock!Drop
<1> QED  BY <1>1, <1>2, Invariance, PTL DEF Spec, Lock!SafetySpec

-----------------------------------------------------------------------------
(* No lock is left behind *)

\* The token of a process is held by one of its own sessions.
TokenOwners == \A p \in Processes : token[p] # None => Process(token[p]) = p

OwnedInv == TokenOwners /\ NoOrphanedLock

LEMMA TokenOwnersStep ==
  ASSUME IInv, TokenOwners, [Next]_vars PROVE TokenOwners'
<1> USE Structure DEF IInv, TypeOK, TokenOwners, OwnerOfCall, Process, owner, locks
<1>1. ASSUME UNCHANGED token PROVE TokenOwners'
  BY <1>1
<1>2. ASSUME NEW c \in Calls, TakeToken(c) PROVE TokenOwners'
  BY <1>2 DEF TakeToken
<1>3. ASSUME NEW p \in Processes, token' = [token EXCEPT ![p] = None] PROVE TokenOwners'
  BY <1>3
<1>4. ASSUME NEW c \in Calls, CallStep(c), ~TakeToken(c), ~LockFileFails(c) PROVE UNCHANGED token
  BY <1>4 DEF CallStep, Enter, FollowerCancelled, WaitForToken, TokenCancelled, LockFile,
              LockFileHeld, Retry, Settle, Wrote
<1>5. ASSUME NEW c \in Calls, LockFileFails(c) PROVE TokenOwners'
  BY <1>3, <1>5 DEF LockFileFails
<1>6. ASSUME NEW r \in Runs, RunStep(r) PROVE UNCHANGED token
  BY <1>6 DEF RunStep, BeginRun, EndRun
<1>7. ASSUME NEW j \in Jobs, JobStep(j) PROVE UNCHANGED token
  BY <1>7 DEF JobStep, StartJob, JobDone, Unretain
<1>8. ASSUME NEW o \in Owners, ReleaseFile(o) PROVE UNCHANGED token
  BY <1>8 DEF ReleaseFile
<1>9. ASSUME NEW o \in Owners, ReleaseToken(o) PROVE TokenOwners'
  BY <1>3, <1>9 DEF ReleaseToken
<1>10. ASSUME NEW p \in Processes, Crash(p) PROVE TokenOwners'
  BY <1>3, <1>10 DEF Crash
<1>11. CASE UNCHANGED vars
  BY <1>1, <1>11 DEF vars
<1> HIDE DEF IInv, TypeOK, TokenOwners
<1> QED
  BY <1>1, <1>2, <1>4, <1>5, <1>6, <1>7, <1>8, <1>9, <1>10, <1>11 DEF Next

\* A lease that EndRun, Settle or RetainUntil takes back is released.
LEMMA LeaseKeptOrReleased ==
  ASSUME TypeOK, NEW o \in Owners, NEW runs, NEW jobs, NEW held \in BOOLEAN,
         ReleaseIfIdle(o, runs, jobs, held), acquired[o] => held
  PROVE  /\ held => acquired'[o] \/ releasing'[o] = "file"
         /\ releasing[o] = "file" => releasing'[o] = "file"
         /\ releasing[o] # "no" => releasing'[o] # "no"
         /\ \A q \in Owners \ {o} : acquired'[q] = acquired[q] /\ releasing'[q] = releasing[q]
BY DEF TypeOK, ReleaseIfIdle

LEMMA OwnedStep ==
  ASSUME IInv, OwnedInv, [Next]_vars PROVE OwnedInv'
<1> USE Structure DEF IInv, OwnedInv, OwnerOfCall, Process
<1>1. TokenOwners'
  BY TokenOwnersStep
<1>2. ASSUME NEW o \in Owners, UNCHANGED <<call, token, lockFile>>,
             \A q \in Owners : /\ acquired[q] => acquired'[q] \/ releasing'[q] = "file"
                               /\ releasing[q] = "file" => releasing'[q] = "file"
                               /\ releasing[q] # "no" => releasing'[q] # "no"
      PROVE  NoOrphanedLock'
  BY <1>2 DEF TypeOK, NoOrphanedLock
<1>3. ASSUME NEW r \in Runs, BeginRun(r) PROVE NoOrphanedLock'
  BY <1>3 DEF BeginRun, NoOrphanedLock, locks
<1>4. ASSUME NEW r \in Runs, EndRun(r) PROVE NoOrphanedLock'
  <2>1. OwnerOf[r] \in Owners /\ acquired[OwnerOf[r]] \in BOOLEAN
    BY DEF TypeOK
  <2>2. ReleaseIfIdle(OwnerOf[r], Saturating(activeRuns[OwnerOf[r]]), background[OwnerOf[r]],
                      acquired[OwnerOf[r]])
    BY <1>4 DEF EndRun
  <2>3. UNCHANGED <<call, token, lockFile>>
    BY <1>4 DEF EndRun, locks
  <2> QED  BY <1>2, <2>1, <2>2, <2>3, LeaseKeptOrReleased
<1>5. ASSUME NEW j \in Jobs, Unretain(j) PROVE NoOrphanedLock'
  <2> DEFINE o == OwnerOf[RunOf[j]]
  <2>1. o \in Owners /\ acquired[o] \in BOOLEAN
    BY DEF TypeOK
  <2>2. ReleaseIfIdle(o, activeRuns[o], Saturating(background[o]), acquired[o])
    BY <1>5 DEF Unretain
  <2>3. UNCHANGED <<call, token, lockFile>>
    BY <1>5 DEF Unretain, locks
  <2> QED  BY <1>2, <2>1, <2>2, <2>3, LeaseKeptOrReleased
<1>6. ASSUME NEW j \in Jobs, NEW writer \in BOOLEAN, StartJob(j, writer) \/ JobDone(j)
      PROVE  NoOrphanedLock'
  BY <1>6 DEF StartJob, JobDone, NoOrphanedLock, owner, locks
<1>7. ASSUME NEW c \in Calls, Settle(c) PROVE NoOrphanedLock'
  <2> DEFINE o == OwnerOf[RunOf[c]]
  <2>1. o \in Owners /\ acquired[o] \in BOOLEAN /\ (call[c] = "locked") \in BOOLEAN
    BY DEF TypeOK
  <2>2. ReleaseIfIdle(o, activeRuns[o], background[o], acquired[o] \/ call[c] = "locked")
    BY <1>7 DEF Settle
  <2>3. /\ acquired[o] \/ call[c] = "locked" => acquired'[o] \/ releasing'[o] = "file"
        /\ releasing[o] = "file" => releasing'[o] = "file"
        /\ releasing[o] # "no" => releasing'[o] # "no"
        /\ \A q \in Owners \ {o} : acquired'[q] = acquired[q] /\ releasing'[q] = releasing[q]
    BY <2>1, <2>2, LeaseKeptOrReleased
  <2>4. /\ UNCHANGED <<token, lockFile>> /\ call[c] \in {"locked", "failed"}
        /\ \A d \in Calls \ {c} : call[d] \in {"file", "retry", "locked"} => call'[d] = call[d]
    BY <1>7 DEF Settle, locks
  <2>5. \A q \in Owners : /\ acquired[q] => acquired'[q] \/ releasing'[q] = "file"
                          /\ releasing[q] = "file" => releasing'[q] = "file"
                          /\ releasing[q] # "no" => releasing'[q] # "no"
    BY <2>1, <2>3 DEF TypeOK
  <2>6. ASSUME NEW d \in Calls, call[d] \in {"file", "retry", "locked"}
        PROVE  \/ d # c /\ call'[d] = call[d]
               \/ acquired'[OwnerOf[RunOf[d]]] \/ releasing'[OwnerOf[RunOf[d]]] = "file"
    BY <2>3, <2>4, <2>6
  <2> HIDE DEF o, IInv
  <2>7. ASSUME NEW p \in Processes, token'[p] # None
        PROVE  \/ acquired'[token'[p]] \/ releasing'[token'[p]] # "no"
               \/ \E d \in Calls : /\ OwnerOf[RunOf[d]] = token'[p]
                                  /\ call'[d] \in {"file", "retry", "locked"}
    <3>1. token'[p] = token[p] /\ token[p] \in Owners
      BY <2>4, <2>7 DEF IInv, TypeOK
    <3> QED  BY <2>5, <2>6, <2>7, <3>1 DEF NoOrphanedLock
  <2>8. ASSUME lockFile' # None
        PROVE  \/ acquired'[lockFile'] \/ releasing'[lockFile'] = "file"
               \/ \E d \in Calls : OwnerOf[RunOf[d]] = lockFile' /\ call'[d] = "locked"
    <3>1. lockFile' = lockFile /\ lockFile \in Owners
      BY <2>4, <2>8 DEF IInv, TypeOK
    <3> QED  BY <2>5, <2>6, <2>8, <3>1 DEF NoOrphanedLock
  <2> QED  BY <2>7, <2>8 DEF NoOrphanedLock
<1>8. ASSUME NEW c \in Calls, LockFileFails(c) PROVE NoOrphanedLock'
  <2>1. /\ token' = [token EXCEPT ![Process(OwnerOf[RunOf[c]])] = None]
        /\ call' = [call EXCEPT ![c] = "failed"] /\ call[c] \in {"file", "retry"}
        /\ UNCHANGED <<acquired, releasing, lockFile>>
    BY <1>8 DEF LockFileFails, owner
  <2>2. \A p \in Processes : token'[p] # None => /\ token'[p] = token[p]
                                                 /\ token[p] # OwnerOf[RunOf[c]]
    BY <2>1 DEF TokenOwners, TypeOK
  <2> QED  BY <2>1, <2>2 DEF NoOrphanedLock, TypeOK
<1>9. ASSUME NEW c \in Calls, CallStep(c), ~Settle(c), ~LockFileFails(c) PROVE NoOrphanedLock'
  <2> USE DEF NoOrphanedLock, TypeOK, owner, locks
  <2>1. CASE TakeToken(c)
    BY <2>1 DEF TakeToken
  <2>2. CASE LockFile(c)
    BY <2>2 DEF LockFile
  <2>3. CASE LockFileHeld(c) \/ Retry(c)
    BY <2>3 DEF LockFileHeld, Retry
  <2>4. CASE Enter(c) \/ FollowerCancelled(c) \/ WaitForToken(c) \/ TokenCancelled(c) \/ Wrote(c)
    <3>1. /\ UNCHANGED <<acquired, releasing, token, lockFile>>
          /\ \A d \in Calls : call[d] \in {"file", "retry", "locked"} => call'[d] = call[d]
      BY <2>4 DEF Enter, FollowerCancelled, WaitForToken, TokenCancelled, Wrote
    <3> QED  BY <3>1
  <2> QED  BY <1>9, <2>1, <2>2, <2>3, <2>4 DEF CallStep
<1>10. ASSUME NEW o \in Owners, ReleaseFile(o) PROVE NoOrphanedLock'
  BY <1>10 DEF ReleaseFile, NoOrphanedLock, TypeOK
<1>11. ASSUME NEW o \in Owners, ReleaseToken(o) PROVE NoOrphanedLock'
  <2>1. /\ token' = [token EXCEPT ![Process(o)] = None] /\ releasing[o] = "token"
        /\ releasing' = [releasing EXCEPT ![o] = "no"]
        /\ UNCHANGED <<acquired, call, lockFile>>
    BY <1>11 DEF ReleaseToken
  <2>2. \A p \in Processes : token'[p] # None => token'[p] = token[p] /\ token[p] # o
    BY <2>1 DEF TokenOwners, TypeOK
  <2> QED  BY <2>1, <2>2 DEF NoOrphanedLock, TypeOK
<1>12. ASSUME NEW p \in Processes, Crash(p) PROVE NoOrphanedLock'
  <2>1. \A o \in Owners : Process(o) # p => acquired'[o] = acquired[o] /\ releasing'[o] = releasing[o]
    BY <1>12 DEF Crash, TypeOK
  <2>2. \A c \in Calls : Process(OwnerOfCall(c)) # p => call'[c] = call[c]
    BY <1>12 DEF Crash
  <2>3. \A q \in Processes : token'[q] # None => token'[q] = token[q] /\ Process(token[q]) # p
    BY <1>12 DEF Crash, TokenOwners, TypeOK
  <2>4. lockFile' # None => lockFile' = lockFile /\ Process(lockFile) # p /\ lockFile \in Owners
    BY <1>12 DEF Crash, TypeOK
  <2> QED  BY <2>1, <2>2, <2>3, <2>4 DEF NoOrphanedLock, TypeOK
<1>13. ASSUME UNCHANGED vars PROVE NoOrphanedLock'
  BY <1>13 DEF vars, NoOrphanedLock
<1>14. NoOrphanedLock'
  <2> HIDE DEF IInv, OwnedInv, OwnerOfCall, Process
  <2> QED
    BY <1>3, <1>4, <1>5, <1>6, <1>7, <1>8, <1>9, <1>10, <1>11, <1>12, <1>13
    DEF Next, RunStep, JobStep
<1> QED  BY <1>1, <1>14 DEF OwnedInv

\* No path through AcquireWrite and its release function leaves a lock behind:
\* the token and the lock file always belong to a lease, to a leader that is
\* still at work, or to a release that is under way.
THEOREM LocksAccounted == Spec => []NoOrphanedLock
<1>1. Init => OwnedInv
  BY DEF Init, OwnedInv, TokenOwners, NoOrphanedLock
<1> QED  BY <1>1, OwnedStep, Invariance, PTL DEF Spec, OwnedInv
=============================================================================
