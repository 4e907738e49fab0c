--------------------------- MODULE WorkspaceLease ---------------------------
(***************************************************************************)
(* The workspace write lease of internal/workspacelease/lease.go, for one   *)
(* workspace, together with the way internal/agent and internal/jobs use    *)
(* it: an agent run brackets its life with BeginRun and EndRun, each of its *)
(* mutating tool calls asks for the lease with AcquireWrite, and each       *)
(* background job that it starts retains the lease until the job is done.   *)
(*                                                                          *)
(* A lease is a token of the process plus a lock file, which the operating  *)
(* system releases when the process dies.  A step is what happens under one *)
(* hold of o.mu, one channel operation or one system call.                  *)
(***************************************************************************)
EXTENDS Integers, FiniteSets

CONSTANTS
  Processes,
  Owners,      \* one per Delivery session
  Runs,        \* agent runs: the root agent's turns and its sub-agents'
  Calls,       \* mutating tool calls
  Jobs,        \* background jobs
  ProcessOf,   \* ProcessOf[o]: the process of an owner
  OwnerOf,     \* OwnerOf[r]: the owner that a run shares
  RunOf,       \* RunOf[x]: the run that makes a call or starts a job
  None

ASSUME Structure ==
  /\ IsFiniteSet(Runs) /\ IsFiniteSet(Jobs)
  /\ ProcessOf \in [Owners -> Processes]
  /\ OwnerOf \in [Runs -> Owners]
  /\ RunOf \in [Calls \cup Jobs -> Runs]
  /\ Calls \cap Jobs = {}
  /\ None \notin Owners

OwnerOfCall(c) == OwnerOf[RunOf[c]]

Process(o) == ProcessOf[o]

VARIABLES
  alive,          \* the processes that run
  run,            \* where a run stands
  call,           \* where a mutating tool call stands
  job,            \* where a background job stands
  activeRuns, background, acquired, acquiring, waiting,  \* fields of Owner
  releasing,      \* how far the release function of an owner has come
  token,          \* who holds localLock.token of a process, or None
  lockFile        \* who holds the lock file, or None

vars == <<alive, run, call, job, activeRuns, background, acquired, acquiring,
          waiting, releasing, token, lockFile>>

owner == <<activeRuns, background, acquired, acquiring, waiting, releasing>>

locks == <<token, lockFile>>

RunState == {"idle", "active", "ended"}

\* A leader goes through "token", "file", "retry" and "locked" or "failed"; a
\* follower waits for acquireDone and is woken when it is closed.  A granted
\* call executes its tool, and "wrote" is its end.
CallState == {"idle", "following", "woken", "token", "file", "retry", "locked",
              "failed", "granted", "wrote", "refused"}

Leading == {"token", "file", "retry", "locked", "failed"}

\* A job is a writer when a granted call starts it; "retained" tells whether
\* RetainUntil counted it; at "closed" its done channel is closed and the
\* goroutine of RetainUntil has not yet run.
JobState == [at : {"idle", "running", "closed", "over"}, writer : BOOLEAN, retained : BOOLEAN]

NoJob == [at |-> "idle", writer |-> FALSE, retained |-> FALSE]

Init ==
  /\ alive = Processes
  /\ run = [r \in Runs |-> "idle"]
  /\ call = [c \in Calls |-> "idle"]
  /\ job = [j \in Jobs |-> NoJob]
  /\ activeRuns = [o \in Owners |-> 0]
  /\ background = [o \in Owners |-> 0]
  /\ acquired = [o \in Owners |-> FALSE]
  /\ acquiring = [o \in Owners |-> FALSE]
  /\ waiting = [o \in Owners |-> FALSE]
  /\ releasing = [o \in Owners |-> "no"]
  /\ token = [p \in Processes |-> None]
  /\ lockFile = None

Up(o) == Process(o) \in alive

(***************************************************************************)
(* releaseIfIdleLocked, given the new counts and the lease of o; a caller    *)
(* says before it what becomes of acquiring                                 *)
(***************************************************************************)

\* Mutant of ReleaseIfIdle: background jobs are not looked at.
ReleaseIfIdleForgetsJobs(o, runs, jobs, held) ==
  LET idle == held /\ ~acquiring'[o] /\ runs = 0 IN
    /\ acquired' = [acquired EXCEPT ![o] = held /\ ~idle]
    /\ releasing' = [releasing EXCEPT ![o] = IF idle THEN "file" ELSE @]

ReleaseIfIdle(o, runs, jobs, held) ==
  LET idle == held /\ ~acquiring'[o] /\ runs = 0 /\ jobs = 0 IN
    /\ acquired' = [acquired EXCEPT ![o] = held /\ ~idle]
    /\ releasing' = [releasing EXCEPT ![o] = IF idle THEN "file" ELSE @]

Saturating(n) == IF n > 0 THEN n - 1 ELSE n

(***************************************************************************)
(* Agent runs                                                               *)
(***************************************************************************)

BeginRun(r) ==
  LET o == OwnerOf[r] IN
    /\ run[r] = "idle" /\ Up(o)
    /\ run' = [run EXCEPT ![r] = "active"]
    /\ activeRuns' = [activeRuns EXCEPT ![o] = @ + 1]
    /\ UNCHANGED <<alive, call, job, background, acquired, acquiring, waiting, releasing, locks>>

\* Mutant of EndRun: the idle lease is not released.
EndRunKeepsLease(r) ==
  LET o == OwnerOf[r] IN
    /\ run[r] = "active" /\ Up(o)
    /\ \A c \in Calls : RunOf[c] = r => call[c] \in {"idle", "wrote", "refused"}
    /\ run' = [run EXCEPT ![r] = "ended"]
    /\ activeRuns' = [activeRuns EXCEPT ![o] = Saturating(@)]
    /\ UNCHANGED <<alive, call, job, background, acquired, acquiring, waiting, releasing, locks>>

\* The deferred EndRun of Agent.Run: its tool calls have returned.
EndRun(r) ==
  LET o == OwnerOf[r]
      left == Saturating(activeRuns[o])
  IN
    /\ run[r] = "active" /\ Up(o)
    /\ \A c \in Calls : RunOf[c] = r => call[c] \in {"idle", "wrote", "refused"}
    /\ run' = [run EXCEPT ![r] = "ended"]
    /\ activeRuns' = [activeRuns EXCEPT ![o] = left]
    /\ UNCHANGED acquiring
    /\ ReleaseIfIdle(o, left, background[o], acquired[o])
    /\ UNCHANGED <<alive, call, job, background, waiting, locks>>

(***************************************************************************)
(* AcquireWrite                                                             *)
(***************************************************************************)

\* The head of the loop: the lease is held, or being acquired, or c leads.
Enter(c) ==
  LET o == OwnerOfCall(c) IN
    /\ run[RunOf[c]] = "active" /\ call[c] \in {"idle", "woken"} /\ Up(o)
    /\ call' = [call EXCEPT ![c] = IF acquired[o] THEN "granted"
                                   ELSE IF acquiring[o] THEN "following"
                                   ELSE "token"]
    /\ acquiring' = [acquiring EXCEPT ![o] = @ \/ ~acquired[o]]
    /\ UNCHANGED <<alive, run, job, activeRuns, background, acquired, waiting, releasing, locks>>

\* A follower's context is done, before or after acquireDone is closed.
FollowerCancelled(c) ==
  /\ call[c] \in {"following", "woken"} /\ Up(OwnerOfCall(c))
  /\ call' = [call EXCEPT ![c] = "refused"]
  /\ UNCHANGED <<alive, run, job, owner, locks>>

TakeToken(c) ==
  LET o == OwnerOfCall(c) IN
    /\ call[c] = "token" /\ token[Process(o)] = None /\ Up(o)
    /\ token' = [token EXCEPT ![Process(o)] = o]
    /\ call' = [call EXCEPT ![c] = "file"]
    /\ UNCHANGED <<alive, run, job, owner, lockFile>>

\* notifyWait, when another owner of the process holds the token.
WaitForToken(c) ==
  LET o == OwnerOfCall(c) IN
    /\ call[c] = "token" /\ token[Process(o)] # None /\ Up(o)
    /\ waiting' = [waiting EXCEPT ![o] = TRUE]
    /\ UNCHANGED <<alive, run, call, job, activeRuns, background, acquired, acquiring,
                   releasing, locks>>

TokenCancelled(c) ==
  /\ call[c] = "token" /\ Up(OwnerOfCall(c))
  /\ call' = [call EXCEPT ![c] = "failed"]
  /\ UNCHANGED <<alive, run, job, owner, locks>>

\* tryLockFile
LockFile(c) ==
  LET o == OwnerOfCall(c) IN
    /\ call[c] = "file" /\ lockFile = None /\ Up(o)
    /\ lockFile' = o
    /\ call' = [call EXCEPT ![c] = "locked"]
    /\ UNCHANGED <<alive, run, job, owner, token>>

LockFileHeld(c) ==
  LET o == OwnerOfCall(c) IN
    /\ call[c] = "file" /\ lockFile # None /\ Up(o)
    /\ call' = [call EXCEPT ![c] = "retry"]
    /\ waiting' = [waiting EXCEPT ![o] = TRUE]
    /\ UNCHANGED <<alive, run, job, activeRuns, background, acquired, acquiring,
                   releasing, locks>>

\* The retry timer fires.
Retry(c) ==
  /\ call[c] = "retry" /\ Up(OwnerOfCall(c))
  /\ call' = [call EXCEPT ![c] = "file"]
  /\ UNCHANGED <<alive, run, job, owner, locks>>

\* Mutant of LockFileFails: the token is not given back.
LockFileFailsKeepsToken(c) ==
  /\ call[c] \in {"file", "retry"} /\ Up(OwnerOfCall(c))
  /\ call' = [call EXCEPT ![c] = "failed"]
  /\ UNCHANGED <<alive, run, job, owner, locks>>

\* tryLockFile fails for another reason than errHeld, or the context is done
\* while the call waits for the retry timer.
LockFileFails(c) ==
  LET o == OwnerOfCall(c) IN
    /\ call[c] \in {"file", "retry"} /\ Up(o)
    /\ token' = [token EXCEPT ![Process(o)] = None]
    /\ call' = [call EXCEPT ![c] = "failed"]
    /\ UNCHANGED <<alive, run, job, owner, lockFile>>

\* The leader settles the attempt under o.mu and closes acquireDone.
Settle(c) ==
  LET o == OwnerOfCall(c) IN
    /\ call[c] \in {"locked", "failed"} /\ Up(o)
    /\ acquiring' = [acquiring EXCEPT ![o] = FALSE]
    /\ waiting' = [waiting EXCEPT ![o] = FALSE]
    /\ ReleaseIfIdle(o, activeRuns[o], background[o], acquired[o] \/ call[c] = "locked")
    /\ call' = [d \in Calls |->
                  IF d = c
                  THEN IF call[c] = "locked" THEN "granted" ELSE "refused"
                  ELSE IF OwnerOfCall(d) = o /\ call[d] = "following" THEN "woken"
                  ELSE call[d]]
    /\ UNCHANGED <<alive, run, job, activeRuns, background, locks>>

\* The tool of a granted call returns.
Wrote(c) ==
  /\ call[c] = "granted" /\ Up(OwnerOfCall(c))
  /\ call' = [call EXCEPT ![c] = "wrote"]
  /\ UNCHANGED <<alive, run, job, owner, locks>>

(***************************************************************************)
(* The two parts of the release function, which runs outside o.mu           *)
(***************************************************************************)

ReleaseFile(o) ==
  /\ releasing[o] = "file" /\ Up(o)
  /\ lockFile' = None
  /\ releasing' = [releasing EXCEPT ![o] = "token"]
  /\ UNCHANGED <<alive, run, call, job, activeRuns, background, acquired, acquiring,
                 waiting, token>>

ReleaseToken(o) ==
  /\ releasing[o] = "token" /\ Up(o)
  /\ token' = [token EXCEPT ![Process(o)] = None]
  /\ releasing' = [releasing EXCEPT ![o] = "no"]
  /\ UNCHANGED <<alive, run, call, job, activeRuns, background, acquired, acquiring,
                 waiting, lockFile>>

(***************************************************************************)
(* Background jobs: jobs.Manager calls RetainUntil before the job runs      *)
(***************************************************************************)

StartJob(j, writer) ==
  LET r == RunOf[j]
      o == OwnerOf[r]
  IN
    /\ job[j].at = "idle" /\ run[r] = "active" /\ Up(o)
    /\ writer => \E c \in Calls : RunOf[c] = r /\ call[c] = "granted"
    /\ job' = [job EXCEPT ![j] = [at |-> "running", writer |-> writer,
                                  retained |-> acquired[o]]]
    /\ background' = [background EXCEPT ![o] = IF acquired[o] THEN @ + 1 ELSE @]
    /\ UNCHANGED <<alive, run, call, activeRuns, acquired, acquiring, waiting, releasing, locks>>

\* The job returns or is killed, and its done channel is closed.
JobDone(j) ==
  /\ job[j].at = "running" /\ Up(OwnerOf[RunOf[j]])
  /\ job' = [job EXCEPT ![j].at = IF job[j].retained THEN "closed" ELSE "over"]
  /\ UNCHANGED <<alive, run, call, owner, locks>>

\* The goroutine of RetainUntil.
Unretain(j) ==
  LET o == OwnerOf[RunOf[j]]
      left == Saturating(background[o])
  IN
    /\ job[j].at = "closed" /\ Up(o)
    /\ job' = [job EXCEPT ![j].at = "over"]
    /\ background' = [background EXCEPT ![o] = left]
    /\ UNCHANGED acquiring
    /\ ReleaseIfIdle(o, activeRuns[o], left, acquired[o])
    /\ UNCHANGED <<alive, run, call, activeRuns, waiting, locks>>

(***************************************************************************)
(* The process dies: its memory is gone and the system frees the lock file  *)
(***************************************************************************)
Crash(p) ==
  LET mine == {o \in Owners : Process(o) = p}
      myRuns == {r \in Runs : OwnerOf[r] \in mine}
  IN
    /\ p \in alive
    /\ alive' = alive \ {p}
    /\ run' = [r \in Runs |-> IF r \in myRuns THEN "ended" ELSE run[r]]
    /\ call' = [c \in Calls |-> IF RunOf[c] \in myRuns THEN "refused" ELSE call[c]]
    /\ job' = [j \in Jobs |-> IF RunOf[j] \in myRuns THEN [NoJob EXCEPT !.at = "over"] ELSE job[j]]
    /\ activeRuns' = [o \in Owners |-> IF o \in mine THEN 0 ELSE activeRuns[o]]
    /\ background' = [o \in Owners |-> IF o \in mine THEN 0 ELSE background[o]]
    /\ acquired' = [o \in Owners |-> acquired[o] /\ o \notin mine]
    /\ acquiring' = [o \in Owners |-> acquiring[o] /\ o \notin mine]
    /\ waiting' = [o \in Owners |-> waiting[o] /\ o \notin mine]
    /\ releasing' = [o \in Owners |-> IF o \in mine THEN "no" ELSE releasing[o]]
    /\ token' = [token EXCEPT ![p] = None]
    /\ lockFile' = IF lockFile \in mine THEN None ELSE lockFile

RunStep(r) == BeginRun(r) \/ EndRun(r)

CallStep(c) ==
  \/ Enter(c) \/ FollowerCancelled(c)
  \/ TakeToken(c) \/ WaitForToken(c) \/ TokenCancelled(c)
  \/ LockFile(c) \/ LockFileHeld(c) \/ Retry(c) \/ LockFileFails(c)
  \/ Settle(c) \/ Wrote(c)

JobStep(j) == (\E writer \in BOOLEAN : StartJob(j, writer)) \/ JobDone(j) \/ Unretain(j)

Next ==
  \/ \E r \in Runs : RunStep(r)
  \/ \E c \in Calls : CallStep(c)
  \/ \E j \in Jobs : JobStep(j)
  \/ \E o \in Owners : ReleaseFile(o) \/ ReleaseToken(o)
  \/ \E p \in Processes : Crash(p)

Spec == Init /\ [][Next]_vars

\* What the goroutine of a call does without outside help; one of these at a
\* time, and tryLockFile answers either way.
CallGoesOn(c) ==
  /\ call[c] \in Leading \cup {"woken", "granted"}
  /\ \/ Enter(c)
     \/ TakeToken(c) \/ LockFile(c) \/ LockFileHeld(c) \/ Retry(c)
     \/ Settle(c) \/ Wrote(c)

(***************************************************************************)
(* Goroutines are scheduled, tools return and jobs end, and so do the runs  *)
(* that wait for them.  Nothing forces a run or a call to begin, a context  *)
(* to be cancelled, a system call to fail or a process to die.  A leader    *)
(* needs no strong fairness to get the token or the lock file, since only   *)
(* finitely many runs can hold them before it.                              *)
(***************************************************************************)
Fairness ==
  /\ \A r \in Runs : WF_vars(EndRun(r))
  /\ \A c \in Calls : WF_vars(CallGoesOn(c))
  /\ \A j \in Jobs : WF_vars(JobDone(j) \/ Unretain(j))
  /\ \A o \in Owners : WF_vars(ReleaseFile(o) \/ ReleaseToken(o))

FairSpec == Spec /\ Fairness

(***************************************************************************)
(* Properties                                                               *)
(***************************************************************************)

\* The variables hold values of their types.
TypeOK ==
  /\ alive \subseteq Processes
  /\ run \in [Runs -> RunState]
  /\ call \in [Calls -> CallState]
  /\ job \in [Jobs -> JobState]
  /\ activeRuns \in [Owners -> 0 .. Cardinality(Runs)]
  /\ background \in [Owners -> 0 .. Cardinality(Jobs)]
  /\ acquired \in [Owners -> BOOLEAN]
  /\ acquiring \in [Owners -> BOOLEAN]
  /\ waiting \in [Owners -> BOOLEAN]
  /\ releasing \in [Owners -> {"no", "file", "token"}]
  /\ token \in [Processes -> Owners \cup {None}]
  /\ lockFile \in Owners \cup {None}

\* The owners whose tools or background jobs may be writing right now.
Writing ==
  {OwnerOfCall(c) : c \in {d \in Calls : call[d] = "granted"}}
    \cup {OwnerOf[RunOf[j]] : j \in {k \in Jobs : job[k].at = "running" /\ job[k].writer}}

\* Writers of two sessions, in one process or in two, never overlap.
OneWritingSession == \A o, p \in Writing : o = p

\* The promise of the package comment: from the first mutation of a run until
\* the run and the background writers it started are over, the session holds
\* both locks, so no other session can change the workspace under its review.
HeldFromFirstMutation ==
  \A r \in Runs :
    \/ run[r] = "active" /\ \E c \in Calls : RunOf[c] = r /\ call[c] \in {"granted", "wrote"}
    \/ \E j \in Jobs : RunOf[j] = r /\ job[j].at = "running" /\ job[j].writer
    => LET o == OwnerOf[r] IN
         acquired[o] /\ token[Process(o)] = o /\ lockFile = o

\* No path of AcquireWrite, cancelled or failed ones included, leaves a lock
\* behind: each lock is accounted for by a lease, by a leader that is still at
\* work, or by a release that is under way.
NoOrphanedLock ==
  /\ \A p \in Processes : token[p] # None =>
       LET o == token[p] IN
         \/ acquired[o] \/ releasing[o] # "no"
         \/ \E c \in Calls : OwnerOfCall(c) = o /\ call[c] \in {"file", "retry", "locked"}
  /\ lockFile # None =>
       \/ acquired[lockFile] \/ releasing[lockFile] = "file"
       \/ \E c \in Calls : OwnerOfCall(c) = lockFile /\ call[c] = "locked"

\* Every request for the lease is answered, although its leader may be
\* cancelled, other sessions may hold the lock, and their processes may die:
\* from some point on none of the requests that were made is outstanding.
EveryRequestSettles == <>[](\A c \in Calls : call[c] \in {"idle", "wrote", "refused"})

\* The sessions implement the abstract lock, whose holder gives it back.
Lock == INSTANCE WriterLock WITH
  holder <- IF \E o \in Owners : acquired[o]
            THEN CHOOSE o \in Owners : acquired[o]
            ELSE None

ImplementsLock == Lock!Spec

=============================================================================
