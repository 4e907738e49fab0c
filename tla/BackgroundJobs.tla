--------------------------- MODULE BackgroundJobs ---------------------------
(***************************************************************************)
(* The background-job manager of one process (internal/jobs/jobs.go), the  *)
(* turns that start jobs and review what they changed                      *)
(* (internal/agent/agent.go, run_loop.go), the callers that destroy a      *)
(* session (internal/control, internal/serve, desktop), and what survives  *)
(* a crash of the process: the metadata file of each job and the           *)
(* cleanup-pending marker of each session.                                 *)
(*                                                                         *)
(* A job is named by its key (session, id); m.seq and its advance to the   *)
(* largest persisted id make every key new, so each member of Jobs is      *)
(* started at most once.  Its run goroutine is the program counter pc[j].  *)
(***************************************************************************)
EXTENDS Naturals, FiniteSets

CONSTANTS Jobs,        \* job keys
          Sessions,    \* parent sessions
          SessionOf,   \* the session in the key of each job
          NoSession,   \* no parent session: a job not yet started, no turn
          MaxCrashes   \* bound on the crashes of one behaviour

ASSUME SessionAssumption == NoSession \notin Sessions
ASSUME KeyAssumption == SessionOf \in [Jobs -> Sessions]
ASSUME CrashAssumption == MaxCrashes \in Nat

VARIABLES
  table,      \* the jobs in m.jobs
  home,       \* j.SessionID, and the parentSession its goroutine captured
  status,     \* j.status
  pc,         \* where the run goroutine of the job is
  cancelled,  \* the jobs whose context is cancelled
  doomed,     \* flipped to Killed by someone who has not yet called j.cancel
  verdict,    \* the local st of the run goroutine
  completed,  \* the jobs with a note in m.completed
  receipts,   \* the jobs with mutation receipts in j.evidence
  committed,  \* j.evidenceCommitted
  active,     \* m.active, the session of the controller
  loaded,     \* m.loaded
  destroying, \* m.destroying
  teardown,   \* what the caller that destroys a session does with its handle
  closing,    \* CloseWithGrace: "open", "cancelled" (m.cancel called), "closed"
  turn,       \* the turn of the controller and its evidence ledger
  meta,       \* on disk: the status in the metadata file, "none" without one
  saved,      \* on disk: the jobs whose metadata has a mutation summary
  marker,     \* on disk: the sessions marked cleanup-pending
  deleted,    \* on disk: the sessions whose files are removed
  mutated,    \* in the workspace: the jobs that have changed files
  reviewed,   \* the jobs whose changes a delivered turn has accounted for
  crashes     \* the number of crashes so far

memory  == <<table, home, status, pc, cancelled, doomed, verdict>>
ledger  == <<receipts, committed, turn>>
manager == <<completed, active, loaded, destroying, teardown, closing>>
durable == <<meta, saved, marker, deleted>>
world   == <<mutated, reviewed, crashes>>
vars    == <<memory, ledger, manager, durable, world>>

Terminal == {"done", "failed", "killed", "interrupted"}
Statuses == {"none", "running"} \union Terminal
Verdicts == {"none", "done", "failed", "killed"}

\* The program counters of a goroutine whose done channel is still open.
Unfinished == {"registered", "running", "returned", "judged", "flushed",
               "noted", "published"}
PCs == {"unborn", "exited", "gone"} \union Unfinished

\* The caller's progress through SessionDestroyHandle, and which caller it is:
\* the serve frontend finishes a prompt teardown before it removes the files,
\* the others after.
Phases == {"idle", "begun", "unwound", "overdue", "drained", "removed", "finished"}
Callers == {"clear", "delete", "serve"}
NoTeardown == [phase |-> "idle", caller |-> "clear", targets |-> {}]

NoTurn == [phase |-> "idle", session |-> NoSession, plan |-> FALSE,
           leased |-> {}, merged |-> {}]

OwnedBy(s) == {j \in table : home[j] = s}
Open(j) == pc[j] \in Unfinished

\* The goroutine has more to do than close(j.done).
Working(j) == pc[j] \in Unfinished \ {"published"}

Init ==
  /\ table = {} /\ completed = {} /\ receipts = {} /\ committed = {}
  /\ cancelled = {} /\ doomed = {} /\ loaded = {} /\ destroying = {}
  /\ home = [j \in Jobs |-> NoSession]
  /\ status = [j \in Jobs |-> "none"]
  /\ verdict = [j \in Jobs |-> "none"]
  /\ pc = [j \in Jobs |-> "unborn"]
  /\ teardown = [s \in Sessions |-> NoTeardown]
  /\ closing = "open"
  /\ active = NoSession
  /\ turn = NoTurn
  /\ meta = [j \in Jobs |-> "none"]
  /\ saved = {} /\ marker = {} /\ deleted = {} /\ mutated = {} /\ reviewed = {}
  /\ crashes = 0

-----------------------------------------------------------------------------
(***************************************************************************)
(* The life of a job.                                                      *)
(***************************************************************************)

\* StartForSession under m.mu: a tool call of the running turn registers it.
Register(j) ==
  /\ turn.phase = "running" /\ turn.session = SessionOf[j] /\ pc[j] = "unborn"
  /\ table' = table \union {j}
  /\ home' = [home EXCEPT ![j] = turn.session]
  /\ status' = [status EXCEPT ![j] = "running"]
  /\ pc' = [pc EXCEPT ![j] = "registered"]
  \* its context is a child of the manager's root context
  /\ cancelled' = IF closing = "open" THEN cancelled ELSE cancelled \union {j}
  /\ UNCHANGED <<doomed, verdict, ledger, manager, durable, world>>

\* The metadata file says Running before the goroutine starts; a file that
\* cannot be written does not stop the job.
Launch(j) ==
  /\ pc[j] = "registered"
  /\ pc' = [pc EXCEPT ![j] = "running"]
  /\ \/ meta' = [meta EXCEPT ![j] = "running"]
     \/ UNCHANGED meta
  /\ UNCHANGED <<table, home, status, cancelled, doomed, verdict, ledger,
                 manager, saved, marker, deleted, world>>

\* The job's run changes a file of the workspace.
Mutate(j) ==
  /\ pc[j] = "running" /\ mutated' = mutated \union {j}
  /\ UNCHANGED <<memory, ledger, manager, durable, reviewed, crashes>>

\* run returns: its deferred PublishEvidence hands the receipts to the job.
Return(j) ==
  /\ pc[j] = "running"
  /\ receipts' = receipts \union (mutated \intersect {j})
  /\ pc' = [pc EXCEPT ![j] = "returned"]
  /\ UNCHANGED <<table, home, status, cancelled, doomed, verdict, committed,
                 turn, manager, durable, world>>

\* ctx.Err, then the error of run, decide the terminal status.
Judge(j) ==
  /\ pc[j] = "returned"
  /\ \E st \in IF j \in cancelled THEN {"killed"} ELSE {"done", "failed"} :
       verdict' = [verdict EXCEPT ![j] = st]
  /\ pc' = [pc EXCEPT ![j] = "judged"]
  /\ UNCHANGED <<table, home, status, cancelled, doomed, ledger, manager,
                 durable, world>>

\* Mutant of Flush: the receipts are not written.
FlushWithoutReceipts(j) ==
  /\ pc[j] = "judged"
  /\ pc' = [pc EXCEPT ![j] = "flushed"]
  /\ meta' = [meta EXCEPT ![j] = verdict[j]]
  /\ UNCHANGED <<table, home, status, cancelled, doomed, verdict, ledger,
                 manager, saved, marker, deleted, world>>

\* The terminal metadata, with the receipts, goes to disk, or the write fails.
Flush(j) ==
  /\ pc[j] = "judged"
  /\ pc' = [pc EXCEPT ![j] = "flushed"]
  /\ \/ /\ meta' = [meta EXCEPT ![j] = verdict[j]]
        /\ saved' = saved \union ({j} \intersect receipts)
     \/ UNCHANGED <<meta, saved>>
  /\ UNCHANGED <<table, home, status, cancelled, doomed, verdict, ledger,
                 manager, marker, deleted, world>>

\* Mutant of RecordCompletion: it does not ask whether the session is destroyed.
RecordCompletionAlways(j) ==
  /\ pc[j] = "flushed"
  /\ pc' = [pc EXCEPT ![j] = "noted"]
  /\ completed' = completed \union {j}
  /\ UNCHANGED <<table, home, status, cancelled, doomed, verdict, ledger, active,
                 loaded, destroying, teardown, closing, durable, world>>

\* recordCompletion: a session being destroyed gets no note.
RecordCompletion(j) ==
  /\ pc[j] = "flushed"
  /\ pc' = [pc EXCEPT ![j] = "noted"]
  /\ completed' = IF home[j] \in destroying THEN completed ELSE completed \union {j}
  /\ UNCHANGED <<table, home, status, cancelled, doomed, verdict, ledger,
                 active, loaded, destroying, teardown, closing, durable, world>>

\* The terminal status is published, unless a Kill published Killed already.
Publish(j) ==
  /\ pc[j] = "noted"
  /\ pc' = [pc EXCEPT ![j] = "published"]
  /\ status' = [status EXCEPT ![j] = IF @ = "killed" THEN @ ELSE verdict[j]]
  /\ UNCHANGED <<table, home, cancelled, doomed, verdict, ledger, manager,
                 durable, world>>

\* close(j.done).
CloseDone(j) ==
  /\ pc[j] = "published"
  /\ pc' = [pc EXCEPT ![j] = "exited"]
  /\ UNCHANGED <<table, home, status, cancelled, doomed, verdict, ledger,
                 manager, durable, world>>

\* KillForSession flips the status at once ...
Kill(j) ==
  /\ j \in table /\ status[j] = "running"
  /\ status' = [status EXCEPT ![j] = "killed"]
  /\ doomed' = doomed \union {j}
  /\ UNCHANGED <<table, home, pc, cancelled, verdict, ledger, manager, durable, world>>

\* ... and calls j.cancel after it has released j.mu; so does BeginDestroySession.
Cancel(j) ==
  /\ j \in doomed
  /\ doomed' = doomed \ {j} /\ cancelled' = cancelled \union {j}
  /\ UNCHANGED <<table, home, status, pc, verdict, ledger, manager, durable, world>>

-----------------------------------------------------------------------------
(***************************************************************************)
(* Destroying a session.                                                   *)
(***************************************************************************)

\* Mutant of Targets: a job killed earlier is taken to have unwound.
TargetsRunning(s) == {j \in OwnedBy(s) : status[j] = "running"}

\* The running jobs are flipped and the running and the killed ones are the
\* targets of the handle.  No turn of the session is running: ClearSession
\* holds the rotation gate, serve refuses the active session, the desktop
\* stops the runtime first.  ClearSession marks the cleanup pending up front
\* when it will have to wait.
Targets(s) == {j \in OwnedBy(s) : status[j] \in {"running", "killed"}}

\* Mutant of BeginDestroySession: the jobs are flipped and not cancelled.
BeginDestroyOnlyFlips(s, caller) ==
  /\ teardown[s].phase = "idle" /\ s \notin deleted
  /\ turn.session # s /\ (caller = "serve" => active # s)
  /\ destroying' = destroying \union {s}
  /\ completed' = {j \in completed : home[j] # s}
  /\ teardown' = [teardown EXCEPT ![s] =
                    [phase |-> "begun", caller |-> caller, targets |-> Targets(s)]]
  /\ status' = [j \in Jobs |-> IF j \in OwnedBy(s) /\ status[j] = "running"
                               THEN "killed" ELSE status[j]]
  /\ UNCHANGED <<table, home, pc, cancelled, doomed, verdict, ledger, active,
                 loaded, closing, durable, world>>

BeginDestroySession(s, caller) ==
  /\ teardown[s].phase = "idle" /\ s \notin deleted
  /\ turn.session # s /\ (caller = "serve" => active # s)
  /\ destroying' = destroying \union {s}
  /\ completed' = {j \in completed : home[j] # s}
  /\ teardown' = [teardown EXCEPT ![s] =
                    [phase |-> "begun", caller |-> caller, targets |-> Targets(s)]]
  /\ status' = [j \in Jobs |-> IF j \in OwnedBy(s) /\ status[j] = "running"
                               THEN "killed" ELSE status[j]]
  /\ doomed' = doomed \union {j \in OwnedBy(s) : status[j] = "running"}
  /\ marker' = IF caller = "clear" /\ \E j \in OwnedBy(s) : Open(j)
               THEN marker \union {s} ELSE marker
  /\ UNCHANGED <<table, home, pc, cancelled, verdict, ledger, active, loaded, closing,
                 meta, saved, deleted, world>>

AllDone(s) == \A j \in teardown[s].targets : ~Open(j)

\* WaitTeardown returns: every target has unwound ...
Unwound(s) ==
  /\ teardown[s].phase = "begun" /\ AllDone(s)
  /\ teardown' = [teardown EXCEPT ![s].phase = "unwound"]
  /\ UNCHANGED <<memory, ledger, completed, active, loaded, destroying, closing, durable, world>>

\* ... or the grace has passed; the caller marks the cleanup pending.
Overdue(s) ==
  /\ teardown[s].phase = "begun" /\ ~AllDone(s)
  /\ teardown' = [teardown EXCEPT ![s].phase = "overdue"]
  /\ marker' = marker \union {s}
  /\ UNCHANGED <<memory, ledger, completed, active, loaded, destroying, closing,
                 meta, saved, deleted, world>>

\* WaitAll returns.
Drained(s) ==
  /\ teardown[s].phase = "overdue" /\ AllDone(s)
  /\ teardown' = [teardown EXCEPT ![s].phase = "drained"]
  /\ UNCHANGED <<memory, ledger, completed, active, loaded, destroying, closing, durable, world>>

FinishesFirst(s) == teardown[s].phase = "unwound" /\ teardown[s].caller = "serve"

\* The session's files, job artifacts and marker are removed.
RemoveArtifacts(s) ==
  /\ teardown[s].phase \in {"unwound", "drained", "finished"} /\ ~FinishesFirst(s)
  /\ teardown' = [teardown EXCEPT ![s] =
                    IF @.phase = "finished" THEN NoTeardown ELSE [@ EXCEPT !.phase = "removed"]]
  /\ meta' = [j \in Jobs |-> IF home[j] = s THEN "none" ELSE meta[j]]
  /\ saved' = {j \in saved : home[j] # s}
  /\ marker' = marker \ {s} /\ deleted' = deleted \union {s}
  /\ UNCHANGED <<memory, ledger, completed, active, loaded, destroying, closing, world>>

\* FinishDestroySession ends the window and purges the session's jobs.
FinishDestroySession(s) ==
  /\ teardown[s].phase = "removed" \/ FinishesFirst(s)
  /\ teardown' = [teardown EXCEPT ![s] =
                    IF @.phase = "removed" THEN NoTeardown ELSE [@ EXCEPT !.phase = "finished"]]
  /\ destroying' = destroying \ {s}
  /\ loaded' = loaded \ {s}
  /\ table' = table \ OwnedBy(s)
  /\ UNCHANGED <<home, status, pc, cancelled, doomed, verdict, ledger, completed,
                 active, closing, durable, world>>

-----------------------------------------------------------------------------
(***************************************************************************)
(* Closing the manager.                                                    *)
(***************************************************************************)

\* CloseWithGrace cancels the root context of every job ...
CancelRoot ==
  /\ closing = "open" /\ turn = NoTurn
  /\ closing' = "cancelled"
  /\ cancelled' = cancelled \union {j \in Jobs : Open(j)}
  /\ UNCHANGED <<table, home, status, pc, doomed, verdict, ledger, completed,
                 active, loaded, destroying, teardown, durable, world>>

\* ... and closeTargets flips the running ones.
CloseTargets ==
  /\ closing = "cancelled" /\ closing' = "closed"
  /\ status' = [j \in Jobs |-> IF j \in table /\ status[j] = "running" /\ Open(j)
                               THEN "killed" ELSE status[j]]
  /\ UNCHANGED <<table, home, pc, cancelled, doomed, verdict, ledger, completed,
                 active, loaded, destroying, teardown, durable, world>>

-----------------------------------------------------------------------------
(***************************************************************************)
(* Turns and the evidence they collect.                                    *)
(***************************************************************************)

\* A turn of the active session is composed: the notes of the session ride it.
BeginTurn(plan) ==
  /\ turn = NoTurn /\ closing = "open"
  /\ active \in Sessions \ deleted /\ teardown[active].phase = "idle"
  /\ turn' = [NoTurn EXCEPT !.phase = "composed", !.session = active, !.plan = plan]
  /\ completed' = {j \in completed : home[j] # active}
  /\ UNCHANGED <<memory, receipts, committed, active, loaded, destroying,
                 teardown, closing, durable, world>>

\* Mutant of Ready: a terminal status is taken for a closed done channel.
ReadyWhenTerminal(j) == j \in OwnedBy(turn.session) /\ status[j] # "running"

\* TryLeaseEvidenceForSession is ready once done is closed.
Ready(j) == j \in OwnedBy(turn.session) /\ ~Open(j)

\* A leased job is noted in the ledger and its receipts are merged into it.
Leasing(js) == [turn EXCEPT !.leased = @ \union js, !.merged = @ \union (js \intersect receipts)]

\* beginRunTurn re-leases what no delivered turn has committed; a plan turn
\* leaves it to a later one.
LeasePending ==
  /\ turn.phase = "composed"
  /\ LET pending == {j \in receipts \ committed : Ready(j)}
         leasing == Leasing(IF turn.plan THEN {} ELSE pending)
     IN  turn' = [leasing EXCEPT !.phase = "running"]
  /\ UNCHANGED <<memory, receipts, committed, manager, durable, world>>

\* wait and bash_output collect from a job they have seen not running.
Collect(j) ==
  /\ turn.phase = "running" /\ ~turn.plan
  /\ status[j] # "running" /\ Ready(j)
  /\ turn' = Leasing({j})
  /\ UNCHANGED <<memory, receipts, committed, manager, durable, world>>

\* The tool calls of a turn return before it ends.
ToolsReturned == \A j \in Jobs : pc[j] # "registered"

\* The turn is cancelled or fails; its ledger goes with it.
TurnFails ==
  /\ turn.phase \in {"composed", "running"} /\ ToolsReturned
  /\ turn' = NoTurn
  /\ UNCHANGED <<memory, receipts, committed, manager, durable, world>>

\* The turn passes its delivery gates with the merged mutations in its ledger.
TurnDelivers ==
  /\ turn.phase = "running" /\ ToolsReturned
  /\ turn' = [turn EXCEPT !.phase = "delivered"]
  /\ reviewed' = reviewed \union turn.merged
  /\ UNCHANGED <<memory, receipts, committed, manager, durable, mutated, crashes>>

\* CommitEvidenceForSession: the receipts are consumed, in memory and, if the
\* rewrite succeeds, on disk.
CommitEvidence(j) ==
  /\ turn.phase = "delivered" /\ j \in turn.leased
  /\ turn' = [turn EXCEPT !.leased = @ \ {j}]
  /\ IF Ready(j) /\ j \notin committed
     THEN /\ committed' = committed \union {j}
          /\ receipts' = receipts \ {j}
          /\ \/ /\ j \in receipts
                /\ meta' = [meta EXCEPT ![j] = status[j]] /\ saved' = saved \ {j}
             \/ UNCHANGED <<meta, saved>>
     ELSE UNCHANGED <<committed, receipts, meta, saved>>
  /\ UNCHANGED <<memory, manager, marker, deleted, world>>

EndTurn ==
  /\ turn.phase = "delivered" /\ turn.leased = {}
  /\ turn' = NoTurn
  /\ UNCHANGED <<memory, receipts, committed, manager, durable, world>>

-----------------------------------------------------------------------------
(***************************************************************************)
(* Binding a session, and what a crash leaves of it.                       *)
(***************************************************************************)

\* The records of a session written by a manager that is gone, those among
\* them that say Running, and the Running ones of this very manager.
Foreign(s) == {j \in Jobs : home[j] = s /\ pc[j] = "gone" /\ meta[j] # "none"}
Stale(s)   == {j \in Foreign(s) : meta[j] = "running"}
Own(s)     == {j \in Jobs : home[j] = s /\ pc[j] # "gone" /\ meta[j] = "running"}

\* SetActiveSessionPath at boot or in a rotation, and loadSessionArtifacts: a
\* stale record is repaired to Interrupted by the owner of the transcript if
\* the repair can be written; a record left alone keeps the session unloaded.
SetActiveSessionPath(s) ==
  /\ turn = NoTurn /\ closing = "open"
  /\ s \notin deleted \union marker /\ teardown[s].phase = "idle"
  /\ active' = s
  /\ IF s \in loaded
     THEN UNCHANGED <<table, status, pc, receipts, loaded, meta>>
     ELSE \E repaired \in SUBSET Stale(s) :
            LET restored == (Foreign(s) \ Stale(s)) \union repaired
            IN  /\ meta' = [j \in Jobs |-> IF j \in repaired
                                           THEN "interrupted" ELSE meta[j]]
                /\ table' = table \union restored
                /\ status' = [j \in Jobs |-> IF j \in restored THEN meta'[j] ELSE status[j]]
                /\ pc' = [j \in Jobs |-> IF j \in restored THEN "exited" ELSE pc[j]]
                /\ receipts' = receipts \union (restored \intersect saved)
                /\ loaded' = IF Own(s) = {} /\ repaired = Stale(s) THEN loaded \union {s} ELSE loaded
  /\ UNCHANGED <<home, cancelled, doomed, verdict, committed, turn, completed,
                 destroying, teardown, closing, saved, marker, deleted,
                 world>>

\* ReconcileCleanupPending removes the marked sessions of an earlier process.
ReconcileCleanupPending(s) ==
  /\ s \in marker /\ teardown[s].phase = "idle"
  /\ meta' = [j \in Jobs |-> IF home[j] = s THEN "none" ELSE meta[j]]
  /\ saved' = {j \in saved : home[j] # s}
  /\ marker' = marker \ {s} /\ deleted' = deleted \union {s}
  /\ UNCHANGED <<memory, ledger, manager, world>>

\* The process dies and another starts.
Crash ==
  /\ crashes < MaxCrashes /\ crashes' = crashes + 1
  /\ pc' = [j \in Jobs |-> IF pc[j] = "unborn" THEN "unborn" ELSE "gone"]
  /\ status' = [j \in Jobs |-> "none"]
  /\ verdict' = [j \in Jobs |-> "none"]
  /\ table' = {} /\ completed' = {} /\ receipts' = {} /\ committed' = {}
  /\ cancelled' = {} /\ doomed' = {} /\ loaded' = {} /\ destroying' = {}
  /\ teardown' = [s \in Sessions |-> NoTeardown]
  /\ closing' = "open" /\ active' = NoSession /\ turn' = NoTurn
  /\ UNCHANGED <<home, durable, mutated, reviewed>>

-----------------------------------------------------------------------------
Goroutine(j) ==
  \/ Launch(j) \/ Mutate(j) \/ Return(j) \/ Judge(j) \/ Flush(j)
  \/ RecordCompletion(j) \/ Publish(j) \/ CloseDone(j)

TurnStep ==
  \/ \E plan \in BOOLEAN : BeginTurn(plan)
  \/ LeasePending \/ TurnFails \/ TurnDelivers \/ EndTurn
  \/ \E j \in Jobs : Register(j) \/ Collect(j) \/ CommitEvidence(j)

SessionStep(s) ==
  \/ \E caller \in Callers : BeginDestroySession(s, caller)
  \/ Unwound(s) \/ Overdue(s) \/ Drained(s)
  \/ RemoveArtifacts(s) \/ FinishDestroySession(s)
  \/ SetActiveSessionPath(s) \/ ReconcileCleanupPending(s)

Next ==
  \/ \E j \in Jobs : Goroutine(j) \/ Kill(j) \/ Cancel(j)
  \/ TurnStep
  \/ \E s \in Sessions : SessionStep(s)
  \/ CancelRoot \/ CloseTargets \/ Crash

Spec == Init /\ [][Next]_vars

\* What a goroutine does, and the callers of a teardown, without outside help.
GoesOn(j) ==
  /\ Open(j)
  /\ \/ Launch(j) \/ (j \in cancelled /\ Return(j)) \/ Judge(j) \/ Flush(j)
     \/ RecordCompletion(j) \/ Publish(j) \/ CloseDone(j)

CarriedThrough(s) ==
  /\ s \in destroying \union marker \/ teardown[s].phase # "idle"
  /\ \/ Unwound(s) \/ Drained(s) \/ RemoveArtifacts(s) \/ FinishDestroySession(s)
     \/ ReconcileCleanupPending(s)

\* The goroutines run.  A run returns once its context is cancelled (a shell
\* by cmd.WaitDelay, a task by its context), and no sooner is promised.  The
\* callers of a teardown carry it through.  Turns, kills and destroys are the
\* user's.
Fairness ==
  /\ \A j \in Jobs : WF_vars(GoesOn(j)) /\ WF_vars(Cancel(j))
  /\ \A s \in Sessions : WF_vars(CarriedThrough(s))

FairSpec == Spec /\ Fairness

-----------------------------------------------------------------------------
\* Every variable has its type.
TypeOK ==
  /\ table \subseteq Jobs /\ completed \subseteq Jobs
  /\ cancelled \subseteq Jobs /\ doomed \subseteq Jobs
  /\ receipts \subseteq Jobs /\ committed \subseteq Jobs
  /\ mutated \subseteq Jobs /\ reviewed \subseteq Jobs
  /\ home \in [Jobs -> Sessions \union {NoSession}]
  /\ status \in [Jobs -> Statuses] /\ verdict \in [Jobs -> Verdicts]
  /\ pc \in [Jobs -> PCs]
  /\ loaded \subseteq Sessions /\ destroying \subseteq Sessions
  /\ marker \subseteq Sessions /\ deleted \subseteq Sessions
  /\ teardown \in [Sessions -> [phase : Phases, caller : Callers, targets : SUBSET Jobs]]
  /\ closing \in {"open", "cancelled", "closed"}
  /\ active \in Sessions \union {NoSession}
  /\ turn \in [phase : {"idle", "composed", "running", "delivered"},
               session : Sessions \union {NoSession}, plan : BOOLEAN,
               leased : SUBSET Jobs, merged : SUBSET Jobs]
  /\ meta \in [Jobs -> Statuses] /\ saved \subseteq Jobs
  /\ crashes \in 0 .. MaxCrashes

\* The evidence of a job that changed files is consumed only after a turn
\* that had it in its ledger has been delivered (CommitEvidenceForSession).  A
\* job a crash interrupted has lost it already: see UnreviewedSurvivesRestart.
CommittedMeansReviewed ==
  \A j \in committed \intersect mutated : status[j] # "interrupted" => j \in reviewed

\* A background change no delivered turn has reviewed stays pending on its
\* job, over failed turns, late kills and, if its terminal metadata reached
\* the disk, over crashes (PendingEvidenceJobIDsForSession).
UnreviewedStaysPending ==
  \A j \in (table \intersect mutated) \ reviewed :
    ~Open(j) /\ status[j] # "interrupted" => j \in receipts

\* The files of a session are gone for good: no job of it is left that could
\* write them again (WaitTeardown before the removal), and none has.  A job
\* found Done or Failed is no target of the teardown although its done channel
\* may still be open, so the strongest thing to say is that it does not work.
RemovedStaysRemoved ==
  \A j \in Jobs : home[j] \in deleted => ~Working(j) /\ meta[j] = "none"

\* A note names a job of a session that is neither being destroyed nor gone
\* (BeginDestroySession drops the notes, recordCompletion adds none).
NotesOfLivingSessions ==
  \A j \in completed : home[j] \notin destroying \union deleted

\* A job leaves the table only in a crash or when its goroutine has no work
\* left: purgeSessionLocked forgets none that HasUnfinishedForSession and
\* KillForSession should still find.
PurgesOnlySettled ==
  [][\A j \in table \ table' : crashes' = crashes => ~Working(j)]_vars

\* A destroy that was begun comes to its end: its window closes, however late
\* its jobs unwind, and the removal promised by a cleanup-pending marker is
\* done, by the next process if this one dies (BeginDestroySession,
\* ReconcileCleanupPending).
DestroyEnds ==
  \A s \in Sessions :
    s \in destroying \union marker ~> s \notin destroying \union marker

-----------------------------------------------------------------------------
(***************************************************************************)
(* What the comments of the code claim beyond that.                        *)
(***************************************************************************)

\* jobs.go:496-501, "Recording first makes an observed terminal status imply
\* the note is already queued."
TerminalImpliesNoted ==
  \A j \in table : status[j] \in Terminal => pc[j] \in {"noted", "published", "exited"}

\* jobs.go:946-949, the goroutine of a killed job "still sets Killed" on
\* return, and "a job that just finished keeps its real terminal status".
KilledMeansKilled ==
  \A j \in table : status[j] = "killed" /\ pc[j] = "published" => verdict[j] = "killed"

\* jobs.go:1971-1977, a background change is still pending when "the process
\* restarted before any turn collected it at all".
UnreviewedSurvivesRestart ==
  \A j \in (table \intersect mutated) \ reviewed : ~Open(j) => j \in receipts

=============================================================================
