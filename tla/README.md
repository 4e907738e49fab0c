# Reasonix: TLA+ models, model checking and proofs

Reasonix is an AI coding agent written in Go. One `control.Controller` per
session stands behind every frontend (terminal UI, HTTP server, desktop shell,
ACP, chat bots, remote workbench). It runs turns of an `agent.Agent`, which
calls a model provider and executes tools; sub-agents, background jobs, other
processes on the same machine and remote clients act at the same time. The
models here are about that concurrency: who may run, who may write, what is
durable, and what the next turn or the next process gets to see.

## 1. Inventory

| Component | Source | State | Operations | Hard parts |
|---|---|---|---|---|
| Sub-agent scheduler | `internal/agent/scheduler.go`, `write_claims.go` | active counts, claims of sub-agents and of the parent agent, queue of waiters | `Acquire`, release, `ReserveParentWrite` and its release | cancellation racing activation; nested calls against the slot of their own parent; a claim that outlives or misses its holder |
| Workspace lease | `internal/workspacelease/lease.go` | per owner: active runs, background holds, the acquiring goroutine; per workspace: a process-local token and an OS file lock | `BeginRun`, `EndRun`, `AcquireWrite`, `RetainUntil` | two owners, two processes, cancellation while waiting, release outside the mutex, process death |
| File lock | `internal/filelock/filelock.go` | process-local token, OS lock | `Acquire`, release | as above |
| Background jobs | `internal/jobs/jobs.go` | job table, pending completion notes, destroying sessions, reservations, evidence leases | `Start`, finish, `Kill*`, `Wait`, `DrainCompletedNote*`, `BeginDestroySession` ... `FinishDestroySession`, `CloseWithGrace` | a kill racing the natural end; notes and jobs of a session being destroyed; evidence folded once |
| Job artifacts | `internal/jobs/artifacts.go`, `jobs.go` | result and meta files per job, owner of each session directory | save, adopt, migrate, load after a restart | a crash between the writes; a live owner elsewhere; jobs that outlive a rebind |
| Session leases and store | `internal/agent/session_lease.go`, `session_removal.go`, `session.go`, `save.go` | lease files, transcripts, revision digests, removal markers | acquire, renew, release a lease; save, append, delete | stale leases, two writers of a transcript, removal racing a save |
| Agent turn | `internal/agent/run_loop.go`, `execute_one.go`, `agent.go`, `compact.go`, `interrupted_recovery.go` | messages, pending tool calls, steers, budgets; the in-flight marker of the session | model call, tool batch, steer, compact, cancel, clean up, repair | results of parallel tools; cancellation in the middle of a batch; a steer racing the last answer; positions kept across a compaction; a crash in a turn |
| Parallel tasks and fleet | `internal/agent/parallel_tasks.go`, `fleet.go`, `subagent_store.go` | task results, cached sub-agent runs | run a batch, collect, resume | partial failure |
| Controller | `internal/control/controller.go`, `approval.go`, `goal.go`, `turn_orchestrator.go`, `session_lease_keeper.go`, `planner_gate.go` | running turn, approvals asked, queue of inputs, goal state | submit, steer, approve, cancel, rotate, close | an approval answered twice or after a cancel; a turn ending while input arrives |
| Event fan-out | `internal/event/{event,fanout,sync}.go` | sinks | emit, subscribe | slow or closed sinks |
| Checkpoints | `internal/checkpoint/checkpoint.go`, `internal/control/checkpoint.go` | snapshots of files per turn, their files, the next number, the log's length at each turn | begin, snapshot, rewind, fork, summarize, rebind | numbers reused after a rewind; files torn, unwritten or not removed; boundaries that compaction leaves stale |
| Recovery gate | `internal/recovery/{gate,state,rules}.go` | failures seen, the phase of recovery, evidence | observe, decide | a long legal sequence that ends in a wrong phase |
| Autoresearch store | `internal/autoresearch/store.go` | experiments on disk | claim, record | crash between writes |
| Plugins | `internal/plugin/*.go` | MCP clients, lazily started processes | connect, call, restart | two callers of a lazy start; a dead process |
| RPC connection | `internal/rpcwire/conn.go` | pending calls, handler slots, queue of notifications, whether shut down | request, notify, serve, fail, shut down | a late answer, a closed connection, both ends full |
| Remote broker | `internal/remote/broker/*.go` | desktop and host ends | connect, forward | reconnects |
| Remote workbench | `internal/remote/workbench/**` | sessions, operations, idempotency records, mirror | request, replay, subscribe | retries of a request already executed |
| Bot gateway | `internal/bot/gateway.go` | per-chat queues | message, command | per-chat ordering |
| Self-update and repair | `internal/repair/update.go` | staged and installed versions | stage, swap, roll back | crash between two renames |
| Frontends and the rest | `desktop/`, `workers/`, `site/`, `npm/`, `cmd/`, `internal/cli`, `internal/serve`, `internal/provider`, `internal/tool`, ... | | | rendering, HTTP handlers, provider adapters, file tools |

How they interact. A frontend submits inputs to a controller, which admits them
as turns (`runGuarded`, `runGuardedOrPark`, `RunTurn`). A turn calls the model
and executes tool calls; a tool call may ask the user (`approvalManager`), ask
for the workspace lease before it mutates, start sub-agents through the
scheduler, or start background jobs, whose mutation receipts later turns lease
and commit. The controller holds the lease of its transcript; destroying a
session tears down its jobs, takes the removal guard of the lease and removes
the files, or leaves a marker for the next process. Processes share only files:
lock files, info files, metadata, markers.

What makes each component correct:

- **Scheduler**: the limits count the real holders; no path has two writers, the
  parent agent included; a waiter that could start does not wait; every call ends.
- **Workspace lease**: one session writes at a time, from a run's first mutation
  until its last writer ended, over processes and their deaths.
- **Background jobs**: no change ships unreviewed; a removed session stays
  removed; notes and purges follow the life of the session.
- **Session lease**: one runtime per transcript; probes and repair can trust
  the info file and the registry.
- **Turns**: one at a time; nothing submitted is lost, and no gated change of the
  session comes under a turn or takes a parked input elsewhere; nothing starts
  after Close. (Resume changes the session without the gate, see section 7.)
- **Prompts**: the user's decisions are made by the user; an answer, a timeout,
  a drain and a cancel settle each prompt once; cancel always gets through.
- **Agent turn**: calls keep the model's order around a serial one; no steer that
  was accepted is lost; a Run with a budget ends. The cleanup of a turn that did
  not end well keeps every other turn and every complete round, also after a
  compaction or a crash, and the next prompt is told. (Two cases in which it
  cannot tell the turn are in section 7.)
- **Checkpoints**: a rewind brings back what the files were; a turn's number is
  never that of another; a cut of the log never reaches into an earlier turn.
- **RPC connection**: notifications stay in order; every request returns; `Serve` ends.

## 2. Plan

The modules in the order they were written; all of these exist.

| # | Module | Composes with | Abstract specification | Proofs |
|---|---|---|---|---|
| 1 | `SubagentScheduler` | | | `SubagentSchedulerProofs` |
| 2 | `WorkspaceLease` | | `WriterLock` (`ImplementsLock`) | `WorkspaceLeaseProofs` |
| 3 | `BackgroundJobs` | | | `BackgroundJobsProofs` |
| 4 | `SessionLease` | | `WriterLock` (`ImplementsExclusion`, windows build) | `SessionLeaseProofs` |
| 5 | `TurnGate` | | is one for 6 | `PromptsProofs` |
| 6 | `Prompts` | extends `TurnGate` | `TurnGate` (`IsTurnGate`) | `PromptsProofs` |
| 7 | `Checkpoints` | | is one for 8 | `RewindProofs` |
| 8 | `Rewind` | extends `Checkpoints` with the log | `Checkpoints` (`IsCheckpointStore`) | `RewindProofs` |
| 9 | `AgentTurn` | | | `AgentTurnProofs` |
| 10 | `TurnRecovery` | | | TLC only |
| 11 | `RPCConn` | two ends, bounded pipes | `RemoteCalls` (`ImplementsCalls`) | `RPCConnProofs` |

What the plan has left, in this order: the ledger of idempotent requests of the
remote workbench (`MutationLedger`), the stalled monitor and a second process
beside `BackgroundJobs` (`JobArtifacts`), the lazy start of plugin servers
(`LazyPlugin`), the session store with its conflicting writers and recovery
branches, the recovery gate, the bot gateway, the update. Theorems left: the
cleanup of `TurnRecovery` keeps other turns, which needs the folds it is defined
with replaced by what they return.

## 3. Modules and code

Each `X.tla` is the model, `MCX.tla` gives constants their values,
`MCX*.cfg` are the configurations, `XProofs.tla` holds the theorems (those about
`TurnGate` are in `PromptsProofs`, those about `Checkpoints` in `RewindProofs`). A step is
what happens under one hold of a mutex, one channel operation or one system
call, unless noted. A definition whose comment says "Mutant of" is a plausible
wrong version of the operator after it; the property that `PROJECT.json` pairs it
with fails when it takes that operator's place.

**SubagentScheduler** (`internal/agent/scheduler.go`, `write_claims.go`).
`activeTotal`, `activeWriters`, `activeClaims`, `waiters` are the fields of
`SubagentScheduler`; `state` is where the goroutine of a call is. `AcquireAtOnce`,
`AcquireQueues` and `AcquireNestedFails` are the ways out of the first critical
section of `Acquire`; `PumpStep` is one turn of the loop of
`pumpWaitersLocked`, which holds the mutex over several steps (`scan`);
`Resume` and `Cancel` are the two arms of its `select`. A
waiter cancelled after it was activated gives slot and claim back itself.
`ReserveParentWrite` and `ReleaseParentWrite` are the parent agent's. Paths are
nodes of any tree (`Below`); symlinks and case folding are left out.

**WorkspaceLease** (`internal/workspacelease/lease.go`, `internal/filelock`).
The fields of `Owner` are functions of the owner. A mutating call (`Enter`)
enters directly, leads the acquisition (`TakeToken`, `LockFile`,
`LockFileHeld`, `Retry`, `Settle`) or follows a leader; `BeginRun`, `EndRun`,
`StartJob`, `JobDone`, `Unretain` count who needs the lease, and `ReleaseIfIdle`
starts the release, whose two parts (`ReleaseFile`, `ReleaseToken`) run
outside the mutex. `Crash` is the death of a process. `WriterLock` is what the
package promises; the abstract `holder` is the owner whose lease is in force.

**BackgroundJobs** (`internal/jobs/jobs.go`, with the turn's side in
`internal/agent` and the destroyers in `internal/control`, `internal/serve`,
`desktop`). `pc[j]` is the run goroutine of a job from `Launch` over `Return`,
`Judge`, `Flush`, `RecordCompletion`, `Publish` to `CloseDone`. `Kill` flips
the status and `Cancel` calls `j.cancel` afterwards. The handle of a destroy
goes through `BeginDestroySession`, `Unwound` or `Overdue`, `Drained`,
`RemoveArtifacts`, `FinishDestroySession`; the serve frontend finishes before it
removes. `BeginTurn` ... `EndTurn` are a turn that leases evidence, fails or
delivers, and commits. `Crash` leaves metadata, markers and files;
`SetActiveSessionPath` and `ReconcileCleanupPending` are the recovery. A job key
contains its session (`SessionOf`).

**SessionLease** (`internal/agent/session_lease.go`, `session_removal.go`,
`save.go`, `session_lock_{unix,windows}.go`). One transcript; each member of
`Ops` is one call of `TryAcquireSessionLease`,
`TryReclaimCurrentProcessSessionLease`, `SessionLeaseHeldByOtherRuntime`,
`TryAcquireSessionRemovalGuard` or of the two sweeps, taken apart into its file
operations and registry updates. A release ends as a `lockSweep`, as in the code.
`entry` is what the name of the lock file leads to, `fd` what a call has open,
`lockers` who has the OS lock; `Posix` picks the build. Go's windows share mode
makes an open for deletion and a normal open exclude each other (`OpenFails`),
which the unix build has no counterpart for. In the windows build `WriterLock`, with
`lockers` as its holder, is implemented too.

**TurnGate** (`internal/control/controller.go`). `flags` are `running`,
`finishing`, `rotating`, `closed`; `parked` is `parkedTurns`. `Admit` is
`runGuarded`/`runGuardedOrPark`/`admitGuardedTurn`, `Finish` and `Delivered` the
two critical sections of `finishGuardedTurn` around the delivery of TurnDone,
`RunTurn`, `CallerGone` and `Return` the synchronous entry, `BeginRotation` and
`EndRotation` the gate around `NewSession`, `ClearSession`, `Compact`, `Rewind`,
forks and branches, each of which may also fail or keep the session. `Resume`
binds another session without the gate and at any time, as the HTTP frontend
calls it, and stands for `adoptDiskSession` too, with which a save takes over a
transcript that is newer on disk. `session` numbers the sessions bound so far;
`home[t]` is a history variable, the session the input `t` is for, which only
`Resume` changes. `Cancel` is `CaptureCancel`, `ClearPrompts`, `Fire`.

**Prompts** (`internal/control/approval.go`, and in `controller.go`
`requestApprovalDecisionWithOptions`, `Ask`, `Approve`, `AnswerQuestion`,
`ApplyToolApprovalMode`; the plan window of `turn_orchestrator.go`). A request goes
through its checks, `promptMu`, the hook, registration, the wait and the grant.
`Answer` removes the prompt and `Send` sends afterwards, as `Approve` does;
`SwitchMode` drains; `ClearAll` is the Cancel of `TurnGate` with what it does to
the prompts. `EXTENDS TurnGate` gives it the turns: a body ends only when no call
of it waits. Whether a wait has a timeout is the constant `Timeouts`, drawn for
each behaviour into `timed`.

**Checkpoints** (`internal/checkpoint/checkpoint.go`, the manager in
`internal/control/checkpoint.go`). `known`, `cur`, `snap`, `msgIndex` are the
store in memory, `stored`, `saved`, `savedIndex` its files, `turn` the manager's
counter. `Edit` is a writer tool of the main agent with the hook before it,
`EditUntracked` every change the hook does not see. `Persist` may tear the file
or not write it, `RestoreCode` and `TruncateFrom` may fail file by file
(`Faults`). The history variable `exact` holds the turns whose start the store
is able to reproduce; each action says which it loses and why.

**Rewind** (`controller.go`: `Rewind`, `forkNamed`, `summarizeAt`, `Resume`;
`internal/agent/compact.go`) extends `Checkpoints` with the message log and with
`bound`, the manager's boundaries. A message is its prompt's number and its
role. `CutConversation` is both scopes that cut the log, `RestoreOnly` the code
scope and a rewind that stops half way. `Compact` leaves the boundaries where they
are, `Summarize` drops them in memory only, `Resume` reads them from the files.

**AgentTurn** (`internal/agent/run_loop.go`, `agent.go`). `pc` is where `Run` is:
`SendRequest` is the head of an iteration, `Stream*`, `Answered`, `CallsReceived`
what the provider does, `AnswerRefused`, `AnswerAccepted`, `Summarized` the
outcomes of `handleFinalResponse`, `StartCall`, `EndCall`, `BatchEnds` the batches of
`executeBatch`, `RoundEnds` the rest of `handleToolRound`, `Finish` the deferred
`flushSteerQueue`. `grace` and `finalizing` are the two nudges, each of which
grants one more request. A steer queued in the last step of a budget does not keep
the loop alive; it is recorded as unapplied. `Steer` and `Cancel` come from outside at any point.

**TurnRecovery** (`controller.go`, `turn_orchestrator.go`, `agent/branch.go`,
`agent/interrupted_recovery.go`, `agent/compact.go`). `log` is the transcript in
memory, `disk` the file, `marker` the in-flight record in the sidecar. `BeginTurn`
writes the marker, `AddPrompt` ... `Pause` are what a Run leaves in the log,
`Cleanup`, `ClearMarker` and `EndTurn` the end of `runOrchestratedTurn` in the
code's order, which is another one for the turn that executes a plan (`BeginPlan`).
`ResolveStart`, `StripVisible` and `StripSynthetic` are the functions of those
names. With a planner the executor's prompt is another text than the one typed
(`Rewrites`), and a user may type the same text again (`Repeats`); `TellsTurn`
says when the cleanup, which goes by time, text and position, can still find the
turn. `Autosave` runs beside the turn; `Crash`, `Recover`, `Resumed` are the
death of the process and the two writes of its repair.

**RPCConn** (`internal/rpcwire/conn.go`). Everything is a function of the end or of
the request. `Start`, `WriteRequest`, `Return`, `GiveUp` are `Request`; `Read` is
`dispatch`, whose four ways out are `Resolve`, `Enqueue`, `Admit` and `Refuse`;
`Eof`, `ContextDone`, `Drained`, `ServeReturns` are the end of `Serve`, `Shutdown`
the second half of `shutdown`, after `closed` was set. A write waits
for room in a pipe of `PipeSize` frames; `broken` is the stream, closed by
either end or by the transport. `RemoteCalls` is what a caller may rely on: it keeps
how far a call is (`CallOf`), what has been done of it (`WorkOf`) and its answer.

## 4. What the runs check

| Run | Instance | Distinct states | Shows |
|---|---|---|---|
| `scheduler` | 3 calls (nested ones too), 2 parent writes, a workspace and 2 files, 2 slots | 0.27 M | write exclusion, no idle capacity, overtaking only past blocked writers, every call ends |
| `lease` | 3 sessions in 2 processes, 4 runs (two share a session), 4 calls, 1 job, deaths | 0.17 M | held from first mutation, every request settles, refinement of `WriterLock` |
| `jobs` | 1 job, 2 sessions, all destroyers, 1 crash | 0.55 M | evidence is reviewed before it is consumed and pending until then, removed sessions stay removed, notes of living sessions, a destroy that was begun ends |
| `session` | windows build, 2 calls in each of 2 processes, all kinds, 3 lock files | 1.2 M | one holder, info names it, repair only under the lock |
| `turns` | 3 inputs, 2 calls of Cancel or Close, 2 changes of the session (gated or Resume), both kinds of frontends | 2.3 M | one turn at a time, no gated operation under one, nothing stranded, no gated operation takes an input to another session, parked inputs run |
| `prompts` | 2 turns, 2 requests of one of them, 1 call of Cancel, Close or a dismissal, 1 change of posture, with and without timeouts | 0.44 M | the user decides, refusals stick, no ghost prompt, refinement of `TurnGate`, a cancel or a dismissal ends what it found |
| `rewind` | 1 file, 2 contents, 2 turn numbers, 3 prompts, a log of 2, all faults, all rewrites | 0.71 M | numbers are fresh, a code rewind restores a turn's start, a cut keeps the earlier turns |
| `agent_turn` | 2 Runs, budgets 0 and 2, 3 calls a response, 2 workers, 2 steers, 1 stream recovery | 0.50 M | order of calls, no accepted steer is lost, Runs return |
| `turn_recovery` | 2 turns of 3 kinds, 3 messages each, texts typed twice, prompts rewritten or not, 1 compaction, 1 crash | 3.4 M | the cleanup keeps other turns and complete rounds where it can tell the turn, drops goal turns, repairs after a crash, hands over to the next prompt |
| `rpc_conn` | 2 requests one way and one nested the other way, 2 notifications, pipes, pools and queues of 1 | 0.28 M | order of notifications, every call returns, `Serve` ends |

The other two runs are counterexamples to claims of the code, see section 7.

Why the bounds are enough to be interesting. In the scheduler, two slots and three
calls give a holder, its nested child or a second holder, and a waiter to overtake
or to cancel; two parent writes give a conflict that two reservations cause. In
the lease, two runs of one session make a leader and a follower, the second
session contends for the token, the third for the lock file. A second session lets
a session be destroyed while another is active. Four calls on one lock file give a
releaser, a stale opener, a new holder and a sweeper. Three inputs give a running,
a first and a second parked one. Two requests of a turn compete for `promptMu`.
Two checkpoint numbers and three prompts let a rewound number be used again; a
log of two messages is one turn's and the next one's, or a digest and a turn, and
the theorems of section 6 hold for any. A budget of two is one ordinary round and
the one that draws the nudge; three calls give a parallel batch before or after a
serial call; two Runs let a steer of the first be looked for in the second. Two
turns give a turn and the one before it, and three messages after the prompt a
complete round and a broken one. Queues of one place are full at once, and three
requests give a nested call, an overload and a late answer. The theorems of
section 6 remove the bounds from most of the safety properties.

Bounds in guards: `MaxCrashes`, `MaxSwaps`, `MaxSwitches`, `MaxTurns`,
`MaxPrompts`, `MaxLog`, `MaxRuns`, `MaxSteers`, `MaxWork`, `MaxFolds`, `MaxNotes`;
every call, job, input and request is made once. `CHECK_DEADLOCK FALSE` where the
system may stop: when all calls have been made these programs have nothing left to
do. `rewind` can always restart and is checked for deadlock.

Symmetry is used only where no leads-to property is checked: lock files and the
calls of one process in the `session` runs, typed texts in `turn_recovery`.

## 5. Fairness

Weak fairness of what a goroutine does next without outside help, and of nothing a
user or another party decides:

- Scheduler: the pump, the resumption of an activated waiter, and the release of a
  holder and of a parent write, which are deferred calls of bodies that end (every
  turn has a context and an end). A call is never obliged to be cancelled.
- Lease: runs, jobs and tools end; the goroutine of a call goes on when it can
  (`CallGoesOn`), and so do the two parts of a release. A leader gets the token and
  the lock file under weak fairness only: runs and jobs are finitely many, so the
  lock is eventually free for good, and no scheduler promise about who gets it is
  needed.
- Jobs: the goroutine goes on (`GoesOn`), and `run` returns once its context is
  cancelled (`cmd.WaitDelay` for shells, the context for tasks), but not before. A
  destroyer carries its teardown through, and startup reconciles markers
  (`CarriedThrough`). Turns, kills, destroys and crashes are not fair.
- Turns: bodies return, TurnDone is delivered.
- Prompts: requests and hooks go on, `Send`, Cancel, Close and a dismissal carry
  through, a body that waits for nobody ends. The user never has to answer.
- Agent turn: one weak fairness of `AgentStep`: the loop's goroutine runs, and the
  provider's stream and each tool call end (streams have an idle timeout, tools a
  context). Nobody has to steer or cancel. A Run without a budget that is never
  cancelled may go on for ever, and `RunReturns` does not speak of it.
- RPC connection: the goroutines of a request, a handler, a read loop and the
  notification worker go on when they can; handlers end. Weak fairness is
  enough although writers compete for a pipe, because frames are finitely many.
  Nobody has to close the stream, cancel the context or give up.
- Calls, inputs and requests are made once each, so "every one is settled" is stated
  as "from some point on none is under way" (`EveryRequestSettles`, `ParkedRuns`,
  `EveryCallReturns`).
- `Rewind` and `TurnRecovery` state no liveness: their operations are the user's, and
  the steps of a turn's end are one goroutine's.

## 6. What is proved

TLAPS checks the theorems listed in `PROJECT.json` for all values of the constants
that satisfy the named assumptions of each module. All but the refinements go the
same way: `Init => IInv`, `IInv /\ [Next]_vars => IInv'`, `IInv => Inv`.

- **Scheduler** (`ConfigAssumption`, the tree order of `Below`, normalized claims,
  finitely many calls). `TypeOK` and `CapacityRespected` talk about counters and about
  holders, so `IInv` says that the counters are the cardinalities of the holders
  (`CountsHolders`), that each claim belongs to its holder (`ClaimsOfHolders`,
  `ClaimsOfParent`), and that the queue holds exactly the waiters, each once
  (`QueueOfWaiters`). Theorems: `TypeCorrect`, `CapacityHolds`, `WritersDisjoint`.
  `NoWakeUpLost` (`NoIdleCapacity`) needs more, `WakeInv`: the waiters that the pump
  has already visited, or all of them when it does not run, cannot start
  (`WaitersBlocked`); every path that frees capacity or a claim begins a pump under
  the same lock, and a claim granted in between only blocks more (`StillBlocked`).
  `WaitersListed` says that every waiting call is in the part the pump has kept or
  in the part it has still to visit; with the order of the queue (`OrderKept`,
  `NewcomersLast`) `FirstComeFirstServed` follows: whoever is granted
  (`GrantedFirst`) has passed only waiters the pump kept, and those are blocked.
- **Lease** (`Structure`: finitely many runs and jobs). `IInv` adds that the
  saturating counters are exact (`CountsExact`) and who has which part of the lock
  at each point (`LocksOfLease`, `LocksOfLeader`, `UsersHoldLease`). Theorems:
  `TypeCorrect`, `LeaseHeld`, `WritersExclusive`, and `RefinesLock`: the safety
  part of `WriterLock` is implemented. `LocksAccounted` (`NoOrphanedLock`) is the
  converse of `LeaseHeld`: a lock that is taken has somebody who will give it back,
  on every failed and cancelled path too; beside `IInv` it needs that a token is held
  by a session of its own process (`TokenOwners`), and `LeaseKeptOrReleased` about
  `ReleaseIfIdle`.
- **Jobs**. `Lifecycle` says what a program counter tells of the job, `Custody`
  where unreviewed evidence is at each moment, `Destruction` what is known at each
  phase of a teardown. Theorems: types, evidence is reviewed, evidence is pending,
  removal is final, notes are of living sessions, purges are of settled jobs.
- **Session lease**. In the windows build every open handle is one of the file the
  name leads to (`Exclusive`), because the name cannot go while a handle is open;
  `OneHolder` follows. `Announced` gives `InfoNamesHolder`. `Places` and
  `Registered` give `RepairOnlyByHolder` and `NoResidue` in both builds. The
  unix build has no `Exclusive`, and `OneHolder` fails there (section 7).
  `WindowsImplementsExclusion`: a lock is granted only while nobody has it
  (`LockedAlone`), so every step is one of `WriterLock` or a stutter.
- **Turns**. `Windows` says which flags go together and what they say of the turns,
  `Queue` that the queue holds exactly the parked turns. `RotationExclusive` is
  about the operations that take the gate: none is under way together with a turn,
  or with a completion that somebody still hears. `InputsKeepTheirSession` says
  that none of them takes an input, parked or running, to another session. Neither
  says that the session never changes under a turn: `Resume` does that in the
  model as in the code (section 7). `NothingStranded` and
  `RunsInItsSession` need the assumption `Unmixed`: no controller is used both
  through `RunTurn` and through the steer fallback, as every frontend in the
  repository observes.
- **Prompts**. `TurnsAreGated` is the refinement of `TurnGate`, so its theorems
  hold of the composition. The invariant says where `promptMu` is, that nobody has
  answered an unregistered prompt (`Untouched`), that a registered prompt has its
  request waiting, and where an outcome can have come from (`Sources`). `JointInv`
  puts both invariants together with `BusyTurns`: a turn runs while a request of it
  is under way. From it follow `WindowShutWithTurn` (no later turn inherits the
  auto-approval of a plan), `PromptsAreCurrent` (the turn that Cancel finds behind a
  registered prompt is the one that waits, and no operation that takes the gate
  is under way meanwhile; a `Resume` may be) and, with the refinement,
  `PromptedTurnsExclusive`.
- **Checkpoints** (`CheckpointAssumption`). `ReachInv`: every number is below the
  counter and the open checkpoint is the newest (`FreshNumbers`), a turn within
  reach has its checkpoint, and the earliest snapshot from it on, or the file
  itself where there is none, is what the file held when it began
  (`StartWithinReach`). `RewindsRestoreStart` follows, as what `RestoreCode` puts back
  is unique (`RestoredToUnique`), and so does `NumbersFresh`.
- **Rewind**. `RewindImplementsStore`: every step is one of `Checkpoints` or a
  stutter, so `ReachHolds`, `RewindsRestoreStart` and `NumbersFresh` (as
  `RewindNumbersFresh`) hold of the controller too.
  `KeepInv`: no boundary of a turn of this process is below the position of an
  earlier prompt's message in the log; compaction only shortens the log, which is why
  stale boundaries cut too little and never too much. `PlacedInv`: a placed turn's
  messages begin exactly at its boundary, in memory and, where the file is intact,
  on disk.
- **Agent turn**. `IntakeInv`: the queue holds exactly the queued steers, accepted in
  this Run, and none is queued once the intake is closed. `BudgetInv` relates
  rounds, steps and nudges. `RoundInv`: within a response the ended calls are a
  prefix up to the running batch, and `ProviderOrder`.
- **RPC connection** (`ConnAssumption`: two ends, slots, queues and pipes of at least
  one place, a nested request made where its parent is handled). Four
  invariants, each on top of the ones before it. `CallerInv`: a call is registered
  exactly while it may still be woken, its channel is empty as long as it is, and a
  shut end has nobody registered; `NobodyStranded` and the fact that neither
  `Resolve` nor `Shutdown` blocks follow. `LifeInv`: each request has one life, in
  which it is on a pipe, refused, handled or answered, and nobody handles it once the
  server was busy; it is written once (`LifeOf`, `Spent`, `WrittenOnce`). So an
  answer is true (`CallersToldTheTruth`). `NoteInv`: what was handled, what is queued and what is
  on the pipe are the consecutive parts of what was sent (`NotificationsInOrder`).
  `LostInv`: as long as nothing is closed a request that is waited for is at one of
  the stations of its life (`RequestsAccounted`), and an end that went down stays
  down (`StaysDown`). Together they are the safety half of `EveryCallReturns`: no
  caller waits for something that is in nobody's hands. `ConnImplementsCalls` is the
  refinement of `RemoteCalls`: what the read loop hands to a handler was asked for and
  never handled (`HandedOnce`), so each call is executed at most once, also one whose
  caller has given up.

Proved and not among the runs, because a theorem says more than the instance would:
the type invariants, `CapacityRespected`, `OneWritingSession`, `PurgesOnlySettled`,
`NoOrphanedLock`, `NoResidue`, `ClosedStartsNothing`, `OneReplyPerPrompt`,
`WindowInTurn`, `PromptsOfCurrentTurn`, `StartWithinReach`, `CutIsExact`,
`RoundsWithinBudget`, `ExecutedIsPrefix`, `NoStrandedCaller`, `AnswersAreTrue`,
`NoRequestLost`, `ImplementsCalls`, `ImplementsExclusion`. Each was model-checked on
the instance of its module's run before it was proved.

Only model-checked: the leads-to properties and the liveness half of
`ImplementsLock` (liveness and ENABLED are beyond the prover), and all of
`TurnRecovery`, whose cleanup is defined with folds over sequences that would need
induction over data.

## 7. Where the code and its comments disagree

Runs that end in a counterexample; `PROJECT.json` quotes the comments.

- `session_unlink`: in the unix build a release unlinks the lock file between
  another caller's open and its flock, and two processes get the lease.
- `jobs_restart_claim`: a task interrupted by a crash comes back with no pending
  evidence although it has changed files.

Configurations that show other disagreements, kept for the reader
(`tlc -config X.cfg M`):

| Configuration | Property | What it shows |
|---|---|---|
| `MCBackgroundJobsNote` | `TerminalImpliesNoted` | a kill publishes Killed before the note is queued (jobs.go:500) |
| `MCBackgroundJobsKill` | `KilledMeansKilled` | a kill that meets a returned run: Killed in memory, Done in metadata and note (jobs.go:946) |
| `MCTurnGateResume` | `SwapsOnlyWhileIdle` | an input is admitted and runs, and Resume, which takes no rotation gate and looks at no flag, binds another session under it (controller.go:3312, called by `POST /resume` at any time, serve.go:1035; against controller.go:230 and agent.go:728) |
| `MCTurnGateMixed` | `NothingStranded` | `RunTurn` starts nothing of what was parked during it (controller.go:678); no frontend mixes the two |
| `MCPromptsYolo` | `YoloAsksNothing` | a switch to yolo just before a registration leaves the prompt waiting (controller.go:5270) |
| `MCSessionLeaseInfo` | `InfoAlwaysNamesHolder` | the sweep of an info file finds no lock file, and removes the info of a lease acquired since (save.go:1655, against session_lease.go:176) |
| `MCPromptsWaiter` | `WaiterCanEnd` | a Cancel that captured the previous turn drops the prompt of the next one, whose request then waits for an answer nobody can give (controller.go:1719) |
| `MCRewindStale` | `RewindForgetsTurn` | after a compaction a boundary may be stale and still inside the log, so the rewind keeps messages of the turn it forgets (controller.go:2959) |
| `MCRewindScope` | `EveryRewindRestoresStart` | after a conversation rewind the snapshots of the turns that are gone are gone too, and a code rewind to an earlier turn does not bring back what they changed (checkpoint.go:303) |
| `MCTurnRecoveryRepeat` | `OlderTurnsLeftAlone` | a turn is typed like an older one, and its planner is cancelled before the executor has the prompt: no message carries a time after the marker, the search for the text goes back to the older turn (controller.go:4165), and the cleanup takes that one for the cancelled one (against controller.go:3985) |
| `MCTurnRecoveryRewrite` | `InterruptedWorkKept` | the planner rewrites the prompt (coordinator.go:409), so the text typed is nowhere in the log, and a compaction moves the turn: the cleanup cuts at the position recorded before, the prompt is in the log twice, a result has lost its call, and a complete round is gone (against turn_orchestrator.go:269) |
| `MCTurnRecoveryStale` | `RecoveryKeepsPrompts` | a file older than a compaction, with a marker newer than it: the repair cuts at a position of another log |
| `MCTurnRecoverySave` | `TurnEndSaves` | a turn whose log was compacted below its starting length is not saved at its end (controller.go:4333) |
| `MCTurnRecoveryPlan` | `PlanTurnDropped` | the marker of a plan's turn is cleared before its cleanup reads the time from it (turn_orchestrator.go:334), so after a compaction part of the turn stays |
| `MCRPCConnBusy` | `OverloadBlocksNoDispatch` | both ends call each other at their own pace, the one handler of each is busy, and both read loops write "server busy" into full pipes (conn.go:245): neither reads again, and no call returns (against conn.go:45) |

What `CleanupKeepsOtherTurns` and `CancelledTurnKept` claim of a visible turn in
the passing run has the premise `TellsTurn`. It is false in just the cases of
`MCTurnRecoveryRepeat` and `MCTurnRecoveryRewrite`: the prompt is not in the log as
typed, and an older message has the text or the turn is no longer at the position
recorded.

## 8. Abstractions and what is left out

- Scheduler: symlinks, case folding, progress events.
- Lease: one workspace; the backoff between retries has no duration.
- Jobs: reservations, the stalled monitor, unscoped jobs and their adoption, the
  migration of artifact directories, log files, child processes that survive a
  crash; a job has at most one mutation receipt.
- Session lease: unlock and close are one step; damaged info files, the keeper, the
  contents of a save (its lock is only found taken or free), the probe after a
  removal, and the fallback of the windows disposition call are left out.
- Turns: what a body does (`AgentTurn`, `TurnRecovery` and `Checkpoints` model parts of
  it on their own); a rotation is its gate and the change of the session, and
  `Resume` and `adoptDiskSession` are only the change, one step each. What a run
  makes of a session swapped under it (messages of one input in two transcripts,
  checkpoints of another session) is not followed further.
- Prompts: recovery cards, which hold `promptMu` only to register; the Guardian review;
  plan-mode trust of commands; remembered rules; headless gates. `dontask`
  is folded into `ask`, since its gate refuses before a request exists. The check
  of the running turn in `AnswerQuestion` and the read of `c.cancel` in the Cancel that
  follows are one read.
- Checkpoints and Rewind: encodings, and paths outside the workspace; the strip of a
  cancelled turn's messages (that is `TurnRecovery`); a fork that does not switch
  to the new session changes nothing here. A checkpoint is taken inside the step
  that begins its turn, because rewinds hold the rotation gate.
- Agent turn: the retry counters of `handleFinalResponse` are folded into a free
  choice between asking again and giving up, which is why a Run needs its budget to
  return; the step counter stops at the budget; evidence, readiness, the
  storm breaker, todo progress and the content of messages are left out. One tool
  call is its start and its end.
- Turn recovery: the stamp of a message is the number of its turn; user messages are
  small enough to be spared by compaction; where a compaction stops is free up to the
  active turn; saves never conflict, so recovery branches and the transplant of a marker
  to one do not occur; a response has `Width` calls; a Resume under the turn is
  not followed here.
- RPC connection: framing, size limits and strict validation; the `Before` hooks; the
  callbacks after a write; notifications without a queue. One flag says that the
  stream is closed in both directions. `EveryCallReturns` is checked where one end
  makes all calls that are not nested; it does not hold where both ends make calls at their
  own pace, which `MCRPCConnBusy` shows.
- The components marked not modelled in `PROJECT.json`: rendering, HTTP, providers and
  file tools are I/O and formatting; event fan-out is a loop under a mutex; the rest
  is what the plan has left.
