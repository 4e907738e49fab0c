------------------------- MODULE SubagentScheduler -------------------------
(***************************************************************************)
(* The session-scoped concurrency controller of internal/agent/scheduler.go *)
(* and the write claims of internal/agent/write_claims.go: sub-agents       *)
(* acquire a slot (and writers a claim on workspace paths), queue when none *)
(* is free, and the parent agent's own write tools reserve paths against    *)
(* them.                                                                    *)
(*                                                                          *)
(* Every element of Calls is one call of Acquire, made by the goroutine of  *)
(* one sub-agent; every element of ParentWrites is one write-tool Execute   *)
(* of the parent agent.  The mutex s.mu is held across a whole call of      *)
(* pumpWaitersLocked, whose loop is modelled one waiter per step: scan is   *)
(* the part of the queue the loop has still to visit, and the mutex is free *)
(* exactly when scan is empty.                                              *)
(***************************************************************************)
EXTENDS Integers, Sequences, FiniteSets, SequencesExt

CONSTANTS
  Calls,          \* calls of Acquire, each with its own goroutine
  ParentWrites,   \* write-tool executions of the parent agent
  Path,           \* workspace paths, after symlink resolution
  Below,          \* Below[p]: the paths at or under p
  NoRoot,         \* the empty WorkspaceRoot
  Claims,         \* the non-empty write claims that callers make
  ConfigTotal,    \* agent.max_subagent_concurrency, as configured
  ConfigWriters,  \* agent.max_parallel_writers, as configured
  Root            \* the caller that is the root agent, not a sub-agent

(***************************************************************************)
(* WritePathSet: the paths are a set, since NormalizeWritePaths drops       *)
(* repeated entries and no operation depends on their order.                *)
(***************************************************************************)

Claim == [whole : BOOLEAN, root : Path \cup {NoRoot}, paths : SUBSET Path]

EmptyClaim == [whole |-> FALSE, root |-> NoRoot, paths |-> {}]

IsEmpty(s) == ~s.whole /\ s.paths = {}

Within(p, q) == q \in Below[p]

Nested(p, q) == Within(p, q) \/ Within(q, p)

Overlaps(s, t) ==
  /\ ~IsEmpty(s) /\ ~IsEmpty(t)
  /\ IF s.whole \/ t.whole
     THEN s.root = NoRoot \/ t.root = NoRoot \/ Nested(s.root, t.root)
     ELSE \E p \in s.paths, q \in t.paths : Nested(p, q)

AllowsPath(s, p) ==
  IF s.whole
  THEN s.root = NoRoot \/ Within(s.root, p)
  ELSE \E q \in s.paths : Within(q, p)

\* What NormalizeWritePaths and WholeWorkspaceWriteClaim return.
Normalized(s) ==
  s \in Claim /\ ~IsEmpty(s) /\ s.root \in Path /\ \A p \in s.paths : Within(s.root, p)

(***************************************************************************)
(* Below is the prefix order of a file tree.                                *)
(***************************************************************************)
ASSUME PathTree ==
  /\ Below \in [Path -> SUBSET Path]
  /\ NoRoot \notin Path
  /\ \A p \in Path : Within(p, p)
  /\ \A p, q, r \in Path : Within(p, q) /\ Within(q, r) => Within(p, r)
  /\ \A p, q, r \in Path : Within(p, r) /\ Within(q, r) => Nested(p, q)

ASSUME ClaimsAssumption == \A s \in Claims : Normalized(s)

ASSUME CallsAssumption == IsFiniteSet(Calls) /\ Root \notin Calls

ASSUME ConfigAssumption == ConfigTotal \in Int /\ ConfigWriters \in Int

\* NormalizeConcurrencyLimits, with the public range 1-32 and the defaults 6/3.
Clamp(n, default) == IF n <= 0 THEN default ELSE IF n > 32 THEN 32 ELSE n

MaxTotal == Clamp(ConfigTotal, 6)

MaxWriters ==
  IF Clamp(ConfigWriters, 3) > MaxTotal THEN MaxTotal ELSE Clamp(ConfigWriters, 3)

(***************************************************************************)
(* An AcquireRequest: production callers make a reader without a claim or a *)
(* writer with one, and set Nested exactly when a sub-agent is the caller.  *)
(***************************************************************************)
Request ==
  [writer : {FALSE}, claim : {EmptyClaim}, caller : Calls \cup {Root}]
    \cup [writer : {TRUE}, claim : Claims, caller : Calls \cup {Root}]

NoRequest == [writer |-> FALSE, claim |-> EmptyClaim, caller |-> Root]

VARIABLES
  state,          \* where the goroutine of a call stands
  req,            \* the AcquireRequest of a call
  activeTotal,    \* s.activeTotal
  activeWriters,  \* s.activeWriters
  activeClaims,   \* s.activeClaims: equal claims overlap, so a set holds them
  parentState,    \* where a write tool of the parent agent stands
  parentClaim,    \* the paths it writes; s.parentClaims are the reserved ones
  waiters,        \* s.waiters; while the pump runs, what the loop has kept
  scan            \* the waiters the running pump has still to visit

vars == <<state, req, activeTotal, activeWriters, activeClaims,
          parentState, parentClaim, waiters, scan>>

\* "ready": w.ready is closed and the goroutine has not resumed;
\* "aborting": ctx was done, yet the waiter had been activated;
\* "done": Acquire returned an error, or the slot was released.
CallState == {"idle", "queued", "ready", "running", "aborting", "done"}

Holders == {c \in Calls : state[c] \in {"ready", "running", "aborting"}}

WriterHolders == {c \in Holders : req[c].writer}

Reserving == {p \in ParentWrites : parentState[p] = "reserved"}

parentClaims == {parentClaim[p] : p \in Reserving}

MutexFree == scan = <<>>

Init ==
  /\ state = [c \in Calls |-> "idle"]
  /\ req = [c \in Calls |-> NoRequest]
  /\ activeTotal = 0
  /\ activeWriters = 0
  /\ activeClaims = {}
  /\ parentState = [p \in ParentWrites |-> "idle"]
  /\ parentClaim = [p \in ParentWrites |-> EmptyClaim]
  /\ waiters = <<>>
  /\ scan = <<>>

(***************************************************************************)
(* Helpers that run under s.mu                                              *)
(***************************************************************************)

\* Mutant of Conflicts: a sub-agent ignores the writes of its parent.
ConflictsIgnoreParent(s) == \E t \in activeClaims : Overlaps(t, s)

Conflicts(s) == \E t \in activeClaims \cup parentClaims : Overlaps(t, s)

CanStart(r) ==
  /\ activeTotal < MaxTotal
  /\ r.writer => activeWriters < MaxWriters /\ ~Conflicts(r.claim)

Activate(r) ==
  /\ activeTotal' = activeTotal + 1
  /\ activeWriters' = IF r.writer THEN activeWriters + 1 ELSE activeWriters
  /\ activeClaims' = IF r.writer /\ ~IsEmpty(r.claim)
                     THEN activeClaims \cup {r.claim}
                     ELSE activeClaims

Saturating(n) == IF n > 0 THEN n - 1 ELSE n

Deactivate(r) ==
  /\ activeTotal' = Saturating(activeTotal)
  /\ activeWriters' = IF r.writer THEN Saturating(activeWriters) ELSE activeWriters
  /\ activeClaims' = IF r.writer /\ ~IsEmpty(r.claim)
                     THEN activeClaims \ {r.claim}
                     ELSE activeClaims

\* pumpWaitersLocked begins: the loop visits s.waiters from its head.
StartPump == scan' = waiters /\ waiters' = <<>>

active == <<activeTotal, activeWriters, activeClaims>>

parent == <<parentState, parentClaim>>

queue == <<waiters, scan>>

(***************************************************************************)
(* Acquire                                                                  *)
(***************************************************************************)

\* A sub-agent makes a nested call from inside its own run.
MayCall(r) == r.caller # Root => state[r.caller] = "running"

AcquireAtOnce(c, r) ==
  /\ MutexFree /\ state[c] = "idle" /\ MayCall(r)
  /\ CanStart(r)
  /\ Activate(r)
  /\ state' = [state EXCEPT ![c] = "running"]
  /\ req' = [req EXCEPT ![c] = r]
  /\ UNCHANGED <<parent, queue>>

AcquireNestedFails(c, r) ==
  /\ MutexFree /\ state[c] = "idle" /\ MayCall(r)
  /\ ~CanStart(r)
  /\ r.caller # Root
  /\ state' = [state EXCEPT ![c] = "done"]
  /\ req' = [req EXCEPT ![c] = r]
  /\ UNCHANGED <<active, parent, queue>>

\* Mutants of AcquireQueues: a new waiter goes to the head of the queue; a
\* nested call queues behind the slot of its own parent.
AcquireQueuesAtHead(c, r) ==
  /\ MutexFree /\ state[c] = "idle" /\ MayCall(r)
  /\ ~CanStart(r)
  /\ r.caller = Root
  /\ state' = [state EXCEPT ![c] = "queued"]
  /\ req' = [req EXCEPT ![c] = r]
  /\ waiters' = <<c>> \o waiters
  /\ UNCHANGED <<active, parent, scan>>

AcquireQueuesNested(c, r) ==
  /\ MutexFree /\ state[c] = "idle" /\ MayCall(r)
  /\ ~CanStart(r)
  /\ state' = [state EXCEPT ![c] = "queued"]
  /\ req' = [req EXCEPT ![c] = r]
  /\ waiters' = Append(waiters, c)
  /\ UNCHANGED <<active, parent, scan>>

AcquireQueues(c, r) ==
  /\ MutexFree /\ state[c] = "idle" /\ MayCall(r)
  /\ ~CanStart(r)
  /\ r.caller = Root
  /\ state' = [state EXCEPT ![c] = "queued"]
  /\ req' = [req EXCEPT ![c] = r]
  /\ waiters' = Append(waiters, c)
  /\ UNCHANGED <<active, parent, scan>>

\* The select of Acquire takes <-w.ready.
Resume(c) ==
  /\ state[c] = "ready"
  /\ state' = [state EXCEPT ![c] = "running"]
  /\ UNCHANGED <<req, active, parent, queue>>

\* removeWaiterLocked: a waiter stands in the queue at most once.
Without(s, c) ==
  IF Contains(s, c) THEN RemoveAt(s, CHOOSE i \in 1 .. Len(s) : s[i] = c) ELSE s

\* The select of Acquire takes <-ctx.Done() and removeWaiterLocked follows.
\* The waiter may have been activated before the mutex was taken: the second
\* select finds w.ready closed and releases the slot (Release).
Cancel(c) ==
  /\ MutexFree /\ state[c] \in {"queued", "ready"}
  /\ waiters' = Without(waiters, c)
  /\ state' = [state EXCEPT ![c] = IF @ = "ready" THEN "aborting" ELSE "done"]
  /\ UNCHANGED <<req, active, parent, scan>>

\* makeRelease: the deferred release of a sub-agent whose run is over.  Nested
\* calls are made from within the run, so none of them is outstanding.
Release(c) ==
  /\ MutexFree /\ state[c] \in {"running", "aborting"}
  /\ \A d \in Calls : req[d].caller = c => state[d] \in {"idle", "done"}
  /\ Deactivate(req[c])
  /\ StartPump
  /\ state' = [state EXCEPT ![c] = "done"]
  /\ UNCHANGED <<req, parent>>

\* One iteration of the loop of pumpWaitersLocked.
PumpStep ==
  /\ scan # <<>>
  /\ LET w == Head(scan) IN
       IF CanStart(req[w])
       THEN /\ Activate(req[w])
            /\ state' = [state EXCEPT ![w] = "ready"]
            /\ UNCHANGED waiters
       ELSE /\ waiters' = Append(waiters, w)
            /\ UNCHANGED <<active, state>>
  /\ scan' = Tail(scan)
  /\ UNCHANGED <<req, parent>>

(***************************************************************************)
(* ReserveParentWrite and its release                                       *)
(***************************************************************************)

ReserveParentWrite(p, s) ==
  /\ MutexFree /\ parentState[p] = "idle"
  /\ parentState' = [parentState EXCEPT ![p] = IF Conflicts(s) THEN "done" ELSE "reserved"]
  /\ parentClaim' = [parentClaim EXCEPT ![p] = s]
  /\ UNCHANGED <<state, req, active, queue>>

\* Mutant of ReleaseParentWrite: the queue is not pumped.
ReleaseParentWriteNoPump(p) ==
  /\ MutexFree /\ parentState[p] = "reserved"
  /\ parentState' = [parentState EXCEPT ![p] = "done"]
  /\ UNCHANGED <<state, req, active, parentClaim, queue>>

ReleaseParentWrite(p) ==
  /\ MutexFree /\ parentState[p] = "reserved"
  /\ parentState' = [parentState EXCEPT ![p] = "done"]
  /\ StartPump
  /\ UNCHANGED <<state, req, active, parentClaim>>

Next ==
  \/ \E c \in Calls, r \in Request :
       AcquireAtOnce(c, r) \/ AcquireNestedFails(c, r) \/ AcquireQueues(c, r)
  \/ \E c \in Calls : Resume(c) \/ Cancel(c) \/ Release(c)
  \/ PumpStep
  \/ \E p \in ParentWrites, s \in Claims : ReserveParentWrite(p, s)
  \/ \E p \in ParentWrites : ReleaseParentWrite(p)

Spec == Init /\ [][Next]_vars

(***************************************************************************)
(* The goroutines that hold the mutex or a closed channel are scheduled,    *)
(* and the deferred releases run when a sub-agent or a write tool ends.     *)
(* Nothing forces a call to be made or a context to be cancelled.           *)
(***************************************************************************)
Fairness ==
  /\ WF_vars(PumpStep)
  /\ \A c \in Calls : WF_vars(Resume(c)) /\ WF_vars(Release(c))
  /\ \A p \in ParentWrites : WF_vars(ReleaseParentWrite(p))

FairSpec == Spec /\ Fairness

(***************************************************************************)
(* Properties                                                               *)
(***************************************************************************)

\* The variables hold values of their types.
TypeOK ==
  /\ state \in [Calls -> CallState]
  /\ req \in [Calls -> Request]
  /\ activeTotal \in 0 .. MaxTotal
  /\ activeWriters \in 0 .. MaxWriters
  /\ activeClaims \subseteq Claims
  /\ parentState \in [ParentWrites -> {"idle", "reserved", "done"}]
  /\ parentClaim \in [ParentWrites -> Claims \cup {EmptyClaim}]
  /\ waiters \in Seq(Calls)
  /\ scan \in Seq(Calls)

\* The pool bounds of agent.max_subagent_concurrency and max_parallel_writers
\* hold for the calls that really hold a slot, activated waiters whose
\* goroutine has not resumed and cancelled ones included.
CapacityRespected ==
  /\ Cardinality(Holders) <= MaxTotal
  /\ Cardinality(WriterHolders) <= MaxWriters

\* What write_paths are for: no path may be written by two slot holders, or by
\* a slot holder and a parent write in progress, or by two parent writes.
NoSharedWritePath ==
  /\ \A c, d \in WriterHolders : c # d =>
       ~\E p \in Path : AllowsPath(req[c].claim, p) /\ AllowsPath(req[d].claim, p)
  /\ \A c \in WriterHolders, w \in Reserving :
       ~\E p \in Path : AllowsPath(req[c].claim, p) /\ AllowsPath(parentClaim[w], p)
  /\ \A v, w \in Reserving : v # w =>
       ~\E p \in Path : AllowsPath(parentClaim[v], p) /\ AllowsPath(parentClaim[w], p)

\* Work conservation, or no lost wake-up: whenever the mutex is free, no call
\* waits for a slot that it could be given.
NoIdleCapacity ==
  MutexFree => \A c \in Calls : state[c] = "queued" => ~CanStart(req[c])

\* The queue in the order of arrival, whether or not the pump is running.
Queue == waiters \o scan

Precedes(q, d, c) == \E i, j \in 1 .. Len(q) : i < j /\ q[i] = d /\ q[j] = c

\* A queued call keeps its place before every later one, and a call that did
\* not precede it is granted a slot first only past a writer with another
\* claim: readers and equal claims are served first come, first served.
OvertakesOnlyBlockedWriters ==
  [][\A c, d \in Calls :
       state[d] = "queued" /\ state'[d] = "queued" /\ c # d =>
         /\ state'[c] = "queued" /\ ~Precedes(Queue, c, d) => Precedes(Queue', d, c)
         /\ c \notin Holders /\ c \in Holders' /\ ~Precedes(Queue, c, d) =>
              req[d].writer /\ req[d].claim # req'[c].claim]_vars

\* Once no more calls arrive, every queued call is granted a slot or cancelled
\* and every slot is given back: no wake-up is lost and a nested call never
\* waits for the slot of its own parent.
EveryCallSettles ==
  \A c \in Calls : state[c] \notin {"idle", "done"} ~> state[c] = "done"

=============================================================================
