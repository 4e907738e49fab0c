----------------------------- MODULE AgentTurn -----------------------------
(***************************************************************************)
(* One agent's Run (internal/agent): the loop of provider requests and     *)
(* tool rounds, its budget of steps, the batch of tool calls of one        *)
(* response, and the guidance ("steers") a user types while it runs.       *)
(*                                                                         *)
(* The loop is one goroutine.  Beside it run the tool calls of a parallel  *)
(* batch, the callers of Steer, and whoever cancels the context.           *)
(***************************************************************************)
EXTENDS Integers, FiniteSets, Sequences

CONSTANTS
  Limits,        \* the step budgets a Run may get; 0 is no budget
  MaxCalls,      \* bound: tool calls in one response
  MaxParallel,   \* maxParallel, the reads that run at once
  MaxRecoveries, \* maxStreamRecoveries
  MaxSteers,     \* bound: steers accepted in all
  MaxRuns        \* bound: calls of Run

ASSUME AgentAssumption ==
  /\ Limits \subseteq Nat
  /\ MaxCalls \in Nat /\ MaxParallel \in Nat \ {0} /\ MaxRecoveries \in Nat
  /\ MaxSteers \in Nat /\ MaxRuns \in Nat

Calls == 1 .. MaxCalls
Steers == 1 .. MaxSteers

VARIABLES
  pc,          \* where Run is: see Places
  outcome,     \* what Run returns: "done" is nil, the rest are errors
  run,         \* calls of Run so far
  limit,       \* runMaxSteps
  step,        \* the loop's counter, which stops counting at the limit
  rounds,      \* history: tool rounds executed, counted up to limit + 1
  grace,       \* state.graceRound
  finalizing,  \* state.recoveryGraceRound
  recoveries,  \* state.streamRecoveries
  cancelled,   \* the Run's context is cancelled
  kind,        \* the calls of the round: "read" may share a batch, "serial" not
  status,      \* where each of them is
  first,       \* the first call of the batch being executed
  seen,        \* history: the calls that had ended when this one started
  intake,      \* steerRunActive
  queue,       \* steerQueue
  fate,        \* what became of each steer
  during       \* history: the Run that accepted it

loopVars == <<outcome, run, limit, step, rounds, grace, finalizing, recoveries>>
batchVars == <<kind, status, first, seen>>
steerVars == <<intake, queue, fate, during>>
vars == <<pc, loopVars, cancelled, batchVars, steerVars>>

Places == {"idle", "top", "stream", "final", "batch", "round", "exit"}
Outcomes == {"none", "done", "paused", "recovery", "failed"}
Statuses == {"none", "waiting", "running", "ran", "stopped", "cancelled", "blocked"}
Ended == {"ran", "stopped", "cancelled", "blocked"}

Init ==
  /\ pc = "idle" /\ outcome = "none" /\ run = 0
  /\ limit = 0 /\ step = 0 /\ rounds = 0
  /\ grace = FALSE /\ finalizing = FALSE /\ recoveries = 0
  /\ cancelled = FALSE
  /\ kind = [i \in Calls |-> "read"]
  /\ status = [i \in Calls |-> "none"]
  /\ first = 1
  /\ seen = [i \in Calls |-> {}]
  /\ intake = FALSE /\ queue = <<>>
  /\ fate = [s \in Steers |-> "none"]
  /\ during = [s \in Steers |-> 0]

----------------------------------------------------------------------------
(* Run and its loop *)

\* Run opens the intake of steers and starts the loop, perhaps with a context
\* that is cancelled already.
Begin ==
  /\ pc = "idle" /\ run < MaxRuns
  /\ pc' = "top" /\ run' = run + 1 /\ outcome' = "none"
  /\ limit' \in Limits
  /\ step' = 0 /\ rounds' = 0
  /\ grace' = FALSE /\ finalizing' = FALSE /\ recoveries' = 0
  /\ cancelled' \in BOOLEAN
  /\ intake' = TRUE
  /\ UNCHANGED <<batchVars, queue, fate, during>>

Return(result) == pc' = "exit" /\ outcome' = result

\* The next iteration of the loop.
StepOn == step' = IF step < limit THEN step + 1 ELSE step
Continue == pc' = "top" /\ StepOn /\ UNCHANGED outcome

MayGoOn == limit = 0 \/ step < limit \/ grace \/ finalizing

\* The head of an iteration: one steer at most joins the conversation, then
\* the request is sent.
SendRequest ==
  /\ pc = "top" /\ MayGoOn
  /\ pc' = "stream"
  /\ IF queue = <<>>
       THEN UNCHANGED <<queue, fate>>
       ELSE /\ fate' = [fate EXCEPT ![Head(queue)] = "applied"]
            /\ queue' = Tail(queue)
  /\ UNCHANGED <<loopVars, cancelled, batchVars, intake, during>>

OutOfSteps ==
  /\ pc = "top" /\ ~MayGoOn
  /\ Return("paused")
  /\ UNCHANGED <<run, limit, step, rounds, grace, finalizing, recoveries,
                 cancelled, batchVars, steerVars>>

\* The stream breaks off and the loop asks the model to go on; the request
\* does not count as a step.
StreamInterrupted ==
  /\ pc = "stream" /\ recoveries < MaxRecoveries
  /\ pc' = "top" /\ recoveries' = recoveries + 1
  /\ UNCHANGED <<outcome, run, limit, step, rounds, grace, finalizing,
                 cancelled, batchVars, steerVars>>

\* Any other error of the request, a cancelled context among them.
StreamFails ==
  /\ pc = "stream"
  /\ Return("failed")
  /\ UNCHANGED <<run, limit, step, rounds, grace, finalizing, recoveries,
                 cancelled, batchVars, steerVars>>

\* A response without tool calls.
Answered ==
  /\ pc = "stream" /\ ~cancelled
  /\ pc' = "final" /\ recoveries' = 0
  /\ UNCHANGED <<outcome, run, limit, step, rounds, grace, finalizing,
                 cancelled, batchVars, steerVars>>

\* A response with n tool calls.  After the nudge to stop they are not
\* executed: Run pauses.
CallsReceived(n, kinds) ==
  /\ pc = "stream" /\ ~cancelled
  /\ recoveries' = 0
  /\ IF grace \/ finalizing
       THEN /\ Return(IF grace THEN "paused" ELSE "recovery")
            /\ UNCHANGED batchVars
       ELSE /\ pc' = "batch" /\ UNCHANGED outcome
            /\ kind' = kinds
            /\ status' = [i \in Calls |-> IF i <= n THEN "waiting" ELSE "none"]
            /\ first' = 1
            /\ seen' = [i \in Calls |-> {}]
  /\ UNCHANGED <<run, limit, step, rounds, grace, finalizing, cancelled, steerVars>>

----------------------------------------------------------------------------
(* A final response: handleFinalResponse *)

\* Mutant of AnswerRefused: a retry does not count as a step.
RefusedForFree ==
  /\ pc = "final" /\ ~finalizing
  /\ \/ grace /\ Return("paused")
     \/ ~grace /\ pc' = "top" /\ UNCHANGED outcome
     \/ ~grace /\ Return("failed")
  /\ UNCHANGED <<run, limit, step, rounds, grace, finalizing, recoveries,
                 cancelled, batchVars, steerVars>>

\* The answer is not accepted (readiness, no visible text, no action taken):
\* the model is asked again, or Run gives up.
AnswerRefused ==
  /\ pc = "final" /\ ~finalizing
  /\ \/ grace /\ Return("paused") /\ UNCHANGED step
     \/ ~grace /\ Continue
     \/ ~grace /\ Return("failed") /\ UNCHANGED step
  /\ UNCHANGED <<run, limit, rounds, grace, finalizing, recoveries,
                 cancelled, batchVars, steerVars>>

\* Mutant of AnswerAccepted: the look at the queue does not close the intake.
AcceptedLeavingOpen ==
  /\ pc = "final" /\ ~finalizing
  /\ IF queue # <<>> THEN Continue ELSE Return("done") /\ UNCHANGED step
  /\ UNCHANGED <<run, limit, rounds, grace, finalizing, recoveries,
                 cancelled, batchVars, steerVars>>

\* closeSteerIntakeIfIdle: with a steer still queued the loop goes on,
\* otherwise no more are accepted and Run returns nil.
AnswerAccepted ==
  /\ pc = "final" /\ ~finalizing
  /\ IF queue # <<>>
       THEN Continue /\ UNCHANGED intake
       ELSE Return("done") /\ intake' = FALSE /\ UNCHANGED step
  /\ UNCHANGED <<run, limit, rounds, grace, finalizing, recoveries,
                 cancelled, batchVars, queue, fate, during>>

\* The summary asked for when the recovery budget ran out: Run pauses.
Summarized ==
  /\ pc = "final" /\ finalizing
  /\ Return("recovery")
  /\ UNCHANGED <<run, limit, step, rounds, grace, finalizing, recoveries,
                 cancelled, batchVars, steerVars>>

----------------------------------------------------------------------------
(* The calls of one response: executeBatch, partitionToolCalls, runParallel *)

\* Mutant of BatchOf: a serial call joins the reads before it.
BatchWithNext(i) ==
  {j \in Calls : /\ j >= i /\ status[j] # "none"
                 /\ \A k \in i .. (j - 1) : kind[k] = "read"}

\* The batch that starts at call i: one serial call, or the reads that follow
\* each other.
BatchOf(i) ==
  {j \in Calls : /\ j >= i /\ status[j] # "none"
                 /\ j # i => \A k \in i .. j : kind[k] = "read"}

InBatch == BatchOf(first)
Running == {i \in Calls : status[i] = "running"}
Waiting == {i \in Calls : status[i] = "waiting"}

\* The next call of the batch starts, unless the context is cancelled.
StartCall(i) ==
  /\ pc = "batch" /\ ~cancelled
  /\ i \in InBatch \cap Waiting
  /\ \A j \in InBatch \cap Waiting : i <= j
  /\ Cardinality(Running) < MaxParallel
  /\ status' = [status EXCEPT ![i] = "running"]
  /\ seen' = [seen EXCEPT ![i] = {j \in Calls : status[j] \in Ended}]
  /\ UNCHANGED <<pc, loopVars, cancelled, kind, first, steerVars>>

\* A call ends; its outcome may say that the recovery budget is used up.
EndCall(i) ==
  /\ pc = "batch" /\ status[i] = "running"
  /\ \E s \in {"ran", "stopped"} : status' = [status EXCEPT ![i] = s]
  /\ UNCHANGED <<pc, loopVars, cancelled, kind, first, seen, steerVars>>

Fill(s) == status' = [i \in Calls |-> IF status[i] = "waiting" THEN s ELSE status[i]]

\* The batch is over: its calls have ended, or the started ones have and the
\* context is cancelled.  A cancelled context or an exhausted budget answers
\* the calls that are left, otherwise the next batch begins.  A lone call
\* looks at the budget first, a parallel batch at the context.
BatchEnds ==
  LET stop == \E i \in InBatch : status[i] = "stopped"
      alone == Cardinality(InBatch) = 1
      left == {i \in Calls : i \notin InBatch /\ status[i] = "waiting"}
  IN
  /\ pc = "batch" /\ Running = {}
  /\ cancelled \/ InBatch \cap Waiting = {}
  /\ CASE stop /\ (alone \/ ~cancelled) ->
            Fill("blocked") /\ pc' = "round" /\ UNCHANGED first
       [] cancelled /\ ~(stop /\ alone) ->
            Fill("cancelled") /\ pc' = "round" /\ UNCHANGED first
       [] ~cancelled /\ ~stop /\ left = {} ->
            pc' = "round" /\ UNCHANGED <<status, first>>
       [] ~cancelled /\ ~stop /\ left # {} ->
            /\ first' \in left /\ \A i \in left : first' <= i
            /\ UNCHANGED <<pc, status>>
  /\ UNCHANGED <<loopVars, cancelled, kind, seen, steerVars>>

\* The rest of handleToolRound: the results join the conversation, then Run
\* returns when cancelled or when the todo list has stalled; otherwise the
\* nudge to stop is sent when the recovery budget or the steps are used up.
RoundEnds ==
  /\ pc = "round"
  /\ rounds' = IF rounds <= limit THEN rounds + 1 ELSE rounds
  /\ IF cancelled
       THEN Return("failed") /\ UNCHANGED <<step, grace, finalizing>>
       ELSE \/ Return("paused") /\ UNCHANGED <<step, grace, finalizing>>
            \/ /\ Continue
               /\ finalizing' = \E i \in Calls : status[i] = "stopped"
               /\ grace' = (~finalizing' /\ limit > 0 /\ step + 1 >= limit)
  /\ UNCHANGED <<run, limit, recoveries, cancelled, batchVars, steerVars>>

----------------------------------------------------------------------------
(* The others *)

\* Mutant of Finish: the intake stays open.
FinishLeavingOpen ==
  /\ pc = "exit"
  /\ pc' = "idle"
  /\ queue' = <<>>
  /\ fate' = [s \in Steers |-> IF fate[s] = "queued" THEN "unapplied" ELSE fate[s]]
  /\ UNCHANGED <<loopVars, cancelled, batchVars, intake, during>>

\* The deferred flushSteerQueue, then Run returns: steers still queued are
\* recorded as not applied.
Finish ==
  /\ pc = "exit"
  /\ pc' = "idle"
  /\ intake' = FALSE /\ queue' = <<>>
  /\ fate' = [s \in Steers |-> IF fate[s] = "queued" THEN "unapplied" ELSE fate[s]]
  /\ UNCHANGED <<loopVars, cancelled, batchVars, during>>

\* Steer(text), by the user or by the recovery gate inside a tool call: the
\* steer is accepted while the intake is open, else the caller keeps it.
Steer(s) ==
  /\ intake
  /\ fate[s] = "none" /\ \A r \in 1 .. (s - 1) : fate[r] # "none"
  /\ queue' = Append(queue, s)
  /\ fate' = [fate EXCEPT ![s] = "queued"]
  /\ during' = [during EXCEPT ![s] = run]
  /\ UNCHANGED <<pc, loopVars, cancelled, batchVars, intake>>

\* The context of the Run is cancelled.
Cancel ==
  /\ pc # "idle" /\ ~cancelled
  /\ cancelled' = TRUE
  /\ UNCHANGED <<pc, loopVars, batchVars, steerVars>>

\* The loop and the calls it waits for.
AgentStep ==
  \/ SendRequest \/ OutOfSteps
  \/ StreamInterrupted \/ StreamFails \/ Answered
  \/ \E n \in Calls, kinds \in [Calls -> {"read", "serial"}] :
       /\ \A i \in Calls : i > n => kinds[i] = "read"
       /\ CallsReceived(n, kinds)
  \/ AnswerRefused \/ AnswerAccepted \/ Summarized
  \/ \E i \in Calls : StartCall(i) \/ EndCall(i)
  \/ BatchEnds \/ RoundEnds \/ Finish

Next == AgentStep \/ Begin \/ Cancel \/ \E s \in Steers : Steer(s)

Spec == Init /\ [][Next]_vars

\* The provider's stream and every tool call come to an end, and the loop's
\* goroutine runs.
FairSpec == Spec /\ WF_vars(AgentStep)

----------------------------------------------------------------------------
(* Properties *)

LoopTypeOK ==
  /\ pc \in Places /\ outcome \in Outcomes
  /\ run \in 0 .. MaxRuns /\ limit \in Nat
  /\ step \in Nat /\ rounds \in Nat /\ recoveries \in 0 .. MaxRecoveries

FlagTypeOK ==
  /\ grace \in BOOLEAN /\ finalizing \in BOOLEAN
  /\ cancelled \in BOOLEAN /\ intake \in BOOLEAN

BatchTypeOK ==
  /\ kind \in [Calls -> {"read", "serial"}]
  /\ status \in [Calls -> Statuses]
  /\ first \in Nat
  /\ seen \in [Calls -> SUBSET Calls]

SteerTypeOK ==
  /\ queue \in Seq(Steers)
  /\ fate \in [Steers -> {"none", "queued", "applied", "unapplied"}]
  /\ during \in [Steers -> 0 .. MaxRuns]

TypeOK == LoopTypeOK /\ FlagTypeOK /\ BatchTypeOK /\ SteerTypeOK

\* A serial call and any other call of the response run in the order the model
\* gave them: the earlier one has ended before the later one starts
\* (agent.go, partitionToolCalls and executeBatch).
ProviderOrder ==
  \A i, j \in Calls :
    /\ j < i /\ "serial" \in {kind[i], kind[j]}
    /\ status[i] \in {"running", "ran", "stopped"}
    => j \in seen[i]

\* When a round is over every call has an answer, and the calls that were
\* executed are a prefix of the response: none ran after one that was
\* cancelled or blocked (executeBatch, markCancelled, markRecoveryStopped).
ExecutedIsPrefix ==
  /\ pc # "batch" => Running \cup Waiting = {}
  /\ \A i, j \in Calls :
       /\ j < i /\ status[j] \in {"cancelled", "blocked"}
       => status[i] \notin {"running", "ran", "stopped"}

\* No more tool rounds are executed than the budget allows, whatever mixture
\* of retries, recoveries, steers and nudges the Run goes through (run_loop.go,
\* runToolLoop).
RoundsWithinBudget == limit > 0 => rounds <= limit

\* A Run that returns a final answer has shown the model every steer it
\* accepted: none slipped in between the last look at the queue and the return
\* (agent.go, closeSteerIntakeIfIdle).
DoneAppliesSteers ==
  outcome = "done" => \A s \in Steers : during[s] = run => fate[s] = "applied"

\* Between Runs no accepted steer is left in the queue, where neither the
\* model nor the transcript would ever see it (agent.go, Steer and
\* flushSteerQueue).
NoSteerLeftBehind ==
  pc = "idle" => \A s \in Steers : fate[s] # "queued"

\* A Run with a budget returns, and so does one that is cancelled (run_loop.go).
RunReturns == (pc # "idle" /\ (limit > 0 \/ cancelled)) ~> pc = "idle"
=============================================================================
