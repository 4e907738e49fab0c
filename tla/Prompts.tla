------------------------------ MODULE Prompts -------------------------------
(***************************************************************************)
(* The questions a turn puts to the user (internal/control/approval.go,    *)
(* and requestApprovalDecisionWithOptions, Ask, Approve, AnswerQuestion    *)
(* and ApplyToolApprovalMode in controller.go), on top of the turns of     *)
(* TurnGate: a turn does not end while one of its calls waits, and Cancel  *)
(* and Close drop every prompt before they cancel the turn.                *)
(*                                                                         *)
(* Each member of Requests is one decision a tool call of the turn TurnOf  *)
(* needs; it is its own prompt id.                                         *)
(***************************************************************************)
EXTENDS TurnGate

CONSTANTS Requests,
          TurnOf,        \* the turn that makes the request
          ScopeOf,       \* what a session grant for it covers
          Kinds,         \* what kinds of decisions the requests may be
          MaxSwitches,   \* bound on the changes of posture
          Timeouts,      \* whether approvalTimeout may be set, and unset
          NoRequest

\* What kind of decision is asked for:
\*   tool    an ordinary permission, which an allow policy would grant
\*   asked   an ordinary permission that an explicit ask rule requires
\*   human   a dynamic shell command (requireHuman)
\*   fresh   a sandbox escape or a write of managed config
\*   memory  a write to memory
\*   plan    the approval of a plan
\*   ask     a question of the ask tool
Ordinary == {"tool", "asked"}
Unsafe == Ordinary \union {"human"}
Once == {"memory", "plan", "ask"}
Classes == Unsafe \union {"fresh"} \union Once

ASSUME RequestAssumption == TurnOf \in [Requests -> Turns] /\ DOMAIN ScopeOf = Requests
ASSUME KindAssumption == Kinds \subseteq [Requests -> Classes]
ASSUME BoundAssumption == MaxSwitches \in Nat /\ Timeouts \subseteq BOOLEAN
ASSUME NoneAssumption == NoRequest \notin Requests

VARIABLES
  class,      \* the kind of each decision
  timed,      \* approvalTimeout is set
  mode,       \* toolApprovalMode
  window,     \* planAutoApprove, as the plan that is being executed
  prompts,    \* approvals and asks: the registered prompts
  granted,    \* session grants: the kind of decision and the scope
  holder,     \* who has promptMu
  rpc,        \* where the request is
  reply,      \* what is in its reply channel
  signal,     \* what someone who removed its prompt is about to send
  outcome,    \* what the request returned
  said,       \* what the user answered to it
  switches,   \* the number of changes of posture
  adopted,    \* the postures there have been
  dismissed   \* the prompt that a call of Cancel on behalf of it dismisses

posture    == <<mode, window, granted, switches, adopted>>
waiting    == <<prompts, holder, rpc, reply, signal, outcome, said, dismissed>>
promptVars == <<class, timed, posture, waiting>>
vars       == <<turnVars, promptVars>>

\* "ask" is also dontask: its gate refuses before a request is made, and a switch
\* to it drains nothing.
Modes == {"ask", "auto", "yolo"}
Answers == {"allow", "session", "deny"}
Steps == {"idle", "queued", "locked", "hook", "register", "waiting", "expiring",
          "granting", "approved", "executing", "returned"}

\* Between promptMu.Lock and its deferred Unlock.
Locked == {"locked", "hook", "register", "waiting", "expiring"}

PromptTypeOK ==
  /\ class \in [Requests -> Classes]
  /\ timed \in BOOLEAN
  /\ mode \in Modes
  /\ window \in Requests \union {NoRequest}
  /\ prompts \subseteq Requests
  /\ granted \subseteq Classes \X {ScopeOf[r] : r \in Requests}
  /\ holder \in Requests \union {NoRequest}
  /\ rpc \in [Requests -> Steps]
  /\ \A r \in Requests : rpc[r] \in Locked <=> holder = r
  /\ reply \in [Requests -> Answers \union {"none"}]
  /\ signal \in [Requests -> Answers \union {"none"}]
  /\ outcome \in [Requests -> {"none", "allow", "deny", "error"}]
  /\ said \in [Requests -> Answers \union {"none"}]
  /\ switches \in 0 .. MaxSwitches
  /\ mode \in adopted /\ adopted \subseteq Modes
  /\ dismissed \in [Cancellers -> Requests \union {NoRequest}]

Init ==
  /\ TurnInit
  /\ class \in Kinds /\ timed \in Timeouts
  /\ mode = "ask" /\ adopted = {"ask"} /\ window = NoRequest /\ switches = 0
  /\ prompts = {} /\ granted = {} /\ holder = NoRequest
  /\ rpc = [r \in Requests |-> "idle"]
  /\ reply = [r \in Requests |-> "none"]
  /\ signal = [r \in Requests |-> "none"]
  /\ outcome = [r \in Requests |-> "none"]
  /\ said = [r \in Requests |-> "none"]
  /\ dismissed = [k \in Cancellers |-> NoRequest]

-----------------------------------------------------------------------------
\* Decisions without the user.

Grant(r) == <<class[r], ScopeOf[r]>>

\* Mutant of PreApproved: the posture answers fresh decisions too.
PreApprovedAll(r) ==
  class[r] # "ask" /\ (mode = "yolo" \/ window # NoRequest \/ Grant(r) \in granted)

\* preApprovedForDecisionOptions: yolo answers every permission, the execution
\* of a plan those an allow policy would grant, a grant what it was given for.
PreApproved(r) ==
  \/ mode = "yolo" /\ class[r] \in Unsafe
  \/ window # NoRequest /\ class[r] = "tool"
  \/ Grant(r) \in granted

\* What a switch to the mode m removes from the prompts and answers.
Drained(m) ==
  {r \in prompts : \/ m = "yolo" /\ class[r] \in Unsafe
                   \/ m = "auto" /\ class[r] = "tool"}

-----------------------------------------------------------------------------
\* The request.

Step(r, from, to) == rpc[r] = from /\ rpc' = [rpc EXCEPT ![r] = to]

\* The request returns v; whoever holds promptMu gives it back.
Returns(r, v) ==
  /\ outcome' = [outcome EXCEPT ![r] = v]
  /\ holder' = IF holder = r THEN NoRequest ELSE holder

\* The first check, before promptMu; Ask has none.
Ask(r) ==
  /\ at[TurnOf[r]] = "running"
  /\ \/ PreApproved(r) /\ Step(r, "idle", "returned") /\ Returns(r, "allow")
     \/ ~PreApproved(r) /\ Step(r, "idle", "queued") /\ UNCHANGED <<holder, outcome>>
  /\ UNCHANGED <<turnVars, class, timed, posture, prompts, reply, signal, said, dismissed>>

LockPrompt(r) ==
  /\ holder = NoRequest /\ holder' = r
  /\ Step(r, "queued", "locked")
  /\ UNCHANGED <<turnVars, class, timed, posture, prompts, reply, signal, outcome, said, dismissed>>

\* The check again: a grant may have landed while the request was queued.
Recheck(r) ==
  /\ \/ PreApproved(r) /\ Step(r, "locked", "returned") /\ Returns(r, "allow")
     \/ /\ ~PreApproved(r) /\ UNCHANGED <<holder, outcome>>
        /\ Step(r, "locked", IF class[r] \in {"plan", "ask"} THEN "register" ELSE "hook")
  /\ UNCHANGED <<turnVars, class, timed, posture, prompts, reply, signal, said, dismissed>>

\* A PermissionRequest hook may deny anything and allow ordinary permissions.
Hook(r) ==
  /\ \/ Step(r, "hook", "returned")
        /\ \/ Returns(r, "deny")
           \/ class[r] \in Ordinary /\ Returns(r, "allow")
     \/ Step(r, "hook", "register") /\ UNCHANGED <<holder, outcome>>
  /\ UNCHANGED <<turnVars, class, timed, posture, prompts, reply, signal, said, dismissed>>

Register(r) ==
  /\ Step(r, "register", "waiting")
  /\ prompts' = prompts \union {r}
  /\ UNCHANGED <<turnVars, class, timed, posture, holder, reply, signal, outcome, said, dismissed>>

\* case r := <-reply; requestApprovalWithReasonOptions and the approvers of
\* fresh decisions record a session grant after promptMu is released.
Receive(r) ==
  /\ reply[r] # "none"
  /\ reply' = [reply EXCEPT ![r] = "none"]
  /\ Step(r, "waiting", CASE reply[r] = "session" /\ class[r] \notin Once -> "granting"
                          [] reply[r] # "deny" /\ class[r] = "plan" -> "approved"
                          [] OTHER -> "returned")
  /\ Returns(r, IF reply[r] = "deny" THEN "deny" ELSE "allow")
  /\ UNCHANGED <<turnVars, class, timed, posture, prompts, signal, said, dismissed>>

GrantSession(r) ==
  /\ Step(r, "granting", "returned")
  /\ granted' = granted \union {Grant(r)}
  /\ UNCHANGED <<turnVars, class, timed, mode, window, switches, adopted, prompts, holder, reply,
                 signal, outcome, said, dismissed>>

\* Mutant of Expire: a wait that times out cancels its turn.
ExpireCancels(r) ==
  /\ timed \/ TurnOf[r] \in cancelled
  /\ Step(r, "waiting", "expiring")
  /\ cancelled' = cancelled \union {TurnOf[r]}
  /\ UNCHANGED <<gate, entry, at, home, session, calls, class, timed, posture, prompts, holder,
                 reply, signal, outcome, said, dismissed>>

\* Mutant of Expire: the wait is not bound to the context of the turn.
ExpireOnTimeout(r) ==
  /\ timed
  /\ Step(r, "waiting", "expiring")
  /\ UNCHANGED <<turnVars, class, timed, posture, prompts, holder, reply, signal,
                 outcome, said, dismissed>>

\* case <-waitCtx.Done(): the turn is cancelled, or the wait times out.
Expire(r) ==
  /\ timed \/ TurnOf[r] \in cancelled
  /\ Step(r, "waiting", "expiring")
  /\ UNCHANGED <<turnVars, class, timed, posture, prompts, holder, reply, signal,
                 outcome, said, dismissed>>

\* Mutant of Abandon: the prompt stays registered.
AbandonOnly(r) ==
  /\ Step(r, "expiring", "returned") /\ Returns(r, "error")
  /\ UNCHANGED <<turnVars, class, timed, posture, prompts, reply, signal, said, dismissed>>

Abandon(r) ==
  /\ Step(r, "expiring", "returned") /\ Returns(r, "error")
  /\ prompts' = prompts \ {r}
  /\ UNCHANGED <<turnVars, class, timed, posture, reply, signal, said, dismissed>>

-----------------------------------------------------------------------------
\* The user.

\* Mutant of Answer: the prompt is looked up and stays registered.
AnswerKept(r, v) ==
  /\ r \in prompts /\ (class[r] = "ask" => v = "allow")
  /\ signal' = [signal EXCEPT ![r] = v]
  /\ said' = [said EXCEPT ![r] = v]
  /\ UNCHANGED <<turnVars, class, timed, posture, prompts, holder, rpc, reply, outcome, dismissed>>

\* Approve, and AnswerQuestion with a selection, remove the prompt under the
\* mutex; the answer is sent afterwards.
Answer(r, v) ==
  /\ r \in prompts /\ (class[r] = "ask" => v = "allow")
  /\ prompts' = prompts \ {r}
  /\ signal' = [signal EXCEPT ![r] = v]
  /\ said' = [said EXCEPT ![r] = v]
  /\ UNCHANGED <<turnVars, class, timed, posture, holder, rpc, reply, outcome, dismissed>>

Send(r) ==
  /\ signal[r] # "none" /\ reply[r] = "none"
  /\ reply' = [reply EXCEPT ![r] = signal[r]]
  /\ signal' = [signal EXCEPT ![r] = "none"]
  /\ UNCHANGED <<turnVars, class, timed, posture, prompts, holder, rpc, outcome, said, dismissed>>

\* AnswerQuestion without a selection removes the question and cancels the
\* turn in flight instead of answering (Cancel itself looks again).
Dismiss(k, r) ==
  /\ r \in prompts /\ class[r] = "ask"
  /\ canceller[k] = "idle" /\ dismissed[k] = NoRequest
  /\ dismissed' = [dismissed EXCEPT ![k] = r]
  /\ prompts' = prompts \ {r}
  /\ UNCHANGED <<turnVars, class, timed, posture, holder, rpc, reply, signal, outcome, said>>

\* It finds no turn: the empty answer is sent.
DismissIdle(k) ==
  /\ dismissed[k] # NoRequest
  /\ CancelNothing(k)
  /\ signal' = [signal EXCEPT ![dismissed[k]] = "allow"]
  /\ UNCHANGED <<class, timed, posture, prompts, holder, rpc, reply, outcome, said, dismissed>>

\* ApplyToolApprovalMode; what it drained is answered after the mutex is
\* released and the gates are rebuilt.
SwitchMode(m) ==
  /\ switches < MaxSwitches /\ m # mode
  /\ switches' = switches + 1
  /\ mode' = m /\ adopted' = adopted \union {m}
  /\ prompts' = prompts \ Drained(m)
  /\ signal' = [r \in Requests |-> IF r \in Drained(m) THEN "allow" ELSE signal[r]]
  /\ UNCHANGED <<turnVars, class, timed, window, granted, holder, rpc, reply, outcome,
                 said, dismissed>>

\* An approved plan is executed in the same turn: the window is open meanwhile.
OpenWindow(r) ==
  /\ Step(r, "approved", "executing")
  /\ window' = r
  /\ UNCHANGED <<turnVars, class, timed, mode, granted, switches, adopted, prompts, holder,
                 reply, signal, outcome, said, dismissed>>

CloseWindow(r) ==
  /\ Step(r, "executing", "returned")
  /\ window' = NoRequest
  /\ UNCHANGED <<turnVars, class, timed, mode, granted, switches, adopted, prompts, holder,
                 reply, signal, outcome, said, dismissed>>

-----------------------------------------------------------------------------
\* The steps of TurnGate, with what they do to the prompts.

Quiet(t) == \A r \in Requests : TurnOf[r] = t => rpc[r] \in {"idle", "returned"}

BodyEnds(t) ==
  /\ Finish(t) \/ Return(t)
  /\ Quiet(t)
  /\ UNCHANGED promptVars

\* clearAll drops every prompt and signals nobody.
ClearAll(k) ==
  /\ ClearPrompts(k)
  /\ prompts' = {}
  /\ UNCHANGED <<class, timed, posture, holder, rpc, reply, signal, outcome, said, dismissed>>

TurnStep ==
  /\ \/ \E t \in Turns : Admit(t) \/ RunTurn(t) \/ CallerGone(t) \/ Delivered(t)
     \/ BeginRotation \/ EndRotation \/ Resume
     \/ \E k \in Cancellers : \/ CaptureCancel(k) \/ Fire(k)
                              \/ dismissed[k] = NoRequest /\ (CancelNothing(k) \/ Close(k))
  /\ UNCHANGED promptVars

RequestStep(r) ==
  \/ Ask(r) \/ LockPrompt(r) \/ Recheck(r) \/ Hook(r) \/ Register(r)
  \/ Receive(r) \/ GrantSession(r) \/ OpenWindow(r) \/ CloseWindow(r)
  \/ Expire(r) \/ Abandon(r)

Next ==
  \/ TurnStep
  \/ \E t \in Turns : BodyEnds(t)
  \/ \E k \in Cancellers : ClearAll(k) \/ DismissIdle(k)
  \/ \E r \in Requests : \/ RequestStep(r) \/ Send(r)
                         \/ \E v \in Answers : Answer(r, v)
                         \/ \E k \in Cancellers : Dismiss(k, r)
  \/ \E m \in Modes : SwitchMode(m)

Spec == Init /\ [][Next]_vars

\* Goroutines run on: a request that can take its next step without the user,
\* a hook included, takes it; a call of Approve, AnswerQuestion, Cancel or Close
\* carries through; a body that waits for nobody ends.
Fairness ==
  /\ \A r \in Requests : WF_vars(RequestStep(r)) /\ WF_vars(Send(r))
  /\ \A k \in Cancellers :
       /\ WF_vars(ClearAll(k)) /\ WF_vars(Fire(k) /\ UNCHANGED promptVars)
       /\ WF_vars(dismissed[k] # NoRequest
                    /\ \/ DismissIdle(k)
                       \/ CaptureCancel(k) /\ UNCHANGED promptVars)
  /\ \A t \in Turns : /\ WF_vars(BodyEnds(t))
                       /\ WF_vars(Delivered(t) /\ UNCHANGED promptVars)

FairSpec == Spec /\ Fairness
-----------------------------------------------------------------------------
\* The user's word: to this request, or a session grant that covers it.
Consented(r) ==
  \/ said[r] \in {"allow", "session"}
  \/ class[r] \notin Once /\ \E q \in Requests : said[q] = "session" /\ Grant(q) = Grant(r)

\* Sandbox escapes, managed config, memory and plans run only on the user's word
\* (controller.go:6006-6013, 6039-6044), and dynamic commands only on that or in
\* a session that has been in yolo: no hook, plan, drain, timeout or cancellation
\* answers for the user, and no grant covers a memory write or a plan.
UserDecides ==
  \A r \in Requests : outcome[r] = "allow" =>
    /\ class[r] \in {"fresh", "memory", "plan"} => Consented(r)
    /\ class[r] = "human" => Consented(r) \/ "yolo" \in adopted

\* A call that the user has refused never runs, whatever else happens to its
\* prompt before and after the answer.
RefusalSticks == \A r \in Requests : said[r] = "deny" => outcome[r] # "allow"

\* "buffered, never blocks" (controller.go:1823, 2130): nobody sends to a reply
\* channel that somebody else has answered or is about to, so no caller of
\* Approve or of a posture switch is stuck behind a full channel.
OneReplyPerPrompt ==
  \A r \in Requests : /\ r \in prompts => signal[r] = "none" /\ reply[r] = "none"
                      /\ signal[r] # "none" => reply[r] = "none"

\* Whoever registered a prompt still waits for it, and holds promptMu: no prompt
\* is replayed to a frontend, or keeps a session busy, that nobody asks any more,
\* and at most one is before the user (approval.go:54-55).
NoGhostPrompt == \A r \in prompts : rpc[r] \in {"waiting", "expiring"} /\ holder = r

\* The window belongs to the turn whose plan was approved and is shut when that
\* turn ends: "a later turn (even "continue") falls back to the normal per-tool
\* approval" (turn_orchestrator.go:328-329).
WindowInTurn == window # NoRequest => at[TurnOf[window]] = "running"

\* What is asked is asked by the turn that runs: no operation that takes the
\* rotation gate is under way under a prompt (a Resume may be, it takes none), and
\* the turn Cancel finds behind one is the turn that waits for it
\* (controller.go:1709-1719).
PromptsOfCurrentTurn ==
  \A r \in prompts : "rotating" \notin flags /\ current = TurnOf[r]

\* "A goroutine blocked awaiting approval unblocks via the cancelled context"
\* (controller.go:1709): a request that waits can still be answered, or its turn
\* is cancelled or about to be by the very call that dropped its prompt.
WaiterCanEnd ==
  \A r \in Requests : rpc[r] = "waiting" =>
    \/ r \in prompts \/ signal[r] # "none" \/ reply[r] # "none"
    \/ TurnOf[r] \in cancelled
    \/ \E k \in Cancellers : \/ target[k] = TurnOf[r] /\ canceller[k] = "cleared"
                             \/ dismissed[k] = r /\ canceller[k] # "done"

\* "while on, every tool approval request is auto-allowed (writers and bash run
\* without asking)" (controller.go:5270): in yolo no permission waits for an answer.
YoloAsksNothing == mode = "yolo" => \A r \in prompts : class[r] \notin Unsafe

\* Cancel and Close end the turn they found, whatever its calls wait for.
CancelEndsTurn ==
  \A k \in Cancellers, t \in Turns :
    canceller[k] = "captured" /\ target[k] = t ~> at[t] \notin {"running", "delivering"}

\* Turns behave as TurnGate says, whatever the requests do.
IsTurnGate == TurnSpec
=============================================================================
