---------------------------- MODULE TurnRecovery ----------------------------
(***************************************************************************)
(* The transcript of a session around a turn that does not end well        *)
(* (internal/control): the marker of the turn in flight, the cleanup after *)
(* a cancelled or failed turn, the saves, and the repair of a session      *)
(* whose process died in a turn.                                           *)
(*                                                                         *)
(* Two goroutines change the saved transcript, the turn and the autosave.  *)
(* Compaction shortens the transcript while positions in it are kept.      *)
(***************************************************************************)
EXTENDS Integers, FiniteSets, Sequences, SequencesExt

CONSTANTS
  Texts,      \* what a user may type
  Repeats,    \* the user may type a text again
  Rewrites,   \* the planner may rewrite the prompt it hands to the executor
  Width,      \* tool calls in one response
  MaxTurns,   \* bound: turns
  MaxWork,    \* bound: messages a turn adds after its prompt, the last one apart
  MaxFolds,   \* bound: compactions
  MaxCrashes  \* bound: crashes

ASSUME RecoveryAssumption ==
  /\ Repeats \in BOOLEAN /\ Rewrites \in BOOLEAN
  /\ Width \in Nat \ {0} /\ MaxTurns \in Nat /\ MaxWork \in Nat
  /\ MaxFolds \in Nat /\ MaxCrashes \in Nat

VARIABLES
  log,          \* the session's messages
  disk,         \* the transcript file
  marker,       \* InFlightTurn in the session's sidecar file, or NoMarker
  phase,        \* where the turn is: see Phases
  turn,         \* turns begun so far, the time of everything they stamp
  kind,         \* of the turn: "visible", "goal" or "plan"
  text,         \* what the user typed
  base,         \* startMessages
  start,        \* startMessages, or execStart of a plan turn
  outcome,      \* what Run returned
  rounds,       \* history: tool rounds of the turn whose results are complete
  interrupted,  \* history: the turns cleaned up as interrupted
  folds, crashes

turnVars == <<turn, kind, text, base, start>>
vars == <<log, disk, marker, phase, turnVars, outcome, rounds, interrupted,
          folds, crashes>>

Phases == {"idle", "open", "run", "ended", "cleaned", "cleared", "closing",
           "dead", "repaired"}
NoMarker == [turn |-> 0, start |-> 0, keep |-> FALSE]
NoText == "no text"
Rewritten == "rewritten by the planner"

\* A message: what it is, the turn it belongs to, its text when it is a
\* prompt; "handoff" says that a local record is pending, and that a prompt
\* or an order carries the recovery facts of the turn before.
Message(k, t) == [kind |-> k, turn |-> t, text |-> NoText, handoff |-> FALSE]

\* The messages with the role of the user.  An order is the controller's own
\* prompt, a note a steer or a nudge, a digest the summary of folded messages.
User == {"prompt", "order", "note", "digest"}
Stamped == {"prompt", "order"}

Init ==
  /\ log = <<>> /\ disk = <<>> /\ marker = NoMarker
  /\ phase = "idle" /\ turn = 0 /\ kind = "visible" /\ text = NoText
  /\ base = 0 /\ start = 0 /\ outcome = "none" /\ rounds = 0
  /\ interrupted = {} /\ folds = 0 /\ crashes = 0

----------------------------------------------------------------------------
(* Reading a transcript *)

\* completeToolTurnEnd: calls followed by their results and no more.
IsRound(l, i) ==
  /\ l[i].kind = "calls"
  /\ i + Width <= Len(l)
  /\ \A k \in 1 .. Width : l[i + k].kind = "result"
  /\ i + Width < Len(l) => l[i + Width + 1].kind # "result"

InRound(l, i) == \E j \in 1 .. i : i <= j + Width /\ IsRound(l, j)

\* Results of the last calls are still missing.
Midway(l) ==
  l # <<>> /\ Last(l).kind \in {"calls", "result"} /\ ~InRound(l, Len(l))

\* pendingInterruptedRecovery: a record after the last prompt is pending.
Pending(l) ==
  \E i \in 1 .. Len(l) :
    /\ l[i].kind = "local" /\ l[i].handoff
    /\ \A j \in i .. Len(l) : l[j].kind # "prompt"

\* Mutant of ResolveStart: the time of a message is not compared.
ResolveUnstamped(l, at, keep, since, typed) ==
  LET Fits(i) == IF keep
                   THEN l[i].kind = "prompt" /\ (typed # NoText => l[i].text = typed)
                   ELSE l[i].kind \in User
      stamped == {i \in 1 .. Len(l) : Fits(i) /\ l[i].kind \in Stamped}
  IN IF stamped # {} THEN CHOOSE i \in stamped : \A j \in stamped : i <= j
     ELSE IF at + 1 \in 1 .. Len(l) /\ Fits(at + 1) THEN at + 1
     ELSE 0

\* resolveInterruptedTurnStart, 0 for "not found": the first fitting message
\* stamped since the turn began, else the last one with the text typed, else
\* the message at the position the turn began at.
ResolveStart(l, at, keep, since, typed) ==
  LET Fits(i) == IF keep
                   THEN l[i].kind = "prompt" /\ (typed # NoText => l[i].text = typed)
                   ELSE l[i].kind \in User
      stamped == {i \in 1 .. Len(l) :
                    Fits(i) /\ l[i].kind \in Stamped /\ l[i].turn >= since}
      same == {i \in 1 .. Len(l) : Fits(i)}
  IN IF since > 0 /\ stamped # {}
       THEN CHOOSE i \in stamped : \A j \in stamped : i <= j
     ELSE IF typed # NoText /\ same # {}
       THEN CHOOSE i \in same : \A j \in same : j <= i
     ELSE IF at + 1 \in 1 .. Len(l) /\ Fits(at + 1) THEN at + 1
     ELSE 0

\* The start, or the position as it is when it cannot be resolved.
StartOr(l, at, keep, since, typed) ==
  LET found == ResolveStart(l, at, keep, since, typed)
  IN IF found > 0 THEN found ELSE IF at < Len(l) THEN at + 1 ELSE Len(l) + 1

----------------------------------------------------------------------------
(* The cleanup *)

\* What follows the prompt of an interrupted turn: whole rounds and digests
\* stay, other user messages go, the rest becomes a record for display only.
Remains(l) ==
  LET one(i) == CASE l[i].kind = "digest" \/ InRound(l, i) -> <<l[i]>>
                  [] l[i].kind \in User \ {"digest"} -> <<>>
                  [] OTHER -> <<Message("local", l[i].turn)>>
  IN FlattenSeq([i \in 1 .. Len(l) |-> one(i)])

\* Mutant of WithHandoff: only a turn that left a record gets the handoff.
HandoffOnlyOnRecord(l, n) ==
  LET locals == {i \in 1 .. Len(l) : i > n /\ l[i].kind = "local"}
  IN IF locals = {} THEN l
     ELSE [l EXCEPT ![CHOOSE i \in locals : \A j \in locals : j <= i].handoff = TRUE]

\* The last record after position n hands the recovery facts to the next
\* prompt; a turn without one gets an empty record.
WithHandoff(l, n) ==
  LET locals == {i \in 1 .. Len(l) : i > n /\ l[i].kind = "local"}
  IN IF locals = {}
       THEN Append(l, [Message("local", turn) EXCEPT !.handoff = TRUE])
       ELSE [l EXCEPT ![CHOOSE i \in locals : \A j \in locals : j <= i].handoff = TRUE]

\* stripCancelledVisibleTurnMessagesAfterWithFallbackAt
StripVisible(l, at, since, typed) ==
  LET first == StartOr(l, at, TRUE, since, typed)
      prompts == {i \in first .. Len(l) : l[i].kind = "prompt"}
      own == CHOOSE i \in prompts : \A j \in prompts : i <= j
      head == SubSeq(l, 1, first - 1)
      kept == IF prompts # {} THEN <<[l[own] EXCEPT !.handoff = FALSE]>>
              ELSE IF typed # NoText
                     THEN <<[Message("prompt", turn) EXCEPT !.text = typed]>>
                     ELSE <<>>
      rest == SubSeq(l, IF prompts # {} THEN own + 1 ELSE first, Len(l))
  IN IF kept = <<>> /\ first > Len(l) THEN l
     ELSE WithHandoff(head \o kept \o Remains(rest), first - 1 + Len(kept))

\* Mutant of StripSynthetic: the position is not looked up again.
StripAtIndex(l, at, since) ==
  SubSeq(l, 1, at)

\* stripInterruptedSyntheticTurnMessagesAfter: nothing of the turn stays.
StripSynthetic(l, at, since) ==
  SubSeq(l, 1, StartOr(l, at, FALSE, since, NoText) - 1)

----------------------------------------------------------------------------
(* A turn *)

\* runOrchestratedTurn up to the run: the marker goes to the sidecar file
\* before the prompt is in the transcript.
BeginTurn(k, typed) ==
  /\ phase = "idle" /\ turn < MaxTurns
  /\ k = "goal" => log # <<>>
  /\ phase' = "open" /\ outcome' = "none" /\ rounds' = 0
  /\ turn' = turn + 1 /\ kind' = k /\ text' = typed
  /\ base' = Len(log) /\ start' = Len(log)
  /\ marker' = [turn |-> turn + 1, start |-> Len(log), keep |-> k = "visible"]
  /\ UNCHANGED <<log, disk, interrupted, folds, crashes>>

\* The turn that executes an approved plan, inside the turn that planned.
BeginPlan ==
  /\ phase = "closing" /\ kind # "plan" /\ outcome = "done" /\ turn < MaxTurns
  /\ phase' = "open" /\ outcome' = "none" /\ rounds' = 0
  /\ turn' = turn + 1 /\ kind' = "plan" /\ text' = NoText
  /\ start' = Len(log)
  /\ marker' = [turn |-> turn + 1, start |-> Len(log), keep |-> FALSE]
  /\ UNCHANGED <<log, disk, base, interrupted, folds, crashes>>

Work == Cardinality({i \in 1 .. Len(log) : log[i].turn = turn}) - 1

\* Run appends the prompt, with the facts of an interrupted turn before it.
AddPrompt ==
  /\ phase = "open"
  /\ \E shown \in {text} \cup (IF Rewrites /\ kind = "visible" THEN {Rewritten} ELSE {}) :
       log' = Append(log,
                [Message(IF kind = "visible" THEN "prompt" ELSE "order", turn)
                   EXCEPT !.text = shown, !.handoff = Pending(log)])
  /\ phase' = "run"
  /\ UNCHANGED <<disk, marker, turnVars, outcome, rounds, interrupted, folds, crashes>>

\* The planner fails or is cancelled before the executor has the prompt.
PlannerStops(result) ==
  /\ phase = "open" /\ result \in {"cancelled", "failed"}
  /\ phase' = "ended" /\ outcome' = result
  /\ UNCHANGED <<log, disk, marker, turnVars, rounds, interrupted, folds, crashes>>

\* A message of the loop: a response with tool calls, the answer, a steer or a
\* nudge.
AddMessage(k) ==
  /\ phase = "run" /\ ~Midway(log) /\ Work < MaxWork
  /\ k \in {"calls", "answer", "note"}
  /\ log' = Append(log, Message(k, turn))
  /\ UNCHANGED <<disk, marker, phase, turnVars, outcome, rounds, interrupted,
                 folds, crashes>>

AddResult ==
  /\ phase = "run" /\ Midway(log)
  /\ log' = Append(log, Message("result", turn))
  /\ rounds' = IF Midway(log') THEN rounds ELSE rounds + 1
  /\ UNCHANGED <<disk, marker, phase, turnVars, outcome, interrupted, folds, crashes>>

\* A stream breaks off and is retried: a record of it, and a note.
AddPartial ==
  /\ phase = "run" /\ ~Midway(log) /\ Work + 1 < MaxWork
  /\ log' = log \o <<Message("local", turn), Message("note", turn)>>
  /\ UNCHANGED <<disk, marker, phase, turnVars, outcome, rounds, interrupted,
                 folds, crashes>>

TurnStart == CHOOSE i \in 1 .. Len(log) :
               log[i].turn = turn /\ log[i].kind \in Stamped

Foldable(l) == SelectSeq(l, LAMBDA m : m.kind \notin User \cup {"local"})
Spared(l) == SelectSeq(l, LAMBDA m : m.kind \in User \cup {"local"})

\* Mutant of Compact: the active turn may be folded.
CompactAnything ==
  /\ phase = "run" /\ ~Midway(log) /\ folds < MaxFolds
  /\ folds' = folds + 1
  /\ \E to \in 2 .. Len(log) :
       /\ log[to].kind # "result"
       /\ LET region == SubSeq(log, 1, to - 1) IN
            /\ Foldable(region) # <<>>
            /\ log' = Spared(region) \o <<Message("digest", 0)>>
                      \o SubSeq(log, to, Len(log))
  /\ UNCHANGED <<disk, marker, phase, turnVars, outcome, rounds, interrupted, crashes>>

\* compact: assistant and tool messages before the turn become one digest; what
\* users said and the records for display are spared.
Compact ==
  /\ phase = "run" /\ ~Midway(log) /\ folds < MaxFolds
  /\ folds' = folds + 1
  /\ \E to \in 2 .. TurnStart :
       /\ log[to].kind # "result"
       /\ LET region == SubSeq(log, 1, to - 1) IN
            /\ Foldable(region) # <<>>
            /\ log' = Spared(region) \o <<Message("digest", 0)>>
                      \o SubSeq(log, to, Len(log))
  /\ UNCHANGED <<disk, marker, phase, turnVars, outcome, rounds, interrupted, crashes>>

\* Run returns nil after an answer.
Done ==
  /\ phase = "run" /\ Last(log).kind = "answer" /\ Last(log).turn = turn
  /\ phase' = "ended" /\ outcome' = "done"
  /\ UNCHANGED <<log, disk, marker, turnVars, rounds, interrupted, folds, crashes>>

\* Run is cancelled, or a stream fails: a pending record says what is lost.
Stop(result) ==
  /\ phase = "run" /\ ~Midway(log) /\ result \in {"cancelled", "failed"}
  /\ log' = Append(log, [Message("local", turn) EXCEPT !.handoff = TRUE])
  /\ phase' = "ended" /\ outcome' = result
  /\ UNCHANGED <<disk, marker, turnVars, rounds, interrupted, folds, crashes>>

\* Run pauses without a record, even with calls that were not executed.
Pause ==
  /\ phase = "run"
  /\ Last(log).kind = "calls" \/ ~Midway(log)
  /\ phase' = "ended" /\ outcome' = "failed"
  /\ UNCHANGED <<log, disk, marker, turnVars, rounds, interrupted, folds, crashes>>

----------------------------------------------------------------------------
(* The end of a turn *)

\* hasInterruptedDisplayAfter
LeftRecord ==
  \E i \in StartOr(log, start, TRUE, marker.turn, text) .. Len(log) :
    log[i].kind = "local"

\* The cleanup of a turn that did not return nil.  It reads the marker for the
\* time the turn began, and saves what it leaves.
Cleanup ==
  /\ phase = IF kind = "plan" THEN "cleared" ELSE "ended"
  /\ outcome \in {"cancelled", "failed"}
  /\ phase' = IF kind = "plan" THEN "closing" ELSE "cleaned"
  /\ \/ /\ kind = "visible"
        /\ outcome = "cancelled" \/ LeftRecord
        /\ log' = StripVisible(log, start, marker.turn, text)
        /\ disk' = log'
        /\ interrupted' = interrupted \cup {turn}
     \/ /\ kind # "visible" /\ outcome = "cancelled"
        /\ log' = StripSynthetic(log, start, marker.turn)
        /\ disk' = IF log' # log THEN log' ELSE disk
        /\ UNCHANGED interrupted
     \/ /\ outcome = "failed"
        /\ kind # "visible" \/ ~LeftRecord
        /\ UNCHANGED <<log, disk, interrupted>>
  /\ UNCHANGED <<marker, turnVars, outcome, rounds, folds, crashes>>

\* clearInFlightTurn: after the cleanup, but before it for a plan's turn, which
\* defers the clearing inside the closure that runs it.
ClearMarker ==
  /\ \/ phase = "cleaned"
     \/ phase = "ended" /\ (outcome = "done" \/ kind = "plan")
  /\ phase' = IF kind = "plan" /\ outcome # "done" THEN "cleared" ELSE "closing"
  /\ marker' = NoMarker
  /\ UNCHANGED <<log, disk, turnVars, outcome, rounds, interrupted, folds, crashes>>

\* The deferred snapshotActivityIfChanged, which counts messages.
EndTurn ==
  /\ phase = "closing"
  /\ phase' = "idle"
  /\ disk' = IF Len(log) > base THEN log ELSE disk
  /\ UNCHANGED <<log, marker, turnVars, outcome, rounds, interrupted, folds, crashes>>

----------------------------------------------------------------------------
(* Saves, crashes and the next start *)

\* autosaveWhileRunning
Autosave ==
  /\ phase \notin {"idle", "dead", "repaired"} /\ disk # log
  /\ disk' = log
  /\ UNCHANGED <<log, marker, phase, turnVars, outcome, rounds, interrupted,
                 folds, crashes>>

\* The process dies; the transcript in memory is lost.
Crash ==
  /\ phase # "dead" /\ crashes < MaxCrashes
  /\ crashes' = crashes + 1
  /\ phase' = "dead" /\ log' = <<>> /\ outcome' = "none" /\ rounds' = 0
  /\ UNCHANGED <<disk, marker, turnVars, interrupted, folds>>

\* Mutant of Recover: the prompt of a visible turn goes with the rest.
RecoverWhole ==
  LET found == ResolveStart(disk, marker.start, marker.keep, marker.turn, NoText)
  IN
  /\ phase = "dead"
  /\ phase' = "repaired"
  /\ log' = IF marker = NoMarker \/ found = 0 THEN disk
            ELSE StripSynthetic(disk, found - 1, marker.turn)
  /\ interrupted' = interrupted
  /\ disk' = log'
  /\ UNCHANGED <<marker, turnVars, outcome, rounds, folds, crashes>>

\* Resume loads the transcript, and recoverInterruptedTurn cleans up the turn
\* the marker names.
Recover ==
  LET found == ResolveStart(disk, marker.start, marker.keep, marker.turn, NoText)
      repair == marker # NoMarker /\ found > 0
  IN
  /\ phase = "dead"
  /\ phase' = "repaired"
  /\ log' = IF ~repair THEN disk
            ELSE IF marker.keep
              THEN StripVisible(disk, found - 1, marker.turn, NoText)
              ELSE SubSeq(disk, 1, found - 1)
  /\ interrupted' = IF repair /\ marker.keep
                      THEN interrupted \cup {disk[found].turn} ELSE interrupted
  /\ disk' = log'
  /\ UNCHANGED <<marker, turnVars, outcome, rounds, folds, crashes>>

Resumed ==
  /\ phase = "repaired"
  /\ phase' = "idle" /\ marker' = NoMarker
  /\ UNCHANGED <<log, disk, turnVars, outcome, rounds, interrupted, folds, crashes>>

Typed == {x \in Texts : Repeats \/ \A i \in 1 .. Len(log) : log[i].text # x}

Next ==
  \/ \E x \in Typed : BeginTurn("visible", x)
  \/ BeginTurn("goal", NoText)
  \/ BeginPlan \/ AddPrompt
  \/ \E r \in {"cancelled", "failed"} : PlannerStops(r) \/ Stop(r)
  \/ \E k \in {"calls", "answer", "note"} : AddMessage(k)
  \/ AddResult \/ AddPartial \/ Compact \/ Done \/ Pause
  \/ Cleanup \/ ClearMarker \/ EndTurn
  \/ Autosave \/ Crash \/ Recover \/ Resumed

Spec == Init /\ [][Next]_vars

----------------------------------------------------------------------------
(* Properties *)

TypeOK ==
  LET messages == Seq([kind : User \cup {"calls", "result", "answer", "local"},
                       turn : 0 .. MaxTurns,
                       text : Texts \cup {NoText, Rewritten}, handoff : BOOLEAN])
  IN
  /\ log \in messages /\ disk \in messages
  /\ marker \in [turn : 0 .. MaxTurns, start : Nat, keep : BOOLEAN]
  /\ phase \in Phases /\ turn \in 0 .. MaxTurns
  /\ kind \in {"visible", "goal", "plan"} /\ text \in Texts \cup {NoText}
  /\ base \in Nat /\ start \in Nat /\ rounds \in 0 .. MaxWork
  /\ outcome \in {"none", "done", "cancelled", "failed"}
  /\ interrupted \subseteq 1 .. MaxTurns

Of(l, t) == SelectSeq(l, LAMBDA m : m.turn = t)
NotOf(l, t) == SelectSeq(l, LAMBDA m : m.turn # t)

\* The turn is kept the way the model may see it again: its prompt once, its
\* complete rounds, nothing that is half a round, and a pending handoff.
KeptSafely(l, t, complete) ==
  LET own == {i \in 1 .. Len(l) : l[i].turn = t} IN
  /\ Cardinality({i \in own : l[i].kind = "prompt"}) = 1
  /\ Cardinality({i \in own : IsRound(l, i)}) = complete
  /\ \A i \in own : l[i].kind \in {"calls", "result"} => InRound(l, i)
  /\ \A i \in own : l[i].kind \notin {"answer", "note"}
  /\ Pending(l)

\* What the cleanup goes by still tells the visible turn: its prompt is in the
\* transcript as the user typed it, or no message has the text typed and the
\* turn, if its prompt is in, is where it was when it began.
TellsTurn ==
  LET own == {i \in 1 .. Len(log) : log[i].turn = turn /\ log[i].kind = "prompt"}
  IN \/ \E i \in own : log[i].text = text
     \/ /\ \A i \in 1 .. Len(log) : log[i].text # text
        /\ own \subseteq {start + 1}

\* The cleanup of a turn leaves every message of the other turns as it is and
\* where it is, wherever compaction moved the turn and also when an earlier turn
\* was typed the same (controller.go, resolveInterruptedTurnStart and the two
\* strips); of a visible turn, as long as the transcript tells which it is.
CleanupKeepsOtherTurns ==
  [][Cleanup /\ (kind = "visible" => TellsTurn) => NotOf(log', turn) = NotOf(log, turn)]_vars

\* A visible turn that is cancelled keeps its prompt and all the tool rounds it
\* completed, and nothing the provider would refuse, also when its transcript was
\* compacted meanwhile (stripCancelledVisibleTurnMessagesAfterWithFallbackAt); as
\* long as the transcript tells which turn it is, so after a compaction only when
\* the prompt is in it as typed.
CancelledTurnKept ==
  [][Cleanup /\ kind = "visible" /\ outcome = "cancelled" /\ TellsTurn
     => KeptSafely(log', turn, rounds) /\ disk' = log']_vars

\* "rather than letting cancellation infer the current turn from older transcript
\* history" (controller.go:3985-3986): the same of every visible turn.  It does not
\* hold of a turn that stops before its prompt is in, when an older turn was typed
\* the same.
OlderTurnsLeftAlone ==
  [][Cleanup /\ kind = "visible" => NotOf(log', turn) = NotOf(log, turn)]_vars

\* "keep the real prompt and any fully paired tool work" (turn_orchestrator.go:269-270):
\* the same of every visible turn.  It does not hold of a turn whose prompt the
\* planner has rewritten, after a compaction in that turn: the position is stale
\* and the cleanup cuts inside the turn.
InterruptedWorkKept ==
  [][Cleanup /\ kind = "visible" /\ outcome = "cancelled"
     => LET own == {i \in 1 .. Len(log') : log'[i].turn = turn}
        IN /\ \E i \in own : log'[i].kind = "prompt"
           /\ Cardinality({i \in own : IsRound(log', i)}) = rounds]_vars

\* A cancelled turn of the goal loop is dropped as a whole, in memory and in
\* the file (stripInterruptedSyntheticTurnMessagesAfter).
GoalTurnDropped ==
  [][Cleanup /\ kind = "goal" /\ outcome = "cancelled"
     => Of(log', turn) = <<>> /\ (rounds > 0 => disk' = log')]_vars

\* When the file holds the prompt of the turn the process died in, the next
\* start cleans that turn up as a cancellation would, whatever was saved of it
\* and also when the process dies again on the way (recoverInterruptedTurn).
CrashedTurnRecovered ==
  [][Recover =>
       LET t == marker.turn
           saved == \E i \in 1 .. Len(disk) :
                      disk[i].turn = t /\ disk[i].kind \in Stamped
           complete == Cardinality({i \in 1 .. Len(disk) :
                                      disk[i].turn = t /\ IsRound(disk, i)})
       IN t > 0 /\ saved =>
            /\ NotOf(log', t) = NotOf(disk, t)
            /\ IF marker.keep THEN KeptSafely(log', t, complete) ELSE Of(log', t) = <<>>]_vars

\* The prompt after an interrupted turn carries the recovery facts of that
\* turn, whatever compactions and crashes came in between
\* (pendingInterruptedRecovery).
HandoffReachesNextPrompt ==
  [][AddPrompt /\ kind = "visible"
     => LET prompts == {i \in 1 .. Len(log) : log[i].kind = "prompt"}
            last == CHOOSE i \in prompts : \A j \in prompts : j <= i
        IN prompts # {} /\ log[last].turn \in interrupted
           => log'[Len(log')].handoff]_vars

\* What the comment on Snapshot says: the session is saved after every turn.
\* It does not hold when compaction made the transcript shorter than it was
\* before the turn.
TurnEndSaves == phase = "idle" => disk = log

\* What the comment on stripInterruptedSyntheticTurnMessagesAfter says, of the
\* turn that executes a plan.  It does not hold after a compaction, because the
\* marker is cleared before the cleanup looks for the time the turn began.
PlanTurnDropped ==
  [][Cleanup /\ kind = "plan" /\ outcome = "cancelled" => Of(log', turn) = <<>>]_vars

\* What the comment on resolveInterruptedTurnStart says: the position in the
\* marker is data-safe, so no prompt of another turn is lost.  It does not hold
\* when the file is older than a compaction.
RecoveryKeepsPrompts ==
  [][Recover => \A i \in 1 .. Len(disk) :
       disk[i].kind = "prompt" /\ disk[i].turn # marker.turn
       => \E j \in 1 .. Len(log') : log'[j].kind = "prompt" /\ log'[j].turn = disk[i].turn]_vars
=============================================================================
