------------------------------ MODULE TurnGate ------------------------------
(***************************************************************************)
(* Which turn a controller runs (internal/control/controller.go): the      *)
(* admission of submitted inputs, the window in which TurnDone is          *)
(* delivered, cancellation, changes of the session, and close.             *)
(*                                                                         *)
(* Each member of Turns is one submitted input, with the entry point it    *)
(* comes in by: runGuarded, runGuardedOrPark or RunTurn.                   *)
(***************************************************************************)
EXTENDS Naturals, Sequences

CONSTANTS Turns,
          Cancellers,    \* calls of Cancel or Close, each made once
          EntrySets,     \* which entry points one controller is used through
          MaxSwaps,      \* bound on the changes of the session in one behaviour
          NoTurn

Entries == {"guarded", "orPark", "sync"}

ASSUME TurnAssumption == NoTurn \notin Turns
ASSUME EntryAssumption == EntrySets \subseteq SUBSET Entries
ASSUME SwapAssumption == MaxSwaps \in Nat

VARIABLES
  flags,      \* which of c.running, finishing, rotating, closed are true
  current,    \* the turn whose cancel function c.cancel is
  canceling,  \* c.canceling, as the turns it was set for
  parked,     \* c.parkedTurns
  entry,      \* the entry point of each turn
  at,         \* where the turn is
  home,       \* history: the session its input is for, which Resume may change
  cancelled,  \* the turns whose context is cancelled
  session,    \* the number of the session the controller is bound to
  canceller,  \* where each call of Cancel or Close is
  target      \* the turn whose cancel function it has captured

gate     == <<flags, current, canceling, parked>>
turns    == <<entry, at, home, cancelled>>
calls    == <<canceller, target>>
turnVars == <<gate, turns, session, calls>>

Flags == {"running", "finishing", "rotating", "closed"}
Places == {"new", "parked", "running", "delivering", "ended", "dropped"}

\* A turn in flight: its body runs, or its TurnDone is being delivered.
InFlight == {t \in Turns : at[t] \in {"running", "delivering"}}

TurnTypeOK ==
  /\ flags \subseteq Flags
  /\ current \in Turns \union {NoTurn}
  /\ canceling \subseteq {current} \ {NoTurn}
  /\ parked \in Seq(Turns)
  /\ entry \in [Turns -> Entries]
  /\ at \in [Turns -> Places]
  /\ home \in [Turns -> Nat]
  /\ cancelled \subseteq Turns
  /\ session \in 0 .. MaxSwaps
  /\ canceller \in [Cancellers -> {"idle", "captured", "cleared", "done"}]
  /\ target \in [Cancellers -> Turns \union {NoTurn}]

TurnInit ==
  /\ flags = {} /\ current = NoTurn /\ canceling = {} /\ parked = <<>>
  /\ \E E \in EntrySets : entry \in [Turns -> E]
  /\ at = [t \in Turns |-> "new"]
  /\ home = [t \in Turns |-> 0]
  /\ cancelled = {}
  /\ session = 0
  /\ canceller = [k \in Cancellers |-> "idle"]
  /\ target = [k \in Cancellers |-> NoTurn]

-----------------------------------------------------------------------------
\* Admission.

\* What both admission paths and the drain of the parked turns do to start t.
Start(t, places) ==
  /\ current' = t
  /\ canceling' = {}
  /\ at' = [places EXCEPT ![t] = "running"]

\* The input is meant for the session the user sees.
Submitted(t) == home' = [home EXCEPT ![t] = session]

\* Mutant of Parks: an input that arrives during a rotation is parked.
ParksRotating(t) == /\ "closed" \notin flags
                    /\ "running" \in flags => entry[t] = "orPark"

\* admitGuardedTurn: closed and rotating drop the input, a running turn drops
\* it or parks it, the finishing window parks it.
Parks(t) == /\ flags \intersect {"closed", "rotating"} = {}
            /\ "running" \in flags => entry[t] = "orPark"

\* Mutant of Idle: the finishing window does not count.
IdleButFinishing == flags \subseteq {"finishing"}

Idle == flags = {}

Admit(t) ==
  /\ at[t] = "new" /\ entry[t] # "sync"
  /\ Submitted(t)
  /\ \/ Idle /\ Start(t, at) /\ flags' = flags \union {"running"} /\ UNCHANGED parked
     \/ /\ ~Idle /\ Parks(t)
        /\ parked' = Append(parked, t)
        /\ at' = [at EXCEPT ![t] = "parked"]
        /\ UNCHANGED <<flags, current, canceling>>
     \/ /\ ~Idle /\ ~Parks(t)
        /\ at' = [at EXCEPT ![t] = "dropped"]
        /\ UNCHANGED gate
  /\ UNCHANGED <<entry, cancelled, session, calls>>

\* RunTurn refuses when anything is going on and never parks.
RunTurn(t) ==
  /\ at[t] = "new" /\ entry[t] = "sync"
  /\ Submitted(t)
  /\ \/ Idle /\ Start(t, at) /\ flags' = flags \union {"running"} /\ UNCHANGED parked
     \/ ~Idle /\ at' = [at EXCEPT ![t] = "dropped"] /\ UNCHANGED gate
  /\ UNCHANGED <<entry, cancelled, session, calls>>

-----------------------------------------------------------------------------
\* The end of a turn.

\* The first critical section of finishGuardedTurn; TurnDone is emitted next.
Finish(t) ==
  /\ at[t] = "running" /\ entry[t] # "sync"
  /\ flags' = IF "closed" \in flags THEN flags \ {"running"}
              ELSE (flags \ {"running"}) \union {"finishing"}
  /\ current' = NoTurn /\ canceling' = {}
  /\ at' = [at EXCEPT ![t] = "delivering"]
  /\ UNCHANGED <<parked, entry, home, cancelled, session, calls>>

\* Mutant of Delivered: the gate opens and the parked turn is admitted later.
DeliveredThenOpen(t) ==
  /\ at[t] = "delivering"
  /\ cancelled' = cancelled \union {t}
  /\ at' = [at EXCEPT ![t] = "ended"]
  /\ flags' = flags \ {"finishing"}
  /\ UNCHANGED <<current, canceling, parked, entry, home, session, calls>>

\* Its deferred second critical section, with the start of the oldest parked
\* turn; the deferred cancel of the context comes with it.
Delivered(t) ==
  /\ at[t] = "delivering"
  /\ cancelled' = cancelled \union {t}
  /\ LET places == [at EXCEPT ![t] = "ended"]
     IN \/ /\ "closed" \in flags \/ parked = <<>>
           /\ flags' = flags \ {"finishing"}
           /\ at' = places
           /\ UNCHANGED <<current, canceling, parked>>
        \/ /\ "closed" \notin flags /\ parked # <<>>
           /\ Start(Head(parked), places)
           /\ parked' = Tail(parked)
           /\ flags' = (flags \ {"finishing"}) \union {"running"}
  /\ UNCHANGED <<entry, home, session, calls>>

\* The deferred function of RunTurn.
Return(t) ==
  /\ at[t] = "running" /\ entry[t] = "sync"
  /\ flags' = flags \ {"running"}
  /\ current' = NoTurn /\ canceling' = {}
  /\ at' = [at EXCEPT ![t] = "ended"]
  /\ cancelled' = cancelled \union {t}
  /\ UNCHANGED <<parked, entry, home, session, calls>>

\* The context of RunTurn is derived from its caller's, who may give up.
CallerGone(t) ==
  /\ at[t] = "running" /\ entry[t] = "sync" /\ t \notin cancelled
  /\ cancelled' = cancelled \union {t}
  /\ UNCHANGED <<gate, entry, at, home, session, calls>>

-----------------------------------------------------------------------------
\* Changes of the session.  Compact, NewSession, ClearSession, Rewind, forks,
\* branches and SummarizeFrom take the rotation gate for as long as they last.

\* Mutant of BeginRotation: the finishing window does not count.
BeginRotationEarly ==
  /\ flags \intersect {"running", "rotating"} = {}
  /\ flags' = flags \union {"rotating"}
  /\ UNCHANGED <<current, canceling, parked, turns, session, calls>>

BeginRotation ==
  /\ flags \intersect {"running", "finishing", "rotating"} = {}
  /\ flags' = flags \union {"rotating"}
  /\ UNCHANGED <<current, canceling, parked, turns, session, calls>>

\* The new session is bound, or the operation has failed or keeps the session.
EndRotation ==
  /\ "rotating" \in flags
  /\ session' \in {session, session + 1} /\ session' <= MaxSwaps
  /\ flags' = flags \ {"rotating"}
  /\ UNCHANGED <<current, canceling, parked, turns, calls>>

\* Resume binds another session and takes no gate: it looks neither at the
\* turns nor at a rotation (serve's POST /resume calls it at any time).  Nor does
\* adoptDiskSession, by which a save, also one in a turn, takes over what
\* another process wrote.  Whatever is parked or runs then does so in the new one.
Resume ==
  /\ session < MaxSwaps
  /\ session' = session + 1
  /\ home' = [t \in Turns |-> IF at[t] \in {"parked", "running"} THEN session + 1 ELSE home[t]]
  /\ UNCHANGED <<gate, entry, at, cancelled, calls>>

-----------------------------------------------------------------------------
\* Cancel and Close capture the cancel function under the mutex, drop the
\* prompts, and then cancel.

CaptureCancel(k) ==
  /\ canceller[k] = "idle" /\ current # NoTurn
  /\ target' = [target EXCEPT ![k] = current]
  /\ canceling' = {current}
  /\ canceller' = [canceller EXCEPT ![k] = "captured"]
  /\ UNCHANGED <<flags, current, parked, turns, session>>

\* There is nothing to cancel.
CancelNothing(k) ==
  /\ canceller[k] = "idle" /\ current = NoTurn
  /\ canceller' = [canceller EXCEPT ![k] = "done"]
  /\ UNCHANGED <<gate, turns, session, target>>

\* closeOnce: only the first call does anything.
Close(k) ==
  /\ canceller[k] = "idle" /\ "closed" \notin flags
  /\ flags' = (flags \ {"finishing"}) \union {"closed"}
  /\ parked' = <<>>
  /\ at' = [t \in Turns |-> IF at[t] = "parked" THEN "dropped" ELSE at[t]]
  /\ target' = [target EXCEPT ![k] = current]
  /\ canceling' = {current} \ {NoTurn}
  /\ canceller' = [canceller EXCEPT ![k] = IF current = NoTurn THEN "done" ELSE "captured"]
  /\ UNCHANGED <<current, entry, home, cancelled, session>>

\* approval.clearAll: the prompts are not part of this module.
ClearPrompts(k) ==
  /\ canceller[k] = "captured"
  /\ canceller' = [canceller EXCEPT ![k] = "cleared"]
  /\ UNCHANGED <<gate, turns, session, target>>

Fire(k) ==
  /\ canceller[k] = "cleared"
  /\ cancelled' = cancelled \union {target[k]}
  /\ canceller' = [canceller EXCEPT ![k] = "done"]
  /\ UNCHANGED <<gate, entry, at, home, session, target>>

-----------------------------------------------------------------------------
TurnNext ==
  \/ \E t \in Turns : \/ Admit(t) \/ RunTurn(t) \/ CallerGone(t)
                      \/ Finish(t) \/ Delivered(t) \/ Return(t)
  \/ BeginRotation \/ EndRotation \/ Resume
  \/ \E k \in Cancellers : \/ CaptureCancel(k) \/ CancelNothing(k) \/ Close(k)
                           \/ ClearPrompts(k) \/ Fire(k)

TurnSpec == TurnInit /\ [][TurnNext]_turnVars

\* A body returns and a TurnDone is delivered: goroutines run on.
TurnFairness ==
  \A t \in Turns : WF_turnVars(Finish(t) \/ Return(t)) /\ WF_turnVars(Delivered(t))

FairTurnSpec == TurnSpec /\ TurnFairness
-----------------------------------------------------------------------------
\* "keeps admission closed while TurnDone is delivered" (controller.go:777): no
\* turn starts before the completion of the one before it is out, whichever
\* way either came in; and c.cancel is that of the turn that runs, so that
\* Cancel and Running tell the truth.
OneTurnAtATime ==
  /\ \A t, u \in InFlight : t = u
  /\ \A t \in Turns : at[t] = "running" <=> "running" \in flags /\ current = t

\* "running and rotating are mutually exclusive gates" (controller.go:227-230): an
\* operation that takes the rotation gate is never under way together with a turn,
\* nor while the completion of one is being delivered to its transports; after
\* close nobody listens to that any more.  It says nothing of Resume, which takes
\* no gate: see SwapsOnlyWhileIdle.
RotationExcludesTurns ==
  "rotating" \in flags => \A t \in InFlight : "closed" \in flags /\ at[t] = "delivering"

\* "turnParked: ... will start the moment the window closes" (controller.go:677):
\* inputs are parked only while there is a turn whose end will start them.
NothingStranded == parked # <<>> => flags \intersect {"running", "finishing"} # {}

\* No operation that takes the rotation gate changes the session between the
\* moment an input is submitted and the end of its turn, however long it is
\* parked: an input runs in the session it was submitted to, or in the one that
\* the last Resume since then has put under it.
RunsInItsSession == \A t \in Turns : at[t] \in {"parked", "running"} => home[t] = session

\* "the run loop's session reference cannot change under it" (controller.go:230),
\* "Callers serialise it against a running turn (it only fires while idle)" of
\* SetSession (agent.go:728-729).
SwapsOnlyWhileIdle ==
  [][session' # session => \A t \in Turns : at[t] # "running"]_turnVars

\* Once closed, the controller starts no turn.
ClosedStartsNothing ==
  [][\A t \in Turns : at'[t] = "running" /\ at[t] # "running" => "closed" \notin flags]_turnVars

\* A parked input runs unless the controller is closed.  An input is parked once,
\* so it suffices that from some point on none is parked.
ParkedRuns == <>[](\A t \in Turns : at[t] # "parked")
=============================================================================
