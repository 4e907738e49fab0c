---------------------------- MODULE PromptsProofs ---------------------------
(***************************************************************************)
(* Proofs about the turns of a controller and about its prompts.           *)
(*                                                                         *)
(* The invariant of the turns says which flags go together, that the       *)
(* current turn is the one that runs, and that the queue holds exactly the *)
(* parked turns; what is never left behind and in which session an input   *)
(* runs need one more fact, about the entry points a controller is used    *)
(* through.  The prompts come second: the turns go on as TurnGate says,    *)
(* one prompt is out at a time with somebody behind it, nobody blocks on a *)
(* reply, and the decisions that are the user's are made by the user.      *)
(***************************************************************************)
EXTENDS Prompts, TLAPS

\* Which flags are true together, and what they say of the turns.
Windows ==
  /\ "running" \in flags => current \in Turns /\ "rotating" \notin flags
  /\ "running" \notin flags => current = NoTurn
  /\ "finishing" \in flags => flags = {"finishing"}
  /\ \A t \in Turns : at[t] = "delivering" =>
       flags \intersect {"finishing", "closed"} # {} /\ "running" \notin flags
  /\ \A k \in Cancellers : canceller[k] \in {"captured", "cleared"} => target[k] \in Turns

\* The queue holds the parked turns, each once, and none after close.
Queue ==
  /\ \A i \in 1 .. Len(parked) : at[parked[i]] = "parked" /\ entry[parked[i]] # "sync"
  /\ \A i, j \in 1 .. Len(parked) : parked[i] = parked[j] => i = j
  /\ \A t \in Turns : at[t] = "parked" => \E i \in 1 .. Len(parked) : parked[i] = t
  /\ "closed" \in flags => parked = <<>>

IInv == TurnTypeOK /\ Windows /\ Queue /\ OneTurnAtATime

-----------------------------------------------------------------------------
LEMMA InitIInv == TurnInit => IInv
  BY TurnAssumption, EntryAssumption, SwapAssumption
  DEF TurnInit, IInv, TurnTypeOK, Windows, Queue, OneTurnAtATime, InFlight, Flags, Places

LEMMA TailOf ==
  ASSUME NEW S, NEW q \in Seq(S), q # <<>>
  PROVE  /\ Head(q) \in S /\ Head(q) = q[1] /\ Tail(q) \in Seq(S)
         /\ 1 \in 1 .. Len(q) /\ Len(q) \in Nat
         /\ Len(Tail(q)) = Len(q) - 1
         /\ \A i \in 1 .. Len(Tail(q)) : Tail(q)[i] = q[i + 1] /\ i + 1 \in 1 .. Len(q)
  OBVIOUS

LEMMA AppendTo ==
  ASSUME NEW S, NEW q \in Seq(S), NEW e \in S
  PROVE  /\ Append(q, e) \in Seq(S)
         /\ Len(q) \in Nat /\ Len(Append(q, e)) = Len(q) + 1
         /\ \A i \in 1 .. Len(q) : Append(q, e)[i] = q[i]
         /\ Append(q, e)[Len(q) + 1] = e
  OBVIOUS

LEMMA NextIInv == IInv /\ [TurnNext]_turnVars => IInv'
<1> SUFFICES ASSUME IInv, [TurnNext]_turnVars PROVE IInv'
  OBVIOUS
<1> USE TurnAssumption, SwapAssumption
    DEF IInv, TurnTypeOK, Windows, Queue, OneTurnAtATime, InFlight, Flags, Places,
        turnVars, gate, turns, calls
<1>1. ASSUME NEW t \in Turns, Admit(t) PROVE IInv'
  <2> USE <1>1 DEF Admit, Submitted
  <2>1. CASE Idle /\ Start(t, at) /\ flags' = flags \union {"running"} /\ UNCHANGED parked
    BY <2>1 DEF Idle, Start
  <2>2. CASE /\ ~Idle /\ Parks(t)
             /\ parked' = Append(parked, t)
             /\ at' = [at EXCEPT ![t] = "parked"]
             /\ UNCHANGED <<flags, current, canceling>>
    <3>1. /\ at[t] = "new" /\ entry[t] # "sync" /\ "closed" \notin flags
          /\ UNCHANGED <<entry, cancelled, session, calls, flags, current, canceling>>
          /\ at' = [at EXCEPT ![t] = "parked"] /\ home' \in [Turns -> Nat]
      BY <2>2 DEF Parks
    <3>2. /\ parked' \in Seq(Turns)
          /\ Len(parked) \in Nat /\ Len(parked') = Len(parked) + 1
          /\ \A i \in 1 .. Len(parked) : parked'[i] = parked[i]
          /\ parked'[Len(parked) + 1] = t
      BY <2>2, AppendTo
    <3> HIDE <1>1 DEF Admit, Submitted
    <3>3. TurnTypeOK'
      BY <3>1, <3>2
    <3>4. Windows'
      BY <3>1
    <3>5. Queue'
      <4>1. \A i \in 1 .. Len(parked') : at'[parked'[i]] = "parked" /\ entry'[parked'[i]] # "sync"
        <5> SUFFICES ASSUME NEW i \in 1 .. Len(parked')
                     PROVE  at'[parked'[i]] = "parked" /\ entry[parked'[i]] # "sync"
          BY <3>1
        <5>1. CASE i = Len(parked) + 1
          BY <3>1, <3>2, <5>1
        <5>2. CASE i \in 1 .. Len(parked)
          <6>1. parked'[i] = parked[i] /\ parked[i] \in Turns
            <7> HIDE DEF IInv
            <7>1. parked \in Seq(Turns)
              BY DEF IInv, TurnTypeOK
            <7> QED BY <3>2, <5>2, <7>1
          <6>2. at[parked[i]] = "parked" /\ entry[parked[i]] # "sync"
            <7> HIDE DEF IInv, Windows, TurnTypeOK, OneTurnAtATime
            <7> QED BY <5>2 DEF IInv, Queue
          <6>3. parked[i] # t
            <7> HIDE DEF IInv
            <7> QED BY <3>1, <6>2
          <6>4. at \in [Turns -> Places]
            BY DEF IInv, TurnTypeOK
          <6> HIDE DEF IInv
          <6> QED BY <3>1, <6>1, <6>2, <6>3, <6>4
        <5> QED BY <3>2, <5>1, <5>2
      <4>2. \A i, j \in 1 .. Len(parked') : parked'[i] = parked'[j] => i = j
        <5>1. \A i \in 1 .. Len(parked) : parked[i] # t
          BY <3>1
        <5>2. \A i \in 1 .. Len(parked') : i \in 1 .. Len(parked) \/ i = Len(parked) + 1
          BY <3>2
        <5> QED BY <3>2, <5>1, <5>2
      <4>3. ASSUME NEW v \in Turns, at'[v] = "parked"
            PROVE  \E i \in 1 .. Len(parked') : parked'[i] = v
        <5>1. CASE v = t
          BY <5>1, <3>2
        <5>2. CASE v # t
          <6>1. PICK i \in 1 .. Len(parked) : parked[i] = v
            BY <3>1, <4>3, <5>2
          <6> QED BY <3>2, <6>1
        <5> QED BY <5>1, <5>2
      <4> QED BY <4>1, <4>2, <4>3, <3>1
    <3>6. OneTurnAtATime'
      BY <3>1
    <3> QED BY <3>3, <3>4, <3>5, <3>6
  <2>3. CASE at' = [at EXCEPT ![t] = "dropped"] /\ UNCHANGED gate
    BY <2>3
  <2> QED BY <2>1, <2>2, <2>3
<1>2. ASSUME NEW t \in Turns, RunTurn(t) PROVE IInv'
  <2> USE <1>2 DEF RunTurn, Submitted
  <2>1. CASE Idle /\ Start(t, at) /\ flags' = flags \union {"running"} /\ UNCHANGED parked
    BY <2>1 DEF Idle, Start
  <2>2. CASE at' = [at EXCEPT ![t] = "dropped"] /\ UNCHANGED gate
    BY <2>2
  <2> QED BY <2>1, <2>2
<1>3. ASSUME NEW t \in Turns, CallerGone(t) PROVE IInv'
  BY <1>3 DEF CallerGone
<1>4. ASSUME NEW t \in Turns, Finish(t) PROVE IInv'
  <2>1. flags' = IF "closed" \in flags THEN {"closed"} ELSE {"finishing"}
    <3>1. "running" \in flags
      BY <1>4 DEF Finish
    <3>2. "rotating" \notin flags /\ "finishing" \notin flags
      BY <3>1
    <3>3. flags \ {"running"} = IF "closed" \in flags THEN {"closed"} ELSE {}
      <4> HIDE DEF IInv
      <4>1. flags \subseteq {"running", "finishing", "rotating", "closed"}
        BY DEF IInv
      <4> QED BY <3>2, <4>1, Zenon
    <3>4. flags' = IF "closed" \in flags THEN flags \ {"running"}
                   ELSE (flags \ {"running"}) \union {"finishing"}
      BY <1>4 DEF Finish
    <3> HIDE DEF IInv
    <3> QED BY <3>3, <3>4, Zenon
  <2>2. TurnTypeOK'
    BY <1>4, <2>1 DEF Finish
  <2>3. Windows'
    BY <1>4, <2>1 DEF Finish
  <2>4. Queue'
    BY <1>4, <2>1 DEF Finish
  <2>5. OneTurnAtATime'
    BY <1>4, <2>1 DEF Finish
  <2> QED BY <2>2, <2>3, <2>4, <2>5
<1>5. ASSUME NEW t \in Turns, Delivered(t) PROVE IInv'
  <2> DEFINE places == [at EXCEPT ![t] = "ended"]
  <2>1. CASE /\ "closed" \in flags \/ parked = <<>>
             /\ flags' = flags \ {"finishing"}
             /\ at' = places
             /\ UNCHANGED <<current, canceling, parked>>
    BY <1>5, <2>1 DEF Delivered
  <2>2. CASE /\ "closed" \notin flags /\ parked # <<>>
             /\ Start(Head(parked), places)
             /\ parked' = Tail(parked)
             /\ flags' = (flags \ {"finishing"}) \union {"running"}
    <3> DEFINE u == Head(parked)
    <3> USE <1>5, <2>2 DEF Delivered, Start
    <3>1. /\ u \in Turns /\ u # t /\ at[u] = "parked" /\ u = parked[1] /\ 1 \in 1 .. Len(parked)
          /\ parked' \in Seq(Turns) /\ Len(parked) \in Nat
          /\ Len(parked') = Len(parked) - 1
          /\ \A i \in 1 .. Len(parked') : parked'[i] = parked[i + 1] /\ i + 1 \in 1 .. Len(parked)
      BY TailOf
    <3>2. flags = {"finishing"} /\ flags' = {"running"}
      <4>1. at[t] = "delivering" /\ "closed" \notin flags
        OBVIOUS
      <4>2. "finishing" \in flags
        <5>1. flags \intersect {"finishing", "closed"} # {}
          BY <4>1
        <5> QED BY <4>1, <5>1
      <4>3. flags' = (flags \ {"finishing"}) \union {"running"}
        OBVIOUS
      <4>4. flags = {"finishing"}
        BY <4>2
      <4> QED BY <4>3, <4>4
    <3>3. /\ at' = [at EXCEPT ![t] = "ended", ![u] = "running"] /\ current' = u
          /\ at[t] = "delivering"
      BY <3>1
    <3> HIDE <1>5, <2>2 DEF Delivered, Start, u
    <3>4. UNCHANGED <<entry, home, session, calls>> /\ cancelled' = cancelled \union {t}
           /\ canceling' = {} /\ parked' = Tail(parked)
      BY <1>5, <2>2 DEF Delivered, Start
    <3>5. TurnTypeOK'
      BY <3>1, <3>2, <3>3, <3>4
    <3>6. Windows'
      BY <3>1, <3>2, <3>3, <3>4
    <3>7. Queue'
      <4>1. \A i \in 1 .. Len(parked') : at'[parked'[i]] = "parked" /\ entry'[parked'[i]] # "sync"
        BY <3>1, <3>3, <3>4
      <4>2. \A i, j \in 1 .. Len(parked') : parked'[i] = parked'[j] => i = j
        <5> SUFFICES ASSUME NEW i \in 1 .. Len(parked'), NEW j \in 1 .. Len(parked'),
                            parked'[i] = parked'[j]
                     PROVE  i = j
          OBVIOUS
        <5>1. parked[i + 1] = parked[j + 1]
          BY <3>1
        <5>2. i + 1 = j + 1
          <6> HIDE DEF IInv, Queue
          <6>1. \A a, b \in 1 .. Len(parked) : parked[a] = parked[b] => a = b
            BY DEF IInv, Queue
          <6>2. i + 1 \in 1 .. Len(parked) /\ j + 1 \in 1 .. Len(parked)
            BY <3>1
          <6> QED BY <5>1, <6>1, <6>2
        <5> QED BY <5>2
      <4>3. ASSUME NEW v \in Turns, at'[v] = "parked"
            PROVE  \E i \in 1 .. Len(parked') : parked'[i] = v
        <5>1. v # u /\ at[v] = "parked"
          BY <3>1, <3>3, <4>3
        <5>2. PICK i \in 1 .. Len(parked) : parked[i] = v
          BY <5>1
        <5>3. i # 1
          BY <3>1, <5>1, <5>2
        <5>4. i - 1 \in 1 .. Len(parked') /\ parked'[i - 1] = v
          <6> HIDE DEF IInv, Queue
          <6>1. i \in 2 .. Len(parked) /\ i = (i - 1) + 1
            BY <3>1, <5>2, <5>3
          <6>2. i - 1 \in 1 .. Len(parked')
            BY <3>1, <6>1
          <6>3. parked'[i - 1] = parked[(i - 1) + 1]
            BY <3>1, <6>2
          <6> QED BY <5>2, <6>1, <6>2, <6>3
        <5> QED BY <5>4
      <4> QED BY <4>1, <4>2, <4>3, <3>2
    <3>8. OneTurnAtATime'
      BY <3>1, <3>2, <3>3
    <3> QED BY <3>5, <3>6, <3>7, <3>8
  <2> QED BY <1>5, <2>1, <2>2 DEF Delivered
<1>6. ASSUME NEW t \in Turns, Return(t) PROVE IInv'
  BY <1>6 DEF Return
<1>7. CASE BeginRotation
  BY <1>7 DEF BeginRotation
<1>8. CASE EndRotation
  BY <1>8 DEF EndRotation
<1>15. CASE Resume
  BY <1>15 DEF Resume
<1>9. ASSUME NEW k \in Cancellers, CaptureCancel(k) PROVE IInv'
  BY <1>9 DEF CaptureCancel
<1>10. ASSUME NEW k \in Cancellers, CancelNothing(k) PROVE IInv'
  BY <1>10 DEF CancelNothing
<1>11. ASSUME NEW k \in Cancellers, Close(k) PROVE IInv'
  BY <1>11 DEF Close
<1>12. ASSUME NEW k \in Cancellers, ClearPrompts(k) PROVE IInv'
  BY <1>12 DEF ClearPrompts
<1>13. ASSUME NEW k \in Cancellers, Fire(k) PROVE IInv'
  BY <1>13 DEF Fire
<1>14. CASE UNCHANGED turnVars
  BY <1>14
<1> HIDE DEF IInv
<1> QED
  BY <1>1, <1>2, <1>3, <1>4, <1>5, <1>6, <1>7, <1>8, <1>9, <1>10, <1>11, <1>12, <1>13, <1>14,
     <1>15
  DEF TurnNext

-----------------------------------------------------------------------------
\* The variables keep their types, whatever is submitted, cancelled and closed.
THEOREM TurnTypeCorrect == TurnSpec => []TurnTypeOK
<1>1. IInv => TurnTypeOK
  BY DEF IInv
<1> QED BY InitIInv, NextIInv, <1>1, PTL DEF TurnSpec

\* The admission gate lets one turn at a time through, and c.cancel is its own:
\* runGuarded, runGuardedOrPark, RunTurn and finishGuardedTurn together.
THEOREM TurnsExclusive == TurnSpec => []OneTurnAtATime
<1>1. IInv => OneTurnAtATime
  BY DEF IInv
<1> QED BY InitIInv, NextIInv, <1>1, PTL DEF TurnSpec

\* beginRotation excludes turns, and completions that somebody still hears: the
\* operations that take the gate are never under way together with a turn.  What
\* Resume does without the gate is not excluded by it.
THEOREM RotationExclusive == TurnSpec => []RotationExcludesTurns
<1>1. IInv => RotationExcludesTurns
  <2> SUFFICES ASSUME IInv, "rotating" \in flags, NEW t \in InFlight
               PROVE  "closed" \in flags /\ at[t] = "delivering"
    BY DEF RotationExcludesTurns
  <2>1. at[t] = "delivering"
    BY DEF IInv, Windows, OneTurnAtATime, InFlight
  <2>2. "finishing" \notin flags
    BY DEF IInv, Windows
  <2>3. flags \intersect {"finishing", "closed"} # {}
    BY <2>1 DEF IInv, Windows, InFlight
  <2> QED BY <2>1, <2>2, <2>3
<1> QED BY InitIInv, NextIInv, <1>1, PTL DEF TurnSpec

\* A closed controller starts no turn: admission is sealed and the drain in
\* finishGuardedTurn looks at closed again.
THEOREM ClosedIsFinal == TurnSpec => ClosedStartsNothing
<1>1. IInv /\ [TurnNext]_turnVars
        => [\A t \in Turns : at'[t] = "running" /\ at[t] # "running" => "closed" \notin flags]_turnVars
  <2> SUFFICES ASSUME IInv, TurnNext, NEW t \in Turns, at'[t] = "running", at[t] # "running",
                      "closed" \in flags
               PROVE  FALSE
    OBVIOUS
  <2> at \in [Turns -> Places]
    BY DEF IInv, TurnTypeOK
  <2>1. ASSUME NEW u \in Turns, Admit(u) PROVE FALSE
    BY <2>1 DEF Admit, Idle, Start, gate
  <2>2. ASSUME NEW u \in Turns, RunTurn(u) PROVE FALSE
    BY <2>2 DEF RunTurn, Idle, Start, gate
  <2>3. ASSUME NEW u \in Turns, Finish(u) \/ Delivered(u) \/ Return(u) PROVE FALSE
    BY <2>3 DEF Finish, Delivered, Return, Start
  <2>4. ASSUME NEW k \in Cancellers, Close(k) PROVE FALSE
    BY <2>4 DEF Close
  <2>5. ASSUME UNCHANGED at PROVE FALSE
    BY <2>5
  <2> QED
    BY <2>1, <2>2, <2>3, <2>4, <2>5
    DEF TurnNext, CallerGone, BeginRotation, EndRotation, Resume, CaptureCancel, CancelNothing,
        ClearPrompts, Fire, gate, turns
<1> QED BY InitIInv, NextIInv, <1>1, PTL DEF TurnSpec, ClosedStartsNothing

-----------------------------------------------------------------------------
\* No controller is used through both RunTurn and the steer fallback.
Unmixed == \A E \in EntrySets : ~({"orPark", "sync"} \subseteq E)

\* What follows for the turns: nothing is parked while a turn of RunTurn runs,
\* so the end of the turn that runs always starts what is parked.
Kept ==
  /\ \A t, u \in Turns : ~(entry[t] = "orPark" /\ entry[u] = "sync")
  /\ \A t \in Turns : at[t] = "running" /\ entry[t] = "sync" => parked = <<>>
  /\ NothingStranded
  /\ RunsInItsSession

LEMMA InitKept == ASSUME Unmixed PROVE TurnInit => Kept
  BY EntryAssumption DEF TurnInit, Kept, Unmixed, NothingStranded, RunsInItsSession

LEMMA NextKept == IInv /\ Kept /\ [TurnNext]_turnVars => Kept'
<1> SUFFICES ASSUME IInv, Kept, [TurnNext]_turnVars PROVE Kept'
  OBVIOUS
<1> USE DEF Kept, NothingStranded, RunsInItsSession, turnVars, gate, turns, calls
<1>1. /\ at \in [Turns -> Places] /\ home \in [Turns -> Nat] /\ entry \in [Turns -> Entries]
      /\ parked \in Seq(Turns) /\ session \in Nat
  BY SwapAssumption DEF IInv, TurnTypeOK
<1>2. ASSUME NEW t \in Turns, Admit(t) PROVE Kept'
  <2>1. CASE Idle /\ Start(t, at) /\ flags' = flags \union {"running"} /\ UNCHANGED parked
    BY <1>1, <1>2, <2>1 DEF Admit, Submitted, Idle, Start
  <2>2. CASE /\ ~Idle /\ Parks(t)
             /\ parked' = Append(parked, t)
             /\ at' = [at EXCEPT ![t] = "parked"]
             /\ UNCHANGED <<flags, current, canceling>>
    <3>1. flags \intersect {"running", "finishing"} # {}
      BY <2>2 DEF Idle, Parks, IInv, TurnTypeOK, Flags
    <3>2. \A u \in Turns : at[u] = "running" => entry[u] # "sync"
      BY <2>2 DEF Parks, IInv, OneTurnAtATime
    <3> QED BY <1>1, <1>2, <2>2, <3>1, <3>2 DEF Admit, Submitted
  <2>3. CASE at' = [at EXCEPT ![t] = "dropped"] /\ UNCHANGED gate
    BY <1>1, <1>2, <2>3 DEF Admit, Submitted
  <2> QED BY <1>2, <2>1, <2>2, <2>3 DEF Admit
<1>3. ASSUME NEW t \in Turns, RunTurn(t) PROVE Kept'
  BY <1>1, <1>3 DEF RunTurn, Submitted, Idle, Start
<1>4. ASSUME NEW t \in Turns, Finish(t) PROVE Kept'
  BY <1>1, <1>4 DEF Finish, IInv, Queue
<1>5. ASSUME NEW t \in Turns, Delivered(t) PROVE Kept'
  <2>1. CASE "closed" \in flags \/ parked = <<>>
    BY <1>1, <1>5, <2>1 DEF Delivered, Start, IInv, Queue
  <2>2. CASE "closed" \notin flags /\ parked # <<>>
    <3>1. at[Head(parked)] = "parked" /\ entry[Head(parked)] # "sync" /\ Head(parked) \in Turns
      BY <1>1, <2>2, TailOf DEF IInv, Queue
    <3>2. \A u \in Turns : at[u] = "running" => u = t
      BY <1>5, <1>1 DEF Delivered, IInv, OneTurnAtATime, InFlight
    <3> QED BY <1>1, <1>5, <2>2, <3>1, <3>2 DEF Delivered, Start
  <2> QED BY <2>1, <2>2
<1>6. ASSUME NEW t \in Turns, Return(t) PROVE Kept'
  BY <1>1, <1>6 DEF Return
<1>7. CASE BeginRotation
  BY <1>1, <1>7 DEF BeginRotation
<1>8. CASE EndRotation
  <2>1. parked = <<>> /\ flags \intersect {"running", "finishing"} = {}
    BY <1>8 DEF EndRotation, IInv, Windows
  <2>2. \A t \in Turns : at[t] \notin {"parked", "running"}
    BY <1>1, <2>1 DEF IInv, Queue, OneTurnAtATime
  <2> QED BY <1>1, <1>8, <2>1, <2>2 DEF EndRotation
<1>11. CASE Resume
  BY <1>1, <1>11 DEF Resume
<1>9. ASSUME NEW k \in Cancellers, Close(k) PROVE Kept'
  BY <1>1, <1>9 DEF Close
<1>10. ASSUME UNCHANGED <<flags, parked, entry, at, home, session>> PROVE Kept'
  BY <1>10
<1> QED
  BY <1>2, <1>3, <1>4, <1>5, <1>6, <1>7, <1>8, <1>9, <1>10, <1>11
  DEF TurnNext, CallerGone, CaptureCancel, CancelNothing, ClearPrompts, Fire

LEMMA KeptAlways == ASSUME Unmixed PROVE TurnSpec => []Kept
<1> USE DEF TurnSpec
<1>1. TurnInit => IInv /\ Kept
  BY InitIInv, InitKept
<1>2. (IInv /\ Kept) /\ [TurnNext]_turnVars => (IInv /\ Kept)'
  BY NextIInv, NextKept
<1> QED BY <1>1, <1>2, PTL

\* No parked input is left behind, on a controller of one kind of front end.
THEOREM NothingLeftBehind == ASSUME Unmixed PROVE TurnSpec => []NothingStranded
<1>1. Kept => NothingStranded
  BY DEF Kept
<1> QED BY KeptAlways, <1>1, PTL

\* Nor does a rotation take it to another session than the one it was submitted
\* to; a Resume may, and then it runs in that one.
THEOREM InputsKeepTheirSession == ASSUME Unmixed PROVE TurnSpec => []RunsInItsSession
<1>1. Kept => RunsInItsSession
  BY DEF Kept
<1> QED BY KeptAlways, <1>1, PTL

-----------------------------------------------------------------------------
(* The prompts *)

\* Every step of a request or of the user leaves the turns alone, and the
\* others take a step of TurnGate: its theorems hold of this module's turns.
THEOREM TurnsAreGated == Spec => IsTurnGate
<1>1. Init => TurnInit
  BY DEF Init
<1>2. [Next]_vars => [TurnNext]_turnVars
  <2> SUFFICES ASSUME [Next]_vars PROVE TurnNext \/ UNCHANGED turnVars
    OBVIOUS
  <2>1. CASE TurnStep
    BY <2>1 DEF TurnStep, TurnNext
  <2>2. ASSUME NEW t \in Turns, BodyEnds(t) PROVE TurnNext
    BY <2>2 DEF BodyEnds, TurnNext
  <2>3. ASSUME NEW k \in Cancellers, ClearAll(k) \/ DismissIdle(k) PROVE TurnNext
    BY <2>3 DEF ClearAll, DismissIdle, TurnNext
  <2>4. ASSUME NEW r \in Requests, RequestStep(r) PROVE UNCHANGED turnVars
    BY <2>4 DEF RequestStep, Ask, LockPrompt, Recheck, Hook, Register, Receive, GrantSession,
                OpenWindow, CloseWindow, Expire, Abandon
  <2>5. ASSUME NEW r \in Requests,
               \/ Send(r) \/ \E v \in Answers : Answer(r, v)
               \/ \E k \in Cancellers : Dismiss(k, r)
        PROVE  UNCHANGED turnVars
    BY <2>5 DEF Send, Answer, Dismiss
  <2>6. ASSUME NEW m \in Modes, SwitchMode(m) PROVE UNCHANGED turnVars
    BY <2>6 DEF SwitchMode
  <2>7. CASE UNCHANGED vars
    BY <2>7 DEF vars
  <2> QED BY <2>1, <2>2, <2>3, <2>4, <2>5, <2>6, <2>7 DEF Next
<1> QED BY <1>1, <1>2, PTL DEF Spec, TurnSpec, IsTurnGate

-----------------------------------------------------------------------------
Before == {"idle", "queued", "locked", "hook", "register"}

\* Nothing has been said to a request without a prompt, nor to one whose prompt
\* is registered; a dismissed question has been answered by nobody.
Untouched ==
  /\ \A r \in Requests : rpc[r] \in Before \/ r \in prompts =>
       /\ said[r] = "none" /\ signal[r] = "none" /\ reply[r] = "none" /\ outcome[r] = "none"
       /\ \A k \in Cancellers : dismissed[k] # r
  /\ \A k \in Cancellers, r \in Requests : dismissed[k] = r =>
       /\ class[r] = "ask" /\ said[r] = "none"
       /\ canceller[k] = "idle" => signal[r] = "none" /\ reply[r] = "none"
  /\ \A k, j \in Cancellers : dismissed[k] = dismissed[j] /\ dismissed[k] # NoRequest => k = j

Registered == \A r \in prompts : rpc[r] \in {"waiting", "expiring"}

\* What is on its way to a request, or has arrived.
Allowing(r) == signal[r] \in {"allow", "session"} \/ reply[r] \in {"allow", "session"}
                 \/ outcome[r] = "allow"

\* It comes from the user where it has to.
Sources ==
  /\ \A r \in Requests : signal[r] # "none" => reply[r] = "none"
  /\ \A r \in Requests : said[r] = "deny" => ~Allowing(r)
  /\ \A r \in Requests : Allowing(r) =>
       /\ class[r] \in {"fresh", "memory", "plan"} => Consented(r)
       /\ class[r] = "human" => Consented(r) \/ "yolo" \in adopted
  /\ \A r \in Requests : signal[r] = "session" \/ reply[r] = "session" => said[r] = "session"
  /\ \A r \in Requests : rpc[r] = "granting" => said[r] = "session" /\ class[r] \notin Once
  /\ \A r \in Requests : Grant(r) \in granted =>
       class[r] \notin Once /\ \E q \in Requests : said[q] = "session" /\ Grant(q) = Grant(r)

Callers == canceller \in [Cancellers -> {"idle", "captured", "cleared", "done"}]

PInv == PromptTypeOK /\ Callers /\ Untouched /\ Registered /\ Sources

-----------------------------------------------------------------------------
LEMMA InitPInv == Init => PInv
  BY RequestAssumption, KindAssumption, BoundAssumption, NoneAssumption
  DEF Init, TurnInit, PInv, PromptTypeOK, Callers, Untouched, Registered, Sources, Allowing, Locked, Steps, Modes,
      Answers, Before

LEMMA NextPInv == PInv /\ [Next]_vars => PInv'
<1> SUFFICES ASSUME PInv, [Next]_vars PROVE PInv'
  OBVIOUS
<1> USE NoneAssumption, RequestAssumption
    DEF PInv, PromptTypeOK, Callers, Untouched, Registered, Sources, Allowing, Consented, Grant, Locked,
        Steps, Modes, Answers, Before, Step, Returns, posture, Classes, Ordinary, Unsafe, Once,
        turnVars, gate, turns, calls, waiting, promptVars, vars
<1>1. ASSUME NEW r \in Requests, Ask(r) PROVE PInv'
  BY <1>1 DEF Ask, PreApproved
<1>2. ASSUME NEW r \in Requests, LockPrompt(r) PROVE PInv'
  BY <1>2 DEF LockPrompt
<1>3. ASSUME NEW r \in Requests, Recheck(r) PROVE PInv'
  BY <1>3 DEF Recheck, PreApproved
<1>4. ASSUME NEW r \in Requests, Hook(r) PROVE PInv'
  BY <1>4 DEF Hook
<1>5. ASSUME NEW r \in Requests, Register(r) PROVE PInv'
  BY <1>5 DEF Register
<1>6. ASSUME NEW r \in Requests, Receive(r) PROVE PInv'
  BY <1>6 DEF Receive
<1>7. ASSUME NEW r \in Requests, GrantSession(r) PROVE PInv'
  BY <1>7 DEF GrantSession
<1>8. ASSUME NEW r \in Requests, OpenWindow(r) PROVE PInv'
  BY <1>8 DEF OpenWindow
<1>9. ASSUME NEW r \in Requests, CloseWindow(r) PROVE PInv'
  BY <1>9 DEF CloseWindow
<1>10. ASSUME NEW r \in Requests, Expire(r) PROVE PInv'
  BY <1>10 DEF Expire
<1>11. ASSUME NEW r \in Requests, Abandon(r) PROVE PInv'
  BY <1>11 DEF Abandon
<1>12. ASSUME NEW r \in Requests, NEW v \in Answers, Answer(r, v) PROVE PInv'
  BY <1>12 DEF Answer
<1>13. ASSUME NEW r \in Requests, Send(r) PROVE PInv'
  BY <1>13 DEF Send
<1>14. ASSUME NEW r \in Requests, NEW k \in Cancellers, Dismiss(k, r) PROVE PInv'
  BY <1>14 DEF Dismiss
<1>15. ASSUME NEW k \in Cancellers, DismissIdle(k) PROVE PInv'
  BY <1>15 DEF DismissIdle, CancelNothing
<1>16. ASSUME NEW m \in Modes, SwitchMode(m) PROVE PInv'
  <2>1. /\ UNCHANGED <<turnVars, class, timed, window, granted, holder, rpc, reply, outcome, said, dismissed>>
        /\ switches' \in 0 .. MaxSwitches /\ mode' = m /\ adopted' = adopted \union {m}
        /\ prompts' = prompts \ Drained(m)
        /\ signal' = [r \in Requests |-> IF r \in Drained(m) THEN "allow" ELSE signal[r]]
    BY <1>16, BoundAssumption DEF SwitchMode
  <2>2. /\ Drained(m) \subseteq prompts
        /\ \A r \in Drained(m) : /\ class[r] \in {"tool", "asked", "human"}
                                 /\ class[r] = "human" => m = "yolo"
    BY DEF Drained
  <2>3. PromptTypeOK' /\ Callers' /\ Registered'
    BY <2>1, <2>2
  <2>4. Untouched'
    BY <2>1, <2>2
  <2>5. Sources'
    <3>1. \A r \in Drained(m) : said[r] = "none" /\ signal[r] = "none" /\ reply[r] = "none"
                              /\ outcome[r] = "none" /\ r \in Requests
      BY <2>2
    <3>2. \A r \in Requests : Consented(r)' <=> Consented(r)
      BY <2>1
    <3>3. \A r \in Requests : Allowing(r)' => r \in Drained(m) \/ Allowing(r)
      BY <2>1
    <3>4. ASSUME NEW r \in Requests, Allowing(r)'
          PROVE  /\ class'[r] \in {"fresh", "memory", "plan"} => Consented(r)'
                 /\ class'[r] = "human" => Consented(r)' \/ "yolo" \in adopted'
      <4>1. CASE r \in Drained(m)
        <5> HIDE DEF PInv, Consented, Allowing
        <5>1. class' = class /\ adopted' = adopted \union {m}
          BY <2>1
        <5>2. class[r] \in {"tool", "asked", "human"} /\ (class[r] = "human" => m = "yolo")
          BY <2>2, <4>1
        <5> QED BY <5>1, <5>2
      <4>2. CASE Allowing(r)
        <5>1. /\ class[r] \in {"fresh", "memory", "plan"} => Consented(r)
              /\ class[r] = "human" => Consented(r) \/ "yolo" \in adopted
          BY <4>2
        <5> HIDE DEF PInv, Consented, Allowing
        <5> QED BY <2>1, <3>2, <5>1
      <4> QED BY <3>3, <3>4, <4>1, <4>2
    <3>5. \A r \in Requests : said'[r] = "deny" => ~Allowing(r)'
      BY <2>1, <3>1, <3>3
    <3>6. /\ \A r \in Requests : signal'[r] # "none" => reply'[r] = "none"
          /\ \A r \in Requests : signal'[r] = "session" \/ reply'[r] = "session"
                                 => said'[r] = "session"
      BY <2>1, <3>1
    <3>7. /\ \A r \in Requests : rpc'[r] = "granting" => said'[r] = "session" /\ class'[r] \notin Once
          /\ \A r \in Requests : Grant(r)' \in granted' =>
               class'[r] \notin Once
               /\ \E q \in Requests : said'[q] = "session" /\ Grant(q)' = Grant(r)'
      BY <2>1
    <3> HIDE DEF PInv, Allowing, Consented, Grant
    <3> QED BY <3>4, <3>5, <3>6, <3>7 DEF Sources
  <2> QED BY <2>3, <2>4, <2>5
<1>17. ASSUME NEW k \in Cancellers, ClearAll(k) PROVE PInv'
  BY <1>17 DEF ClearAll, ClearPrompts
<1>18. ASSUME UNCHANGED promptVars,
              Callers' /\ \A k \in Cancellers : canceller'[k] = "idle" => canceller[k] = "idle"
       PROVE  PInv'
  BY <1>18
<1>19. CASE TurnStep \/ \E t \in Turns : BodyEnds(t)
  <2>1. UNCHANGED promptVars
    BY <1>19 DEF TurnStep, BodyEnds
  <2>2. Callers' /\ \A k \in Cancellers : canceller'[k] = "idle" => canceller[k] = "idle"
    <3>1. ASSUME NEW k \in Cancellers, CaptureCancel(k) \/ CancelNothing(k) \/ Close(k) \/ Fire(k)
          PROVE  Callers' /\ \A j \in Cancellers : canceller'[j] = "idle" => canceller[j] = "idle"
      BY <3>1 DEF CaptureCancel, CancelNothing, Close, Fire
    <3>2. ASSUME UNCHANGED canceller
          PROVE  Callers' /\ \A j \in Cancellers : canceller'[j] = "idle" => canceller[j] = "idle"
      BY <3>2
    <3>3. ASSUME NEW t \in Turns,
                 Admit(t) \/ RunTurn(t) \/ CallerGone(t) \/ Finish(t) \/ Delivered(t) \/ Return(t)
          PROVE  UNCHANGED canceller
      BY <3>3 DEF Admit, RunTurn, CallerGone, Finish, Delivered, Return
    <3>4. ASSUME BeginRotation \/ EndRotation \/ Resume PROVE UNCHANGED canceller
      BY <3>4 DEF BeginRotation, EndRotation, Resume
    <3> QED BY <1>19, <3>1, <3>2, <3>3, <3>4 DEF TurnStep, BodyEnds
  <2> QED BY <1>18, <2>1, <2>2
<1>20. CASE UNCHANGED vars
  BY <1>18, <1>20
<1> HIDE DEF PInv
<1> QED
  BY <1>1, <1>2, <1>3, <1>4, <1>5, <1>6, <1>7, <1>8, <1>9, <1>10, <1>11, <1>12, <1>13,
     <1>14, <1>15, <1>16, <1>17, <1>19, <1>20
  DEF Next, RequestStep

LEMMA PInvAlways == Spec => []PInv
  BY InitPInv, NextPInv, PTL DEF Spec

-----------------------------------------------------------------------------
\* The variables keep their types, and promptMu is held exactly between its
\* Lock and its deferred Unlock.
THEOREM PromptTypeCorrect == Spec => []PromptTypeOK
<1>1. PInv => PromptTypeOK
  BY DEF PInv
<1> QED BY PInvAlways, <1>1, PTL

\* No hook, posture, plan, drain, timeout or cancellation decides what is the
\* user's to decide.
THEOREM TheUserDecides == Spec => []UserDecides
<1>1. PInv => UserDecides
  BY DEF PInv, Sources, Allowing, UserDecides
<1> QED BY PInvAlways, <1>1, PTL

\* A refusal is final: nothing allows the call afterwards.
THEOREM RefusalIsFinal == Spec => []RefusalSticks
<1>1. PInv => RefusalSticks
  BY DEF PInv, Sources, Allowing, RefusalSticks
<1> QED BY PInvAlways, <1>1, PTL

\* A reply channel of capacity one never holds up whoever answers.
THEOREM NoReplyBlocks == Spec => []OneReplyPerPrompt
<1>1. PInv => OneReplyPerPrompt
  BY DEF PInv, PromptTypeOK, Untouched, Sources, OneReplyPerPrompt
<1> QED BY PInvAlways, <1>1, PTL

\* One prompt at most is out, and somebody waits behind it.
THEOREM PromptsHaveWaiters == Spec => []NoGhostPrompt
<1>1. PInv => NoGhostPrompt
  BY DEF PInv, PromptTypeOK, Registered, NoGhostPrompt, Locked
<1> QED BY PInvAlways, <1>1, PTL

-----------------------------------------------------------------------------
(* The prompts and the turns together *)

\* A turn runs as long as one of its requests is under way, and the window is
\* that of a plan which is being executed.
BusyTurns ==
  /\ \A r \in Requests : rpc[r] \notin {"idle", "returned"} => at[TurnOf[r]] = "running"
  /\ window # NoRequest => rpc[window] = "executing"

JointInv == IInv /\ PInv /\ BusyTurns

\* Only its own end takes a turn out of the place where it runs.
LEMMA RunningStays ==
  ASSUME IInv, NEW t \in Turns, at[t] = "running",
         \/ \E u \in Turns : \/ Admit(u) \/ RunTurn(u) \/ CallerGone(u) \/ Delivered(u)
                             \/ u # t /\ (Finish(u) \/ Return(u))
         \/ BeginRotation \/ EndRotation \/ Resume
         \/ \E k \in Cancellers : \/ CaptureCancel(k) \/ CancelNothing(k) \/ Close(k)
                                  \/ ClearPrompts(k) \/ Fire(k)
  PROVE  at'[t] = "running"
<1> USE DEF IInv, TurnTypeOK, turnVars, gate, turns, calls
<1>1. ASSUME NEW u \in Turns, Admit(u) \/ RunTurn(u) PROVE at'[t] = "running"
  BY <1>1 DEF Admit, RunTurn, Start
<1>2. ASSUME NEW u \in Turns, Delivered(u) PROVE at'[t] = "running"
  <2>1. parked # <<>> => Head(parked) \in Turns
    BY TailOf
  <2> QED BY <1>2, <2>1 DEF Delivered, Start
<1>3. ASSUME NEW u \in Turns, u # t, Finish(u) \/ Return(u) PROVE at'[t] = "running"
  BY <1>3 DEF Finish, Return
<1>4. ASSUME NEW u \in Turns, CallerGone(u) PROVE at'[t] = "running"
  BY <1>4 DEF CallerGone
<1>5. ASSUME BeginRotation \/ EndRotation \/ Resume PROVE at'[t] = "running"
  BY <1>5 DEF BeginRotation, EndRotation, Resume
<1>6. ASSUME NEW k \in Cancellers,
             CaptureCancel(k) \/ CancelNothing(k) \/ Close(k) \/ ClearPrompts(k) \/ Fire(k)
      PROVE  at'[t] = "running"
  BY <1>6 DEF CaptureCancel, CancelNothing, Close, ClearPrompts, Fire
<1> QED BY <1>1, <1>2, <1>3, <1>4, <1>5, <1>6

LEMMA BusyStep == JointInv /\ [Next]_vars => BusyTurns'
<1> SUFFICES ASSUME JointInv, [Next]_vars PROVE BusyTurns'
  OBVIOUS
<1>0. /\ IInv /\ BusyTurns
      /\ rpc \in [Requests -> Steps] /\ window \in Requests \union {NoRequest}
  BY DEF JointInv, PInv, PromptTypeOK
<1>1. ASSUME UNCHANGED <<rpc, window>>,
             \A t \in Turns : (\E r \in Requests : TurnOf[r] = t /\ rpc[r] \notin {"idle", "returned"})
                              /\ at[t] = "running" => at'[t] = "running"
      PROVE  BusyTurns'
  BY <1>0, <1>1, RequestAssumption DEF BusyTurns
<1>2. ASSUME TurnStep PROVE BusyTurns'
  <2>1. UNCHANGED <<rpc, window>>
    BY <1>2 DEF TurnStep, promptVars, waiting, posture
  <2>2. \A t \in Turns : at[t] = "running" => at'[t] = "running"
    BY <1>0, <1>2, RunningStays DEF TurnStep
  <2> QED BY <1>1, <2>1, <2>2
<1>3. ASSUME NEW u \in Turns, BodyEnds(u) PROVE BusyTurns'
  <2>1. UNCHANGED <<rpc, window>> /\ (Finish(u) \/ Return(u)) /\ Quiet(u)
    BY <1>3 DEF BodyEnds, promptVars, waiting, posture
  <2>2. \A t \in Turns : t # u /\ at[t] = "running" => at'[t] = "running"
    BY <1>0, <2>1, RunningStays
  <2>3. \A r \in Requests : rpc[r] \notin {"idle", "returned"} => TurnOf[r] # u
    BY <2>1 DEF Quiet
  <2> QED BY <1>1, <2>1, <2>2, <2>3
<1>4. ASSUME NEW k \in Cancellers, ClearAll(k) \/ DismissIdle(k) PROVE BusyTurns'
  <2>1. UNCHANGED <<rpc, window>> /\ (ClearPrompts(k) \/ CancelNothing(k))
    BY <1>4 DEF ClearAll, DismissIdle, posture
  <2>2. \A t \in Turns : at[t] = "running" => at'[t] = "running"
    BY <1>0, <2>1, RunningStays
  <2> QED BY <1>1, <2>1, <2>2
<1>5. ASSUME NEW r \in Requests, Ask(r) PROVE BusyTurns'
  BY <1>0, <1>5, NoneAssumption DEF Ask, Step, BusyTurns, posture, turnVars, turns, Steps
<1>6. ASSUME NEW r \in Requests, UNCHANGED <<at, window>>, rpc[r] \notin {"idle", "returned", "executing"},
             \E to : rpc' = [rpc EXCEPT ![r] = to]
      PROVE  BusyTurns'
  BY <1>0, <1>6, NoneAssumption DEF BusyTurns
<1>7. ASSUME NEW r \in Requests,
             \/ LockPrompt(r) \/ Recheck(r) \/ Hook(r) \/ Register(r) \/ Receive(r)
             \/ GrantSession(r) \/ Expire(r) \/ Abandon(r)
      PROVE  BusyTurns'
  <2>1. UNCHANGED <<at, window>>
    BY <1>7 DEF LockPrompt, Recheck, Hook, Register, Receive, GrantSession, Expire, Abandon,
                posture, turnVars, turns
  <2>2. \E from \in {"queued", "locked", "hook", "register", "waiting", "granting", "expiring"} :
          \E to : Step(r, from, to)
    <3>1. CASE Receive(r)
      BY <3>1, Zenon DEF Receive
    <3>2. CASE Recheck(r)
      BY <3>2, Zenon DEF Recheck
    <3>3. CASE Hook(r)
      BY <3>3 DEF Hook
    <3>4. CASE LockPrompt(r) \/ Register(r) \/ GrantSession(r) \/ Expire(r) \/ Abandon(r)
      BY <3>4 DEF LockPrompt, Register, GrantSession, Expire, Abandon
    <3> QED BY <1>7, <3>1, <3>2, <3>3, <3>4
  <2> QED BY <1>6, <2>1, <2>2 DEF Step
<1>8. ASSUME NEW r \in Requests, OpenWindow(r) \/ CloseWindow(r) PROVE BusyTurns'
  BY <1>0, <1>8, NoneAssumption DEF OpenWindow, CloseWindow, Step, BusyTurns, turnVars, turns
<1>9. ASSUME UNCHANGED <<at, rpc, window>> PROVE BusyTurns'
  BY <1>0, <1>9 DEF BusyTurns
<1>10. ASSUME NEW r \in Requests,
              \/ Send(r) \/ \E v \in Answers : Answer(r, v)
              \/ \E k \in Cancellers : Dismiss(k, r)
       PROVE  BusyTurns'
  BY <1>9, <1>10 DEF Send, Answer, Dismiss, posture, turnVars, turns
<1>11. ASSUME NEW m \in Modes, SwitchMode(m) PROVE BusyTurns'
  BY <1>9, <1>11 DEF SwitchMode, turnVars, turns
<1>12. ASSUME UNCHANGED vars PROVE BusyTurns'
  BY <1>9, <1>12 DEF vars, turnVars, turns, promptVars, waiting, posture
<1> QED
  BY <1>2, <1>3, <1>4, <1>5, <1>7, <1>8, <1>10, <1>11, <1>12 DEF Next, RequestStep

LEMMA JointInvAlways == Spec => []JointInv
<1>1. Init => BusyTurns
  BY NoneAssumption DEF Init, BusyTurns
<1>2. TurnSpec => []IInv
  BY InitIInv, NextIInv, PTL DEF TurnSpec
<1>3. Spec => []IInv
  BY <1>2, TurnsAreGated, PTL DEF IsTurnGate
<1>4. IInv /\ PInv /\ BusyTurns /\ [Next]_vars => BusyTurns'
  BY BusyStep DEF JointInv
<1> QED BY <1>1, <1>3, <1>4, PInvAlways, PTL DEF Spec, JointInv

\* The window of an approved plan never outlives the turn that executes the plan:
\* no later turn inherits its auto-approval.
THEOREM WindowShutWithTurn == Spec => []WindowInTurn
<1>1. JointInv => WindowInTurn
  BY NoneAssumption DEF JointInv, PInv, PromptTypeOK, BusyTurns, WindowInTurn
<1> QED BY JointInvAlways, <1>1, PTL

\* Every prompt is one of the turn that runs, and holds off whatever takes the
\* rotation gate (not a Resume).
THEOREM PromptsAreCurrent == Spec => []PromptsOfCurrentTurn
<1>1. JointInv => PromptsOfCurrentTurn
  <2> SUFFICES ASSUME JointInv, NEW r \in prompts
               PROVE  "rotating" \notin flags /\ current = TurnOf[r]
    BY DEF PromptsOfCurrentTurn
  <2>1. r \in Requests /\ rpc[r] \in {"waiting", "expiring"}
    BY DEF JointInv, PInv, PromptTypeOK, Registered
  <2>2. TurnOf[r] \in Turns /\ at[TurnOf[r]] = "running"
    BY <2>1, RequestAssumption DEF JointInv, BusyTurns
  <2> QED BY <2>2 DEF JointInv, IInv, OneTurnAtATime, Windows
<1> QED BY JointInvAlways, <1>1, PTL

\* While requests wait and cancellations run, one turn is in flight, and the
\* operations that take the rotation gate wait for its end.
THEOREM PromptedTurnsExclusive == Spec => [](OneTurnAtATime /\ RotationExcludesTurns)
<1>1. TurnSpec => [](OneTurnAtATime /\ RotationExcludesTurns)
  BY TurnsExclusive, RotationExclusive, PTL
<1> QED BY <1>1, TurnsAreGated, PTL DEF IsTurnGate
=============================================================================
