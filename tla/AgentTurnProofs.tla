-------------------------- MODULE AgentTurnProofs --------------------------
(***************************************************************************)
(* Proofs about AgentTurn.  The three parts of the inductive invariant are *)
(* independent of each other: Intake is about the steers, Budget about the *)
(* loop's counters, Batch about the calls of a round.                      *)
(***************************************************************************)
EXTENDS AgentTurn, SequenceTheorems, TLAPS

USE DEF Calls, Steers

\* A step of the system, as one of its actions or a stutter.
LEMMA StepCases ==
  ASSUME [Next]_vars
  PROVE  \/ Begin \/ SendRequest \/ OutOfSteps
         \/ StreamInterrupted \/ StreamFails \/ Answered
         \/ \E n \in Calls, kinds \in [Calls -> {"read", "serial"}] :
              CallsReceived(n, kinds)
         \/ AnswerRefused \/ AnswerAccepted \/ Summarized
         \/ \E i \in Calls : StartCall(i)
         \/ \E i \in Calls : EndCall(i)
         \/ BatchEnds \/ RoundEnds \/ Finish \/ Cancel
         \/ \E s \in Steers : Steer(s)
         \/ UNCHANGED vars
  BY Zenon DEF Next, AgentStep

\* The ways a batch ends.
LEMMA BatchEndCases ==
  ASSUME BatchEnds
  PROVE  /\ UNCHANGED <<loopVars, cancelled, kind, seen, steerVars>>
         /\ pc = "batch" /\ Running = {}
         /\ \/ Fill("blocked") /\ pc' = "round" /\ UNCHANGED first
            \/ Fill("cancelled") /\ pc' = "round" /\ UNCHANGED first
            \/ /\ InBatch \cap Waiting = {}
               /\ ~ \E i \in InBatch : status[i] = "stopped"
               /\ \/ /\ {i \in Calls : i \notin InBatch /\ status[i] = "waiting"} = {}
                     /\ pc' = "round" /\ UNCHANGED <<status, first>>
                  \/ /\ first' \in {i \in Calls : i \notin InBatch /\ status[i] = "waiting"}
                     /\ \A i \in {i \in Calls : i \notin InBatch /\ status[i] = "waiting"} :
                          first' <= i
                     /\ UNCHANGED <<pc, status>>
  BY Zenon DEF BatchEnds

----------------------------------------------------------------------------

LEMMA LoopType ==
  ASSUME TypeOK, [Next]_vars PROVE LoopTypeOK'
<1> USE AgentAssumption DEF TypeOK, LoopTypeOK, Places, Outcomes
<1>1. CASE Begin
  BY <1>1 DEF Begin
<1>2. CASE SendRequest
  BY <1>2 DEF SendRequest, loopVars
<1>3. CASE OutOfSteps
  BY <1>3 DEF OutOfSteps, Return
<1>4. CASE StreamInterrupted
  BY <1>4 DEF StreamInterrupted
<1>5. CASE StreamFails
  BY <1>5 DEF StreamFails, Return
<1>6. CASE Answered
  BY <1>6 DEF Answered
<1>7. ASSUME NEW n, NEW kinds, CallsReceived(n, kinds) PROVE LoopTypeOK'
  BY <1>7 DEF CallsReceived, Return
<1>8. CASE AnswerRefused
  BY <1>8 DEF AnswerRefused, Return, Continue, StepOn
<1>9. CASE AnswerAccepted
  BY <1>9 DEF AnswerAccepted, Return, Continue, StepOn
<1>10. CASE Summarized
  BY <1>10 DEF Summarized, Return
<1>11. ASSUME NEW i, StartCall(i) PROVE LoopTypeOK'
  BY <1>11 DEF StartCall, loopVars
<1>12. ASSUME NEW i, EndCall(i) PROVE LoopTypeOK'
  BY <1>12 DEF EndCall, loopVars
<1>13. CASE BatchEnds
  BY <1>13, BatchEndCases DEF loopVars
<1>14. CASE RoundEnds
  <2>1. UNCHANGED <<run, limit, recoveries>> /\ rounds' \in Nat
    BY <1>14 DEF RoundEnds
  <2>2. \/ Return("failed") /\ UNCHANGED step
        \/ Return("paused") /\ UNCHANGED step
        \/ Continue
    BY <1>14 DEF RoundEnds
  <2> QED BY <2>1, <2>2 DEF Return, Continue, StepOn
<1>15. CASE Finish
  BY <1>15 DEF Finish, loopVars
<1>16. CASE Cancel
  BY <1>16 DEF Cancel, loopVars
<1>17. ASSUME NEW s, Steer(s) PROVE LoopTypeOK'
  BY <1>17 DEF Steer, loopVars
<1>18. CASE UNCHANGED vars
  BY <1>18 DEF vars, loopVars
<1> QED
  BY StepCases, <1>1, <1>2, <1>3, <1>4, <1>5, <1>6, <1>7, <1>8, <1>9, <1>10,
     <1>11, <1>12, <1>13, <1>14, <1>15, <1>16, <1>17, <1>18, Zenon

LEMMA FlagType ==
  ASSUME TypeOK, [Next]_vars PROVE FlagTypeOK'
<1> USE DEF TypeOK, FlagTypeOK
<1>1. CASE Begin
  BY <1>1, Zenon DEF Begin
<1>2. CASE SendRequest
  BY <1>2, Zenon DEF SendRequest, loopVars
<1>3. CASE OutOfSteps
  BY <1>3, Zenon DEF OutOfSteps, steerVars
<1>4. CASE StreamInterrupted
  BY <1>4, Zenon DEF StreamInterrupted, steerVars
<1>5. CASE StreamFails
  BY <1>5, Zenon DEF StreamFails, steerVars
<1>6. CASE Answered
  BY <1>6, Zenon DEF Answered, steerVars
<1>7. ASSUME NEW n, NEW kinds, CallsReceived(n, kinds) PROVE FlagTypeOK'
  BY <1>7, Zenon DEF CallsReceived, steerVars
<1>8. CASE AnswerRefused
  BY <1>8, Zenon DEF AnswerRefused, steerVars
<1>9. CASE AnswerAccepted
  <2>1. intake' \in BOOLEAN
    BY <1>9, Zenon DEF AnswerAccepted
  <2> QED BY <1>9, <2>1, Zenon DEF AnswerAccepted
<1>10. CASE Summarized
  BY <1>10, Zenon DEF Summarized, steerVars
<1>11. ASSUME NEW i, StartCall(i) PROVE FlagTypeOK'
  BY <1>11, Zenon DEF StartCall, loopVars, steerVars
<1>12. ASSUME NEW i, EndCall(i) PROVE FlagTypeOK'
  BY <1>12, Zenon DEF EndCall, loopVars, steerVars
<1>13. CASE BatchEnds
  BY <1>13, BatchEndCases, Zenon DEF loopVars, steerVars
<1>14. CASE RoundEnds
  <2>1. grace' \in BOOLEAN /\ finalizing' \in BOOLEAN
    BY <1>14, Zenon DEF RoundEnds
  <2> QED BY <1>14, <2>1, Zenon DEF RoundEnds, steerVars
<1>15. CASE Finish
  BY <1>15, Zenon DEF Finish, loopVars
<1>16. CASE Cancel
  BY <1>16, Zenon DEF Cancel, loopVars, steerVars
<1>17. ASSUME NEW s, Steer(s) PROVE FlagTypeOK'
  BY <1>17, Zenon DEF Steer, loopVars
<1>18. CASE UNCHANGED vars
  BY <1>18, Zenon DEF vars, loopVars, steerVars
<1> QED
  BY StepCases, <1>1, <1>2, <1>3, <1>4, <1>5, <1>6, <1>7, <1>8, <1>9, <1>10,
     <1>11, <1>12, <1>13, <1>14, <1>15, <1>16, <1>17, <1>18, Zenon

\* Which actions change the calls of the round.
LEMMA BatchUnchanged ==
  ASSUME [Next]_vars
  PROVE  \/ UNCHANGED batchVars
         \/ \E n \in Calls, kinds \in [Calls -> {"read", "serial"}] :
              /\ pc' = "batch" /\ ~grace /\ ~finalizing
              /\ CallsReceived(n, kinds)
              /\ kind' = kinds
              /\ status' = [i \in Calls |-> IF i <= n THEN "waiting" ELSE "none"]
              /\ first' = 1
              /\ seen' = [i \in Calls |-> {}]
         \/ \E i \in Calls : StartCall(i)
         \/ \E i \in Calls : EndCall(i)
         \/ BatchEnds
<1>1. ASSUME NEW n, NEW kinds, CallsReceived(n, kinds)
      PROVE  \/ UNCHANGED batchVars
             \/ /\ pc' = "batch" /\ ~grace /\ ~finalizing
                /\ kind' = kinds
                /\ status' = [i \in Calls |-> IF i <= n THEN "waiting" ELSE "none"]
                /\ first' = 1
                /\ seen' = [i \in Calls |-> {}]
  BY <1>1, Zenon DEF CallsReceived
<1> QED
  BY StepCases, <1>1, Zenon
     DEF Begin, SendRequest, OutOfSteps, StreamInterrupted, StreamFails,
         Answered, AnswerRefused, AnswerAccepted, Summarized, RoundEnds, Finish,
         Cancel, Steer, vars

LEMMA BatchType ==
  ASSUME TypeOK, [Next]_vars PROVE BatchTypeOK'
<1> USE DEF TypeOK, BatchTypeOK, Statuses
<1>1. CASE UNCHANGED batchVars
  BY <1>1 DEF batchVars
<1>2. ASSUME NEW n \in Calls, NEW kinds \in [Calls -> {"read", "serial"}],
             kind' = kinds, first' = 1,
             status' = [i \in Calls |-> IF i <= n THEN "waiting" ELSE "none"],
             seen' = [i \in Calls |-> {}]
      PROVE BatchTypeOK'
  BY <1>2
<1>3. ASSUME NEW i \in Calls, StartCall(i) PROVE BatchTypeOK'
  BY <1>3 DEF StartCall
<1>4. ASSUME NEW i \in Calls, EndCall(i) PROVE BatchTypeOK'
  BY <1>4 DEF EndCall
<1>5. CASE BatchEnds
  <2>1. first' \in Nat
    BY <1>5, BatchEndCases
  <2>2. Fill("blocked") \/ Fill("cancelled") \/ UNCHANGED status
    BY <1>5, BatchEndCases, Zenon
  <2>3. status' \in [Calls -> Statuses]
    BY <2>2 DEF Fill
  <2> QED BY <1>5, <2>1, <2>3, BatchEndCases
<1> QED BY BatchUnchanged, <1>1, <1>2, <1>3, <1>4, <1>5, Zenon

\* What each step does to the steers.
LEMMA SteerCases ==
  ASSUME [Next]_vars
  PROVE  \/ UNCHANGED <<queue, fate, during>>
         \/ SendRequest /\ queue # <<>>
         \/ Finish
         \/ \E s \in Steers : Steer(s)
BY StepCases, BatchEndCases, Zenon
   DEF Begin, SendRequest, OutOfSteps, StreamInterrupted, StreamFails,
       Answered, CallsReceived, AnswerRefused, AnswerAccepted, Summarized,
       StartCall, EndCall, RoundEnds, Cancel, vars, steerVars

LEMMA SteerType ==
  ASSUME TypeOK, [Next]_vars PROVE SteerTypeOK'
<1> USE AgentAssumption DEF TypeOK, SteerTypeOK, LoopTypeOK
<1>1. CASE UNCHANGED <<queue, fate, during>>
  BY <1>1
<1>2. CASE SendRequest /\ queue # <<>>
  <2>1. Head(queue) \in Steers /\ Tail(queue) \in Seq(Steers)
    BY <1>2
  <2> QED BY <1>2, <2>1 DEF SendRequest
<1>3. CASE Finish
  BY <1>3 DEF Finish
<1>4. ASSUME NEW s \in Steers, Steer(s) PROVE SteerTypeOK'
  BY <1>4 DEF Steer
<1> QED BY SteerCases, <1>1, <1>2, <1>3, <1>4, Zenon

THEOREM TypeCorrect == Spec => []TypeOK
<1>1. Init => TypeOK
  <2> SUFFICES ASSUME Init PROVE TypeOK
    OBVIOUS
  <2>1. LoopTypeOK
    BY AgentAssumption DEF Init, LoopTypeOK, Places, Outcomes
  <2>2. FlagTypeOK
    BY Zenon DEF Init, FlagTypeOK
  <2>3. BatchTypeOK
    BY DEF Init, BatchTypeOK, Statuses
  <2>4. SteerTypeOK
    <3>1. queue \in Seq(Steers)
      BY DEF Init
    <3> QED BY <3>1, AgentAssumption DEF Init, SteerTypeOK
  <2> QED BY <2>1, <2>2, <2>3, <2>4 DEF TypeOK
<1>2. TypeOK /\ [Next]_vars => TypeOK'
  BY LoopType, FlagType, BatchType, SteerType DEF TypeOK
<1> QED BY <1>1, <1>2, PTL DEF Spec

----------------------------------------------------------------------------
(* The steers.  Between Runs the intake is closed and the queue empty; the  *)
(* queue holds each queued steer once; and once Run has decided to return   *)
(* nil nothing can be queued any more.                                      *)

QueueHoldsQueued ==
  /\ \A k \in 1 .. Len(queue) : fate[queue[k]] = "queued"
  /\ \A k, l \in 1 .. Len(queue) : queue[k] = queue[l] => k = l
  /\ \A s \in Steers : fate[s] = "queued" => \E k \in 1 .. Len(queue) : queue[k] = s

FateInv ==
  /\ \A s \in Steers : during[s] <= run
  /\ \A s \in Steers : fate[s] = "none" <=> during[s] = 0
  /\ \A s \in Steers : fate[s] = "unapplied" /\ during[s] = run => pc = "idle"

ClosedInv ==
  /\ pc = "idle" => ~intake /\ queue = <<>>
  /\ pc # "idle" => run > 0
  /\ outcome = "done" =>
       /\ pc \in {"exit", "idle"} /\ ~intake /\ queue = <<>>
       /\ run > 0
       /\ \A s \in Steers : during[s] = run => fate[s] = "applied"

IntakeInv == QueueHoldsQueued /\ FateInv /\ ClosedInv

LEMMA QueuePreserved ==
  ASSUME TypeOK, QueueHoldsQueued, [Next]_vars PROVE QueueHoldsQueued'
<1> USE DEF TypeOK, SteerTypeOK, QueueHoldsQueued
<1>1. CASE UNCHANGED <<queue, fate, during>>
  BY <1>1
<1>2. CASE SendRequest /\ queue # <<>>
  <2>1. /\ queue' = Tail(queue)
        /\ fate' = [fate EXCEPT ![queue[1]] = "applied"]
    BY <1>2 DEF SendRequest
  <2>2. /\ Len(queue') = Len(queue) - 1 /\ Len(queue) \in Nat \ {0}
        /\ \A k \in 1 .. Len(queue') : queue'[k] = queue[k + 1]
        /\ \A k \in 1 .. Len(queue) : queue[k] \in Steers
    <3>1. queue \in Seq(Steers) /\ queue # <<>>
      BY <1>2
    <3>2. Len(queue) \in Nat \ {0} /\ \A k \in 1 .. Len(queue) : queue[k] \in Steers
      BY <3>1, EmptySeq, ElementOfSeq, LenProperties
    <3>3. /\ Len(queue') = Len(queue) - 1
          /\ \A k \in 1 .. Len(queue') : queue'[k] = queue[k + 1]
      BY <2>1, <3>1, HeadTailProperties
    <3> QED BY <3>2, <3>3
  <2>3. \A k \in 1 .. Len(queue') : fate'[queue'[k]] = "queued"
    BY <2>1, <2>2
  <2>4. ASSUME NEW k \in 1 .. Len(queue'), NEW l \in 1 .. Len(queue'),
               queue'[k] = queue'[l]
        PROVE  k = l
    <3>1. k + 1 \in 1 .. Len(queue) /\ l + 1 \in 1 .. Len(queue)
      BY <2>2
    <3>2. queue[k + 1] = queue[l + 1]
      BY <2>2, <2>4
    <3>3. k + 1 = l + 1
      BY <3>1, <3>2
    <3> QED BY <3>1, <3>3
  <2>5. ASSUME NEW s \in Steers, fate'[s] = "queued"
        PROVE \E k \in 1 .. Len(queue') : queue'[k] = s
    <3>1. s # queue[1] /\ fate[s] = "queued"
      BY <2>1, <2>2, <2>5
    <3>2. PICK k \in 1 .. Len(queue) : queue[k] = s
      BY <3>1
    <3>3. k - 1 \in 1 .. Len(queue') /\ queue'[k - 1] = s
      BY <3>1, <3>2, <2>2
    <3> QED BY <3>3
  <2> QED BY <2>3, <2>4, <2>5
<1>3. CASE Finish
  BY <1>3 DEF Finish
<1>4. ASSUME NEW s \in Steers, Steer(s) PROVE QueueHoldsQueued'
  <2>1. /\ queue' = Append(queue, s) /\ fate[s] = "none"
        /\ fate' = [fate EXCEPT ![s] = "queued"]
    BY <1>4 DEF Steer
  <2>2. /\ Len(queue') = Len(queue) + 1 /\ Len(queue) \in Nat
        /\ \A k \in 1 .. Len(queue) : queue'[k] = queue[k] /\ queue[k] \in Steers
        /\ queue'[Len(queue) + 1] = s
    <3>1. queue \in Seq(Steers)
      OBVIOUS
    <3>2. Len(queue) \in Nat /\ \A k \in 1 .. Len(queue) : queue[k] \in Steers
      BY <3>1, ElementOfSeq, LenProperties
    <3>3. /\ Len(queue') = Len(queue) + 1
          /\ \A k \in 1 .. Len(queue) : queue'[k] = queue[k]
          /\ queue'[Len(queue) + 1] = s
      BY <2>1, <3>1, AppendProperties
    <3> QED BY <3>2, <3>3
  <2>3. \A k \in 1 .. Len(queue) : queue[k] # s
    BY <2>1
  <2>4. \A k \in 1 .. Len(queue') : fate'[queue'[k]] = "queued"
    BY <2>1, <2>2, <2>3
  <2>5. \A k, l \in 1 .. Len(queue') : queue'[k] = queue'[l] => k = l
    BY <2>2, <2>3
  <2>6. ASSUME NEW r \in Steers, fate'[r] = "queued"
        PROVE \E k \in 1 .. Len(queue') : queue'[k] = r
    <3>1. CASE r = s
      BY <2>2, <3>1
    <3>2. CASE r # s
      <4>1. PICK k \in 1 .. Len(queue) : queue[k] = r
        BY <2>1, <2>6, <3>2
      <4> QED BY <4>1, <2>2
    <3> QED BY <3>1, <3>2
  <2> QED BY <2>4, <2>5, <2>6
<1> QED BY SteerCases, <1>1, <1>2, <1>3, <1>4, Zenon

\* Outside Begin, Finish and the accepted answer, no action opens or closes
\* the intake, returns nil or leaves Run.
LEMMA LoopCases ==
  ASSUME [Next]_vars
  PROVE  \/ Begin \/ Finish
         \/ AnswerAccepted /\ queue = <<>>
         \/ /\ UNCHANGED <<run, intake>>
            /\ UNCHANGED <<pc, outcome>> \/ (pc' # "idle" /\ pc \notin {"idle", "exit"})
            /\ outcome' = outcome \/ outcome' # "done"
<1>1. ASSUME NEW n, NEW kinds, CallsReceived(n, kinds)
      PROVE  /\ UNCHANGED <<run, intake>>
             /\ pc' # "idle" /\ pc \notin {"idle", "exit"}
             /\ outcome' = outcome \/ outcome' # "done"
  BY <1>1 DEF CallsReceived, Return, steerVars
<1>2. ASSUME \/ SendRequest \/ OutOfSteps \/ StreamInterrupted \/ StreamFails
             \/ Answered \/ AnswerRefused \/ Summarized
      PROVE  /\ UNCHANGED <<run, intake>>
             /\ pc' # "idle" /\ pc \notin {"idle", "exit"}
             /\ outcome' = outcome \/ outcome' # "done"
  BY <1>2 DEF SendRequest, OutOfSteps, StreamInterrupted, StreamFails, Answered,
              AnswerRefused, Summarized, Return, Continue, loopVars, steerVars
<1>3. ASSUME AnswerAccepted, queue # <<>>
      PROVE  /\ UNCHANGED <<run, intake>>
             /\ pc' # "idle" /\ pc \notin {"idle", "exit"}
             /\ outcome' = outcome
  BY <1>3 DEF AnswerAccepted, Continue
<1>4. ASSUME RoundEnds
      PROVE  /\ UNCHANGED <<run, intake>>
             /\ pc' # "idle" /\ pc \notin {"idle", "exit"}
             /\ outcome' = outcome \/ outcome' # "done"
  <2>1. Return("failed") \/ Return("paused") \/ Continue
    BY <1>4 DEF RoundEnds
  <2> QED BY <1>4, <2>1 DEF RoundEnds, Return, Continue, steerVars
<1>5. ASSUME BatchEnds
      PROVE  /\ UNCHANGED <<run, intake, outcome>>
             /\ UNCHANGED pc \/ (pc' = "round" /\ pc = "batch")
  BY <1>5, BatchEndCases, Zenon DEF loopVars, steerVars
<1>6. ASSUME \/ (\E i \in Calls : StartCall(i)) \/ (\E i \in Calls : EndCall(i))
             \/ Cancel \/ (\E s \in Steers : Steer(s)) \/ UNCHANGED vars
      PROVE  UNCHANGED <<run, intake, pc, outcome>>
  BY <1>6, Zenon DEF StartCall, EndCall, Cancel, Steer, vars, loopVars, steerVars
<1>7. CASE BatchEnds
  BY <1>5, <1>7
<1>8. CASE \E n \in Calls, kinds \in [Calls -> {"read", "serial"}] :
             CallsReceived(n, kinds)
  BY <1>1, <1>8, Zenon
<1>9. CASE \/ SendRequest \/ OutOfSteps \/ StreamInterrupted \/ StreamFails
           \/ Answered \/ AnswerRefused \/ Summarized
  BY <1>2, <1>9, Zenon
<1>10. CASE AnswerAccepted
  BY <1>3, <1>10, Zenon
<1>11. CASE RoundEnds
  BY <1>4, <1>11, Zenon
<1>12. CASE \/ (\E i \in Calls : StartCall(i)) \/ (\E i \in Calls : EndCall(i))
            \/ Cancel \/ (\E s \in Steers : Steer(s)) \/ UNCHANGED vars
  BY <1>6, <1>12, Zenon
<1> QED
  BY StepCases, <1>7, <1>8, <1>9, <1>10, <1>11, <1>12, Zenon

LEMMA FatePreserved ==
  ASSUME TypeOK, IntakeInv, [Next]_vars PROVE FateInv'
<1> USE DEF TypeOK, LoopTypeOK, SteerTypeOK, IntakeInv, FateInv, ClosedInv
<1>1. CASE Begin
  BY <1>1 DEF Begin
<1>2. CASE Finish
  BY <1>2 DEF Finish, loopVars
<1>3. CASE AnswerAccepted /\ queue = <<>>
  BY <1>3 DEF AnswerAccepted, Return
<1>4. ASSUME UNCHANGED <<run, intake>>,
             UNCHANGED <<pc, outcome>> \/ (pc' # "idle" /\ pc \notin {"idle", "exit"}),
             ~Finish
      PROVE  FateInv'
  <2>1. CASE UNCHANGED <<queue, fate, during>>
    BY <1>4, <2>1
  <2>2. CASE SendRequest /\ queue # <<>>
    <3>1. /\ fate' = [fate EXCEPT ![queue[1]] = "applied"]
          /\ queue[1] \in Steers /\ fate[queue[1]] = "queued"
          /\ pc = "top" /\ UNCHANGED during
      <4>1. queue \in Seq(Steers) /\ queue # <<>>
        BY <2>2
      <4>2. 1 \in 1 .. Len(queue) /\ queue[1] \in Steers /\ Head(queue) = queue[1]
        <5>1. Len(queue) \in Nat \ {0}
          BY <4>1, EmptySeq, LenProperties
        <5>2. queue[1] \in Steers
          <6>1. 1 \in 1 .. Len(queue)
            BY <5>1
          <6> QED BY <4>1, <6>1, ElementOfSeq, Zenon
        <5>3. Head(queue) = queue[1]
          BY <4>1
        <5> QED BY <5>1, <5>2, <5>3
      <4>3. fate[queue[1]] = "queued"
        BY <4>2 DEF QueueHoldsQueued
      <4> QED BY <2>2, <4>2, <4>3 DEF SendRequest
    <3> QED BY <1>4, <3>1
  <2>3. ASSUME NEW s \in Steers, Steer(s) PROVE FateInv'
    <3>1. /\ fate' = [fate EXCEPT ![s] = "queued"]
          /\ during' = [during EXCEPT ![s] = run]
          /\ intake /\ run > 0 /\ pc # "idle"
      BY <2>3 DEF Steer
    <3> QED BY <1>4, <3>1
  <2> QED BY SteerCases, <1>4, <2>1, <2>2, <2>3, Zenon
<1> QED BY LoopCases, <1>1, <1>2, <1>3, <1>4, Zenon

LEMMA ClosedPreserved ==
  ASSUME TypeOK, IntakeInv, [Next]_vars PROVE ClosedInv'
<1> USE DEF TypeOK, LoopTypeOK, SteerTypeOK, IntakeInv, ClosedInv
<1>1. CASE Begin
  BY <1>1 DEF Begin
<1>2. CASE Finish
  BY <1>2 DEF Finish, loopVars, FateInv
<1>3. CASE AnswerAccepted /\ queue = <<>>
  <2>1. /\ pc = "final" /\ pc' = "exit" /\ outcome' = "done" /\ ~intake'
        /\ UNCHANGED <<run, queue, fate, during>>
    BY <1>3 DEF AnswerAccepted, Return
  <2>2. \A s \in Steers : fate[s] # "queued"
    BY <1>3 DEF QueueHoldsQueued
  <2>3. \A s \in Steers : during[s] = run => fate[s] = "applied"
    BY <2>1, <2>2 DEF FateInv
  <2> QED BY <1>3, <2>1, <2>3
<1>4. ASSUME UNCHANGED <<run, intake>>,
             UNCHANGED <<pc, outcome>> \/ (pc' # "idle" /\ pc \notin {"idle", "exit"}),
             outcome' = outcome \/ outcome' # "done",
             ~Finish
      PROVE  ClosedInv'
  <2>1. CASE UNCHANGED <<queue, fate, during>>
    BY <1>4, <2>1
  <2>2. CASE SendRequest /\ queue # <<>>
    <3>1. pc = "top" /\ pc' = "stream" /\ UNCHANGED outcome
      BY <2>2 DEF SendRequest, loopVars
    <3> QED BY <1>4, <3>1
  <2>3. ASSUME NEW s \in Steers, Steer(s) PROVE ClosedInv'
    <3>1. intake /\ UNCHANGED <<pc, outcome>>
      BY <2>3 DEF Steer, loopVars
    <3> QED BY <1>4, <3>1
  <2> QED BY SteerCases, <1>4, <2>1, <2>2, <2>3, Zenon
<1> QED BY LoopCases, <1>1, <1>2, <1>3, <1>4, Zenon

LEMMA IntakeHolds == Spec => []IntakeInv
<1>1. Init => IntakeInv
  BY DEF Init, IntakeInv, QueueHoldsQueued, FateInv, ClosedInv
<1>2. TypeOK /\ IntakeInv /\ [Next]_vars => IntakeInv'
  BY QueuePreserved, FatePreserved, ClosedPreserved DEF IntakeInv
<1> QED BY <1>1, <1>2, TypeCorrect, PTL DEF Spec

\* A Run that returns a final answer has shown the model every steer it
\* accepted (closeSteerIntakeIfIdle), for every bound.
THEOREM DoneRunsApplySteers == Spec => []DoneAppliesSteers
<1>1. IntakeInv => DoneAppliesSteers
  BY DEF IntakeInv, ClosedInv, DoneAppliesSteers
<1> QED BY <1>1, IntakeHolds, PTL

\* No accepted steer is left in the queue between Runs (flushSteerQueue).
THEOREM NoSteerIsLeftBehind == Spec => []NoSteerLeftBehind
<1>1. IntakeInv => NoSteerLeftBehind
  BY DEF IntakeInv, ClosedInv, QueueHoldsQueued, NoSteerLeftBehind
<1> QED BY <1>1, IntakeHolds, PTL

----------------------------------------------------------------------------
(* The budget.  A round is executed only after a request that the budget    *)
(* allowed, and each iteration after a round counts a step.                 *)

BudgetInv ==
  limit > 0 =>
    /\ rounds <= limit
    /\ pc \in {"top", "stream", "final", "batch", "round"} => rounds <= step
    /\ pc \in {"stream", "final"} => MayGoOn
    /\ pc \in {"batch", "round"} => step < limit

LEMMA BudgetPreserved ==
  ASSUME TypeOK, BudgetInv, [Next]_vars PROVE BudgetInv'
<1> USE DEF TypeOK, LoopTypeOK, BudgetInv
<1>0. ASSUME UNCHANGED <<pc, loopVars>> PROVE BudgetInv'
  <2>1. MayGoOn' <=> MayGoOn
    BY <1>0, Zenon DEF loopVars, MayGoOn
  <2> QED BY <1>0, <2>1, Zenon DEF loopVars
<1>1. CASE Begin
  <2>1. limit' \in Nat /\ step' = 0 /\ rounds' = 0 /\ pc' = "top"
    BY <1>1, AgentAssumption DEF Begin
  <2> QED BY <2>1
<1>2. CASE SendRequest
  <2>1. MayGoOn'
    BY <1>2, Zenon DEF SendRequest, loopVars, MayGoOn
  <2>2. pc = "top" /\ pc' = "stream" /\ UNCHANGED <<limit, step, rounds>>
    BY <1>2, Zenon DEF SendRequest, loopVars
  <2> QED BY <2>1, <2>2
<1>3. CASE OutOfSteps
  BY <1>3 DEF OutOfSteps, Return
<1>4. CASE StreamInterrupted
  BY <1>4 DEF StreamInterrupted
<1>5. CASE StreamFails
  BY <1>5 DEF StreamFails, Return
<1>6. CASE Answered
  <2>1. MayGoOn' <=> MayGoOn
    BY <1>6, Zenon DEF Answered, MayGoOn
  <2> QED BY <1>6, <2>1 DEF Answered
<1>7. ASSUME NEW n, NEW kinds, CallsReceived(n, kinds) PROVE BudgetInv'
  <2>1. UNCHANGED <<limit, step, rounds>> /\ pc = "stream"
    BY <1>7 DEF CallsReceived
  <2>2. pc' = "exit" \/ (pc' = "batch" /\ ~grace /\ ~finalizing)
    BY <1>7, Zenon DEF CallsReceived, Return
  <2>3. limit > 0 /\ pc' = "batch" => step < limit /\ rounds <= step
    BY <2>1, <2>2 DEF MayGoOn
  <2> QED BY <2>1, <2>2, <2>3
<1>8. CASE AnswerRefused
  BY <1>8 DEF AnswerRefused, Return, Continue, StepOn
<1>9. CASE AnswerAccepted
  BY <1>9 DEF AnswerAccepted, Return, Continue, StepOn
<1>10. CASE Summarized
  BY <1>10 DEF Summarized, Return
<1>11. ASSUME NEW i, StartCall(i) PROVE BudgetInv'
  BY <1>0, <1>11, Zenon DEF StartCall
<1>12. ASSUME NEW i, EndCall(i) PROVE BudgetInv'
  BY <1>0, <1>12, Zenon DEF EndCall
<1>13. CASE BatchEnds
  <2>1. UNCHANGED loopVars /\ pc = "batch" /\ pc' \in {"batch", "round"}
    BY <1>13, BatchEndCases
  <2> QED BY <2>1 DEF loopVars
<1>14. CASE RoundEnds
  <2>1. /\ pc = "round" /\ UNCHANGED limit
        /\ rounds' = IF rounds <= limit THEN rounds + 1 ELSE rounds
    BY <1>14 DEF RoundEnds
  <2>2. pc' = "exit" \/ (pc' = "top" /\ StepOn)
    BY <1>14, Zenon DEF RoundEnds, Return, Continue
  <2> QED BY <2>1, <2>2 DEF StepOn
<1>15. CASE Finish
  BY <1>15 DEF Finish, loopVars
<1>16. CASE Cancel
  BY <1>0, <1>16, Zenon DEF Cancel
<1>17. ASSUME NEW s, Steer(s) PROVE BudgetInv'
  BY <1>0, <1>17, Zenon DEF Steer
<1>18. CASE UNCHANGED vars
  BY <1>0, <1>18, Zenon DEF vars
<1> QED
  BY StepCases, <1>1, <1>2, <1>3, <1>4, <1>5, <1>6, <1>7, <1>8, <1>9, <1>10,
     <1>11, <1>12, <1>13, <1>14, <1>15, <1>16, <1>17, <1>18, Zenon

\* A Run executes no more tool rounds than its budget, for every budget and
\* every mixture of retries, recoveries and steers (runToolLoop).
THEOREM RunsWithinBudget == Spec => []RoundsWithinBudget
<1>1. Init => BudgetInv
  BY DEF Init, BudgetInv
<1>2. TypeOK /\ BudgetInv /\ [Next]_vars => BudgetInv'
  BY BudgetPreserved
<1>3. BudgetInv => RoundsWithinBudget
  BY DEF BudgetInv, RoundsWithinBudget
<1> QED BY <1>1, <1>2, <1>3, TypeCorrect, PTL DEF Spec

----------------------------------------------------------------------------
(* The calls of a round.  Those before the batch have run, those of the     *)
(* batch start in order, and those after it wait.                           *)

Executed == {"running", "ran", "stopped"}

PrefixInv ==
  \A i, j \in Calls : j < i =>
    /\ status[j] = "none" => status[i] = "none"
    /\ status[j] \in {"waiting", "cancelled", "blocked"} => status[i] \notin Executed

FrontInv ==
  IF pc = "batch"
    THEN /\ first \in Calls /\ status[first] # "none"
         /\ \A i \in Calls :
              /\ status[i] \notin {"cancelled", "blocked"}
              /\ i < first => status[i] = "ran"
              /\ i >= first /\ i \notin InBatch => status[i] \in {"waiting", "none"}
    ELSE \A i \in Calls : status[i] \notin {"running", "waiting"}

RoundInv == PrefixInv /\ FrontInv /\ ProviderOrder

\* The calls of the batch are the reads that follow each other, or one call.
LEMMA BatchFacts ==
  ASSUME NEW i, i \in InBatch
  PROVE  /\ i \in Calls /\ i >= first /\ status[i] # "none"
         /\ i # first => \A k \in first .. i : kind[k] = "read"
BY DEF InBatch, BatchOf

\* A call between the first call of the batch and another call of it is in the
\* batch too.
LEMMA BatchIsSegment ==
  ASSUME TypeOK, PrefixInv, NEW i, i \in InBatch, NEW j \in Calls,
         first <= j, j < i
  PROVE  j \in InBatch
<1>1. /\ i \in Calls /\ status[i] # "none" /\ i # first /\ first \in Nat
      /\ \A k \in first .. i : kind[k] = "read"
  BY BatchFacts DEF TypeOK, BatchTypeOK
<1>2. status[j] # "none"
  BY <1>1 DEF PrefixInv
<1>3. \A k \in first .. j : kind[k] = "read"
  BY <1>1
<1> QED BY <1>1, <1>2, <1>3 DEF InBatch, BatchOf

\* The order of a round's calls when a call starts.
LEMMA StartKeepsRound ==
  ASSUME TypeOK, RoundInv, NEW i \in Calls, StartCall(i)
  PROVE  RoundInv'
<1> USE DEF TypeOK, BatchTypeOK
<1>1. /\ pc = "batch" /\ UNCHANGED <<pc, kind, first>>
      /\ i \in InBatch /\ status[i] = "waiting"
      /\ \A j \in InBatch : status[j] = "waiting" => i <= j
      /\ status' = [status EXCEPT ![i] = "running"]
      /\ seen' = [seen EXCEPT ![i] = {j \in Calls : status[j] \in Ended}]
  <2>1. \A j \in InBatch : status[j] = "waiting" => i <= j
    BY BatchFacts, Zenon DEF StartCall, Waiting
  <2> QED BY <2>1, Zenon DEF StartCall, Waiting
<1>2. i \in Calls /\ i >= first
  BY <1>1, BatchFacts
<1>3. FrontInv /\ first \in Calls
  BY <1>1 DEF RoundInv, FrontInv
<1>4. ASSUME NEW j \in Calls, j < i PROVE status[j] \in {"ran", "running", "stopped"}
  <2>1. CASE j < first
    BY <1>1, <1>3, <2>1 DEF FrontInv
  <2>2. CASE first <= j
    <3>1. j \in InBatch
      BY <1>1, <1>4, <2>2, BatchIsSegment DEF RoundInv
    <3>2. status[j] # "waiting"
      BY <1>1, <1>2, <1>4, <3>1
    <3>3. status[j] # "none"
      BY <3>1, BatchFacts
    <3>4. status[j] \notin {"cancelled", "blocked"}
      BY <1>1, <1>3 DEF FrontInv
    <3> QED BY <3>2, <3>3, <3>4 DEF Statuses
  <2> QED BY <1>3, <2>1, <2>2
<1>5. PrefixInv'
  BY <1>1, <1>4 DEF RoundInv, PrefixInv, Executed
<1>6. InBatch' = InBatch
  BY <1>1 DEF InBatch, BatchOf
<1>7. FrontInv'
  <2>1. status'[first] # "none" /\ first' = first /\ pc' = "batch"
    BY <1>1, <1>3 DEF FrontInv
  <2>2. ASSUME NEW k \in Calls
        PROVE  /\ status'[k] \notin {"cancelled", "blocked"}
               /\ k < first => status'[k] = "ran"
               /\ k >= first /\ k \notin InBatch => status'[k] \in {"waiting", "none"}
    BY <1>1, <1>2, <1>3 DEF FrontInv
  <2> QED BY <1>3, <1>6, <2>1, <2>2 DEF FrontInv
<1>8. ProviderOrder'
  <2>1. ASSUME NEW j \in Calls, j < i, "serial" \in {kind[i], kind[j]}
        PROVE  j \in seen'[i]
    <3>1. CASE j < first
      <4>1. status[j] = "ran"
        BY <1>1, <1>3, <3>1 DEF FrontInv
      <4> QED BY <1>1, <4>1 DEF Ended
    <3>2. CASE first <= j
      <4>1. kind[i] = "read" /\ kind[j] = "read"
        <5>1. i # first /\ j \in first .. i /\ i \in first .. i
          BY <1>2, <1>3, <2>1, <3>2
        <5> QED BY <1>1, <5>1, BatchFacts
      <4> QED BY <2>1, <4>1
    <3> QED BY <1>3, <3>1, <3>2
  <2>2. ASSUME NEW k \in Calls, NEW j \in Calls, j < k, k # i,
               "serial" \in {kind[k], kind[j]},
               status[k] \in {"running", "ran", "stopped"}
        PROVE  j \in seen'[k]
    BY <1>1, <2>2 DEF RoundInv, ProviderOrder
  <2> QED BY <1>1, <2>1, <2>2 DEF ProviderOrder
<1> QED BY <1>5, <1>7, <1>8 DEF RoundInv

\* The order of a round's calls when a batch ends.
LEMMA BatchEndKeepsRound ==
  ASSUME TypeOK, RoundInv, BatchEnds
  PROVE  RoundInv'
<1> USE DEF TypeOK, BatchTypeOK
<1>1. pc = "batch" /\ Running = {} /\ UNCHANGED <<kind, seen>>
  BY BatchEndCases, Zenon
<1>2. FrontInv /\ first \in Calls
  BY <1>1 DEF RoundInv, FrontInv
<1>3. \A i \in Calls : status[i] # "running"
  BY <1>1 DEF Running
<1>4. ASSUME NEW s \in {"blocked", "cancelled"}, Fill(s), pc' = "round"
      PROVE  RoundInv'
  <2>1. \A i \in Calls : status'[i] = IF status[i] = "waiting" THEN s ELSE status[i]
    BY <1>4 DEF Fill
  <2>2. PrefixInv'
    BY <2>1 DEF RoundInv, PrefixInv, Executed
  <2>3. FrontInv'
    BY <1>3, <1>4, <2>1 DEF FrontInv
  <2>4. ProviderOrder'
    BY <1>1, <2>1 DEF RoundInv, ProviderOrder
  <2> QED BY <2>2, <2>3, <2>4 DEF RoundInv
<1>5. ASSUME UNCHANGED status PROVE PrefixInv' /\ ProviderOrder'
  BY <1>1, <1>5 DEF RoundInv, PrefixInv, ProviderOrder
<1>6. ASSUME InBatch \cap Waiting = {},
             {i \in Calls : i \notin InBatch /\ status[i] = "waiting"} = {},
             pc' = "round", UNCHANGED status
      PROVE  RoundInv'
  <2>1. \A i \in Calls : status[i] # "waiting"
    BY <1>6 DEF Waiting
  <2>2. FrontInv'
    BY <1>3, <1>6, <2>1 DEF FrontInv
  <2> QED BY <1>5, <1>6, <2>2 DEF RoundInv
<1>7. ASSUME InBatch \cap Waiting = {},
             ~ \E i \in InBatch : status[i] = "stopped",
             first' \in {i \in Calls : i \notin InBatch /\ status[i] = "waiting"},
             \A i \in {i \in Calls : i \notin InBatch /\ status[i] = "waiting"} :
               first' <= i,
             UNCHANGED <<pc, status>>
      PROVE  RoundInv'
  <2>1. first' \in Calls /\ first' \notin InBatch /\ status[first'] = "waiting"
    BY <1>7
  <2>2. first' >= first
    BY <1>1, <1>2, <2>1 DEF FrontInv
  <2>3. \A i \in Calls : i \in InBatch => status[i] = "ran"
    <3> SUFFICES ASSUME NEW i \in Calls, i \in InBatch PROVE status[i] = "ran"
      OBVIOUS
    <3>1. status[i] # "none"
      BY BatchFacts
    <3>2. status[i] # "waiting"
      BY <1>7 DEF Waiting
    <3>3. status[i] \notin {"cancelled", "blocked"}
      BY <1>1, <1>2 DEF FrontInv
    <3> QED BY <1>3, <1>7, <3>1, <3>2, <3>3 DEF Statuses
  <2>4. ASSUME NEW i \in Calls, i < first' PROVE status[i] = "ran"
    <3>1. CASE i < first
      BY <1>1, <1>2, <3>1 DEF FrontInv
    <3>2. CASE i >= first /\ i \notin InBatch
      <4>1. status[i] \in {"waiting", "none"}
        BY <1>1, <1>2, <3>2 DEF FrontInv
      <4>2. status[i] # "none"
        BY <2>1, <2>4 DEF RoundInv, PrefixInv
      <4>3. status[i] # "waiting"
        BY <1>7, <2>1, <2>4, <3>2
      <4> QED BY <4>1, <4>2, <4>3
    <3> QED BY <1>2, <2>3, <3>1, <3>2
  <2>5. ASSUME NEW i \in Calls, i >= first', i \notin InBatch'
        PROVE  status[i] \in {"waiting", "none"}
    <3>1. CASE i \notin InBatch
      BY <1>1, <1>2, <2>1, <2>2, <2>5, <3>1 DEF FrontInv
    <3>2. CASE i \in InBatch
      <4>1. first <= first' /\ first' < i
        BY <2>1, <2>2, <2>5, <3>2
      <4> QED BY <2>1, <3>2, <4>1, BatchIsSegment DEF RoundInv
    <3> QED BY <3>1, <3>2
  <2>6. FrontInv'
    <3>1. \A i \in Calls : status[i] \notin {"cancelled", "blocked"}
      BY <1>1, <1>2 DEF FrontInv
    <3> QED BY <1>1, <1>7, <2>1, <2>4, <2>5, <3>1 DEF FrontInv
  <2> QED BY <1>5, <1>7, <2>6 DEF RoundInv
<1> QED BY BatchEndCases, <1>4, <1>6, <1>7, Zenon

\* A batch begins with a response, and only the calls' own steps happen while
\* it is executed.
LEMMA PlaceCases ==
  ASSUME [Next]_vars
  PROVE  \/ UNCHANGED batchVars /\ (pc = "batch" <=> pc' = "batch")
         \/ \E n \in Calls, kinds \in [Calls -> {"read", "serial"}] :
              /\ pc' = "batch" /\ kind' = kinds /\ first' = 1
              /\ status' = [i \in Calls |-> IF i <= n THEN "waiting" ELSE "none"]
         \/ \E i \in Calls : StartCall(i)
         \/ \E i \in Calls : EndCall(i)
         \/ BatchEnds
<1> DEFINE Stays == UNCHANGED batchVars /\ (pc = "batch" <=> pc' = "batch")
<1>1. ASSUME \/ Begin \/ SendRequest \/ OutOfSteps \/ StreamInterrupted
             \/ StreamFails \/ Answered \/ AnswerRefused \/ AnswerAccepted
             \/ Summarized \/ RoundEnds \/ Finish
      PROVE  Stays
  <2>1. pc # "batch" /\ pc' # "batch"
    BY <1>1 DEF Begin, SendRequest, OutOfSteps, StreamInterrupted, StreamFails,
                Answered, AnswerRefused, AnswerAccepted, Summarized, RoundEnds,
                Finish, Return, Continue
  <2>2. UNCHANGED batchVars
    BY <1>1, Zenon
       DEF Begin, SendRequest, OutOfSteps, StreamInterrupted, StreamFails,
           Answered, AnswerRefused, AnswerAccepted, Summarized, RoundEnds, Finish
  <2> QED BY <2>1, <2>2
<1>2. ASSUME Cancel \/ (\E s \in Steers : Steer(s)) \/ UNCHANGED vars
      PROVE  Stays
  BY <1>2, Zenon DEF Cancel, Steer, vars
<1>3. ASSUME NEW n, NEW kinds, CallsReceived(n, kinds)
      PROVE  \/ Stays
             \/ /\ pc' = "batch" /\ kind' = kinds /\ first' = 1
                /\ status' = [i \in Calls |-> IF i <= n THEN "waiting" ELSE "none"]
  <2>1. CASE grace \/ finalizing
    <3>1. UNCHANGED batchVars /\ pc = "stream" /\ pc' = "exit"
      BY <1>3, <2>1, Zenon DEF CallsReceived, Return
    <3> QED BY <3>1
  <2>2. CASE ~(grace \/ finalizing)
    BY <1>3, <2>2, Zenon DEF CallsReceived
  <2> QED BY <2>1, <2>2, Zenon
<1> HIDE DEF Stays
<1>4. CASE Cancel \/ (\E s \in Steers : Steer(s)) \/ UNCHANGED vars
  BY <1>2, <1>4, Zenon DEF Stays
<1>5. CASE \/ Begin \/ SendRequest \/ OutOfSteps \/ StreamInterrupted
           \/ StreamFails \/ Answered \/ AnswerRefused \/ AnswerAccepted
           \/ Summarized \/ RoundEnds \/ Finish
  BY <1>1, <1>5, Zenon DEF Stays
<1>6. CASE \E n \in Calls, kinds \in [Calls -> {"read", "serial"}] :
             CallsReceived(n, kinds)
  BY <1>3, <1>6, Zenon DEF Stays
<1> QED BY StepCases, <1>4, <1>5, <1>6, Zenon

LEMMA RoundPreserved ==
  ASSUME TypeOK, RoundInv, [Next]_vars PROVE RoundInv'
<1> USE DEF TypeOK, BatchTypeOK
<1>1. ASSUME UNCHANGED batchVars, pc = "batch" <=> pc' = "batch" PROVE RoundInv'
  <2>1. UNCHANGED <<kind, status, first, seen>>
    BY <1>1 DEF batchVars
  <2>2. PrefixInv' /\ ProviderOrder'
    BY <2>1 DEF RoundInv, PrefixInv, ProviderOrder
  <2>3. InBatch' = InBatch
    BY <2>1 DEF InBatch, BatchOf
  <2>4. FrontInv'
    BY <1>1, <2>1, <2>3, Zenon DEF RoundInv, FrontInv
  <2> QED BY <2>2, <2>4 DEF RoundInv
<1>2. ASSUME NEW n \in Calls, NEW kinds \in [Calls -> {"read", "serial"}],
             pc' = "batch", kind' = kinds, first' = 1,
             status' = [i \in Calls |-> IF i <= n THEN "waiting" ELSE "none"]
      PROVE  RoundInv'
  <2>1. \A i \in Calls : status'[i] = IF i <= n THEN "waiting" ELSE "none"
    BY <1>2
  <2>2. PrefixInv'
    BY <2>1 DEF PrefixInv, Executed
  <2>3. 1 \in Calls /\ 1 <= n
    BY AgentAssumption
  <2>4. FrontInv'
    BY <1>2, <2>1, <2>3 DEF FrontInv
  <2>5. ProviderOrder'
    BY <2>1 DEF ProviderOrder
  <2> QED BY <2>2, <2>4, <2>5 DEF RoundInv
<1>3. ASSUME NEW i \in Calls, EndCall(i) PROVE RoundInv'
  <2>1. /\ pc = "batch" /\ UNCHANGED <<pc, kind, first, seen>>
        /\ status[i] = "running"
    BY <1>3, Zenon DEF EndCall
  <2>2. PICK s \in {"ran", "stopped"} : status' = [status EXCEPT ![i] = s]
    BY <1>3, Zenon DEF EndCall
  <2>3. PrefixInv'
    BY <2>1, <2>2 DEF RoundInv, PrefixInv, Executed
  <2>4. FrontInv /\ first \in Calls
    BY <2>1 DEF RoundInv, FrontInv
  <2>5. InBatch' = InBatch
    <3>1. \A j \in Calls : status'[j] # "none" <=> status[j] # "none"
      BY <2>1, <2>2
    <3> QED BY <2>1, <3>1 DEF InBatch, BatchOf
  <2>6. FrontInv'
    <3>1. status'[first] # "none" /\ first' = first /\ pc' = "batch"
      BY <2>1, <2>2, <2>4 DEF FrontInv
    <3>2. ASSUME NEW k \in Calls
          PROVE  /\ status'[k] \notin {"cancelled", "blocked"}
                 /\ k < first => status'[k] = "ran"
                 /\ k >= first /\ k \notin InBatch => status'[k] \in {"waiting", "none"}
      BY <2>1, <2>2, <2>4 DEF FrontInv
    <3> QED BY <2>4, <2>5, <3>1, <3>2 DEF FrontInv
  <2>7. ProviderOrder'
    BY <2>1, <2>2 DEF RoundInv, ProviderOrder
  <2> QED BY <2>3, <2>6, <2>7 DEF RoundInv
<1>4. ASSUME NEW i \in Calls, StartCall(i) PROVE RoundInv'
  BY <1>4, StartKeepsRound
<1> QED
  BY PlaceCases, BatchEndKeepsRound, <1>1, <1>2, <1>3, <1>4, Zenon

LEMMA RoundHolds == Spec => []RoundInv
<1>1. Init => RoundInv
  BY DEF Init, RoundInv, PrefixInv, FrontInv, ProviderOrder, Executed
<1>2. TypeOK /\ RoundInv /\ [Next]_vars => RoundInv'
  BY RoundPreserved
<1> QED BY <1>1, <1>2, TypeCorrect, PTL DEF Spec

\* A serial call and any other call run in the order the model gave them, for
\* every number of calls and every limit on parallel reads (executeBatch).
THEOREM CallsKeepOrder == Spec => []ProviderOrder
<1>1. RoundInv => ProviderOrder
  BY DEF RoundInv
<1> QED BY <1>1, RoundHolds, PTL

\* The executed calls of a round are a prefix of the response, and a finished
\* round leaves none unanswered (markCancelled, markRecoveryStopped).
THEOREM PrefixIsExecuted == Spec => []ExecutedIsPrefix
<1>1. RoundInv => ExecutedIsPrefix
  BY DEF RoundInv, PrefixInv, FrontInv, ExecutedIsPrefix, Executed, Running, Waiting
<1> QED BY <1>1, RoundHolds, PTL
=============================================================================
