---------------------------- MODULE RPCConnProofs ----------------------------
(***************************************************************************)
(* Proofs about RPCConn for every set of calls, whatever handlers call      *)
(* back, and for every number of slots, queue length and room in the        *)
(* stream.                                                                  *)
(***************************************************************************)
EXTENDS RPCConn, FiniteSetTheorems, SequenceTheorems, TLAPS

-----------------------------------------------------------------------------
(* The two ends *)

LEMMA TwoEnds ==
  ASSUME NEW e \in Ends
  PROVE  /\ Other(e) \in Ends /\ Other(e) # e
         /\ \A x \in Ends : x # e => x = Other(e)
<1>1. IsFiniteSet(Ends \ {e}) /\ Cardinality(Ends \ {e}) = 1
  BY ConnAssumption, FS_RemoveElement
<1>2. PICK x : Ends \ {e} = {x}
  BY <1>1, FS_Singleton
<1>3. x \in Ends /\ x # e /\ \A y \in Ends : y # e => y = x
  BY <1>2
<1> QED  BY <1>3 DEF Other

LEMMA EndsOfCall ==
  ASSUME NEW r \in Requests
  PROVE  /\ From[r] \in Ends /\ At(r) \in Ends /\ From[r] # At(r)
         /\ Other(From[r]) = At(r) /\ Other(At(r)) = From[r]
<1>1. From[r] \in Ends
  BY ConnAssumption
<1>2. At(r) = Other(From[r])
  BY DEF At
<1> QED  BY <1>1, <1>2, TwoEnds

-----------------------------------------------------------------------------
(* Types *)

LEMMA FrameType ==
  /\ \A n \in Nat : Frame("note", n) \in Frames
  /\ \A r \in Requests, k \in {"request", "ok", "busy"} : Frame(k, r) \in Frames
BY DEF Frame, Frames

\* The parts of TypeOK: control, the stream, and the notifications.
ControlType ==
  /\ broken \in BOOLEAN
  /\ closed \in [Ends -> {"no", "failing", "ending", "yes"}]
  /\ loop \in [Ends -> {"read", "refuse", "fail", "drain", "stop", "returned"}]
  /\ refused \in [Ends -> Requests \cup {NoRequest}]
  /\ \A e \in Ends : loop[e] = "refuse" <=> refused[e] # NoRequest
  /\ pending \subseteq Requests
  /\ call \in [Requests -> {"idle", "write", "fail", "wait", "returned"}]
  /\ chan \in [Requests -> Results \cup {"none"}]
  /\ got \in [Requests -> Results \cup {"none"}]
  /\ handler \in [Requests -> {"none", "run", "answer", "fail", "done"}]

WireType ==
  wire \in [Ends -> Seq(Frames)] /\ \A e \in Ends : Len(wire[e]) <= PipeSize

NoteType ==
  /\ queue \in [Ends -> Seq(Nat)] /\ seen \in [Ends -> Seq(Nat)]
  /\ \A e \in Ends : Len(queue[e]) <= QueueSize
  /\ sent \in [Ends -> Nat] /\ \A e \in Ends : sent[e] <= MaxNotes[e]

LEMMA TypeParts == TypeOK <=> ControlType /\ WireType /\ NoteType
BY DEF TypeOK, ControlType, WireType, NoteType

LEMMA TypePartsPrimed == TypeOK' <=> ControlType' /\ WireType' /\ NoteType'
BY DEF TypeOK, ControlType, WireType, NoteType

\* A frame fits into a stream that has room.
LEMMA WritesType ==
  ASSUME WireType, NEW e \in Ends, NEW f \in Frames, Writes(e, f)
  PROVE  WireType'
<1> DEFINE o == Other(e)
           w == Append(wire[o], f)
<1>1. o \in Ends /\ PipeSize \in Nat
  BY TwoEnds, ConnAssumption
<1>2. /\ wire[o] \in Seq(Frames) /\ w \in Seq(Frames)
      /\ Len(wire[o]) \in Nat /\ Len(w) = Len(wire[o]) + 1
  BY <1>1 DEF WireType
<1>3. wire' = [wire EXCEPT ![o] = w] /\ Len(wire[o]) < PipeSize
  BY DEF Writes
<1>4. Len(w) <= PipeSize
  BY <1>1, <1>2, <1>3
<1> HIDE DEF w, o
<1> QED  BY <1>1, <1>2, <1>3, <1>4 DEF WireType

LEMMA TypeInit == Init => TypeOK
<1> SUFFICES ASSUME Init PROVE TypeOK
  OBVIOUS
<1>1. ControlType
  BY DEF Init, ControlType, Results
<1>2. Len(<<>>) = 0 /\ PipeSize \in Nat /\ QueueSize \in Nat /\ \A e \in Ends : MaxNotes[e] \in Nat
  BY ConnAssumption
<1>3. WireType /\ NoteType
  BY <1>2 DEF Init, WireType, NoteType
<1> QED  BY <1>1, <1>3, TypeParts

LEMMA TypeRead ==
  ASSUME TypeOK, NEW e \in Ends, Read(e) PROVE TypeOK'
<1> DEFINE frame == Head(wire[e])
           rest == Tail(wire[e])
<1>0. ControlType /\ WireType /\ NoteType
  BY TypeParts
<1>1. /\ wire[e] \in Seq(Frames) /\ wire[e] # <<>> /\ Len(wire[e]) \in Nat
      /\ frame \in Frames /\ rest \in Seq(Frames)
      /\ Len(rest) = Len(wire[e]) - 1 /\ PipeSize \in Nat
  BY <1>0, ConnAssumption DEF WireType, Read
<1>2. /\ wire' = [wire EXCEPT ![e] = rest] /\ loop[e] = "read"
      /\ UNCHANGED <<broken, call, got, sent, seen>>
  BY DEF Read
<1>3. Len(rest) <= PipeSize
  BY <1>0, <1>1 DEF WireType
<1> HIDE DEF frame, rest
<1>4. WireType'
  BY <1>0, <1>1, <1>2, <1>3 DEF WireType
<1>5. CASE UNCHANGED <<connVars, pending, chan, handler, queue>>
  <2>1. ControlType' /\ NoteType'
    BY <1>0, <1>2, <1>5 DEF ControlType, NoteType, connVars
  <2> QED  BY <1>4, <2>1, TypePartsPrimed
<1>6. CASE /\ frame.kind = "request" /\ Admit(e, frame.of)
           /\ UNCHANGED <<closed, pending, chan, queue>>
  <2>1. frame.of \in Requests
    BY <1>1, <1>6 DEF Frames
  <2>2. /\ handler' \in [Requests -> {"none", "run", "answer", "fail", "done"}]
        /\ loop' \in [Ends -> {"read", "refuse", "fail", "drain", "stop", "returned"}]
        /\ refused' \in [Ends -> Requests \cup {NoRequest}]
        /\ \A x \in Ends : loop'[x] = "refuse" <=> refused'[x] # NoRequest
    <3>1. CASE handler' = [handler EXCEPT ![frame.of] = "run"] /\ UNCHANGED <<loop, refused>>
      BY <1>0, <3>1 DEF ControlType
    <3>2. CASE /\ loop' = [loop EXCEPT ![e] = "refuse"]
               /\ refused' = [refused EXCEPT ![e] = frame.of] /\ UNCHANGED handler
      BY <1>0, <2>1, <3>2, ConnAssumption DEF ControlType
    <3> QED  BY <1>6, <3>1, <3>2 DEF Admit
  <2>4. ControlType'
    BY <1>0, <1>2, <1>6, <2>2 DEF ControlType
  <2>3. NoteType'
    BY <1>0, <1>2, <1>6 DEF NoteType
  <2> QED  BY <1>4, <2>3, <2>4, TypePartsPrimed
<1>7. CASE /\ frame.kind = "note" /\ Enqueue(e, frame.of)
           /\ UNCHANGED <<refused, pending, chan, handler>>
  <2> DEFINE longer == Append(queue[e], frame.of)
  <2>1. frame.of \in Nat
    BY <1>1, <1>7 DEF Frames
  <2>2. /\ Len(queue[e]) \in Nat /\ QueueSize \in Nat
        /\ longer \in Seq(Nat) /\ Len(longer) = Len(queue[e]) + 1
    BY <1>0, <2>1, ConnAssumption DEF NoteType
  <2>3. \/ queue' = queue
        \/ queue' = [queue EXCEPT ![e] = longer] /\ Len(longer) <= QueueSize
    BY <1>7, <2>2 DEF Enqueue
  <2> HIDE DEF longer
  <2>4. NoteType'
    BY <1>0, <1>2, <2>2, <2>3 DEF NoteType
  <2>5. ControlType'
    BY <1>0, <1>2, <1>7 DEF ControlType, Enqueue, Fails
  <2> QED  BY <1>4, <2>4, <2>5, TypePartsPrimed
<1>8. CASE /\ frame.kind \in {"ok", "busy"} /\ Resolve(e, frame)
           /\ UNCHANGED <<connVars, handler, queue>>
  <2>1. NoteType'
    BY <1>0, <1>2, <1>8 DEF NoteType
  <2>2. pending' \subseteq Requests /\ chan' \in [Requests -> Results \cup {"none"}]
    BY <1>0, <1>8 DEF ControlType, Resolve, Results
  <2>3. ControlType'
    BY <1>0, <1>2, <1>8, <2>2 DEF ControlType, connVars
  <2> QED  BY <1>4, <2>1, <2>3, TypePartsPrimed
<1> QED  BY <1>5, <1>6, <1>7, <1>8 DEF Read, frame

LEMMA TypeStep == TypeOK /\ [Next]_vars => TypeOK'
<1> SUFFICES ASSUME TypeOK, [Next]_vars PROVE TypeOK'
  OBVIOUS
<1> USE DEF connVars, callVars, noteVars
<1>0. ControlType /\ WireType /\ NoteType
  BY TypeParts
\* A step that leaves the stream and the notifications alone.
<1>1. ASSUME ControlType', UNCHANGED <<wire, noteVars>> PROVE TypeOK'
  <2>1. WireType' /\ NoteType'
    BY <1>0, <1>1 DEF WireType, NoteType
  <2> QED  BY <1>1, <2>1, TypePartsPrimed
\* A step that writes a frame.
<1>2. ASSUME ControlType', NEW e \in Ends, NEW f \in Frames, Writes(e, f), NoteType'
      PROVE  TypeOK'
  BY <1>0, <1>2, WritesType, TypePartsPrimed
<1>3. ASSUME UNCHANGED noteVars PROVE NoteType'
  BY <1>0, <1>3 DEF NoteType
<1>4. ASSUME NEW r \in Requests, Start(r) PROVE TypeOK'
  <2>1. ControlType'
    BY <1>0, <1>4 DEF ControlType, Start, Results
  <2> QED  BY <1>1, <1>4, <2>1 DEF Start
<1>5. ASSUME NEW r \in Requests, WriteRequest(r) PROVE TypeOK'
  <2>1. ControlType'
    BY <1>0, <1>5 DEF ControlType, WriteRequest
  <2>2. /\ From[r] \in Ends /\ Frame("request", r) \in Frames
        /\ Writes(From[r], Frame("request", r)) /\ UNCHANGED noteVars
    BY <1>5, FrameType, EndsOfCall DEF WriteRequest
  <2> QED  BY <1>2, <1>3, <2>1, <2>2
<1>6. ASSUME NEW r \in Requests, WriteRequestFails(r) PROVE TypeOK'
  <2>1. ControlType'
    BY <1>0, <1>6 DEF ControlType, WriteRequestFails, Fails
  <2> QED  BY <1>1, <1>6, <2>1 DEF WriteRequestFails
<1>7. ASSUME NEW r \in Requests, NEW v \in Results, Returns(r, v) PROVE TypeOK'
  <2>1. ControlType'
    BY <1>0, <1>7 DEF ControlType, Returns
  <2> QED  BY <1>1, <1>7, <2>1 DEF Returns
<1>8. ASSUME NEW r \in Requests, Return(r) \/ GiveUp(r) PROVE TypeOK'
  <2>1. \E v \in Results : Returns(r, v)
    BY <1>0, <1>8 DEF Return, GiveUp, Results, ControlType
  <2> QED  BY <1>7, <2>1
<1>9. ASSUME NEW e \in Ends, Refuse(e) PROVE TypeOK'
  <2>1. ControlType'
    BY <1>0, <1>9 DEF ControlType, Refuse
  <2>2. Writes(e, Frame("busy", refused[e])) /\ UNCHANGED noteVars
    BY <1>9 DEF Refuse
  <2>3. refused[e] \in Requests
    BY <1>0, <1>9 DEF ControlType, Refuse
  <2> QED  BY <1>2, <1>3, <2>1, <2>2, <2>3, FrameType
<1>10. ASSUME NEW e \in Ends,
              RefuseFails(e) \/ LoopGoesOn(e) \/ Eof(e) \/ Drained(e) \/ ServeReturns(e)
       PROVE  TypeOK'
  <2>1. ControlType'
    BY <1>0, <1>10
    DEF ControlType, RefuseFails, LoopGoesOn, Eof, Drained, ServeReturns, Fails
  <2> QED
    BY <1>1, <1>10, <2>1 DEF RefuseFails, LoopGoesOn, Eof, Drained, ServeReturns
<1>11. ASSUME NEW e \in Ends, Shutdown(e) PROVE TypeOK'
  <2>1. ControlType'
    BY <1>0, <1>11 DEF ControlType, Shutdown, Results
  <2> QED  BY <1>1, <1>11, <2>1 DEF Shutdown
<1>12. ASSUME NEW r \in Requests, HandlerEnds(r) \/ WriteAnswerFails(r) \/ HandlerGone(r)
       PROVE  TypeOK'
  <2>1. ControlType'
    BY <1>0, <1>12 DEF ControlType, HandlerEnds, WriteAnswerFails, HandlerGone, Fails
  <2> QED  BY <1>1, <1>12, <2>1 DEF HandlerEnds, WriteAnswerFails, HandlerGone
<1>13. ASSUME NEW r \in Requests, WriteAnswer(r) PROVE TypeOK'
  <2>1. ControlType'
    BY <1>0, <1>13 DEF ControlType, WriteAnswer
  <2>2. /\ At(r) \in Ends /\ Frame("ok", r) \in Frames
        /\ Writes(At(r), Frame("ok", r)) /\ UNCHANGED noteVars
    BY <1>13, FrameType, EndsOfCall DEF WriteAnswer
  <2> QED  BY <1>2, <1>3, <2>1, <2>2
<1>14. ASSUME NEW e \in Ends, Notify(e) PROVE TypeOK'
  <2>1. sent[e] \in Nat /\ sent[e] + 1 \in Nat /\ MaxNotes[e] \in Nat
    BY <1>0, ConnAssumption DEF NoteType
  <2>2. ControlType' /\ NoteType'
    BY <1>0, <1>14, <2>1 DEF ControlType, NoteType, Notify
  <2> QED  BY <1>2, <1>14, <2>1, <2>2, FrameType DEF Notify
<1>15. ASSUME NEW e \in Ends, NotifyFails(e) PROVE TypeOK'
  <2>1. ControlType'
    BY <1>0, <1>15 DEF ControlType, NotifyFails, Fails
  <2> QED  BY <1>1, <1>15, <2>1 DEF NotifyFails
<1>16. ASSUME NEW e \in Ends, HandleNote(e) PROVE TypeOK'
  <2> DEFINE rest == Tail(queue[e])
             more == Append(seen[e], Head(queue[e]))
  <2>1. /\ Len(queue[e]) \in Nat /\ rest \in Seq(Nat) /\ Len(rest) = Len(queue[e]) - 1
        /\ more \in Seq(Nat) /\ QueueSize \in Nat
    BY <1>0, <1>16, ConnAssumption DEF NoteType, HandleNote
  <2>2. /\ queue' = [queue EXCEPT ![e] = rest] /\ seen' = [seen EXCEPT ![e] = more]
        /\ sent' = sent /\ UNCHANGED <<broken, wire, connVars, callVars, handler>>
    BY <1>16 DEF HandleNote
  <2> HIDE DEF rest, more
  <2>3. NoteType' /\ ControlType' /\ WireType'
    BY <1>0, <2>1, <2>2 DEF NoteType, ControlType, WireType
  <2> QED  BY <2>3, TypePartsPrimed
<1>17. CASE CloseStream
  BY <1>0, <1>1, <1>17 DEF ControlType, CloseStream
<1>18. CASE UNCHANGED vars
  BY <1>0, <1>1, <1>18 DEF ControlType, vars
<1> QED
  BY <1>4, <1>5, <1>6, <1>8, <1>9, <1>10, <1>11, <1>12, <1>13, <1>14, <1>15, <1>16,
     <1>17, <1>18, TypeRead
  DEF Next, CallStep, HandlerStep, LoopStep

\* Every variable keeps its type, and the stream, the queue of notifications and
\* their number their bounds.
THEOREM TypeCorrect == Spec => []TypeOK
BY TypeInit, TypeStep, PTL DEF Spec

-----------------------------------------------------------------------------
(* Callers *)

CallerInv ==
  \A r \in Requests :
    /\ r \in pending => chan[r] = "none" /\ closed[From[r]] # "yes"
    /\ call[r] \in {"write", "fail", "wait"} => r \in pending \/ chan[r] # "none"
    /\ call[r] \in {"idle", "returned"} => r \notin pending /\ chan[r] = "none"

LEMMA CallerStep ==
  ASSUME TypeOK, CallerInv, [Next]_vars PROVE CallerInv'
<1> USE DEF connVars, callVars, noteVars
<1>0. ControlType
  BY TypeParts
\* A step that leaves the callers alone and shuts nothing down.
<1>1. ASSUME UNCHANGED callVars, \A e \in Ends : closed'[e] = "yes" => closed[e] = "yes"
      PROVE  CallerInv'
  BY <1>1, ConnAssumption DEF CallerInv
<1>2. \A e \in Ends : Fails(e) => \A x \in Ends : closed'[x] = "yes" => closed[x] = "yes"
  BY <1>0 DEF Fails, ControlType
<1>3. ASSUME NEW r \in Requests, Start(r) PROVE CallerInv'
  BY <1>0, <1>3, ConnAssumption DEF CallerInv, Start, ControlType
<1>4. ASSUME NEW r \in Requests, WriteRequest(r) PROVE CallerInv'
  BY <1>0, <1>4, ConnAssumption DEF CallerInv, WriteRequest, ControlType
<1>5. ASSUME NEW r \in Requests, WriteRequestFails(r) PROVE CallerInv'
  <2>1. \A x \in Ends : closed'[x] = "yes" => closed[x] = "yes"
    BY <1>2, <1>5, EndsOfCall DEF WriteRequestFails
  <2>2. /\ call[r] = "write" /\ UNCHANGED <<pending, chan>>
        /\ call' = [call EXCEPT ![r] = "fail"]
    BY <1>5 DEF WriteRequestFails
  <2> QED  BY <1>0, <2>1, <2>2, ConnAssumption DEF CallerInv, ControlType
<1>6. ASSUME NEW r \in Requests, NEW v, Returns(r, v) PROVE CallerInv'
  BY <1>0, <1>6, ConnAssumption DEF CallerInv, Returns, ControlType
<1>7. ASSUME NEW r \in Requests, Return(r) \/ GiveUp(r) PROVE CallerInv'
  BY <1>6, <1>7 DEF Return, GiveUp
<1>8. ASSUME NEW e \in Ends, Read(e) PROVE CallerInv'
  <2>1. \A x \in Ends : closed'[x] = "yes" => closed[x] = "yes"
    BY <1>2, <1>8 DEF Read, Enqueue
  <2>2. CASE UNCHANGED <<pending, chan>>
    BY <1>1, <1>8, <2>1, <2>2 DEF Read
  <2>3. CASE Resolve(e, Head(wire[e])) /\ Head(wire[e]).kind \in {"ok", "busy"}
             /\ call' = call
    <3>1. \A r \in Requests :
            \/ r \in pending' /\ r \in pending /\ chan'[r] = chan[r]
            \/ r \notin pending' /\ r \notin pending /\ chan'[r] = chan[r]
            \/ r \notin pending' /\ r \in pending /\ chan'[r] # "none"
      BY <1>0, <2>3 DEF Resolve, ControlType
    <3> QED  BY <2>1, <2>3, <3>1, ConnAssumption DEF CallerInv
  <2> QED  BY <1>8, <2>2, <2>3 DEF Read
<1>9. ASSUME NEW e \in Ends,
             Refuse(e) \/ RefuseFails(e) \/ LoopGoesOn(e) \/ Eof(e) \/ Drained(e)
             \/ ServeReturns(e)
      PROVE  CallerInv'
  <2>1. \A x \in Ends : closed'[x] = "yes" => closed[x] = "yes"
    BY <1>0, <1>2, <1>9
    DEF Refuse, RefuseFails, LoopGoesOn, Eof, Drained, ServeReturns, ControlType
  <2> QED
    BY <1>1, <1>9, <2>1 DEF Refuse, RefuseFails, LoopGoesOn, Eof, Drained, ServeReturns
<1>10. ASSUME NEW e \in Ends, Shutdown(e) PROVE CallerInv'
  BY <1>0, <1>10, ConnAssumption DEF CallerInv, Shutdown, ControlType
<1>11. ASSUME NEW r \in Requests, HandlerStep(r) PROVE CallerInv'
  <2>1. \A x \in Ends : closed'[x] = "yes" => closed[x] = "yes"
    BY <1>2, <1>11, EndsOfCall
    DEF HandlerStep, HandlerEnds, WriteAnswer, WriteAnswerFails, HandlerGone
  <2> QED
    BY <1>1, <1>11, <2>1
    DEF HandlerStep, HandlerEnds, WriteAnswer, WriteAnswerFails, HandlerGone
<1>12. ASSUME NEW e \in Ends, HandleNote(e) \/ Notify(e) \/ NotifyFails(e) PROVE CallerInv'
  BY <1>1, <1>2, <1>12 DEF HandleNote, Notify, NotifyFails
<1>13. CASE CloseStream \/ UNCHANGED vars
  BY <1>1, <1>13 DEF CloseStream, vars
<1> QED
  BY <1>3, <1>4, <1>5, <1>7, <1>8, <1>9, <1>10, <1>11, <1>12, <1>13
  DEF Next, CallStep, LoopStep

\* No caller is left waiting with nobody to wake it, whatever fails or closes,
\* and neither the read loop nor the shutdown ever blocks on the channel of a call.
THEOREM NobodyStranded == Spec => []NoStrandedCaller
<1>1. Init => CallerInv
  BY DEF Init, CallerInv
<1>2. CallerInv => NoStrandedCaller
  BY DEF CallerInv, NoStrandedCaller
<1> QED  BY TypeCorrect, CallerStep, <1>1, <1>2, PTL DEF Spec

-----------------------------------------------------------------------------
(* What is on the way *)

LEMMA FrameShape ==
  /\ \A f \in Frames : f = Frame(f.kind, f.of)
  /\ \A f \in Frames : \/ f.kind = "note" /\ f.of \in Nat
                       \/ f.kind \in {"request", "ok", "busy"} /\ f.of \in Requests
  /\ \A k, x, l, y : Frame(k, x) = Frame(l, y) => k = l /\ x = y
  /\ \A k, x : Frame(k, x).kind = k /\ Frame(k, x).of = x
BY DEF Frame, Frames

LEMMA Written ==
  ASSUME WireType, NEW e \in Ends, NEW f \in Frames, Writes(e, f)
  PROVE  /\ Other(e) \in Ends
         /\ \A x \in Ends \ {Other(e)} : wire'[x] = wire[x]
         /\ Len(wire[Other(e)]) \in Nat /\ Len(wire'[Other(e)]) = Len(wire[Other(e)]) + 1
         /\ \A i \in 1 .. Len(wire[Other(e)]) : wire'[Other(e)][i] = wire[Other(e)][i]
         /\ wire'[Other(e)][Len(wire[Other(e)]) + 1] = f
<1>1. Other(e) \in Ends
  BY TwoEnds
<1>2. wire[Other(e)] \in Seq(Frames)
  BY <1>1 DEF WireType
<1>3. wire' = [wire EXCEPT ![Other(e)] = Append(wire[Other(e)], f)]
  BY DEF Writes
<1>4. wire'[Other(e)] = Append(wire[Other(e)], f) /\ \A x \in Ends \ {Other(e)} : wire'[x] = wire[x]
  BY <1>1, <1>3 DEF WireType
<1> QED  BY <1>1, <1>2, <1>4

LEMMA ComingWritten ==
  ASSUME WireType, NEW e \in Ends, NEW f \in Frames, Writes(e, f), NEW x \in Ends, NEW g
  PROVE  Coming(x, g)' <=> (Coming(x, g) \/ (x = Other(e) /\ g = f))
<1> DEFINE o == Other(e)
<1>1. /\ o \in Ends /\ \A y \in Ends \ {o} : wire'[y] = wire[y]
      /\ Len(wire[o]) \in Nat /\ Len(wire'[o]) = Len(wire[o]) + 1
      /\ \A i \in 1 .. Len(wire[o]) : wire'[o][i] = wire[o][i]
      /\ wire'[o][Len(wire[o]) + 1] = f
  BY Written
<1> HIDE DEF o
<1>2. CASE x # o
  BY <1>1, <1>2 DEF Coming, o
<1>3. CASE x = o
  BY <1>1, <1>3 DEF Coming, o
<1> QED  BY <1>2, <1>3

LEMMA WireRead ==
  ASSUME WireType, NEW e \in Ends, Read(e)
  PROVE  /\ \A x \in Ends \ {e} : wire'[x] = wire[x]
         /\ Len(wire[e]) \in Nat \ {0} /\ Len(wire'[e]) = Len(wire[e]) - 1
         /\ \A i \in 1 .. Len(wire'[e]) : wire'[e][i] = wire[e][i + 1]
         /\ Head(wire[e]) = wire[e][1] /\ Head(wire[e]) \in Frames
<1>1. wire[e] \in Seq(Frames) /\ wire[e] # <<>> /\ wire' = [wire EXCEPT ![e] = Tail(wire[e])]
  BY DEF WireType, Read
<1>2. wire'[e] = Tail(wire[e]) /\ \A x \in Ends \ {e} : wire'[x] = wire[x]
  BY <1>1 DEF WireType
<1>3. ASSUME NEW s \in Seq(Frames), s # <<>>
      PROVE  /\ Len(s) \in Nat \ {0} /\ Len(Tail(s)) = Len(s) - 1
             /\ \A i \in 1 .. Len(Tail(s)) : Tail(s)[i] = s[i + 1]
             /\ Head(s) = s[1] /\ Head(s) \in Frames
  BY <1>3
<1> QED  BY <1>1, <1>2, <1>3

LEMMA ComingRead ==
  ASSUME WireType, NEW e \in Ends, Read(e), NEW x \in Ends, NEW g
  PROVE  /\ Coming(x, g)' => Coming(x, g)
         /\ Coming(x, g) => Coming(x, g)' \/ (x = e /\ g = Head(wire[e]))
         /\ Coming(e, Head(wire[e]))
<1>1. /\ \A y \in Ends \ {e} : wire'[y] = wire[y]
      /\ Len(wire[e]) \in Nat \ {0} /\ Len(wire'[e]) = Len(wire[e]) - 1
      /\ \A i \in 1 .. Len(wire'[e]) : wire'[e][i] = wire[e][i + 1]
      /\ Head(wire[e]) = wire[e][1]
  BY WireRead
<1>2. CASE x # e
  BY <1>1, <1>2 DEF Coming
<1>3. CASE x = e
  <2>1. \A i \in 1 .. Len(wire'[e]) : i + 1 \in 1 .. Len(wire[e])
    BY <1>1
  <2>2. \A i \in 1 .. Len(wire[e]) : i = 1 \/ (i - 1 \in 1 .. Len(wire'[e]) /\ (i - 1) + 1 = i)
    BY <1>1
  <2>3. ASSUME NEW i \in 1 .. Len(wire[e]), wire[e][i] = g, g # wire[e][1]
        PROVE  \E j \in 1 .. Len(wire'[e]) : wire'[e][j] = g
    BY <1>1, <2>2, <2>3
  <2> QED  BY <1>1, <1>3, <2>1, <2>3 DEF Coming
<1>4. Coming(e, Head(wire[e]))
  BY <1>1 DEF Coming
<1> QED  BY <1>2, <1>3, <1>4

-----------------------------------------------------------------------------
(* The life of a request *)

\* The caller has written the request.
Asked(r) == call[r] \in {"wait", "returned"}

\* Nobody handles the request, and nobody ever will.
Spent(r) ==
  /\ Asked(r) /\ handler[r] = "none" /\ refused[At(r)] # r
  /\ ~Coming(At(r), Frame("request", r))

\* A request that is on its way, or refused, has not been handled; an answer
\* says what became of it.
LifeOf(r) ==
  /\ \A e \in Ends :
       /\ Coming(e, Frame("request", r)) =>
            e = At(r) /\ handler[r] = "none" /\ refused[e] # r /\ Asked(r)
       /\ Coming(e, Frame("ok", r)) => e = From[r] /\ handler[r] = "done"
       /\ Coming(e, Frame("busy", r)) => e = From[r] /\ Spent(r)
       /\ refused[e] = r => e = At(r) /\ handler[r] = "none" /\ Asked(r)
  /\ handler[r] # "none" => Asked(r)
  /\ "ok" \in {chan[r], got[r]} => handler[r] = "done"
  /\ "busy" \in {chan[r], got[r]} => Spent(r)

\* A request is written once.
WrittenOnce ==
  \A e \in Ends : \A i, j \in 1 .. Len(wire[e]) :
    wire[e][i] = wire[e][j] /\ wire[e][i].kind = "request" => i = j

LifeInv == WrittenOnce /\ \A r \in Requests : LifeOf(r)

\* A step that moves no frame, starts no handler and answers no call.
LEMMA QuietLife ==
  ASSUME NEW r \in Requests, LifeOf(r), UNCHANGED wire,
         \/ handler'[r] = handler[r]
         \/ handler[r] \notin {"none", "done"} /\ handler'[r] # "none",
         \A e \in Ends : refused'[e] = refused[e] \/ refused'[e] = NoRequest,
         Asked(r) => Asked(r)',
         chan'[r] \in {chan[r], "none", "closed"},
         got'[r] \in {got[r], chan[r], "closed", "cancelled", "error"}
  PROVE  LifeOf(r)'
<1>1. /\ At(r) \in Ends /\ From[r] \in Ends /\ NoRequest # r
      /\ At(r)' = At(r)
  BY EndsOfCall, ConnAssumption DEF At, Other
<1>2. \A e, f : Coming(e, f)' <=> Coming(e, f)
  BY DEF Coming
<1>3. Spent(r) => Spent(r)'
  BY <1>1, <1>2 DEF Spent
<1>4. /\ \A e \in Ends : refused'[e] = r => refused[e] = r
      /\ handler[r] = "done" => handler'[r] = "done"
      /\ handler[r] = "none" => handler'[r] = "none"
      /\ handler'[r] # "none" => handler[r] # "none"
  BY <1>1
<1>5. /\ "ok" \in {chan'[r], got'[r]} => "ok" \in {chan[r], got[r]}
      /\ "busy" \in {chan'[r], got'[r]} => "busy" \in {chan[r], got[r]}
  OBVIOUS
<1> QED  BY <1>1, <1>2, <1>3, <1>4, <1>5 DEF LifeOf

\* A new frame that is no request and not about r.
LEMMA WritesLife ==
  ASSUME TypeOK, LifeInv, NEW e \in Ends, NEW f \in Frames, Writes(e, f),
         f.kind # "request" \/ ~Coming(Other(e), f)
  PROVE  WrittenOnce'
<1> DEFINE o == Other(e)
           n == Len(wire[o]) + 1
<1>1. /\ o \in Ends /\ \A y \in Ends \ {o} : wire'[y] = wire[y]
      /\ Len(wire[o]) \in Nat /\ Len(wire'[o]) = n
      /\ \A i \in 1 .. Len(wire[o]) : wire'[o][i] = wire[o][i]
      /\ wire'[o][n] = f
  BY Written, TypeParts
<1>2. \A i \in 1 .. n : i = n \/ i \in 1 .. Len(wire[o])
  BY <1>1
<1> HIDE DEF o, n
<1> SUFFICES ASSUME NEW x \in Ends, NEW i \in 1 .. Len(wire'[x]), NEW j \in 1 .. Len(wire'[x]),
                    wire'[x][i] = wire'[x][j], wire'[x][i].kind = "request"
             PROVE  i = j
  BY DEF WrittenOnce
<1>3. CASE x # o
  BY <1>1, <1>3 DEF LifeInv, WrittenOnce
<1>4. CASE x = o
  <2>1. i = n => wire'[x][i] = f
    BY <1>1, <1>4
  <2>2. j = n => wire'[x][j] = f
    BY <1>1, <1>4
  <2>3. \A k \in 1 .. Len(wire[o]) : wire[o][k] = f => Coming(Other(e), f)
    BY DEF Coming, o
  <2> QED  BY <1>1, <1>2, <1>4, <2>1, <2>2, <2>3 DEF LifeInv, WrittenOnce
<1> QED  BY <1>3, <1>4

LEMMA LifeWriteRequest ==
  ASSUME TypeOK, LifeInv, NEW q \in Requests, WriteRequest(q) PROVE LifeInv'
<1> DEFINE f == Frame("request", q)
<1>1. /\ From[q] \in Ends /\ Other(From[q]) = At(q) /\ f \in Frames
      /\ Writes(From[q], f) /\ call[q] = "write"
      /\ call' = [call EXCEPT ![q] = "wait"]
      /\ UNCHANGED <<refused, chan, got, handler>>
  BY EndsOfCall, FrameType DEF WriteRequest, connVars
<1>2. \A x \in Ends : \A g : Coming(x, g)' <=> (Coming(x, g) \/ (x = At(q) /\ g = f))
  BY <1>1, ComingWritten, TypeParts
<1>3. ~Asked(q) /\ Asked(q)' /\ \A r \in Requests \ {q} : Asked(r)' <=> Asked(r)
  BY <1>1 DEF Asked, TypeOK
<1>4. handler[q] = "none" /\ \A e \in Ends : refused[e] # q
  BY <1>3 DEF LifeInv, LifeOf
<1>5. /\ ~Coming(At(q), f) /\ ~Spent(q)
      /\ \A e \in Ends, k \in {"ok", "busy"} : ~Coming(e, Frame(k, q))
  <2>1. ~Coming(At(q), f)
    BY <1>3, EndsOfCall DEF LifeInv, LifeOf
  <2>2. ~Spent(q)
    BY <1>3 DEF Spent
  <2>3. \A e \in Ends : ~Coming(e, Frame("ok", q))
    BY <1>4 DEF LifeInv, LifeOf
  <2>4. \A e \in Ends : ~Coming(e, Frame("busy", q))
    BY <2>2 DEF LifeInv, LifeOf
  <2> QED  BY <2>1, <2>2, <2>3, <2>4
<1>6. WrittenOnce'
  BY <1>1, <1>5, WritesLife
<1>7. ASSUME NEW r \in Requests PROVE LifeOf(r)'
  <2>1. At(r)' = At(r) /\ At(r) \in Ends /\ From[r] \in Ends
    BY EndsOfCall DEF At, Other
  <2>2. CASE r = q
    <3>1. /\ \A e \in Ends : Coming(e, Frame("request", q))' => e = At(q)
          /\ \A e \in Ends, k \in {"ok", "busy"} : ~Coming(e, Frame(k, q))'
      BY <1>2, <1>5, FrameShape, <1>3 DEF LifeInv, LifeOf
    <3>2. {"ok", "busy"} \cap {chan[q], got[q]} = {}
      BY <1>4, <1>5 DEF LifeInv, LifeOf
    <3>3. \A e \in Ends : refused'[e] # q
      BY <1>1, <1>4
    <3> QED  BY <1>1, <1>3, <1>4, <2>1, <2>2, <3>1, <3>2, <3>3 DEF LifeOf
  <2>3. CASE r # q
    <3>1. \A e \in Ends : \A k : Coming(e, Frame(k, r))' <=> Coming(e, Frame(k, r))
      BY <1>2, <2>3, FrameShape
    <3>2. Spent(r)' <=> Spent(r)
      BY <1>1, <1>3, <2>1, <2>3, <3>1 DEF Spent
    <3> QED  BY <1>1, <1>3, <2>1, <2>3, <3>1, <3>2 DEF LifeInv, LifeOf
  <2> QED  BY <2>2, <2>3
<1> QED  BY <1>6, <1>7 DEF LifeInv

LEMMA LifeAnswer ==
  ASSUME TypeOK, LifeInv, NEW q \in Requests, NEW k \in {"ok", "busy"},
         Writes(At(q), Frame(k, q)), UNCHANGED callVars,
         \A r \in Requests \ {q} : handler'[r] = handler[r],
         \A e \in Ends : refused'[e] = refused[e] \/ refused'[e] = NoRequest,
         k = "ok" => handler[q] \notin {"none", "done"} /\ handler'[q] = "done",
         k = "busy" => /\ refused[At(q)] = q /\ handler'[q] = handler[q]
                       /\ refused'[At(q)] = NoRequest
  PROVE  LifeInv'
<1> DEFINE f == Frame(k, q)
<1>1. /\ At(q) \in Ends /\ Other(At(q)) = From[q] /\ f \in Frames /\ f.kind # "request"
      /\ From[q] \in Ends
  BY EndsOfCall, FrameType, FrameShape
<1>2. \A x \in Ends : \A g : Coming(x, g)' <=> (Coming(x, g) \/ (x = From[q] /\ g = f))
  BY <1>1, ComingWritten, TypeParts
<1>3. \A r : Asked(r)' <=> Asked(r)
  BY DEF Asked, callVars
<1>4. WrittenOnce'
  BY <1>1, WritesLife
<1>5. ASSUME NEW r \in Requests PROVE LifeOf(r)'
  <2>1. /\ At(r)' = At(r) /\ At(r) \in Ends /\ From[r] \in Ends /\ r # NoRequest
        /\ chan'[r] = chan[r] /\ got'[r] = got[r]
    BY EndsOfCall, ConnAssumption DEF At, Other, callVars
  <2>2. \A e \in Ends : Coming(e, Frame("request", r))' <=> Coming(e, Frame("request", r))
    BY <1>2, FrameShape
  <2>3. \A e \in Ends : refused'[e] = r => refused[e] = r
    BY <2>1
  <2>4. CASE r = q /\ k = "ok"
    <3>1. Asked(q) /\ ~Spent(q) /\ ~\E e \in Ends : refused[e] = q \/ Coming(e, Frame("request", q))
      BY <2>4 DEF LifeInv, LifeOf, Spent
    <3>2. \A e \in Ends : ~Coming(e, Frame("busy", q))' /\ refused'[e] # q
      BY <1>2, <2>3, <2>4, <3>1, FrameShape DEF LifeInv, LifeOf
    <3>3. \A e \in Ends : Coming(e, Frame("ok", q))' => e = From[q]
      BY <1>2, FrameShape DEF LifeInv, LifeOf
    <3>4. "busy" \notin {chan[q], got[q]}
      BY <3>1 DEF LifeInv, LifeOf
    <3> QED  BY <1>3, <2>1, <2>2, <2>4, <3>1, <3>2, <3>3, <3>4 DEF LifeOf
  <2>5. CASE r = q /\ k = "busy"
    <3>1. /\ Asked(q) /\ handler[q] = "none"
          /\ \A e \in Ends : ~Coming(e, Frame("request", q))
      BY <1>1, <2>5 DEF LifeInv, LifeOf
    <3>2. Spent(q)' /\ handler'[q] = "none"
      BY <1>1, <1>3, <2>1, <2>2, <2>5, <3>1 DEF Spent
    <3>3. /\ \A e \in Ends : Coming(e, Frame("ok", q))' => FALSE
          /\ \A e \in Ends : Coming(e, Frame("busy", q))' => e = From[q]
      BY <1>2, <2>5, <3>1, FrameShape DEF LifeInv, LifeOf
    <3>4. "ok" \notin {chan[q], got[q]}
      BY <3>1 DEF LifeInv, LifeOf
    <3>5. \A e \in Ends : refused'[e] # q
      BY <2>1, <2>3, <2>5 DEF LifeInv, LifeOf
    <3> QED  BY <1>3, <2>1, <2>2, <2>5, <3>1, <3>2, <3>3, <3>4, <3>5 DEF LifeOf
  <2>6. CASE r # q
    <3>1. \A e \in Ends : \A l : Coming(e, Frame(l, r))' <=> Coming(e, Frame(l, r))
      BY <1>2, <2>6, FrameShape
    <3>2. Spent(r) => Spent(r)'
      BY <1>3, <2>1, <2>3, <2>6, <3>1 DEF Spent
    <3> QED  BY <1>3, <2>1, <2>3, <2>6, <3>1, <3>2 DEF LifeInv, LifeOf
  <2> QED  BY <2>4, <2>5, <2>6
<1> QED  BY <1>4, <1>5 DEF LifeInv

LEMMA LifeRead ==
  ASSUME TypeOK, LifeInv, NEW e \in Ends, Read(e) PROVE LifeInv'
<1> DEFINE h == Head(wire[e])
<1>1. /\ \A x \in Ends \ {e} : wire'[x] = wire[x]
      /\ Len(wire[e]) \in Nat \ {0} /\ Len(wire'[e]) = Len(wire[e]) - 1
      /\ \A i \in 1 .. Len(wire'[e]) : wire'[e][i] = wire[e][i + 1]
      /\ h = wire[e][1] /\ h \in Frames
  BY WireRead, TypeParts
<1>2. /\ \A x \in Ends : \A g : Coming(x, g)' => Coming(x, g)
      /\ Coming(e, h)
  BY ComingRead, TypeParts
<1>3. UNCHANGED <<call, got>> /\ \A r : Asked(r)' <=> Asked(r)
  BY DEF Read, Asked
<1>4. \A i \in 1 .. Len(wire'[e]) : i + 1 \in 1 .. Len(wire[e]) /\ i + 1 # 1
  BY <1>1
<1>5. WrittenOnce'
  <2> SUFFICES ASSUME NEW x \in Ends, NEW i \in 1 .. Len(wire'[x]), NEW j \in 1 .. Len(wire'[x]),
                      wire'[x][i] = wire'[x][j], wire'[x][i].kind = "request"
               PROVE  i = j
    BY DEF WrittenOnce
  <2>1. CASE x # e
    BY <1>1, <2>1 DEF LifeInv, WrittenOnce
  <2>2. CASE x = e
    <3>1. i + 1 = j + 1
      BY <1>1, <1>4, <2>2 DEF LifeInv, WrittenOnce
    <3> QED  BY <1>1, <2>2, <3>1
  <2> QED  BY <2>1, <2>2
<1>6. h.kind = "request" => \A i \in 1 .. Len(wire'[e]) : wire'[e][i] # h
  BY <1>1, <1>4 DEF LifeInv, WrittenOnce
<1> HIDE DEF h
<1>7. h = Frame(h.kind, h.of) /\ (h.kind # "note" => h.of \in Requests)
  BY <1>1, FrameShape
\* A call that the step does not start or refuse.
<1>8. ASSUME NEW r \in Requests, handler'[r] = handler[r],
             \A x \in Ends : refused'[x] = r => refused[x] = r,
             "ok" \in {chan'[r], got'[r]} => handler[r] = "done",
             "busy" \in {chan'[r], got'[r]} => Spent(r)
      PROVE  LifeOf(r)'
  <2>1. At(r)' = At(r) /\ At(r) \in Ends /\ From[r] \in Ends
    BY EndsOfCall DEF At, Other
  <2>2. Spent(r) => Spent(r)'
    BY <1>2, <1>3, <1>8, <2>1 DEF Spent
  <2> QED  BY <1>2, <1>3, <1>8, <2>1, <2>2 DEF LifeInv, LifeOf
<1>9. CASE UNCHANGED <<refused, chan, handler>>
  <2>1. \A r \in Requests : LifeOf(r)'
    BY <1>3, <1>8, <1>9 DEF LifeInv, LifeOf
  <2> QED  BY <1>5, <2>1 DEF LifeInv
<1>10. CASE /\ h.kind = "request" /\ Admit(e, h.of)
            /\ UNCHANGED <<closed, pending, chan, queue>>
  <2>0. PICK q \in Requests : q = h.of /\ h = Frame("request", q)
    BY <1>7, <1>10
  <2>1. /\ ~Coming(e, Frame("request", q))'
        /\ Coming(e, Frame("request", q))
        /\ e = At(q) /\ handler[q] = "none" /\ refused[e] # q /\ Asked(q)
    BY <1>2, <1>6, <1>10, <2>0 DEF LifeInv, LifeOf, Coming
  <2>2. /\ ~Spent(q) /\ \A x \in Ends : refused[x] # q
        /\ \A x \in Ends, k \in {"ok", "busy"} : ~Coming(x, Frame(k, q))
    <3>1. ~Spent(q)
      BY <2>1 DEF Spent
    <3> QED  BY <2>1, <3>1 DEF LifeInv, LifeOf
  <2>3. \A x \in Ends, k \in {"request", "ok", "busy"} : ~Coming(x, Frame(k, q))'
    <3>1. \A x \in Ends : ~Coming(x, Frame("request", q))'
      BY <1>2, <2>1 DEF LifeInv, LifeOf
    <3> QED  BY <1>2, <2>2, <3>1
  <2>4. {"ok", "busy"} \cap {chan[q], got[q]} = {}
    BY <2>1, <2>2 DEF LifeInv, LifeOf
  <2>5. /\ \A r \in Requests \ {q} : handler'[r] = handler[r]
        /\ \A x \in Ends \ {e} : refused'[x] = refused[x]
        /\ refused'[e] \in {refused[e], q}
        /\ handler'[q] # "none" => refused' = refused
    BY <1>10, <2>0, <2>1 DEF Admit, TypeOK
  <2>6. LifeOf(q)'
    <3>1. At(q)' = At(q)
      BY DEF At, Other
    <3>2. \A x \in Ends : refused'[x] = q => x = e /\ handler'[q] = "none"
      BY <2>2, <2>5
    <3> QED  BY <1>3, <1>10, <2>1, <2>3, <2>4, <3>1, <3>2 DEF LifeOf
  <2>7. ASSUME NEW r \in Requests, r # q PROVE LifeOf(r)'
    <3>1. \A x \in Ends : refused'[x] = r => refused[x] = r
      BY <2>5, <2>7
    <3> QED  BY <1>3, <1>8, <1>10, <2>5, <2>7, <3>1 DEF LifeInv, LifeOf
  <2> QED  BY <1>5, <2>6, <2>7 DEF LifeInv
<1>11. CASE /\ h.kind \in {"ok", "busy"} /\ Resolve(e, h)
            /\ UNCHANGED <<connVars, handler, queue>>
  <2> DEFINE q == h.of
  <2>1. q \in Requests /\ Coming(e, Frame(h.kind, q))
    BY <1>2, <1>7, <1>11
  <2>2. /\ h.kind = "ok" => handler[q] = "done"
        /\ h.kind = "busy" => Spent(q)
    BY <2>1 DEF LifeInv, LifeOf
  <2>3. \A r \in Requests : chan'[r] = chan[r] \/ (r = q /\ chan'[r] = h.kind)
    BY <1>11, <2>1 DEF Resolve, TypeOK
  <2> HIDE DEF q
  <2>4. ASSUME NEW r \in Requests PROVE LifeOf(r)'
    <3>1. /\ "ok" \in {chan'[r], got'[r]} => handler[r] = "done"
          /\ "busy" \in {chan'[r], got'[r]} => Spent(r)
      BY <1>3, <2>2, <2>3 DEF LifeInv, LifeOf
    <3> QED  BY <1>8, <1>11, <3>1 DEF connVars
  <2> QED  BY <1>5, <2>4 DEF LifeInv
<1> QED  BY <1>9, <1>10, <1>11 DEF Read, connVars, h

LEMMA LifeStep ==
  ASSUME TypeOK, LifeInv, [Next]_vars PROVE LifeInv'
<1> USE DEF connVars, callVars, noteVars
<1>0. ControlType
  BY TypeParts
<1>1. WrittenOnce /\ UNCHANGED wire => WrittenOnce'
  BY DEF WrittenOnce
\* A step that leaves the stream, the handlers, the refusals and the results alone.
<1>2. ASSUME UNCHANGED <<wire, handler>>, \A r \in Requests : Asked(r) => Asked(r)',
             \A e \in Ends : refused'[e] = refused[e] \/ refused'[e] = NoRequest,
             \A r \in Requests : /\ chan'[r] \in {chan[r], "none", "closed"}
                                 /\ got'[r] \in {got[r], chan[r], "closed", "cancelled", "error"}
      PROVE  LifeInv'
  <2>1. \A r \in Requests : LifeOf(r)'
    BY <1>2, QuietLife DEF LifeInv
  <2> QED  BY <1>1, <1>2, <2>1 DEF LifeInv
<1>3. ASSUME NEW q \in Requests, Start(q) PROVE LifeInv'
  BY <1>0, <1>2, <1>3 DEF Start, Asked, ControlType
<1>4. ASSUME NEW q \in Requests, WriteRequestFails(q) PROVE LifeInv'
  BY <1>0, <1>2, <1>4 DEF WriteRequestFails, Asked, ControlType
<1>5. ASSUME NEW q \in Requests, NEW v, Returns(q, v), v \in {chan[q], "cancelled", "error"}
      PROVE  LifeInv'
  BY <1>0, <1>2, <1>5 DEF Returns, Asked, ControlType
<1>6. ASSUME NEW q \in Requests, Return(q) \/ GiveUp(q) PROVE LifeInv'
  BY <1>5, <1>6 DEF Return, GiveUp
<1>7. ASSUME NEW e \in Ends, Refuse(e) PROVE LifeInv'
  <2> DEFINE q == refused[e]
  <2>1. q \in Requests
    BY <1>0, <1>7 DEF Refuse, ControlType
  <2>2. e = At(q)
    BY <2>1 DEF LifeInv, LifeOf
  <2>3. /\ Writes(At(q), Frame("busy", q)) /\ UNCHANGED <<handler, callVars>>
        /\ refused' = [refused EXCEPT ![e] = NoRequest]
    BY <1>7, <2>2 DEF Refuse
  <2>4. /\ refused[At(q)] = q /\ refused'[At(q)] = NoRequest
        /\ \A x \in Ends : refused'[x] = refused[x] \/ refused'[x] = NoRequest
    BY <1>0, <2>2, <2>3 DEF ControlType
  <2> HIDE DEF q
  <2>5. PICK r \in Requests : r = q
    BY <2>1
  <2> QED  BY <2>3, <2>4, <2>5, LifeAnswer
<1>8. ASSUME NEW e \in Ends,
             RefuseFails(e) \/ LoopGoesOn(e) \/ Eof(e) \/ Drained(e) \/ ServeReturns(e)
      PROVE  LifeInv'
  BY <1>0, <1>2, <1>8
  DEF RefuseFails, LoopGoesOn, Eof, Drained, ServeReturns, Asked, ControlType
<1>9. ASSUME NEW e \in Ends, Shutdown(e) PROVE LifeInv'
  BY <1>0, <1>2, <1>9 DEF Shutdown, Asked, ControlType
<1>10. ASSUME NEW q \in Requests, HandlerEnds(q) \/ WriteAnswerFails(q) \/ HandlerGone(q)
       PROVE  LifeInv'
  <2>1. UNCHANGED <<wire, refused, callVars>>
    BY <1>10 DEF HandlerEnds, WriteAnswerFails, HandlerGone
  <2>2. \A r \in Requests : \/ handler'[r] = handler[r]
                            \/ handler[r] \notin {"none", "done"} /\ handler'[r] # "none"
    BY <1>0, <1>10 DEF HandlerEnds, WriteAnswerFails, HandlerGone, ControlType
  <2>3. \A r \in Requests : LifeOf(r)'
    BY <2>1, <2>2, QuietLife DEF LifeInv, Asked
  <2> QED  BY <1>1, <2>1, <2>3 DEF LifeInv
<1>11. ASSUME NEW q \in Requests, WriteAnswer(q) PROVE LifeInv'
  <2>1. /\ handler[q] = "answer" /\ handler'[q] = "done"
        /\ \A r \in Requests \ {q} : handler'[r] = handler[r]
        /\ Writes(At(q), Frame("ok", q)) /\ UNCHANGED <<refused, callVars>>
    BY <1>0, <1>11 DEF WriteAnswer, ControlType
  <2> QED  BY <2>1, LifeAnswer
<1>12. ASSUME NEW e \in Ends, Notify(e) PROVE LifeInv'
  <2> DEFINE f == Frame("note", sent[e] + 1)
  <2>1. f \in Frames /\ Writes(e, f) /\ f.kind = "note"
    BY <1>12, FrameType, FrameShape DEF Notify, TypeOK
  <2>2. UNCHANGED <<refused, callVars, handler>>
    BY <1>12 DEF Notify
  <2>3. \A x \in Ends, k \in {"request", "ok", "busy"} : \A r :
          Coming(x, Frame(k, r))' <=> Coming(x, Frame(k, r))
    BY <2>1, ComingWritten, FrameShape, TypeParts
  <2>4. ASSUME NEW r \in Requests PROVE LifeOf(r)'
    <3>1. At(r)' = At(r) /\ At(r) \in Ends
      BY EndsOfCall DEF At, Other
    <3>2. Spent(r)' <=> Spent(r)
      BY <2>2, <2>3, <3>1 DEF Spent, Asked
    <3> QED  BY <2>2, <2>3, <3>1, <3>2 DEF LifeInv, LifeOf, Asked
  <2>5. WrittenOnce'
    BY <2>1, WritesLife
  <2> QED  BY <2>4, <2>5 DEF LifeInv
<1>13. ASSUME NEW e \in Ends, NotifyFails(e) \/ HandleNote(e) PROVE LifeInv'
  BY <1>0, <1>2, <1>13 DEF NotifyFails, HandleNote, Asked, ControlType
<1>14. CASE CloseStream \/ UNCHANGED vars
  BY <1>2, <1>14 DEF CloseStream, vars, Asked
<1> QED
  BY <1>3, <1>4, <1>6, <1>7, <1>8, <1>9, <1>10, <1>11, <1>12, <1>13, <1>14,
     LifeWriteRequest, LifeRead
  DEF Next, CallStep, HandlerStep, LoopStep

LEMMA LifeHolds == Spec => []LifeInv
<1>1. Init => LifeInv
  <2> SUFFICES ASSUME Init PROVE LifeInv
    OBVIOUS
  <2>1. \A e \in Ends : \A f : ~Coming(e, f)
    BY DEF Init, Coming
  <2> QED
    BY <2>1, ConnAssumption DEF Init, LifeInv, WrittenOnce, LifeOf
<1> QED  BY TypeCorrect, LifeStep, <1>1, PTL DEF Spec

\* What a caller is told is true: a result comes from a handler that ran to its
\* end, and a call that was told "server busy" was never run and never will be.
THEOREM CallersToldTheTruth == Spec => []AnswersAreTrue
<1>1. LifeInv => AnswersAreTrue
  BY DEF LifeInv, LifeOf, Spent, AnswersAreTrue
<1> QED  BY LifeHolds, <1>1, PTL

-----------------------------------------------------------------------------
(* Notifications *)

Came(e) == Len(seen[e]) + Len(queue[e])

\* The notifications that are handled or queued are the first ones.
CameInOrder(e) ==
  /\ \A i \in 1 .. Len(seen[e]) : seen[e][i] = i
  /\ \A i \in 1 .. Len(queue[e]) : queue[e][i] = Len(seen[e]) + i

\* Those on the way are the ones from lo to hi, in this order.
InTransit(e, lo, hi) ==
  /\ {wire[e][i].of : i \in NotesComing(e)} = lo .. hi
  /\ \A i, j \in NotesComing(e) : i < j => wire[e][i].of < wire[e][j].of

NoteInv ==
  \A e \in Ends :
    /\ CameInOrder(e)
    /\ closed[e] = "no" => /\ Came(e) <= sent[Other(e)]
                           /\ InTransit(e, Came(e) + 1, sent[Other(e)])

LEMMA NoteTypes ==
  ASSUME TypeOK, NEW e \in Ends
  PROVE  /\ Len(seen[e]) \in Nat /\ Len(queue[e]) \in Nat /\ Came(e) \in Nat
         /\ sent[Other(e)] \in Nat
         /\ \A i \in NotesComing(e) : wire[e][i].of \in Nat /\ i \in Nat
<1>1. Other(e) \in Ends
  BY TwoEnds
<1>2. seen[e] \in Seq(Nat) /\ queue[e] \in Seq(Nat) /\ wire[e] \in Seq(Frames)
  BY DEF TypeOK
<1>3. Len(seen[e]) \in Nat /\ Len(queue[e]) \in Nat
  BY <1>2
<1>4. \A i \in NotesComing(e) : wire[e][i] \in Frames /\ wire[e][i].kind = "note" /\ i \in Nat
  BY <1>2 DEF NotesComing
<1>5. \A f \in Frames : f.kind = "note" => f.of \in Nat
  BY FrameShape
<1>6. sent[Other(e)] \in Nat /\ Came(e) \in Nat
  BY <1>1, <1>3 DEF TypeOK, Came
<1> QED  BY <1>3, <1>4, <1>5, <1>6

\* The notifications on the way to an end are the same, at the same places.
SameNotes(e) ==
  NotesComing(e)' = NotesComing(e) /\ \A i \in NotesComing(e) : wire'[e][i] = wire[e][i]

LEMMA QuietNotes ==
  ASSUME TypeOK, NoteInv, UNCHANGED noteVars,
         \A e \in Ends : closed'[e] = "no" => closed[e] = "no" /\ SameNotes(e)
  PROVE  NoteInv'
<1> SUFFICES ASSUME NEW e \in Ends
             PROVE  /\ CameInOrder(e)'
                    /\ closed'[e] = "no" =>
                         /\ Came(e)' <= sent'[Other(e)]
                         /\ InTransit(e, Came(e) + 1, sent[Other(e)])'
  BY DEF NoteInv, Other
<1>1. CameInOrder(e)' /\ Came(e)' = Came(e) /\ sent'[Other(e)] = sent[Other(e)]
  BY DEF NoteInv, noteVars, CameInOrder, Came
<1>2. ASSUME closed'[e] = "no"
      PROVE  InTransit(e, Came(e) + 1, sent[Other(e)])'
  <2>1. InTransit(e, Came(e) + 1, sent[Other(e)]) /\ SameNotes(e)
    BY <1>2 DEF NoteInv
  <2>2. {wire'[e][i].of : i \in NotesComing(e)'} = {wire[e][i].of : i \in NotesComing(e)}
    BY <2>1 DEF SameNotes
  <2>3. \A i, j \in NotesComing(e)' : i < j => wire'[e][i].of < wire'[e][j].of
    BY <2>1 DEF SameNotes, InTransit
  <2> QED  BY <1>1, <2>1, <2>2, <2>3 DEF InTransit, Other
<1> QED  BY <1>1, <1>2 DEF NoteInv

LEMMA OtherFrames ==
  ASSUME TypeOK, NEW e \in Ends, NEW f \in Frames, Writes(e, f), f.kind # "note",
         NEW x \in Ends
  PROVE  SameNotes(x)
<1> DEFINE o == Other(e)
<1>1. /\ o \in Ends /\ \A y \in Ends \ {o} : wire'[y] = wire[y]
      /\ Len(wire[o]) \in Nat /\ Len(wire'[o]) = Len(wire[o]) + 1
      /\ \A i \in 1 .. Len(wire[o]) : wire'[o][i] = wire[o][i]
      /\ wire'[o][Len(wire[o]) + 1] = f
  BY Written, TypeParts
<1> HIDE DEF o
<1>2. CASE x # o
  BY <1>1, <1>2 DEF SameNotes, NotesComing
<1>3. CASE x = o
  <2>1. \A i \in 1 .. Len(wire'[o]) : i \in 1 .. Len(wire[o]) \/ i = Len(wire[o]) + 1
    BY <1>1
  <2>2. \A i \in 1 .. Len(wire[o]) : i \in 1 .. Len(wire'[o])
    BY <1>1
  <2> QED  BY <1>1, <1>3, <2>1, <2>2 DEF SameNotes, NotesComing
<1> QED  BY <1>2, <1>3

LEMMA NotesNotify ==
  ASSUME TypeOK, NoteInv, NEW e \in Ends, Notify(e) PROVE NoteInv'
<1> DEFINE o == Other(e)
           n == Len(wire[o]) + 1
           s == sent[e] + 1
           f == Frame("note", s)
<1>1. /\ s \in Nat /\ f \in Frames /\ f.kind = "note" /\ f.of = s /\ Writes(e, f)
      /\ sent' = [sent EXCEPT ![e] = s] /\ UNCHANGED <<closed, seen, queue>>
  BY FrameType, FrameShape DEF Notify, TypeOK, connVars
<1>2. /\ o \in Ends /\ o # e /\ Other(o) = e /\ \A y \in Ends \ {o} : wire'[y] = wire[y]
      /\ Len(wire[o]) \in Nat /\ Len(wire'[o]) = n
      /\ \A i \in 1 .. Len(wire[o]) : wire'[o][i] = wire[o][i]
      /\ wire'[o][n] = f
  BY <1>1, Written, TypeParts, TwoEnds
<1> HIDE DEF f
<1>3. \A x \in Ends : CameInOrder(x)' /\ Came(x)' = Came(x)
  BY <1>1 DEF NoteInv, CameInOrder, Came
<1>4. sent'[e] = s /\ \A x \in Ends \ {e} : sent'[x] = sent[x]
  BY <1>1 DEF TypeOK
<1>5. ASSUME closed'[o] = "no"
      PROVE  Came(o)' <= sent'[Other(o)] /\ InTransit(o, Came(o) + 1, sent[Other(o)])'
  <2>1. /\ Came(o) <= sent[e] /\ InTransit(o, Came(o) + 1, sent[e])
        /\ Came(o) \in Nat /\ sent[e] \in Nat
    BY <1>1, <1>2, <1>5, NoteTypes DEF NoteInv
  <2>2. NotesComing(o)' = NotesComing(o) \cup {n} /\ n \notin NotesComing(o)
    BY <1>1, <1>2 DEF NotesComing
  <2>3. /\ \A i \in NotesComing(o) : wire'[o][i].of = wire[o][i].of /\ i < n
        /\ wire'[o][n].of = s
    BY <1>1, <1>2 DEF NotesComing
  <2>4. \A i \in NotesComing(o) : wire[o][i].of \in Came(o) + 1 .. sent[e]
    BY <2>1 DEF InTransit
  <2>5. {wire'[o][i].of : i \in NotesComing(o)'} = (Came(o) + 1 .. sent[e]) \cup {s}
    <3>1. {wire'[o][i].of : i \in NotesComing(o)'} = {wire[o][i].of : i \in NotesComing(o)} \cup {s}
      BY <2>2, <2>3
    <3> QED  BY <2>1, <3>1 DEF InTransit
  <2>6. (Came(o) + 1 .. sent[e]) \cup {s} = Came(o) + 1 .. s
    BY <2>1
  <2>7. \A i, j \in NotesComing(o)' : i < j => wire'[o][i].of < wire'[o][j].of
    <3>1. \A i \in NotesComing(o) : i \in Nat /\ ~(n < i)
      BY <1>2 DEF NotesComing
    <3>2. \A i \in NotesComing(o) : wire[o][i].of < s
      BY <2>1, <2>4
    <3>3. ~(n < n)
      BY <1>2
    <3> HIDE DEF n, s
    <3> QED  BY <2>1, <2>2, <2>3, <3>1, <3>2, <3>3 DEF InTransit
  <2>8. (Came(o) + 1 .. sent[Other(o)])' = Came(o) + 1 .. s
    BY <1>2, <1>3, <1>4
  <2> QED  BY <1>2, <1>3, <1>4, <2>1, <2>5, <2>6, <2>7 DEF InTransit
<1>6. ASSUME NEW x \in Ends, x # o, closed'[x] = "no"
      PROVE  Came(x)' <= sent'[Other(x)] /\ InTransit(x, Came(x) + 1, sent[Other(x)])'
  <2>1. x = e /\ Other(x) = o
    BY <1>2, <1>6, TwoEnds
  <2>2. wire'[x] = wire[x] /\ sent'[o] = sent[o] /\ closed[x] = "no"
    BY <1>1, <1>2, <1>4, <1>6
  <2>3. Came(x) <= sent[o] /\ InTransit(x, Came(x) + 1, sent[o])
    BY <2>1, <2>2 DEF NoteInv
  <2>4. NotesComing(x)' = NotesComing(x)
    BY <2>2 DEF NotesComing
  <2> QED  BY <1>3, <2>1, <2>2, <2>3, <2>4 DEF InTransit, Other
<1> HIDE DEF o
<1>7. ASSUME NEW x \in Ends, closed'[x] = "no"
      PROVE  Came(x)' <= sent'[Other(x)] /\ InTransit(x, Came(x) + 1, sent[Other(x)])'
  BY <1>5, <1>6, <1>7
<1> QED  BY <1>3, <1>7 DEF NoteInv

LEMMA NotesHandle ==
  ASSUME TypeOK, NoteInv, NEW e \in Ends, HandleNote(e) PROVE NoteInv'
<1> DEFINE head == Head(queue[e])
           rest == Tail(queue[e])
           more == Append(seen[e], head)
<1>1. /\ queue' = [queue EXCEPT ![e] = rest] /\ seen' = [seen EXCEPT ![e] = more]
      /\ UNCHANGED <<wire, closed, sent>> /\ queue[e] # <<>>
  BY DEF HandleNote, connVars
<1>2. seen[e] \in Seq(Nat) /\ queue[e] \in Seq(Nat)
  BY DEF TypeOK
<1>3. /\ Len(queue[e]) \in Nat \ {0} /\ Len(rest) = Len(queue[e]) - 1 /\ head = queue[e][1]
      /\ \A i \in 1 .. Len(rest) : rest[i] = queue[e][i + 1]
      /\ head \in Nat
  BY <1>1, <1>2
<1>4. /\ Len(seen[e]) \in Nat /\ Len(more) = Len(seen[e]) + 1
      /\ \A i \in 1 .. Len(seen[e]) : more[i] = seen[e][i]
      /\ more[Len(seen[e]) + 1] = head
  BY <1>2, <1>3
<1> HIDE DEF head, rest, more
<1>5. /\ queue'[e] = rest /\ seen'[e] = more
      /\ \A x \in Ends \ {e} : queue'[x] = queue[x] /\ seen'[x] = seen[x]
  BY <1>1 DEF TypeOK
<1>6. Came(e)' = Came(e)
  <2>1. \A k, m \in Nat : (k + 1) + (m - 1) = k + m
    OBVIOUS
  <2>2. Len(queue[e]) \in Nat /\ Len(more) + Len(rest) = Len(seen[e]) + Len(queue[e])
    BY <1>3, <1>4, <2>1
  <2>3. Came(e)' = Len(more) + Len(rest)
    BY <1>5 DEF Came
  <2> QED  BY <2>2, <2>3 DEF Came
<1>7. CameInOrder(e)'
  <2>1. head = Len(seen[e]) + 1
    BY <1>3 DEF NoteInv, CameInOrder
  <2>2. \A i \in 1 .. Len(more) : more[i] = i
    <3> SUFFICES ASSUME NEW i \in 1 .. Len(more) PROVE more[i] = i
      OBVIOUS
    <3>1. i \in 1 .. Len(seen[e]) \/ i = Len(seen[e]) + 1
      BY <1>4
    <3> QED  BY <1>4, <2>1, <3>1 DEF NoteInv, CameInOrder
  <2>3. \A i \in 1 .. Len(rest) : rest[i] = Len(more) + i
    <3> SUFFICES ASSUME NEW i \in 1 .. Len(rest) PROVE rest[i] = Len(more) + i
      OBVIOUS
    <3>1. i \in Nat /\ i + 1 \in 1 .. Len(queue[e])
      BY <1>3
    <3>2. \A k, m \in Nat : k + (m + 1) = (k + 1) + m
      OBVIOUS
    <3>3. Len(seen[e]) + (i + 1) = Len(more) + i
      BY <1>4, <3>1, <3>2
    <3>4. queue[e][i + 1] = Len(seen[e]) + (i + 1)
      BY <3>1 DEF NoteInv, CameInOrder
    <3> QED  BY <1>3, <3>1, <3>3, <3>4
  <2> QED  BY <1>5, <2>2, <2>3 DEF CameInOrder
<1>8. \A x \in Ends : CameInOrder(x)' /\ Came(x)' = Came(x)
  BY <1>5, <1>6, <1>7 DEF NoteInv, CameInOrder, Came
<1>9. \A x \in Ends : \A lo, hi : InTransit(x, lo, hi) => InTransit(x, lo, hi)'
  BY <1>1 DEF InTransit, NotesComing
<1>10. ASSUME NEW x \in Ends, closed'[x] = "no"
       PROVE  Came(x)' <= sent'[Other(x)] /\ InTransit(x, Came(x) + 1, sent[Other(x)])'
  <2>1. Came(x) <= sent[Other(x)] /\ InTransit(x, Came(x) + 1, sent[Other(x)])
    BY <1>1, <1>10 DEF NoteInv
  <2> QED  BY <1>1, <1>8, <2>1 DEF InTransit, NotesComing
<1> QED  BY <1>8, <1>10 DEF NoteInv

\* The read loop takes the first frame off the stream.
LEMMA NotesRead ==
  ASSUME TypeOK, NoteInv, NEW e \in Ends, Read(e) PROVE NoteInv'
<1> DEFINE h == Head(wire[e])
           n == Came(e) + 1
           s == sent[Other(e)]
           W == NotesComing(e)
<1>1. /\ \A x \in Ends \ {e} : wire'[x] = wire[x]
      /\ Len(wire[e]) \in Nat \ {0} /\ Len(wire'[e]) = Len(wire[e]) - 1
      /\ \A i \in 1 .. Len(wire'[e]) : wire'[e][i] = wire[e][i + 1]
      /\ h = wire[e][1] /\ h \in Frames
  BY WireRead, TypeParts
<1>2. UNCHANGED <<sent, seen>> /\ \A x \in Ends : closed'[x] = "no" => closed[x] = "no"
  BY DEF Read, Enqueue, Fails, TypeOK, connVars
<1>3. \A i \in NotesComing(e)' : i + 1 \in W /\ i + 1 > 1 /\ wire'[e][i] = wire[e][i + 1]
  BY <1>1 DEF NotesComing
<1>4. \A i \in W : i = 1 \/ (i - 1 \in NotesComing(e)' /\ (i - 1) + 1 = i)
  BY <1>1 DEF NotesComing
<1>5. 1 \in W <=> h.kind = "note"
  BY <1>1 DEF NotesComing
<1> HIDE DEF h
<1>6. W \subseteq Nat /\ n \in Nat /\ s \in Nat /\ \A i \in W : wire[e][i].of \in Nat
  BY NoteTypes
\* The other end is not concerned.
<1>7. ASSUME NEW x \in Ends, x # e, queue'[x] = queue[x]
      PROVE  /\ CameInOrder(x)'
             /\ closed'[x] = "no" => /\ Came(x)' <= sent'[Other(x)]
                                     /\ InTransit(x, Came(x) + 1, sent[Other(x)])'
  <2>1. wire'[x] = wire[x]
    BY <1>1, <1>7
  <2>2. CameInOrder(x)' /\ Came(x)' = Came(x)
    BY <1>2, <1>7 DEF NoteInv, CameInOrder, Came
  <2>3. ASSUME closed'[x] = "no"
        PROVE  Came(x)' <= sent'[Other(x)] /\ InTransit(x, Came(x) + 1, sent[Other(x)])'
    <3>1. Came(x) <= sent[Other(x)] /\ InTransit(x, Came(x) + 1, sent[Other(x)])
      BY <1>2, <2>3 DEF NoteInv
    <3> QED  BY <1>2, <2>1, <2>2, <3>1 DEF InTransit, NotesComing, Other
  <2> QED  BY <2>2, <2>3
\* What remains of the stream is in order.
<1>8. ASSUME closed[e] = "no"
      PROVE  \A i, j \in NotesComing(e)' : i < j => wire'[e][i].of < wire'[e][j].of
  <2> SUFFICES ASSUME NEW i \in NotesComing(e)', NEW j \in NotesComing(e)', i < j
               PROVE  wire'[e][i].of < wire'[e][j].of
    OBVIOUS
  <2>1. i + 1 < j + 1
    BY <1>1 DEF NotesComing
  <2> QED  BY <1>3, <1>8, <2>1 DEF NoteInv, InTransit
<1>9. CASE queue' = queue /\ (closed'[e] = "no" => h.kind # "note")
  <2>1. CameInOrder(e)' /\ Came(e)' = Came(e)
    BY <1>2, <1>9 DEF NoteInv, CameInOrder, Came
  <2>2. ASSUME closed'[e] = "no"
        PROVE  Came(e)' <= sent'[Other(e)] /\ InTransit(e, Came(e) + 1, sent[Other(e)])'
    <3>1. closed[e] = "no" /\ Came(e) <= s /\ InTransit(e, n, s)
      BY <1>2, <2>2 DEF NoteInv
    <3>2. {wire'[e][i].of : i \in NotesComing(e)'} = {wire[e][i].of : i \in W}
      <4>1. ASSUME NEW i \in W PROVE \E j \in NotesComing(e)' : wire'[e][j].of = wire[e][i].of
        <5>1. i - 1 \in NotesComing(e)' /\ (i - 1) + 1 = i
          BY <1>4, <1>5, <1>9, <2>2
        <5> QED  BY <1>3, <5>1
      <4>2. ASSUME NEW j \in NotesComing(e)' PROVE \E i \in W : wire'[e][j].of = wire[e][i].of
        BY <1>3
      <4> QED  BY <4>1, <4>2
    <3> QED  BY <1>2, <1>8, <2>1, <3>1, <3>2 DEF InTransit, Other
  <2> QED  BY <1>7, <1>9, <2>1, <2>2 DEF NoteInv
<1>10. CASE /\ h.kind = "note" /\ closed[e] = "no" /\ closed' = closed
            /\ queue' = [queue EXCEPT ![e] = Append(queue[e], h.of)]
  <2>1. 1 \in W /\ wire[e][1].of = h.of /\ h.of \in Nat
    BY <1>1, <1>5, <1>6, <1>10
  <2>2. Came(e) <= s /\ InTransit(e, n, s)
    BY <1>10 DEF NoteInv
  <2>3. h.of = n /\ n <= s
    <3>1. h.of \in n .. s
      BY <2>1, <2>2 DEF InTransit
    <3>2. n \in n .. s
      BY <1>6, <3>1
    <3>3. PICK i \in W : wire[e][i].of = n
      BY <2>2, <3>2 DEF InTransit
    <3>4. i = 1 \/ 1 < i
      BY <1>1 DEF NotesComing
    <3> QED  BY <1>6, <2>1, <2>2, <3>1, <3>3, <3>4 DEF InTransit
  <2>4. /\ queue'[e] = Append(queue[e], n) /\ queue[e] \in Seq(Nat)
        /\ \A x \in Ends \ {e} : queue'[x] = queue[x]
    BY <1>10, <2>3 DEF TypeOK
  <2>5. /\ Len(queue[e]) \in Nat /\ Len(queue'[e]) = Len(queue[e]) + 1
        /\ \A i \in 1 .. Len(queue[e]) : queue'[e][i] = queue[e][i]
        /\ queue'[e][Len(queue[e]) + 1] = n
    BY <1>6, <2>4
  <2>6. Came(e)' = n /\ Came(e) \in Nat /\ Len(seen[e]) \in Nat
        /\ Len(seen[e]) + (Len(queue[e]) + 1) = n
    <3>1. Came(e) \in Nat /\ Len(seen[e]) \in Nat
      BY NoteTypes
    <3>2. \A k, m \in Nat : k + (m + 1) = (k + m) + 1
      OBVIOUS
    <3>3. Len(seen[e]) + (Len(queue[e]) + 1) = n
      BY <2>5, <3>1, <3>2 DEF Came
    <3>4. Came(e)' = Len(seen[e]) + (Len(queue[e]) + 1)
      BY <1>2, <2>5 DEF Came
    <3> QED  BY <3>1, <3>3, <3>4
  <2>7. CameInOrder(e)'
    <3>1. ASSUME NEW i \in 1 .. Len(queue'[e]) PROVE queue'[e][i] = Len(seen[e]) + i
      <4>1. i \in 1 .. Len(queue[e]) \/ i = Len(queue[e]) + 1
        BY <2>5
      <4>2. CASE i \in 1 .. Len(queue[e])
        BY <2>5, <4>2 DEF NoteInv, CameInOrder
      <4>3. CASE i = Len(queue[e]) + 1
        BY <2>5, <2>6, <4>3
      <4> QED  BY <4>1, <4>2, <4>3
    <3> QED  BY <1>2, <3>1 DEF NoteInv, CameInOrder
  <2>8. {wire'[e][i].of : i \in NotesComing(e)'} = n + 1 .. s
    <3>1. ASSUME NEW j \in NotesComing(e)' PROVE wire'[e][j].of \in n + 1 .. s
      <4>1. /\ j + 1 \in W /\ 1 < j + 1 /\ wire'[e][j] = wire[e][j + 1]
            /\ wire[e][j + 1].of \in n .. s
        BY <1>3, <2>2 DEF InTransit
      <4>2. n < wire[e][j + 1].of
        BY <2>1, <2>2, <2>3, <4>1 DEF InTransit
      <4> QED  BY <1>6, <4>1, <4>2
    <3>2. ASSUME NEW v \in n + 1 .. s PROVE \E j \in NotesComing(e)' : wire'[e][j].of = v
      <4>1. PICK i \in W : wire[e][i].of = v
        BY <1>6, <2>2, <3>2 DEF InTransit
      <4>2. i # 1
        BY <1>6, <2>1, <2>3, <4>1
      <4>3. i - 1 \in NotesComing(e)' /\ (i - 1) + 1 = i
        BY <1>4, <4>2
      <4> QED  BY <1>3, <4>1, <4>3
    <3> QED  BY <3>1, <3>2
  <2>9. Came(e)' <= sent'[Other(e)] /\ InTransit(e, Came(e) + 1, sent[Other(e)])'
    BY <1>2, <1>8, <1>10, <2>3, <2>6, <2>8 DEF InTransit
  <2> QED  BY <1>7, <2>4, <2>7, <2>9 DEF NoteInv
<1>11. \/ queue' = queue /\ (closed'[e] = "no" => h.kind # "note")
       \/ /\ h.kind = "note" /\ closed[e] = "no" /\ closed' = closed
          /\ queue' = [queue EXCEPT ![e] = Append(queue[e], h.of)]
  BY DEF Read, Enqueue, Fails, TypeOK, connVars, h
<1> QED  BY <1>9, <1>10, <1>11

LEMMA NoteStep ==
  ASSUME TypeOK, NoteInv, [Next]_vars PROVE NoteInv'
<1> USE DEF connVars, callVars, noteVars
<1>0. ControlType
  BY TypeParts
<1>1. \A e \in Ends : Fails(e) => \A x \in Ends : closed'[x] = "no" => closed[x] = "no"
  BY <1>0 DEF Fails, ControlType
<1>2. UNCHANGED wire => \A e \in Ends : SameNotes(e)
  BY DEF SameNotes, NotesComing
<1>3. ASSUME NEW r \in Requests,
             Start(r) \/ Return(r) \/ GiveUp(r) \/ HandlerEnds(r) \/ HandlerGone(r)
      PROVE  NoteInv'
  BY <1>2, <1>3, QuietNotes DEF Start, Return, GiveUp, Returns, HandlerEnds, HandlerGone
<1>4. ASSUME NEW r \in Requests, WriteRequestFails(r) \/ WriteAnswerFails(r) PROVE NoteInv'
  BY <1>1, <1>2, <1>4, EndsOfCall, QuietNotes DEF WriteRequestFails, WriteAnswerFails
<1>5. ASSUME NEW r \in Requests, WriteRequest(r) PROVE NoteInv'
  <2>1. \A x \in Ends : SameNotes(x)
    BY <1>5, EndsOfCall, FrameType, FrameShape, OtherFrames DEF WriteRequest
  <2> QED  BY <1>5, <2>1, QuietNotes DEF WriteRequest
<1>6. ASSUME NEW r \in Requests, WriteAnswer(r) PROVE NoteInv'
  <2>1. \A x \in Ends : SameNotes(x)
    BY <1>6, EndsOfCall, FrameType, FrameShape, OtherFrames DEF WriteAnswer
  <2> QED  BY <1>6, <2>1, QuietNotes DEF WriteAnswer
<1>7. ASSUME NEW e \in Ends, Refuse(e) PROVE NoteInv'
  <2>1. refused[e] \in Requests
    BY <1>0, <1>7 DEF Refuse, ControlType
  <2>2. \A x \in Ends : SameNotes(x)
    BY <1>7, <2>1, FrameType, FrameShape, OtherFrames DEF Refuse
  <2> QED  BY <1>7, <2>2, QuietNotes DEF Refuse
<1>8. ASSUME NEW e \in Ends, RefuseFails(e) \/ NotifyFails(e) PROVE NoteInv'
  BY <1>1, <1>2, <1>8, QuietNotes DEF RefuseFails, NotifyFails
<1>9. ASSUME NEW e \in Ends,
             LoopGoesOn(e) \/ Eof(e) \/ Drained(e) \/ ServeReturns(e) \/ Shutdown(e)
      PROVE  NoteInv'
  <2>1. \A x \in Ends : closed'[x] = "no" => closed[x] = "no"
    BY <1>0, <1>9 DEF LoopGoesOn, Eof, Drained, ServeReturns, Shutdown, ControlType
  <2> QED
    BY <1>2, <1>9, <2>1, QuietNotes DEF LoopGoesOn, Eof, Drained, ServeReturns, Shutdown
<1>10. CASE CloseStream \/ UNCHANGED vars
  BY <1>2, <1>10, QuietNotes DEF CloseStream, vars
<1> QED
  BY <1>3, <1>4, <1>5, <1>6, <1>7, <1>8, <1>9, <1>10, NotesNotify, NotesHandle, NotesRead
  DEF Next, CallStep, HandlerStep, LoopStep

\* Notifications are handled in the order they were written, and none is lost
\* while the connection stands, for every length of the queue and of the stream.
THEOREM NotificationsInOrder == Spec => []NotesInOrder
<1>1. Init => NoteInv
  <2> SUFFICES ASSUME Init, NEW e \in Ends
               PROVE  CameInOrder(e) /\ Came(e) = 0 /\ sent[Other(e)] = 0 /\ InTransit(e, 1, 0)
    BY DEF NoteInv
  <2>1. seen[e] = <<>> /\ queue[e] = <<>> /\ wire[e] = <<>> /\ sent[Other(e)] = 0
    BY TwoEnds DEF Init
  <2>2. NotesComing(e) = {}
    BY <2>1 DEF NotesComing
  <2> QED  BY <2>1, <2>2 DEF CameInOrder, Came, InTransit
<1>2. NoteInv => NotesInOrder
  BY DEF NoteInv, NotesInOrder, CameInOrder, Came, InTransit
<1> QED  BY TypeCorrect, NoteStep, <1>1, <1>2, PTL DEF Spec

-----------------------------------------------------------------------------
(* No request is lost *)

\* Where the request of a call, or its answer, can be.
Accounted(r) ==
  \/ Coming(At(r), Frame("request", r))
  \/ refused[At(r)] = r
  \/ handler[r] \in {"run", "answer"}
  \/ \E k \in {"ok", "busy"} : Coming(From[r], Frame(k, r))

Stands(r) == ~broken /\ closed[From[r]] = "no" /\ closed[At(r)] = "no"

Waits(r) == call[r] = "wait" /\ r \in pending

LostInv == \A r \in Requests : Stands(r) /\ Waits(r) => Accounted(r)

LEMMA StaysDown ==
  ASSUME TypeOK, [Next]_vars
  PROVE  /\ broken => broken'
         /\ \A e \in Ends : closed'[e] = "no" => closed[e] = "no"
<1> USE DEF connVars, callVars, noteVars
<1>0. ControlType
  BY TypeParts
<1>1. \A e \in Ends : Fails(e) => \A x \in Ends : closed'[x] = "no" => closed[x] = "no"
  BY <1>0 DEF Fails, ControlType
<1>2. ASSUME NEW r \in Requests, Start(r) \/ GiveUp(r) \/ CallStep(r) \/ HandlerStep(r)
      PROVE  /\ broken' = broken
             /\ \A e \in Ends : closed'[e] = "no" => closed[e] = "no"
  BY <1>1, <1>2, EndsOfCall
  DEF Start, GiveUp, CallStep, HandlerStep, WriteRequest, WriteRequestFails, Return, Returns,
      HandlerEnds, WriteAnswer, WriteAnswerFails, HandlerGone
<1>3. ASSUME NEW e \in Ends, LoopStep(e)
      PROVE  /\ broken' = broken
             /\ \A x \in Ends : closed'[x] = "no" => closed[x] = "no"
  BY <1>0, <1>1, <1>3
  DEF LoopStep, Read, Enqueue, Refuse, RefuseFails, LoopGoesOn, Eof, Drained, ServeReturns,
      ControlType
<1>4. ASSUME NEW e \in Ends, Shutdown(e) \/ HandleNote(e) \/ Notify(e) \/ NotifyFails(e)
      PROVE  /\ broken => broken'
             /\ \A x \in Ends : closed'[x] = "no" => closed[x] = "no"
  BY <1>0, <1>1, <1>4 DEF Shutdown, HandleNote, Notify, NotifyFails, ControlType
<1>5. CASE CloseStream \/ UNCHANGED vars
  BY <1>5 DEF CloseStream, vars
<1> QED  BY <1>2, <1>3, <1>4, <1>5 DEF Next

LEMMA LostStep ==
  ASSUME TypeOK, LifeInv, LostInv, [Next]_vars PROVE LostInv'
<1> USE DEF connVars, callVars, noteVars
<1>0. ControlType /\ WireType
  BY TypeParts
<1> SUFFICES ASSUME NEW r \in Requests, Stands(r)', Waits(r)' PROVE Accounted(r)'
  BY DEF LostInv
<1>1. /\ At(r)' = At(r) /\ From[r]' = From[r]
      /\ At(r) \in Ends /\ From[r] \in Ends /\ r # NoRequest
  BY EndsOfCall, ConnAssumption DEF At, Other
<1>2. Stands(r) /\ ~broken'
  BY <1>1, StaysDown DEF Stands
\* A step after which the request or its answer is still where it was.
<1>3. ASSUME Waits(r), UNCHANGED wire, refused[At(r)] = r => refused'[At(r)] = r,
             handler[r] \in {"run", "answer"} => handler'[r] \in {"run", "answer"}
      PROVE  Accounted(r)'
  <2>1. \A e, f : Coming(e, f)' <=> Coming(e, f)
    BY <1>3 DEF Coming
  <2> QED  BY <1>1, <1>2, <1>3, <2>1 DEF LostInv, Accounted
<1>4. ASSUME Waits(r), NEW e \in Ends, NEW f \in Frames, Writes(e, f),
             refused[At(r)] = r => refused'[At(r)] = r,
             handler[r] \in {"run", "answer"} => handler'[r] \in {"run", "answer"}
      PROVE  Accounted(r)'
  <2>1. \A x \in Ends : \A g : Coming(x, g) => Coming(x, g)'
    BY <1>0, <1>4, ComingWritten
  <2> QED  BY <1>1, <1>2, <1>4, <2>1 DEF LostInv, Accounted
<1>5. ASSUME NEW q \in Requests, Start(q) \/ Return(q) \/ GiveUp(q) PROVE Accounted(r)'
  <2>1. Waits(r) /\ UNCHANGED <<wire, refused, handler>>
    BY <1>0, <1>5 DEF Start, Return, GiveUp, Returns, Waits, ControlType
  <2> QED  BY <1>3, <2>1
<1>6. ASSUME NEW q \in Requests, WriteRequest(q) PROVE Accounted(r)'
  <2>1. /\ Writes(From[q], Frame("request", q)) /\ Frame("request", q) \in Frames
        /\ From[q] \in Ends /\ Other(From[q]) = At(q) /\ UNCHANGED <<refused, handler>>
    BY <1>6, FrameType, EndsOfCall DEF WriteRequest
  <2>2. CASE r = q
    <3>1. Coming(At(r), Frame("request", r))'
      BY <1>0, <1>1, <2>1, <2>2, ComingWritten
    <3> QED  BY <1>1, <3>1 DEF Accounted
  <2>3. CASE r # q
    <3>1. Waits(r)
      BY <1>0, <1>6, <2>3 DEF WriteRequest, Waits, ControlType
    <3> QED  BY <1>4, <2>1, <3>1
  <2> QED  BY <2>2, <2>3
<1>7. ASSUME NEW q \in Requests, NEW k \in {"ok", "busy"},
             Writes(At(q), Frame(k, q)), UNCHANGED callVars,
             r # q /\ refused[At(r)] = r => refused'[At(r)] = r,
             r # q => handler'[r] = handler[r]
      PROVE  Accounted(r)'
  <2>1. /\ Frame(k, q) \in Frames /\ At(q) \in Ends /\ Other(At(q)) = From[q]
        /\ Waits(r)
    BY <1>7, FrameType, EndsOfCall DEF Waits
  <2>2. CASE r = q
    <3>1. Coming(From[r], Frame(k, r))'
      BY <1>0, <1>1, <1>7, <2>1, <2>2, ComingWritten
    <3> QED  BY <1>1, <3>1 DEF Accounted
  <2> QED  BY <1>4, <1>7, <2>1, <2>2
<1>8. ASSUME NEW e \in Ends, Refuse(e) PROVE Accounted(r)'
  <2>1. PICK q \in Requests : q = refused[e]
    BY <1>0, <1>8 DEF Refuse, ControlType
  <2>2. e = At(q)
    BY <2>1 DEF LifeInv, LifeOf
  <2>3. /\ Writes(At(q), Frame("busy", q)) /\ UNCHANGED <<handler, callVars>>
        /\ refused' = [refused EXCEPT ![e] = NoRequest]
    BY <1>8, <2>1, <2>2 DEF Refuse
  <2>4. r # q /\ refused[At(r)] = r => refused'[At(r)] = r
    BY <1>0, <2>1, <2>3 DEF ControlType
  <2> QED  BY <1>7, <2>3, <2>4
<1>9. ASSUME NEW q \in Requests, WriteAnswer(q) PROVE Accounted(r)'
  <2>1. /\ Writes(At(q), Frame("ok", q)) /\ UNCHANGED <<refused, callVars>>
        /\ r # q => handler'[r] = handler[r]
    BY <1>0, <1>9 DEF WriteAnswer, ControlType
  <2> QED  BY <1>7, <2>1
<1>10. ASSUME NEW q \in Requests,
              WriteRequestFails(q) \/ WriteAnswerFails(q)
              \/ \E e \in Ends : RefuseFails(e) \/ NotifyFails(e) \/ Eof(e)
       PROVE  Accounted(r)'
  BY <1>2, <1>10
  DEF WriteRequestFails, WriteAnswerFails, RefuseFails, NotifyFails, Eof
<1>11. ASSUME NEW e \in Ends, LoopGoesOn(e) \/ Drained(e) \/ ServeReturns(e) \/ HandleNote(e)
       PROVE  Accounted(r)'
  BY <1>3, <1>11 DEF LoopGoesOn, Drained, ServeReturns, HandleNote, Waits
<1>12. ASSUME NEW e \in Ends, Shutdown(e) PROVE Accounted(r)'
  <2>1. Waits(r) /\ UNCHANGED <<wire, refused, handler>>
    BY <1>12 DEF Shutdown, Waits
  <2> QED  BY <1>3, <2>1
<1>13. ASSUME NEW q \in Requests, HandlerEnds(q) \/ HandlerGone(q) PROVE Accounted(r)'
  <2>1. UNCHANGED <<wire, refused, callVars>>
    BY <1>13 DEF HandlerEnds, HandlerGone
  <2>2. handler[r] \in {"run", "answer"} => handler'[r] \in {"run", "answer"}
    BY <1>0, <1>13 DEF HandlerEnds, HandlerGone, ControlType
  <2> QED  BY <1>3, <2>1, <2>2 DEF Waits
<1>14. ASSUME NEW e \in Ends, Notify(e) PROVE Accounted(r)'
  <2>1. /\ Writes(e, Frame("note", sent[e] + 1)) /\ UNCHANGED <<refused, handler, callVars>>
        /\ Frame("note", sent[e] + 1) \in Frames
    BY <1>14, FrameType DEF Notify, TypeOK
  <2> QED  BY <1>4, <2>1 DEF Waits
<1>15. CASE CloseStream \/ UNCHANGED vars
  BY <1>3, <1>15 DEF CloseStream, vars, Waits
\* The read loop hands on what it takes off the stream.
<1>16. ASSUME NEW e \in Ends, Read(e) PROVE Accounted(r)'
  <2> DEFINE h == Head(wire[e])
  <2>1. /\ \A x \in Ends : \A g : Coming(x, g) => Coming(x, g)' \/ (x = e /\ g = h)
        /\ Coming(e, h) /\ h \in Frames
    BY <1>0, <1>16, ComingRead, WireRead
  <2>2. Waits(r) /\ refused[e] = NoRequest
    BY <1>0, <1>16 DEF Read, Resolve, Waits, ControlType
  <2>3. Accounted(r)
    BY <1>2, <2>2 DEF LostInv
  <2> HIDE DEF h
  <2>4. \/ closed[e] # "no" /\ UNCHANGED <<refused, pending, handler>>
        \/ h.kind = "request" /\ Admit(e, h.of)
        \/ h.kind = "note" /\ UNCHANGED <<refused, handler>>
        \/ h.kind \in {"ok", "busy"} /\ Resolve(e, h) /\ UNCHANGED <<refused, handler>>
    BY <1>16 DEF Read, h
  <2>5. /\ refused[At(r)] = r => refused'[At(r)] = r
        /\ handler[r] \in {"run", "answer"} => handler'[r] \in {"run", "answer"}
    BY <1>0, <1>1, <2>2, <2>4 DEF Admit, ControlType
  <2>6. CASE h = Frame("request", r)
    <3>1. e = At(r) /\ h.kind = "request" /\ h.of = r
      BY <2>1, <2>6, FrameShape DEF LifeInv, LifeOf
    <3>2. handler'[r] = "run" \/ refused'[At(r)] = r
      BY <1>0, <1>1, <1>2, <2>4, <3>1 DEF Admit, Stands, ControlType
    <3> QED  BY <1>1, <3>2 DEF Accounted
  <2>7. CASE \E k \in {"ok", "busy"} : h = Frame(k, r)
    <3>1. e = From[r] /\ h.kind \in {"ok", "busy"} /\ h.of = r
      BY <2>1, <2>7, FrameShape DEF LifeInv, LifeOf
    <3>2. r \notin pending'
      BY <1>2, <2>4, <3>1 DEF Resolve, Stands
    <3> QED  BY <3>2 DEF Waits
  <2>8. CASE h # Frame("request", r) /\ ~\E k \in {"ok", "busy"} : h = Frame(k, r)
    BY <1>1, <2>1, <2>3, <2>5, <2>8 DEF Accounted
  <2> QED  BY <2>6, <2>7, <2>8
<1> QED
  BY <1>5, <1>6, <1>8, <1>9, <1>10, <1>11, <1>12, <1>13, <1>14, <1>15, <1>16
  DEF Next, CallStep, HandlerStep, LoopStep

\* While the connection stands, the request of a waiting caller, or its answer,
\* is on its way or in somebody's hands, however the ends, their slots and their
\* queues interleave.
THEOREM RequestsAccounted == Spec => []NoRequestLost
<1>1. Init => CallerInv /\ LifeInv /\ LostInv
  <2> SUFFICES ASSUME Init PROVE CallerInv /\ LifeInv /\ LostInv
    OBVIOUS
  <2>1. \A e \in Ends : \A f : ~Coming(e, f)
    BY DEF Init, Coming
  <2> QED
    BY <2>1, ConnAssumption DEF Init, CallerInv, LifeInv, WrittenOnce, LifeOf, LostInv, Waits
<1>2. CallerInv /\ LostInv => NoRequestLost
  BY DEF CallerInv, LostInv, NoRequestLost, Accounted, Stands, Waits
<1> QED  BY TypeCorrect, CallerStep, LifeStep, LostStep, <1>1, <1>2, PTL DEF Spec

-----------------------------------------------------------------------------
(* Executed at most once, answered truthfully *)

\* A request that a handler is given was asked for, was never handled, and its
\* caller was not told to try again.
LEMMA HandedOnce ==
  ASSUME TypeOK, LifeInv, NEW e \in Ends, Read(e), NEW r \in Requests, handler'[r] # handler[r]
  PROVE  /\ handler' = [handler EXCEPT ![r] = "run"]
         /\ handler[r] = "none" /\ Asked(r) /\ got[r] # "busy"
<1> DEFINE h == Head(wire[e])
<1>1. Coming(e, h) /\ h \in Frames
  BY ComingRead, WireRead, TypeParts
<1>2. h.kind = "request" /\ Admit(e, h.of) /\ handler' # handler
  BY DEF Read, connVars, h
<1> HIDE DEF h
<1>3. PICK q \in Requests : q = h.of /\ h = Frame("request", q)
  BY <1>1, <1>2, FrameShape
<1>4. handler' = [handler EXCEPT ![q] = "run"]
  BY <1>2, <1>3 DEF Admit
<1>5. r = q
  BY <1>4 DEF TypeOK
<1>6. e = At(r) /\ handler[r] = "none" /\ Asked(r)
  BY <1>1, <1>3, <1>5 DEF LifeInv, LifeOf
<1>7. ~Spent(r)
  BY <1>1, <1>3, <1>5, <1>6 DEF Spent
<1> QED  BY <1>4, <1>5, <1>6, <1>7 DEF LifeInv, LifeOf

\* The abstract state is made of two functions.
CallMap == [r \in Requests |-> CallOf(r)]
WorkMap == [r \in Requests |-> WorkOf(r)]

LEMMA CallsStep ==
  ASSUME TypeOK, LifeInv, [Next]_vars PROVE Calls!Next \/ UNCHANGED <<CallMap, WorkMap, got>>
<1> USE DEF connVars, callVars, noteVars
<1>0. ControlType /\ \A q \in Requests : Parent[q] \in Requests \cup {NoRequest}
  BY TypeParts, ConnAssumption
\* One call moves, or one piece of work.
<1>1. ASSUME NEW r \in Requests, NEW v, call' = [call EXCEPT ![r] = v]
      PROVE  CallMap' = [CallMap EXCEPT ![r] = CallOf(r)']
  BY <1>0, <1>1 DEF CallMap, CallOf, ControlType
<1>2. ASSUME NEW r \in Requests, NEW v, handler' = [handler EXCEPT ![r] = v]
      PROVE  WorkMap' = [WorkMap EXCEPT ![r] = WorkOf(r)']
  BY <1>0, <1>2 DEF WorkMap, WorkOf, ControlType
<1>3. /\ UNCHANGED call => UNCHANGED CallMap
      /\ UNCHANGED handler => UNCHANGED WorkMap
  BY DEF CallMap, WorkMap, CallOf, WorkOf
<1>4. ASSUME NEW r \in Requests, Start(r) PROVE Calls!Next
  <2>1. call[r] = "idle" /\ (Parent[r] # NoRequest => handler[Parent[r]] = "run")
    BY <1>4 DEF Start
  <2>2. Calls!MayAsk(r)
    BY <1>0, <2>1 DEF Calls!MayAsk, CallOf, WorkOf
  <2>3. CASE call' = [call EXCEPT ![r] = "write"] /\ UNCHANGED <<got, handler>>
    <3>1. CallOf(r)' = "asked"
      BY <1>0, <2>3 DEF CallOf, ControlType
    <3> QED  BY <1>1, <1>3, <2>2, <2>3, <3>1 DEF Calls!Next, Calls!Ask, CallMap, WorkMap
  <2>4. CASE /\ call' = [call EXCEPT ![r] = "returned"] /\ UNCHANGED handler
             /\ got' = [got EXCEPT ![r] = "closed"]
    <3>1. CallOf(r)' = "over"
      BY <1>0, <2>4 DEF CallOf, ControlType
    <3>2. "closed" \in Calls!Results
      BY DEF Calls!Results
    <3> QED  BY <1>1, <1>3, <2>2, <2>4, <3>1, <3>2 DEF Calls!Next, Calls!End, CallMap, WorkMap
  <2> QED  BY <1>4, <2>3, <2>4 DEF Start
<1>5. ASSUME NEW r \in Requests, Return(r) \/ GiveUp(r) PROVE Calls!Next
  <2>1. PICK v \in Results : Returns(r, v) /\ v \in {chan[r], "cancelled", "error"}
    BY <1>0, <1>5 DEF Return, GiveUp, ControlType, Results
  <2>2. call[r] \in {"wait", "fail"}
    BY <1>5 DEF Return, GiveUp
  <2>3. (v = "ok" => handler[r] = "done") /\ (v = "busy" => handler[r] = "none")
    BY <2>1 DEF LifeInv, LifeOf, Spent
  <2>4. CallOf(r) = "asked" /\ (v = "ok" => WorkOf(r) = "done") /\ (v = "busy" => WorkOf(r) = "no")
    BY <2>2, <2>3 DEF CallOf, WorkOf
  <2>5. /\ call' = [call EXCEPT ![r] = "returned"] /\ UNCHANGED handler
        /\ got' = [got EXCEPT ![r] = v] /\ v \in Calls!Results
    BY <2>1 DEF Returns, Calls!Results, Results
  <2>6. CallOf(r)' = "over"
    BY <1>0, <2>5 DEF CallOf, ControlType
  <2> QED  BY <1>1, <1>3, <2>4, <2>5, <2>6 DEF Calls!Next, Calls!End, CallMap, WorkMap
<1>6. ASSUME NEW r \in Requests, WriteRequest(r) \/ WriteRequestFails(r)
      PROVE  UNCHANGED <<CallMap, WorkMap, got>>
  <2>1. /\ call[r] = "write" /\ UNCHANGED <<handler, got>>
        /\ \E v \in {"wait", "fail"} : call' = [call EXCEPT ![r] = v]
    BY <1>6 DEF WriteRequest, WriteRequestFails
  <2>2. \A q \in Requests : CallOf(q)' = CallOf(q)
    BY <1>0, <2>1 DEF CallOf, ControlType
  <2> QED  BY <1>3, <2>1, <2>2 DEF CallMap
<1>7. ASSUME NEW r \in Requests, HandlerEnds(r) PROVE Calls!Next
  <2>1. /\ handler[r] = "run" /\ handler' = [handler EXCEPT ![r] = "answer"]
        /\ \A q \in Requests : Parent[q] = r => call[q] \in {"idle", "returned"}
        /\ UNCHANGED callVars
    BY <1>7 DEF HandlerEnds
  <2>2. WorkOf(r)' = "done" /\ WorkOf(r) = "running"
    BY <1>0, <2>1 DEF WorkOf, ControlType
  <2>3. \A q \in Requests : Parent[q] = r => CallOf(q) # "asked"
    BY <2>1 DEF CallOf
  <2>4. WorkMap' = [WorkMap EXCEPT ![r] = "done"] /\ UNCHANGED <<CallMap, got>>
    BY <1>2, <1>3, <2>1, <2>2
  <2>5. Calls!Finish(r)
    BY <2>2, <2>3, <2>4 DEF Calls!Finish, CallMap, WorkMap
  <2> QED  BY <2>5 DEF Calls!Next
<1>8. ASSUME NEW r \in Requests, WriteAnswer(r) \/ WriteAnswerFails(r) \/ HandlerGone(r)
      PROVE  UNCHANGED <<CallMap, WorkMap, got>>
  <2>1. /\ handler[r] \in {"answer", "fail"} /\ UNCHANGED callVars
        /\ \E v \in {"done", "fail"} : handler' = [handler EXCEPT ![r] = v]
    BY <1>8 DEF WriteAnswer, WriteAnswerFails, HandlerGone
  <2>2. \A q \in Requests : WorkOf(q)' = WorkOf(q)
    BY <1>0, <2>1 DEF WorkOf, ControlType
  <2> QED  BY <1>3, <2>1, <2>2 DEF WorkMap
<1>9. ASSUME NEW e \in Ends, Read(e) PROVE Calls!Next \/ UNCHANGED <<CallMap, WorkMap, got>>
  <2>1. UNCHANGED <<call, got>>
    BY <1>9 DEF Read
  <2>2. CASE \A r \in Requests : handler'[r] = handler[r]
    BY <1>3, <2>1, <2>2 DEF WorkMap, WorkOf
  <2>3. ASSUME NEW r \in Requests, handler'[r] # handler[r] PROVE Calls!Next
    <3>1. /\ handler' = [handler EXCEPT ![r] = "run"]
          /\ handler[r] = "none" /\ Asked(r) /\ got[r] # "busy"
      BY <1>9, <2>3, HandedOnce
    <3>2. WorkOf(r)' = "running" /\ WorkOf(r) = "no" /\ CallOf(r) # "idle"
      BY <1>0, <3>1 DEF WorkOf, CallOf, Asked, ControlType
    <3> QED  BY <1>2, <1>3, <2>1, <3>1, <3>2 DEF Calls!Next, Calls!Execute, CallMap, WorkMap
  <2> QED  BY <2>2, <2>3
<1>10. ASSUME NEW e \in Ends,
              \/ Refuse(e) \/ RefuseFails(e) \/ LoopGoesOn(e) \/ Eof(e) \/ Drained(e)
              \/ ServeReturns(e) \/ Shutdown(e) \/ HandleNote(e) \/ Notify(e) \/ NotifyFails(e)
       PROVE  UNCHANGED <<CallMap, WorkMap, got>>
  <2>1. UNCHANGED <<call, got, handler>>
    BY <1>10 DEF Refuse, RefuseFails, LoopGoesOn, Eof, Drained, ServeReturns, Shutdown,
         HandleNote, Notify, NotifyFails
  <2> QED  BY <1>3, <2>1
<1>11. CASE CloseStream \/ UNCHANGED vars
  BY <1>3, <1>11 DEF CloseStream, vars
<1> QED
  BY <1>4, <1>5, <1>6, <1>7, <1>8, <1>9, <1>10, <1>11 DEF Next, CallStep, HandlerStep, LoopStep

\* The connection implements remote calls: each is executed at most once, also
\* when its caller has given up, and what the caller is told of it is true,
\* for all calls, handlers that call back, and sizes of queues and streams.
THEOREM ConnImplementsCalls == Spec => ImplementsCalls
<1>1. Init => Calls!Init
  BY DEF Init, Calls!Init, CallOf, WorkOf
<1>2. TypeOK /\ LifeInv /\ [Next]_vars => [Calls!Next]_(Calls!vars)
  BY CallsStep DEF Calls!vars, CallMap, WorkMap
<1> QED  BY TypeCorrect, LifeHolds, <1>1, <1>2, PTL DEF Spec, ImplementsCalls, Calls!Spec
=============================================================================
