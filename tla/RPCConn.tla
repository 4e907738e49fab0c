------------------------------- MODULE RPCConn -------------------------------
(***************************************************************************)
(* Two ends of a JSON-RPC connection (internal/rpcwire/conn.go), each of   *)
(* them client and server: Request, Notify, the read loop of Serve, the    *)
(* handlers with their slots, the queue of notifications, fail and         *)
(* shutdown.                                                               *)
(*                                                                         *)
(* The stream between them is bounded in both directions, so a write waits *)
(* for the other end to read.  Closing it at one end ends it for both.     *)
(***************************************************************************)
EXTENDS Integers, FiniteSets, Sequences

CONSTANTS
  Ends,       \* the two ends
  Requests,   \* calls of Request, each made once
  From,       \* the end that makes a call
  Parent,     \* the call whose handler makes it, or NoRequest
  NoRequest,
  Impatient,  \* calls whose caller may give up
  Slots,      \* MaxConcurrentHandlers of an end
  QueueSize,  \* MaxQueuedNotifications
  PipeSize,   \* frames the stream holds in one direction
  MaxNotes    \* bound: notifications of an end

Other(e) == CHOOSE x \in Ends : x # e
At(r) == Other(From[r])   \* the end that handles a call

ASSUME ConnAssumption ==
  /\ IsFiniteSet(Ends) /\ Cardinality(Ends) = 2 /\ From \in [Requests -> Ends]
  /\ Parent \in [Requests -> Requests \cup {NoRequest}] /\ NoRequest \notin Requests
  /\ Impatient \subseteq {r \in Requests : Parent[r] = NoRequest}
  /\ \A r \in Requests : Parent[r] # NoRequest => From[r] = At(Parent[r])
  /\ Slots \in [Ends -> Nat \ {0}] /\ MaxNotes \in [Ends -> Nat]
  /\ QueueSize \in Nat \ {0} /\ PipeSize \in Nat \ {0}

VARIABLES
  broken,     \* the stream is closed, at either end
  wire,       \* frames on their way to an end
  closed,     \* where shutdown of an end is: "no", "failing", "ending", "yes"
  loop,       \* where Serve is
  refused,    \* the request the read loop answers itself
  call,       \* where a call of Request is
  pending,    \* calls that are registered
  chan,       \* what is in the channel of a call
  got,        \* what a call returned
  handler,    \* where the handler of a call is
  queue,      \* notifyQueue
  sent, seen  \* notifications written by an end, and handled at it

connVars == <<closed, loop, refused>>
callVars == <<call, pending, chan, got>>
noteVars == <<queue, sent, seen>>
vars == <<broken, wire, connVars, callVars, handler, noteVars>>

Results == {"ok", "busy", "closed", "cancelled", "error"}

\* What the stream carries: notifications, which an end numbers, requests and
\* their answers.
Frames ==
  [kind : {"note"}, of : Nat] \cup [kind : {"request", "ok", "busy"}, of : Requests]

TypeOK ==
  /\ broken \in BOOLEAN
  /\ wire \in [Ends -> Seq(Frames)]
  /\ closed \in [Ends -> {"no", "failing", "ending", "yes"}]
  /\ loop \in [Ends -> {"read", "refuse", "fail", "drain", "stop", "returned"}]
  /\ refused \in [Ends -> Requests \cup {NoRequest}]
  /\ pending \subseteq Requests
  /\ call \in [Requests -> {"idle", "write", "fail", "wait", "returned"}]
  /\ chan \in [Requests -> Results \cup {"none"}]
  /\ got \in [Requests -> Results \cup {"none"}]
  /\ handler \in [Requests -> {"none", "run", "answer", "fail", "done"}]
  /\ queue \in [Ends -> Seq(Nat)] /\ seen \in [Ends -> Seq(Nat)]
  /\ sent \in [Ends -> Nat]
  /\ \A e \in Ends :
       /\ loop[e] = "refuse" <=> refused[e] # NoRequest
       /\ Len(wire[e]) <= PipeSize /\ Len(queue[e]) <= QueueSize /\ sent[e] <= MaxNotes[e]

Init ==
  /\ broken = FALSE
  /\ wire = [e \in Ends |-> <<>>]
  /\ closed = [e \in Ends |-> "no"]
  /\ loop = [e \in Ends |-> "read"]
  /\ refused = [e \in Ends |-> NoRequest]
  /\ call = [r \in Requests |-> "idle"] /\ pending = {}
  /\ chan = [r \in Requests |-> "none"] /\ got = [r \in Requests |-> "none"]
  /\ handler = [r \in Requests |-> "none"]
  /\ queue = [e \in Ends |-> <<>>]
  /\ sent = [e \in Ends |-> 0] /\ seen = [e \in Ends |-> <<>>]

-----------------------------------------------------------------------------
(* The stream *)

Frame(k, x) == [kind |-> k, of |-> x]

\* write: all of a frame, once there is room.
Writes(e, frame) ==
  /\ ~broken /\ Len(wire[Other(e)]) < PipeSize
  /\ wire' = [wire EXCEPT ![Other(e)] = Append(@, frame)]

\* The first step of fail.  The goroutine waits for shutdown to be over.
Fails(e) == closed' = [closed EXCEPT ![e] = IF @ = "no" THEN "failing" ELSE @]

\* The owner of an end closes the stream, or the network breaks it.
CloseStream ==
  /\ ~broken
  /\ broken' = TRUE
  /\ UNCHANGED <<wire, connVars, callVars, handler, noteVars>>

-----------------------------------------------------------------------------
(* Request *)

\* Registered, unless the connection is closed, under one hold of pmu.
Start(r) ==
  /\ call[r] = "idle"
  /\ Parent[r] # NoRequest => handler[Parent[r]] = "run"
  /\ IF closed[From[r]] = "no"
       THEN /\ call' = [call EXCEPT ![r] = "write"]
            /\ pending' = pending \cup {r}
            /\ UNCHANGED got
       ELSE /\ call' = [call EXCEPT ![r] = "returned"]
            /\ got' = [got EXCEPT ![r] = "closed"]
            /\ UNCHANGED pending
  /\ UNCHANGED <<broken, wire, connVars, chan, handler, noteVars>>

WriteRequest(r) ==
  /\ call[r] = "write"
  /\ Writes(From[r], Frame("request", r))
  /\ call' = [call EXCEPT ![r] = "wait"]
  /\ UNCHANGED <<broken, connVars, pending, chan, got, handler, noteVars>>

WriteRequestFails(r) ==
  /\ call[r] = "write" /\ broken
  /\ Fails(From[r])
  /\ call' = [call EXCEPT ![r] = "fail"]
  /\ UNCHANGED <<broken, wire, loop, refused, pending, chan, got, handler, noteVars>>

\* Mutant of ContextDone: Serve does not cancel before it waits.
ContextOfCaller(r) == FALSE

\* A handler calls with the context of Serve, which ends with the read loop.
ContextDone(r) ==
  Parent[r] # NoRequest /\ loop[From[r]] \in {"drain", "stop", "returned"}

Returns(r, v) ==
  /\ call' = [call EXCEPT ![r] = "returned"]
  /\ got' = [got EXCEPT ![r] = v]
  /\ pending' = pending \ {r}
  /\ chan' = [chan EXCEPT ![r] = "none"]
  /\ UNCHANGED <<broken, wire, connVars, handler, noteVars>>

Return(r) ==
  \/ call[r] = "wait" /\ chan[r] # "none" /\ Returns(r, chan[r])
  \/ call[r] = "wait" /\ ContextDone(r) /\ Returns(r, "cancelled")
  \/ call[r] = "fail" /\ closed[From[r]] = "yes" /\ Returns(r, "error")

\* The context of a caller of its own is done.
GiveUp(r) == call[r] = "wait" /\ r \in Impatient /\ Returns(r, "cancelled")

-----------------------------------------------------------------------------
(* The read loop *)

Serving(e) == {r \in Requests : At(r) = e /\ handler[r] \in {"run", "answer", "fail"}}

\* resolve: the answer of a call that is no longer registered is dropped.  A
\* channel has room for one result; a second send would block the loop.
Resolve(e, frame) ==
  IF frame.of \notin pending THEN UNCHANGED <<pending, chan>>
  ELSE /\ chan[frame.of] = "none"
       /\ pending' = pending \ {frame.of}
       /\ chan' = [chan EXCEPT ![frame.of] = frame.kind]

\* Mutant of Enqueue: a notification that finds the queue full is lost.
EnqueueOrDrop(e, n) ==
  IF Len(queue[e]) < QueueSize
    THEN queue' = [queue EXCEPT ![e] = Append(@, n)] /\ UNCHANGED <<closed, loop>>
    ELSE UNCHANGED <<queue, closed, loop>>

\* A full queue fails the connection.
Enqueue(e, n) ==
  IF Len(queue[e]) < QueueSize
    THEN queue' = [queue EXCEPT ![e] = Append(@, n)] /\ UNCHANGED <<closed, loop>>
    ELSE Fails(e) /\ loop' = [loop EXCEPT ![e] = "fail"] /\ UNCHANGED queue

\* A request gets a slot and a goroutine, or the loop itself refuses it.
Admit(e, r) ==
  IF Cardinality(Serving(e)) < Slots[e]
    THEN handler' = [handler EXCEPT ![r] = "run"] /\ UNCHANGED <<loop, refused>>
    ELSE /\ loop' = [loop EXCEPT ![e] = "refuse"]
         /\ refused' = [refused EXCEPT ![e] = r]
         /\ UNCHANGED handler

\* readLine and dispatch, which ignores what comes after the close.
Read(e) ==
  /\ loop[e] = "read" /\ wire[e] # <<>>
  /\ wire' = [wire EXCEPT ![e] = Tail(@)]
  /\ LET frame == Head(wire[e]) IN
     \/ /\ closed[e] # "no"
        /\ UNCHANGED <<connVars, pending, chan, handler, queue>>
     \/ /\ closed[e] = "no" /\ frame.kind = "request"
        /\ Admit(e, frame.of)
        /\ UNCHANGED <<closed, pending, chan, queue>>
     \/ /\ closed[e] = "no" /\ frame.kind = "note"
        /\ Enqueue(e, frame.of)
        /\ UNCHANGED <<refused, pending, chan, handler>>
     \/ /\ closed[e] = "no" /\ frame.kind \in {"ok", "busy"}
        /\ Resolve(e, frame)
        /\ UNCHANGED <<connVars, handler, queue>>
  /\ UNCHANGED <<broken, call, got, sent, seen>>

\* respondError in the read loop, which reads nothing until it is written.
Refuse(e) ==
  /\ loop[e] = "refuse"
  /\ Writes(e, Frame("busy", refused[e]))
  /\ loop' = [loop EXCEPT ![e] = "read"]
  /\ refused' = [refused EXCEPT ![e] = NoRequest]
  /\ UNCHANGED <<broken, closed, callVars, handler, noteVars>>

RefuseFails(e) ==
  /\ loop[e] = "refuse" /\ broken
  /\ Fails(e)
  /\ loop' = [loop EXCEPT ![e] = "fail"]
  /\ refused' = [refused EXCEPT ![e] = NoRequest]
  /\ UNCHANGED <<broken, wire, callVars, handler, noteVars>>

LoopGoesOn(e) ==
  /\ loop[e] = "fail" /\ closed[e] = "yes"
  /\ loop' = [loop EXCEPT ![e] = "read"]
  /\ UNCHANGED <<broken, wire, closed, refused, callVars, handler, noteVars>>

\* The loop ends; its context is cancelled and notifyQueue closed.  What the
\* stream still held may be lost.
Eof(e) ==
  /\ loop[e] = "read" /\ broken
  /\ loop' = [loop EXCEPT ![e] = "drain"]
  /\ UNCHANGED <<broken, wire, closed, refused, callVars, handler, noteVars>>

\* wg.Wait is over, and Serve shuts the connection down.
Drained(e) ==
  /\ loop[e] = "drain" /\ Serving(e) = {} /\ queue[e] = <<>>
  /\ loop' = [loop EXCEPT ![e] = "stop"]
  /\ closed' = [closed EXCEPT ![e] = IF @ = "no" THEN "ending" ELSE @]
  /\ UNCHANGED <<broken, wire, refused, callVars, handler, noteVars>>

ServeReturns(e) ==
  /\ loop[e] = "stop" /\ closed[e] = "yes"
  /\ loop' = [loop EXCEPT ![e] = "returned"]
  /\ UNCHANGED <<broken, wire, closed, refused, callVars, handler, noteVars>>

\* Mutant of Shutdown: only the flag is set.
ShutdownOnlyFlags(e) ==
  /\ closed[e] \in {"failing", "ending"}
  /\ closed' = [closed EXCEPT ![e] = "yes"]
  /\ broken' = (broken \/ closed[e] = "failing")
  /\ UNCHANGED <<wire, loop, refused, callVars, handler, noteVars>>

\* shutdown after close(c.closed): every registered call gets an error; fail
\* then closes the stream.
Shutdown(e) ==
  LET mine == {r \in pending : From[r] = e} IN
  /\ closed[e] \in {"failing", "ending"}
  /\ \A r \in mine : chan[r] = "none"
  /\ closed' = [closed EXCEPT ![e] = "yes"]
  /\ broken' = (broken \/ closed[e] = "failing")
  /\ pending' = pending \ mine
  /\ chan' = [r \in Requests |-> IF r \in mine THEN "closed" ELSE chan[r]]
  /\ UNCHANGED <<wire, loop, refused, call, got, handler, noteVars>>

-----------------------------------------------------------------------------
(* Handlers and notifications *)

\* A handler returns when the calls it made have.
HandlerEnds(r) ==
  /\ handler[r] = "run"
  /\ \A q \in Requests : Parent[q] = r => call[q] \in {"idle", "returned"}
  /\ handler' = [handler EXCEPT ![r] = "answer"]
  /\ UNCHANGED <<broken, wire, connVars, callVars, noteVars>>

WriteAnswer(r) ==
  /\ handler[r] = "answer"
  /\ Writes(At(r), Frame("ok", r))
  /\ handler' = [handler EXCEPT ![r] = "done"]
  /\ UNCHANGED <<broken, connVars, callVars, noteVars>>

WriteAnswerFails(r) ==
  /\ handler[r] = "answer" /\ broken
  /\ Fails(At(r))
  /\ handler' = [handler EXCEPT ![r] = "fail"]
  /\ UNCHANGED <<broken, wire, loop, refused, callVars, noteVars>>

HandlerGone(r) ==
  /\ handler[r] = "fail" /\ closed[At(r)] = "yes"
  /\ handler' = [handler EXCEPT ![r] = "done"]
  /\ UNCHANGED <<broken, wire, connVars, callVars, noteVars>>

Notify(e) ==
  /\ sent[e] < MaxNotes[e]
  /\ Writes(e, Frame("note", sent[e] + 1))
  /\ sent' = [sent EXCEPT ![e] = @ + 1]
  /\ UNCHANGED <<broken, connVars, callVars, handler, queue, seen>>

NotifyFails(e) ==
  /\ sent[e] < MaxNotes[e] /\ broken
  /\ Fails(e)
  /\ UNCHANGED <<broken, wire, loop, refused, callVars, handler, noteVars>>

\* serveNotifications, also of what is queued when the loop ends.
HandleNote(e) ==
  /\ queue[e] # <<>>
  /\ queue' = [queue EXCEPT ![e] = Tail(@)]
  /\ seen' = [seen EXCEPT ![e] = Append(@, Head(queue[e]))]
  /\ UNCHANGED <<broken, wire, connVars, callVars, handler, sent>>

-----------------------------------------------------------------------------
CallStep(r) ==
  WriteRequest(r) \/ WriteRequestFails(r) \/ Return(r)
HandlerStep(r) ==
  HandlerEnds(r) \/ WriteAnswer(r) \/ WriteAnswerFails(r) \/ HandlerGone(r)
LoopStep(e) ==
  \/ Read(e) \/ Refuse(e) \/ RefuseFails(e) \/ LoopGoesOn(e) \/ Eof(e)
  \/ Drained(e) \/ ServeReturns(e)

Next ==
  \/ \E r \in Requests : Start(r) \/ GiveUp(r) \/ CallStep(r) \/ HandlerStep(r)
  \/ \E e \in Ends :
       \/ LoopStep(e) \/ Shutdown(e) \/ HandleNote(e)
       \/ Notify(e) \/ NotifyFails(e)
  \/ CloseStream

Spec == Init /\ [][Next]_vars

\* Goroutines go on and handlers return; nobody has to call, give up, notify or
\* close.  Weak fairness is enough for writers that compete for room: a run has
\* finitely many frames.
Fairness ==
  /\ \A r \in Requests : WF_vars(CallStep(r)) /\ WF_vars(HandlerStep(r))
  /\ \A e \in Ends : WF_vars(LoopStep(e)) /\ WF_vars(Shutdown(e)) /\ WF_vars(HandleNote(e))

FairSpec == Spec /\ Fairness

-----------------------------------------------------------------------------
(* Properties *)

\* The places of the notifications on the way to an end.
NotesComing(e) == {i \in 1 .. Len(wire[e]) : wire[e][i].kind = "note"}

\* Notifications are handled in the order they were written and none is lost
\* while the connection stands: what an end has sent is handled, queued or on
\* the way.  A full queue ends the connection instead (dispatch,
\* serveNotifications).
NotesInOrder ==
  \A e \in Ends :
    LET handled == Len(seen[e])
        came == handled + Len(queue[e])
    IN /\ \A i \in 1 .. handled : seen[e][i] = i
       /\ \A i \in 1 .. Len(queue[e]) : queue[e][i] = handled + i
       /\ closed[e] = "no" =>
            /\ {wire[e][i].of : i \in NotesComing(e)} = came + 1 .. sent[Other(e)]
            /\ \A i, j \in NotesComing(e) : i < j => wire[e][i].of < wire[e][j].of

\* Whether a frame is on the way to an end.
Coming(e, frame) == \E i \in 1 .. Len(wire[e]) : wire[e][i] = frame

\* While the connection stands at both ends, no request is lost: a caller that
\* waits with nothing in its channel has its request on the way, in its handler
\* or in the hands of the read loop, or its answer on the way back (Request,
\* dispatch, serveRequest, resolve).
NoRequestLost ==
  ~broken => \A r \in Requests :
    /\ call[r] = "wait" /\ chan[r] = "none"
    /\ closed[From[r]] = "no" /\ closed[At(r)] = "no"
    => \/ Coming(At(r), Frame("request", r))
       \/ refused[At(r)] = r \/ handler[r] \in {"run", "answer"}
       \/ \E k \in {"ok", "busy"} : Coming(From[r], Frame(k, r))

\* A caller always has somebody to wake it, and whoever does never blocks: the
\* channel of a call has room as long as the call is registered, and a closed
\* connection has none registered (resolve, shutdown).
NoStrandedCaller ==
  \A r \in Requests :
    /\ r \in pending => chan[r] = "none" /\ closed[From[r]] # "yes"
    /\ call[r] = "wait" => r \in pending \/ chan[r] # "none"

\* A call that got a result has been handled to the end, and one that was told
\* the other end is busy has not been handled and never will be, so that its
\* caller may try again (dispatch, tryStartHandler, respondError).
AnswersAreTrue ==
  \A r \in Requests :
    /\ got[r] = "ok" => handler[r] = "done"
    /\ got[r] = "busy" => handler[r] = "none" /\ ~Coming(At(r), Frame("request", r))

\* Every call returns, whatever closes, fails or overflows, although its caller
\* never gives up (Request, shutdown): from some point on, of the calls that
\* were made, each of which is made once, none is still under way.
EveryCallReturns == <>[](\A r \in Requests : call[r] \in {"idle", "returned"})

\* Serve returns at both ends once the stream is broken, also when a handler
\* waits for a call of its own on the same connection (Serve).
ServeEnds == broken ~> \A e \in Ends : loop[e] = "returned"

\* What the comment on MaxConcurrentHandlers says: the limit on handlers does not
\* block the dispatch of responses, so a read loop that has found the pool full
\* goes on to its next frame (dispatch, tryStartHandler, respondError).  It does
\* not hold: the loop writes the refusal itself, and into a full stream it waits
\* for the other end's loop, which may be doing the same.
OverloadBlocksNoDispatch == \A e \in Ends : loop[e] = "refuse" ~> loop[e] # "refuse"

\* How far a call is for its caller, and for the end that handles it.
CallOf(r) == IF call[r] = "idle" THEN "idle" ELSE IF call[r] = "returned" THEN "over" ELSE "asked"
WorkOf(r) == IF handler[r] = "none" THEN "no" ELSE IF handler[r] = "run" THEN "running" ELSE "done"

\* The connection implements calls that are executed at most once, whose callers
\* are told the truth; streams, slots, queues and registrations are its own affair.
Calls == INSTANCE RemoteCalls WITH
  call <- [r \in Requests |-> CallOf(r)],
  work <- [r \in Requests |-> WorkOf(r)],
  answer <- got

ImplementsCalls == Calls!Spec
=============================================================================
