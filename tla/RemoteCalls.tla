------------------------------ MODULE RemoteCalls ------------------------------
(***************************************************************************)
(* What the callers of internal/rpcwire/conn.go may rely on: a call is     *)
(* executed at most once, its caller gets at most one answer, and the      *)
(* answer is true.  A handler makes calls of its own only while it runs    *)
(* and does not end before they have.                                      *)
(***************************************************************************)
CONSTANTS
  Requests,
  Parent,     \* the call whose handler makes a call, or NoRequest
  NoRequest

VARIABLES
  call,    \* "idle", "asked", "over"
  work,    \* what the other end has done of it: "no", "running", "done"
  answer   \* what the caller got, or "none"

vars == <<call, work, answer>>

Results == {"ok", "busy", "closed", "cancelled", "error"}

Init ==
  /\ call = [r \in Requests |-> "idle"]
  /\ work = [r \in Requests |-> "no"]
  /\ answer = [r \in Requests |-> "none"]

MayAsk(r) == call[r] = "idle" /\ (Parent[r] # NoRequest => work[Parent[r]] = "running")

Ask(r) ==
  /\ MayAsk(r)
  /\ call' = [call EXCEPT ![r] = "asked"]
  /\ UNCHANGED <<work, answer>>

\* Only a call that was made is executed, once, also after its caller has given
\* up; never one whose caller was told to try again.
Execute(r) ==
  /\ call[r] # "idle" /\ work[r] = "no" /\ answer[r] # "busy"
  /\ work' = [work EXCEPT ![r] = "running"]
  /\ UNCHANGED <<call, answer>>

Finish(r) ==
  /\ work[r] = "running"
  /\ \A q \in Requests : Parent[q] = r => call[q] # "asked"
  /\ work' = [work EXCEPT ![r] = "done"]
  /\ UNCHANGED <<call, answer>>

\* The caller gets v: a result of work that was done, a refusal of work that was
\* not begun, or an error, which says nothing of the work.
End(r, v) ==
  /\ call[r] = "asked" \/ (MayAsk(r) /\ v = "closed")
  /\ v = "ok" => work[r] = "done"
  /\ v = "busy" => work[r] = "no"
  /\ call' = [call EXCEPT ![r] = "over"]
  /\ answer' = [answer EXCEPT ![r] = v]
  /\ UNCHANGED work

Next == \E r \in Requests :
  Ask(r) \/ Execute(r) \/ Finish(r) \/ (\E v \in Results : End(r, v))

Spec == Init /\ [][Next]_vars
=============================================================================
