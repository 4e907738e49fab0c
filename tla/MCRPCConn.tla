------------------------------ MODULE MCRPCConn ------------------------------
(* Instances of RPCConn: a desktop and a host.                              *)
EXTENDS RPCConn, TLC

CONSTANTS desktop, host, r1, r2, q1, q2

\* The desktop calls the host; a handler of the host calls the desktop back.
CallBack == [r \in Requests |-> IF r = q1 THEN host ELSE desktop]
CallBackParent == [r \in Requests |-> IF r = q1 THEN r1 ELSE NoRequest]
OneSlot == [e \in Ends |-> 1]
HostNotes == [e \in Ends |-> IF e = host THEN 2 ELSE 0]

\* Both ends call at their own pace.
BothWays == [r \in Requests |-> IF r \in {q1, q2} THEN host ELSE desktop]
NoParents == [r \in Requests |-> NoRequest]
NoNotes == [e \in Ends |-> 0]
=============================================================================
