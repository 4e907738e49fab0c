------------------------------- MODULE Rewind -------------------------------
(***************************************************************************)
(* The controller's Rewind, Fork, Compact and Summarize operations          *)
(* (internal/control) over the checkpoint store: the message log, and the   *)
(* manager's map from turns to the log's length when they began, by which   *)
(* a conversation rewind cuts the log.                                      *)
(*                                                                          *)
(* Compaction and summaries rewrite the log without moving the boundaries:  *)
(* a summary drops them all from memory (the checkpoint files keep them), a *)
(* compaction leaves them stale.  A message is the number of the prompt it  *)
(* belongs to and its role; prompts are never renumbered, so the number     *)
(* tells the messages of a turn from those of a turn that was rewound and   *)
(* whose checkpoint number was reused.                                      *)
(***************************************************************************)
EXTENDS Checkpoints, Sequences

CONSTANTS
  Rewrites,    \* the rewrites of the log that may happen: "compact",
               \* "from" and "upto" (SummarizeFrom and SummarizeUpTo)
  MinTail,     \* the least number of messages a compaction leaves alone
  MaxPrompts   \* bound: prompts sent in all

ASSUME RewindAssumption ==
  /\ MaxPrompts \in Nat /\ MinTail \in Nat
  /\ Rewrites \subseteq {"compact", "from", "upto"}

VARIABLES
  bound,       \* turn |-> the log's length when it began, or NoBound
  log,         \* the message log
  prompts,     \* prompts sent so far
  origin,      \* history: turn |-> the number of its prompt
  life,        \* history: the turns begun by this process
  placed       \* history: the turns whose boundary marks their first message

logHistory == <<origin, life, placed>>

logVars == <<log, prompts>>
vars == <<storeVars, bound, logVars, logHistory>>

Messages == [of : 0 .. MaxPrompts, role : {"user", "work", "digest"}]
Digest == [of |-> 0, role |-> "digest"]
Summary == [of |-> 0, role |-> "user"]

Init ==
  /\ StoreInit
  /\ bound = [t \in Turns |-> NoBound]
  /\ log = <<>> /\ prompts = 0
  /\ origin = [t \in Turns |-> 0]
  /\ life = {} /\ placed = {}

----------------------------------------------------------------------------

\* beginCheckpoint records the log's length, then the prompt joins the log.
SendPrompt ==
  /\ prompts < MaxPrompts /\ Len(log) < MaxLog
  /\ BeginTurn(Len(log))
  /\ bound' = [bound EXCEPT ![turn] = Len(log)]
  /\ prompts' = prompts + 1
  /\ log' = Append(log, [of |-> prompts + 1, role |-> "user"])
  /\ origin' = [origin EXCEPT ![turn] = prompts + 1]
  /\ life' = life \cup {turn}
  /\ placed' = placed \cup {turn}

SendSynthetic ==
  /\ prompts > 0 /\ Len(log) < MaxLog
  /\ BeginSynthetic
  /\ log' = Append(log, [of |-> prompts, role |-> "user"])
  /\ UNCHANGED <<bound, prompts, logHistory>>

\* The turn adds an answer or a tool result to the log.
AddMessage ==
  /\ phase = "turn" /\ Len(log) < MaxLog
  /\ log' = Append(log, [of |-> prompts, role |-> "work"])
  /\ UNCHANGED <<storeVars, bound, prompts, logHistory>>

FinishTurn == EndTurn /\ UNCHANGED <<bound, logVars, logHistory>>

\* A file changes, by a tool of the turn or unseen by the store.
Write ==
  /\ \E f \in Files, c \in Contents : Edit(f, c) \/ EditUntracked(f, c)
  /\ UNCHANGED <<bound, logVars, logHistory>>

----------------------------------------------------------------------------

\* The conversation part of Rewind(t) goes ahead: the turn has a boundary and
\* the log still reaches it.
HasBoundary(t) == bound[t] # NoBound
CanCut(t) == HasBoundary(t) /\ bound[t] <= Len(log)

\* Mutant of CutConversation: the cut loses the message before the boundary.
CutShort(t) ==
  /\ phase = "idle" /\ CanCut(t)
  /\ log' = SubSeq(log, 1, bound[t] - 1)
  /\ bound' = [u \in Turns |-> IF u >= t THEN NoBound ELSE bound[u]]
  /\ \E left \in SUBSET {u \in known : u >= t} :
       RewindConversation(t, left) \/ RewindBoth(t, left)
  /\ UNCHANGED <<prompts, logHistory>>

\* Rewind(t, RewindConversation) and Rewind(t, RewindBoth).
CutConversation(t) ==
  /\ phase = "idle" /\ CanCut(t)
  /\ log' = SubSeq(log, 1, bound[t])
  /\ bound' = [u \in Turns |-> IF u >= t THEN NoBound ELSE bound[u]]
  /\ \E left \in SUBSET {u \in known : u >= t} :
       RewindConversation(t, left) \/ RewindBoth(t, left)
  /\ UNCHANGED <<prompts, logHistory>>

\* Rewind(t, RewindCode), and Rewind(t, RewindBoth) that stops half way: a
\* file cannot be restored, or the files are back and the log cannot be cut.
RestoreOnly(t) ==
  /\ \E failing \in SUBSET Files : RewindCode(t, failing)
  /\ UNCHANGED <<bound, logVars, logHistory>>

\* Fork(t): the new session's log is the old one's up to the boundary, or all
\* of it when the boundary is past its end.
Fork(t) ==
  /\ phase = "idle" /\ HasBoundary(t)
  /\ log' = SubSeq(log, 1, IF bound[t] > Len(log) THEN Len(log) ELSE bound[t])
  /\ bound' = [u \in Turns |-> NoBound]
  /\ ForkStore
  /\ life' = {} /\ placed' = {}
  /\ UNCHANGED <<prompts, origin>>

\* compact folds old messages into a digest, never the last few nor the active
\* turn's; earlier digests, small user messages and what the keep policy names
\* stay verbatim before it (partitionFold, planCompaction).
Compact ==
  /\ "compact" \in Rewrites
  /\ \E k \in 1 .. (Len(log) - MinTail) : \E n \in 0 .. (k - 1) :
       \E kept \in [1 .. n -> 1 .. k] :
         /\ phase = "turn" => \A i \in 1 .. k : log[i].of # prompts
         /\ \A i, j \in 1 .. n : i < j => kept[i] < kept[j]
         /\ \A j \in 1 .. n : j <= kept[j]          \* follows from the order
         /\ \A i \in 1 .. k :
              log[i].role = "digest" => \E j \in 1 .. n : kept[j] = i
         /\ log' = [j \in 1 .. n |-> log[kept[j]]]
                     \o <<Digest>> \o SubSeq(log, k + 1, Len(log))
  /\ placed' = {}
  /\ UNCHANGED <<storeVars, bound, prompts, origin, life>>

\* The log after SummarizeFrom and SummarizeUpTo at position b: the messages
\* after it, or before it, become one user message.
SummarizedFrom(b) ==
  IF b < Len(log) THEN Append(SubSeq(log, 1, b), Summary) ELSE log
SummarizedUpTo(b) ==
  IF b \in 1 .. Len(log) THEN <<Summary>> \o SubSeq(log, b + 1, Len(log)) ELSE log

\* summarizeAt: the log is rewritten and every boundary dropped, in memory.
Summarize(t) ==
  /\ phase = "idle" /\ HasBoundary(t)
  /\ \/ "from" \in Rewrites /\ log' = SummarizedFrom(bound[t])
     \/ "upto" \in Rewrites /\ log' = SummarizedUpTo(bound[t])
  /\ bound' = [u \in Turns |-> NoBound]
  /\ placed' = {}
  /\ UNCHANGED <<storeVars, prompts, origin, life>>

\* A restart: the boundaries come back from the checkpoint files, the log from
\* the transcript, which may lack the last messages.
Resume ==
  /\ Restart
  /\ bound' = savedIndex
  /\ \E n \in 0 .. Len(log) :
       /\ log' = SubSeq(log, 1, n)
       /\ placed' = {u \in placed \cap known :
                       /\ \A v \in Turns : v >= u => v \in Intact
                       /\ msgIndex[u] <= n}
  /\ life' = {}
  /\ UNCHANGED <<prompts, origin>>

Next ==
  \/ SendPrompt \/ SendSynthetic \/ AddMessage \/ FinishTurn \/ Write
  \/ \E t \in Turns : CutConversation(t) \/ RestoreOnly(t) \/ Fork(t) \/ Summarize(t)
  \/ Compact \/ Resume

Spec == Init /\ [][Next]_vars

----------------------------------------------------------------------------
(* Properties *)

TypeOK ==
  /\ StoreTypeOK
  /\ bound \in [Turns -> Bounds]
  /\ log \in Seq(Messages) /\ Len(log) <= MaxLog
  /\ prompts \in 0 .. MaxPrompts
  /\ origin \in [Turns -> 0 .. MaxPrompts]
  /\ life \in SUBSET Turns /\ placed \in SUBSET Turns

\* A conversation rewind to a turn begun by this process, or a fork at it,
\* loses no message that was in the log before that turn, however the log was
\* compacted and however turn numbers were reused since (controller.go, Rewind
\* and forkNamed).
RewindKeepsEarlier ==
  [][\A t \in life : CutConversation(t) \/ Fork(t) =>
       \A i \in 1 .. Len(log) :
         log[i].of \in 1 .. (origin[t] - 1) => i <= Len(log')]_vars

\* While no compaction or summary has moved a turn's messages, a conversation
\* rewind to it cuts the log exactly where the turn began, also after turns
\* were rewound and their numbers reused, and after a restart that kept that
\* part of the log (checkpoint.go, truncateFrom and rebind).
CutIsExact ==
  [][\A t \in placed : CutConversation(t) =>
       \A i \in 1 .. Len(log) : i <= Len(log') <=> log[i].of < origin[t]]_vars

\* The controller uses the store as the store's own specification says.
IsCheckpointStore == StoreSpec

\* What the code claims of a conversation rewind: the log goes back to the
\* turn's start, or the rewind fails because the turn was compacted away
\* (controller.go, Rewind).  It does not hold.
RewindForgetsTurn ==
  [][\A t \in life : CutConversation(t) =>
       \A i \in 1 .. Len(log') : log'[i].of < origin[t]]_vars
=============================================================================
