---------------------------- MODULE Checkpoints ----------------------------
(***************************************************************************)
(* The snapshot store of internal/checkpoint and the counter with which    *)
(* internal/control numbers its checkpoints.                               *)
(*                                                                         *)
(* Before a writer tool of the main agent changes a file, the file's       *)
(* content is recorded in the checkpoint of the current user turn, in      *)
(* memory and in a file of its own.  A code rewind to turn t puts back,    *)
(* for each file, the earliest content recorded in turn t or later; a      *)
(* conversation rewind drops the checkpoints from t on.  A restart loads   *)
(* the checkpoint files again.                                             *)
(*                                                                         *)
(* Two history variables say what the properties are about: start is what  *)
(* the workspace was when each turn began, exact the turns whose start the *)
(* store is to reproduce.  A turn leaves exact when something happens that *)
(* the store cannot undo: each action says so.                             *)
(***************************************************************************)
EXTENDS Integers

CONSTANTS
  Files,       \* the workspace files the tools edit
  Contents,    \* what a file may hold
  Absent,      \* the "content" of a file that does not exist (FileSnap nil)
  None,        \* no snapshot of this file in this checkpoint
  NoTurn,      \* no open checkpoint (Store.cur == nil)
  NoBound,     \* no boundary recorded for this turn
  Faults,      \* what may fail: "torn" and "unwritten" checkpoint files,
               \* files that cannot be "restored" or "removed"
  MaxTurns,    \* bound: turn numbers 0 .. MaxTurns - 1
  MaxLog       \* bound: messages in the log

ASSUME CheckpointAssumption ==
  /\ Absent \in Contents /\ None \notin Contents
  /\ MaxTurns \in Nat /\ MaxLog \in Nat
  /\ NoTurn \notin Int /\ NoBound \notin Int
  /\ Faults \subseteq {"torn", "unwritten", "restored", "removed"}

Turns == 0 .. (MaxTurns - 1)
Bounds == (0 .. MaxLog) \cup {NoBound}
Snapshots == [Files -> Contents \cup {None}]
NoFiles == [f \in Files |-> None]

VARIABLES
  disk,        \* the workspace: file |-> its content
  phase,       \* "idle" | "turn": the rotation gate keeps rewinds out of turns
  known,       \* the turns with a checkpoint in memory (done and cur)
  cur,         \* the turn of the open checkpoint, or NoTurn
  snap,        \* turn |-> file |-> the content recorded, or None
  msgIndex,    \* turn |-> the log's length when it began
  stored,      \* turn |-> "none" | "torn" | "whole": its file turn-<n>.json
  saved,       \* turn |-> the snapshots in that file
  savedIndex,  \* turn |-> the MsgIndex in that file
  turn,        \* the number the next checkpoint takes (checkpointManager)
  start,       \* history: turn |-> the workspace when it began
  exact        \* history: turns whose start a code rewind is to reproduce

memoryVars == <<known, cur, snap, msgIndex>>
fileVars == <<stored, saved, savedIndex>>
storeVars == <<disk, phase, memoryVars, fileVars, turn, start, exact>>

StoreInit ==
  /\ disk \in [Files -> Contents]
  /\ phase = "idle"
  /\ known = {} /\ cur = NoTurn
  /\ snap = [t \in Turns |-> NoFiles]
  /\ msgIndex = [t \in Turns |-> NoBound]
  /\ stored = [t \in Turns |-> "none"]
  /\ saved = [t \in Turns |-> NoFiles]
  /\ savedIndex = [t \in Turns |-> NoBound]
  /\ turn = 0
  /\ start = [t \in Turns |-> NoFiles]
  /\ exact = {}

----------------------------------------------------------------------------

\* The checkpoints at or after t that hold a snapshot of f.
Later(t, f) == {u \in known : u >= t /\ snap[u][f] # None}

\* The files RestoreCode(t) has to put back.
Touched(t) == {f \in Files : Later(t, f) # {}}

\* RestoreCode(t) leaves c in f: the earliest snapshot at or after t, or what
\* the file holds when there is none.
RestoredTo(t, f, c) ==
  \/ Later(t, f) = {} /\ c = disk[f]
  \/ \E u \in Later(t, f) :
       /\ \A v \in Later(t, f) : u <= v
       /\ c = snap[u][f]

\* RestoreCode(t), except for the files in failing, whose write or removal
\* fails.
RestoreCode(t, failing) ==
  /\ "restored" \in Faults \/ failing = {}
  /\ \E d \in [Files -> Contents] :
       /\ \A f \in Files : IF f \in failing THEN d[f] = disk[f]
                                            ELSE RestoredTo(t, f, d[f])
       /\ disk' = d

\* persist rewrites turn t's file with os.WriteFile, which truncates the file
\* and then writes it: a failure or a crash leaves the old file or half of the
\* new one, and the store goes on with what it has in memory.
Persist(t, files, at) ==
  \/ /\ stored' = [stored EXCEPT ![t] = "whole"]
     /\ saved' = [saved EXCEPT ![t] = files]
     /\ savedIndex' = [savedIndex EXCEPT ![t] = at]
  \/ /\ "torn" \in Faults
     /\ stored' = [stored EXCEPT ![t] = "torn"]
     /\ saved' = [saved EXCEPT ![t] = NoFiles]
     /\ savedIndex' = [savedIndex EXCEPT ![t] = NoBound]
  \/ "unwritten" \in Faults /\ UNCHANGED fileVars

\* The files of these turns are deleted.
RemoveFiles(turns) ==
  /\ stored' = [u \in Turns |-> IF u \in turns THEN "none" ELSE stored[u]]
  /\ saved' = [u \in Turns |-> IF u \in turns THEN NoFiles ELSE saved[u]]
  /\ savedIndex' = [u \in Turns |-> IF u \in turns THEN NoBound ELSE savedIndex[u]]

\* These turns are dropped from memory.
Forget(turns) ==
  /\ known' = known \ turns
  /\ cur' = IF cur \in turns THEN NoTurn ELSE cur
  /\ snap' = [u \in Turns |-> IF u \in turns THEN NoFiles ELSE snap[u]]
  /\ msgIndex' = [u \in Turns |-> IF u \in turns THEN NoBound ELSE msgIndex[u]]
  /\ start' = [u \in Turns |-> IF u \in turns THEN NoFiles ELSE start[u]]

\* Mutant of TruncateFrom: the checkpoint of turn t itself is kept.
TruncateAfter(t, left) ==
  LET gone == {u \in known : u > t} IN
  /\ "removed" \in Faults \/ left = {}
  /\ turn' = t
  /\ Forget(gone)
  /\ RemoveFiles(gone \ left)

\* truncateFrom: the counter goes back to t and the checkpoints at or after t
\* go, in memory and, except those whose removal fails, on disk.
TruncateFrom(t, left) ==
  LET gone == {u \in known : u >= t} IN
  /\ "removed" \in Faults \/ left = {}
  /\ turn' = t
  /\ Forget(gone)
  /\ RemoveFiles(gone \ left)

\* The turns whose checkpoint file says what the store has in memory.
Intact == {u \in Turns : IF u \in known
                           THEN /\ stored[u] = "whole"
                                /\ saved[u] = snap[u]
                                /\ savedIndex[u] = msgIndex[u]
                           ELSE stored[u] # "whole"}

----------------------------------------------------------------------------

\* A visible user turn begins with the log at the length given: the manager
\* takes the next number and the store opens the checkpoint.
BeginTurn(at) ==
  /\ phase = "idle" /\ turn < MaxTurns
  /\ phase' = "turn"
  /\ turn' = turn + 1
  /\ known' = known \cup {turn}
  /\ cur' = turn
  /\ snap' = [snap EXCEPT ![turn] = NoFiles]
  /\ msgIndex' = [msgIndex EXCEPT ![turn] = at]
  /\ Persist(turn, NoFiles, at)
  /\ start' = [start EXCEPT ![turn] = disk]
  /\ exact' = exact \cup {turn}
  /\ UNCHANGED disk

\* A synthetic turn (a goal continuation, a finished job) opens no checkpoint:
\* its edits belong to the visible turn before it, when there is one.
BeginSynthetic ==
  /\ phase = "idle"
  /\ phase' = "turn"
  /\ UNCHANGED <<disk, memoryVars, fileVars, turn, start, exact>>

EndTurn ==
  /\ phase = "turn"
  /\ phase' = "idle"
  /\ UNCHANGED <<disk, memoryVars, fileVars, turn, start, exact>>

\* Mutant of Snapshot: a later touch in the turn replaces the first.
SnapshotLastTouch(f) ==
  /\ snap' = [snap EXCEPT ![cur][f] = disk[f]]
  /\ Persist(cur, [snap[cur] EXCEPT ![f] = disk[f]], msgIndex[cur])

\* The store's part of a writer tool's call: the first touch of a file in the
\* turn is recorded.
Snapshot(f) ==
  IF snap[cur][f] = None
    THEN /\ snap' = [snap EXCEPT ![cur][f] = disk[f]]
         /\ Persist(cur, [snap[cur] EXCEPT ![f] = disk[f]], msgIndex[cur])
    ELSE UNCHANGED <<snap, fileVars>>

\* executeOne: the pre-edit hook, then the tool writes (c = Absent: deletes).
Edit(f, c) ==
  /\ phase = "turn" /\ cur # NoTurn /\ c # disk[f]
  /\ Snapshot(f)
  /\ disk' = [disk EXCEPT ![f] = c]
  /\ UNCHANGED <<phase, known, cur, msgIndex, turn, start, exact>>

\* A change the store does not see: by the user, a shell command, a file move
\* or a sub-agent (the hook is the main agent's only), or by a synthetic turn
\* while no checkpoint is open.  A turn's start stays within reach only if the
\* file has a snapshot from that turn on.
EditUntracked(f, c) ==
  /\ c # disk[f]
  /\ disk' = [disk EXCEPT ![f] = c]
  /\ exact' = {t \in exact : f \in Touched(t)}
  /\ UNCHANGED <<phase, memoryVars, fileVars, turn, start>>

\* Rewind(t, RewindCode), and what Rewind(t, RewindBoth) does when a file
\* cannot be restored or the conversation cannot be cut.  The later
\* checkpoints stay, though the workspace has left them.
RewindCode(t, failing) ==
  /\ phase = "idle"
  /\ failing \subseteq Touched(t)
  /\ RestoreCode(t, failing)
  /\ exact' = IF Touched(t) = {} THEN exact ELSE {u \in exact : u <= t}
  /\ UNCHANGED <<phase, memoryVars, fileVars, turn, start>>

\* Rewind(t, RewindConversation): the later checkpoints go, though the
\* workspace keeps what they could undo.
RewindConversation(t, left) ==
  /\ phase = "idle"
  /\ TruncateFrom(t, left)
  /\ exact' = IF Touched(t) = {} THEN {u \in exact : u < t} ELSE {}
  /\ UNCHANGED <<disk, phase>>

\* Rewind(t, RewindBoth).
RewindBoth(t, left) ==
  /\ phase = "idle" /\ UNCHANGED phase
  /\ exact' = {u \in exact : u < t}
  /\ RestoreCode(t, {})
  /\ TruncateFrom(t, left)

\* The controller moves to a forked session, which has no checkpoints.
ForkStore ==
  /\ phase = "idle"
  /\ Forget(Turns) /\ RemoveFiles(Turns)
  /\ turn' = 0
  /\ exact' = {}
  /\ UNCHANGED <<disk, phase>>

\* The process ends, by a crash or not, and the session is resumed: rebind
\* loads the readable checkpoint files and numbers on from the highest.
Restart ==
  LET loaded == {u \in Turns : stored[u] = "whole"} IN
  /\ phase' = "idle"
  /\ known' = loaded
  /\ cur' = NoTurn
  /\ snap' = saved
  /\ msgIndex' = savedIndex
  /\ \/ turn' = 0 /\ loaded = {}
     \/ \E u \in loaded : turn' = u + 1 /\ \A v \in loaded : v <= u
  /\ exact' = {t \in exact : \A u \in Turns : u >= t => u \in Intact}
  /\ start' = [u \in Turns |-> IF u \in known \cap loaded THEN start[u] ELSE NoFiles]
  /\ UNCHANGED <<disk, fileVars>>

StoreNext ==
  \/ \E at \in 0 .. MaxLog : BeginTurn(at)
  \/ BeginSynthetic \/ EndTurn
  \/ \E f \in Files, c \in Contents : Edit(f, c) \/ EditUntracked(f, c)
  \/ \E t \in Turns, failing \in SUBSET Files : RewindCode(t, failing)
  \/ \E t \in Turns : \E left \in SUBSET {u \in known : u >= t} :
       RewindConversation(t, left) \/ RewindBoth(t, left)
  \/ ForkStore
  \/ Restart

StoreSpec == StoreInit /\ [][StoreNext]_storeVars

----------------------------------------------------------------------------
(* Properties *)

StoreTypeOK ==
  /\ disk \in [Files -> Contents]
  /\ phase \in {"idle", "turn"}
  /\ known \in SUBSET Turns
  /\ cur \in Turns \cup {NoTurn}
  /\ snap \in [Turns -> Snapshots]
  /\ msgIndex \in [Turns -> Bounds]
  /\ stored \in [Turns -> {"none", "torn", "whole"}]
  /\ saved \in [Turns -> Snapshots]
  /\ savedIndex \in [Turns -> Bounds]
  /\ turn \in 0 .. MaxTurns
  /\ start \in [Turns -> Snapshots]
  /\ exact \in SUBSET Turns

\* What the store keeps for a turn is enough to reproduce its start: the
\* earliest snapshot of each file from the turn on is what the file held when
\* the turn began, and a file without one still holds it (checkpoint.go,
\* Snapshot and RestoreCode).
StartWithinReach ==
  \A t \in exact, f \in Files : RestoredTo(t, f, start[t][f])

\* A code rewind that succeeds leaves the workspace as it was when the turn
\* began, after any sequence of turns, edits, rewinds, failed writes and
\* restarts that left the turn within reach (checkpoint.go, RestoreCode).
RewindRestoresStart ==
  [][\A t \in exact :
       \/ RewindCode(t, {})
       \/ \E left \in SUBSET {u \in known : u >= t} : RewindBoth(t, left)
       => disk' = start[t]]_storeVars

\* A new checkpoint never takes the number of one the store still lists
\* (checkpoint.go, NextTurn and TruncateFrom): numbers go on past every one of
\* them, and the open checkpoint is the newest.
FreshNumbers ==
  /\ \A t \in known : t < turn
  /\ cur # NoTurn => cur \in known /\ \A t \in known : t <= cur

\* What RestoreCode says of every turn the store lists: a code rewind leaves
\* the workspace as it was at the start of the turn.  It does not hold.
EveryRewindRestoresStart ==
  [][\A t \in known : start[t] # NoFiles /\ RewindCode(t, {})
       => disk' = start[t]]_storeVars
=============================================================================
