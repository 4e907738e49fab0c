---------------------------- MODULE RewindProofs ----------------------------
(***************************************************************************)
(* Theorems about Checkpoints, for any files, contents, bounds and faults. *)
(* The inductive invariant: the open checkpoint is the newest and every    *)
(* number is below the counter, a turn within reach has its checkpoint,    *)
(* and for each file the earliest snapshot from that turn on, or else the  *)
(* file itself, holds what the file held when the turn began.              *)
(***************************************************************************)
EXTENDS Rewind, SequenceTheorems, TLAPS

ReachInv == StoreTypeOK /\ FreshNumbers /\ exact \subseteq known /\ StartWithinReach

\* What RestoreCode puts back is unique.
LEMMA RestoredToUnique ==
  ASSUME known \in SUBSET Turns, NEW t \in Turns, NEW f \in Files, NEW c, NEW d,
         RestoredTo(t, f, c), RestoredTo(t, f, d)
  PROVE  c = d
<1> USE DEF RestoredTo, Turns
<1>1. CASE Later(t, f) = {}
  BY <1>1
<1>2. CASE Later(t, f) # {}
  <2>1. PICK u \in Later(t, f) :
          (\A v \in Later(t, f) : u <= v) /\ c = snap[u][f]
    BY <1>2
  <2>2. PICK w \in Later(t, f) :
          (\A v \in Later(t, f) : w <= v) /\ d = snap[w][f]
    BY <1>2
  <2>3. u \in Int /\ w \in Int
    BY <2>1, <2>2, CheckpointAssumption DEF Later
  <2>4. u <= w /\ w <= u
    BY <2>1, <2>2
  <2> QED BY <2>1, <2>2, <2>3, <2>4
<1> QED BY <1>1, <1>2

\* Writing a checkpoint file keeps the types of the file variables.
LEMMA PersistTypes ==
  ASSUME StoreTypeOK, NEW t \in Turns, NEW files \in Snapshots, NEW at \in Bounds,
         Persist(t, files, at)
  PROVE  /\ stored' \in [Turns -> {"none", "torn", "whole"}]
         /\ saved' \in [Turns -> Snapshots]
         /\ savedIndex' \in [Turns -> Bounds]
<1>1. NoFiles \in Snapshots /\ NoBound \in Bounds
  BY DEF NoFiles, Snapshots, Bounds
<1> QED BY <1>1 DEF Persist, StoreTypeOK, fileVars

\* Forgetting checkpoints and removing their files keep the types.
LEMMA ForgetTypes ==
  ASSUME StoreTypeOK, NEW S, Forget(S), NEW R, RemoveFiles(R)
  PROVE  /\ known' \in SUBSET Turns /\ cur' \in Turns \cup {NoTurn}
         /\ snap' \in [Turns -> Snapshots] /\ msgIndex' \in [Turns -> Bounds]
         /\ stored' \in [Turns -> {"none", "torn", "whole"}]
         /\ saved' \in [Turns -> Snapshots] /\ savedIndex' \in [Turns -> Bounds]
         /\ start' \in [Turns -> Snapshots]
<1>1. NoFiles \in Snapshots /\ NoBound \in Bounds
  BY DEF NoFiles, Snapshots, Bounds
<1> QED BY <1>1 DEF Forget, RemoveFiles, StoreTypeOK

\* Every step keeps the store's variables in their types.
LEMMA StoreTypeStep ==
  ASSUME StoreTypeOK, [StoreNext]_storeVars
  PROVE  StoreTypeOK'
<1>0. NoFiles \in Snapshots /\ NoBound \in Bounds
  BY DEF NoFiles, Snapshots, Bounds
<1>1. ASSUME NEW at \in 0 .. MaxLog, BeginTurn(at) PROVE StoreTypeOK'
  <2>1. turn \in Turns /\ at \in Bounds /\ turn' \in 0 .. MaxTurns
    BY <1>1, CheckpointAssumption DEF BeginTurn, Turns, Bounds, StoreTypeOK
  <2>2. /\ stored' \in [Turns -> {"none", "torn", "whole"}]
        /\ saved' \in [Turns -> Snapshots]
        /\ savedIndex' \in [Turns -> Bounds]
    BY <1>0, <1>1, <2>1, PersistTypes DEF BeginTurn
  <2>3. disk \in Snapshots
    BY DEF StoreTypeOK, Snapshots
  <2> QED BY <1>0, <1>1, <2>1, <2>2, <2>3 DEF BeginTurn, StoreTypeOK
<1>2. CASE BeginSynthetic
  BY <1>2 DEF BeginSynthetic, StoreTypeOK, memoryVars, fileVars
<1>3. CASE EndTurn
  BY <1>3 DEF EndTurn, StoreTypeOK, memoryVars, fileVars
<1>4. ASSUME NEW f \in Files, NEW c \in Contents, Edit(f, c) PROVE StoreTypeOK'
  <2>1. cur \in Turns /\ disk' \in [Files -> Contents]
    BY <1>4 DEF Edit, StoreTypeOK
  <2>2. /\ [snap[cur] EXCEPT ![f] = disk[f]] \in Snapshots
        /\ msgIndex[cur] \in Bounds
    BY <2>1 DEF StoreTypeOK, Snapshots
  <2>3. /\ snap' \in [Turns -> Snapshots]
        /\ stored' \in [Turns -> {"none", "torn", "whole"}]
        /\ saved' \in [Turns -> Snapshots]
        /\ savedIndex' \in [Turns -> Bounds]
    <3>1. CASE snap[cur][f] = None
      <4>1. snap' = [snap EXCEPT ![cur] = [snap[cur] EXCEPT ![f] = disk[f]]]
        BY <1>4, <3>1 DEF Edit, Snapshot
      <4>2. Persist(cur, [snap[cur] EXCEPT ![f] = disk[f]], msgIndex[cur])
        BY <1>4, <3>1 DEF Edit, Snapshot
      <4>3. snap' \in [Turns -> Snapshots]
        BY <2>1, <2>2, <4>1 DEF StoreTypeOK
      <4> QED BY <2>1, <2>2, <4>2, <4>3, PersistTypes
    <3>2. CASE snap[cur][f] # None
      BY <1>4, <3>2 DEF Edit, Snapshot, StoreTypeOK, fileVars
    <3> QED BY <3>1, <3>2
  <2> QED BY <1>4, <2>1, <2>3 DEF Edit, StoreTypeOK
<1>5. ASSUME NEW f \in Files, NEW c \in Contents, EditUntracked(f, c)
      PROVE StoreTypeOK'
  BY <1>5 DEF EditUntracked, StoreTypeOK, memoryVars, fileVars
<1>6. ASSUME NEW t \in Turns, NEW failing \in SUBSET Files, RewindCode(t, failing)
      PROVE StoreTypeOK'
  BY <1>6 DEF RewindCode, RestoreCode, StoreTypeOK, memoryVars, fileVars
<1>7. ASSUME NEW t \in Turns, NEW left, RewindConversation(t, left)
      PROVE StoreTypeOK'
  <2> DEFINE gone == {u \in known : u >= t}
  <2>1. Forget(gone) /\ RemoveFiles(gone \ left) /\ turn' = t
    BY <1>7 DEF RewindConversation, TruncateFrom
  <2>2. t \in 0 .. MaxTurns
    BY CheckpointAssumption DEF Turns
  <2> HIDE DEF gone
  <2> QED BY <1>7, <2>1, <2>2, ForgetTypes DEF RewindConversation, StoreTypeOK
<1>8. ASSUME NEW t \in Turns, NEW left, RewindBoth(t, left) PROVE StoreTypeOK'
  <2> DEFINE gone == {u \in known : u >= t}
  <2>1. Forget(gone) /\ RemoveFiles(gone \ left) /\ turn' = t
    BY <1>8 DEF RewindBoth, TruncateFrom
  <2>2. t \in 0 .. MaxTurns
    BY CheckpointAssumption DEF Turns
  <2>3. disk' \in [Files -> Contents]
    BY <1>8 DEF RewindBoth, RestoreCode
  <2> HIDE DEF gone
  <2> QED BY <1>8, <2>1, <2>2, <2>3, ForgetTypes DEF RewindBoth, StoreTypeOK
<1>9. CASE ForkStore
  <2>1. Forget(Turns) /\ RemoveFiles(Turns) /\ turn' = 0 /\ 0 \in 0 .. MaxTurns
    BY <1>9, CheckpointAssumption DEF ForkStore
  <2> QED BY <1>9, <2>1, ForgetTypes DEF ForkStore, StoreTypeOK
<1>10. CASE Restart
  <2>1. turn' \in 0 .. MaxTurns
    BY <1>10, CheckpointAssumption DEF Restart, Turns
  <2>2. start' \in [Turns -> Snapshots]
    BY <1>0, <1>10 DEF Restart, StoreTypeOK
  <2> QED BY <1>10, <2>1, <2>2 DEF Restart, StoreTypeOK, fileVars
<1>11. CASE UNCHANGED storeVars
  BY <1>11 DEF StoreTypeOK, storeVars, memoryVars, fileVars
<1> QED BY <1>1, <1>2, <1>3, <1>4, <1>5, <1>6, <1>7, <1>8, <1>9, <1>10, <1>11
        DEF StoreNext

\* The store's variables keep their types.
THEOREM StoreTypeCorrect == StoreSpec => []StoreTypeOK
<1>1. StoreInit => StoreTypeOK
  BY CheckpointAssumption
  DEF StoreInit, StoreTypeOK, NoFiles, Snapshots, Bounds
<1>2. StoreTypeOK /\ [StoreNext]_storeVars => StoreTypeOK'
  BY StoreTypeStep
<1> QED BY <1>1, <1>2, PTL DEF StoreSpec

----------------------------------------------------------------------------

\* A turn stays within reach of a step that leaves its part of the store and
\* the workspace alone.
LEMMA ReachKept ==
  ASSUME NEW t \in Turns, NEW f \in Files, RestoredTo(t, f, start[t][f]),
         Later(t, f)' = Later(t, f),
         \A u \in Later(t, f) : snap'[u][f] = snap[u][f],
         disk'[f] = disk[f], start'[t] = start[t]
  PROVE  RestoredTo(t, f, start[t][f])'
BY DEF RestoredTo

\* A new turn is within reach and takes no other turn out of it.
LEMMA ReachBegin ==
  ASSUME ReachInv, NEW at \in 0 .. MaxLog, BeginTurn(at)
  PROVE  FreshNumbers' /\ (exact \subseteq known)' /\ StartWithinReach'
<1> USE CheckpointAssumption DEF ReachInv, StoreTypeOK, Turns
<1>1. /\ turn \in Turns /\ turn \notin known /\ turn' = turn + 1 /\ cur' = turn
      /\ known' = known \cup {turn} /\ exact' = exact \cup {turn} /\ disk' = disk
      /\ snap' = [snap EXCEPT ![turn] = NoFiles]
      /\ start' = [start EXCEPT ![turn] = disk]
  BY DEF BeginTurn, FreshNumbers
<1>2. FreshNumbers' /\ (exact \subseteq known)'
  BY <1>1 DEF FreshNumbers
<1>3. ASSUME NEW t \in exact', NEW f \in Files
      PROVE  RestoredTo(t, f, start[t][f])'
  <2>1. CASE t = turn
    <3>0. snap'[turn][f] = None
      BY <1>1 DEF NoFiles
    <3>2. \A u \in known' : u >= turn => u = turn
      BY <1>1 DEF FreshNumbers
    <3>1. Later(t, f)' = {}
      BY <2>1, <3>0, <3>2 DEF Later
    <3> QED BY <1>1, <2>1, <3>1 DEF RestoredTo
  <2>2. CASE t # turn
    <3>1. t \in exact /\ t \in Turns /\ start'[t] = start[t]
      BY <1>1, <2>2
    <3>2. Later(t, f)' = Later(t, f)
      BY <1>1 DEF Later, NoFiles
    <3>3. \A u \in Later(t, f) : snap'[u][f] = snap[u][f]
      BY <1>1 DEF Later
    <3> QED BY <1>1, <3>1, <3>2, <3>3, ReachKept DEF StartWithinReach
  <2> QED BY <2>1, <2>2
<1> QED BY <1>2, <1>3 DEF StartWithinReach

\* The first edit of a file in a turn is recorded before it is made, in the
\* newest checkpoint, so it is undone by a rewind to any turn within reach.
LEMMA ReachEdit ==
  ASSUME ReachInv, NEW e \in Files, NEW c \in Contents, Edit(e, c)
  PROVE  FreshNumbers' /\ (exact \subseteq known)' /\ StartWithinReach'
<1> USE CheckpointAssumption DEF ReachInv, StoreTypeOK, Turns
<1>1. /\ cur \in known /\ known' = known /\ cur' = cur /\ turn' = turn
      /\ exact' = exact /\ start' = start /\ disk' = [disk EXCEPT ![e] = c]
      /\ \A t \in known : t <= cur
  BY DEF Edit, FreshNumbers
<1>2. FreshNumbers' /\ (exact \subseteq known)'
  BY <1>1 DEF FreshNumbers
<1>3. snap' = IF snap[cur][e] = None THEN [snap EXCEPT ![cur][e] = disk[e]] ELSE snap
  BY DEF Edit, Snapshot
<1>4. ASSUME NEW t \in exact, NEW f \in Files
      PROVE  RestoredTo(t, f, start[t][f])'
  <2>0. t \in Turns /\ RestoredTo(t, f, start[t][f]) /\ cur \in Turns /\ cur >= t
    BY <1>1 DEF StartWithinReach
  <2>1. CASE f # e
    <3>1. \A u \in known : snap'[u][f] = snap[u][f]
      BY <1>3, <2>1
    <3>2. Later(t, f)' = Later(t, f)
      BY <1>1, <3>1 DEF Later
    <3> QED BY <1>1, <2>0, <2>1, <3>1, <3>2, ReachKept DEF Later
  <2>2. CASE f = e /\ snap[cur][e] # None
    <3>1. snap' = snap /\ Later(t, f)' = Later(t, f) /\ cur \in Later(t, f)
      BY <1>1, <1>3, <2>0, <2>2 DEF Later
    <3> QED BY <1>1, <2>0, <3>1 DEF RestoredTo
  <2>3. CASE f = e /\ snap[cur][e] = None
    <3>1. /\ \A u \in known : u # cur => snap'[u][f] = snap[u][f]
          /\ snap'[cur][f] = disk[f] /\ disk[f] # None
      <4>1. snap' = [snap EXCEPT ![cur] = [snap[cur] EXCEPT ![e] = disk[e]]]
        BY <1>3, <2>3
      <4>2. \A u \in known : u \in Turns /\ DOMAIN snap[u] = Files
        BY DEF Snapshots
      <4>3. disk[f] \in Contents
        OBVIOUS
      <4>4. \A u \in known : u # cur => snap'[u] = snap[u]
        BY <4>1, <4>2
      <4>5. snap'[cur] = [snap[cur] EXCEPT ![e] = disk[e]]
        BY <2>0, <4>1
      <4>6. snap'[cur][f] = disk[f]
        BY <1>1, <2>3, <4>2, <4>5
      <4> QED BY <4>3, <4>4, <4>6
    <3>2. Later(t, f)' = Later(t, f) \cup {cur} /\ cur \notin Later(t, f)
      BY <1>1, <2>0, <2>3, <3>1 DEF Later
    <3>3. CASE Later(t, f) = {}
      <4>1. start[t][f] = disk[f]
        BY <2>0, <3>3 DEF RestoredTo
      <4>2. Later(t, f)' = {cur} /\ cur <= cur
        BY <3>2, <3>3, <2>0
      <4> QED BY <1>1, <3>1, <4>1, <4>2 DEF RestoredTo
    <3>4. CASE Later(t, f) # {}
      <4>1. PICK u \in Later(t, f) :
              (\A v \in Later(t, f) : u <= v) /\ start[t][f] = snap[u][f]
        BY <2>0, <3>4 DEF RestoredTo
      <4>2. u <= cur /\ u # cur /\ u \in known
        BY <1>1, <3>2, <4>1 DEF Later
      <4>3. u \in Later(t, f)' /\ \A v \in Later(t, f)' : u <= v
        BY <3>2, <4>1, <4>2
      <4>4. start'[t][f] = snap'[u][f]
        BY <1>1, <3>1, <4>1, <4>2
      <4> QED BY <4>3, <4>4 DEF RestoredTo
    <3> QED BY <3>3, <3>4
  <2> QED BY <2>1, <2>2, <2>3
<1> QED BY <1>1, <1>2, <1>4 DEF StartWithinReach

\* Restoring the files leaves every turn up to the one rewound to in reach.
LEMMA ReachRewindCode ==
  ASSUME ReachInv, NEW r \in Turns, NEW failing \in SUBSET Files,
         RewindCode(r, failing)
  PROVE  FreshNumbers' /\ (exact \subseteq known)' /\ StartWithinReach'
<1> USE CheckpointAssumption DEF ReachInv, StoreTypeOK, Turns
<1>1. /\ known' = known /\ cur' = cur /\ turn' = turn /\ snap' = snap /\ start' = start
      /\ failing \subseteq Touched(r) /\ exact' \subseteq exact
      /\ \A t \in exact' : Touched(r) = {} \/ t <= r
  BY DEF RewindCode, memoryVars
<1>2. \A f \in Files : f \notin failing => RestoredTo(r, f, disk'[f])
  BY DEF RewindCode, RestoreCode
<1>3. ASSUME NEW t \in exact', NEW f \in Files
      PROVE  RestoredTo(t, f, start[t][f])'
  <2>1. t \in Turns /\ RestoredTo(t, f, start[t][f]) /\ Later(t, f)' = Later(t, f)
    BY <1>1 DEF StartWithinReach, Later
  <2>2. CASE Later(t, f) # {}
    BY <1>1, <2>1, <2>2 DEF RestoredTo
  <2>3. CASE Later(t, f) = {}
    <3>0. Touched(r) = {} \/ t <= r
      BY <1>1
    <3>4. ASSUME t <= r PROVE Later(r, f) = {}
      <4>1. \A u \in known : u >= r => u >= t
        BY <2>1, <3>4
      <4> QED BY <2>3, <4>1 DEF Later
    <3>5. ASSUME Touched(r) = {} PROVE Later(r, f) = {}
      BY <3>5 DEF Touched
    <3>1. Later(r, f) = {}
      BY <3>0, <3>4, <3>5
    <3>2. f \notin failing
      BY <1>1, <3>1 DEF Touched
    <3>3. disk'[f] = disk[f]
      BY <1>2, <3>1, <3>2 DEF RestoredTo
    <3> QED BY <1>1, <2>1, <3>3, ReachKept
  <2> QED BY <2>2, <2>3
<1> QED BY <1>1, <1>3 DEF StartWithinReach, FreshNumbers

\* Dropping the checkpoints from turn r on leaves the earlier ones as they are.
LEMMA ForgetFrom ==
  ASSUME StoreTypeOK, FreshNumbers, NEW r \in Turns,
         Forget({u \in known : u >= r}), turn' = r
  PROVE  /\ FreshNumbers'
         /\ known' = {u \in known : u < r}
         /\ \A t \in Turns, f \in Files :
              /\ t < r => start'[t] = start[t] /\ snap'[t] = snap[t]
              /\ Later(t, f)' = {u \in Later(t, f) : u < r}
<1> USE CheckpointAssumption DEF StoreTypeOK, Turns
<1>0. known' = known \ {u \in known : u >= r}
  BY DEF Forget
<1>1. known' = {u \in known : u < r}
  <2>1. \A u \in known : u \in Int /\ r \in Int /\ (u < r <=> ~ (u >= r))
    OBVIOUS
  <2> QED BY <1>0, <2>1, Zenon
<1>2. \A t \in Turns : t < r => start'[t] = start[t] /\ snap'[t] = snap[t]
  BY DEF Forget
<1>3. FreshNumbers'
  BY <1>1 DEF FreshNumbers, Forget
<1>4. ASSUME NEW t \in Turns, NEW f \in Files
      PROVE  Later(t, f)' = {u \in Later(t, f) : u < r}
  BY <1>1, <1>2 DEF Later
<1> QED BY <1>1, <1>2, <1>3, <1>4

\* A rewind of the conversation alone keeps the earlier turns in reach when no
\* file was touched since.
LEMMA ReachRewindConversation ==
  ASSUME ReachInv, NEW r \in Turns, NEW left, RewindConversation(r, left)
  PROVE  FreshNumbers' /\ (exact \subseteq known)' /\ StartWithinReach'
<1> USE CheckpointAssumption DEF ReachInv, Turns
<1>1. /\ Forget({u \in known : u >= r}) /\ turn' = r /\ disk' = disk
      /\ exact' \subseteq {t \in exact : t < r}
      /\ exact' # {} => Touched(r) = {}
  BY DEF RewindConversation, TruncateFrom
<1>2. /\ FreshNumbers' /\ known' = {u \in known : u < r}
      /\ \A t \in Turns, f \in Files :
           /\ t < r => start'[t] = start[t] /\ snap'[t] = snap[t]
           /\ Later(t, f)' = {u \in Later(t, f) : u < r}
  BY <1>1, ForgetFrom
<1>3. (exact \subseteq known)'
  BY <1>1, <1>2
<1>4. ASSUME NEW t \in exact', NEW f \in Files
      PROVE  RestoredTo(t, f, start[t][f])'
  <2>1. /\ t \in Turns /\ t < r /\ start'[t] = start[t]
        /\ RestoredTo(t, f, start[t][f]) /\ Later(r, f) = {}
    BY <1>1, <1>2 DEF StartWithinReach, StoreTypeOK, Touched
  <2>2. \A u \in Later(t, f) : u \in Turns /\ u < r
    BY <2>1 DEF Later, StoreTypeOK
  <2>3. Later(t, f)' = Later(t, f)
    <3>1. Later(t, f)' = {u \in Later(t, f) : u < r}
      BY <1>2, <2>1, Zenon
    <3> QED BY <2>2, <3>1, Zenon
  <2>4. \A u \in Later(t, f) : snap'[u][f] = snap[u][f]
    <3>1. \A u \in Turns : u < r => snap'[u] = snap[u]
      BY <1>2
    <3> QED BY <2>2, <3>1, Zenon
  <2> QED BY <1>1, <2>1, <2>3, <2>4, ReachKept
<1> QED BY <1>2, <1>3, <1>4 DEF StartWithinReach

\* A rewind of both keeps every earlier turn in reach: what only the dropped
\* checkpoints could undo has been undone.
LEMMA ReachRewindBoth ==
  ASSUME ReachInv, NEW r \in Turns, NEW left, RewindBoth(r, left)
  PROVE  FreshNumbers' /\ (exact \subseteq known)' /\ StartWithinReach'
<1> USE CheckpointAssumption DEF ReachInv, Turns
<1>1. /\ Forget({u \in known : u >= r}) /\ turn' = r
      /\ exact' = {t \in exact : t < r}
      /\ \A f \in Files : RestoredTo(r, f, disk'[f])
  BY DEF RewindBoth, TruncateFrom, RestoreCode
<1>2. /\ FreshNumbers' /\ known' = {u \in known : u < r}
      /\ \A t \in Turns, f \in Files :
           /\ t < r => start'[t] = start[t] /\ snap'[t] = snap[t]
           /\ Later(t, f)' = {u \in Later(t, f) : u < r}
  BY <1>1, ForgetFrom
<1>3. (exact \subseteq known)'
  BY <1>1, <1>2
<1>4. ASSUME NEW t \in exact', NEW f \in Files
      PROVE  RestoredTo(t, f, start[t][f])'
  <2>1. /\ t \in Turns /\ t < r /\ start'[t] = start[t]
        /\ RestoredTo(t, f, start[t][f])
    BY <1>1, <1>2 DEF StartWithinReach, StoreTypeOK
  <2>0. \A u \in known : u \in Turns /\ (u >= r => u >= t)
    BY <2>1 DEF StoreTypeOK
  <2>2. /\ \A u \in Later(t, f) : u \in Turns
        /\ Later(r, f) = {u \in Later(t, f) : u >= r}
    BY <2>0 DEF Later
  <2>3. CASE Later(t, f) = {}
    <3>1. disk'[f] = disk[f] /\ Later(t, f)' = {}
      BY <1>1, <1>2, <2>1, <2>2, <2>3 DEF RestoredTo
    <3> QED BY <2>1, <2>3, <3>1 DEF RestoredTo
  <2>4. CASE Later(t, f) # {}
    <3>1. PICK u \in Later(t, f) :
            (\A v \in Later(t, f) : u <= v) /\ start[t][f] = snap[u][f]
      BY <2>1, <2>4 DEF RestoredTo
    <3>2. CASE u < r
      <4>1. u \in Later(t, f)' /\ \A v \in Later(t, f)' : u <= v
        BY <1>2, <2>1, <3>1, <3>2
      <4>2. snap'[u][f] = start'[t][f]
        BY <1>2, <2>1, <2>2, <3>1, <3>2
      <4> QED BY <4>1, <4>2 DEF RestoredTo
    <3>3. CASE u >= r
      <4>1. Later(t, f)' = {}
        BY <1>2, <2>1, <2>2, <3>1, <3>3
      <4>2. u \in Later(r, f) /\ \A v \in Later(r, f) : u <= v
        BY <2>2, <3>1, <3>3
      <4>3. RestoredTo(r, f, start[t][f]) /\ RestoredTo(r, f, disk'[f])
        BY <1>1, <3>1, <4>2 DEF RestoredTo
      <4>4. disk'[f] = start[t][f]
        BY <4>3, RestoredToUnique DEF StoreTypeOK
      <4> QED BY <2>1, <4>1, <4>4 DEF RestoredTo
    <3> QED BY <2>2, <3>1, <3>2, <3>3
  <2> QED BY <2>3, <2>4
<1> QED BY <1>2, <1>3, <1>4 DEF StartWithinReach

\* A restart loads, for a turn that stays in reach, what was in memory.
LEMMA ReachRestart ==
  ASSUME ReachInv, Restart
  PROVE  FreshNumbers' /\ (exact \subseteq known)' /\ StartWithinReach'
<1> USE CheckpointAssumption DEF ReachInv, StoreTypeOK, Turns
<1>1. /\ known' = {u \in Turns : stored[u] = "whole"} /\ snap' = saved
      /\ cur' = NoTurn /\ disk' = disk
      /\ exact' = {t \in exact : \A u \in Turns : u >= t => u \in Intact}
      /\ \A u \in Turns : u \in known \cap known' => start'[u] = start[u]
  BY DEF Restart
<1>2. FreshNumbers'
  BY <1>1 DEF Restart, FreshNumbers
<1>3. (exact \subseteq known)'
  <2> SUFFICES ASSUME NEW t \in exact' PROVE t \in known'
    OBVIOUS
  <2>1. t \in exact /\ t \in Turns /\ t \in known
    BY <1>1
  <2>2. t \in Intact
    BY <1>1, <2>1
  <2> QED BY <1>1, <2>1, <2>2 DEF Intact
<1>4. ASSUME NEW t \in exact', NEW f \in Files
      PROVE  RestoredTo(t, f, start[t][f])'
  <2>1. /\ t \in Turns /\ t \in exact /\ RestoredTo(t, f, start[t][f])
        /\ \A u \in Turns : u >= t => u \in Intact
    BY <1>1 DEF StartWithinReach
  <2>2. \A u \in Turns : u >= t =>
          (u \in known' <=> u \in known) /\ (u \in known => snap'[u] = snap[u])
    BY <1>1, <2>1 DEF Intact
  <2>3. Later(t, f)' = Later(t, f) /\ \A u \in Later(t, f) : snap'[u][f] = snap[u][f]
    BY <1>1, <2>2 DEF Later
  <2>4. start'[t] = start[t]
    BY <1>1, <1>3, <2>1
  <2> QED BY <1>1, <2>1, <2>3, <2>4, ReachKept
<1> QED BY <1>2, <1>3, <1>4 DEF StartWithinReach

\* Every step preserves the invariant.
LEMMA ReachStep == ReachInv /\ [StoreNext]_storeVars => ReachInv'
<1> SUFFICES ASSUME ReachInv, [StoreNext]_storeVars PROVE ReachInv'
  OBVIOUS
<1>0. StoreTypeOK'
  BY StoreTypeStep DEF ReachInv
<1> DEFINE Rest == FreshNumbers /\ exact \subseteq known /\ StartWithinReach
<1>1. ASSUME NEW at \in 0 .. MaxLog, BeginTurn(at) PROVE Rest'
  BY <1>1, ReachBegin
<1>2. ASSUME BeginSynthetic \/ EndTurn \/ UNCHANGED storeVars PROVE Rest'
  <2>1. /\ known' = known /\ cur' = cur /\ turn' = turn /\ snap' = snap /\ disk' = disk
        /\ start' = start /\ exact' = exact
    BY <1>2 DEF BeginSynthetic, EndTurn, storeVars, memoryVars
  <2>2. FreshNumbers'
    BY <2>1 DEF ReachInv, FreshNumbers
  <2>3. StartWithinReach'
    BY <2>1 DEF ReachInv, StartWithinReach, RestoredTo, Later
  <2> QED BY <2>1, <2>2, <2>3 DEF ReachInv
<1>3. ASSUME NEW f \in Files, NEW c \in Contents, Edit(f, c) PROVE Rest'
  BY <1>3, ReachEdit
<1>4. ASSUME NEW e \in Files, NEW c \in Contents, EditUntracked(e, c) PROVE Rest'
  <2>1. /\ known' = known /\ cur' = cur /\ turn' = turn /\ snap' = snap /\ start' = start
        /\ exact' = {t \in exact : e \in Touched(t)}
        /\ \A f \in Files : f # e => disk'[f] = disk[f]
    BY <1>4 DEF EditUntracked, memoryVars, ReachInv, StoreTypeOK
  <2>2. ASSUME NEW t \in exact', NEW f \in Files
        PROVE  RestoredTo(t, f, start[t][f])'
    <3>1. /\ t \in Turns /\ RestoredTo(t, f, start[t][f]) /\ Later(t, f)' = Later(t, f)
          /\ f = e => Later(t, f) # {}
      BY <2>1 DEF ReachInv, StoreTypeOK, StartWithinReach, Later, Touched
    <3> QED BY <2>1, <3>1 DEF RestoredTo
  <2> QED BY <2>1, <2>2 DEF ReachInv, FreshNumbers, StartWithinReach
<1>5. ASSUME NEW t \in Turns, NEW failing \in SUBSET Files, RewindCode(t, failing)
      PROVE  Rest'
  BY <1>5, ReachRewindCode
<1>6. ASSUME NEW t \in Turns, NEW left, RewindConversation(t, left) PROVE Rest'
  BY <1>6, ReachRewindConversation
<1>7. ASSUME NEW t \in Turns, NEW left, RewindBoth(t, left) PROVE Rest'
  BY <1>7, ReachRewindBoth
<1>8. ASSUME ForkStore PROVE Rest'
  <2>1. known' = {} /\ cur' = NoTurn /\ exact' = {}
    BY <1>8, CheckpointAssumption DEF ForkStore, Forget, ReachInv, StoreTypeOK
  <2> QED BY <2>1, CheckpointAssumption DEF FreshNumbers, StartWithinReach
<1>9. ASSUME Restart PROVE Rest'
  BY <1>9, ReachRestart
<1> HIDE DEF Rest
<1>10. Rest'
  BY <1>1, <1>2, <1>3, <1>4, <1>5, <1>6, <1>7, <1>8, <1>9 DEF StoreNext
<1> QED BY <1>0, <1>10 DEF ReachInv, Rest

\* At every moment the store can reproduce the start of every turn in reach,
\* and numbers new checkpoints past all it lists.
THEOREM ReachHolds == StoreSpec => [](StartWithinReach /\ FreshNumbers)
<1>1. StoreInit => ReachInv
  BY CheckpointAssumption
  DEF StoreInit, ReachInv, StoreTypeOK, NoFiles, Snapshots, Bounds, FreshNumbers,
      StartWithinReach
<1>2. ReachInv /\ [StoreNext]_storeVars => ReachInv'
  BY ReachStep
<1>3. ReachInv => StartWithinReach /\ FreshNumbers
  BY DEF ReachInv
<1> QED BY <1>1, <1>2, <1>3, PTL DEF StoreSpec

\* The number of a new checkpoint is never that of a checkpoint the store still
\* lists, after rewinds, truncations and restarts alike (NextTurn, TruncateFrom).
THEOREM NumbersFresh == StoreSpec => []FreshNumbers
BY ReachHolds, PTL

\* A code rewind to a turn in reach, alone or with the conversation, leaves
\* the workspace as it was when the turn began.
LEMMA RestoreIsExact ==
  ASSUME ReachInv, NEW t \in exact, RestoreCode(t, {})
  PROVE  disk' = start[t]
<1>1. disk' \in [Files -> Contents] /\ \A f \in Files : RestoredTo(t, f, disk'[f])
  BY DEF RestoreCode
<1>2. t \in Turns /\ start[t] \in [Files -> Contents \cup {None}]
  BY DEF ReachInv, StoreTypeOK, Snapshots
<1>3. \A f \in Files : disk'[f] = start[t][f]
  BY <1>1, <1>2, RestoredToUnique DEF ReachInv, StoreTypeOK, StartWithinReach
<1> QED BY <1>1, <1>2, <1>3

THEOREM RewindsRestoreStart == StoreSpec => RewindRestoresStart
<1>1. StoreInit => ReachInv
  BY CheckpointAssumption
  DEF StoreInit, ReachInv, StoreTypeOK, NoFiles, Snapshots, Bounds, FreshNumbers,
      StartWithinReach
<1>2. ReachInv /\ [StoreNext]_storeVars => ReachInv'
  BY ReachStep
<1> DEFINE Exact(t) ==
      \/ RewindCode(t, {})
      \/ \E left \in SUBSET {u \in known : u >= t} : RewindBoth(t, left)
      => disk' = start[t]
<1>3. ReachInv => \A t \in exact : Exact(t)
  BY RestoreIsExact DEF RewindCode, RewindBoth
<1>4. ReachInv /\ [StoreNext]_storeVars => [\A t \in exact : Exact(t)]_storeVars
  BY <1>3
<1> QED BY <1>1, <1>2, <1>4, PTL DEF StoreSpec, RewindRestoresStart

----------------------------------------------------------------------------

LogOK == log \in Seq(Messages) /\ Len(log) <= MaxLog

\* Every step of the controller is a step of the store, or leaves it alone.
LEMMA StoreSteps ==
  ASSUME LogOK, [Next]_vars
  PROVE  [StoreNext]_storeVars
<1>1. CASE SendPrompt
  <2>1. Len(log) \in 0 .. MaxLog /\ BeginTurn(Len(log))
    BY <1>1, LenProperties, CheckpointAssumption DEF SendPrompt, LogOK
  <2> QED BY <2>1 DEF StoreNext
<1>2. CASE SendSynthetic
  BY <1>2 DEF SendSynthetic, StoreNext
<1>3. CASE AddMessage
  BY <1>3 DEF AddMessage
<1>4. CASE FinishTurn
  BY <1>4 DEF FinishTurn, StoreNext
<1>5. CASE Write
  BY <1>5 DEF Write, StoreNext
<1>6. ASSUME NEW t \in Turns, CutConversation(t) PROVE [StoreNext]_storeVars
  BY <1>6 DEF CutConversation, StoreNext
<1>7. ASSUME NEW t \in Turns, RestoreOnly(t) PROVE [StoreNext]_storeVars
  BY <1>7 DEF RestoreOnly, StoreNext
<1>8. ASSUME NEW t \in Turns, Fork(t) PROVE [StoreNext]_storeVars
  BY <1>8 DEF Fork, StoreNext
<1>9. ASSUME NEW t \in Turns, Summarize(t) PROVE [StoreNext]_storeVars
  BY <1>9 DEF Summarize
<1>10. CASE Compact
  BY <1>10 DEF Compact
<1>11. CASE Resume
  BY <1>11 DEF Resume, StoreNext
<1>12. CASE UNCHANGED vars
  BY <1>12 DEF vars
<1> QED BY <1>1, <1>2, <1>3, <1>4, <1>5, <1>6, <1>7, <1>8, <1>9, <1>10, <1>11, <1>12
        DEF Next

\* The log as a rewind, a fork, a restart, a compaction or a summary leaves it:
\* shorter or as long, and no message of a turn further from its start.
Shrinks ==
  /\ log' \in Seq(Messages) /\ Len(log') <= Len(log)
  /\ \A j \in 1 .. Len(log') :
       log'[j].of # 0 => \E i \in j .. Len(log) : log'[j] = log[i]

LEMMA PrefixOfLog ==
  ASSUME LogOK, NEW b \in 0 .. Len(log)
  PROVE  /\ SubSeq(log, 1, b) \in Seq(Messages) /\ Len(SubSeq(log, 1, b)) = b
         /\ \A i \in 1 .. b : SubSeq(log, 1, b)[i] = log[i]
<1>1. Len(log) \in Nat /\ \A i \in 1 .. b : log[i] \in Messages
  BY LenProperties, ElementOfSeq DEF LogOK
<1>2. b \in Int
  BY <1>1
<1>3. /\ SubSeq(log, 1, b) \in Seq(Messages)
      /\ Len(SubSeq(log, 1, b)) = IF 1 <= b THEN b - 1 + 1 ELSE 0
      /\ \A i \in 1 .. b - 1 + 1 : SubSeq(log, 1, b)[i] = log[1 + i - 1]
  BY <1>1, <1>2, SubSeqProperties
<1> QED BY <1>1, <1>2, <1>3

LEMMA CutShrinks ==
  ASSUME LogOK, NEW b \in 0 .. Len(log), log' = SubSeq(log, 1, b)
  PROVE  Shrinks
<1>1. Len(log) \in Nat
  BY LenProperties DEF LogOK
<1>2. /\ log' \in Seq(Messages) /\ Len(log') = b
      /\ \A j \in 1 .. b : log'[j] = log[j] /\ j \in j .. Len(log)
  BY <1>1, PrefixOfLog
<1> QED BY <1>1, <1>2 DEF Shrinks

LEMMA SuffixOfLog ==
  ASSUME LogOK, NEW k \in 1 .. Len(log)
  PROVE  /\ SubSeq(log, k + 1, Len(log)) \in Seq(Messages)
         /\ Len(SubSeq(log, k + 1, Len(log))) = Len(log) - k
         /\ \A i \in 1 .. (Len(log) - k) :
              SubSeq(log, k + 1, Len(log))[i] = log[k + i]
<1>1. Len(log) \in Nat /\ \A i \in (k + 1) .. Len(log) : log[i] \in Messages
  BY LenProperties, ElementOfSeq DEF LogOK
<1>2. k + 1 \in Int /\ Len(log) \in Int
  BY <1>1
<1> DEFINE rest == SubSeq(log, k + 1, Len(log))
<1>3. /\ rest \in Seq(Messages)
      /\ Len(rest) = IF k + 1 <= Len(log) THEN Len(log) - (k + 1) + 1 ELSE 0
      /\ \A i \in 1 .. Len(log) - (k + 1) + 1 : rest[i] = log[k + 1 + i - 1]
  BY <1>1, <1>2, SubSeqProperties
<1> HIDE DEF rest
<1>4. /\ Len(rest) = Len(log) - k
      /\ \A i \in 1 .. (Len(log) - k) : rest[i] = log[k + i]
  BY <1>1, <1>2, <1>3
<1> QED BY <1>3, <1>4 DEF rest

LEMMA CompactShrinks ==
  ASSUME LogOK, Compact
  PROVE  Shrinks
<1>0. Len(log) \in Nat /\ \A i \in 1 .. Len(log) : log[i] \in Messages
  BY LenProperties, ElementOfSeq DEF LogOK
<1>1. PICK k \in 1 .. (Len(log) - MinTail) :
        \E n \in 0 .. (k - 1) : \E kept \in [1 .. n -> 1 .. k] :
          /\ \A j \in 1 .. n : j <= kept[j]
          /\ log' = [j \in 1 .. n |-> log[kept[j]]]
                      \o <<Digest>> \o SubSeq(log, k + 1, Len(log))
  BY DEF Compact
<1>2. PICK n \in 0 .. (k - 1) : \E kept \in [1 .. n -> 1 .. k] :
          /\ \A j \in 1 .. n : j <= kept[j]
          /\ log' = [j \in 1 .. n |-> log[kept[j]]]
                      \o <<Digest>> \o SubSeq(log, k + 1, Len(log))
  BY <1>1
<1>3. PICK kept \in [1 .. n -> 1 .. k] :
          /\ \A j \in 1 .. n : j <= kept[j]
          /\ log' = [j \in 1 .. n |-> log[kept[j]]]
                      \o <<Digest>> \o SubSeq(log, k + 1, Len(log))
  BY <1>2
<1> DEFINE first == [j \in 1 .. n |-> log[kept[j]]]
           rest == SubSeq(log, k + 1, Len(log))
<1>4. k \in 1 .. Len(log) /\ n \in Nat /\ n < k /\ k \in Nat
  BY <1>0, RewindAssumption
<1>5. first \in Seq(Messages) /\ Len(first) = n
  BY <1>0, <1>4
<1>6. Digest \in Messages /\ Digest.of = 0
  BY RewindAssumption DEF Digest, Messages
<1>7. /\ rest \in Seq(Messages) /\ Len(rest) = Len(log) - k
      /\ \A i \in 1 .. (Len(log) - k) : rest[i] = log[k + i]
  BY <1>4, SuffixOfLog
<1>8. \A j \in 1 .. n : first[j] = log[kept[j]] /\ kept[j] \in j .. Len(log)
  BY <1>3, <1>4, <1>0
<1>9. log' = (first \o <<Digest>>) \o rest
  BY <1>3
<1> HIDE DEF first, rest
<1> DEFINE head == first \o <<Digest>>
<1>10. <<Digest>> \in Seq(Messages) /\ Len(<<Digest>>) = 1 /\ <<Digest>>[1] = Digest
  BY <1>6
<1>11. /\ head \in Seq(Messages) /\ Len(head) = n + 1
       /\ \A i \in 1 .. n + 1 : head[i] = IF i <= n THEN first[i] ELSE <<Digest>>[i - n]
  BY <1>5, <1>10, ConcatProperties
<1> HIDE DEF head
<1>12. /\ head \o rest \in Seq(Messages)
       /\ Len(head \o rest) = Len(head) + Len(rest)
       /\ \A i \in 1 .. Len(head) + Len(rest) : (head \o rest)[i] =
            IF i <= Len(head) THEN head[i] ELSE rest[i - Len(head)]
  BY <1>7, <1>11, ConcatProperties, Zenon
<1>13. log' = head \o rest
  BY <1>9 DEF head
<1>14. log' \in Seq(Messages) /\ Len(log') = n + 1 + Len(log) - k
  BY <1>0, <1>4, <1>7, <1>11, <1>12, <1>13
<1>15. ASSUME NEW j \in 1 .. Len(log'), log'[j].of # 0
       PROVE  \E i \in j .. Len(log) : log'[j] = log[i]
  <2>1. j \in Nat /\ j >= 1 /\ j <= n + 1 + Len(log) - k
    BY <1>0, <1>4, <1>14
  <2>2. log'[j] = IF j <= n + 1 THEN head[j] ELSE rest[j - (n + 1)]
    BY <1>0, <1>4, <1>7, <1>11, <1>12, <1>13, <2>1
  <2>3. CASE j <= n
    <3>1. log'[j] = first[j] /\ j \in 1 .. n
      BY <1>4, <1>11, <2>1, <2>2, <2>3
    <3> QED BY <1>8, <3>1
  <2>4. CASE j = n + 1
    <3>1. log'[j] = <<Digest>>[n + 1 - n]
      BY <1>4, <1>11, <2>1, <2>2, <2>4
    <3>2. log'[j] = Digest
      BY <1>4, <1>10, <3>1
    <3> QED BY <1>6, <1>15, <3>2
  <2>5. CASE j > n + 1
    <3>1. log'[j] = rest[j - (n + 1)] /\ j - (n + 1) \in 1 .. (Len(log) - k)
      BY <1>0, <1>4, <2>1, <2>2, <2>5
    <3>2. log'[j] = log[k + (j - (n + 1))]
      BY <1>7, <3>1
    <3>3. k + (j - (n + 1)) \in j .. Len(log)
      BY <1>0, <1>4, <3>1
    <3> QED BY <3>2, <3>3
  <2> QED BY <1>4, <2>1, <2>3, <2>4, <2>5
<1>16. Len(log') <= Len(log)
  BY <1>0, <1>4, <1>14
<1> QED BY <1>14, <1>15, <1>16 DEF Shrinks

LEMMA SummaryShrinks ==
  ASSUME LogOK, NEW b \in Nat, log' = SummarizedFrom(b) \/ log' = SummarizedUpTo(b)
  PROVE  Shrinks
<1>0. Len(log) \in Nat /\ \A i \in 1 .. Len(log) : log[i] \in Messages
  BY LenProperties, ElementOfSeq DEF LogOK
<1>1. Summary \in Messages /\ Summary.of = 0
  BY RewindAssumption DEF Summary, Messages
<1>2. CASE log' = log
  BY <1>0, <1>2 DEF LogOK, Shrinks
<1>3. CASE b < Len(log) /\ log' = Append(SubSeq(log, 1, b), Summary)
  <2> DEFINE first == SubSeq(log, 1, b)
  <2>1. first \in Seq(Messages) /\ Len(first) = b /\ \A i \in 1 .. b : first[i] = log[i]
    BY <1>0, <1>3, PrefixOfLog
  <2>2. log' = Append(first, Summary)
    BY <1>3
  <2> HIDE DEF first
  <2>3. /\ log' \in Seq(Messages) /\ Len(log') = b + 1 /\ log'[b + 1] = Summary
        /\ \A j \in 1 .. b : log'[j] = log[j]
    BY <1>1, <2>1, <2>2, AppendProperties
  <2>4. Len(log') <= Len(log)
    BY <1>0, <1>3, <2>3
  <2>5. ASSUME NEW j \in 1 .. Len(log'), log'[j].of # 0
        PROVE  \E i \in j .. Len(log) : log'[j] = log[i]
    <3>1. j \in 1 .. b
      BY <1>1, <2>3, <2>5
    <3> QED BY <1>0, <1>3, <2>3, <3>1
  <2> QED BY <2>3, <2>4, <2>5 DEF Shrinks
<1>4. CASE b \in 1 .. Len(log) /\ log' = <<Summary>> \o SubSeq(log, b + 1, Len(log))
  <2> DEFINE rest == SubSeq(log, b + 1, Len(log))
  <2>1. /\ rest \in Seq(Messages) /\ Len(rest) = Len(log) - b
        /\ \A i \in 1 .. (Len(log) - b) : rest[i] = log[b + i]
    BY <1>4, SuffixOfLog
  <2>2. log' = <<Summary>> \o rest
    BY <1>4
  <2> HIDE DEF rest
  <2>3. <<Summary>> \in Seq(Messages) /\ Len(<<Summary>>) = 1 /\ <<Summary>>[1] = Summary
    BY <1>1
  <2>4. /\ log' \in Seq(Messages) /\ Len(log') = 1 + (Len(log) - b)
        /\ \A j \in 1 .. 1 + (Len(log) - b) :
             log'[j] = IF j <= 1 THEN <<Summary>>[j] ELSE rest[j - 1]
    BY <2>1, <2>2, <2>3, ConcatProperties
  <2>5. Len(log') <= Len(log)
    BY <1>0, <1>4, <2>4
  <2>6. ASSUME NEW j \in 1 .. Len(log'), log'[j].of # 0
        PROVE  \E i \in j .. Len(log) : log'[j] = log[i]
    <3>1. j \in 1 .. 1 + (Len(log) - b)
      BY <2>4
    <3>2. j # 1
      BY <1>1, <2>3, <2>4, <2>6, <3>1
    <3>3. log'[j] = rest[j - 1] /\ j - 1 \in 1 .. (Len(log) - b)
      BY <1>0, <1>4, <2>4, <3>1, <3>2
    <3>4. log'[j] = log[b + (j - 1)] /\ b + (j - 1) \in j .. Len(log)
      BY <1>0, <1>4, <2>1, <3>3
    <3> QED BY <3>4
  <2> QED BY <2>4, <2>5, <2>6 DEF Shrinks
<1> QED BY <1>2, <1>3, <1>4 DEF SummarizedFrom, SummarizedUpTo

\* A message more at the end of the log.
LEMMA LogGrows ==
  ASSUME LogOK, Len(log) < MaxLog, NEW m \in Messages, log' = Append(log, m)
  PROVE  /\ LogOK' /\ Len(log') = Len(log) + 1 /\ log'[Len(log) + 1] = m
         /\ \A i \in 1 .. Len(log) : log'[i] = log[i]
<1>1. Len(log) \in Nat
  BY LenProperties DEF LogOK
<1> QED BY <1>1, AppendProperties, CheckpointAssumption DEF LogOK

\* Each action that rewrites the log makes it shorter.
LEMMA RewritesShrink ==
  ASSUME TypeOK,
         \/ Compact \/ Resume
         \/ \E t \in Turns : CutConversation(t) \/ Fork(t) \/ Summarize(t)
  PROVE  Shrinks
<1>0. LogOK /\ Len(log) \in Nat
  BY LenProperties DEF TypeOK, LogOK
<1>1. CASE Compact
  BY <1>0, <1>1, CompactShrinks
<1>2. CASE Resume
  <2>1. PICK n \in 0 .. Len(log) : log' = SubSeq(log, 1, n)
    BY <1>2 DEF Resume
  <2> QED BY <1>0, <2>1, CutShrinks
<1>3. ASSUME NEW t \in Turns, CutConversation(t) PROVE Shrinks
  <2>1. bound[t] \in 0 .. Len(log)
    BY <1>0, <1>3, CheckpointAssumption
    DEF CutConversation, CanCut, HasBoundary, TypeOK, Bounds
  <2> QED BY <1>0, <1>3, <2>1, CutShrinks DEF CutConversation
<1>4. ASSUME NEW t \in Turns, Fork(t) PROVE Shrinks
  <2> DEFINE b == IF bound[t] > Len(log) THEN Len(log) ELSE bound[t]
  <2>1. b \in 0 .. Len(log)
    BY <1>0, <1>4, CheckpointAssumption DEF Fork, HasBoundary, TypeOK, Bounds
  <2>2. log' = SubSeq(log, 1, b)
    BY <1>4 DEF Fork
  <2> HIDE DEF b
  <2> QED BY <1>0, <2>1, <2>2, CutShrinks
<1>5. ASSUME NEW t \in Turns, Summarize(t) PROVE Shrinks
  <2>1. bound[t] \in Nat
    BY <1>5, CheckpointAssumption DEF Summarize, HasBoundary, TypeOK, Bounds
  <2> QED BY <1>0, <1>5, <2>1, SummaryShrinks DEF Summarize
<1> QED BY <1>1, <1>2, <1>3, <1>4, <1>5

\* Every step keeps the types.
LEMMA TypeStep ==
  ASSUME TypeOK, [Next]_vars
  PROVE  TypeOK'
<1>0. LogOK /\ Len(log) \in Nat /\ NoBound \in Bounds
  BY LenProperties DEF TypeOK, LogOK, Bounds
<1>1. StoreTypeOK'
  BY <1>0, StoreSteps, StoreTypeStep DEF TypeOK
<1> DEFINE Rest ==
      /\ bound \in [Turns -> Bounds]
      /\ log \in Seq(Messages) /\ Len(log) <= MaxLog
      /\ prompts \in 0 .. MaxPrompts
      /\ origin \in [Turns -> 0 .. MaxPrompts]
      /\ life \in SUBSET Turns /\ placed \in SUBSET Turns
<1>2. ASSUME Shrinks PROVE log' \in Seq(Messages) /\ Len(log') <= MaxLog
  BY <1>0, <1>2, LenProperties, CheckpointAssumption DEF Shrinks, LogOK
<1>3. ASSUME NEW m \in Messages, Len(log) < MaxLog, log' = Append(log, m)
      PROVE  log' \in Seq(Messages) /\ Len(log') <= MaxLog
  BY <1>0, <1>3, LogGrows DEF LogOK
<1>4. ASSUME SendPrompt PROVE Rest'
  <2>1. /\ turn \in Turns /\ Len(log) \in Bounds
        /\ prompts + 1 \in 0 .. MaxPrompts
        /\ [of |-> prompts + 1, role |-> "user"] \in Messages
    BY <1>0, <1>4, CheckpointAssumption, RewindAssumption
    DEF SendPrompt, BeginTurn, TypeOK, StoreTypeOK, Turns, Bounds, Messages
  <2>2. log' \in Seq(Messages) /\ Len(log') <= MaxLog
    BY <1>3, <1>4, <2>1 DEF SendPrompt
  <2> QED BY <1>4, <2>1, <2>2 DEF SendPrompt, TypeOK
<1>5. ASSUME SendSynthetic \/ AddMessage PROVE Rest'
  <2>1. /\ [of |-> prompts, role |-> "user"] \in Messages
        /\ [of |-> prompts, role |-> "work"] \in Messages
    BY DEF TypeOK, Messages
  <2>2. log' \in Seq(Messages) /\ Len(log') <= MaxLog
    BY <1>3, <1>5, <2>1 DEF SendSynthetic, AddMessage
  <2> QED BY <1>5, <2>2 DEF SendSynthetic, AddMessage, TypeOK, logHistory
<1>6. ASSUME FinishTurn \/ Write PROVE Rest'
  BY <1>6 DEF FinishTurn, Write, TypeOK, logVars, logHistory
<1>7. ASSUME NEW t \in Turns, CutConversation(t) PROVE Rest'
  <2>1. log' \in Seq(Messages) /\ Len(log') <= MaxLog
    BY <1>2, <1>7, RewritesShrink
  <2> QED BY <1>0, <1>7, <2>1 DEF CutConversation, TypeOK, logHistory
<1>8. ASSUME NEW t \in Turns, RestoreOnly(t) PROVE Rest'
  BY <1>8 DEF RestoreOnly, TypeOK, logVars, logHistory
<1>9. ASSUME NEW t \in Turns, Fork(t) PROVE Rest'
  <2>1. log' \in Seq(Messages) /\ Len(log') <= MaxLog
    BY <1>2, <1>9, RewritesShrink
  <2>2. bound' = [u \in Turns |-> NoBound] /\ UNCHANGED <<prompts, origin>>
        /\ life' = {} /\ placed' = {}
    BY <1>9 DEF Fork
  <2> QED BY <1>0, <2>1, <2>2 DEF TypeOK
<1>10. ASSUME NEW t \in Turns, Summarize(t) PROVE Rest'
  <2>1. log' \in Seq(Messages) /\ Len(log') <= MaxLog
    BY <1>2, <1>10, RewritesShrink
  <2>2. bound' = [u \in Turns |-> NoBound] /\ UNCHANGED <<prompts, origin, life>>
        /\ placed' = {}
    BY <1>10 DEF Summarize
  <2> QED BY <1>0, <2>1, <2>2 DEF TypeOK
<1>11. ASSUME Compact PROVE Rest'
  <2>1. log' \in Seq(Messages) /\ Len(log') <= MaxLog
    BY <1>2, <1>11, RewritesShrink
  <2>2. UNCHANGED <<bound, prompts, origin, life>> /\ placed' = {}
    BY <1>11 DEF Compact
  <2> QED BY <2>1, <2>2 DEF TypeOK
<1>12. ASSUME Resume PROVE Rest'
  <2>1. log' \in Seq(Messages) /\ Len(log') <= MaxLog
    BY <1>2, <1>12, RewritesShrink
  <2>2. /\ bound' = savedIndex /\ UNCHANGED <<prompts, origin>>
        /\ life' = {} /\ placed' \subseteq placed
    BY <1>12 DEF Resume
  <2> QED BY <2>1, <2>2 DEF TypeOK, StoreTypeOK
<1>13. ASSUME UNCHANGED vars PROVE Rest'
  BY <1>13 DEF vars, TypeOK, logVars, logHistory
<1> HIDE DEF Rest
<1>14. Rest'
  BY <1>4, <1>5, <1>6, <1>7, <1>8, <1>9, <1>10, <1>11, <1>12, <1>13 DEF Next
<1> QED BY <1>1, <1>14 DEF TypeOK, Rest

LEMMA TypeInit == Init => TypeOK
<1>1. StoreInit => StoreTypeOK
  BY CheckpointAssumption
  DEF StoreInit, StoreTypeOK, NoFiles, Snapshots, Bounds
<1>2. <<>> \in Seq(Messages) /\ Len(<<>>) = 0
  OBVIOUS
<1> QED BY <1>1, <1>2, CheckpointAssumption, RewindAssumption DEF Init, TypeOK, Bounds

\* The controller's variables keep their types.
THEOREM RewindTypeCorrect == Spec => []TypeOK
<1>1. TypeOK /\ [Next]_vars => TypeOK'
  BY TypeStep
<1> QED BY <1>1, TypeInit, PTL DEF Spec

\* The controller uses the store as the store's own specification says: each
\* of its actions is one step of the store or leaves it alone, so that what
\* is proved of the store holds under the controller.
THEOREM RewindImplementsStore == Spec => IsCheckpointStore
<1>1. Init => StoreInit
  BY DEF Init
<1>2. TypeOK /\ [Next]_vars => [StoreNext]_storeVars
  BY StoreSteps DEF TypeOK, LogOK
<1> QED BY <1>1, <1>2, RewindTypeCorrect, PTL DEF Spec, StoreSpec, IsCheckpointStore

\* So does the controller, whose rewinds go through the store.
THEOREM RewindNumbersFresh == Spec => []FreshNumbers
BY RewindImplementsStore, NumbersFresh, PTL DEF IsCheckpointStore

----------------------------------------------------------------------------

\* No message of an earlier prompt lies past the boundary of a turn of this
\* process: rewrites of the log only move messages towards its start.
KeepInv ==
  \A t \in life :
    /\ origin[t] \in 1 .. prompts
    /\ bound[t] # NoBound =>
         \A i \in 1 .. Len(log) : log[i].of \in 1 .. (origin[t] - 1) => i <= bound[t]

LEMMA KeepShrinks ==
  ASSUME TypeOK, KeepInv, Shrinks, prompts' = prompts, origin' = origin,
         life' \subseteq life, \A t \in life : bound'[t] \in {bound[t], NoBound}
  PROVE  KeepInv'
<1> SUFFICES ASSUME NEW t \in life', bound'[t] # NoBound, NEW j \in 1 .. Len(log'),
                    log'[j].of \in 1 .. (origin'[t] - 1)
             PROVE  j <= bound'[t]
  BY DEF KeepInv
<1>1. bound'[t] = bound[t] /\ t \in life
  OBVIOUS
<1>2. log'[j].of # 0
  BY <1>1 DEF TypeOK
<1>3. PICK i \in j .. Len(log) : log'[j] = log[i]
  BY <1>2 DEF Shrinks
<1>4. Len(log) \in Nat /\ Len(log') \in Nat
  BY LenProperties DEF TypeOK, Shrinks
<1>5. i \in 1 .. Len(log) /\ j <= i /\ i <= bound[t]
  BY <1>1, <1>3, <1>4 DEF KeepInv
<1>6. bound[t] \in Nat
  BY <1>1, CheckpointAssumption DEF TypeOK, Bounds
<1> QED BY <1>1, <1>4, <1>5, <1>6

LEMMA KeepStep ==
  ASSUME TypeOK, KeepInv, [Next]_vars
  PROVE  KeepInv'
<1>0. LogOK /\ Len(log) \in Nat /\ prompts \in Nat
  BY LenProperties, RewindAssumption DEF TypeOK, LogOK
<1>1. CASE SendPrompt
  <2> DEFINE m == [of |-> prompts + 1, role |-> "user"]
  <2>1. /\ turn \in Turns /\ m \in Messages /\ m.of = prompts + 1
        /\ log' = Append(log, m) /\ Len(log) < MaxLog
        /\ prompts' = prompts + 1 /\ life' = life \cup {turn}
        /\ origin' = [origin EXCEPT ![turn] = prompts + 1]
        /\ bound' = [bound EXCEPT ![turn] = Len(log)]
    BY <1>0, <1>1, CheckpointAssumption, RewindAssumption
    DEF SendPrompt, BeginTurn, TypeOK, StoreTypeOK, Turns, Messages
  <2> HIDE DEF m
  <2>2. /\ Len(log') = Len(log) + 1 /\ log'[Len(log) + 1] = m
        /\ \A i \in 1 .. Len(log) : log'[i] = log[i]
    BY <1>0, <2>1, LogGrows
  <2>3. origin'[turn] = prompts + 1 /\ bound'[turn] = Len(log)
    BY <2>1 DEF TypeOK
  <2>4. \A t \in life : t # turn => origin'[t] = origin[t] /\ bound'[t] = bound[t]
    BY <2>1 DEF TypeOK
  <2>5. ASSUME NEW t \in life'
        PROVE  /\ origin'[t] \in 1 .. prompts'
               /\ bound'[t] # NoBound =>
                    \A i \in 1 .. Len(log') :
                      log'[i].of \in 1 .. (origin'[t] - 1) => i <= bound'[t]
    <3>1. CASE t = turn
      <4>1. \A i \in 1 .. Len(log') : i # Len(log) + 1 => i <= Len(log)
        BY <1>0, <2>2
      <4> QED BY <1>0, <2>1, <2>2, <2>3, <3>1, <4>1
    <3>2. CASE t # turn
      <4>1. t \in life /\ origin'[t] = origin[t] /\ bound'[t] = bound[t]
            /\ origin[t] \in 1 .. prompts
        BY <2>1, <2>4, <3>2 DEF KeepInv
      <4>2. \A i \in 1 .. Len(log') :
              log'[i].of \in 1 .. (origin[t] - 1) => i \in 1 .. Len(log) /\ log'[i] = log[i]
        BY <1>0, <2>1, <2>2, <4>1
      <4> QED BY <1>0, <2>1, <4>1, <4>2 DEF KeepInv
    <3> QED BY <3>1, <3>2
  <2> QED BY <2>5 DEF KeepInv
<1>2. CASE SendSynthetic \/ AddMessage
  <2>1. PICK m \in Messages : m.of = prompts /\ log' = Append(log, m)
    <3>1. /\ [of |-> prompts, role |-> "user"] \in Messages
          /\ [of |-> prompts, role |-> "work"] \in Messages
      BY DEF TypeOK, Messages
    <3> QED BY <1>2, <3>1 DEF SendSynthetic, AddMessage
  <2>2. Len(log) < MaxLog /\ UNCHANGED <<bound, prompts, origin, life>>
    BY <1>2 DEF SendSynthetic, AddMessage, logHistory
  <2>3. /\ Len(log') = Len(log) + 1 /\ log'[Len(log) + 1] = m
        /\ \A i \in 1 .. Len(log) : log'[i] = log[i]
    BY <1>0, <2>1, <2>2, LogGrows
  <2>4. ASSUME NEW t \in life
        PROVE  /\ origin[t] \in 1 .. prompts
               /\ bound[t] # NoBound =>
                    \A i \in 1 .. Len(log') :
                      log'[i].of \in 1 .. (origin[t] - 1) => i <= bound[t]
    <3>1. origin[t] \in 1 .. prompts
      BY DEF KeepInv
    <3>2. \A i \in 1 .. Len(log') :
            log'[i].of \in 1 .. (origin[t] - 1) => i \in 1 .. Len(log) /\ log'[i] = log[i]
      BY <1>0, <2>1, <2>3, <3>1
    <3> QED BY <3>1, <3>2 DEF KeepInv
  <2> QED BY <2>2, <2>4 DEF KeepInv
<1>3. CASE FinishTurn \/ Write \/ UNCHANGED vars
  BY <1>3 DEF FinishTurn, Write, vars, logVars, logHistory, KeepInv
<1>4. ASSUME NEW t \in Turns, RestoreOnly(t) PROVE KeepInv'
  BY <1>4 DEF RestoreOnly, logVars, logHistory, KeepInv
<1>5. ASSUME NEW t \in Turns, CutConversation(t) PROVE KeepInv'
  <2>1. \A u \in life : bound'[u] \in {bound[u], NoBound}
    BY <1>5 DEF CutConversation, TypeOK
  <2>2. prompts' = prompts /\ origin' = origin /\ life' = life
    BY <1>5 DEF CutConversation, logHistory
  <2> QED BY <1>5, <2>1, <2>2, RewritesShrink, KeepShrinks
<1>6. ASSUME NEW t \in Turns, Fork(t) PROVE KeepInv'
  BY <1>6 DEF Fork, KeepInv
<1>7. ASSUME NEW t \in Turns, Summarize(t) PROVE KeepInv'
  <2>1. /\ prompts' = prompts /\ origin' = origin /\ life' = life
        /\ bound' = [u \in Turns |-> NoBound]
    BY <1>7 DEF Summarize
  <2>2. \A u \in life : bound'[u] \in {bound[u], NoBound}
    BY <2>1 DEF TypeOK
  <2> QED BY <1>7, <2>1, <2>2, RewritesShrink, KeepShrinks
<1>8. CASE Compact
  <2>1. prompts' = prompts /\ origin' = origin /\ life' = life /\ bound' = bound
    BY <1>8 DEF Compact
  <2> QED BY <1>8, <2>1, RewritesShrink, KeepShrinks
<1>9. CASE Resume
  BY <1>9 DEF Resume, KeepInv
<1> QED BY <1>1, <1>2, <1>3, <1>4, <1>5, <1>6, <1>7, <1>8, <1>9 DEF Next

\* A conversation rewind and a fork keep every message of the earlier turns.
LEMMA CutKeepsEarlier ==
  ASSUME TypeOK, KeepInv, NEW t \in life, CutConversation(t) \/ Fork(t),
         NEW i \in 1 .. Len(log), log[i].of \in 1 .. (origin[t] - 1)
  PROVE  i <= Len(log')
<1>0. LogOK /\ Len(log) \in Nat
  BY LenProperties DEF TypeOK, LogOK
<1>1. bound[t] # NoBound /\ bound[t] \in Nat
  BY CheckpointAssumption
  DEF CutConversation, Fork, CanCut, HasBoundary, TypeOK, Bounds
<1>2. i <= bound[t]
  BY <1>1 DEF KeepInv
<1>3. CASE CutConversation(t)
  <2>1. bound[t] \in 0 .. Len(log) /\ log' = SubSeq(log, 1, bound[t])
    BY <1>0, <1>1, <1>3 DEF CutConversation, CanCut
  <2> QED BY <1>0, <1>2, <2>1, PrefixOfLog
<1>4. CASE Fork(t)
  <2> DEFINE b == IF bound[t] > Len(log) THEN Len(log) ELSE bound[t]
  <2>1. b \in 0 .. Len(log) /\ i <= b
    BY <1>0, <1>1, <1>2
  <2>2. log' = SubSeq(log, 1, b)
    BY <1>4 DEF Fork
  <2> HIDE DEF b
  <2> QED BY <1>0, <2>1, <2>2, PrefixOfLog
<1> QED BY <1>3, <1>4

THEOREM RewindsKeepEarlier == Spec => RewindKeepsEarlier
<1>1. Init => KeepInv
  BY DEF Init, KeepInv
<1>2. TypeOK /\ KeepInv /\ [Next]_vars => KeepInv'
  BY KeepStep
<1> DEFINE Keeps ==
      \A t \in life : CutConversation(t) \/ Fork(t) =>
        \A i \in 1 .. Len(log) :
          log[i].of \in 1 .. (origin[t] - 1) => i <= Len(log')
<1>3. TypeOK /\ KeepInv /\ [Next]_vars => [Keeps]_vars
  BY CutKeepsEarlier
<1> HIDE DEF Keeps
<1>4. Spec => [][Keeps]_vars
  BY <1>1, <1>2, <1>3, RewindTypeCorrect, PTL DEF Spec
<1> QED BY <1>4 DEF Keeps, RewindKeepsEarlier

----------------------------------------------------------------------------

\* The log marks turn t's first message at its boundary.
Marks(t) ==
  /\ bound[t] <= Len(log) /\ origin[t] \in 1 .. prompts
  /\ \A i \in 1 .. Len(log) : i <= bound[t] <=> log[i].of < origin[t]

\* Boundaries are those of listed checkpoints, in memory and in the files; from
\* a turn on that marks its messages, the boundaries are those the checkpoints
\* hold, and grow with the turns.
SavedWhole == \A t \in Turns : savedIndex[t] # NoBound => stored[t] = "whole"
BoundKnown == \A t \in Turns : bound[t] # NoBound => t \in known
SameBound == \A t \in placed, u \in Turns :
               t \in known /\ u \in known /\ t <= u => bound[u] = msgIndex[u]
Ordered == \A t \in placed, u \in Turns :
             t < u /\ bound[t] # NoBound /\ bound[u] # NoBound => bound[t] <= bound[u]
Marked == \A t \in placed : bound[t] # NoBound => Marks(t)
PastPrompts == \A i \in 1 .. Len(log) : log[i].of <= prompts

PlacedInv ==
  /\ BoundKnown /\ SameBound /\ Ordered /\ Marked /\ PastPrompts

LEMMA SavedWholeStep ==
  ASSUME StoreTypeOK, SavedWhole, [StoreNext]_storeVars
  PROVE  SavedWhole'
<1> USE DEF SavedWhole
<1>0. ASSUME NEW t \in Turns, NEW files, NEW at, Persist(t, files, at)
      PROVE  SavedWhole'
  <2>1. CASE /\ stored' = [stored EXCEPT ![t] = "whole"]
             /\ savedIndex' = [savedIndex EXCEPT ![t] = at]
    BY <2>1 DEF StoreTypeOK
  <2>2. CASE /\ stored' = [stored EXCEPT ![t] = "torn"]
             /\ savedIndex' = [savedIndex EXCEPT ![t] = NoBound]
    BY <2>2 DEF StoreTypeOK
  <2>3. CASE UNCHANGED fileVars
    BY <2>3 DEF fileVars
  <2> QED BY <1>0, <2>1, <2>2, <2>3 DEF Persist
<1>1. ASSUME NEW S, RemoveFiles(S) PROVE SavedWhole'
  BY <1>1 DEF RemoveFiles
<1>2. ASSUME UNCHANGED fileVars PROVE SavedWhole'
  BY <1>2 DEF fileVars
<1>3. ASSUME NEW at \in 0 .. MaxLog, BeginTurn(at) PROVE SavedWhole'
  <2>1. turn \in Turns
    BY <1>3, CheckpointAssumption DEF BeginTurn, StoreTypeOK, Turns
  <2> QED BY <1>0, <1>3, <2>1 DEF BeginTurn
<1>4. ASSUME NEW f \in Files, NEW c \in Contents, Edit(f, c) PROVE SavedWhole'
  <2>1. cur \in Turns
    BY <1>4 DEF Edit, StoreTypeOK
  <2> QED BY <1>0, <1>2, <1>4, <2>1 DEF Edit, Snapshot
<1>5. ASSUME NEW f \in Files, NEW c \in Contents, EditUntracked(f, c) PROVE SavedWhole'
  BY <1>2, <1>5 DEF EditUntracked
<1>6. ASSUME NEW t \in Turns, NEW failing \in SUBSET Files, RewindCode(t, failing)
      PROVE  SavedWhole'
  BY <1>2, <1>6 DEF RewindCode
<1>7. ASSUME NEW t \in Turns, NEW left, RewindConversation(t, left) \/ RewindBoth(t, left)
      PROVE  SavedWhole'
  BY <1>1, <1>7 DEF RewindConversation, RewindBoth, TruncateFrom
<1>8. ASSUME BeginSynthetic \/ EndTurn \/ Restart \/ UNCHANGED storeVars PROVE SavedWhole'
  BY <1>2, <1>8 DEF BeginSynthetic, EndTurn, Restart, storeVars
<1>9. ASSUME ForkStore PROVE SavedWhole'
  BY <1>1, <1>9 DEF ForkStore
<1> QED BY <1>3, <1>4, <1>5, <1>6, <1>7, <1>8, <1>9 DEF StoreNext

LEMMA PromptsAreNumbers ==
  ASSUME LogOK, NEW i \in 1 .. Len(log)
  PROVE  log[i].of \in Nat
<1>1. log[i] \in Messages
  BY ElementOfSeq DEF LogOK
<1> QED BY <1>1, RewindAssumption DEF Messages

\* A new turn's boundary is the end of the log, past every other boundary.
LEMMA PlacedSend ==
  ASSUME TypeOK, FreshNumbers, PlacedInv, SendPrompt
  PROVE  PlacedInv'
<1>0. LogOK /\ Len(log) \in Nat /\ prompts \in Nat
  BY LenProperties, RewindAssumption DEF TypeOK, LogOK
<1> DEFINE m == [of |-> prompts + 1, role |-> "user"]
<1>1. /\ turn \in Turns /\ m \in Messages /\ m.of = prompts + 1
      /\ log' = Append(log, m) /\ Len(log) < MaxLog
      /\ prompts' = prompts + 1 /\ placed' = placed \cup {turn}
      /\ known' = known \cup {turn}
      /\ origin' = [origin EXCEPT ![turn] = prompts + 1]
      /\ bound' = [bound EXCEPT ![turn] = Len(log)]
      /\ msgIndex' = [msgIndex EXCEPT ![turn] = Len(log)]
  BY <1>0, CheckpointAssumption, RewindAssumption
  DEF SendPrompt, BeginTurn, TypeOK, StoreTypeOK, Turns, Messages
<1> HIDE DEF m
<1>2. /\ Len(log') = Len(log) + 1 /\ log'[Len(log) + 1] = m
      /\ \A i \in 1 .. Len(log) : log'[i] = log[i]
  BY <1>0, <1>1, LogGrows
<1>3. origin'[turn] = prompts + 1 /\ bound'[turn] = Len(log) /\ msgIndex'[turn] = Len(log)
  BY <1>1 DEF TypeOK, StoreTypeOK
<1>4. \A t \in Turns : t # turn =>
        origin'[t] = origin[t] /\ bound'[t] = bound[t] /\ msgIndex'[t] = msgIndex[t]
  BY <1>1 DEF TypeOK, StoreTypeOK
<1>5. /\ \A t \in known : t < turn
      /\ \A t \in Turns : bound[t] # NoBound => t < turn
      /\ placed \subseteq Turns /\ known \subseteq Turns /\ turn \in Int
      /\ \A t \in Turns : t \in Int
  BY <1>1 DEF FreshNumbers, PlacedInv, BoundKnown, TypeOK, StoreTypeOK, Turns
<1>6. BoundKnown'
  BY <1>1, <1>4 DEF PlacedInv, BoundKnown
<1>7. SameBound'
  <2> SUFFICES ASSUME NEW t \in placed', NEW u \in Turns, t \in known', u \in known', t <= u
               PROVE  bound'[u] = msgIndex'[u]
    BY DEF SameBound
  <2>1. CASE u = turn
    BY <1>3, <2>1
  <2>2. CASE u # turn
    <3>1. u \in known /\ t # turn
      BY <1>1, <1>5, <2>2
    <3>2. t \in placed /\ t \in known
      BY <1>1, <3>1
    <3> QED BY <1>4, <2>2, <3>1, <3>2 DEF PlacedInv, SameBound
  <2> QED BY <2>1, <2>2
<1>8. Ordered'
  <2> SUFFICES ASSUME NEW t \in placed', NEW u \in Turns, t < u,
                      bound'[t] # NoBound, bound'[u] # NoBound
               PROVE  bound'[t] <= bound'[u]
    BY DEF Ordered
  <2>1. CASE u = turn
    <3>1. t \in placed /\ t # turn /\ bound'[t] = bound[t]
      BY <1>1, <1>4, <1>5, <2>1
    <3> QED BY <1>3, <2>1, <3>1 DEF PlacedInv, Marked, Marks
  <2>2. CASE u # turn
    <3>1. bound'[u] = bound[u] /\ u < turn
      BY <1>4, <1>5, <2>2
    <3>2. t # turn /\ t \in placed
      BY <1>1, <1>5, <3>1
    <3> QED BY <1>4, <1>5, <3>1, <3>2 DEF PlacedInv, Ordered
  <2> QED BY <2>1, <2>2
<1>9. Marked'
  <2> SUFFICES ASSUME NEW t \in placed', bound'[t] # NoBound PROVE Marks(t)'
    BY DEF Marked
  <2>0. \A i \in 1 .. Len(log') : i = Len(log) + 1 \/ i \in 1 .. Len(log)
    BY <1>0, <1>2
  <2>1. CASE t = turn
    <3>1. \A i \in 1 .. Len(log) : log'[i].of <= prompts
      BY <1>2 DEF PlacedInv, PastPrompts
    <3>2. \A i \in 1 .. Len(log) : log[i].of \in Nat
      BY <1>0, PromptsAreNumbers
    <3>3. \A i \in 1 .. Len(log') : i <= Len(log) <=> log'[i].of < prompts + 1
      BY <1>0, <1>1, <1>2, <2>0, <3>1, <3>2
    <3> QED BY <1>0, <1>1, <1>2, <1>3, <2>1, <3>3 DEF Marks
  <2>2. CASE t # turn
    <3>1. t \in placed /\ bound'[t] = bound[t] /\ origin'[t] = origin[t] /\ Marks(t)
      BY <1>1, <1>4, <1>5, <2>2 DEF PlacedInv, Marked
    <3>2. bound[t] \in Nat
      BY <1>5, <2>2, <3>1, CheckpointAssumption DEF TypeOK, Bounds
    <3> QED BY <1>0, <1>1, <1>2, <2>0, <3>1, <3>2 DEF Marks
  <2> QED BY <2>1, <2>2
<1>10. PastPrompts'
  <2>1. \A i \in 1 .. Len(log) : log[i].of \in Nat /\ log[i].of <= prompts
    BY <1>0, PromptsAreNumbers DEF PlacedInv, PastPrompts
  <2> QED BY <1>0, <1>1, <1>2, <2>1 DEF PastPrompts
<1> QED BY <1>6, <1>7, <1>8, <1>9, <1>10 DEF PlacedInv

\* A message of the current prompt belongs to no earlier turn.
LEMMA PlacedGrow ==
  ASSUME TypeOK, PlacedInv, SendSynthetic \/ AddMessage
  PROVE  PlacedInv'
<1>0. LogOK /\ Len(log) \in Nat /\ prompts \in Nat
  BY LenProperties, RewindAssumption DEF TypeOK, LogOK
<1>1. PICK m \in Messages : m.of = prompts /\ log' = Append(log, m)
  <2>1. /\ [of |-> prompts, role |-> "user"] \in Messages
        /\ [of |-> prompts, role |-> "work"] \in Messages
    BY DEF TypeOK, Messages
  <2> QED BY <2>1 DEF SendSynthetic, AddMessage
<1>2. Len(log) < MaxLog /\ UNCHANGED <<bound, prompts, origin, placed, known, msgIndex>>
  BY DEF SendSynthetic, BeginSynthetic, AddMessage, logHistory, storeVars, memoryVars
<1>3. /\ Len(log') = Len(log) + 1 /\ log'[Len(log) + 1] = m
      /\ \A i \in 1 .. Len(log) : log'[i] = log[i]
  BY <1>0, <1>1, <1>2, LogGrows
<1>4. \A i \in 1 .. Len(log') : i = Len(log) + 1 \/ i \in 1 .. Len(log)
  BY <1>0, <1>3
<1>5. Marked'
  <2> SUFFICES ASSUME NEW t \in placed, bound[t] # NoBound PROVE Marks(t)'
    BY <1>2 DEF Marked
  <2>1. Marks(t) /\ bound[t] \in Nat
    BY CheckpointAssumption DEF PlacedInv, Marked, TypeOK, Bounds
  <2> QED BY <1>0, <1>1, <1>2, <1>3, <1>4, <2>1 DEF Marks
<1>6. PastPrompts'
  BY <1>0, <1>1, <1>2, <1>3, <1>4 DEF PlacedInv, PastPrompts
<1>7. BoundKnown' /\ SameBound' /\ Ordered'
  BY <1>2 DEF PlacedInv, BoundKnown, SameBound, Ordered
<1> QED BY <1>5, <1>6, <1>7 DEF PlacedInv

\* A conversation rewind cuts the log at a boundary no earlier one exceeds.
LEMMA PlacedCut ==
  ASSUME TypeOK, PlacedInv, NEW r \in Turns, CutConversation(r)
  PROVE  PlacedInv'
<1>0. LogOK /\ Len(log) \in Nat
  BY LenProperties DEF TypeOK, LogOK
<1>1. bound[r] # NoBound /\ bound[r] \in 0 .. Len(log) /\ log' = SubSeq(log, 1, bound[r])
  BY <1>0, CheckpointAssumption
  DEF CutConversation, CanCut, HasBoundary, TypeOK, Bounds
<1>2. /\ Len(log') = bound[r]
      /\ \A i \in 1 .. bound[r] : log'[i] = log[i] /\ i \in 1 .. Len(log)
  BY <1>0, <1>1, PrefixOfLog
<1>3. /\ \A u \in Turns : u >= r => bound'[u] = NoBound
      /\ \A u \in Turns : ~ (u >= r) => bound'[u] = bound[u]
      /\ UNCHANGED <<prompts, origin, placed>>
  BY DEF CutConversation, logHistory
<1>4. /\ known' = known \ {u \in known : u >= r}
      /\ \A u \in Turns : u \notin {v \in known : v >= r} => msgIndex'[u] = msgIndex[u]
  BY DEF CutConversation, RewindConversation, RewindBoth, TruncateFrom, Forget,
         TypeOK, StoreTypeOK
<1>5. placed \subseteq Turns /\ known \subseteq Turns /\ \A t \in Turns : t \in Int
  BY CheckpointAssumption DEF TypeOK, StoreTypeOK, Turns
<1>6. \A t \in Turns : bound'[t] # NoBound => bound'[t] = bound[t] /\ t < r
  BY <1>3, <1>5
<1>7. BoundKnown'
  <2> SUFFICES ASSUME NEW t \in Turns, bound'[t] # NoBound PROVE t \in known'
    BY DEF BoundKnown
  <2>1. t \in known /\ ~ (t >= r)
    BY <1>5, <1>6 DEF PlacedInv, BoundKnown
  <2> QED BY <1>4, <2>1
<1>8. SameBound'
  <2> SUFFICES ASSUME NEW t \in placed, NEW u \in Turns, t \in known', u \in known', t <= u
               PROVE  bound'[u] = msgIndex'[u]
    BY <1>3 DEF SameBound
  <2>1. t \in known /\ u \in known /\ ~ (u >= r)
    BY <1>4
  <2> QED BY <1>3, <1>4, <2>1 DEF PlacedInv, SameBound
<1>9. Ordered'
  BY <1>3, <1>5, <1>6 DEF PlacedInv, Ordered
<1>10. Marked'
  <2> SUFFICES ASSUME NEW t \in placed, bound'[t] # NoBound PROVE Marks(t)'
    BY <1>3 DEF Marked
  <2>1. bound'[t] = bound[t] /\ t < r /\ bound[t] \in Nat
    BY <1>5, <1>6, CheckpointAssumption DEF TypeOK, Bounds
  <2>2. Marks(t) /\ bound[t] <= bound[r]
    BY <1>1, <2>1 DEF PlacedInv, Marked, Ordered
  <2> QED BY <1>1, <1>2, <1>3, <2>1, <2>2 DEF Marks
<1>11. PastPrompts'
  BY <1>2, <1>3 DEF PlacedInv, PastPrompts
<1> QED BY <1>7, <1>8, <1>9, <1>10, <1>11 DEF PlacedInv

\* A restart that keeps a turn's part of the log and its files keeps its mark.
LEMMA PlacedResume ==
  ASSUME TypeOK, SavedWhole, PlacedInv, Resume
  PROVE  PlacedInv'
<1>0. LogOK /\ Len(log) \in Nat
  BY LenProperties DEF TypeOK, LogOK
<1>1. PICK n \in 0 .. Len(log) :
        /\ log' = SubSeq(log, 1, n)
        /\ placed' = {u \in placed \cap known :
                        /\ \A v \in Turns : v >= u => v \in Intact
                        /\ msgIndex[u] <= n}
  BY DEF Resume
<1>2. /\ Len(log') = n
      /\ \A i \in 1 .. n : log'[i] = log[i] /\ i \in 1 .. Len(log)
  BY <1>0, <1>1, PrefixOfLog
<1>3. /\ bound' = savedIndex /\ msgIndex' = savedIndex /\ prompts' = prompts
      /\ origin' = origin /\ known' = {u \in Turns : stored[u] = "whole"}
  BY DEF Resume, Restart
<1>4. placed \subseteq Turns /\ known \subseteq Turns /\ \A t \in Turns : t \in Int
  BY CheckpointAssumption DEF TypeOK, StoreTypeOK, Turns
<1>5. ASSUME NEW t \in placed', NEW u \in Turns, t <= u, bound'[u] # NoBound
      PROVE  t \in placed /\ t \in known /\ bound'[u] = bound[u]
  <2>1. t \in placed /\ t \in known /\ u \in Intact
    BY <1>1, <1>4, <1>5
  <2>2. stored[u] = "whole"
    BY <1>3, <1>5 DEF SavedWhole
  <2>3. u \in known /\ savedIndex[u] = msgIndex[u]
    BY <2>1, <2>2 DEF Intact
  <2> QED BY <1>3, <1>5, <2>1, <2>3 DEF PlacedInv, SameBound
<1>6. BoundKnown' /\ SameBound'
  BY <1>3 DEF SavedWhole, BoundKnown, SameBound
<1>7. Ordered'
  <2> SUFFICES ASSUME NEW t \in placed', NEW u \in Turns, t < u,
                      bound'[t] # NoBound, bound'[u] # NoBound
               PROVE  bound'[t] <= bound'[u]
    BY DEF Ordered
  <2>1. t \in Turns /\ t <= u /\ t <= t
    BY <1>1, <1>4
  <2>2. t \in placed /\ bound'[t] = bound[t] /\ bound'[u] = bound[u]
    BY <1>5, <2>1
  <2> QED BY <2>2 DEF PlacedInv, Ordered
<1>8. Marked'
  <2> SUFFICES ASSUME NEW t \in placed', bound'[t] # NoBound PROVE Marks(t)'
    BY DEF Marked
  <2>1. t \in Turns /\ t <= t /\ msgIndex[t] <= n
    BY <1>1, <1>4
  <2>2. t \in placed /\ t \in known /\ bound'[t] = bound[t]
    BY <1>5, <2>1
  <2>3. bound[t] = msgIndex[t]
    BY <2>1, <2>2 DEF PlacedInv, SameBound
  <2>4. Marks(t) /\ bound[t] \in Nat
    BY <2>1, <2>2, CheckpointAssumption DEF PlacedInv, Marked, TypeOK, Bounds
  <2> QED BY <1>1, <1>2, <1>3, <2>1, <2>2, <2>3, <2>4 DEF Marks
<1>9. PastPrompts'
  BY <1>2, <1>3 DEF PlacedInv, PastPrompts
<1> QED BY <1>6, <1>7, <1>8, <1>9 DEF PlacedInv

\* A rewrite of the log that forgets which turns are placed keeps the rest.
LEMMA PlacedRewrite ==
  ASSUME TypeOK, PlacedInv, Shrinks, prompts' = prompts, placed' = {},
         BoundKnown'
  PROVE  PlacedInv'
<1>0. LogOK /\ Len(log) \in Nat /\ Len(log') \in Nat /\ prompts \in Nat
  BY LenProperties, RewindAssumption DEF TypeOK, LogOK, Shrinks
<1>1. \A j \in 1 .. Len(log') : log'[j].of <= prompts
  <2> SUFFICES ASSUME NEW j \in 1 .. Len(log') PROVE log'[j].of <= prompts
    OBVIOUS
  <2>1. CASE log'[j].of = 0
    BY <1>0, <2>1
  <2>2. CASE log'[j].of # 0
    <3>1. PICK i \in j .. Len(log) : log'[j] = log[i]
      BY <2>2 DEF Shrinks
    <3>2. i \in 1 .. Len(log)
      BY <1>0, <3>1
    <3> QED BY <3>1, <3>2 DEF PlacedInv, PastPrompts
  <2> QED BY <2>1, <2>2
<1> QED BY <1>1 DEF PlacedInv, SameBound, Ordered, Marked, PastPrompts

LEMMA PlacedStep ==
  ASSUME TypeOK, FreshNumbers, SavedWhole, PlacedInv, [Next]_vars
  PROVE  PlacedInv'
<1>1. CASE SendPrompt
  BY <1>1, PlacedSend
<1>2. CASE SendSynthetic \/ AddMessage
  BY <1>2, PlacedGrow
<1>3. ASSUME NEW t \in Turns, CutConversation(t) PROVE PlacedInv'
  BY <1>3, PlacedCut
<1>4. CASE Resume
  BY <1>4, PlacedResume
<1>5. ASSUME UNCHANGED <<known, msgIndex, bound, log, prompts, origin, placed>>
      PROVE  PlacedInv'
  BY <1>5 DEF PlacedInv, BoundKnown, SameBound, Ordered, Marked, Marks, PastPrompts
<1>6. CASE FinishTurn \/ Write \/ UNCHANGED vars
  BY <1>5, <1>6 DEF FinishTurn, EndTurn, Write, Edit, EditUntracked, vars, storeVars,
                    memoryVars, logVars, logHistory
<1>7. ASSUME NEW t \in Turns, RestoreOnly(t) PROVE PlacedInv'
  BY <1>5, <1>7 DEF RestoreOnly, RewindCode, memoryVars, logVars, logHistory
<1>8. ASSUME NEW t \in Turns, Fork(t) PROVE PlacedInv'
  <2>1. prompts' = prompts /\ placed' = {} /\ BoundKnown'
    BY <1>8 DEF Fork, BoundKnown
  <2> QED BY <1>8, <2>1, RewritesShrink, PlacedRewrite
<1>9. ASSUME NEW t \in Turns, Summarize(t) PROVE PlacedInv'
  <2>1. prompts' = prompts /\ placed' = {} /\ BoundKnown'
    BY <1>9 DEF Summarize, BoundKnown
  <2> QED BY <1>9, <2>1, RewritesShrink, PlacedRewrite
<1>10. CASE Compact
  <2>1. prompts' = prompts /\ placed' = {} /\ BoundKnown'
    BY <1>10 DEF Compact, PlacedInv, BoundKnown, storeVars, memoryVars
  <2> QED BY <1>10, <2>1, RewritesShrink, PlacedRewrite
<1> QED BY <1>1, <1>2, <1>3, <1>4, <1>6, <1>7, <1>8, <1>9, <1>10 DEF Next

\* A conversation rewind to a turn the log still marks cuts it exactly there.
THEOREM CutsAreExact == Spec => CutIsExact
<1>1. Init => PlacedInv
  <2>1. ASSUME Init PROVE \A i \in 1 .. Len(log) : FALSE
    BY <2>1 DEF Init
  <2> QED BY <2>1 DEF Init, PlacedInv, BoundKnown, SameBound, Ordered, Marked, PastPrompts
<1>2. StoreInit => SavedWhole
  BY DEF StoreInit, SavedWhole
<1>3. StoreTypeOK /\ SavedWhole /\ [StoreNext]_storeVars => SavedWhole'
  BY SavedWholeStep
<1>4. StoreSpec => []SavedWhole
  BY <1>2, <1>3, StoreTypeCorrect, PTL DEF StoreSpec
<1>5. TypeOK /\ FreshNumbers /\ SavedWhole /\ PlacedInv /\ [Next]_vars => PlacedInv'
  BY PlacedStep
<1>6. Spec => [](TypeOK /\ FreshNumbers /\ SavedWhole)
  BY <1>4, RewindTypeCorrect, RewindImplementsStore, ReachHolds, PTL DEF IsCheckpointStore
<1> DEFINE CutExact ==
      \A t \in placed : CutConversation(t) =>
        \A i \in 1 .. Len(log) : i <= Len(log') <=> log[i].of < origin[t]
<1>7. TypeOK /\ PlacedInv => CutExact
  <2> SUFFICES ASSUME TypeOK, PlacedInv, NEW t \in placed, CutConversation(t)
               PROVE  \A i \in 1 .. Len(log) : i <= Len(log') <=> log[i].of < origin[t]
    OBVIOUS
  <2>1. LogOK /\ Len(log) \in Nat
    BY LenProperties DEF TypeOK, LogOK
  <2>2. bound[t] # NoBound /\ bound[t] \in 0 .. Len(log) /\ log' = SubSeq(log, 1, bound[t])
    BY <2>1, CheckpointAssumption
    DEF CutConversation, CanCut, HasBoundary, TypeOK, Bounds
  <2>3. Len(log') = bound[t]
    BY <2>1, <2>2, PrefixOfLog
  <2> QED BY <2>2, <2>3 DEF PlacedInv, Marked, Marks
<1> HIDE DEF CutExact
<1>8. TypeOK /\ PlacedInv /\ [Next]_vars => [CutExact]_vars
  BY <1>7
<1>9. Spec => [][CutExact]_vars
  BY <1>1, <1>5, <1>6, <1>8, PTL DEF Spec
<1> QED BY <1>9 DEF CutExact, CutIsExact
=============================================================================
