---------------------------- MODULE SessionLease ----------------------------
(***************************************************************************)
(* The lease of one session transcript (internal/agent/session_lease.go),  *)
(* the guard taken before the session is deleted (session_removal.go), the *)
(* sweeps of leftover lock and info files (save.go), and the two builds of *)
(* the lock file (session_lock_unix.go, session_lock_windows.go).          *)
(*                                                                         *)
(* Each member of Ops is one call, made once, in the process ProcessOf     *)
(* gives.  What the calls share: on disk, the lock file <path>.lease.lock  *)
(* (its name leads to at most one inode) and the info file; in each        *)
(* process, the registries sessionLeaseOwners and                          *)
(* sessionLeaseActiveOwners.                                               *)
(***************************************************************************)
CONSTANTS Processes, Ops,
          ProcessOf,  \* the process that makes each call
          Kinds,      \* the calls made in an instance, a subset of AllKinds
          Inodes,     \* lock files that exist one after the other
          Posix,      \* the unix build; otherwise the windows build
          NoOp, NoFile, NoInfo

\* TryAcquireSessionLease, TryReclaimCurrentProcessSessionLease,
\* SessionLeaseHeldByOtherRuntime, TryAcquireSessionRemovalGuard,
\* removeStaleSessionLeaseLockSidecar, removeStaleSessionLeaseInfoSidecar.
Acquirers == {"acquire", "reclaim"}
Cleaners  == {"guard", "lockSweep"}
AllKinds  == Acquirers \union Cleaners \union {"probe", "infoSweep"}

ASSUME ProcessAssumption == ProcessOf \in [Ops -> Processes]
ASSUME KindAssumption == Kinds \subseteq AllKinds
ASSUME BuildAssumption == Posix \in BOOLEAN
ASSUME NoneAssumption ==
         NoOp \notin Ops /\ NoFile \notin Inodes /\ NoInfo \notin Processes

VARIABLES
  alive,    \* the processes that have not crashed
  kind,     \* which call the op makes
  pc,       \* where it is
  fd,       \* the lock file it has open
  lockers,  \* the ops whose open file holds the OS lock
  entry,    \* the inode the name .lease.lock leads to
  doomed,   \* windows: that inode is delete-pending
  info,     \* the process the info file names
  owners,   \* sessionLeaseOwners of each process
  active    \* sessionLeaseActiveOwners of each process

file     == <<fd, lockers, entry, doomed>>
registry == <<owners, active>>
vars     == <<alive, kind, pc, file, info, registry>>

PCs == {"idle", "listed", "check", "open", "lock", "locked", "cleared",
        "saving", "saved", "held", "dropped", "lost", "revoke", "revoked",
        "working", "purging", "unguarded", "removing", "unlocking", "failed",
        "forget", "over", "dead"}

\* The files, locks and registry entries are those of calls that can have them.
TypeOK ==
  /\ alive \subseteq Processes
  /\ kind \in [Ops -> AllKinds]
  /\ pc \in [Ops -> PCs]
  /\ fd \in [Ops -> Inodes \union {NoFile}]
  /\ lockers \subseteq {a \in Ops : fd[a] # NoFile}
  /\ entry \in Inodes \union {NoFile}
  /\ doomed \in BOOLEAN
  /\ info \in Processes \union {NoInfo}
  /\ owners \in [Processes -> Ops \union {NoOp}]
  /\ active \in [Processes -> Ops \union {NoOp}]

P(a) == ProcessOf[a]

Goto(a, place) == pc' = [pc EXCEPT ![a] = place]

At(a, place) == P(a) \in alive /\ pc[a] = place

HeldLocally(p) == owners[p] # NoOp

-----------------------------------------------------------------------------
\* The lock file.

\* windows: a handle with DELETE access and one of Go's default share mode
\* exclude each other, and a delete-pending file opens for nobody.
OpenFails(a) ==
  /\ ~Posix
  /\ \/ doomed
     \/ \E b \in Ops : /\ fd[b] # NoFile
                       /\ (kind[a] \in Cleaners) # (kind[b] \in Cleaners)

OpenFile(a) ==
  /\ ~OpenFails(a)
  /\ entry' \in IF entry # NoFile THEN {entry}
                ELSE Inodes \ {fd[b] : b \in Ops}
  /\ fd' = [fd EXCEPT ![a] = entry']
  /\ UNCHANGED <<lockers, doomed>>

\* A lock dies with its handle, a delete-pending name with the last handle.
Close(S) ==
  LET last == doomed /\ \A b \in Ops \ S : fd[b] = NoFile
  IN /\ fd' = [b \in Ops |-> IF b \in S THEN NoFile ELSE fd[b]]
     /\ lockers' = lockers \ S
     /\ entry' = IF last THEN NoFile ELSE entry
     /\ doomed' = (doomed /\ ~last)

\* Mutant of RemoveFile: the name is removed in the windows build too.
RemoveByName(a) ==
  entry' = NoFile /\ UNCHANGED <<fd, lockers, doomed>>

\* unix: RemoveAndUnlock removes the NAME, whatever inode it now leads to.
\* windows: it dooms the file of the handle.
RemoveFile(a) ==
  /\ IF Posix THEN entry' = NoFile /\ doomed' = doomed
              ELSE entry' = entry /\ doomed' = TRUE
  /\ UNCHANGED <<fd, lockers>>

-----------------------------------------------------------------------------
Init ==
  /\ alive = Processes
  /\ kind \in [Ops -> Kinds]
  /\ pc = [a \in Ops |-> "idle"]
  /\ fd = [a \in Ops |-> NoFile]
  /\ lockers = {}
  /\ entry = NoFile /\ doomed = FALSE
  /\ info = NoInfo
  /\ owners = [p \in Processes |-> NoOp]
  /\ active = [p \in Processes |-> NoOp]

\* TryAcquireSessionLease: LoadOrStore; a reserved path is refused.
StartAcquire(a) ==
  /\ At(a, "idle") /\ kind[a] = "acquire" /\ ~HeldLocally(P(a))
  /\ owners' = [owners EXCEPT ![P(a)] = a]
  /\ Goto(a, "open")
  /\ UNCHANGED <<alive, kind, file, info, active>>

\* TryReclaimCurrentProcessSessionLease: info that names another process is
\* never stolen from; no info leaves the decision to the lock.
StartReclaim(a) ==
  /\ At(a, "idle") /\ kind[a] = "reclaim" /\ info \in {NoInfo, P(a)}
  /\ Goto(a, "open")
  /\ UNCHANGED <<alive, kind, file, info, registry>>

\* The first lines of SessionLeaseHeldByOtherRuntime: not held if active here;
\* then the info file, which must exist and name another process.
StartProbe(a) ==
  /\ At(a, "idle") /\ kind[a] = "probe" /\ active[P(a)] = NoOp
  /\ Goto(a, "check")
  /\ UNCHANGED <<alive, kind, file, info, registry>>

\* Mutant of CheckInfo: foreign info is removed without the lock.
CheckInfoOnly(a) ==
  /\ At(a, "check") /\ kind[a] = "probe"
  /\ Goto(a, IF info \in {NoInfo, P(a)} THEN "over" ELSE "unguarded")
  /\ UNCHANGED <<alive, kind, file, info, registry>>

CheckInfo(a) ==
  /\ At(a, "check") /\ kind[a] = "probe"
  /\ Goto(a, IF info \in {NoInfo, P(a)} THEN "over" ELSE "open")
  /\ UNCHANGED <<alive, kind, file, info, registry>>

\* ReconcileSessionSidecars lists the directory before it looks at each file.
List(a) ==
  /\ At(a, "idle")
  /\ \/ kind[a] = "infoSweep" /\ info # NoInfo
     \/ kind[a] = "lockSweep" /\ entry # NoFile
  /\ Goto(a, "listed")
  /\ UNCHANGED <<alive, kind, file, info, registry>>

\* Removal and the sweeps leave a path alone that this process has reserved.
CheckLocal(a) ==
  /\ \/ At(a, "listed")
     \/ At(a, "idle") /\ kind[a] = "guard"
  /\ Goto(a, IF HeldLocally(P(a)) THEN "over"
             ELSE IF kind[a] = "infoSweep" THEN "check" ELSE "open")
  /\ UNCHANGED <<alive, kind, file, info, registry>>

\* removeStaleSessionLeaseInfoSidecar: os.Stat of the lock file.
StatLock(a) ==
  /\ At(a, "check") /\ kind[a] = "infoSweep"
  /\ Goto(a, IF entry = NoFile THEN "unguarded" ELSE "open")
  /\ UNCHANGED <<alive, kind, file, info, registry>>

\* A failed open or lock: an acquirer still has to give up its reservation.
Refused(a) == Goto(a, IF kind[a] = "acquire" THEN "failed" ELSE "over")

Open(a) ==
  /\ At(a, "open")
  /\ \/ OpenFile(a) /\ Goto(a, "lock")
     \/ OpenFails(a) /\ Refused(a) /\ UNCHANGED file
  /\ UNCHANGED <<alive, kind, info, registry>>

\* flock(LOCK_EX|LOCK_NB), LockFileEx(FAIL_IMMEDIATELY): per open file.
Lock(a) ==
  /\ At(a, "lock")
  /\ IF \E b \in lockers : fd[b] = fd[a]
     THEN Close({a}) /\ Refused(a)
     ELSE /\ lockers' = lockers \union {a}
          /\ Goto(a, "locked")
          /\ UNCHANGED <<fd, entry, doomed>>
  /\ UNCHANGED <<alive, kind, info, registry>>

Fail(a) ==
  /\ At(a, "failed")
  /\ owners' = [owners EXCEPT ![P(a)] = IF @ = a THEN NoOp ELSE @]
  /\ Goto(a, "over")
  /\ UNCHANGED <<alive, kind, file, info, active>>

-----------------------------------------------------------------------------
\* An acquirer under the lock.

ClearActive(a) ==
  /\ At(a, "locked") /\ kind[a] \in Acquirers
  /\ active' = [active EXCEPT ![P(a)] = NoOp]
  /\ Goto(a, IF kind[a] = "reclaim" THEN "cleared" ELSE "saving")
  /\ UNCHANGED <<alive, kind, file, info, owners>>

\* A reclaim overwrites whatever reservation there is.
StoreOwner(a) ==
  /\ At(a, "cleared")
  /\ owners' = [owners EXCEPT ![P(a)] = a]
  /\ Goto(a, "saving")
  /\ UNCHANGED <<alive, kind, file, info, active>>

\* SaveSessionLeaseInfo writes a temporary file and renames it; when it fails
\* the lease is released.
SaveInfo(a) ==
  /\ At(a, "saving")
  /\ \/ info' = P(a) /\ Goto(a, "saved")
     \/ info' = info /\ Goto(a, "revoke")
  /\ UNCHANGED <<alive, kind, file, registry>>

Activate(a) ==
  /\ At(a, "saved")
  /\ active' = [active EXCEPT ![P(a)] = a]
  /\ Goto(a, "held")
  /\ UNCHANGED <<alive, kind, file, info, owners>>

\* The last reference to a lease is lost without a Release; later the
\* finalizer of its *os.File closes the handle.
Drop(a) ==
  /\ At(a, "held")
  /\ Goto(a, "dropped")
  /\ UNCHANGED <<alive, kind, file, info, registry>>

Finalize(a) ==
  /\ At(a, "dropped")
  /\ Close({a})
  /\ Goto(a, "lost")
  /\ UNCHANGED <<alive, kind, info, registry>>

\* Mutant of Revoke: the active entry outlives the lock.
RevokeNothing(a) ==
  /\ At(a, "held") \/ At(a, "revoke")
  /\ Goto(a, "revoked")
  /\ UNCHANGED <<alive, kind, file, info, registry>>

\* Release: revoke, remove the info, unlock, forget, then sweep the lock file.
Revoke(a) ==
  /\ At(a, "held") \/ At(a, "revoke")
  /\ active' = [active EXCEPT ![P(a)] = IF @ = a THEN NoOp ELSE @]
  /\ Goto(a, "revoked")
  /\ UNCHANGED <<alive, kind, file, info, owners>>

Forget(a) ==
  /\ At(a, "forget")
  /\ owners' = [owners EXCEPT ![P(a)] = IF @ = a THEN NoOp ELSE @]
  /\ kind' = [kind EXCEPT ![a] = "lockSweep"]
  /\ Goto(a, "listed")
  /\ UNCHANGED <<alive, file, info, active>>

-----------------------------------------------------------------------------
\* The other calls under the lock.

\* A guard also needs the save lock of the transcript; a save may hold it.
TakeSaveLock(a) ==
  /\ At(a, "locked") /\ kind[a] = "guard"
  /\ Goto(a, "working") \/ Goto(a, "unlocking")
  /\ UNCHANGED <<alive, kind, file, info, registry>>

\* The files of the session are gone, or the removal is abandoned.
EndRemoval(a) ==
  /\ At(a, "working")
  /\ Goto(a, "purging") \/ Goto(a, "unlocking")
  /\ UNCHANGED <<alive, kind, file, info, registry>>

RemoveInfo(a) ==
  /\ \/ At(a, "revoked") \/ At(a, "purging") \/ At(a, "unguarded")
     \/ At(a, "locked") /\ kind[a] \in {"probe", "infoSweep"}
  /\ info' = NoInfo
  /\ Goto(a, CASE pc[a] = "purging"   -> "removing"
               [] pc[a] = "unguarded" -> "over"
               [] OTHER               -> "unlocking")
  /\ UNCHANGED <<alive, kind, file, registry>>

RemoveLockFile(a) ==
  /\ At(a, "removing") \/ (At(a, "locked") /\ kind[a] = "lockSweep")
  /\ RemoveFile(a)
  /\ Goto(a, "unlocking")
  /\ UNCHANGED <<alive, kind, info, registry>>

Unlock(a) ==
  /\ At(a, "unlocking")
  /\ Close({a})
  /\ Goto(a, IF kind[a] \in Acquirers THEN "forget" ELSE "over")
  /\ UNCHANGED <<alive, kind, info, registry>>

-----------------------------------------------------------------------------
\* The process dies: its memory and its handles go, the files stay.
Crash(p) ==
  /\ p \in alive
  /\ alive' = alive \ {p}
  /\ Close({a \in Ops : P(a) = p})
  /\ pc' = [a \in Ops |-> IF P(a) = p THEN "dead" ELSE pc[a]]
  /\ owners' = [owners EXCEPT ![p] = NoOp]
  /\ active' = [active EXCEPT ![p] = NoOp]
  /\ UNCHANGED <<kind, info>>

Step(a) ==
  \/ StartAcquire(a) \/ StartReclaim(a) \/ StartProbe(a) \/ CheckInfo(a)
  \/ List(a) \/ CheckLocal(a) \/ StatLock(a)
  \/ Open(a) \/ Lock(a) \/ Fail(a)
  \/ ClearActive(a) \/ StoreOwner(a) \/ SaveInfo(a) \/ Activate(a)
  \/ Drop(a) \/ Finalize(a) \/ Revoke(a) \/ Forget(a)
  \/ TakeSaveLock(a) \/ EndRemoval(a)
  \/ RemoveInfo(a) \/ RemoveLockFile(a) \/ Unlock(a)

Next == (\E a \in Ops : Step(a)) \/ (\E p \in Processes : Crash(p))

Spec == Init /\ [][Next]_vars
-----------------------------------------------------------------------------
\* The caller has its lease, or the guard under which it deletes the session.
Using(a) == \/ kind[a] \in Acquirers /\ pc[a] = "held"
            \/ kind[a] = "guard" /\ pc[a] = "working"

\* No two runtimes have the session at the same time, a remover included
\* (session_removal.go:9-16): a lock file that is deleted under a caller which
\* has it open would let that caller and the next one lock different inodes.
OneHolder == \A a, b \in Ops : Using(a) /\ Using(b) => a = b

\* "No info file means no holder: live holders keep it present for their whole
\* hold" (session_lease.go:176): a probe that finds no info, or foreign info,
\* acts on that.
InfoAlwaysNamesHolder == \A a \in Ops : pc[a] = "held" => info = P(a)

\* The claim holds, over reclaims, probes that remove the info of the dead,
\* removals and crashes, as long as nobody sweeps info files.
InfoNamesHolder ==
  (\A a \in Ops : kind[a] # "infoSweep") => InfoAlwaysNamesHolder

\* SessionLeaseHeldByCurrentRuntime authorises destructive repair, so what
\* the active registry names has the OS lock, before the first and after the
\* last step of its hold too; a lease dropped without Release is the
\* exception the next acquisition clears.
RepairOnlyByHolder ==
  \A p \in alive : \/ active[p] \in lockers \union {NoOp}
                   \/ pc[active[p]] = "lost"

\* No generation leaves an entry behind: a registry entry belongs to an attempt
\* under way, a lease in use, or one dropped without Release, of that very
\* process.  A stale entry would make the session busy until a restart.
NoResidue ==
  \A p \in Processes :
    /\ owners[p] # NoOp => /\ P(owners[p]) = p
                           /\ pc[owners[p]] \notin {"idle", "listed", "over", "dead"}
    /\ active[p] # NoOp => /\ P(active[p]) = p
                           /\ pc[active[p]] \in {"held", "dropped", "lost"}

\* The OS lock of the transcript is an exclusive lock: whoever acquires, removes,
\* probes or sweeps under it gives it back before anybody else takes it.  It holds
\* in the windows build (session_lock_windows.go), not in the unix build.
Exclusion == INSTANCE WriterLock WITH
  Owners <- Ops,
  None <- NoOp,
  holder <- IF lockers = {} THEN NoOp ELSE CHOOSE a \in Ops : a \in lockers

ImplementsExclusion == Exclusion!SafetySpec
=============================================================================
