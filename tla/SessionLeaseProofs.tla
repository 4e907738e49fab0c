------------------------- MODULE SessionLeaseProofs -------------------------
(***************************************************************************)
(* Theorems about SessionLease, for any number of processes and of calls.  *)
(*                                                                         *)
(* OneHolder is not inductive.  In the windows build it follows because    *)
(* every open handle is one of the file the name leads to (Exclusive): the *)
(* name cannot be taken away while a handle is open.  The unix build has   *)
(* no such invariant, and OneHolder fails there.                           *)
(***************************************************************************)
EXTENDS SessionLease, TLAPS

\* Where an op has the OS lock, and where it has the file open.
Locked == {"locked", "cleared", "saving", "saved", "held", "dropped",
           "revoke", "revoked", "working", "purging", "removing", "unlocking"}
Opened == Locked \union {"lock"}

\* What an op has and which call it makes, by where it is.
Places ==
  \A a \in Ops :
    /\ (a \in lockers) <=> pc[a] \in Locked
    /\ (fd[a] # NoFile) <=> pc[a] \in Opened
    /\ pc[a] \in {"cleared", "saving", "saved", "held", "dropped", "lost",
                  "revoke", "revoked", "failed", "forget"} => kind[a] \in Acquirers
    /\ pc[a] \in {"working", "purging", "removing"} => kind[a] = "guard"
    /\ pc[a] = "unguarded" => kind[a] = "infoSweep"

\* Where a generation may have its reservation.
Reserved(a) ==
  \/ /\ kind[a] \in Acquirers
     /\ pc[a] \in {"saving", "saved", "held", "dropped", "lost", "revoke",
                   "revoked", "unlocking", "forget"}
  \/ kind[a] = "acquire" /\ pc[a] \in {"open", "lock", "locked", "failed"}

Registered ==
  \A p \in Processes :
    /\ owners[p] # NoOp => P(owners[p]) = p /\ Reserved(owners[p])
    /\ active[p] # NoOp => /\ P(active[p]) = p
                           /\ pc[active[p]] \in {"held", "dropped", "lost"}

\* The windows build: no handle of a file the name does not lead to.
Exclusive ==
  ~Posix => /\ \A a \in Ops : fd[a] \in {NoFile, entry}
            /\ \A a, b \in lockers : a = b

\* The windows build without the sweep of the info file.
Announced ==
  ~Posix /\ (\A b \in Ops : kind[b] # "infoSweep") =>
    \A a \in Ops : pc[a] \in {"saved", "held", "dropped"} => info = P(a)

IInv == TypeOK /\ Places /\ Registered /\ Exclusive /\ Announced

-----------------------------------------------------------------------------
LEMMA InitIInv == Init => IInv
BY ProcessAssumption, KindAssumption, NoneAssumption
   DEF Init, IInv, TypeOK, Places, Registered, Exclusive, Announced,
       Locked, Opened, PCs, AllKinds

\* Every step of every call, and every crash, preserves the invariant.
LEMMA NextIInv == IInv /\ [Next]_vars => IInv'
<1> SUFFICES ASSUME IInv, [Next]_vars PROVE IInv'
  OBVIOUS
<1> USE ProcessAssumption, KindAssumption, BuildAssumption, NoneAssumption
<1> USE DEF IInv, TypeOK, Places, Registered, Exclusive, Announced, Locked,
            Opened, PCs, AllKinds, Acquirers, Cleaners, P, Goto, At, Reserved,
            file, registry
<1>1. ASSUME NEW a \in Ops, StartAcquire(a) PROVE IInv'
  BY <1>1 DEF StartAcquire, HeldLocally
<1>2. ASSUME NEW a \in Ops, StartReclaim(a) PROVE IInv'
  BY <1>2 DEF StartReclaim
<1>3. ASSUME NEW a \in Ops, StartProbe(a) PROVE IInv'
  BY <1>3 DEF StartProbe
<1>4. ASSUME NEW a \in Ops, CheckInfo(a) PROVE IInv'
  BY <1>4 DEF CheckInfo
<1>5. ASSUME NEW a \in Ops, List(a) PROVE IInv'
  BY <1>5 DEF List
<1>6. ASSUME NEW a \in Ops, CheckLocal(a) PROVE IInv'
  BY <1>6 DEF CheckLocal
<1>7. ASSUME NEW a \in Ops, StatLock(a) PROVE IInv'
  BY <1>7 DEF StatLock
<1>8. ASSUME NEW a \in Ops, Open(a) PROVE IInv'
  <2>1. CASE OpenFile(a) /\ Goto(a, "lock")
    BY <1>8, <2>1 DEF Open, OpenFile
  <2>2. CASE Refused(a) /\ UNCHANGED file
    BY <1>8, <2>2 DEF Open, Refused
  <2> QED BY <1>8, <2>1, <2>2 DEF Open
<1>9. ASSUME NEW a \in Ops, Lock(a) PROVE IInv'
  <2>1. CASE \E b \in lockers : fd[b] = fd[a]
    BY <1>9, <2>1 DEF Lock, Close, Refused
  <2>2. CASE ~ \E b \in lockers : fd[b] = fd[a]
    BY <1>9, <2>2 DEF Lock
  <2> QED BY <2>1, <2>2
<1>10. ASSUME NEW a \in Ops, Fail(a) PROVE IInv'
  BY <1>10 DEF Fail
<1>11. ASSUME NEW a \in Ops, ClearActive(a) PROVE IInv'
  BY <1>11 DEF ClearActive
<1>12. ASSUME NEW a \in Ops, StoreOwner(a) PROVE IInv'
  BY <1>12 DEF StoreOwner
<1>13. ASSUME NEW a \in Ops, SaveInfo(a) PROVE IInv'
  BY <1>13 DEF SaveInfo
<1>14. ASSUME NEW a \in Ops, Activate(a) PROVE IInv'
  BY <1>14 DEF Activate
<1>15. ASSUME NEW a \in Ops, Drop(a) PROVE IInv'
  BY <1>15 DEF Drop
<1>16. ASSUME NEW a \in Ops, Finalize(a) PROVE IInv'
  BY <1>16 DEF Finalize, Close
<1>17. ASSUME NEW a \in Ops, Revoke(a) PROVE IInv'
  BY <1>17 DEF Revoke
<1>18. ASSUME NEW a \in Ops, Forget(a) PROVE IInv'
  BY <1>18 DEF Forget
<1>19. ASSUME NEW a \in Ops, TakeSaveLock(a) PROVE IInv'
  BY <1>19 DEF TakeSaveLock
<1>20. ASSUME NEW a \in Ops, EndRemoval(a) PROVE IInv'
  BY <1>20 DEF EndRemoval
<1>21. ASSUME NEW a \in Ops, RemoveInfo(a) PROVE IInv'
  BY <1>21 DEF RemoveInfo
<1>22. ASSUME NEW a \in Ops, RemoveLockFile(a) PROVE IInv'
  <2>1. doomed' \in BOOLEAN
    BY <1>22 DEF RemoveLockFile, RemoveFile
  <2>2. /\ entry' = IF Posix THEN NoFile ELSE entry
        /\ kind[a] \in Cleaners /\ pc[a] \in {"removing", "locked"}
        /\ pc' = [pc EXCEPT ![a] = "unlocking"]
        /\ UNCHANGED <<alive, kind, fd, lockers, info, owners, active>>
    BY <1>22 DEF RemoveLockFile, RemoveFile
  <2> QED BY <2>1, <2>2
<1>23. ASSUME NEW a \in Ops, Unlock(a) PROVE IInv'
  BY <1>23 DEF Unlock, Close
<1>24. ASSUME NEW p \in Processes, Crash(p) PROVE IInv'
  BY <1>24 DEF Crash, Close
<1>25. CASE UNCHANGED vars
  BY <1>25 DEF vars
<1> HIDE DEF IInv, TypeOK, Places, Registered, Exclusive, Announced, Locked,
             Opened, PCs, AllKinds, Acquirers, Cleaners, P, Goto, At, Reserved,
             file, registry
<1> QED
  BY <1>1, <1>2, <1>3, <1>4, <1>5, <1>6, <1>7, <1>8, <1>9, <1>10, <1>11,
     <1>12, <1>13, <1>14, <1>15, <1>16, <1>17, <1>18, <1>19, <1>20, <1>21,
     <1>22, <1>23, <1>24, <1>25 DEF Next, Step

LEMMA Invariance == Spec => []IInv
BY InitIInv, NextIInv, PTL DEF Spec

-----------------------------------------------------------------------------
\* The files, locks and registry entries stay those of calls.
THEOREM TypeCorrect == Spec => []TypeOK
BY Invariance, PTL DEF IInv

\* In the windows build no two runtimes have the session at the same time,
\* whoever else sweeps, probes or crashes.
THEOREM WindowsOneHolder == ASSUME ~Posix PROVE Spec => []OneHolder
<1>1. IInv => OneHolder
  BY DEF IInv, Places, Exclusive, OneHolder, Using, Locked
<1> QED BY <1>1, Invariance, PTL

\* In the windows build, if nobody sweeps info files, a probe can rely on the
\* info of a lease in use.
THEOREM WindowsInfoNamesHolder == ASSUME ~Posix PROVE Spec => []InfoNamesHolder
<1>1. IInv => InfoNamesHolder
  BY DEF IInv, Announced, InfoNamesHolder, InfoAlwaysNamesHolder
<1> QED BY <1>1, Invariance, PTL

\* In both builds destructive repair is authorised only under an OS lock.
THEOREM RepairAuthorised == Spec => []RepairOnlyByHolder
<1>1. IInv => RepairOnlyByHolder
  BY DEF IInv, TypeOK, Places, Registered, RepairOnlyByHolder, Locked
<1> QED BY <1>1, Invariance, PTL

\* In both builds no generation leaves a registry entry behind.
THEOREM RegistriesClean == Spec => []NoResidue
<1>1. IInv => NoResidue
  BY DEF IInv, Registered, NoResidue, Reserved
<1> QED BY <1>1, Invariance, PTL

-----------------------------------------------------------------------------
\* In the windows build the OS lock is given to somebody only while nobody has it.
LEMMA LockedAlone ==
  ASSUME ~Posix, IInv, [Next]_vars, NEW a \in Ops, a \in lockers', a \notin lockers
  PROVE  lockers = {}
<1>1. PICK b \in Ops : Lock(b)
  <2>1. ASSUME NEW b \in Ops, Step(b), ~Lock(b) PROVE lockers' \subseteq lockers
    BY <2>1 DEF Step, StartAcquire, StartReclaim, StartProbe, CheckInfo, List, CheckLocal, StatLock,
       Open, OpenFile, Fail, ClearActive, StoreOwner, SaveInfo, Activate, Drop, Finalize, Revoke,
       Forget, TakeSaveLock, EndRemoval, RemoveInfo, RemoveLockFile, RemoveFile, Unlock, Close, file
  <2>2. ASSUME NEW p \in Processes, Crash(p) PROVE lockers' \subseteq lockers
    BY <2>2 DEF Crash, Close
  <2>3. CASE UNCHANGED vars
    BY <2>3 DEF vars, file
  <2> QED BY <2>1, <2>2, <2>3 DEF Next
<1>2. ~ \E c \in lockers : fd[c] = fd[b]
  BY <1>1 DEF Lock, Close
<1>3. fd[b] = entry /\ entry # NoFile /\ \A c \in lockers : fd[c] = entry
  BY <1>1, NoneAssumption DEF IInv, TypeOK, Places, Exclusive, Lock, At, Opened, Locked
<1> QED BY <1>2, <1>3

\* The windows build implements an exclusive lock: the lease, the guard and the
\* sweeps of a transcript never have it together and never pass it on.
THEOREM WindowsImplementsExclusion == ASSUME ~Posix PROVE Spec => ImplementsExclusion
<1> DEFINE h == IF lockers = {} THEN NoOp ELSE CHOOSE a \in Ops : a \in lockers
<1>1. Init => Exclusion!Init
  BY DEF Init, Exclusion!Init
<1>2. ASSUME IInv, IInv', [Next]_vars PROVE [Exclusion!Next]_h
  <2>1. /\ lockers \subseteq Ops /\ lockers' \subseteq Ops /\ NoOp \notin Ops
        /\ (\A a, b \in lockers : a = b) /\ (\A a, b \in lockers' : a = b)
    BY <1>2, NoneAssumption DEF IInv, TypeOK, Exclusive
  <2>2. ASSUME NEW a \in lockers PROVE h = a
    BY <2>1, <2>2
  <2>3. ASSUME NEW a \in lockers' PROVE h' = a
    BY <2>1, <2>3
  <2>4. /\ lockers = {} => h = NoOp
        /\ lockers' = {} => h' = NoOp
    OBVIOUS
  <2>5. ASSUME NEW a \in lockers, NEW b \in lockers' PROVE a = b
    BY <1>2, <2>1, <2>5, LockedAlone
  <2> HIDE DEF h
  <2>6. CASE lockers = {} /\ lockers' # {}
    BY <2>1, <2>3, <2>4, <2>6 DEF Exclusion!Next, Exclusion!Grab
  <2>7. CASE lockers # {} /\ lockers' = {}
    BY <2>1, <2>2, <2>4, <2>7 DEF Exclusion!Next, Exclusion!Drop
  <2>8. CASE lockers # {} /\ lockers' # {}
    BY <2>2, <2>3, <2>5, <2>8
  <2>9. CASE lockers = {} /\ lockers' = {}
    BY <2>4, <2>9
  <2> QED BY <2>6, <2>7, <2>8, <2>9
<1> QED BY <1>1, <1>2, Invariance, PTL DEF Spec, ImplementsExclusion, Exclusion!SafetySpec
=============================================================================
