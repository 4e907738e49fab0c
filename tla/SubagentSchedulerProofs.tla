---------------------- MODULE SubagentSchedulerProofs ----------------------
(***************************************************************************)
(* Proofs about SubagentScheduler for every set of calls, every file tree   *)
(* and every configured limit.                                              *)
(***************************************************************************)
EXTENDS SubagentScheduler, FiniteSetTheorems, SequenceTheorems, TLAPS

NoDuplicates(s) == \A i, j \in 1 .. Len(s) : s[i] = s[j] => i = j

-----------------------------------------------------------------------------
(* Lemmas about the operators *)

\* NormalizeConcurrencyLimits yields at least one slot, and a writer limit
\* within the total.
LEMMA LimitsType ==
  /\ MaxTotal \in 1 .. 32
  /\ MaxWriters \in 1 .. MaxTotal
BY ConfigAssumption DEF MaxTotal, MaxWriters, Clamp

\* removeWaiterLocked keeps other waiters only, and never repeats one.
LEMMA WithoutProperties ==
  ASSUME NEW S, NEW s \in Seq(S), NEW c
  PROVE  /\ Without(s, c) \in Seq(S)
         /\ NoDuplicates(s) =>
              /\ \A i \in 1 .. Len(Without(s, c)) :
                   \E k \in 1 .. Len(s) : Without(s, c)[i] = s[k] /\ s[k] # c
              /\ NoDuplicates(Without(s, c))
<1>1. CASE ~Contains(s, c)
  BY <1>1 DEF Without, Contains, NoDuplicates
<1>2. CASE Contains(s, c)
  <2> DEFINE k == CHOOSE i \in 1 .. Len(s) : s[i] = c
             a == SubSeq(s, 1, k - 1)
             b == SubSeq(s, k + 1, Len(s))
             old(i) == IF i < k THEN i ELSE i + 1
  <2>1. k \in 1 .. Len(s) /\ s[k] = c
    BY <1>2 DEF Contains
  <2>2. Without(s, c) = a \o b
    BY <1>2 DEF Without, RemoveAt
  <2> HIDE DEF k
  <2>3. /\ a \in Seq(S) /\ Len(a) = k - 1
        /\ \A i \in 1 .. Len(a) : a[i] = s[i]
    BY <2>1, SubSeqProperties
  <2>4. /\ b \in Seq(S) /\ Len(b) = Len(s) - k
        /\ \A i \in 1 .. Len(b) : b[i] = s[k + i]
    BY <2>1, SubSeqProperties
  <2> HIDE DEF a, b
  <2>5. /\ a \o b \in Seq(S) /\ Len(a \o b) = Len(s) - 1
        /\ \A i \in 1 .. Len(a \o b) : (a \o b)[i] = s[old(i)]
    <3>1. a \o b \in Seq(S) /\ Len(a \o b) = Len(s) - 1
      BY <2>1, <2>3, <2>4, ConcatProperties
    <3>2. ASSUME NEW i \in 1 .. Len(a \o b) PROVE (a \o b)[i] = s[old(i)]
      BY <2>1, <2>3, <2>4, <3>1, ConcatProperties
    <3> QED  BY <3>1, <3>2
  <2>6. \A i \in 1 .. Len(s) - 1 : old(i) \in 1 .. Len(s) /\ old(i) # k
    BY <2>1
  <2>7. \A i, j \in 1 .. Len(s) - 1 : old(i) = old(j) => i = j
    BY <2>1
  <2> DEFINE t == a \o b
  <2> HIDE DEF old, t
  <2>8. ASSUME NoDuplicates(s), NEW i \in 1 .. Len(t), NEW j \in 1 .. Len(t)
        PROVE  /\ old(i) \in 1 .. Len(s) /\ t[i] = s[old(i)] /\ t[i] # c
               /\ t[i] = t[j] => i = j
    <3>1. i \in 1 .. Len(s) - 1 /\ j \in 1 .. Len(s) - 1
      BY <2>5 DEF t
    <3>2. /\ old(i) \in 1 .. Len(s) /\ old(i) # k /\ t[i] = s[old(i)]
          /\ old(j) \in 1 .. Len(s) /\ t[j] = s[old(j)]
      BY <2>5, <2>6, <3>1 DEF t
    <3>3. t[i] # c
      BY <2>1, <2>8, <3>2 DEF NoDuplicates
    <3>4. ASSUME t[i] = t[j] PROVE i = j
      <4>1. old(i) = old(j)
        BY <2>8, <3>2, <3>4 DEF NoDuplicates
      <4> QED  BY <2>7, <3>1, <4>1
    <3> QED  BY <3>2, <3>3, <3>4
  <2>9. NoDuplicates(s) =>
          /\ \A i \in 1 .. Len(t) : \E m \in 1 .. Len(s) : t[i] = s[m] /\ s[m] # c
          /\ NoDuplicates(t)
    BY <2>8 DEF NoDuplicates
  <2> QED  BY <2>2, <2>5, <2>9 DEF t
<1> QED  BY <1>1, <1>2

-----------------------------------------------------------------------------
(* Type correctness *)

LEMMA TypeInit == Init => TypeOK
<1> SUFFICES ASSUME Init PROVE TypeOK
  OBVIOUS
<1>1. NoRequest \in Request
  BY DEF NoRequest, Request
<1> QED  BY <1>1, LimitsType DEF Init, TypeOK, CallState

LEMMA ActivateType ==
  ASSUME TypeOK, NEW r \in Request, CanStart(r), Activate(r)
  PROVE  /\ activeTotal' \in 0 .. MaxTotal
         /\ activeWriters' \in 0 .. MaxWriters
         /\ activeClaims' \subseteq Claims
<1>1. r.writer \in BOOLEAN /\ (r.writer => r.claim \in Claims)
  BY DEF Request
<1>2. CASE r.writer
  BY <1>1, <1>2, LimitsType DEF TypeOK, CanStart, Activate
<1>3. CASE ~r.writer
  BY <1>1, <1>3, LimitsType DEF TypeOK, CanStart, Activate
<1> QED  BY <1>2, <1>3

LEMMA TypeStep == TypeOK /\ [Next]_vars => TypeOK'
<1> SUFFICES ASSUME TypeOK, [Next]_vars PROVE TypeOK'
  OBVIOUS
<1> USE DEF TypeOK
<1>1. ASSUME NEW c \in Calls, NEW r \in Request, AcquireAtOnce(c, r) PROVE TypeOK'
  BY <1>1, ActivateType DEF AcquireAtOnce, CallState, parent, queue
<1>2. ASSUME NEW c \in Calls, NEW r \in Request, AcquireNestedFails(c, r) PROVE TypeOK'
  BY <1>2 DEF AcquireNestedFails, CallState, active, parent, queue
<1>3. ASSUME NEW c \in Calls, NEW r \in Request, AcquireQueues(c, r) PROVE TypeOK'
  BY <1>3 DEF AcquireQueues, CallState, active, parent
<1>4. ASSUME NEW c \in Calls, Resume(c) PROVE TypeOK'
  BY <1>4 DEF Resume, CallState, active, parent, queue
<1>5. ASSUME NEW c \in Calls, Cancel(c) PROVE TypeOK'
  <2>1. waiters' \in Seq(Calls)
    BY <1>5, WithoutProperties DEF Cancel
  <2> QED  BY <1>5, <2>1 DEF Cancel, CallState, active, parent
<1>6. ASSUME NEW c \in Calls, Release(c) PROVE TypeOK'
  <2>1. /\ activeTotal' \in 0 .. MaxTotal
        /\ activeWriters' \in 0 .. MaxWriters
        /\ activeClaims' \subseteq Claims
    BY <1>6, LimitsType DEF Release, Deactivate, Saturating
  <2> QED  BY <1>6, <2>1 DEF Release, StartPump, CallState, parent
<1>7. ASSUME PumpStep PROVE TypeOK'
  <2> DEFINE w == Head(scan)
  <2>1. w \in Calls /\ scan' \in Seq(Calls) /\ UNCHANGED <<req, parent>>
    BY <1>7 DEF PumpStep
  <2>2. CASE CanStart(req[w])
    <3>1. /\ Activate(req[w]) /\ req[w] \in Request /\ UNCHANGED waiters
          /\ state' = [state EXCEPT ![w] = "ready"]
      BY <1>7, <2>1, <2>2 DEF PumpStep
    <3> HIDE DEF w
    <3> QED  BY <2>1, <2>2, <3>1, ActivateType DEF CallState, parent
  <2>3. CASE ~CanStart(req[w])
    <3>1. waiters' = Append(waiters, w) /\ UNCHANGED <<active, state>>
      BY <1>7, <2>3 DEF PumpStep
    <3> QED  BY <2>1, <3>1 DEF active, parent
  <2> QED  BY <2>2, <2>3
<1>8. ASSUME NEW p \in ParentWrites, NEW s \in Claims, ReserveParentWrite(p, s)
      PROVE  TypeOK'
  BY <1>8 DEF ReserveParentWrite, active, queue
<1>9. ASSUME NEW p \in ParentWrites, ReleaseParentWrite(p) PROVE TypeOK'
  BY <1>9 DEF ReleaseParentWrite, StartPump, active
<1>10. CASE UNCHANGED vars
  BY <1>10 DEF vars
<1> QED
  BY <1>1, <1>2, <1>3, <1>4, <1>5, <1>6, <1>7, <1>8, <1>9, <1>10 DEF Next

\* The counters stay within the limits and every variable keeps its type,
\* whatever the order of calls, cancellations and releases.
THEOREM TypeCorrect == Spec => []TypeOK
BY TypeInit, TypeStep, PTL DEF Spec

-----------------------------------------------------------------------------
(* Claims *)

LEMMA OverlapsSymmetric ==
  ASSUME NEW s, NEW t, Overlaps(s, t) PROVE Overlaps(t, s)
BY DEF Overlaps, Nested

\* A claim overlaps itself: removeClaim never takes the claim of another holder.
LEMMA OverlapsItself ==
  ASSUME NEW s \in Claims PROVE Overlaps(s, s)
BY PathTree, ClaimsAssumption DEF Normalized, Claim, Overlaps, IsEmpty, Nested, Within

\* Claims that do not overlap allow no common path.
LEMMA DisjointClaims ==
  ASSUME NEW s \in Claims, NEW t \in Claims, ~Overlaps(s, t),
         NEW p \in Path, AllowsPath(s, p), AllowsPath(t, p)
  PROVE  FALSE
<1>1. Normalized(s) /\ Normalized(t)
  BY ClaimsAssumption
<1>2. Within(s.root, p) /\ Within(t.root, p)
  <2>1. ASSUME NEW u \in {s, t}, ~u.whole PROVE Within(u.root, p)
    <3>1. PICK q \in u.paths : Within(q, p)
      BY <2>1 DEF AllowsPath
    <3>2. u.root \in Path /\ q \in Path /\ Within(u.root, q)
      BY <1>1, <3>1 DEF Normalized, Claim
    <3> QED  BY <3>1, <3>2, PathTree
  <2>2. ASSUME NEW u \in {s, t}, u.whole PROVE Within(u.root, p)
    BY <1>1, <2>2, PathTree DEF Normalized, AllowsPath
  <2> QED  BY <1>1, <2>1, <2>2 DEF Normalized, Claim
<1>3. CASE s.whole \/ t.whole
  BY <1>1, <1>2, <1>3, PathTree DEF Normalized, Overlaps
<1>4. CASE ~s.whole /\ ~t.whole
  <2>1. PICK q \in s.paths : Within(q, p)
    BY <1>4 DEF AllowsPath
  <2>2. PICK r \in t.paths : Within(r, p)
    BY <1>4 DEF AllowsPath
  <2>3. q \in Path /\ r \in Path
    BY <1>1, <2>1, <2>2 DEF Normalized, Claim
  <2>4. Nested(q, r)
    BY <2>1, <2>2, <2>3, PathTree
  <2> QED  BY <1>1, <1>4, <2>1, <2>2, <2>4 DEF Overlaps, Normalized
<1> QED  BY <1>3, <1>4

-----------------------------------------------------------------------------
(* The inductive invariant: the counters count the holders, the claims are   *)
(* the holders' claims, and the queue holds each waiting call at most once.  *)

CountsHolders ==
  /\ activeTotal = Cardinality(Holders)
  /\ activeWriters = Cardinality(WriterHolders)

ClaimsOfHolders ==
  /\ activeClaims = {req[c].claim : c \in WriterHolders}
  /\ \A c, d \in WriterHolders : c # d => ~Overlaps(req[c].claim, req[d].claim)

ClaimsOfParent ==
  /\ \A p \in Reserving : parentClaim[p] \in Claims
  /\ \A c \in WriterHolders, p \in Reserving : ~Overlaps(req[c].claim, parentClaim[p])
  /\ \A p, q \in Reserving : p # q => ~Overlaps(parentClaim[p], parentClaim[q])

QueueOfWaiters ==
  /\ NoDuplicates(waiters) /\ NoDuplicates(scan)
  /\ \A i \in 1 .. Len(waiters) : state[waiters[i]] = "queued"
  /\ \A i \in 1 .. Len(scan) : state[scan[i]] = "queued"
  /\ \A i \in 1 .. Len(waiters), j \in 1 .. Len(scan) : waiters[i] # scan[j]

IInv == TypeOK /\ CountsHolders /\ ClaimsOfHolders /\ ClaimsOfParent /\ QueueOfWaiters

HolderParts == CountsHolders /\ ClaimsOfHolders /\ ClaimsOfParent

LEMMA HoldersFinite ==
  /\ IsFiniteSet(Holders) /\ IsFiniteSet(WriterHolders)
  /\ Cardinality(Holders) \in Nat /\ Cardinality(WriterHolders) \in Nat
  /\ WriterHolders \subseteq Holders
BY CallsAssumption, FS_Subset, FS_CardinalityType DEF Holders, WriterHolders

LEMMA CardinalityMinusOne ==
  ASSUME NEW S, IsFiniteSet(S), NEW x \in S
  PROVE  /\ Cardinality(S \ {x}) = Cardinality(S) - 1
         /\ Cardinality(S) \in Nat /\ Cardinality(S) - 1 \in Nat
<1>1. IsFiniteSet(S \ {x}) /\ Cardinality(S \ {x}) = Cardinality(S) - 1
  BY FS_RemoveElement
<1>2. Cardinality(S) \in Nat /\ Cardinality(S \ {x}) \in Nat
  BY <1>1, FS_CardinalityType
<1> QED  BY <1>1, <1>2

LEMMA ConflictsOfRequest ==
  ASSUME TypeOK, ClaimsOfHolders, NEW r \in Request, CanStart(r), r.writer
  PROVE  /\ r.claim \in Claims
         /\ \A d \in WriterHolders : ~Overlaps(req[d].claim, r.claim)
         /\ \A p \in Reserving : ~Overlaps(parentClaim[p], r.claim)
BY DEF Request, CanStart, Conflicts, ClaimsOfHolders, parentClaims

\* A call that is granted a slot joins the holders with its claim.
LEMMA Grant ==
  ASSUME TypeOK, TypeOK', HolderParts, UNCHANGED parent,
         NEW c \in Calls, c \notin Holders, c \in Holders',
         CanStart(req'[c]), Activate(req'[c]),
         \A d \in Calls \ {c} : state'[d] = state[d] /\ req'[d] = req[d]
  PROVE  HolderParts'
<1> DEFINE r == req'[c]
<1>1. r \in Request /\ r.writer \in BOOLEAN
  BY DEF TypeOK, Request
<1>2. Holders' = Holders \cup {c}
  BY DEF Holders
<1>3. WriterHolders' = IF r.writer THEN WriterHolders \cup {c} ELSE WriterHolders
  BY <1>1, <1>2 DEF WriterHolders, Holders
<1>4. c \notin WriterHolders
  BY DEF WriterHolders
<1>5. CountsHolders'
  BY <1>1, <1>2, <1>3, <1>4, HoldersFinite, FS_AddElement
     DEF HolderParts, CountsHolders, Activate
<1>6. \A d \in WriterHolders : d # c /\ d \in Calls /\ req'[d] = req[d]
  BY <1>4 DEF WriterHolders, Holders
<1>7. Reserving' = Reserving /\ parentClaim' = parentClaim
  BY DEF Reserving, parent
<1>8. CASE r.writer
  <2>1. /\ r.claim \in Claims
        /\ \A d \in WriterHolders : ~Overlaps(req[d].claim, r.claim)
        /\ \A p \in Reserving : ~Overlaps(parentClaim[p], r.claim)
    BY <1>1, <1>8, ConflictsOfRequest DEF HolderParts
  <2>2. activeClaims' = activeClaims \cup {r.claim}
    BY <1>8, <2>1, ClaimsAssumption DEF Activate, Normalized
  <2>3. WriterHolders' = WriterHolders \cup {c}
    BY <1>3, <1>8
  <2>4. ClaimsOfHolders'
    BY <1>6, <2>1, <2>2, <2>3, OverlapsSymmetric DEF HolderParts, ClaimsOfHolders
  <2>5. ClaimsOfParent'
    BY <1>6, <1>7, <2>1, <2>3, OverlapsSymmetric DEF HolderParts, ClaimsOfParent
  <2> QED  BY <1>5, <2>4, <2>5 DEF HolderParts
<1>9. CASE ~r.writer
  <2>1. activeClaims' = activeClaims /\ WriterHolders' = WriterHolders
    BY <1>3, <1>9 DEF Activate
  <2> QED  BY <1>5, <1>6, <1>7, <2>1 DEF HolderParts, ClaimsOfHolders, ClaimsOfParent
<1> QED  BY <1>1, <1>8, <1>9

\* A step that changes neither the holders nor the counters and claims.
LEMMA SameHolders ==
  ASSUME HolderParts, UNCHANGED <<active, parent>>, Holders' = Holders,
         \A d \in Holders : req'[d] = req[d]
  PROVE  HolderParts'
<1>1. WriterHolders' = WriterHolders /\ \A d \in WriterHolders : req'[d] = req[d]
  BY DEF WriterHolders
<1>2. Reserving' = Reserving
  BY DEF Reserving, parent
<1> QED  BY <1>1, <1>2 DEF HolderParts, CountsHolders, ClaimsOfHolders, ClaimsOfParent,
                           active, parent

\* A release removes the claim of the call that gives its slot back, and no other.
LEMMA GiveBack ==
  ASSUME TypeOK, HolderParts, NEW c \in Calls, Release(c)
  PROVE  HolderParts'
<1> USE DEF Release
<1>1. Holders' = Holders \ {c} /\ c \in Holders
  BY DEF Holders, TypeOK
<1>2. WriterHolders' = WriterHolders \ {c}
  BY <1>1 DEF WriterHolders
<1>3. req[c] \in Request /\ req[c].writer \in BOOLEAN
  BY DEF TypeOK, Request
<1>4. c \in WriterHolders <=> req[c].writer
  BY <1>1, <1>3 DEF WriterHolders
<1>5. Reserving' = Reserving /\ parentClaim' = parentClaim
  BY DEF Reserving, parent
<1>6. CountsHolders'
  <2>1. /\ Cardinality(Holders') = activeTotal - 1
        /\ activeTotal \in Nat /\ activeTotal - 1 \in Nat
    BY <1>1, CardinalityMinusOne, HoldersFinite DEF HolderParts, CountsHolders
  <2>2. CASE req[c].writer
    <3>1. /\ Cardinality(WriterHolders') = activeWriters - 1
          /\ activeWriters \in Nat /\ activeWriters - 1 \in Nat
      BY <1>2, <1>4, <2>2, CardinalityMinusOne, HoldersFinite DEF HolderParts, CountsHolders
    <3> QED  BY <2>1, <2>2, <3>1 DEF CountsHolders, Deactivate, Saturating
  <2>3. CASE ~req[c].writer
    <3>1. WriterHolders' = WriterHolders
      BY <1>2, <1>4, <2>3
    <3> QED  BY <2>1, <2>3, <3>1 DEF CountsHolders, HolderParts, Deactivate, Saturating
  <2> QED  BY <1>3, <2>2, <2>3
<1>7. ClaimsOfHolders'
  <2>1. CASE req[c].writer
    <3>1. req[c].claim \in Claims
      BY <1>3, <2>1 DEF Request
    <3>2. activeClaims' = activeClaims \ {req[c].claim}
      BY <2>1, <3>1, ClaimsAssumption DEF Deactivate, Normalized
    <3>3. \A d \in WriterHolders \ {c} : req[d].claim # req[c].claim
      BY <1>4, <2>1, <3>1, OverlapsItself DEF HolderParts, ClaimsOfHolders
    <3>4. activeClaims' = {req[d].claim : d \in WriterHolders \ {c}}
      BY <3>2, <3>3 DEF HolderParts, ClaimsOfHolders
    <3>5. UNCHANGED req
      OBVIOUS
    <3> QED  BY <1>2, <3>4, <3>5 DEF HolderParts, ClaimsOfHolders
  <2>2. CASE ~req[c].writer
    <3>1. WriterHolders' = WriterHolders /\ activeClaims' = activeClaims /\ UNCHANGED req
      BY <1>2, <1>4, <2>2 DEF Deactivate
    <3> QED  BY <3>1 DEF HolderParts, ClaimsOfHolders
  <2> QED  BY <1>3, <2>1, <2>2
<1>8. ClaimsOfParent'
  BY <1>2, <1>5 DEF HolderParts, ClaimsOfParent
<1> QED  BY <1>6, <1>7, <1>8 DEF HolderParts

-----------------------------------------------------------------------------
(* Every step preserves the inductive invariant *)

LEMMA HoldersStep ==
  ASSUME IInv, TypeOK', [Next]_vars
  PROVE  HolderParts'
<1>0. TypeOK /\ HolderParts
  BY DEF IInv, HolderParts
<1>1. ASSUME NEW c \in Calls, NEW r \in Request, AcquireAtOnce(c, r) PROVE HolderParts'
  <2>1. /\ c \notin Holders /\ c \in Holders' /\ req'[c] = r /\ UNCHANGED parent
        /\ \A d \in Calls \ {c} : state'[d] = state[d] /\ req'[d] = req[d]
    BY <1>0, <1>1 DEF AcquireAtOnce, Holders, TypeOK
  <2>2. CanStart(req'[c]) /\ Activate(req'[c])
    BY <1>1, <2>1 DEF AcquireAtOnce
  <2> QED  BY <1>0, <2>1, <2>2, Grant
<1>2. ASSUME NEW c \in Calls, NEW r \in Request,
             AcquireNestedFails(c, r) \/ AcquireQueues(c, r)
      PROVE  HolderParts'
  <2>1. UNCHANGED <<active, parent>>
    BY <1>2 DEF AcquireNestedFails, AcquireQueues
  <2>2. Holders' = Holders /\ \A d \in Holders : req'[d] = req[d]
    BY <1>0, <1>2 DEF AcquireNestedFails, AcquireQueues, Holders, TypeOK
  <2> QED  BY <1>0, <2>1, <2>2, SameHolders
<1>3. ASSUME NEW c \in Calls, Resume(c) \/ Cancel(c) PROVE HolderParts'
  <2>1. UNCHANGED <<active, parent, req>>
    BY <1>3 DEF Resume, Cancel
  <2>2. Holders' = Holders
    BY <1>0, <1>3 DEF Resume, Cancel, Holders, TypeOK
  <2> QED  BY <1>0, <2>1, <2>2, SameHolders
<1>4. ASSUME NEW c \in Calls, Release(c) PROVE HolderParts'
  BY <1>0, <1>4, GiveBack
<1>5. ASSUME PumpStep PROVE HolderParts'
  <2> DEFINE w == Head(scan)
  <2>1. w \in Calls /\ state[w] = "queued" /\ UNCHANGED <<req, parent>>
    BY <1>0, <1>5 DEF PumpStep, TypeOK, IInv, QueueOfWaiters
  <2>2. CASE CanStart(req[w])
    <3>1. Activate(req[w]) /\ state' = [state EXCEPT ![w] = "ready"]
      BY <1>5, <2>2 DEF PumpStep
    <3> HIDE DEF w
    <3>2. /\ w \notin Holders /\ w \in Holders'
          /\ \A d \in Calls \ {w} : state'[d] = state[d] /\ req'[d] = req[d]
      BY <1>0, <2>1, <3>1 DEF Holders, TypeOK
    <3>3. CanStart(req'[w]) /\ Activate(req'[w])
      BY <2>1, <2>2, <3>1
    <3> QED  BY <1>0, <2>1, <3>2, <3>3, Grant
  <2>3. CASE ~CanStart(req[w])
    <3>1. UNCHANGED <<active, state>>
      BY <1>5, <2>3 DEF PumpStep
    <3>2. Holders' = Holders
      BY <3>1 DEF Holders
    <3> QED  BY <1>0, <2>1, <3>1, <3>2, SameHolders
  <2> QED  BY <2>2, <2>3
<1>6. ASSUME NEW p \in ParentWrites, NEW s \in Claims, ReserveParentWrite(p, s)
      PROVE  HolderParts'
  <2>1. UNCHANGED <<state, req, active>>
    BY <1>6 DEF ReserveParentWrite
  <2>2. WriterHolders' = WriterHolders /\ Holders' = Holders
    BY <2>1 DEF WriterHolders, Holders
  <2>3. CASE Conflicts(s)
    <3>1. /\ Reserving' = Reserving
          /\ \A q \in Reserving : parentClaim'[q] = parentClaim[q]
      BY <1>0, <1>6, <2>3 DEF ReserveParentWrite, Reserving, TypeOK
    <3> QED  BY <1>0, <2>1, <2>2, <3>1
             DEF HolderParts, CountsHolders, ClaimsOfHolders, ClaimsOfParent, active
  <2>4. CASE ~Conflicts(s)
    <3>1. /\ Reserving' = Reserving \cup {p} /\ p \notin Reserving
          /\ parentClaim'[p] = s
          /\ \A q \in Reserving : parentClaim'[q] = parentClaim[q]
      BY <1>0, <1>6, <2>4 DEF ReserveParentWrite, Reserving, TypeOK
    <3>2. /\ \A d \in WriterHolders : ~Overlaps(req[d].claim, s)
          /\ \A q \in Reserving : ~Overlaps(parentClaim[q], s)
      BY <1>0, <2>4 DEF Conflicts, HolderParts, ClaimsOfHolders, parentClaims
    <3>3. ClaimsOfParent'
      BY <1>0, <2>1, <2>2, <3>1, <3>2, OverlapsSymmetric DEF HolderParts, ClaimsOfParent
    <3> QED  BY <1>0, <2>1, <2>2, <3>3 DEF HolderParts, CountsHolders, ClaimsOfHolders, active
  <2> QED  BY <2>3, <2>4
<1>7. ASSUME NEW p \in ParentWrites, ReleaseParentWrite(p) PROVE HolderParts'
  <2>1. UNCHANGED <<state, req, active, parentClaim>>
    BY <1>7 DEF ReleaseParentWrite
  <2>2. WriterHolders' = WriterHolders /\ Holders' = Holders /\ Reserving' \subseteq Reserving
    BY <1>0, <1>7, <2>1 DEF WriterHolders, Holders, Reserving, ReleaseParentWrite, TypeOK
  <2> QED  BY <1>0, <2>1, <2>2
           DEF HolderParts, CountsHolders, ClaimsOfHolders, ClaimsOfParent, active
<1>8. CASE UNCHANGED vars
  <2>1. Holders' = Holders
    BY <1>8 DEF vars, Holders
  <2> QED  BY <1>0, <1>8, <2>1, SameHolders DEF vars, active, parent
<1> QED  BY <1>1, <1>2, <1>3, <1>4, <1>5, <1>6, <1>7, <1>8 DEF Next

LEMMA QueueStep ==
  ASSUME IInv, TypeOK', [Next]_vars
  PROVE  QueueOfWaiters'
<1>0. TypeOK /\ QueueOfWaiters
  BY DEF IInv
<1>1. ASSUME NEW c \in Calls, state[c] # "queued", UNCHANGED queue,
             \A d \in Calls \ {c} : state'[d] = state[d]
      PROVE  QueueOfWaiters'
  BY <1>0, <1>1 DEF QueueOfWaiters, TypeOK, queue, NoDuplicates
<1>2. ASSUME NEW c \in Calls, NEW r \in Request, AcquireAtOnce(c, r) PROVE QueueOfWaiters'
  BY <1>0, <1>1, <1>2 DEF AcquireAtOnce, TypeOK
<1>3. ASSUME NEW c \in Calls, NEW r \in Request, AcquireNestedFails(c, r)
      PROVE  QueueOfWaiters'
  BY <1>0, <1>1, <1>3 DEF AcquireNestedFails, TypeOK
<1>4. ASSUME NEW c \in Calls, NEW r \in Request, AcquireQueues(c, r) PROVE QueueOfWaiters'
  <2>1. /\ scan = <<>> /\ scan' = <<>> /\ state[c] = "idle" /\ state'[c] = "queued"
        /\ waiters' = Append(waiters, c)
        /\ \A d \in Calls \ {c} : state'[d] = state[d]
    BY <1>0, <1>4 DEF AcquireQueues, MutexFree, TypeOK
  <2>2. /\ Len(waiters') = Len(waiters) + 1
        /\ \A i \in 1 .. Len(waiters) : waiters'[i] = waiters[i]
        /\ waiters'[Len(waiters) + 1] = c
        /\ \A i \in 1 .. Len(waiters) : waiters[i] \in Calls \ {c}
    BY <1>0, <2>1 DEF TypeOK, QueueOfWaiters
  <2> QED  BY <1>0, <2>1, <2>2 DEF QueueOfWaiters, NoDuplicates, TypeOK
<1>5. ASSUME NEW c \in Calls, Resume(c) PROVE QueueOfWaiters'
  BY <1>0, <1>1, <1>5 DEF Resume, TypeOK
<1>6. ASSUME NEW c \in Calls, Cancel(c) PROVE QueueOfWaiters'
  <2>1. /\ scan = <<>> /\ scan' = <<>> /\ waiters' = Without(waiters, c)
        /\ \A d \in Calls \ {c} : state'[d] = state[d]
    BY <1>0, <1>6 DEF Cancel, MutexFree, TypeOK
  <2>2. /\ NoDuplicates(waiters')
        /\ \A i \in 1 .. Len(waiters') :
             \E k \in 1 .. Len(waiters) : waiters'[i] = waiters[k] /\ waiters[k] # c
    BY <1>0, <2>1, WithoutProperties DEF TypeOK, QueueOfWaiters
  <2>3. \A i \in 1 .. Len(waiters') : state'[waiters'[i]] = "queued"
    <3> TAKE i \in 1 .. Len(waiters')
    <3>1. PICK k \in 1 .. Len(waiters) : waiters'[i] = waiters[k] /\ waiters[k] # c
      BY <2>2
    <3>2. waiters[k] \in Calls \ {c} /\ state[waiters[k]] = "queued"
      BY <1>0, <3>1 DEF TypeOK, QueueOfWaiters
    <3> QED  BY <2>1, <3>1, <3>2
  <2> QED  BY <2>1, <2>2, <2>3 DEF QueueOfWaiters, NoDuplicates
<1>7. ASSUME NEW c \in Calls, Release(c) PROVE QueueOfWaiters'
  <2>1. /\ scan = <<>> /\ scan' = waiters /\ waiters' = <<>>
        /\ state[c] # "queued" /\ \A d \in Calls \ {c} : state'[d] = state[d]
    BY <1>0, <1>7 DEF Release, MutexFree, StartPump, TypeOK
  <2> QED  BY <1>0, <2>1 DEF QueueOfWaiters, NoDuplicates, TypeOK
<1>8. ASSUME PumpStep PROVE QueueOfWaiters'
  <2> DEFINE w == Head(scan)
  <2>1. /\ w = scan[1] /\ w \in Calls /\ scan' = Tail(scan) /\ Len(scan) > 0
        /\ Len(scan') = Len(scan) - 1
        /\ \A i \in 1 .. Len(scan') : scan'[i] = scan[i + 1]
    BY <1>0, <1>8 DEF PumpStep, TypeOK
  <2> HIDE DEF w
  <2>2. \A i \in 1 .. Len(scan') : scan'[i] # w /\ scan'[i] \in Calls
    BY <1>0, <2>1 DEF QueueOfWaiters, NoDuplicates, TypeOK
  <2>3. NoDuplicates(scan') /\ \A i \in 1 .. Len(waiters) : waiters[i] # w
    BY <1>0, <2>1 DEF QueueOfWaiters, NoDuplicates, TypeOK
  <2>4. CASE CanStart(req[w])
    <3>1. waiters' = waiters /\ \A d \in Calls \ {w} : state'[d] = state[d]
      BY <1>0, <1>8, <2>1, <2>4 DEF PumpStep, TypeOK, w
    <3> QED  BY <1>0, <2>1, <2>2, <2>3, <3>1 DEF QueueOfWaiters, NoDuplicates, TypeOK
  <2>5. CASE ~CanStart(req[w])
    <3>1. waiters' = Append(waiters, w) /\ state' = state
      BY <1>8, <2>5 DEF PumpStep, active, w
    <3>2. /\ Len(waiters') = Len(waiters) + 1
          /\ \A i \in 1 .. Len(waiters) : waiters'[i] = waiters[i]
          /\ waiters'[Len(waiters) + 1] = w
      BY <1>0, <2>1, <3>1 DEF TypeOK
    <3> QED  BY <1>0, <2>1, <2>2, <2>3, <3>1, <3>2 DEF QueueOfWaiters, NoDuplicates, TypeOK
  <2> QED  BY <2>4, <2>5
<1>9. ASSUME NEW p \in ParentWrites, NEW s \in Claims, ReserveParentWrite(p, s)
      PROVE  QueueOfWaiters'
  BY <1>0, <1>9 DEF ReserveParentWrite, QueueOfWaiters, NoDuplicates, queue
<1>10. ASSUME NEW p \in ParentWrites, ReleaseParentWrite(p) PROVE QueueOfWaiters'
  <2>1. scan = <<>> /\ scan' = waiters /\ waiters' = <<>> /\ state' = state
    BY <1>10 DEF ReleaseParentWrite, MutexFree, StartPump
  <2> QED  BY <1>0, <2>1 DEF QueueOfWaiters, NoDuplicates, TypeOK
<1>11. CASE UNCHANGED vars
  BY <1>0, <1>11 DEF vars, QueueOfWaiters, NoDuplicates
<1> QED
  BY <1>2, <1>3, <1>4, <1>5, <1>6, <1>7, <1>8, <1>9, <1>10, <1>11 DEF Next

LEMMA InvInit == Init => IInv
<1> SUFFICES ASSUME Init PROVE IInv
  OBVIOUS
<1>1. Holders = {} /\ WriterHolders = {} /\ Reserving = {}
  BY DEF Init, Holders, WriterHolders, Reserving
<1>2. waiters = <<>> /\ scan = <<>>
  BY DEF Init
<1> QED
  BY <1>1, <1>2, TypeInit, FS_EmptySet
  DEF Init, IInv, CountsHolders, ClaimsOfHolders, ClaimsOfParent, QueueOfWaiters, NoDuplicates

THEOREM Invariance == Spec => []IInv
<1>1. IInv /\ [Next]_vars => IInv'
  BY TypeStep, HoldersStep, QueueStep DEF IInv, HolderParts
<1> QED  BY InvInit, <1>1, PTL DEF Spec

-----------------------------------------------------------------------------
(* The safety properties *)

\* The pool bounds count what they are meant to bound: since the counters count
\* the holders, no schedule lets more sub-agents, or more writers, hold a slot
\* than the configuration allows.
THEOREM CapacityHolds == Spec => []CapacityRespected
<1>1. IInv => CapacityRespected
  BY LimitsType DEF IInv, TypeOK, CountsHolders, CapacityRespected
<1> QED  BY Invariance, <1>1, PTL

\* Write claims do their job: at no time may two sub-agents, or a sub-agent and
\* a write tool of the parent agent, write the same path.
THEOREM WritersDisjoint == Spec => []NoSharedWritePath
<1>1. ASSUME IInv PROVE NoSharedWritePath
  <2>1. \A c \in WriterHolders : req[c].claim \in Claims
    BY <1>1 DEF IInv, TypeOK, WriterHolders, Holders, Request
  <2>2. \A p \in Reserving : parentClaim[p] \in Claims
    BY <1>1 DEF IInv, ClaimsOfParent
  <2>3. /\ \A c, d \in WriterHolders : c # d => ~Overlaps(req[c].claim, req[d].claim)
        /\ \A c \in WriterHolders, p \in Reserving : ~Overlaps(req[c].claim, parentClaim[p])
        /\ \A p, q \in Reserving : p # q => ~Overlaps(parentClaim[p], parentClaim[q])
    BY <1>1 DEF IInv, ClaimsOfHolders, ClaimsOfParent
  <2> QED  BY <2>1, <2>2, <2>3, DisjointClaims DEF NoSharedWritePath
<1> QED  BY Invariance, <1>1, PTL

-----------------------------------------------------------------------------
(* No lost wake-up.  The queue holds every waiting call, and a waiter that the *)
(* pump has kept, or that has queued since, cannot start.                      *)

WaitersListed ==
  \A c \in Calls : state[c] = "queued" =>
    \/ \E i \in 1 .. Len(waiters) : waiters[i] = c
    \/ \E i \in 1 .. Len(scan) : scan[i] = c

WaitersBlocked == \A i \in 1 .. Len(waiters) : ~CanStart(req[waiters[i]])

WakeInv == IInv /\ WaitersListed /\ WaitersBlocked

\* removeWaiterLocked keeps every other waiter, in its order.
LEMMA WithoutKeepsOrder ==
  ASSUME NEW S, NEW s \in Seq(S), NEW c, NoDuplicates(s)
  PROVE  /\ \A i \in 1 .. Len(s) : s[i] # c =>
              \E m \in 1 .. Len(Without(s, c)) : Without(s, c)[m] = s[i]
         /\ \A i, j \in 1 .. Len(s) : i < j /\ s[i] # c /\ s[j] # c =>
              Precedes(Without(s, c), s[i], s[j])
<1>1. CASE ~Contains(s, c)
  BY <1>1 DEF Without, Precedes
<1>2. CASE Contains(s, c)
  <2> DEFINE k == CHOOSE i \in 1 .. Len(s) : s[i] = c
             a == SubSeq(s, 1, k - 1)
             b == SubSeq(s, k + 1, Len(s))
             t == a \o b
             new(i) == IF i < k THEN i ELSE i - 1
  <2>1. k \in 1 .. Len(s) /\ s[k] = c
    BY <1>2 DEF Contains
  <2>2. Without(s, c) = t
    BY <1>2 DEF Without, RemoveAt
  <2> HIDE DEF k
  <2>3. /\ a \in Seq(S) /\ Len(a) = k - 1
        /\ \A i \in 1 .. Len(a) : a[i] = s[i]
    BY <2>1, SubSeqProperties
  <2>4. /\ b \in Seq(S) /\ Len(b) = Len(s) - k
        /\ \A i \in 1 .. Len(b) : b[i] = s[k + i]
    BY <2>1, SubSeqProperties
  <2> HIDE DEF a, b
  <2>5. t \in Seq(S) /\ Len(t) = Len(s) - 1
    BY <2>1, <2>3, <2>4, ConcatProperties
  <2>6. ASSUME NEW i \in 1 .. Len(s), s[i] # c
        PROVE  new(i) \in 1 .. Len(t) /\ t[new(i)] = s[i] /\ i # k
    <3>1. i # k /\ new(i) \in 1 .. Len(t)
      BY <2>1, <2>5, <2>6
    <3>2. CASE i < k
      <4>1. t[i] = a[i]
        BY <2>1, <2>3, <2>4, <3>2, ConcatProperties
      <4> QED  BY <2>1, <2>3, <3>1, <3>2, <4>1
    <3>3. CASE i > k
      <4>1. t[i - 1] = b[i - k]
        BY <2>1, <2>3, <2>4, <3>3, ConcatProperties
      <4>2. i - k \in 1 .. Len(b) /\ k + (i - k) = i
        BY <2>1, <2>4, <3>3
      <4> HIDE DEF t
      <4> QED  BY <2>1, <2>4, <3>1, <3>3, <4>1, <4>2
    <3> QED  BY <2>1, <3>1, <3>2, <3>3
  <2>7. \A i, j \in 1 .. Len(s) : i < j /\ i # k /\ j # k => new(i) < new(j)
    BY <2>1
  <2> HIDE DEF t, new
  <2> QED  BY <2>2, <2>6, <2>7 DEF Precedes
<1> QED  BY <1>1, <1>2

\* A request that does not fit does not fit with fewer slots and more claims.
LEMMA StillBlocked ==
  ASSUME TypeOK, TypeOK', NEW r \in Request, ~CanStart(r),
         activeTotal' >= activeTotal, activeWriters' >= activeWriters,
         activeClaims \cup parentClaims \subseteq activeClaims' \cup parentClaims'
  PROVE  ~CanStart(r)'
<1>1. /\ activeTotal \in Int /\ activeTotal' \in Int
      /\ activeWriters \in Int /\ activeWriters' \in Int
      /\ MaxTotal \in Int /\ MaxWriters \in Int
  BY LimitsType DEF TypeOK
<1>2. Conflicts(r.claim) => Conflicts(r.claim)'
  BY DEF Conflicts
<1> QED  BY <1>1, <1>2 DEF CanStart

LEMMA ListedStep ==
  ASSUME WakeInv, TypeOK', [Next]_vars
  PROVE  WaitersListed'
<1>0. TypeOK /\ QueueOfWaiters /\ WaitersListed
  BY DEF WakeInv, IInv
<1>1. ASSUME UNCHANGED queue, \A d \in Calls : state'[d] = "queued" => state[d] = "queued"
      PROVE  WaitersListed'
  BY <1>0, <1>1 DEF WaitersListed, queue
<1>2. ASSUME NEW c \in Calls, NEW r \in Request, AcquireAtOnce(c, r) PROVE WaitersListed'
  BY <1>0, <1>1, <1>2 DEF AcquireAtOnce, TypeOK
<1>3. ASSUME NEW c \in Calls, NEW r \in Request, AcquireNestedFails(c, r)
      PROVE  WaitersListed'
  BY <1>0, <1>1, <1>3 DEF AcquireNestedFails, TypeOK
<1>4. ASSUME NEW c \in Calls, NEW r \in Request, AcquireQueues(c, r) PROVE WaitersListed'
  <2>1. /\ scan' = scan /\ waiters' = Append(waiters, c)
        /\ \A d \in Calls \ {c} : state'[d] = state[d]
    BY <1>0, <1>4 DEF AcquireQueues, TypeOK
  <2>2. /\ Len(waiters') = Len(waiters) + 1 /\ Len(waiters) \in Nat
        /\ \A i \in 1 .. Len(waiters) : waiters'[i] = waiters[i]
        /\ waiters'[Len(waiters) + 1] = c
    BY <1>0, <2>1 DEF TypeOK
  <2> QED  BY <1>0, <2>1, <2>2 DEF WaitersListed
<1>5. ASSUME NEW c \in Calls, Resume(c) PROVE WaitersListed'
  BY <1>0, <1>1, <1>5 DEF Resume, TypeOK
<1>6. ASSUME NEW c \in Calls, Cancel(c) PROVE WaitersListed'
  <2>1. /\ scan = <<>> /\ waiters' = Without(waiters, c) /\ state'[c] # "queued"
        /\ \A d \in Calls \ {c} : state'[d] = state[d]
    BY <1>0, <1>6 DEF Cancel, MutexFree, TypeOK
  <2>2. \A i \in 1 .. Len(waiters) : waiters[i] # c =>
          \E m \in 1 .. Len(waiters') : waiters'[m] = waiters[i]
    BY <1>0, <2>1, WithoutKeepsOrder DEF TypeOK, QueueOfWaiters
  <2> QED  BY <1>0, <2>1, <2>2 DEF WaitersListed
<1>7. ASSUME StartPump, MutexFree,
             \A d \in Calls : state'[d] = "queued" => state[d] = "queued"
      PROVE  WaitersListed'
  BY <1>0, <1>7 DEF WaitersListed, StartPump, MutexFree
<1>8. ASSUME NEW c \in Calls, Release(c) PROVE WaitersListed'
  BY <1>0, <1>7, <1>8 DEF Release, TypeOK
<1>9. ASSUME NEW p \in ParentWrites, ReleaseParentWrite(p) PROVE WaitersListed'
  BY <1>7, <1>9 DEF ReleaseParentWrite
<1>10. ASSUME PumpStep PROVE WaitersListed'
  <2> DEFINE w == Head(scan)
  <2>1. /\ w = scan[1] /\ w \in Calls /\ Len(scan) \in Nat /\ Len(scan) > 0
        /\ scan' = Tail(scan) /\ Len(scan') = Len(scan) - 1
        /\ \A i \in 1 .. Len(scan') : scan'[i] = scan[i + 1]
    BY <1>0, <1>10 DEF PumpStep, TypeOK
  <2> HIDE DEF w
  <2>2. \A i \in 1 .. Len(scan) : scan[i] # w => \E m \in 1 .. Len(scan') : scan'[m] = scan[i]
    <3> SUFFICES ASSUME NEW i \in 1 .. Len(scan), scan[i] # w
                 PROVE  \E m \in 1 .. Len(scan') : scan'[m] = scan[i]
      OBVIOUS
    <3>1. i - 1 \in 1 .. Len(scan') /\ (i - 1) + 1 = i
      BY <2>1
    <3> QED  BY <2>1, <3>1
  <2>3. CASE CanStart(req[w])
    <3>1. /\ waiters' = waiters /\ state'[w] # "queued"
          /\ \A d \in Calls \ {w} : state'[d] = state[d]
      BY <1>0, <1>10, <2>1, <2>3 DEF PumpStep, TypeOK, w
    <3> QED  BY <1>0, <2>2, <3>1 DEF WaitersListed
  <2>4. CASE ~CanStart(req[w])
    <3>1. waiters' = Append(waiters, w) /\ state' = state
      BY <1>10, <2>4 DEF PumpStep, active, w
    <3>2. /\ Len(waiters') = Len(waiters) + 1 /\ Len(waiters) \in Nat
          /\ \A i \in 1 .. Len(waiters) : waiters'[i] = waiters[i]
          /\ waiters'[Len(waiters) + 1] = w
      BY <1>0, <2>1, <3>1 DEF TypeOK
    <3> QED  BY <1>0, <2>2, <3>1, <3>2 DEF WaitersListed
  <2> QED  BY <2>3, <2>4
<1>11. ASSUME NEW p \in ParentWrites, NEW s \in Claims, ReserveParentWrite(p, s)
       PROVE  WaitersListed'
  BY <1>1, <1>11 DEF ReserveParentWrite
<1>12. CASE UNCHANGED vars
  BY <1>1, <1>12 DEF vars, queue
<1> QED
  BY <1>2, <1>3, <1>4, <1>5, <1>6, <1>8, <1>9, <1>10, <1>11, <1>12 DEF Next

LEMMA BlockedStep ==
  ASSUME WakeInv, TypeOK', [Next]_vars
  PROVE  WaitersBlocked'
<1>0. TypeOK /\ QueueOfWaiters /\ WaitersBlocked /\ HolderParts
  BY DEF WakeInv, IInv, HolderParts
<1>1. /\ activeTotal \in Int /\ activeTotal + 1 >= activeTotal
      /\ activeWriters \in Int /\ activeWriters + 1 >= activeWriters
      /\ \A i \in 1 .. Len(waiters) : waiters[i] \in Calls /\ req[waiters[i]] \in Request
  BY <1>0, LimitsType DEF TypeOK
\* A step that keeps the waiters and takes no slot and no claim back.
<1>2. ASSUME activeTotal' >= activeTotal, activeWriters' >= activeWriters,
             activeClaims \subseteq activeClaims', parentClaims \subseteq parentClaims',
             \A m \in 1 .. Len(waiters') : \E i \in 1 .. Len(waiters) :
               waiters'[m] = waiters[i] /\ req'[waiters'[m]] = req[waiters[i]]
      PROVE  WaitersBlocked'
  <2> SUFFICES ASSUME NEW m \in 1 .. Len(waiters') PROVE ~CanStart(req[waiters[m]])'
    BY DEF WaitersBlocked
  <2>1. PICK i \in 1 .. Len(waiters) :
          waiters'[m] = waiters[i] /\ req'[waiters'[m]] = req[waiters[i]]
    BY <1>2
  <2>2. PICK r \in Request : r = req[waiters[i]] /\ ~CanStart(r)
    BY <1>0, <1>1 DEF WaitersBlocked
  <2>3. ~CanStart(r)'
    BY <1>0, <1>2, <2>2, StillBlocked
  <2>4. req'[waiters'[m]] = r
    BY <2>1, <2>2
  <2> QED  BY <2>3, <2>4 DEF CanStart, Conflicts
<1>3. \A r : Activate(r) => /\ activeTotal' >= activeTotal /\ activeWriters' >= activeWriters
                            /\ activeClaims \subseteq activeClaims'
  BY <1>1 DEF Activate
<1>4. UNCHANGED active => /\ activeTotal' >= activeTotal /\ activeWriters' >= activeWriters
                          /\ activeClaims \subseteq activeClaims'
  BY <1>1 DEF active
<1>5. UNCHANGED parent => parentClaims \subseteq parentClaims'
  BY DEF parent, parentClaims, Reserving
<1>6. ASSUME NEW c \in Calls, NEW r \in Request, AcquireAtOnce(c, r) \/ AcquireNestedFails(c, r)
      PROVE  WaitersBlocked'
  <2>1. /\ waiters' = waiters /\ state[c] = "idle" /\ UNCHANGED parent
        /\ \A d \in Calls \ {c} : req'[d] = req[d]
        /\ Activate(r) \/ UNCHANGED active
    BY <1>0, <1>6 DEF AcquireAtOnce, AcquireNestedFails, queue, TypeOK
  <2>2. \A i \in 1 .. Len(waiters) : req'[waiters[i]] = req[waiters[i]]
    BY <1>0, <1>1, <2>1 DEF QueueOfWaiters
  <2> QED  BY <1>2, <1>3, <1>4, <1>5, <2>1, <2>2
<1>7. ASSUME NEW c \in Calls, NEW r \in Request, AcquireQueues(c, r) PROVE WaitersBlocked'
  <2>1. /\ waiters' = Append(waiters, c) /\ state[c] = "idle" /\ UNCHANGED <<active, parent>>
        /\ req'[c] = r /\ \A d \in Calls \ {c} : req'[d] = req[d]
        /\ ~CanStart(r)
    BY <1>0, <1>7 DEF AcquireQueues, TypeOK
  <2>2. /\ Len(waiters') = Len(waiters) + 1 /\ Len(waiters) \in Nat
        /\ \A i \in 1 .. Len(waiters) : waiters'[i] = waiters[i]
        /\ waiters'[Len(waiters) + 1] = c
    BY <1>0, <2>1 DEF TypeOK
  <2>3. \A q : CanStart(q)' <=> CanStart(q)
    BY <2>1 DEF active, parent, CanStart, Conflicts, parentClaims, Reserving
  <2>4. \A i \in 1 .. Len(waiters') : ~CanStart(req'[waiters'[i]])
    <3> TAKE i \in 1 .. Len(waiters')
    <3>1. CASE i = Len(waiters) + 1
      BY <2>1, <2>2, <3>1
    <3>2. CASE i \in 1 .. Len(waiters)
      <4>1. waiters[i] \in Calls \ {c} /\ ~CanStart(req[waiters[i]])
        BY <1>0, <1>1, <2>1, <3>2 DEF QueueOfWaiters, WaitersBlocked
      <4> QED  BY <2>1, <2>2, <3>2, <4>1
    <3> QED  BY <2>2, <3>1, <3>2
  <2> QED  BY <2>3, <2>4 DEF WaitersBlocked, CanStart, Conflicts
<1>8. ASSUME NEW c \in Calls, Resume(c) PROVE WaitersBlocked'
  <2>1. UNCHANGED <<req, active, parent, queue>>
    BY <1>8 DEF Resume
  <2> QED  BY <1>2, <1>4, <1>5, <2>1 DEF queue
<1>9. ASSUME NEW c \in Calls, Cancel(c) PROVE WaitersBlocked'
  <2>1. UNCHANGED <<req, active, parent>> /\ waiters' = Without(waiters, c)
    BY <1>9 DEF Cancel
  <2>2. \A m \in 1 .. Len(waiters') : \E i \in 1 .. Len(waiters) : waiters'[m] = waiters[i]
    BY <1>0, <2>1, WithoutProperties DEF TypeOK, QueueOfWaiters
  <2> QED  BY <1>2, <1>4, <1>5, <2>1, <2>2
<1>10. ASSUME StartPump PROVE WaitersBlocked'
  BY <1>10 DEF StartPump, WaitersBlocked
<1>11. ASSUME PumpStep PROVE WaitersBlocked'
  <2> DEFINE w == Head(scan)
  <2>1. w \in Calls /\ UNCHANGED <<req, parent>>
    BY <1>0, <1>11 DEF PumpStep, TypeOK
  <2>2. CASE CanStart(req[w])
    <3>1. Activate(req[w]) /\ waiters' = waiters
      BY <1>11, <2>2 DEF PumpStep
    <3> QED  BY <1>2, <1>3, <1>5, <2>1, <3>1
  <2>3. CASE ~CanStart(req[w])
    <3>1. waiters' = Append(waiters, w) /\ UNCHANGED active
      BY <1>11, <2>3 DEF PumpStep
    <3> HIDE DEF w
    <3>2. /\ Len(waiters') = Len(waiters) + 1 /\ Len(waiters) \in Nat
          /\ \A i \in 1 .. Len(waiters) : waiters'[i] = waiters[i]
          /\ waiters'[Len(waiters) + 1] = w
      BY <1>0, <2>1, <3>1 DEF TypeOK
    <3>3. \A q : CanStart(q)' <=> CanStart(q)
      BY <2>1, <3>1 DEF active, parent, CanStart, Conflicts, parentClaims, Reserving
    <3>4. \A i \in 1 .. Len(waiters') : ~CanStart(req'[waiters'[i]])
      BY <1>0, <2>1, <2>3, <3>2 DEF WaitersBlocked
    <3> QED  BY <3>3, <3>4 DEF WaitersBlocked, CanStart, Conflicts
  <2> QED  BY <2>2, <2>3
<1>12. ASSUME NEW p \in ParentWrites, NEW s \in Claims, ReserveParentWrite(p, s)
       PROVE  WaitersBlocked'
  <2>1. UNCHANGED <<req, active, queue>>
    BY <1>12 DEF ReserveParentWrite
  <2>2. parentClaims \subseteq parentClaims'
    BY <1>0, <1>12 DEF ReserveParentWrite, parentClaims, Reserving, TypeOK
  <2> QED  BY <1>2, <1>4, <2>1, <2>2 DEF queue
<1>13. CASE UNCHANGED vars
  BY <1>2, <1>4, <1>5, <1>13 DEF vars, active, parent
<1> QED
  BY <1>6, <1>7, <1>8, <1>9, <1>10, <1>11, <1>12, <1>13
  DEF Next, Release, ReleaseParentWrite

LEMMA WakeInvariance == Spec => []WakeInv
<1>1. Init => WaitersListed /\ WaitersBlocked
  BY DEF Init, WaitersListed, WaitersBlocked
<1>2. WakeInv /\ [Next]_vars => WakeInv'
  BY TypeStep, HoldersStep, QueueStep, ListedStep, BlockedStep DEF WakeInv, IInv, HolderParts
<1> QED  BY InvInit, <1>1, <1>2, PTL DEF Spec, WakeInv

\* No wake-up is lost: whenever the mutex is free, no call waits for a slot that
\* it could be given, although slots, claims and parent writes end in any order
\* (pumpWaitersLocked after every release, Acquire's queueing under one lock).
THEOREM NoWakeUpLost == Spec => []NoIdleCapacity
<1>1. WakeInv => NoIdleCapacity
  BY DEF WakeInv, WaitersListed, WaitersBlocked, NoIdleCapacity, MutexFree
<1> QED  BY WakeInvariance, <1>1, PTL

-----------------------------------------------------------------------------
(* First come, first served *)

LEMMA QueueElements ==
  ASSUME NEW S, NEW s \in Seq(S), NEW t \in Seq(S)
  PROVE  /\ s \o t \in Seq(S) /\ Len(s \o t) = Len(s) + Len(t)
         /\ Len(s) \in Nat /\ Len(t) \in Nat
         /\ \A i \in 1 .. Len(s) : (s \o t)[i] = s[i]
         /\ \A j \in 1 .. Len(t) : (s \o t)[Len(s) + j] = t[j]
<1>1. /\ s \o t \in Seq(S) /\ Len(s \o t) = Len(s) + Len(t)
      /\ Len(s) \in Nat /\ Len(t) \in Nat
      /\ \A i \in 1 .. Len(s) + Len(t) :
           (s \o t)[i] = IF i <= Len(s) THEN s[i] ELSE t[i - Len(s)]
  BY ConcatProperties
<1> DEFINE st == s \o t
<1> HIDE DEF st
<1>2. \A j \in 1 .. Len(t) : /\ Len(s) + j \in 1 .. Len(s) + Len(t)
                             /\ ~(Len(s) + j <= Len(s)) /\ (Len(s) + j) - Len(s) = j
  BY <1>1
<1> QED  BY <1>1, <1>2 DEF st

\* Of two queued calls one precedes the other.
LEMMA QueueIsTotal ==
  ASSUME WakeInv, NEW c \in Calls, NEW d \in Calls, c # d,
         state[c] = "queued", state[d] = "queued"
  PROVE  Precedes(Queue, c, d) \/ Precedes(Queue, d, c)
<1>1. /\ Queue \in Seq(Calls) /\ Len(Queue) = Len(waiters) + Len(scan)
      /\ Len(waiters) \in Nat /\ Len(scan) \in Nat
      /\ \A i \in 1 .. Len(waiters) : Queue[i] = waiters[i]
      /\ \A j \in 1 .. Len(scan) : Queue[Len(waiters) + j] = scan[j]
  BY QueueElements DEF Queue, WakeInv, IInv, TypeOK
<1>2. ASSUME NEW x \in Calls, state[x] = "queued" PROVE \E i \in 1 .. Len(Queue) : Queue[i] = x
  <2>1. CASE \E i \in 1 .. Len(waiters) : waiters[i] = x
    BY <1>1, <2>1
  <2>2. CASE \E j \in 1 .. Len(scan) : scan[j] = x
    <3>1. PICK j \in 1 .. Len(scan) : scan[j] = x
      BY <2>2
    <3>2. Len(waiters) + j \in 1 .. Len(Queue) /\ Queue[Len(waiters) + j] = x
      BY <1>1, <3>1
    <3> QED  BY <3>2
  <2> QED  BY <1>2, <2>1, <2>2 DEF WakeInv, WaitersListed
<1>3. PICK i \in 1 .. Len(Queue) : Queue[i] = c
  BY <1>2
<1>4. PICK j \in 1 .. Len(Queue) : Queue[j] = d
  BY <1>2
<1> QED  BY <1>1, <1>3, <1>4 DEF Precedes

\* A step keeps the order of the calls that stay queued.
LEMMA OrderKept ==
  ASSUME WakeInv, TypeOK', [Next]_vars, NEW c \in Calls, NEW d \in Calls,
         state[c] = "queued", state[d] = "queued",
         state'[c] = "queued", state'[d] = "queued", Precedes(Queue, d, c)
  PROVE  Precedes(Queue', d, c)
<1>0. TypeOK /\ QueueOfWaiters
  BY DEF WakeInv, IInv
<1>1. /\ Queue \in Seq(Calls) /\ Len(Queue) = Len(waiters) + Len(scan)
      /\ Len(waiters) \in Nat /\ Len(scan) \in Nat
      /\ \A i \in 1 .. Len(waiters) : Queue[i] = waiters[i]
      /\ \A j \in 1 .. Len(scan) : Queue[Len(waiters) + j] = scan[j]
  BY <1>0, QueueElements DEF Queue, TypeOK
<1>2. /\ Queue' \in Seq(Calls) /\ Len(Queue') = Len(waiters') + Len(scan')
      /\ Len(waiters') \in Nat /\ Len(scan') \in Nat
      /\ \A i \in 1 .. Len(waiters') : Queue'[i] = waiters'[i]
      /\ \A j \in 1 .. Len(scan') : Queue'[Len(waiters') + j] = scan'[j]
  BY QueueElements DEF Queue, TypeOK
<1>3. PICK i, j \in 1 .. Len(Queue) : i < j /\ Queue[i] = d /\ Queue[j] = c
  BY DEF Precedes
<1>4. ASSUME Len(Queue') >= Len(Queue), \A k \in 1 .. Len(Queue) : Queue'[k] = Queue[k]
      PROVE  Precedes(Queue', d, c)
  BY <1>1, <1>2, <1>3, <1>4 DEF Precedes
<1>5. ASSUME UNCHANGED queue PROVE Precedes(Queue', d, c)
  BY <1>5 DEF queue, Queue
<1>6. ASSUME NEW x \in Calls, NEW r \in Request,
             AcquireAtOnce(x, r) \/ AcquireNestedFails(x, r)
      PROVE  Precedes(Queue', d, c)
  BY <1>5, <1>6 DEF AcquireAtOnce, AcquireNestedFails
<1>7. ASSUME NEW x \in Calls, NEW r \in Request, AcquireQueues(x, r)
      PROVE  Precedes(Queue', d, c)
  <2>1. waiters' = Append(waiters, x) /\ scan = <<>> /\ scan' = <<>>
    BY <1>7 DEF AcquireQueues, MutexFree
  <2>2. /\ Len(waiters') = Len(waiters) + 1 /\ Len(scan) = 0
        /\ \A k \in 1 .. Len(waiters) : waiters'[k] = waiters[k]
    BY <1>0, <2>1 DEF TypeOK
  <2> QED  BY <1>1, <1>2, <1>4, <2>2
<1>8. ASSUME NEW x \in Calls, Resume(x) PROVE Precedes(Queue', d, c)
  BY <1>5, <1>8 DEF Resume
<1>9. ASSUME NEW x \in Calls, Cancel(x) PROVE Precedes(Queue', d, c)
  <2>1. /\ waiters' = Without(waiters, x) /\ scan = <<>> /\ scan' = <<>>
        /\ c # x /\ d # x
    BY <1>0, <1>9 DEF Cancel, MutexFree, TypeOK
  <2>2. Len(scan) = 0
    BY <2>1
  <2>3. /\ i \in 1 .. Len(waiters) /\ waiters[i] = d
        /\ j \in 1 .. Len(waiters) /\ waiters[j] = c
    BY <1>1, <1>3, <2>2
  <2>4. Precedes(Without(waiters, x), waiters[i], waiters[j])
    BY <1>0, <1>3, <2>1, <2>3, WithoutKeepsOrder DEF TypeOK, QueueOfWaiters
  <2>5. Precedes(waiters', d, c)
    BY <2>1, <2>3, <2>4
  <2>6. \A k \in 1 .. Len(waiters') : k \in 1 .. Len(Queue') /\ Queue'[k] = waiters'[k]
    BY <1>2
  <2> QED  BY <2>5, <2>6 DEF Precedes
<1>10. ASSUME MutexFree, StartPump PROVE Precedes(Queue', d, c)
  <2>1. waiters' = <<>> /\ scan' = waiters /\ Len(waiters') = 0 /\ Len(scan) = 0
    BY <1>10 DEF StartPump, MutexFree
  <2> QED  BY <1>1, <1>2, <1>4, <2>1
<1>11. ASSUME PumpStep PROVE Precedes(Queue', d, c)
  <2> DEFINE w == Head(scan)
             n == Len(waiters)
  <2>1. /\ w = scan[1] /\ w \in Calls /\ Len(scan) > 0
        /\ Len(scan') = Len(scan) - 1
        /\ \A k \in 1 .. Len(scan') : scan'[k] = scan[k + 1]
    BY <1>0, <1>11 DEF PumpStep, TypeOK
  <2>2. /\ Queue[n + 1] = w
        /\ \A k \in 1 .. Len(Queue) :
             k > n + 1 => /\ k - n - 1 \in 1 .. Len(scan')
                          /\ Queue[k] = scan'[k - n - 1]
    <3>1. Queue[n + 1] = w
      BY <1>1, <2>1
    <3>2. ASSUME NEW k \in 1 .. Len(Queue), k > n + 1
          PROVE  k - n - 1 \in 1 .. Len(scan') /\ Queue[k] = scan'[k - n - 1]
      <4>1. /\ k - n - 1 \in 1 .. Len(scan') /\ k - n \in 1 .. Len(scan)
            /\ n + (k - n) = k /\ (k - n - 1) + 1 = k - n
        BY <1>1, <2>1, <3>2
      <4> QED  BY <1>1, <2>1, <4>1
    <3> QED  BY <3>1, <3>2
  <2> HIDE DEF w
  <2>3. CASE CanStart(req[w])
    <3>1. waiters' = waiters /\ state'[w] # "queued"
      BY <1>0, <1>11, <2>1, <2>3 DEF PumpStep, TypeOK, w
    <3>2. c # w /\ d # w
      BY <3>1
    <3> DEFINE new(k) == IF k <= n THEN k ELSE k - 1
    <3>3. ASSUME NEW k \in 1 .. Len(Queue), Queue[k] # w
          PROVE  new(k) \in 1 .. Len(Queue') /\ Queue'[new(k)] = Queue[k] /\ k # n + 1
      <4>1. CASE k <= n
        BY <1>1, <1>2, <2>1, <3>1, <4>1
      <4>2. CASE k > n + 1
        <5>1. k - n - 1 \in 1 .. Len(scan') /\ Queue[k] = scan'[k - n - 1]
          BY <2>2, <4>2
        <5>2. Queue'[n + (k - n - 1)] = scan'[k - n - 1]
          BY <1>2, <3>1, <5>1
        <5>3. n + (k - n - 1) = k - 1 /\ k - 1 \in 1 .. Len(Queue') /\ ~(k <= n)
          BY <1>1, <1>2, <2>1, <3>1, <4>2
        <5> QED  BY <4>2, <5>1, <5>2, <5>3
      <4>3. k # n + 1
        BY <2>2, <3>3
      <4>4. k <= n \/ k > n + 1
        BY <1>1, <4>3
      <4> HIDE DEF new, n
      <4> QED  BY <4>1, <4>2, <4>3, <4>4
    <3>4. new(i) < new(j)
      BY <1>1, <1>3, <3>2, <3>3
    <3> QED  BY <1>3, <3>2, <3>3, <3>4 DEF Precedes
  <2>4. CASE ~CanStart(req[w])
    <3>1. waiters' = Append(waiters, w)
      BY <1>11, <2>4 DEF PumpStep, w
    <3>2. /\ Len(waiters') = n + 1
          /\ \A k \in 1 .. n : waiters'[k] = waiters[k]
          /\ waiters'[n + 1] = w
      BY <1>0, <2>1, <3>1 DEF TypeOK
    <3>3. ASSUME NEW k \in 1 .. Len(Queue) PROVE Queue'[k] = Queue[k]
      <4>1. CASE k <= n
        BY <1>1, <1>2, <3>2, <4>1
      <4>2. CASE k = n + 1
        BY <1>1, <1>2, <2>2, <3>2, <4>2
      <4>3. CASE k > n + 1
        <5>1. k - n - 1 \in 1 .. Len(scan') /\ Queue[k] = scan'[k - n - 1]
              /\ (n + 1) + (k - n - 1) = k
          BY <1>1, <2>2, <4>3
        <5> QED  BY <1>2, <3>2, <5>1
      <4> QED  BY <1>1, <4>1, <4>2, <4>3
    <3>4. Len(Queue') = Len(Queue)
      BY <1>1, <1>2, <2>1, <3>2
    <3> QED  BY <1>1, <1>4, <3>3, <3>4
  <2> QED  BY <2>3, <2>4
<1>12. ASSUME NEW p \in ParentWrites, NEW s \in Claims, ReserveParentWrite(p, s)
       PROVE  Precedes(Queue', d, c)
  BY <1>5, <1>12 DEF ReserveParentWrite
<1>13. CASE UNCHANGED vars
  BY <1>5, <1>13 DEF vars, queue
<1> QED
  BY <1>6, <1>7, <1>8, <1>9, <1>10, <1>11, <1>12, <1>13
  DEF Next, Release, ReleaseParentWrite

\* A call that becomes queued goes behind those that are.
LEMMA NewcomersLast ==
  ASSUME WakeInv, TypeOK', [Next]_vars, NEW c \in Calls, NEW d \in Calls,
         state[c] # "queued", state'[c] = "queued", state[d] = "queued"
  PROVE  Precedes(Queue', d, c)
<1>0. TypeOK /\ WaitersListed
  BY DEF WakeInv, IInv
<1>1. PICK r \in Request : AcquireQueues(c, r)
  BY <1>0 DEF Next, vars, AcquireAtOnce, AcquireNestedFails, AcquireQueues, Resume, Cancel,
     Release, PumpStep, ReserveParentWrite, ReleaseParentWrite, TypeOK
<1>2. waiters' = Append(waiters, c) /\ scan = <<>> /\ scan' = <<>>
  BY <1>1 DEF AcquireQueues, MutexFree
<1>3. /\ Len(waiters') = Len(waiters) + 1 /\ Len(waiters) \in Nat
      /\ \A k \in 1 .. Len(waiters) : waiters'[k] = waiters[k]
      /\ waiters'[Len(waiters) + 1] = c
  BY <1>0, <1>2 DEF TypeOK
<1>4. /\ Len(Queue') = Len(waiters') + Len(scan') /\ Len(scan') = 0
      /\ \A i \in 1 .. Len(waiters') : Queue'[i] = waiters'[i]
  BY <1>2, QueueElements DEF Queue, TypeOK
<1>5. PICK i \in 1 .. Len(waiters) : waiters[i] = d
  BY <1>0, <1>2 DEF WaitersListed
<1>6. /\ i \in 1 .. Len(Queue') /\ Len(waiters) + 1 \in 1 .. Len(Queue')
      /\ Queue'[i] = d /\ Queue'[Len(waiters) + 1] = c /\ i < Len(waiters) + 1
  BY <1>3, <1>4, <1>5
<1> QED  BY <1>6 DEF Precedes

\* A newcomer is granted a slot before a queued call only if the queued call is
\* a writer that another claim blocks.
LEMMA GrantedFirst ==
  ASSUME WakeInv, [Next]_vars, NEW c \in Calls, NEW d \in Calls, c # d,
         state[d] = "queued", c \notin Holders, c \in Holders',
         ~Precedes(Queue, c, d)
  PROVE  req[d].writer /\ req[d].claim # req'[c].claim
<1>0. TypeOK /\ QueueOfWaiters /\ WaitersListed /\ WaitersBlocked
  BY DEF WakeInv, IInv
<1>1. \/ \E r \in Request : AcquireAtOnce(c, r)
      \/ PumpStep /\ c = Head(scan) /\ CanStart(req[c])
  BY <1>0 DEF Next, vars, AcquireAtOnce, AcquireNestedFails, AcquireQueues, Resume, Cancel,
     Release, PumpStep, ReserveParentWrite, ReleaseParentWrite, TypeOK, Holders
<1>2. PICK r \in Request : CanStart(r) /\ req'[c] = r /\ \E i \in 1 .. Len(waiters) : waiters[i] = d
  <2>1. CASE \E r \in Request : AcquireAtOnce(c, r)
    BY <1>0, <2>1 DEF AcquireAtOnce, MutexFree, WaitersListed, TypeOK
  <2>2. CASE PumpStep /\ c = Head(scan) /\ CanStart(req[c])
    <3>1. /\ scan \in Seq(Calls) /\ scan # <<>> /\ c = scan[1] /\ req' = req
          /\ req[c] \in Request /\ waiters \in Seq(Calls) /\ scan # <<>>
      BY <1>0, <2>2 DEF PumpStep, TypeOK
    <3>2. ASSUME NEW j \in 1 .. Len(scan), scan[j] = d PROVE FALSE
      <4>1. /\ Len(Queue) = Len(waiters) + Len(scan)
            /\ Len(waiters) \in Nat /\ Len(scan) \in Nat
            /\ \A m \in 1 .. Len(scan) : Queue[Len(waiters) + m] = scan[m]
        BY <3>1, QueueElements DEF Queue
      <4>2. 1 < j /\ 1 \in 1 .. Len(scan)
        BY <3>1, <3>2, <4>1
      <4>3. /\ Len(waiters) + 1 \in 1 .. Len(Queue) /\ Queue[Len(waiters) + 1] = c
            /\ Len(waiters) + j \in 1 .. Len(Queue) /\ Queue[Len(waiters) + j] = d
            /\ Len(waiters) + 1 < Len(waiters) + j
        BY <3>1, <3>2, <4>1, <4>2
      <4> QED  BY <4>3 DEF Precedes
    <3> QED  BY <1>0, <2>2, <3>1, <3>2 DEF WaitersListed
  <2> QED  BY <1>1, <2>1, <2>2
<1>3. ~CanStart(req[d]) /\ req[d] \in Request
  BY <1>0, <1>2 DEF WaitersBlocked, TypeOK
<1>4. \A q \in Request : q.writer => q.claim \in Claims
  BY DEF Request
<1>5. r.writer \/ r.claim = EmptyClaim
  BY DEF Request
<1>6. EmptyClaim \notin Claims
  BY ClaimsAssumption DEF Normalized, IsEmpty, EmptyClaim
<1> QED  BY <1>2, <1>3, <1>4, <1>5, <1>6 DEF CanStart

\* Slots are granted first come, first served: a queued call keeps its place
\* before every later one, and is overtaken only as a writer whose claim another
\* holder or a write of the parent still blocks (the scan of pumpWaitersLocked,
\* which keeps the waiters it cannot start in their order).
THEOREM FirstComeFirstServed == Spec => OvertakesOnlyBlockedWriters
<1> DEFINE Fair ==
      \A c, d \in Calls :
        state[d] = "queued" /\ state'[d] = "queued" /\ c # d =>
          /\ state'[c] = "queued" /\ ~Precedes(Queue, c, d) => Precedes(Queue', d, c)
          /\ c \notin Holders /\ c \in Holders' /\ ~Precedes(Queue, c, d) =>
               req[d].writer /\ req[d].claim # req'[c].claim
<1>1. ASSUME WakeInv, TypeOK', [Next]_vars PROVE Fair
  <2> SUFFICES ASSUME NEW c \in Calls, NEW d \in Calls, c # d,
                      state[d] = "queued", state'[d] = "queued", ~Precedes(Queue, c, d)
               PROVE  /\ state'[c] = "queued" => Precedes(Queue', d, c)
                      /\ c \notin Holders /\ c \in Holders' =>
                           req[d].writer /\ req[d].claim # req'[c].claim
    OBVIOUS
  <2>1. ASSUME state'[c] = "queued" PROVE Precedes(Queue', d, c)
    <3>1. CASE state[c] = "queued"
      BY <1>1, <2>1, <3>1, QueueIsTotal, OrderKept
    <3>2. CASE state[c] # "queued"
      BY <1>1, <2>1, <3>2, NewcomersLast
    <3> QED  BY <3>1, <3>2
  <2>2. ASSUME c \notin Holders, c \in Holders'
        PROVE  req[d].writer /\ req[d].claim # req'[c].claim
    BY <1>1, <2>2, GrantedFirst
  <2> QED  BY <2>1, <2>2
<1>2. WakeInv => TypeOK
  BY DEF WakeInv, IInv
<1> QED  BY WakeInvariance, <1>1, <1>2, PTL DEF Spec, OvertakesOnlyBlockedWriters
=============================================================================
