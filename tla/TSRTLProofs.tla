----------------------------- MODULE TSRTLProofs -----------------------------
(***************************************************************************)
(* For any number of threads, accesses and waits: the bookkeeping of the   *)
(* scheduling detector is right (postponed_thread, enabled_thread, the     *)
(* handshake of thread creation), and no pair of conflicting accesses of   *)
(* different instructions is postponed together unnoticed, and a report is *)
(* of a conflict that is still to come.                                    *)
(***************************************************************************)
EXTENDS TSRTL, TLAPS

USE DEF Starting, Creating, Accessing, Waiting, Calling, Deleted, Locations

\* __ts_init() leaves well-typed state: one registered thread, empty checkers.
LEMMA InitTyped == Init => TypeOK
<1> SUFFICES ASSUME Init PROVE TypeOK
  OBVIOUS
<1> USE ConstantsAssumption DEF Init
<1>1. checker \in [Threads -> FieldsType]
  <2>1. [Fields(NoAccess) EXCEPT !.instID = NoInst] \in FieldsType
    BY DEF Fields, NoAccess, FieldsType
  <2> QED
    BY <2>1
<1>2. access \in [Threads -> AccessType]
  BY DEF NoAccess, AccessType
<1>3. report \in [by : Threads, with : Threads]
  BY DEF NoReport
<1>4. /\ pc \in [Threads -> Locations]
      /\ alive \subseteq Threads /\ enabled \subseteq Threads
      /\ postponed \subseteq Threads /\ blind \subseteq Threads
  OBVIOUS
<1>5. /\ waits \in [Threads -> 0..MaxWait + 1]
      /\ ops \in [Threads -> 0..MaxOps]
      /\ selfcheck \in BOOLEAN
      /\ tid \in [Threads -> {"UINT32_MAX", "tid"}]
      /\ parent \in [Threads -> Threads]
  <2>1. 0 \in 0..MaxWait + 1 /\ 0 \in 0..MaxOps
    OBVIOUS
  <2> QED
    BY <2>1
<1> HIDE DEF Init
<1> QED
  BY <1>1, <1>2, <1>3, <1>4, <1>5 DEF TypeOK

\* What a checker holds after setAddr() and after resetAddr().
LEMMA FieldsTyped ==
  /\ \A a \in AccessType : Fields(a) \in FieldsType
  /\ \A c \in FieldsType : resetAddr(c) \in FieldsType
<1>1. ASSUME NEW a \in AccessType PROVE Fields(a) \in FieldsType
  BY DEF Fields, AccessType, FieldsType
<1>2. ASSUME NEW c \in FieldsType PROVE resetAddr(c) \in FieldsType
  BY DEF resetAddr, FieldsType
<1> QED
  BY <1>1, <1>2

\* Every step of the program and of the library keeps the types, in particular
\* the bound MaxWait + 1 of thrToWaitTime.
LEMMA StepTyped == TypeOK /\ [Next]_vars => TypeOK'
<1> SUFFICES ASSUME TypeOK, [Next]_vars PROVE TypeOK'
  OBVIOUS
<1> USE ConstantsAssumption DEF TypeOK, Go, Begin
<1>1. ASSUME NEW t \in Threads, Program(t) PROVE TypeOK'
  <2>1. ASSUME NEW c \in Threads, PthreadCreate(t, c) PROVE TypeOK'
    BY <2>1 DEF PthreadCreate
  <2>2. CASE PthreadCreateFails(t)
    BY <2>2 DEF PthreadCreateFails
  <2>3. ASSUME NEW a \in Accesses, CallAccess(t, a) PROVE TypeOK'
    <3>1. a \in AccessType /\ a.self \in BOOLEAN
      BY DEF AccessType
    <3> QED
      BY <2>3, <3>1 DEF CallAccess
  <2>4. CASE CallBlocking(t)
    BY <2>4 DEF CallBlocking
  <2>5. CASE RealReturns(t)
    BY <2>5 DEF RealReturns
  <2>6. CASE CallTsanBarrier(t)
    BY <2>6 DEF CallTsanBarrier
  <2>7. CASE TsanBarrierReturns(t)
    BY <2>7 DEF TsanBarrierReturns
  <2>8. CASE DeleteChecker(t)
    BY <2>8 DEF DeleteChecker
  <2>9. CASE CallSelf16(t)
    <3>1. selfcheck' \in BOOLEAN
      BY <2>9 DEF CallSelf16
    <3>2. UNCHANGED <<pc, alive, enabled, postponed, checker, access, waits, tid,
                      parent, ops, blind, report>>
      BY <2>9 DEF CallSelf16
    <3> QED
      BY <3>1, <3>2
  <2> QED
    BY <1>1, <2>1, <2>2, <2>3, <2>4, <2>5, <2>6, <2>7, <2>8, <2>9 DEF Program
<1>2. ASSUME NEW t \in Threads, Library(t) PROVE TypeOK'
  <2>1. CASE PublishTid(t)
    BY <2>1 DEF PublishTid
  <2>2. CASE ReturnFromCreate(t)
    BY <2>2 DEF ReturnFromCreate
  <2>3. CASE SyncWithParent(t)
    BY <2>3 DEF SyncWithParent
  <2>4. CASE StartThread(t)
    BY <2>4 DEF StartThread
  <2>5. CASE EnableThread(t)
    BY <2>5 DEF EnableThread
  <2>6. CASE InsertChecker(t)
    BY <2>6 DEF InsertChecker
  <2>7. CASE setAddr(t)
    BY <2>7, FieldsTyped DEF setAddr
  <2>8. CASE BlockReturns(t)
    BY <2>8, FieldsTyped DEF BlockReturns
  <2>9. CASE BlockPostpones(t)
    BY <2>9 DEF BlockPostpones
  <2>10. CASE BlockLeaves(t)
    BY <2>10 DEF BlockLeaves
  <2>11. CASE Tick(t)
    BY <2>11 DEF Tick
  <2>12. CASE IncrementEnabled(t)
    BY <2>12 DEF IncrementEnabled
  <2>13. CASE DecrementAlive(t)
    BY <2>13 DEF DecrementAlive
  <2>14. CASE DecrementEnabled(t)
    BY <2>14 DEF DecrementEnabled
  <2> QED
    BY <1>2, <2>1, <2>2, <2>3, <2>4, <2>5, <2>6, <2>7, <2>8, <2>9, <2>10, <2>11,
       <2>12, <2>13, <2>14
    DEF Library
<1>3. ASSUME NEW t \in Threads, TakeAcMutex(t) PROVE TypeOK'
  <2>1. CASE CheckClear(t)
    BY <2>1 DEF CheckClear
  <2>2. CASE CheckReports(t)
    BY <2>2 DEF CheckReports, Known
  <2>3. CASE BlockRelocks(t)
    BY <2>3, FieldsTyped DEF BlockRelocks
  <2> QED
    BY <1>3, <2>1, <2>2, <2>3 DEF TakeAcMutex
<1>4. CASE UNCHANGED vars
  BY <1>4 DEF vars
<1> QED
  BY <1>1, <1>2, <1>3, <1>4 DEF Next

\* The detector's state has its types in every reachable state.
THEOREM TypeCorrect == Spec => []TypeOK
BY InitTyped, StepTyped, PTL DEF Spec

------------------------------------------------------------------------------
(***************************************************************************)
(* Bookkeeping.                                                            *)
(***************************************************************************)
\* enabled_thread, as long as __tsan_testonly_barrier_wait is not called.
EnabledMatches ==
    "tsan_barrier" \notin Calls =>
        enabled = {t \in Threads :
                     pc[t] \in {"insert", "sync", "run", "deleted", "dead"}
                                  \cup Creating \cup Accessing}

NobodyAtBarrier ==
    "tsan_barrier" \notin Calls => \A t \in Threads : pc[t] # "tsan"

\* The handshake: the parent of a child that is being born is still before its
\* answer, and no two children share a ThreadCreateInfo.
Handshake ==
    /\ \A c \in Threads : pc[c] \in Starting =>
         \/ pc[parent[c]] = "create"
         \/ pc[parent[c]] = "handshake" /\ tid[parent[c]] = "tid"
    /\ \A c, d \in Threads :
         pc[c] \in Starting /\ pc[d] \in Starting /\ parent[c] = parent[d] => c = d

Bookkeeping == PostponedMatches /\ EnabledMatches /\ NobodyAtBarrier /\ Handshake

\* The main thread alone, enabled and not postponed.
LEMMA InitBookkeeping == Init => Bookkeeping
BY ConstantsAssumption
DEF Init, Bookkeeping, PostponedMatches, EnabledMatches, NobodyAtBarrier, Handshake

\* Each registration, blocking call, postponement and end of a thread moves the
\* thread between the sets exactly as it moves its program counter.
LEMMA StepBookkeeping == TypeOK /\ Bookkeeping /\ [Next]_vars => Bookkeeping'
<1> SUFFICES ASSUME TypeOK, Bookkeeping, [Next]_vars PROVE Bookkeeping'
  OBVIOUS
<1> USE ConstantsAssumption
    DEF TypeOK, Go, Begin, Bookkeeping, PostponedMatches, EnabledMatches,
        NobodyAtBarrier, Handshake
<1>1. ASSUME NEW t \in Threads, Program(t) PROVE Bookkeeping'
  <2>1. ASSUME NEW c \in Threads, PthreadCreate(t, c) PROVE Bookkeeping'
    BY <2>1 DEF PthreadCreate
  <2>2. CASE PthreadCreateFails(t)
    BY <2>2 DEF PthreadCreateFails
  <2>3. ASSUME NEW a \in Accesses, CallAccess(t, a) PROVE Bookkeeping'
    BY <2>3 DEF CallAccess
  <2>4. CASE CallBlocking(t)
    BY <2>4 DEF CallBlocking
  <2>5. CASE RealReturns(t)
    BY <2>5 DEF RealReturns
  <2>6. CASE CallTsanBarrier(t)
    BY <2>6 DEF CallTsanBarrier
  <2>7. CASE TsanBarrierReturns(t)
    BY <2>7 DEF TsanBarrierReturns
  <2>8. CASE CallSelf16(t)
    BY <2>8 DEF CallSelf16
  <2>9. CASE DeleteChecker(t)
    BY <2>9 DEF DeleteChecker
  <2> QED
    BY <1>1, <2>1, <2>2, <2>3, <2>4, <2>5, <2>6, <2>7, <2>8, <2>9 DEF Program
<1>2. ASSUME NEW t \in Threads, Library(t) PROVE Bookkeeping'
  <2>1. CASE PublishTid(t)
    BY <2>1 DEF PublishTid
  <2>2. CASE ReturnFromCreate(t)
    BY <2>2 DEF ReturnFromCreate
  <2>3. CASE StartThread(t)
    BY <2>3 DEF StartThread
  <2>4. CASE EnableThread(t)
    BY <2>4 DEF EnableThread
  <2>5. CASE InsertChecker(t)
    BY <2>5 DEF InsertChecker
  <2>6. CASE SyncWithParent(t)
    BY <2>6 DEF SyncWithParent
  <2>7. CASE setAddr(t)
    BY <2>7 DEF setAddr
  <2>8. CASE BlockReturns(t)
    BY <2>8 DEF BlockReturns
  <2>9. CASE BlockPostpones(t)
    BY <2>9 DEF BlockPostpones
  <2>10. CASE Tick(t)
    BY <2>10 DEF Tick
  <2>11. CASE BlockLeaves(t)
    BY <2>11 DEF BlockLeaves
  <2>12. CASE IncrementEnabled(t)
    BY <2>12 DEF IncrementEnabled
  <2>13. CASE DecrementAlive(t)
    BY <2>13 DEF DecrementAlive
  <2>14. CASE DecrementEnabled(t)
    BY <2>14 DEF DecrementEnabled
  <2> QED
    BY <1>2, <2>1, <2>2, <2>3, <2>4, <2>5, <2>6, <2>7, <2>8, <2>9, <2>10, <2>11,
       <2>12, <2>13, <2>14
    DEF Library
<1>3. ASSUME NEW t \in Threads, TakeAcMutex(t) PROVE Bookkeeping'
  <2>1. CASE CheckClear(t)
    BY <2>1 DEF CheckClear
  <2>2. CASE CheckReports(t)
    BY <2>2 DEF CheckReports
  <2>3. CASE BlockRelocks(t)
    BY <2>3 DEF BlockRelocks
  <2> QED
    BY <1>3, <2>1, <2>2, <2>3 DEF TakeAcMutex
<1>4. CASE UNCHANGED vars
  BY <1>4 DEF vars
<1> QED
  BY <1>1, <1>2, <1>3, <1>4 DEF Next

\* The bookkeeping is right in every reachable state.
LEMMA BookkeepingHolds == Spec => [](TypeOK /\ Bookkeeping)
BY InitTyped, StepTyped, InitBookkeeping, StepBookkeeping, PTL DEF Spec

\* postponed_thread is exactly the set of threads between the halves of block().
THEOREM PostponedIsWaiting == Spec => []PostponedMatches
<1>1. Bookkeeping => PostponedMatches
  BY DEF Bookkeeping
<1> QED
  BY <1>1, BookkeepingHolds, PTL

\* ThreadCreateInfo is never used after the parent's frame is gone.
THEOREM HandshakeSafe == Spec => []ThreadCreateInfoLives
<1>1. Bookkeeping => ThreadCreateInfoLives
  BY DEF Bookkeeping, Handshake, ThreadCreateInfoLives
<1> QED
  BY <1>1, BookkeepingHolds, PTL

\* Without __tsan_testonly_barrier_wait, every thread in the program's code or
\* in an access is in enabled_thread.
THEOREM RunningIsEnabled ==
  ASSUME "tsan_barrier" \notin Calls PROVE Spec => []RunningEnabled
<1>1. Bookkeeping => RunningEnabled
  BY DEF Bookkeeping, EnabledMatches, RunningEnabled
<1> QED
  BY <1>1, BookkeepingHolds, PTL

\* Without __tsan_testonly_barrier_wait, IsAllBlocked() says true only when no
\* thread is in the program's code or being born: the creator of an
\* unregistered child is itself enabled and not postponed.
THEOREM AllBlockedIsSettled ==
  ASSUME "tsan_barrier" \notin Calls PROVE Spec => []AllBlockedSettled
<1>1. TypeOK /\ Bookkeeping => AllBlockedSettled
  <2> SUFFICES ASSUME TypeOK, Bookkeeping, IsAllBlocked, NEW t \in Threads
               PROVE pc[t] \in {"unborn", "inside", "returned", "done"} \cup Waiting
    BY DEF AllBlockedSettled
  <2> USE DEF TypeOK, Bookkeeping
  <2>1. \A u \in enabled : pc[u] \in Waiting
    BY DEF PostponedMatches, IsAllBlocked
  <2>2. CASE pc[t] \in {"start", "enable"}
    <3>1. parent[t] \in Threads /\ pc[parent[t]] \in Creating
      BY <2>2 DEF Handshake
    <3>2. parent[t] \in enabled
      BY <3>1 DEF EnabledMatches
    <3> QED
      BY <2>1, <3>1, <3>2
  <2>3. CASE pc[t] \notin {"start", "enable"}
    BY <2>1, <2>3 DEF EnabledMatches, NobodyAtBarrier
  <2> QED
    BY <2>2, <2>3
<1> QED
  BY <1>1, BookkeepingHolds, PTL

------------------------------------------------------------------------------
(***************************************************************************)
(* No pair of conflicting accesses is postponed together unnoticed.        *)
(*                                                                         *)
(* The announcement of a thread stays whole from the end of setAddr() to   *)
(* the resetAddr() of block(), and between its check() and its             *)
(* IncrementPostponed() the thread keeps ac_mutex, so of two threads past  *)
(* check() one has seen the announcement of the other.                     *)
(***************************************************************************)
Announced == \A t \in Threads :
    pc[t] \in {"check", "block", "wait", "woken"} => checker[t] = Fields(access[t])

PastCheck == {t \in Threads : pc[t] \in {"block", "wait", "woken"}}

AcExclusive == \A t, u \in Threads :
    pc[t] \in {"block", "leave"} /\ pc[u] \in {"block", "leave"} => t = u

PairMet(t, u) ==
    /\ Detectable(access[t]) /\ Detectable(access[u])
    /\ access[t].instID # access[u].instID
    /\ Conflict(access[t], access[u])
    => t \in blind \/ u \in blind

Met == \A t, u \in PastCheck : t # u => PairMet(t, u)

Observation == Announced /\ AcExclusive /\ Met

\* overlapAddr() decides whether two non-empty ranges share a byte.
LEMMA OverlapIsIntersection ==
  ASSUME NEW a1 \in Nat, NEW s1 \in Nat, s1 > 0, NEW a2 \in Nat, NEW s2 \in Nat, s2 > 0
  PROVE  overlapAddr(a1, s1, a2, s2) <=> Bytes(a1, s1) \cap Bytes(a2, s2) # {}
<1>1. ASSUME overlapAddr(a1, s1, a2, s2) PROVE Bytes(a1, s1) \cap Bytes(a2, s2) # {}
  <2>1. a1 \in Bytes(a1, s1) /\ a2 \in Bytes(a2, s2)
    BY DEF Bytes
  <2>2. a1 \in Bytes(a2, s2) \/ a2 \in Bytes(a1, s1)
    BY <1>1 DEF overlapAddr, Bytes
  <2> QED
    BY <2>1, <2>2
<1>2. ASSUME Bytes(a1, s1) \cap Bytes(a2, s2) # {} PROVE overlapAddr(a1, s1, a2, s2)
  <2>1. PICK b : b \in Bytes(a1, s1) /\ b \in Bytes(a2, s2)
    BY <1>2
  <2> QED
    BY <2>1 DEF overlapAddr, Bytes
<1> QED
  BY <1>1, <1>2

\* Ranges of detectable sizes that share a byte pass the size tests of check().
LEMMA SharedBytesMeet ==
  ASSUME NEW a1 \in Nat, NEW s1 \in Nat, NEW a2 \in Nat, NEW s2 \in Nat,
         s1 < MaxMallocSize, s2 < MaxMallocSize,
         Bytes(a1, s1) \cap Bytes(a2, s2) # {}
  PROVE  Meets(a1, s1, a2, s2)
<1>1. PICK b : b \in Bytes(a1, s1) /\ b \in Bytes(a2, s2)
  OBVIOUS
<1>2. s1 > 0 /\ s2 > 0
  BY <1>1 DEF Bytes
<1> QED
  BY <1>2, OverlapIsIntersection DEF Meets, InRange

\* Whole announcements of conflicting detectable accesses by different
\* instructions make check() report.
LEMMA ConflictIsRisky ==
  ASSUME NEW a \in AccessType, NEW b \in AccessType,
         Detectable(a), Detectable(b), a.instID # b.instID, Conflict(a, b)
  PROVE  Risky(Fields(a), Fields(b))
<1>1. ConstantsAssumption
  BY ConstantsAssumption
<1>2. /\ a.waddr \in Nat /\ a.wsize \in Nat /\ a.raddr \in Nat /\ a.rsize \in Nat
      /\ b.waddr \in Nat /\ b.wsize \in Nat /\ b.raddr \in Nat /\ b.rsize \in Nat
  BY DEF AccessType
<1>3. \/ Meets(a.waddr, a.wsize, b.waddr, b.wsize)
      \/ Meets(a.waddr, a.wsize, b.raddr, b.rsize)
      \/ Meets(a.raddr, a.rsize, b.waddr, b.wsize)
  BY <1>2, SharedBytesMeet DEF Conflict, Detectable
<1> QED
  BY <1>3 DEF Risky, Fields

\* Conflict does not depend on who comes first.
LEMMA ConflictSymmetric ==
  ASSUME NEW a, NEW b, Conflict(a, b) PROVE Conflict(b, a)
BY DEF Conflict

\* Nothing is announced or past check() at the start.
LEMMA InitObservation == Init => Observation
BY DEF Init, Observation, Announced, AcExclusive, Met, PastCheck

\* A step that adds nobody to PastCheck and touches neither the arguments of
\* the accesses in progress nor blind keeps every pair met.
LEMMA MetFrame ==
  ASSUME Met, PastCheck' \subseteq PastCheck, UNCHANGED blind,
         \A t \in PastCheck : access'[t] = access[t]
  PROVE  Met'
BY DEF Met, PairMet

\* check() is where a thread joins the others: it has just compared its own
\* announcement with the whole announcement of each of them.
LEMMA CheckClearMeets ==
  ASSUME TypeOK, Observation, NEW t \in Threads, CheckClear(t)
  PROVE  Met'
<1> USE DEF TypeOK, Observation
<1>1. /\ pc[t] = "check" /\ pc' = [pc EXCEPT ![t] = "block"]
      /\ UNCHANGED <<checker, access>>
      /\ blind' = IF MapChanging THEN blind \cup {t} ELSE blind \ {t}
  BY DEF CheckClear, Go
<1>2. PastCheck' = PastCheck \cup {t} /\ t \notin PastCheck
  BY <1>1 DEF PastCheck
<1>3. ASSUME NEW u \in PastCheck PROVE PairMet(t, u)' /\ PairMet(u, t)'
  <2>1. u \in Threads /\ u # t
    BY <1>2, <1>3 DEF PastCheck
  <2>2. CASE MapChanging
    BY <1>1, <2>2 DEF PairMet
  <2>3. CASE ~MapChanging
    <3>1. u \in Known \ {t} /\ Views(u) = {checker[u]}
      BY <2>1, <1>3 DEF Known, PastCheck, Views
    <3>2. ~Risky(checker[t], checker[u])
      BY <2>3, <3>1 DEF CheckClear
    <3>3. ~Risky(Fields(access[t]), Fields(access[u]))
      BY <3>2, <1>1, <1>3, <2>1 DEF Announced, PastCheck
    <3>4. access[t] \in AccessType /\ access[u] \in AccessType
      BY <2>1
    <3>5. ~(/\ Detectable(access[t]) /\ Detectable(access[u])
            /\ access[t].instID # access[u].instID
            /\ Conflict(access[t], access[u]))
      BY <3>3, <3>4, ConflictIsRisky
    <3>6. Conflict(access[u], access[t]) => Conflict(access[t], access[u])
      BY ConflictSymmetric
    <3> QED
      BY <3>5, <3>6, <1>1 DEF PairMet
  <2> QED
    BY <2>2, <2>3
<1>4. ASSUME NEW u \in PastCheck, NEW v \in PastCheck, u # v PROVE PairMet(u, v)'
  BY <1>1, <1>2, <1>4 DEF Met, PairMet
<1> QED
  BY <1>2, <1>3, <1>4 DEF Met

\* Every step keeps announcements whole, ac_mutex exclusive and pairs met.
LEMMA StepObservation == TypeOK /\ Observation /\ [Next]_vars => Observation'
<1> SUFFICES ASSUME TypeOK, Observation, [Next]_vars PROVE Observation'
  OBVIOUS
<1> USE DEF TypeOK, Go, Begin, Observation, Announced, AcExclusive
<1>1. ASSUME NEW t \in Threads, Program(t) PROVE Observation'
  <2>1. Announced' /\ AcExclusive'
    BY <1>1 DEF Program, PthreadCreate, PthreadCreateFails, CallAccess, CallBlocking,
       RealReturns, CallTsanBarrier, TsanBarrierReturns, CallSelf16, DeleteChecker
  <2>2. /\ PastCheck' \subseteq PastCheck /\ UNCHANGED blind
        /\ \A u \in PastCheck : access'[u] = access[u]
    BY <1>1 DEF Program, PthreadCreate, PthreadCreateFails, CallAccess, CallBlocking,
       RealReturns, CallTsanBarrier, TsanBarrierReturns, CallSelf16, DeleteChecker, PastCheck
  <2> QED
    BY <2>1, <2>2, MetFrame
<1>2. ASSUME NEW t \in Threads, Library(t) PROVE Observation'
  <2>1. Announced' /\ AcExclusive'
    <3>1. CASE setAddr(t) \/ BlockReturns(t)
      BY <3>1 DEF setAddr, BlockReturns
    <3>2. CASE BlockPostpones(t) \/ Tick(t) \/ BlockLeaves(t)
      BY <3>2 DEF BlockPostpones, Tick, BlockLeaves
    <3>3. CASE PublishTid(t) \/ ReturnFromCreate(t) \/ SyncWithParent(t)
      BY <3>3 DEF PublishTid, ReturnFromCreate, SyncWithParent
    <3>4. CASE StartThread(t) \/ EnableThread(t) \/ InsertChecker(t)
      BY <3>4 DEF StartThread, EnableThread, InsertChecker
    <3>5. CASE IncrementEnabled(t) \/ DecrementAlive(t) \/ DecrementEnabled(t)
      BY <3>5 DEF IncrementEnabled, DecrementAlive, DecrementEnabled
    <3> QED
      BY <1>2, <3>1, <3>2, <3>3, <3>4, <3>5 DEF Library
  <2>2. PastCheck' \subseteq PastCheck /\ UNCHANGED <<blind, access>>
    BY <1>2 DEF Library, PublishTid, ReturnFromCreate, StartThread, EnableThread,
       InsertChecker, SyncWithParent, setAddr, BlockReturns, BlockPostpones, Tick,
       BlockLeaves, IncrementEnabled, DecrementAlive, DecrementEnabled, PastCheck
  <2> QED
    BY <2>1, <2>2, MetFrame
<1>3. ASSUME NEW t \in Threads, TakeAcMutex(t) PROVE Observation'
  <2>1. CASE CheckClear(t)
    <3>1. Announced' /\ AcExclusive'
      BY <2>1 DEF CheckClear, acHeld
    <3> QED
      BY <2>1, <3>1, CheckClearMeets
  <2>2. CASE CheckReports(t)
    BY <2>2, MetFrame DEF CheckReports, PastCheck
  <2>3. CASE BlockRelocks(t)
    <3>1. Announced' /\ AcExclusive'
      BY <2>3 DEF BlockRelocks, acHeld
    <3>2. PastCheck' \subseteq PastCheck /\ UNCHANGED <<blind, access>>
      BY <2>3 DEF BlockRelocks, PastCheck
    <3> QED
      BY <3>1, <3>2, MetFrame
  <2> QED
    BY <1>3, <2>1, <2>2, <2>3 DEF TakeAcMutex
<1>4. CASE UNCHANGED vars
  BY <1>4, MetFrame DEF vars, PastCheck
<1> QED
  BY <1>1, <1>2, <1>3, <1>4 DEF Next

\* Of two postponed threads whose detectable accesses conflict and come from
\* different instructions, one walked the map while it was being changed: in
\* every other case check() has reported them.
THEOREM PairsAreMet == Spec => []NoMissedPair
<1>1. Observation => NoMissedPair
  BY DEF Observation, Met, PairMet, PastCheck, NoMissedPair
<1> QED
  BY <1>1, InitTyped, StepTyped, InitObservation, StepObservation, PTL DEF Spec

------------------------------------------------------------------------------
(***************************************************************************)
(* Reports.  A checker holds sizes only while its thread is in an access,  *)
(* so whatever mixture of fields check() reads of a thread inside          *)
(* setAddr(), the sizes that make it report are those of the new access.   *)
(***************************************************************************)
Quiet == \A t \in Threads :
    pc[t] \notin {"check", "block", "wait", "woken"} =>
        checker[t].wsize = 0 /\ checker[t].rsize = 0

\* Checkers are empty at the start.
LEMMA InitQuiet == Init => Quiet
<1> SUFFICES ASSUME Init PROVE Quiet
  OBVIOUS
<1>1. [Fields(NoAccess) EXCEPT !.instID = NoInst].wsize = 0
      /\ [Fields(NoAccess) EXCEPT !.instID = NoInst].rsize = 0
  BY DEF Fields, NoAccess
<1> QED
  BY <1>1 DEF Init, Quiet

\* A thread that leaves an access has emptied its checker.
LEMMA StepQuiet == TypeOK /\ Quiet /\ [Next]_vars => Quiet'
<1> SUFFICES ASSUME TypeOK, Quiet, [Next]_vars PROVE Quiet'
  OBVIOUS
<1> USE DEF Go, Begin, Quiet
<1>0. /\ pc \in [Threads -> Locations] /\ checker \in [Threads -> FieldsType]
      /\ \A c \in FieldsType : resetAddr(c).wsize = 0 /\ resetAddr(c).rsize = 0
  BY DEF TypeOK, FieldsType, resetAddr
<1>1. ASSUME NEW t \in Threads, Program(t) PROVE Quiet'
  BY <1>0, <1>1 DEF Program, PthreadCreate, PthreadCreateFails, CallAccess, CallBlocking,
     RealReturns, CallTsanBarrier, TsanBarrierReturns, CallSelf16, DeleteChecker
<1>2. ASSUME NEW t \in Threads, Library(t) PROVE Quiet'
  <2>1. CASE setAddr(t)
    BY <1>0, <2>1 DEF setAddr
  <2>2. CASE BlockReturns(t)
    BY <1>0, <2>2 DEF BlockReturns
  <2>3. CASE BlockPostpones(t) \/ Tick(t) \/ BlockLeaves(t)
    BY <1>0, <2>3 DEF BlockPostpones, Tick, BlockLeaves
  <2>4. CASE PublishTid(t) \/ ReturnFromCreate(t) \/ SyncWithParent(t)
    BY <1>0, <2>4 DEF PublishTid, ReturnFromCreate, SyncWithParent
  <2>5. CASE StartThread(t) \/ EnableThread(t) \/ InsertChecker(t)
    BY <1>0, <2>5 DEF StartThread, EnableThread, InsertChecker
  <2>6. CASE IncrementEnabled(t) \/ DecrementAlive(t) \/ DecrementEnabled(t)
    BY <1>0, <2>6 DEF IncrementEnabled, DecrementAlive, DecrementEnabled
  <2> QED
    BY <1>2, <2>1, <2>2, <2>3, <2>4, <2>5, <2>6 DEF Library
<1>3. ASSUME NEW t \in Threads, TakeAcMutex(t) PROVE Quiet'
  <2>1. CASE CheckClear(t)
    BY <1>0, <2>1 DEF CheckClear
  <2>2. CASE CheckReports(t)
    BY <2>2 DEF CheckReports
  <2>3. CASE BlockRelocks(t)
    BY <1>0, <2>3 DEF BlockRelocks
  <2> QED
    BY <1>3, <2>1, <2>2, <2>3 DEF TakeAcMutex
<1>4. CASE UNCHANGED vars
  BY <1>4 DEF vars
<1> QED
  BY <1>1, <1>2, <1>3, <1>4 DEF Next

\* What passes the tests of check() on one pair of ranges shares a byte.
LEMMA MeetsSharesByte ==
  ASSUME NEW a1 \in Nat, NEW s1 \in Nat, NEW a2 \in Nat, NEW s2 \in Nat,
         Meets(a1, s1, a2, s2)
  PROVE  s2 > 0 /\ Bytes(a1, s1) \cap Bytes(a2, s2) # {}
<1>1. s1 > 0 /\ s2 > 0 /\ overlapAddr(a1, s1, a2, s2)
  BY DEF Meets, InRange
<1> QED
  BY <1>1, OverlapIsIntersection

\* Fields whose sizes, where there are any, are those of an access b are risky
\* only for an access that conflicts with b.
LEMMA RiskyIsConflict ==
  ASSUME NEW a \in AccessType, NEW b \in AccessType, NEW v \in FieldsType,
         v.wsize = 0 \/ (v.waddr = b.waddr /\ v.wsize = b.wsize),
         v.rsize = 0 \/ (v.raddr = b.raddr /\ v.rsize = b.rsize),
         Risky(Fields(a), v)
  PROVE  Conflict(a, b)
<1>1. /\ a.waddr \in Nat /\ a.wsize \in Nat /\ a.raddr \in Nat /\ a.rsize \in Nat
      /\ v.waddr \in Nat /\ v.wsize \in Nat /\ v.raddr \in Nat /\ v.rsize \in Nat
  BY DEF AccessType, FieldsType
<1>2. \/ Meets(a.waddr, a.wsize, v.waddr, v.wsize)
      \/ Meets(a.waddr, a.wsize, v.raddr, v.rsize)
      \/ Meets(a.raddr, a.rsize, v.waddr, v.wsize)
  BY DEF Risky, Fields
<1>3. CASE Meets(a.waddr, a.wsize, v.waddr, v.wsize)
  <2>1. v.wsize > 0 /\ Bytes(a.waddr, a.wsize) \cap Bytes(v.waddr, v.wsize) # {}
    BY <1>1, <1>3, MeetsSharesByte
  <2>2. v.waddr = b.waddr /\ v.wsize = b.wsize
    BY <2>1
  <2> QED
    BY <2>1, <2>2 DEF Conflict
<1>4. CASE Meets(a.waddr, a.wsize, v.raddr, v.rsize)
  <2>1. v.rsize > 0 /\ Bytes(a.waddr, a.wsize) \cap Bytes(v.raddr, v.rsize) # {}
    BY <1>1, <1>4, MeetsSharesByte
  <2>2. v.raddr = b.raddr /\ v.rsize = b.rsize
    BY <2>1
  <2> QED
    BY <2>1, <2>2 DEF Conflict
<1>5. CASE Meets(a.raddr, a.rsize, v.waddr, v.wsize)
  <2>1. v.wsize > 0 /\ Bytes(a.raddr, a.rsize) \cap Bytes(v.waddr, v.wsize) # {}
    BY <1>1, <1>5, MeetsSharesByte
  <2>2. v.waddr = b.waddr /\ v.wsize = b.wsize
    BY <2>1
  <2> QED
    BY <2>1, <2>2 DEF Conflict
<1> QED
  BY <1>2, <1>3, <1>4, <1>5

\* What check() can read of a thread that has not ended: nothing but zero sizes,
\* or parts of the access the thread is in.
LEMMA ViewsOfAccess ==
  ASSUME TypeOK, Announced, Quiet, NEW u \in Threads, pc[u] \notin Deleted,
         NEW v \in Views(u)
  PROVE  /\ v \in FieldsType
         /\ v.wsize = 0 \/ (v.waddr = access[u].waddr /\ v.wsize = access[u].wsize)
         /\ v.rsize = 0 \/ (v.raddr = access[u].raddr /\ v.rsize = access[u].rsize)
         /\ pc[u] \notin Accessing => v.wsize = 0 /\ v.rsize = 0
<1> DEFINE b == access[u]
           c == checker[u]
<1>1. b \in AccessType /\ c \in FieldsType /\ Fields(b) \in FieldsType
  BY FieldsTyped DEF TypeOK
<1>2. /\ Fields(b).waddr = b.waddr /\ Fields(b).wsize = b.wsize
      /\ Fields(b).raddr = b.raddr /\ Fields(b).rsize = b.rsize
  BY DEF Fields
<1>3. CASE pc[u] = "setting"
  <2>1. c.wsize = 0 /\ c.rsize = 0
    BY <1>3 DEF Quiet
  <2> HIDE DEF b, c
  <2>2. PICK w \in {c, Fields(b)}, r \in {c, Fields(b)}, i \in {c, Fields(b)} :
          v = [waddr |-> w.waddr, wsize |-> w.wsize, raddr |-> r.raddr,
               rsize |-> r.rsize, instID |-> i.instID]
    BY <1>3 DEF Views, b, c
  <2>3. w \in FieldsType /\ r \in FieldsType /\ i \in FieldsType
    BY <1>1, <2>2
  <2>4. v \in FieldsType
    BY <2>2, <2>3 DEF FieldsType
  <2>5. v.wsize = 0 \/ (v.waddr = b.waddr /\ v.wsize = b.wsize)
    BY <2>1, <2>2, <1>2
  <2>6. v.rsize = 0 \/ (v.raddr = b.raddr /\ v.rsize = b.rsize)
    BY <2>1, <2>2, <1>2
  <2> QED
    BY <1>3, <2>4, <2>5, <2>6 DEF b
<1>4. CASE pc[u] # "setting"
  <2>1. v = c
    BY <1>4 DEF Views
  <2>2. CASE pc[u] \in {"check", "block", "wait", "woken"}
    BY <1>1, <1>2, <2>1, <2>2 DEF Announced
  <2>3. CASE pc[u] \notin {"check", "block", "wait", "woken"}
    BY <1>1, <2>1, <2>3 DEF Quiet
  <2> QED
    BY <2>2, <2>3
<1> QED
  BY <1>3, <1>4

\* A report is made of a conflict, and nothing happens after it.
LEMMA StepReports ==
  TypeOK /\ Announced /\ Quiet /\ ReportsPendingConflict /\ [Next]_vars
      => ReportsPendingConflict'
<1> SUFFICES ASSUME TypeOK, Announced, Quiet, ReportsPendingConflict, [Next]_vars
             PROVE  ReportsPendingConflict'
  OBVIOUS
<1>1. ASSUME NEW t \in Threads, CheckReports(t) PROVE ReportsPendingConflict'
  <2>1. PICK u \in Known \ {t} :
          /\ \E v \in Views(u) : Risky(checker[t], v)
          /\ report' = [by |-> t, with |-> u]
    BY <1>1 DEF CheckReports
  <2>2. PICK v \in Views(u) : Risky(checker[t], v)
    BY <2>1
  <2>3. u \in Threads /\ report'.by = t /\ report'.with = u
    BY <2>1 DEF Known
  <2>4. pc' = pc /\ access' = access
    BY <1>1 DEF CheckReports
  <2>5. checker[t] = Fields(access[t])
    BY <1>1 DEF CheckReports, Announced
  <2> SUFFICES ASSUME pc[u] \notin Deleted
               PROVE  pc[u] \in Accessing /\ Conflict(access[t], access[u])
    BY <2>3, <2>4 DEF ReportsPendingConflict
  <2>6. /\ v \in FieldsType
        /\ v.wsize = 0 \/ (v.waddr = access[u].waddr /\ v.wsize = access[u].wsize)
        /\ v.rsize = 0 \/ (v.raddr = access[u].raddr /\ v.rsize = access[u].rsize)
        /\ pc[u] \notin Accessing => v.wsize = 0 /\ v.rsize = 0
    BY <2>2, <2>3, ViewsOfAccess
  <2>7. access[t] \in AccessType /\ access[u] \in AccessType
    BY <2>3 DEF TypeOK
  <2>8. Risky(Fields(access[t]), v)
    BY <2>2, <2>5
  <2>9. Conflict(access[t], access[u])
    BY <2>6, <2>7, <2>8, RiskyIsConflict
  <2>10. v.wsize > 0 \/ v.rsize > 0
    BY <2>8 DEF Risky, Meets, InRange
  <2>11. pc[u] \in Accessing
    BY <2>6, <2>10
  <2> QED
    BY <2>9, <2>11
<1>2. ASSUME NEW t \in Threads,
             Program(t) \/ Library(t) \/ CheckClear(t) \/ BlockRelocks(t)
      PROVE  ~Exited /\ report' = report
  <2>1. CASE Program(t)
    BY <2>1 DEF Program, PthreadCreate, PthreadCreateFails, CallAccess, CallBlocking,
       RealReturns, CallTsanBarrier, TsanBarrierReturns, CallSelf16, DeleteChecker, Go, Begin
  <2>2. CASE Library(t)
    BY <2>2 DEF Library, PublishTid, ReturnFromCreate, StartThread, EnableThread,
       InsertChecker, SyncWithParent, setAddr, BlockReturns, BlockPostpones, Tick,
       BlockLeaves, IncrementEnabled, DecrementAlive, DecrementEnabled, Go
  <2>3. CASE CheckClear(t) \/ BlockRelocks(t)
    BY <2>3 DEF CheckClear, BlockRelocks, Go
  <2> QED
    BY <1>2, <2>1, <2>2, <2>3
<1>3. ASSUME ~Exited, report' = report PROVE ReportsPendingConflict'
  BY <1>3 DEF ReportsPendingConflict, Exited
<1>4. CASE UNCHANGED vars
  BY <1>4 DEF vars, ReportsPendingConflict, Exited
<1> QED
  BY <1>1, <1>2, <1>3, <1>4 DEF Next, TakeAcMutex

\* A reported pair is a real and pending conflict, even if the other thread was
\* caught in the middle of setAddr(); only for a thread that has ended it is not.
THEOREM ReportsAreConflicts == Spec => []ReportsPendingConflict
<1>1. Init => ReportsPendingConflict
  BY DEF Init, Exited, ReportsPendingConflict
<1>2. Observation => Announced
  BY DEF Observation
<1> QED
  BY <1>1, <1>2, InitTyped, StepTyped, InitObservation, StepObservation, InitQuiet, StepQuiet,
     StepReports, PTL DEF Spec

------------------------------------------------------------------------------
\* Each step of the detector is a Request, an Acquire or a Release of ac_mutex, or
\* leaves its phases alone: the detector can be run over any implementation of
\* module Mutex, BlockingMutex among them.
THEOREM AcMutexUsedWell == Spec => AcMutexProtocol
<1>1. Init => AcMutex!Init
  BY DEF Init, AcMutex!Init, acPhase
<1>2. TypeOK /\ [Next]_vars => [AcMutex!Next]_acPhase
  <2> SUFFICES ASSUME TypeOK, [Next]_vars PROVE [AcMutex!Next]_acPhase
    OBVIOUS
  <2> USE DEF TypeOK, Go, Begin, acPhase
  <2>1. ASSUME NEW t \in Threads, Program(t) PROVE UNCHANGED acPhase
    BY <2>1 DEF Program, PthreadCreate, PthreadCreateFails, CallAccess, CallBlocking,
       RealReturns, CallTsanBarrier, TsanBarrierReturns, CallSelf16, DeleteChecker
  <2>2. ASSUME NEW t \in Threads, setAddr(t) PROVE AcMutex!Request(t)
    BY <2>2 DEF setAddr, AcMutex!Request
  <2>3. ASSUME NEW t \in Threads, Tick(t) PROVE AcMutex!Request(t) \/ UNCHANGED acPhase
    BY <2>3 DEF Tick, AcMutex!Request
  <2>4. ASSUME NEW t \in Threads, CheckClear(t) \/ BlockRelocks(t) PROVE AcMutex!Acquire(t)
    BY <2>4 DEF CheckClear, BlockRelocks, acHeld, AcMutex!Acquire, AcMutex!Free
  <2>5. ASSUME NEW t \in Threads, BlockReturns(t) \/ BlockPostpones(t) \/ BlockLeaves(t)
        PROVE AcMutex!Release(t)
    BY <2>5 DEF BlockReturns, BlockPostpones, BlockLeaves, AcMutex!Release
  <2>6. ASSUME NEW t \in Threads,
               \/ CheckReports(t)
               \/ PublishTid(t) \/ ReturnFromCreate(t)
               \/ StartThread(t) \/ EnableThread(t) \/ InsertChecker(t) \/ SyncWithParent(t)
               \/ IncrementEnabled(t) \/ DecrementAlive(t) \/ DecrementEnabled(t)
        PROVE UNCHANGED acPhase
    BY <2>6 DEF CheckReports, PublishTid, ReturnFromCreate, StartThread, EnableThread,
       InsertChecker, SyncWithParent, IncrementEnabled, DecrementAlive, DecrementEnabled
  <2>7. CASE UNCHANGED vars
    BY <2>7 DEF vars
  <2> QED
    BY <2>1, <2>2, <2>3, <2>4, <2>5, <2>6, <2>7
    DEF Next, Library, TakeAcMutex, AcMutex!Next
<1> QED
  BY <1>1, <1>2, TypeCorrect, PTL DEF Spec, AcMutexProtocol, AcMutex!SafetySpec

==============================================================================
