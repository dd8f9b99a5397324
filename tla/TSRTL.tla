-------------------------------- MODULE TSRTL --------------------------------
(***************************************************************************)
(* The thread-scheduling race detector linked into the program under test  *)
(* (lib/RC/TSRTL).  An instrumented access announces itself in the         *)
(* ActiveChecker of its thread (setAddr), compares itself with the         *)
(* announcements of all other threads (check), and is then postponed       *)
(* (block) until maxWaitNumber is used up or until every enabled thread is *)
(* postponed, so that a conflicting access has time to turn up.            *)
(*                                                                         *)
(* Threads stands for the ids handed out by IncrementTotal.  The critical  *)
(* sections of mtx_ are single steps; ac_mutex is held over several steps. *)
(* waitflag is 1 from the constructor on (nothing calls release() or       *)
(* setwaitflag()), so Semaphore::acquire() ends by its two breaks only.    *)
(* The process ends with the first report.                                 *)
(***************************************************************************)
EXTENDS Integers, FiniteSets

CONSTANTS
    Threads,        \* every thread of the program under test
    Main,           \* the thread that calls __ts_init()
    Accesses,       \* instrumented accesses: arguments of the __ts_ functions
    MaxMallocSize,  \* MAX_MALLOC_SIZE
    MaxWait,        \* maxWaitNumber
    Calls,          \* what the program does: subset of CallKinds
    MaxOps          \* bound: operations a thread starts (accesses, calls, creates)

CallKinds == {"pthread", "tsan_barrier", "create_fails"}

NoInst == -1        \* instID of a new ActiveChecker

AccessType ==
    [waddr : Nat, wsize : Nat, raddr : Nat, rsize : Nat, instID : Nat, self : BOOLEAN]

\* overlapAddr() asserts what an instrumented access guarantees: a size comes
\* with an address.  NULL is 0.
ASSUME ConstantsAssumption ==
    /\ Main \in Threads
    /\ Accesses \subseteq AccessType
    /\ \A a \in Accesses : (a.wsize > 0 => a.waddr > 0) /\ (a.rsize > 0 => a.raddr > 0)
    /\ MaxMallocSize \in Nat
    /\ MaxWait \in Nat
    /\ Calls \subseteq CallKinds
    /\ MaxOps \in Nat

VARIABLES
    pc,         \* where each thread is in the run-time library
    alive,      \* alive_thread
    enabled,    \* enabled_thread
    postponed,  \* postponed_thread
    checker,    \* thrToChecker: the ActiveChecker of each thread
    access,     \* arguments of the access each thread is executing
    waits,      \* thrToWaitTime
    selfcheck,  \* StallBreaker::selfcheck
    tid,        \* ThreadCreateInfo::tid, in the frame of the creating thread
    parent,     \* whose frame the argument of __ts_thread_start_func is in
    ops,        \* operations started so far, for MaxOps
    blind,      \* history: threads whose last check met a map being changed
    report      \* the pair printed before exit(EXIT_FAILURE)

vars == <<pc, alive, enabled, postponed, checker, access, waits, selfcheck,
          tid, parent, ops, blind, report>>

(***************************************************************************)
(* Where a thread is.  Before its first statement: unborn, and the steps   *)
(* of __ts_thread_start_func up to the handshake.  In an access: setting   *)
(* (inside setAddr), check (asking for ac_mutex), block (holding it), wait *)
(* (Semaphore::acquire), woken (asking for it again), leave (holding it).  *)
(***************************************************************************)
Starting  == {"start", "enable", "insert", "sync"}
Creating  == {"create", "handshake"}
Accessing == {"setting", "check", "block", "wait", "woken", "leave"}
Waiting   == {"wait", "woken", "leave"}
Calling   == {"inside", "returned", "tsan"}
Deleted   == {"deleted", "dead", "done"}
Locations == {"unborn", "run"} \cup Starting \cup Creating \cup Accessing
                \cup Calling \cup Deleted

FieldsType ==
    [waddr : Nat, wsize : Nat, raddr : Nat, rsize : Nat, instID : Nat \cup {NoInst}]

NoReport == [by |-> Main, with |-> Main]

TypeOK ==
    /\ pc \in [Threads -> Locations]
    /\ alive \subseteq Threads
    /\ enabled \subseteq Threads
    /\ postponed \subseteq Threads
    /\ checker \in [Threads -> FieldsType]
    /\ access \in [Threads -> AccessType]
    /\ waits \in [Threads -> 0..MaxWait + 1]
    /\ selfcheck \in BOOLEAN
    /\ tid \in [Threads -> {"UINT32_MAX", "tid"}]
    /\ parent \in [Threads -> Threads]
    /\ ops \in [Threads -> 0..MaxOps]
    /\ blind \subseteq Threads
    /\ report \in [by : Threads, with : Threads]

NoAccess == [waddr |-> 0, wsize |-> 0, raddr |-> 0, rsize |-> 0, instID |-> 0, self |-> FALSE]

\* The fields setAddr() stores for an access.
Fields(a) == [waddr |-> a.waddr, wsize |-> a.wsize, raddr |-> a.raddr,
              rsize |-> a.rsize, instID |-> a.instID]

\* resetAddr() leaves instID as it was.
resetAddr(c) == [c EXCEPT !.waddr = 0, !.wsize = 0, !.raddr = 0, !.rsize = 0]

\* __ts_init(): the main thread registers itself before any other exists.
Init ==
    /\ pc = [t \in Threads |-> IF t = Main THEN "run" ELSE "unborn"]
    /\ alive = {Main}
    /\ enabled = {Main}
    /\ postponed = {}
    /\ checker = [t \in Threads |-> [Fields(NoAccess) EXCEPT !.instID = NoInst]]
    /\ access = [t \in Threads |-> NoAccess]
    /\ waits = [t \in Threads |-> 0]
    /\ selfcheck = FALSE
    /\ tid = [t \in Threads |-> "UINT32_MAX"]
    /\ parent = [t \in Threads |-> Main]
    /\ ops = [t \in Threads |-> 0]
    /\ blind = {}
    /\ report = NoReport

Exited == report # NoReport

Go(t, from, to) ==
    /\ ~Exited
    /\ pc[t] = from
    /\ pc' = [pc EXCEPT ![t] = to]

\* An operation the program under test starts by itself.
Begin(t, to) ==
    /\ Go(t, "run", to)
    /\ ops[t] < MaxOps
    /\ ops' = [ops EXCEPT ![t] = @ + 1]

------------------------------------------------------------------------------
(***************************************************************************)
(* Thread creation: the interceptor of pthread_create and its start        *)
(* function meet in ThreadCreateInfo, which lives in the parent's frame.   *)
(***************************************************************************)
PthreadCreate(t, c) ==
    /\ ~Exited
    /\ pc[t] = "run"
    /\ pc[c] = "unborn"
    /\ ops[t] < MaxOps
    /\ ops' = [ops EXCEPT ![t] = @ + 1]
    /\ pc' = [pc EXCEPT ![t] = "create", ![c] = "start"]
    /\ parent' = [parent EXCEPT ![c] = t]
    /\ tid' = [tid EXCEPT ![t] = "UINT32_MAX"]
    /\ UNCHANGED <<alive, enabled, postponed, checker, access, waits, selfcheck, blind, report>>

\* REAL(pthread_create) fails: res is returned to the caller after the
\* handshake all the same, and nobody answers it.
PthreadCreateFails(t) ==
    /\ "create_fails" \in Calls
    /\ Begin(t, "create")
    /\ tid' = [tid EXCEPT ![t] = "UINT32_MAX"]
    /\ UNCHANGED <<alive, enabled, postponed, checker, access, waits, selfcheck, parent, blind, report>>

PublishTid(t) ==
    /\ Go(t, "create", "handshake")
    /\ tid' = [tid EXCEPT ![t] = "tid"]
    /\ UNCHANGED <<alive, enabled, postponed, checker, access, waits, selfcheck,
                   parent, ops, blind, report>>

\* Mutant of ReturnFromCreate: the parent does not wait for the child's answer.
ReturnFromCreateAtOnce(t) ==
    /\ Go(t, "handshake", "run")
    /\ UNCHANGED <<alive, enabled, postponed, checker, access, waits, selfcheck,
                   tid, parent, ops, blind, report>>

ReturnFromCreate(t) ==
    /\ tid[t] = "UINT32_MAX"
    /\ Go(t, "handshake", "run")
    /\ UNCHANGED <<alive, enabled, postponed, checker, access, waits, selfcheck,
                   tid, parent, ops, blind, report>>

\* IncrementTotal() and IncrementAlive(); alive_thread only feeds debug output.
StartThread(t) ==
    /\ Go(t, "start", "enable")
    /\ alive' = alive \cup {t}
    /\ UNCHANGED <<enabled, postponed, checker, access, waits, selfcheck, tid,
                   parent, ops, blind, report>>

EnableThread(t) ==
    /\ Go(t, "enable", "insert")
    /\ enabled' = enabled \cup {t}
    /\ UNCHANGED <<alive, postponed, checker, access, waits, selfcheck, tid,
                   parent, ops, blind, report>>

\* thrToChecker[get_counter()] = new ActiveChecker(), under no lock.
InsertChecker(t) ==
    /\ Go(t, "insert", "sync")
    /\ UNCHANGED <<alive, enabled, postponed, checker, access, waits, selfcheck,
                   tid, parent, ops, blind, report>>

\* Mutant of SyncWithParent: the child answers before it is asked.
SyncAtOnce(t) ==
    /\ Go(t, "sync", "run")
    /\ tid' = [tid EXCEPT ![parent[t]] = "UINT32_MAX"]
    /\ UNCHANGED <<alive, enabled, postponed, checker, access, waits, selfcheck,
                   parent, ops, blind, report>>

SyncWithParent(t) ==
    /\ tid[parent[t]] # "UINT32_MAX"
    /\ Go(t, "sync", "run")
    /\ tid' = [tid EXCEPT ![parent[t]] = "UINT32_MAX"]
    /\ UNCHANGED <<alive, enabled, postponed, checker, access, waits, selfcheck,
                   parent, ops, blind, report>>

------------------------------------------------------------------------------
(***************************************************************************)
(* An instrumented access.                                                 *)
(***************************************************************************)
\* Mutant of overlapAddr: adjacent ranges overlap.
overlapAdjacent(addr1, size1, addr2, size2) ==
    \/ addr1 <= addr2 /\ addr2 <= addr1 + size1
    \/ addr2 <= addr1 /\ addr1 <= addr2 + size2

overlapAddr(addr1, size1, addr2, size2) ==
    \/ addr1 = addr2
    \/ addr1 <= addr2 /\ addr2 < addr1 + size1
    \/ addr2 <= addr1 /\ addr1 < addr2 + size2

InRange(size) == size > 0 /\ size < MaxMallocSize

Meets(addr1, size1, addr2, size2) ==
    InRange(size1) /\ InRange(size2) /\ overlapAddr(addr1, size1, addr2, size2)

\* Mutant of Risky: a read that meets a write is not looked for.
RiskyWrites(c, o) ==
    /\ \/ Meets(c.waddr, c.wsize, o.waddr, o.wsize)
       \/ Meets(c.waddr, c.wsize, o.raddr, o.rsize)
    /\ selfcheck \/ c.instID # o.instID

\* The condition under which check() reports: c is its own checker, o the
\* fields it reads of another thread's.
Risky(c, o) ==
    /\ \/ Meets(c.waddr, c.wsize, o.waddr, o.wsize)
       \/ Meets(c.waddr, c.wsize, o.raddr, o.rsize)
       \/ Meets(c.raddr, c.rsize, o.waddr, o.wsize)
    /\ selfcheck \/ c.instID # o.instID

\* What another thread may read of u's checker.  setAddr() runs under no lock
\* (its address-and-size pairs and its instID may each be old or new), and a
\* deleted checker keeps its map entry, so the memory may hold anything.
Views(u) ==
    IF pc[u] = "setting"
      THEN {[waddr |-> w.waddr, wsize |-> w.wsize, raddr |-> r.raddr,
             rsize |-> r.rsize, instID |-> i.instID] :
                w, r, i \in {checker[u], Fields(access[u])}}
    ELSE IF pc[u] \in Deleted
      THEN {resetAddr(checker[u])} \cup {Fields(a) : a \in Accesses}
    ELSE {checker[u]}

\* Threads with an entry in thrToChecker.
Known == {t \in Threads : pc[t] \notin {"unborn", "start", "enable", "insert"}}

\* A walk concurrent with an insertion may skip any entry.  (It may also find
\* the NULL of an entry being made, and crash: no state follows that.)
MapChanging == \E t \in Threads : pc[t] = "insert"

acHeld == \E t \in Threads : pc[t] \in {"block", "leave"}

CallAccess(t, a) ==
    /\ Begin(t, "setting")
    /\ access' = [access EXCEPT ![t] = a]
    /\ selfcheck' = (selfcheck \/ a.self)
    /\ UNCHANGED <<alive, enabled, postponed, checker, waits, tid, parent, blind, report>>

\* The __ts_self_ functions of 16 bytes set selfcheck and do nothing else.
CallSelf16(t) ==
    /\ ~Exited
    /\ pc[t] = "run"
    /\ \E a \in Accesses : a.self
    /\ selfcheck' = TRUE
    /\ UNCHANGED <<pc, alive, enabled, postponed, checker, access, waits, tid,
                   parent, ops, blind, report>>

setAddr(t) ==
    /\ Go(t, "setting", "check")
    /\ checker' = [checker EXCEPT ![t] = Fields(access[t])]
    /\ UNCHANGED <<alive, enabled, postponed, access, waits, selfcheck, tid,
                   parent, ops, blind, report>>

\* check() up to its call of block(), when no entry is risky.
CheckClear(t) ==
    /\ ~acHeld
    /\ Go(t, "check", "block")
    /\ \/ MapChanging
       \/ \A u \in Known \ {t} : \E v \in Views(u) : ~Risky(checker[t], v)
    /\ blind' = IF MapChanging THEN blind \cup {t} ELSE blind \ {t}
    /\ UNCHANGED <<alive, enabled, postponed, checker, access, waits, selfcheck,
                   tid, parent, ops, report>>

CheckReports(t) ==
    /\ ~acHeld
    /\ ~Exited
    /\ pc[t] = "check"
    /\ \E u \in Known \ {t} :
         /\ \E v \in Views(u) : Risky(checker[t], v)
         /\ report' = [by |-> t, with |-> u]
    /\ UNCHANGED <<pc, alive, enabled, postponed, checker, access, waits,
                   selfcheck, tid, parent, ops, blind>>

\* Mutant of BlockReturns: postponed before the test of the waiting time.
BlockReturnsPostponed(t) ==
    /\ waits[t] > MaxWait
    /\ Go(t, "block", "run")
    /\ checker' = [checker EXCEPT ![t] = resetAddr(@)]
    /\ postponed' = postponed \cup {t}
    /\ UNCHANGED <<alive, enabled, access, waits, selfcheck, tid, parent, ops, blind, report>>

\* block(), both ways out, up to the Unlock of ac_mutex.
BlockReturns(t) ==
    /\ waits[t] > MaxWait
    /\ Go(t, "block", "run")
    /\ checker' = [checker EXCEPT ![t] = resetAddr(@)]
    /\ UNCHANGED <<alive, enabled, postponed, access, waits, selfcheck, tid,
                   parent, ops, blind, report>>

BlockPostpones(t) ==
    /\ waits[t] <= MaxWait
    /\ Go(t, "block", "wait")
    /\ postponed' = postponed \cup {t}
    /\ UNCHANGED <<alive, enabled, checker, access, waits, selfcheck, tid,
                   parent, ops, blind, report>>

IsAllBlocked == postponed = enabled

\* Mutants of Tick: without the test of maxWaitNumber, and without the count.
TickUnbounded(t) ==
    /\ Go(t, "wait", IF IsAllBlocked THEN "woken" ELSE "wait")
    /\ waits' = [waits EXCEPT ![t] = @ + 1]
    /\ UNCHANGED <<alive, enabled, postponed, checker, access, selfcheck, tid,
                   parent, ops, blind, report>>

TickUncounted(t) ==
    /\ Go(t, "wait", IF waits[t] > MaxWait \/ IsAllBlocked THEN "woken" ELSE "wait")
    /\ UNCHANGED <<alive, enabled, postponed, checker, access, waits, selfcheck,
                   tid, parent, ops, blind, report>>

\* One turn of the loop of Semaphore::acquire().
Tick(t) ==
    /\ Go(t, "wait", IF waits[t] > MaxWait \/ IsAllBlocked THEN "woken" ELSE "wait")
    /\ waits' = [waits EXCEPT ![t] = IF @ > MaxWait THEN @ ELSE @ + 1]
    /\ UNCHANGED <<alive, enabled, postponed, checker, access, selfcheck, tid,
                   parent, ops, blind, report>>

\* Mutants of BlockRelocks: without the Lock of ac_mutex, and without resetAddr.
BlockGoesOn(t) ==
    /\ Go(t, "woken", "leave")
    /\ checker' = [checker EXCEPT ![t] = resetAddr(@)]
    /\ UNCHANGED <<alive, enabled, postponed, access, waits, selfcheck, tid,
                   parent, ops, blind, report>>

BlockKeepsAddr(t) ==
    /\ ~acHeld
    /\ Go(t, "woken", "leave")
    /\ UNCHANGED <<alive, enabled, postponed, checker, access, waits, selfcheck,
                   tid, parent, ops, blind, report>>

BlockRelocks(t) ==
    /\ ~acHeld
    /\ Go(t, "woken", "leave")
    /\ checker' = [checker EXCEPT ![t] = resetAddr(@)]
    /\ UNCHANGED <<alive, enabled, postponed, access, waits, selfcheck, tid,
                   parent, ops, blind, report>>

\* Mutant of BlockLeaves: the thread stays in postponed_thread.
BlockLeavesPostponed(t) ==
    /\ Go(t, "leave", "run")
    /\ UNCHANGED <<alive, enabled, postponed, checker, access, waits, selfcheck,
                   tid, parent, ops, blind, report>>

BlockLeaves(t) ==
    /\ Go(t, "leave", "run")
    /\ postponed' = postponed \ {t}
    /\ UNCHANGED <<alive, enabled, checker, access, waits, selfcheck, tid,
                   parent, ops, blind, report>>

------------------------------------------------------------------------------
(***************************************************************************)
(* Blocking calls: pthread_join, pthread_mutex_lock, pthread_cond_wait and *)
(* pthread_barrier_wait have the same interceptor, around a call that may  *)
(* return at any time or never.                                            *)
(***************************************************************************)
CallBlocking(t) ==
    /\ "pthread" \in Calls
    /\ Begin(t, "inside")
    /\ enabled' = enabled \ {t}
    /\ UNCHANGED <<alive, postponed, checker, access, waits, selfcheck, tid,
                   parent, blind, report>>

RealReturns(t) ==
    /\ Go(t, "inside", "returned")
    /\ UNCHANGED <<alive, enabled, postponed, checker, access, waits, selfcheck,
                   tid, parent, ops, blind, report>>

\* Mutant of IncrementEnabled: an interceptor that forgets it.
ReturnsDisabled(t) ==
    /\ Go(t, "returned", "run")
    /\ UNCHANGED <<alive, enabled, postponed, checker, access, waits, selfcheck,
                   tid, parent, ops, blind, report>>

IncrementEnabled(t) ==
    /\ Go(t, "returned", "run")
    /\ enabled' = enabled \cup {t}
    /\ UNCHANGED <<alive, postponed, checker, access, waits, selfcheck, tid,
                   parent, ops, blind, report>>

\* __tsan_testonly_barrier_wait() returns from inside its loop: the call of
\* IncrementEnabled after the loop is never reached.
CallTsanBarrier(t) ==
    /\ "tsan_barrier" \in Calls
    /\ Begin(t, "tsan")
    /\ enabled' = enabled \ {t}
    /\ UNCHANGED <<alive, postponed, checker, access, waits, selfcheck, tid,
                   parent, blind, report>>

TsanBarrierReturns(t) ==
    /\ Go(t, "tsan", "run")
    /\ UNCHANGED <<alive, enabled, postponed, checker, access, waits, selfcheck,
                   tid, parent, ops, blind, report>>

(***************************************************************************)
(* The end of a thread: the checker is deleted, its map entry stays.       *)
(***************************************************************************)
DeleteChecker(t) ==
    /\ t # Main
    /\ Go(t, "run", "deleted")
    /\ UNCHANGED <<alive, enabled, postponed, checker, access, waits, selfcheck,
                   tid, parent, ops, blind, report>>

DecrementAlive(t) ==
    /\ Go(t, "deleted", "dead")
    /\ alive' = alive \ {t}
    /\ UNCHANGED <<enabled, postponed, checker, access, waits, selfcheck, tid,
                   parent, ops, blind, report>>

DecrementEnabled(t) ==
    /\ Go(t, "dead", "done")
    /\ enabled' = enabled \ {t}
    /\ UNCHANGED <<alive, postponed, checker, access, waits, selfcheck, tid,
                   parent, ops, blind, report>>

------------------------------------------------------------------------------
\* What the program under test, or its environment, may do or not do.
Program(t) ==
    \/ \E c \in Threads : PthreadCreate(t, c)
    \/ PthreadCreateFails(t)
    \/ \E a \in Accesses : CallAccess(t, a)
    \/ CallBlocking(t) \/ RealReturns(t)
    \/ CallTsanBarrier(t) \/ TsanBarrierReturns(t)
    \/ CallSelf16(t)
    \/ DeleteChecker(t)

\* What the library does once it has been called, apart from taking ac_mutex.
Library(t) ==
    \/ PublishTid(t) \/ ReturnFromCreate(t)
    \/ StartThread(t) \/ EnableThread(t) \/ InsertChecker(t) \/ SyncWithParent(t)
    \/ setAddr(t) \/ BlockReturns(t) \/ BlockPostpones(t) \/ Tick(t) \/ BlockLeaves(t)
    \/ IncrementEnabled(t)
    \/ DecrementAlive(t) \/ DecrementEnabled(t)

TakeAcMutex(t) == CheckClear(t) \/ CheckReports(t) \/ BlockRelocks(t)

Next == \E t \in Threads : Program(t) \/ Library(t) \/ TakeAcMutex(t)

\* Threads are scheduled.  ac_mutex goes to some waiter, not to a given one
\* (module Mutex).  The program is not obliged to do anything.
Fairness ==
    /\ \A t \in Threads : WF_vars(Library(t))
    /\ WF_vars(\E t \in Threads : TakeAcMutex(t))

Spec == Init /\ [][Next]_vars /\ Fairness

------------------------------------------------------------------------------
(***************************************************************************)
(* Properties                                                              *)
(***************************************************************************)
Bytes(addr, size) == addr .. addr + size - 1

\* What the program under test is about to do at once: touch a common byte, one
\* of the two writing it.
Conflict(a, b) ==
    \/ Bytes(a.waddr, a.wsize) \cap Bytes(b.waddr, b.wsize) # {}
    \/ Bytes(a.waddr, a.wsize) \cap Bytes(b.raddr, b.rsize) # {}
    \/ Bytes(a.raddr, a.rsize) \cap Bytes(b.waddr, b.wsize) # {}

Detectable(a) == a.wsize < MaxMallocSize /\ a.rsize < MaxMallocSize

\* Every thread that executes the program's code, or is postponed, is enabled:
\* each blocking call gives back what it took, in every interleaving with the
\* birth and the end of threads.  Not so once __tsan_testonly_barrier_wait has
\* been called.
RunningEnabled ==
    \A t \in Threads : pc[t] \in {"run"} \cup Creating \cup Accessing => t \in enabled

\* Postponed threads may only be let go because everybody is stuck: when
\* IsAllBlocked() holds, no thread is in the program's code, in the middle of
\* an access, or born but not yet registered.  What it cannot see is a thread
\* whose blocking call has just returned.
AllBlockedSettled ==
    IsAllBlocked =>
        \A t \in Threads : pc[t] \in {"unborn", "inside", "returned", "done"} \cup Waiting

\* The comment of IsAllBlocked(), to the letter, when a postponed thread asks:
\* all the threads are postponed, blocked in a call, or not running.
AllBlockedIsTrue ==
    IsAllBlocked /\ postponed # {} =>
        \A t \in Threads : pc[t] \in {"unborn", "inside", "tsan", "done"} \cup Waiting

\* postponed_thread is the set of threads between the two halves of block(),
\* although both halves let go of ac_mutex in between.
PostponedMatches == postponed = {t \in Threads : pc[t] \in Waiting}

\* No pair slips through: two accesses that conflict and come from different
\* instructions are never postponed together, because the second to arrive
\* sees the first, unless its walk over the map met an insertion.
NoMissedPair ==
    \A t, u \in Threads :
        /\ t # u
        /\ {pc[t], pc[u]} \subseteq {"wait", "woken"}
        /\ Detectable(access[t]) /\ Detectable(access[u])
        /\ access[t].instID # access[u].instID
        /\ Conflict(access[t], access[u])
        => t \in blind \/ u \in blind

\* A report names two accesses that both still have to happen and that touch a
\* common byte, even when the other thread was in the middle of setAddr().
\* Threads that have ended are the exception.
ReportsPendingConflict ==
    Exited /\ pc[report.with] \notin Deleted =>
        /\ pc[report.with] \in Accessing
        /\ Conflict(access[report.by], access[report.with])

\* While a child may still read or write ThreadCreateInfo its parent has not
\* returned from pthread_create, in whose frame that structure lives.
ThreadCreateInfoLives ==
    \A t \in Threads : pc[t] \in Starting => pc[parent[t]] \in Creating

\* ac_mutex is used as module Mutex allows, which BlockingMutex implements: asked
\* for before it is taken, and let go of on both ways out of block().
acPhase ==
    [t \in Threads |->
        IF pc[t] \in {"block", "leave"} THEN "holding"
        ELSE IF pc[t] \in {"check", "woken"} THEN "waiting"
        ELSE "idle"]

AcMutex == INSTANCE Mutex WITH phase <- acPhase

AcMutexProtocol == AcMutex!SafetySpec

\* Postponement ends: whatever the other threads do or fail to do, a postponed
\* thread returns from its access, or a race has been reported.
PostponedReturns ==
    \A t \in Threads : pc[t] = "wait" ~> (pc[t] = "run" \/ Exited)

\* A pthread_create that did create a thread returns: the child answers the
\* handshake although parent and child poll and overwrite the same word.
CreateReturns ==
    \A t \in Threads :
        (pc[t] = "create" /\ \E c \in Threads : pc[c] = "start" /\ parent[c] = t)
            ~> (pc[t] = "run" \/ Exited)

==============================================================================
