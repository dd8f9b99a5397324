---------------------------- MODULE BlockingMutex ----------------------------
(***************************************************************************)
(* The futex mutex of the run-time libraries (RTLMutex.cpp).  It guards    *)
(* every shared structure of TSRTL (mtx_, ac_mutex) and of DCIRTL          *)
(* (mtx_instToGroup, mtx_dciinfo, mtx_pairs), because the pthread mutexes  *)
(* themselves are intercepted.                                             *)
(*                                                                         *)
(* state is the futex word opaque_storage_[0].  Each atomic_exchange, each *)
(* futex system call is one step; sleepers is the kernel's wait queue of   *)
(* the word (external: how RTLMutex.cpp uses FUTEX_WAIT and FUTEX_WAKE).   *)
(* owner_ is never written after construction, so CHECK_EQ(owner_, 0) is   *)
(* always met and is left out.                                             *)
(***************************************************************************)
EXTENDS Naturals

CONSTANT Threads

VARIABLES
    state,      \* the futex word
    sleepers,   \* threads the kernel has queued on the word
    pc          \* where each thread is inside Lock() / Unlock()

vars == <<state, sleepers, pc>>

MtxUnlocked == 0
MtxLocked   == 1
MtxSleeping == 2

(***************************************************************************)
(* idle   outside the mutex            wait   about to call FUTEX_WAIT     *)
(* enter  Lock() called                sleep  inside FUTEX_WAIT            *)
(* swap   about to exchange Sleeping   cs     Lock() returned              *)
(* wake   Unlock() about to call FUTEX_WAKE                                *)
(***************************************************************************)
Locations == {"idle", "enter", "swap", "wait", "sleep", "cs", "wake"}

TypeOK ==
    /\ state \in {MtxUnlocked, MtxLocked, MtxSleeping}
    /\ sleepers \subseteq Threads
    /\ pc \in [Threads -> Locations]

Init ==
    /\ state = MtxUnlocked
    /\ sleepers = {}
    /\ pc = [t \in Threads |-> "idle"]

Goto(t, l) == pc' = [pc EXCEPT ![t] = l]

CallLock(t) ==
    /\ pc[t] = "idle"
    /\ Goto(t, "enter")
    /\ UNCHANGED <<state, sleepers>>

\* Mutant of TryFast: the word is incremented instead of exchanged.
TryFastAdds(t) ==
    /\ pc[t] = "enter"
    /\ state' = state + 1
    /\ Goto(t, IF state = MtxUnlocked THEN "cs" ELSE "swap")
    /\ UNCHANGED sleepers

\* The first exchange stores MtxLocked even over MtxSleeping: it may hide the
\* sleepers from the holder, and the loop below must bring them back.
TryFast(t) ==
    /\ pc[t] = "enter"
    /\ state' = MtxLocked
    /\ Goto(t, IF state = MtxUnlocked THEN "cs" ELSE "swap")
    /\ UNCHANGED sleepers

\* Mutant of SwapSleeping: the loop compares with the wrong value.
SwapSleepingTakes(t) ==
    /\ pc[t] = "swap"
    /\ state' = MtxSleeping
    /\ Goto(t, IF state # MtxSleeping THEN "cs" ELSE "wait")
    /\ UNCHANGED sleepers

\* The exchange of the while condition.
SwapSleeping(t) ==
    /\ pc[t] = "swap"
    /\ state' = MtxSleeping
    /\ Goto(t, IF state = MtxUnlocked THEN "cs" ELSE "wait")
    /\ UNCHANGED sleepers

\* Mutant of FutexWait: a wait that does not compare the word.
FutexWaitAlways(t) ==
    /\ pc[t] = "wait"
    /\ sleepers' = sleepers \cup {t}
    /\ Goto(t, "sleep")
    /\ UNCHANGED state

\* FUTEX_WAIT compares the word with MtxSleeping and queues in one step.
FutexWait(t) ==
    /\ pc[t] = "wait"
    /\ IF state = MtxSleeping
         THEN /\ sleepers' = sleepers \cup {t}
              /\ Goto(t, "sleep")
         ELSE /\ Goto(t, "swap")
              /\ UNCHANGED sleepers
    /\ UNCHANGED state

\* A signal ends FUTEX_WAIT early; the result is ignored and the loop goes on.
Interrupt(t) ==
    /\ pc[t] = "sleep"
    /\ sleepers' = sleepers \ {t}
    /\ Goto(t, "swap")
    /\ UNCHANGED state

\* Mutant of Unlock: no FUTEX_WAKE.
UnlockForgets(t) ==
    /\ pc[t] = "cs"
    /\ state' = MtxUnlocked
    /\ Goto(t, "idle")
    /\ UNCHANGED sleepers

Unlock(t) ==
    /\ pc[t] = "cs"
    /\ state' = MtxUnlocked
    /\ Goto(t, IF state = MtxSleeping THEN "wake" ELSE "idle")
    /\ UNCHANGED sleepers

\* Mutant of FutexWake: the word is cleared again after the wake-up.
FutexWakeClears(t) ==
    /\ pc[t] = "wake"
    /\ IF sleepers = {}
         THEN /\ Goto(t, "idle")
              /\ UNCHANGED sleepers
         ELSE \E s \in sleepers :
                /\ sleepers' = sleepers \ {s}
                /\ pc' = [pc EXCEPT ![t] = "idle", ![s] = "swap"]
    /\ state' = MtxUnlocked

\* FUTEX_WAKE of at most one thread.
FutexWake(t) ==
    /\ pc[t] = "wake"
    /\ IF sleepers = {}
         THEN /\ Goto(t, "idle")
              /\ UNCHANGED sleepers
         ELSE \E s \in sleepers :
                /\ sleepers' = sleepers \ {s}
                /\ pc' = [pc EXCEPT ![t] = "idle", ![s] = "swap"]
    /\ UNCHANGED state

\* The steps a thread takes once it has called Lock(), up to its return.
Advance(t) == TryFast(t) \/ SwapSleeping(t) \/ FutexWait(t)

Release(t) == Unlock(t) \/ FutexWake(t)

Next == \E t \in Threads : CallLock(t) \/ Advance(t) \/ Interrupt(t) \/ Release(t)

\* Threads are scheduled, and every user of the mutex releases it; nobody has
\* to call Lock() again and no signal has to come.
Fairness == \A t \in Threads : WF_vars(Advance(t)) /\ WF_vars(Release(t))

Spec == Init /\ [][Next]_vars /\ Fairness

------------------------------------------------------------------------------
(***************************************************************************)
(* Properties                                                              *)
(***************************************************************************)
\* At most one thread is past Lock() and not yet in Unlock(), whatever the
\* interleaving of the two exchanges of Lock() with the one of Unlock().
MutualExclusion ==
    \A t, u \in Threads : pc[t] = "cs" /\ pc[u] = "cs" => t = u

\* CHECK_NE(v, MtxUnlocked) in Unlock() never fires: as long as a thread holds
\* the mutex the word is not MtxUnlocked, although waiters keep overwriting it.
UnlockCheckHolds ==
    \A t \in Threads : pc[t] = "cs" => state # MtxUnlocked

\* A queued thread is never forgotten: either the word says so, and the holder
\* will call FUTEX_WAKE; or a wake-up is on its way; or a thread that hid the
\* sleepers with its first exchange is about to store MtxSleeping again.
NoLostWakeup ==
    sleepers # {} =>
        \/ state = MtxSleeping
        \/ \E t \in Threads : pc[t] \in {"swap", "wake"}

\* The mutex implements the abstract one: a thread that has given the word back
\* but still has to call FUTEX_WAKE is idle for the clients of the mutex.
phaseBar ==
    [t \in Threads |->
        IF pc[t] \in {"idle", "wake"} THEN "idle"
        ELSE IF pc[t] = "cs" THEN "holding"
        ELSE "waiting"]

Abstract == INSTANCE Mutex WITH phase <- phaseBar

\* Refinement, with its liveness: a free mutex that is waited for is taken.
ImplementsMutex == Abstract!Spec

==============================================================================
