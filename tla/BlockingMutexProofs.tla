------------------------- MODULE BlockingMutexProofs -------------------------
(***************************************************************************)
(* For any set of threads: the futex mutex excludes, never trips its own   *)
(* check, never forgets a sleeper, and each of its steps is a step or a    *)
(* stutter of the abstract Mutex.                                          *)
(*                                                                         *)
(* Neither MutualExclusion nor NoLostWakeup is inductive.  Exclusion needs *)
(* to know that the word is MtxUnlocked exactly when nobody holds the      *)
(* mutex; the wake-up argument needs to know that whoever FUTEX_WAKE takes *)
(* from the queue really is asleep.                                        *)
(***************************************************************************)
EXTENDS BlockingMutex, TLAPS

\* The word tells whether the mutex is held, whatever waiters store in it.
WordTellsHeld ==
    state = MtxUnlocked <=> \A t \in Threads : pc[t] # "cs"

\* The kernel queue and the threads inside FUTEX_WAIT are the same threads.
QueueMatches == sleepers = {t \in Threads : pc[t] = "sleep"}

IInv ==
    /\ TypeOK
    /\ QueueMatches
    /\ WordTellsHeld
    /\ MutualExclusion
    /\ NoLostWakeup

USE DEF MtxUnlocked, MtxLocked, MtxSleeping

\* The futex word, the queue and the program counters keep their types through
\* every exchange and futex call of Lock() and Unlock().
THEOREM TypeCorrect == Spec => []TypeOK
<1>1. Init => TypeOK
  BY DEF Init, TypeOK, Locations
<1>2. TypeOK /\ [Next]_vars => TypeOK'
  <2> SUFFICES ASSUME TypeOK, [Next]_vars PROVE TypeOK'
    OBVIOUS
  <2> USE DEF TypeOK, Locations, Goto
  <2>1. ASSUME NEW t \in Threads, CallLock(t) PROVE TypeOK'
    BY <2>1 DEF CallLock
  <2>2. ASSUME NEW t \in Threads, Advance(t) PROVE TypeOK'
    BY <2>2 DEF Advance, TryFast, SwapSleeping, FutexWait
  <2>3. ASSUME NEW t \in Threads, Interrupt(t) PROVE TypeOK'
    BY <2>3 DEF Interrupt
  <2>4. ASSUME NEW t \in Threads, Release(t) PROVE TypeOK'
    BY <2>4 DEF Release, Unlock, FutexWake
  <2>5. CASE UNCHANGED vars
    BY <2>5 DEF vars
  <2> QED
    BY <2>1, <2>2, <2>3, <2>4, <2>5 DEF Next
<1> QED
  BY <1>1, <1>2, PTL DEF Spec

\* No step of Lock() or Unlock() breaks the strengthened invariant: the first
\* exchange may hide the sleepers, but then its thread is about to swap.
LEMMA InductiveStep == IInv /\ [Next]_vars => IInv'
<1> SUFFICES ASSUME IInv, [Next]_vars PROVE IInv'
  OBVIOUS
<1> USE DEF IInv, TypeOK, Locations, Goto, QueueMatches, WordTellsHeld,
            MutualExclusion, NoLostWakeup
<1>1. ASSUME NEW t \in Threads, CallLock(t) PROVE IInv'
  BY <1>1 DEF CallLock
<1>2. ASSUME NEW t \in Threads, TryFast(t) PROVE IInv'
  BY <1>2 DEF TryFast
<1>3. ASSUME NEW t \in Threads, SwapSleeping(t) PROVE IInv'
  BY <1>3 DEF SwapSleeping
<1>4. ASSUME NEW t \in Threads, FutexWait(t) PROVE IInv'
  BY <1>4 DEF FutexWait
<1>5. ASSUME NEW t \in Threads, Interrupt(t) PROVE IInv'
  BY <1>5 DEF Interrupt
<1>6. ASSUME NEW t \in Threads, Unlock(t) PROVE IInv'
  BY <1>6 DEF Unlock
<1>7. ASSUME NEW t \in Threads, FutexWake(t) PROVE IInv'
  <2>1. CASE sleepers = {}
    BY <1>7, <2>1 DEF FutexWake
  <2>2. CASE sleepers # {}
    <3>1. PICK s \in sleepers :
             /\ sleepers' = sleepers \ {s}
             /\ pc' = [pc EXCEPT ![t] = "idle", ![s] = "swap"]
      BY <1>7, <2>2 DEF FutexWake
    <3>2. pc[t] = "wake" /\ pc[s] = "sleep" /\ s # t /\ s \in Threads /\ state' = state
      BY <1>7, <3>1 DEF FutexWake
    <3> QED
      BY <3>1, <3>2
  <2> QED
    BY <2>1, <2>2
<1>8. CASE UNCHANGED vars
  BY <1>8 DEF vars
<1> QED
  BY <1>1, <1>2, <1>3, <1>4, <1>5, <1>6, <1>7, <1>8 DEF Next, Advance, Release

\* The strengthened invariant holds in every reachable state.
LEMMA Invariance == Spec => []IInv
<1>1. Init => IInv
  BY DEF Init, IInv, TypeOK, Locations, QueueMatches, WordTellsHeld,
         MutualExclusion, NoLostWakeup
<1> QED
  BY <1>1, InductiveStep, PTL DEF Spec

\* Two threads are never both between the return of Lock() and Unlock().
THEOREM Exclusion == Spec => []MutualExclusion
<1>1. IInv => MutualExclusion
  BY DEF IInv
<1> QED
  BY <1>1, Invariance, PTL

\* CHECK_NE(v, MtxUnlocked) of Unlock() never aborts the program under test.
THEOREM UnlockCheck == Spec => []UnlockCheckHolds
<1>1. IInv => UnlockCheckHolds
  BY DEF IInv, WordTellsHeld, UnlockCheckHolds
<1> QED
  BY <1>1, Invariance, PTL

\* Whenever a thread sleeps in the kernel, somebody is bound to wake it: the
\* word says Sleeping, or a thread is about to wake or to mark it again.
THEOREM SleepersRemembered == Spec => []NoLostWakeup
<1>1. IInv => NoLostWakeup
  BY DEF IInv
<1> QED
  BY <1>1, Invariance, PTL

\* Every step of the futex mutex is a step of the abstract Mutex or leaves its
\* phases unchanged: the safety half of ImplementsMutex.
THEOREM Refinement == Spec => Abstract!SafetySpec
<1>1. Init => Abstract!Init
  BY DEF Init, Abstract!Init, phaseBar
<1>2. IInv /\ [Next]_vars => [Abstract!Next]_phaseBar
  <2> SUFFICES ASSUME IInv, [Next]_vars PROVE [Abstract!Next]_phaseBar
    OBVIOUS
  <2> USE DEF IInv, TypeOK, Locations, Goto, phaseBar
  <2>1. ASSUME NEW t \in Threads, CallLock(t) PROVE Abstract!Request(t)
    BY <2>1 DEF CallLock, Abstract!Request
  <2>2. ASSUME NEW t \in Threads, TryFast(t)
        PROVE Abstract!Acquire(t) \/ UNCHANGED phaseBar
    BY <2>2 DEF TryFast, Abstract!Acquire, Abstract!Free, WordTellsHeld
  <2>3. ASSUME NEW t \in Threads, SwapSleeping(t)
        PROVE Abstract!Acquire(t) \/ UNCHANGED phaseBar
    BY <2>3 DEF SwapSleeping, Abstract!Acquire, Abstract!Free, WordTellsHeld
  <2>4. ASSUME NEW t \in Threads, FutexWait(t) \/ Interrupt(t)
        PROVE UNCHANGED phaseBar
    BY <2>4 DEF FutexWait, Interrupt
  <2>5. ASSUME NEW t \in Threads, Unlock(t) PROVE Abstract!Release(t)
    BY <2>5 DEF Unlock, Abstract!Release
  <2>6. ASSUME NEW t \in Threads, FutexWake(t) PROVE UNCHANGED phaseBar
    <3>1. CASE sleepers = {}
      BY <2>6, <3>1 DEF FutexWake
    <3>2. CASE sleepers # {}
      <4>1. PICK s \in sleepers : pc' = [pc EXCEPT ![t] = "idle", ![s] = "swap"]
        BY <2>6, <3>2 DEF FutexWake
      <4>2. pc[t] = "wake" /\ pc[s] = "sleep" /\ s \in Threads
        BY <2>6, <4>1 DEF FutexWake, QueueMatches
      <4> QED
        BY <4>1, <4>2
    <3> QED
      BY <3>1, <3>2
  <2>7. CASE UNCHANGED vars
    BY <2>7 DEF vars
  <2> QED
    BY <2>1, <2>2, <2>3, <2>4, <2>5, <2>6, <2>7
    DEF Next, Advance, Release, Abstract!Next
<1> QED
  BY <1>1, <1>2, Invariance, PTL DEF Spec, Abstract!SafetySpec

==============================================================================
