-------------------------------- MODULE Mutex --------------------------------
(***************************************************************************)
(* What a client of GenericScopedLock / BlockingMutex relies on: at most   *)
(* one thread is between the return of Lock() and the call of Unlock(),    *)
(* and a free mutex somebody is waiting for is eventually taken by some    *)
(* waiter.  Nothing is promised about which waiter: a thread that arrives  *)
(* late may overtake one that has been asleep for long.                    *)
(*                                                                         *)
(* TSRTL uses this module for ac_mutex; BlockingMutex implements it.       *)
(***************************************************************************)
CONSTANT Threads

VARIABLE phase          \* where each thread stands with respect to the mutex

Phases == {"idle", "waiting", "holding"}

TypeOK == phase \in [Threads -> Phases]

Init == phase = [t \in Threads |-> "idle"]

Free == \A t \in Threads : phase[t] # "holding"

Request(t) ==
    /\ phase[t] = "idle"
    /\ phase' = [phase EXCEPT ![t] = "waiting"]

Acquire(t) ==
    /\ phase[t] = "waiting"
    /\ Free
    /\ phase' = [phase EXCEPT ![t] = "holding"]

Release(t) ==
    /\ phase[t] = "holding"
    /\ phase' = [phase EXCEPT ![t] = "idle"]

Next == \E t \in Threads : Request(t) \/ Acquire(t) \/ Release(t)

SafetySpec == Init /\ [][Next]_phase

\* Some waiter, not a given one, is served once the mutex stays free.
Spec == SafetySpec /\ WF_phase(\E t \in Threads : Acquire(t))

==============================================================================
