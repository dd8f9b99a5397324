# Verification of the data-race detection tools

This directory holds TLA+ models of the parts of the repository that run
concurrently or decide, step by step, whether two memory accesses race; TLC
configurations that check them on small instances; and proofs, checked by
TLAPS, that hold for every value of the constants. Source paths below are
relative to `src/`.

## 1. The system

The repository is SVF with a multi-threaded analysis (MTA), a race-pair
analysis (RaceComb) and two run-time libraries. A use of the tool is a pipeline:

    LLVM code -> PAG -> pointer analysis (WPA) -> call graphs, TCT
              -> MHP + lock analysis (MTA)  ->  pairs / FSMPTA
              -> RaceComb (lib/RC/StaticAnalysis) -> RC.pairs
              -> RCInstr inserts __dci_ calls -> DCIRTL confirms pairs -> DCI.pairs
              -> RCInstr inserts __ts_ calls  -> TSRTL looks for races at run time

The stages before the run-time libraries are sequential batch programs over
graphs. The two run-time libraries are called from every thread of the program
under test, keep shared state, and synchronise through a futex mutex of their own,
because the pthread mutexes are intercepted by them.

### Components

| component | state it keeps | operations | interacts through | hard behaviour | what makes it correct | modelled |
|---|---|---|---|---|---|---|
| `lib/RC/RTLCommon` `BlockingMutex` | futex word, `owner_`; wait queue in the kernel | `Lock`, `Unlock` | shared word, `FUTEX_WAIT`/`FUTEX_WAKE` | interleaving of two exchanges with one; a hidden sleeper; signals | exclusion; no lost wake-up; a free mutex that is waited for is taken | yes, `BlockingMutex` |
| `RTLCommon` spin and RW mutexes | a byte / a word | `Lock`, `TryLock`, ... | - | used by neither library | - | no |
| `lib/RC/TSRTL` | `alive_thread`, `enabled_thread`, `postponed_thread`, `thrToChecker`, `thrToWaitTime`, `StallBreaker::selfcheck`, `ThreadCreateInfo` on the creator's stack | `__ts_init`, `__ts_read*`/`write*`/..., interceptors of `pthread_create`, `join`, `mutex_lock`, `cond_wait`, barriers | `mtx_`, `ac_mutex`, unlocked reads of checkers, polling of `p.tid` | postponement and its end, map changed while walked, checker fields written under no lock, checker deleted but reachable, handshake with both sides polling one word | bookkeeping sets tell the truth; no conflicting pair postponed together; reports are of pending accesses; nobody is postponed for ever | yes, `TSRTL` |
| `lib/RC/DCIRTL` | `dciinfo[]` (a `DCIMem` per thread), `instToGroup`, `pairs`, `total_thread` | `__dci_init`, `__dci_read*`/`write*`/`mem*`, `pthread_create` interceptor | `mtx_dciinfo[i]`, `mtx_instToGroup`, `mtx_pairs` | concurrent scans; masks that go stale between two critical sections; slots that fill out of order; unit sizes of intrinsics | the collected pairs are exactly the suspected pairs met | yes, `DCIRTL`, except for file input and output |
| `lib/MTA/TCT` | threads, call-string contexts, join and fork sites | `build`, `handleCallRelation`, ... | call graph | loops, recursion, SCC collapse | every run-time thread has one node, the nodes form a tree, shared nodes are marked | yes, `TCT` over `ThreadProgram` |
| `lib/MTA/MHP` | interleaving sets, instruction-thread map, join relations | `analyzeInterleaving`, `mayHappenInParallel` | TCT | partial joins, multi-forked threads | whatever can run in parallel is reported; the worklists run empty | yes, `ForkJoinAnalysis` and `MHP`, except for `executedByTheSameThread`, indirect calls and validation |
| `lib/MTA/LockAnalysis` | candidate functions, spans inside functions, lock sites and sets of locks by context | `analyze`, `isProtectedByCommonLock` | TCT, alias results | locks and unlocks in different functions; one helper under several contexts; sets that shrink when a second path arrives | two accesses reported as protected exclude each other | yes, `LockAnalysis`, except for `isInSameSpan` and indirect calls |
| `lib/MTA/PCG` | spawners, spawnees, followers | `analyze`, `mayHappenInParallel` | call graph; created by `FSMPTA` only | closures over calls and blocks | functions two threads are in are reported | yes, `PCG` |
| `lib/MTA/MTA` and annotation, statistics, validation | result sets | `runOnModule`, `pairAnalysis`, `detect` | MHP, locks, alias results | iteration over a set of pointers | every race is among the pairs | `PairAnalysis`; the rest is output |
| `lib/MTA/FSMPTA` | SVFG with thread edges | edge insertion | MHP, locks, MSSA | edges pruned by locks | no interfering store is lost | no |
| `lib/RC/StaticAnalysis` | summaries per function, pair sets | MHP, barrier, join, lockset, escape, path and heap analyses; `RaceComb` sequences them | each filters the pairs of the earlier ones | inter-procedural summaries | no filter removes a real race | no |
| `lib/RC/RCInstr` | LLVM code | inserts calls, assigns ids | RC.pairs / DCI.pairs | order of calls and accesses | each access is announced before it is made | no (code rewriting) |
| `lib/WPA` | constraint graph, points-to sets, difference and cache sets | Andersen (wave, diff, LCD), flow-sensitive solver | PAG; every other analysis asks it for aliases | worklists, cycle merging, differences, call graph found while solving | the least solution | `Andersen` models `AndersenWaveDiff`, the solver the thread analyses use, without field edges |
| `lib/MemoryModel` | PAG, constraint graph, points-to data structures | construction, moving of edges | WPA | edges change while they are walked | - | of the constraint graph and `PointsToDS.h`, what `Andersen` needs |
| `lib/DDA`, `lib/MSSA`, `lib/SABER`, `lib/Util` | graphs | construction, queries | each other | budgets, context matching | - | no |
| `lib/Instrumentation`, `lib/RuntimeLib`, `lib/CUDD` | - | - | - | - | - | no (rewriting, stubs, third party) |

`PROJECT.json` lists the same components with their source files.

## 2. Modules

| module | what it is |
|---|---|
| `Mutex` | abstract specification: what a client of `GenericScopedLock` relies on |
| `BlockingMutex` | the futex mutex, one step per atomic exchange or system call |
| `BlockingMutexProofs` | its theorems |
| `TSRTL` | the scheduling race detector |
| `TSRTLProofs` | its theorems |
| `DCIRTL` | the dynamic alias checker |
| `DCIRTLProofs` | its theorems |
| `ThreadProgram` | the program the static analyses read: statements, call graph, loops |
| `TCT` | the thread creation tree |
| `ForkJoinAnalysis` | which join joins whom, which thread ends before which starts |
| `MHP` | the interleaving sets, and the queries |
| `LockAnalysis` | which locks are held where, and whether two statements are protected |
| `PairAnalysis` | the pairs the driver reports as races |
| `PCG` | the coarse answer from the call graph alone |
| `Execution` | runs of the analysed program, and the properties of the analyses |
| `ContextProofs` | lemmas on graphs, worklists, contexts; the theorems about the tree and about the contexts of the lock analysis |
| `MHPProofs` | the walks of the fork-join and interleaving analyses stay on the tree; the theorems about cached answers; what the interleaving sets contain in programs without joins |
| `ExecutionProofs` | so do the runs: the theorem about forks, and type correctness |
| `RunProofs` | the theorems that hold a run against the marks of the tree, the interleaving sets, and `PCG` |
| `Andersen` | the pointer analysis, as a worklist machine over a constraint graph |
| `AndersenProofs` | its theorems |
| `MCBlockingMutex`, `MCTSRTL`, `MCDCIRTL`, `MCExecution`, `MCAndersen` | instances for TLC |

Composition: `BlockingMutex` implements `Mutex` (`ImplementsMutex`), `TSRTL` uses
`Mutex` for `ac_mutex` (`AcMutexProtocol`): it asks for the mutex before it takes
it and lets go of it on every way out, which is all that the implementation asks of
its clients. `ThreadProgram`, `TCT`, `ForkJoinAnalysis`, `MHP`, `LockAnalysis`,
`PairAnalysis` and `Execution` each extend the one before, and `Execution` extends
`PCG` too: an analysis reads what the earlier ones left, and `Execution` puts them
in sequence and runs the program beside them. `Andersen` stands alone: the thread
analyses see nothing of it but whether two pointers may alias, which the programs of
`Execution` give by name.

A definition whose comment begins with "Mutant of X" is a wrong version of X. It is
used by no specification: put in the place of X it shows that the property
`PROJECT.json` pairs it with is violated by such a mistake, so that the property
has something to say about the code.

### BlockingMutex (`lib/RC/RTLCommon/RTLMutex.cpp`)

`state` is `opaque_storage_[0]`; `sleepers` is the kernel's queue for the word; `pc`
is the place of each thread.

| action | code |
|---|---|
| `CallLock`, `TryFast` | entry of `Lock`, first `atomic_exchange(m, MtxLocked)` |
| `SwapSleeping` | the exchange of the `while` condition |
| `FutexWait`, `Interrupt` | `FUTEX_WAIT`: compare and queue in one step; ends early by a signal |
| `Unlock`, `FutexWake` | the exchange of `Unlock`, `FUTEX_WAKE` of one thread, two steps apart |

Abstracted: `owner_` is never written after construction, so `CHECK_EQ(owner_, 0)`
always holds.

### TSRTL (`lib/RC/TSRTL`)

| variable | code |
|---|---|
| `alive`, `enabled`, `postponed` | `alive_thread`, `enabled_thread`, `postponed_thread` |
| `checker` | `thrToChecker` and the fields of each `ActiveChecker` |
| `waits` | `thrToWaitTime` |
| `selfcheck` | `StallBreaker::selfcheck` |
| `tid`, `parent` | `ThreadCreateInfo` in the frame of the creating thread, and which frame a child points to |
| `access`, `ops` | arguments of the access under way; bound |
| `blind`, `report` | history: whose last check met a map under change; the report made before `exit` |

A thread passes through the following locations:

    unborn -> start -> enable -> insert -> sync -> run             (__ts_thread_start_func)
    run -> create -> handshake -> run                              (pthread_create)
    run -> setting -> check -> block -> [wait -> woken -> leave ->] run   (an access)
    run -> inside -> returned -> run                               (a blocking call)
    run -> tsan -> run                                             (__tsan_testonly_barrier_wait)
    run -> deleted -> dead -> done                                 (the end of a thread)

The critical sections of `mtx_` are single steps (they contain one set operation);
`ac_mutex` is held over several steps (`block` and `leave`). Reads of another
thread's checker that race with `setAddr` may return any mixture of old and new
fields (`Views`), and a checker that has been deleted may hold anything. A walk
over `thrToChecker` concurrent with an insertion may miss any entry.

`trylock`, `unlock`, `signal`, `broadcast`, `init` and `destroy` interceptors
call the real function and change nothing: they have no action.

### DCIRTL (`lib/RC/DCIRTL`)

| variable | code |
|---|---|
| `slots`, `mem` | which `dciinfo[i]` are not NULL; the instructions recorded in each, by access |
| `instToGroup`, `pairs` | the shared structures of the same names |
| `total_thread`, `newborn`, `parent`, `tid` | thread creation |
| `call`, `pos` | the `__dci_` call under way, and the access of it that is being dealt with |
| `idx`, `temp`, `it` | locals of `checkReadPair` / `checkWritePair` |
| `passed` | history: which recorded accesses lay in slots behind the empty one a scan stopped at |

An access is `record -> isempty -> scan -> mask -> add <-> reset`, each of them one
critical section. `Accesses(c)` says which accesses a call is cut into, which is the
loop structure of `DCIInterface.cpp`; `getAbsAddr` keeps the 14 address bits the
code keeps, and the size. A slot never becomes NULL again, so the unlocked test
of a slot and the critical section it leads to are one step.

### TCT, ForkJoinAnalysis, MHP, LockAnalysis, PairAnalysis, PCG (`lib/MTA`)

The analyses run one after another in one thread, over the same program. A
behaviour of `Execution` first is a run of them, one step per item taken from a
worklist, and then a run of the program they analysed. So the results are held
against what the program does.

    stage = "tct" -> "fja" -> "mhp" -> "lock" -> "cxtlocks" -> "lockspans"
          -> "pairs" -> "pairing" -> "pcg" -> "done" -> "run"

`PCG` is not part of `MTA::runOnModule`: only `FSMPTA.cpp:608` creates it. It has
its place at the end so that it is held against the same runs.

| state or action | code |
|---|---|
| `nodes`, `edges`, `multiforked` | `TCTNode`s with their `CxtThread`, fork context and start routine; `TCTEdge`s; the `multiforked` flags |
| `ctpList`, `visitedCTPs`, `cur`, `pending` | worklist of `TCT::build`, and the call sites of the item taken that are still to do |
| `PopCTP`, `HandleCallRet`, `HandleFork`, `CollectMultiForkedThreads` | the loop of `build`, `handleCallRelation`, `collectMultiForkedThreads` |
| `flags`, `cxtStmtList`, `root` | `cxtStmtToAliveFlagMap`, worklist, the thread of the outer loop of `analyzeForkJoinPair` |
| `directJoin`, `symmetricJoin`, `HBPair`, `HPPair`, `fullJoin`, `partialJoin` | the maps and sets of the same names (`cxtJoinInLoop` is `symmetricJoin`) |
| `StartThread`, `VisitFork`, `VisitJoin`, `VisitCall`, `VisitRet` | one turn of `analyzeForkJoinPair`, with the handler it calls |
| `interleaving`, `ctsList`, `mhpRoot` | `threadStmtToTheadInterLeav` (its domain is `instToTSMap`), worklist, outer loop of `analyzeInterleaving` |
| `StartInterleaving` | `addInterleavingThread`, `updateAncestorThreads`, `updateSiblingThreads` of a thread |
| `Visit...Thread`, `VisitNonCandidate`, `UpdateNonCandidateFuns` | one turn of `analyzeInterleaving`, with the handler it calls |
| `instCILocksMap`, `instTocondCILocksMap`, `cxtLockset`, `cxtStmtToCxtLockSet` | the maps of the same names; `instToCxtStmtSet` is the domain of the last |
| `AnalyzeIntraLocks`, `CollectCxtLock` | candidate functions and `analyzeIntraProcedualLock`; a turn of `collectCxtLock` with its calls of `handleCallRelation` |
| `LockVisit...` | one turn of `analyzeLockSpanCxtStmt`, with the handler it calls and all of its calls of `markCxtStmtFlag` |
| `it`, `ahead`, `pairs`; `StartPairs`, `SkipLocal`, `PairUp` | `pairAnalysis`: the iterator, what lies behind it in the set of pointers, the result; one turn of the outer loop |
| `pcg`, `InferFromCallGraph` | the sets of `PCG`, and `analyze` |
| `threads`, `handles`, `owners`, `Exec...` | external: pthreads |

A handler may push a statement because of a value it overwrites at once (a join marks
itself dead and then propagates); `Mark` and `Update` take the sequence of values a
handler goes through and push what changes anywhere in it. The order of several
pushes follows pointers in `std::set`, and is any order in the model.

Basic blocks matter in two places: `intraForwardTraverse` and `intraBackwardTraverse`
give up at the first statement of the last block and at the branch that ends the first,
and `identifyFollowers` looks at whole blocks. `BlockOf` finds them from the jumps.

Assumed of the program: a call or fork has one callee; `main` is the entry; a function
ends in its one return, jumps stay inside the function, callees exist, and `NoSite` is no
statement (`IsProgram`,
which TLC evaluates as `ProgramsAssumption` for the programs of the runs and the proofs
assume); two thread handles, mutexes or accessed objects alias when they are the same
variable, which for handles is what the code assumes of a pair of handles of the same
shape (`MHP.cpp:913`); a loop is left from its header or by a branch to the statement
after it. The join edges of the thread call graph are not among the edges `TCT` walks. A
join of a handle nobody wrote, or of one joined before, is undefined in pthreads; a run
ends there.

### Andersen (`lib/WPA`)

| variable | code |
|---|---|
| `graph` | the constraints of the program: PAG edges, and the indirect calls with the copies each resolution adds |
| `copies`, `derefs` | `directEdgeSet`, `LoadCGEdgeSet` and `StoreCGEdgeSet`, between representatives |
| `rep` | `nodeToRepMap` |
| `pts`, `propa`, `cache` | the points-to map, `propaPtsMap` and `CacheMap` of `DiffPTData`; `diffPtsMap` is `pts[n] \ propa[n]` when it is used |
| `worklist`, `toVisit` | the work list of `WPASolver`, `nodeStack` |
| `todo`, `toLink`, `connected`, `reanalyze` | loop variables of `postProcessNode`, `cpySrcNodes`, `getIndCallMap()`, `reanalyze` |

    stage = "addr" -> "detect" -> "solve" -> "link" -> "detect" or "done"

`DetectCycles` is `SCCDetect` with all merges: components are defined by the sets closed
under the copy edges, and any member may become the representative, as it does in
the code by the order of the node map. `Visit` takes all nodes at once that no
unvisited node precedes; none of them is a successor of another, so the
stack's order among them makes no difference. `HandleDeref` is `handleLoad` or
`handleStore` for one edge, with all objects it has not been handled for. A moved load
or store edge is a new edge with a new id, and starts with an empty cache.

The objects are atomic: no field edges, so no positive-weight cycles and no collapsing.
Reading results from a file, the limit on resolved indirect calls, virtual calls (which
resolve through the class hierarchy) and the type filter are left out.

## 3. Runs

| run | module, cfg | instance | what it shows |
|---|---|---|---|
| `blocking_mutex` | `MCBlockingMutex` | 4 threads | exclusion, no lost wake-up, `CHECK_NE` never fires, refinement of `Mutex` with its liveness |
| `scheduler` | `MCTSRTL` | 3 threads, 3 accesses, 2 operations each, `MaxWait` 1 | the bookkeeping sets, no conflicting pair postponed together, reports only of pending conflicts, the life time of `ThreadCreateInfo`, use of `ac_mutex` |
| `scheduler_live` | `MCTSRTL`, `MCTSRTLLive.cfg` | 3 threads, the TSAN test barrier, failing creation | postponement ends; a creation that succeeded returns |
| `tsan_barrier` | `MCTSRTLBarrier.cfg` | 2 threads | finding: after `__tsan_testonly_barrier_wait` a running thread is not enabled |
| `alias_checker` | `MCDCIRTL` | 3 threads, 4 calls, words and `memcpy` | the collected pairs are exactly the suspected pairs met, but for those a scan passes over at an empty slot; `memcpy` is recorded in both units |
| `mta` | `MCExecution` | 27 programs | the analyses end whatever the order of pushes; a fork met has a node, and one parent; full joins and order hold in every run; accesses that are about to happen together are reported; those reported as protected never are; lock sites are met under collected contexts; functions that run together are covered by `PCG`; cached answers are exact; the annotations of `tests/mta` and `tests/rc` hold |
| `mta_orphan` | `MCExecutionOrphan.cfg` | one program | finding: a pair with a child left behind by a joined thread is not reported |
| `mta_must_join` | `MCExecutionMustJoin.cfg` | one program | finding: one join takes all threads of a shared node away |
| `mta_locks` | `MCExecutionLocks.cfg` | one program | finding: a helper called with and without the lock is taken to be protected |
| `mta_pairs` | `MCExecutionPairs.cfg` | one program | finding: of two accesses that race no pair is reported |
| `andersen` | `MCAndersen` | about 1500 graphs of 8 nodes | the solver ends; it invents nothing; what was propagated is at every successor; the result is a solution unless cycles arose while solving |
| `andersen_late` | `MCAndersenLate.cfg` | one graph | finding: a load of a member of a late cycle is never handled |

### Bounds

* Four threads at the mutex are a holder, a sleeper, one that hides the sleeper with
  its first exchange, and one that arrives between `Unlock` and `FUTEX_WAKE`.
* Three threads in `TSRTL` are two that conflict and a third that comes to life, ends,
  blocks or is postponed meanwhile. Two operations let a thread use up `MaxWait` in
  its first access and run through the second one unpostponed. `MaxMallocSize` 4 puts
  the limit of compared sizes in reach of addresses 1 to 3. The accesses touch in one
  byte, touch end to end, and read and write at once.
* Three slots in `DCIRTL` are the fewest for a gap between two slots in use: thread 2 may have
  its slot, and accesses recorded, while thread 1 has an id and no slot yet. The run
  contains it: with `EveryAliasFound` as an invariant TLC finds a pair lost in it, which
  `PairsComplete` excepts by `passed`. What each thread may call is fixed (`Calls`), since
  all calls in all threads exceed what can be checked; main makes two calls, so
  that a call meets groups that an earlier one has shrunk. The words contain a
  conflicting pair, a pair of the same instruction, and two addresses that agree in 14
  bits only.
* The programs of `mta` (`Sound` in `MCExecution`) have at most six threads at run time,
  nested calls three deep and loops of two rounds (`MaxThreads`, `MaxDepth`, `MaxTrip`);
  a run that would need more of them stops. Among the programs are forks in loops, in
  callees, in recursion and by threads that are themselves forked in loops; joins on one
  path only, in symmetric and asymmetric loops, in loops with a break, in callees,
  in recursion and by a sibling; helpers shared by threads. Those taken from
  `tests/mta` keep the statements and the annotations the property is about.
  Nine programs have locks, those of `tests/rc` that the code is right about among
  them: nested and different locks, a lock on one of two paths, locks in wrappers, a
  helper under one lock or under none, a long path without the lock that arrives after
  a short one with it, locks in loops and recursion. Mutexes are told apart by name.
  Left out of `Sound` are the programs of the findings, those of section 5 that
  are like them (`LeftOut`), and loops whose trip count
  is not a constant: the code gives these the count 0 and then takes a loop that forks
  and a loop that joins for symmetric, an assumption it states (`MHP.cpp:913`).

* The graphs of `andersen` are all programs of three pointers `p = &x; q = &y; r = &p`
  with at most two copies and two loads or stores among them, three in all
  (`MaxConstraints`), which gives every shape of one cycle, of one load or store meeting
  one copy edge in either order, and of a store that feeds a load; and five programs
  with more: a cycle of the program's own whose members load and store, a cycle that
  only an indirect call closes, a function pointer read from memory, a constant
  object, and the one of the finding, which has a late cycle and hence exercises
  merging after propagation. `MaxRounds` 12 is more than a fixed point over 8 nodes
  takes on any of them; the assumption that `Reference` is a solution is evaluated.

### Fairness

* `BlockingMutex`: a thread inside `Lock` or `Unlock`, or holding the mutex,
  continues (threads are scheduled and critical sections are finite). No signal has
  to come, and nobody has to ask for the mutex.
* `TSRTL`: each thread inside the library continues. `ac_mutex` is given to *some*
  waiter: `BlockingMutex` promises no more, as a newcomer can overtake a woken
  thread again and again. The program under test is not obliged to do anything: a
  blocking call may never return, a thread may never make another access.

* `Execution`: the analyses go on until they stop, as one sequential thread does;
  nothing is assumed of the analysed program. Without a bound on the worklists
  `AnalysisEnds` is a real question: `rmInterleavingThread` makes sets smaller.
* `Andersen`: the solver goes on until it stops, as one thread does. `Terminates` is a
  question too: each turn of the loop of `analyze` has to be paid for by a new
  edge or a newly resolved call, while merging takes edges away.

Under the assumptions on `TSRTL` `PostponedReturns` holds only because the number of
operations is finite: with an endless supply of newcomers a thread waiting for
`ac_mutex` could starve.

## 4. Proofs

For every set of threads and every value of the other constants that the named
assumptions allow:

* `BlockingMutexProofs`: `TypeCorrect`, `Exclusion`, `UnlockCheck`, `SleepersRemembered`,
  and `Refinement` (the safety part of `ImplementsMutex`). The inductive invariant adds
  to exclusion that a holder's word is not `MtxUnlocked`, because an exchange that finds
  it unlocked is what makes a thread a holder.
* `TSRTLProofs`: `TypeCorrect`, `PostponedIsWaiting`, `HandshakeSafe`,
  `RunningIsEnabled`, `AllBlockedIsSettled`, `PairsAreMet`, `ReportsAreConflicts`,
  `AcMutexUsedWell`. Three inductive invariants carry them. `Bookkeeping` ties `enabled`, `postponed`, `tid` and
  `parent` to the locations of the threads. `Observation` says of every postponed thread
  that its checker still holds the access it announced, and of two postponed
  threads that do not share a critical section which of them saw the other; it gives
  `NoMissedPair`. `Quiet` says that a checker holds sizes only while its thread is in an
  access: so the sizes in a half-written checker are zero or those of the new access,
  and a report is of an access under way (`ReportsPendingConflict`).
* `DCIRTLProofs`: `TypeCorrect`, `SlotsAllocated`, `CollectedPairsAreMet`,
  `MetPairsAreCollected`. The inductive invariant `CheckInv` has the parts `Recorded`
  (an access being checked is in `mem`), `TempSound` (what `temp` holds was met),
  `Groups` (a partner leaves a group only once its pair is in `pairs` or about to be),
  `PairsSound` and `Complete` (of two recorded accesses the later scan has the earlier
  one still ahead of it, or in `temp`, or its pair collected). `CopiesAreRecorded` is
  `IntrinsicUnits` for programs without `memset`, whose second loop passes the wrong
  size code (section 5). `OrderlyCreationLosesNothing` is `EveryAliasFound`, that is
  `PairsComplete` without its exception, for the runs in which no thread takes its id before the
  one created last has its slot (`OrderlyCreation`), and any number of threads: then only the last
  thread can be in creation (`LastInCreation`), slots are in use in the order of their
  ids (`SlotsFilled`), and no scan passes over one. The hypothesis is about runs and not about
  programs, as the handshake alone does not order the slots; with it as a
  constraint TLC finds no lost pair in the program of the run, and one without it.

* Of the thread analyses, for every set of programs that `IsProgram` holds of
  (`ProgramsAssumption`; section 2 says what that is), any trip bounds and any order of
  the worklists:

  * `ContextProofs`: the lemmas on what the definitions of
    the model compute. `ReachedFrom`, of which `PathsOf` and every closure over it are
    instances, iterates a step; that it returns the least set closed under the step
    (`ReachedClosed`, `ReachedLeast`) is the only place with an induction, over the number
    of rounds (`LeastNatural`). Everything after it uses that contexts are the least
    set closed under calls and forks (`Contexts`), and that a walk which returns to any
    caller its context allows stays in the greatest consistent set of pairs of context and
    function (`Walked`).
    The theorems they carry there are `TreeHasOneParent` (not inductive: `TreeInv` adds that the
    `CxtThreadProc` each spawnee is entered with has been visited, so that `HandleFork`
    adds no second edge to it); `TreeIsComplete` (`WalkInv` and `NodeInv`: what was taken
    from the worklist has its callees visited and a node for each of its forks, so
    that an empty worklist leaves every context built); `LockSitesCollected` (the same argument
    for `collectCxtLock`: `LockInv`, with `Collected`).
  * `MHPProofs`: `FlagInv` and `InterleavingInv`, by which the two walks of `ForkJoinAnalysis`
    and `MHP` only reach statements under walked contexts, although a return pops contexts
    by the rule of `popCxt` and not by where the call came from. `EntryIsMetFirst` is the
    assertion of `MHP.cpp:195`, and `CacheAnswersForAll` is `CacheIsExact`, both for
    programs in which only candidates call candidates (`RoutinesStayInside`): then the walk is
    in a function that is no candidate at its entry only (`Stops`), and `UpdateNonCandidateFuns`
    gives its other statements what the entry has (`Uniform`). Without the
    hypothesis both are false: `RoutineCalled`, section 5.
    The last part is what `ForksAreReported` needs of the analyses. `TreeShape`: a context and
    a fork site name one node, and the context of a `CxtThreadProc` on the way to a fork is
    that of its thread and calls, so that each node but the root has one creator
    (outside of recursion no call is folded into a context). `AliveInv`: without joins
    no thread is marked dead and no pair of siblings is ordered. `SpreadInv`: what is not on
    the worklist has passed its threads on to all statements it leads to, by any rule of the
    walk, and a thread is met from its fork on by its creator and at their entries by its
    siblings.
  * `ExecutionProofs`: `WalksStayOnTheTree` (`RunInv`: each frame of a run is under a walked
    context as well), hence `EveryForkFound`, that neither the analyses nor a run meet a fork
    for which `getTCTNode` has no answer; and `TypeCorrect`, whose `TypeInv` is all of the
    above.
  * `RunProofs`: `SharedAreMarked` is `SharedNodesAreMarked` for programs whose jumps back are
    turns of loops (`JumpsBackAreLoops`). A node that is not marked is that of a fork which
    nothing it is executed through repeats (`Once`), and `OnceInv` says why a run comes to it
    under its context once: what is on the way to the fork runs under each context in one
    frame of one thread (`SameCall`), and a frame from which a context has been continued at
    a call is past that call (`HasPassed`), to which only a turn of a loop, another call of
    the function or another fork of the thread would lead back. A `goto` back that is no
    loop forks twice without a mark, and the code misses it too, so the hypothesis is needed.
    `CoarserThanRuns` is `ParallelFunsCovered` for programs in which what a spawner calls that
    is itself called behind a spawn site is in the graph (`LateSpawnersAreCovered`), of
    which `HelpFirst` (section 5) is not one, and all programs of `Sound` are. `FunsInv`: forked
    threads stay in spawnees; once the main thread has forked, each of its frames is behind
    a spawn site or in a function all of whose callees are in the graph, because by
    `CallsLead` the calls its older frames wait at lead to the function that forked.
    `ForksAreReported` is `ParallelIsReported` for programs that join nothing (`NoJoins`), fork
    outside of recursion (`ForksOutsideRecursion`) and jump back in loops only. `StackShape`
    and `Kin` tie each frame and each thread of a run to its context and its node.
    `Lineage` gives each thread those that led to it; by `MetInv` each of its frames has met, at the
    statement it is at, the nodes of all threads that did not lead to it and the nodes
    below them, and what those that did lead to it had met when they began. A frame with a
    callee on top that is a candidate learns this from the callee's return, so that the
    invariant excepts it until then (`Told`). Two threads of which neither led to the other
    have then met each other's node; of two on one line, the younger was in what the
    elder met at its fork. That threads of one node are compared with each
    other is `SharedNodesAreMarked`. Of the programs in `MCExecution`, `helper`, the nine lock
    programs, `HelpFirst`, `RoutineCalled` and `TwoAccesses` fulfil the hypotheses. Joins are
    excluded because of findings 2 and 3. That recursion is excluded is due to the
    argument: a folded context no longer tells which of two nodes created a third. No
    program that forks in recursion is known of which the property is false.

* `AndersenProofs`: `TypeCorrect`, `NothingInvented`, `DifferencesReach` and
  `SolvedWithoutLateCycles`, for every set of nodes, every set of graphs, and every
  `Reference` that is a solution (`ReferenceAssumption`; no other property of it is
  used, so it may be the least one). `Canonical`, the half of `TypeOK` about edges and
  representatives, is inductive with types alone. `Precise` rests on `Forced`, kept by
  every step: the copies, loads and stores of the graph of representatives hold in the
  reference solution, and a node has the same set there as its representative. A merge
  keeps it because a cycle of inclusions makes its members equal (`MergedAgree`).
  `PropagatedReached` is inductive with types. For the last theorem, `Covers` says
  that every constraint has its edge and that every object a load or store was
  handled for has the copy it calls for; `Wave` that copies lead from visited to
  unvisited nodes only, so that a wave that adds no edge leaves nothing to propagate;
  and `Pending` that an object a load or store has not been handled for is held by a
  pointer on the work list, or the edge is ahead in the visit under way. `Pending`
  survives a merge only if none of the members had left the work list, which is so for
  the program's own cycles: `Collapsed` says that these are all merged in the first
  iteration, when every node that points to something is still on it. It is not so
  for other cycles, hence finding 6.

Only model-checked:

* `FullJoinIsFull`, `HappensBeforeIsOrder` and `ProtectedExclude`, and `ParallelIsReported` where there are
  joins: they compare a run with what the code concludes from joins and unlocks, which is
  wrong for some programs (findings 2 to 4), so a theorem needs the class of programs it is
  right for, and such a class is not stated in the code.
* `OraclesHold`, which is about the annotations of single programs.
* Liveness (`AnalysisEnds`, `Terminates`, `ImplementsMutex` with its fairness,
  `PostponedReturns`, `CreateReturns`), which needs `ENABLED`.
* That the solution is the least one, of which `Precise` and `SolvedUnlessLateCycle` are
  the two halves; only the instances of `Reference` in `MCAndersen` are least.

## 5. Findings

Each is a run that violates the property next to it.

1. `AllBlockedIsTrue`, run `tsan_barrier` (`TSInterceptors.cpp:344`):
   `__tsan_testonly_barrier_wait` returns out of its loop and never re-enables its thread.
2. `ParallelIsReported`, run `mta_orphan` (`MHP.cpp:389`): a sibling that ended earlier is
   skipped together with the children it left running.
3. `ParallelIsReported`, run `mta_must_join` (`MHP.h:153`): `isMustJoin` is asked about the
   thread that joins instead of the one that is joined.
4. `ProtectedExclude`, run `mta_locks` (`LockAnalysis.cpp:318`): an unlock site is looked up
   in a set of lock sites, so nothing is propagated past an unlock; `tests/rc/lock_15.c`
   expects a race where the code says protected.
5. `RacesAreReported`, run `mta_pairs` (`MTA.cpp:296`): the inner loop moves the iterator of
   the outer one; the first shared access is paired with none, and each later one
   with itself.
6. `Solved`, run `andersen_late` (`Andersen.cpp:485`): the objects a representative gains
   by a merge are not given to the loads and stores of the cycle. It takes a cycle
   closed by edges the solver has added.

What the models also contain, and the properties step around by a named exception
rather than by leaving it out:

* A walk of `check()` over `thrToChecker` that meets the insertion of a new thread
  (`TSInterceptors.cpp:71`) can pass over a conflicting access: the threads of
  `blind`, which `NoMissedPair` excepts.
* The checker of an ended thread is deleted but stays in the map
  (`TSInterceptors.cpp:85`), and a report may name it: the exception in
  `ReportsPendingConflict`.
* A scan of DCIRTL ends at the first NULL slot (`DCIRTL.h:300`, `:309`), and slots may fill out
  of order, so that a pair is lost (`EveryAliasFound` is false): main creates two
  threads, the second has its slot and its access recorded while the first is about to
  execute `DCIInterceptors.cpp:75`, and main's scan stops at the slot of the first. No comment or
  document of the repository says anything about it, so it is no finding with a run of its own.
  `passed` records what was passed over, and `PairsComplete` excepts just that.
* The second loop of `__dci_memset` passes the size code of 4 bytes
  (`DCIInterface.cpp:106`): `Filled` in `DCIRTL`; no instance calls it.

And programs the lock analysis and `PCG` are wrong about, for which `MCExecution` has
code (`LeftOut`) but no run of their own:

* `markCxtStmtFlag` gives a statement no entry when the set of locks is empty, so that the
  next path is taken for the first: whether a lock on one of two paths of the
  same length is held afterwards depends on the order of the worklist (`LockElse`).
* A forked routine starts with the locks of its creator (`handleFork`; `ForkLocked`).
* An unlock on one of two paths that meet again (`UnlockEarly`), for the reason of finding 4.
* A statement is not compared with itself under the same context, so an access that
  several threads execute counts as protected (`tests/rc/lock_3.c` says it races).
* A function forks, calls a helper in a block that does not follow the fork, and is itself
  called twice: the helper is no follower (`HelpFirst`), as the walk starts at the
  block of the fork, although the second call runs it beside the thread of the first.
* A helper that is no candidate calls a function that is one, because it is forked elsewhere:
  `main() { fork foo; h(); foo(); }  h() { foo(); }`. `handleRet` of `foo` returns into `h`
  too, where the context of the call of `main` looks the same, so the walk meets `h` behind its
  entry. The assertion of `MHP.cpp:195` fails; without assertions the statements of
  `h` have different answers and the one cached for the function depends on which was asked
  first (`RoutineCalled`, on which TLC finds `CacheIsExact` violated). `CacheAnswersForAll`
  assumes that no such call exists (`RoutinesStayInside`).
* `intersects` (`LockAnalysis.h:134`) runs from the begin of one set to the end of another.
  Only `isInSameSpan` reaches it, which is not modelled.

Hazards that the list of `PROJECT.json` leaves out because no property here could reach
them: the first insertions into `thrToWaitTime` are unsynchronised (`TSChecker.cpp:66`);
`selfcheck` is never cleared (`TSInterface.cpp:86`); accesses of 2^20 bytes and more are
ignored (`TSChecker.cpp:176`, a documented limit); `dciinfo` has no bounds check
(`DCIInterceptors.cpp:75`); an empty `RC.pairs` leaves two ids uninitialised
(`DCIRTL.cpp:60`); a loop of unknown trip count counts as symmetric to any
other (`MHP.cpp:928`); `hasEdge` compares field edges without their offset
(`ConsG.h:110`) and a removed edge is read after it was deleted (`ConsG.cpp:403`, `:454`).

## 6. Not modelled, and why

Of the 169 thousand lines of implementation about half are the vendored BDD package
CUDD and other third-party code, which are no part of the program's own logic; most
of the rest translates LLVM code into graphs or rewrites it (`PAGBuilder`, `CHA`,
`MSSA`, `SVFG`, `RCInstr`, `Instrumentation`), where the state is the input program and
there is little control to check. So the map covers a small share of the lines, and the
part of them that is concurrent or a fixed-point computation with state of its own
is what the modules are about.

* `FSMPTA` prunes value-flow edges over memory SSA; without a model of that its
  edges have nothing to be held against.
* RaceComb's summaries (`lib/RC/StaticAnalysis`) are filters of their own MHP, lock
  and path analyses over LLVM values; each needs a program model as `ThreadProgram` is
  for MTA, with summaries instead of contexts.
* DDA and SABER are sequential clients of the value-flow graph.
* Of WPA: field edges and the collapsing of fields; `AndersenLCD`; `FlowSensitive`.

## 7. Plan

1. Field edges in `Andersen`: positive-weight cycles and `collapseField`, which change
   points-to sets outside of the wave.
2. RaceComb's MHP, barrier and lock analyses over a program with summaries, each as a
   filter that must not remove a real pair.
3. `isInSameSpan` and the pruning rules of `FSMPTA` over abstract stores and loads.
4. The spin and RW mutexes of the run-time libraries.

Worth proving next: `HappensBeforeIsOrder` and `FullJoinIsFull` for programs without shared nodes
that join their own children in the order of their forks, and with them `ForksAreReported`
for such programs; `ForksAreReported` where forks are in recursion; `ProtectedExclude` for programs
whose locks are released in the function that takes them.
