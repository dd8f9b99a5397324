------------------------------ MODULE Execution ------------------------------
(***************************************************************************)
(* Runs of the analysed program, against which the results of the analyses *)
(* are held.  This is what lib/MTA assumes of pthreads: a fork writes the  *)
(* new thread's handle, a join waits for the thread its handle names.  A   *)
(* thread keeps, next to its stack, the context the analyses would give    *)
(* each frame, so that a run can be compared with them.                    *)
(*                                                                         *)
(* A program that joins a handle nobody wrote, or one joined before, or    *)
(* unlocks a mutex it does not own, is undefined; its run ends there.      *)
(***************************************************************************)
EXTENDS PairAnalysis, PCG

CONSTANTS MaxThreads,   \* threads of a run
          MaxDepth,     \* frames of a stack
          MaxTrip       \* iterations of a loop without a constant trip count

ASSUME BoundsAssumption == {MaxThreads, MaxDepth, MaxTrip} \subseteq Nat \ {0}

VARIABLES
    threads,   \* the run-time threads, in the order they were forked
    handles,   \* pthread_t variables: <<owner, var, index>> -> a thread, or 0
    owners     \* mutexes that are locked -> the thread that holds them

runVars == <<threads, handles, owners>>
analysisVars == <<treeVars, fjaVars, mhpVars, lockVars, pairVars, pcg>>
vars == <<progVars, analysisVars, runVars>>

Frame(s, cxt) ==
    [at |-> s, cxt |-> cxt,
     rounds |-> [h \in {l \in Sites({"loop"}) : FunOf(l) = FunOf(s)} |-> 0]]

NewThread(s, cxt, fork, parent) ==
    [stack |-> <<Frame(s, cxt)>>, cxt |-> cxt, fork |-> fork, parent |-> parent]

Running == {i \in DOMAIN threads : threads[i].stack # <<>>}
Top(i) == Last(threads[i].stack)
Node(i) == getTCTNode(threads[i].cxt, threads[i].fork)

\* The pthread_t a fork or join of the top frame of i is about.
Cell(i) ==
    LET ptr == Stmt(Top(i).at).ptr
        round == Top(i).rounds[getLoop(Top(i).at)]
    IN  <<IF ptr.local THEN i ELSE 0, ptr.var,
          IF ptr.kind = "strided" THEN ptr.index + ptr.step * (round - 1)
          ELSE ptr.index>>
HandleAt(c) == IF c \in DOMAIN handles THEN handles[c] ELSE 0

Executing(i, kinds) ==
    /\ stage = "run"
    /\ i \in Running
    /\ Op(Top(i).at) \in kinds
    /\ UNCHANGED <<progVars, analysisVars>>

After(s) == <<FunOf(s), s[2] + 1>>

\* Thread i goes on at s.
GoTo(i, s) ==
    [threads EXCEPT ![i].stack = Append(Front(@), [Last(@) EXCEPT !.at = s])]

ExecAccess(i) ==
    /\ Executing(i, {"access"})
    /\ threads' = GoTo(i, After(Top(i).at))
    /\ UNCHANGED <<handles, owners>>

ExecJump(i) ==
    /\ Executing(i, {"branch", "goto"})
    /\ \E s \in Succs(Top(i).at) : threads' = GoTo(i, s)
    /\ UNCHANGED <<handles, owners>>

\* A loop is left after trip rounds, or after any number up to MaxTrip.
ExecLoop(i) ==
    LET h == Top(i).at
        n == Top(i).rounds[h]
        trip == Stmt(h).trip
        Set(s, m) == [threads EXCEPT ![i].stack =
                        Append(Front(@), [Last(@) EXCEPT !.at = s, !.rounds[h] = m])]
    IN  /\ Executing(i, {"loop"})
        /\ \/ n < (IF trip = 0 THEN MaxTrip ELSE trip) /\ threads' = Set(After(h), n + 1)
           \/ trip \in {0, n} /\ threads' = Set(<<FunOf(h), Stmt(h).target>>, 0)
        /\ UNCHANGED <<handles, owners>>

ExecCall(i) ==
    /\ Executing(i, {"call"})
    /\ Len(threads[i].stack) < MaxDepth
    /\ LET s == Top(i).at
       IN  threads' = [threads EXCEPT ![i].stack =
                        Append(@, Frame(Entry(Callee(s)), pushCxt(Top(i).cxt, s)))]
    /\ UNCHANGED <<handles, owners>>

ExecRet(i) ==
    /\ Executing(i, {"ret"})
    /\ LET stack == Front(threads[i].stack)
       IN  threads' = [threads EXCEPT ![i].stack =
                        IF stack = <<>> THEN <<>>
                        ELSE Append(Front(stack), [Last(stack) EXCEPT !.at = After(@)])]
    /\ UNCHANGED <<handles, owners>>

ExecFork(i) ==
    LET s == Top(i).at
        cxt == pushCxt(Top(i).cxt, s)
    IN  /\ Executing(i, {"fork"})
        /\ Len(threads) < MaxThreads
        /\ threads' = Append(GoTo(i, After(s)), NewThread(Entry(Callee(s)), cxt, s, i))
        /\ handles' = Put(handles, {Cell(i)}, Len(threads) + 1)
        /\ UNCHANGED owners

ExecJoin(i) ==
    /\ Executing(i, {"join"})
    /\ HandleAt(Cell(i)) \in DOMAIN threads \ Running
    /\ threads' = GoTo(i, After(Top(i).at))
    /\ handles' = [handles EXCEPT ![Cell(i)] = 0]
    /\ UNCHANGED owners

\* A lock waits until the mutex is free.
ExecLock(i) ==
    LET mutex == Stmt(Top(i).at).mutex
    IN  /\ Executing(i, {"lock"})
        /\ mutex \notin DOMAIN owners
        /\ owners' = Put(owners, {mutex}, i)
        /\ threads' = GoTo(i, After(Top(i).at))
        /\ UNCHANGED handles

ExecUnlock(i) ==
    LET mutex == Stmt(Top(i).at).mutex
    IN  /\ Executing(i, {"unlock"})
        /\ mutex \in DOMAIN owners /\ owners[mutex] = i
        /\ owners' = [x \in DOMAIN owners \ {mutex} |-> owners[x]]
        /\ threads' = GoTo(i, After(Top(i).at))
        /\ UNCHANGED handles

-----------------------------------------------------------------------------

Init ==
    /\ prog \in DOMAIN Programs
    /\ code = Programs[prog].code
    /\ callPaths = Paths
    /\ stage = "tct"
    /\ TreeInit /\ ForkJoinInit /\ MHPInit /\ LockInit /\ PairInit /\ PCGInit
    /\ threads = <<>> /\ handles = <<>> /\ owners = <<>>

\* The analyses are over; the program may be run.
Run ==
    /\ stage = "done"
    /\ stage' = "run"
    /\ threads' = <<NewThread(Entry(nodes[1].routine), <<>>, NoSite, 0)>>
    /\ UNCHANGED <<prog, code, callPaths, analysisVars, handles, owners>>

Analysis ==
    \/ TreeStep /\ UNCHANGED <<fjaVars, mhpVars, lockVars, pairVars, pcg, runVars>>
    \/ ForkJoinStep /\ UNCHANGED <<mhpVars, lockVars, pairVars, pcg, runVars>>
    \/ MHPStep /\ UNCHANGED <<lockVars, pairVars, pcg, runVars>>
    \/ LockStep /\ UNCHANGED <<pairVars, pcg, runVars>>
    \/ PairStep /\ UNCHANGED <<pcg, runVars>>
    \/ InferFromCallGraph
       /\ UNCHANGED <<treeVars, fjaVars, mhpVars, lockVars, pairVars, runVars>>

Execute ==
    \E i \in DOMAIN threads :
        \/ ExecAccess(i) \/ ExecJump(i) \/ ExecLoop(i) \/ ExecCall(i)
        \/ ExecRet(i) \/ ExecFork(i) \/ ExecJoin(i) \/ ExecLock(i) \/ ExecUnlock(i)

Next == Analysis \/ Run \/ Execute

\* MTA::runOnModule is one thread that runs to its end.
Spec == Init /\ [][Next]_vars /\ WF_vars(Analysis)

-----------------------------------------------------------------------------
(* Properties.                                                             *)

\* The variables have their types; ids name nodes of the tree and threads of the
\* run, and contexts are strings of call sites.
TypeOK ==
    LET Cxts == Seq(Sites({"call", "fork"}))
        CTPs == [tid : Tids, cxt : Cxts, fun : Funs]
    IN  /\ prog \in DOMAIN Programs
        /\ stage \in {"tct", "fja", "mhp", "lock", "cxtlocks", "lockspans", "pairs", "pairing",
                     "pcg", "done", "run"}
        /\ candidateFuncSet \subseteq Funs
        /\ joinSiteToLoopMap \in [Sites({"join"}) -> Sites({"loop"}) \cup {NoSite}]
        /\ inRecurJoinSites \subseteq Sites({"join"})
        /\ nodes \in Seq([cxt : Cxts, fork : Sites({"fork"}) \cup {NoSite}, forkCxt : Cxts,
                         routine : Funs, inloop : BOOLEAN, incycle : BOOLEAN])
        /\ edges \subseteq Tids \X Tids
        /\ visitedCTPs \subseteq CTPs /\ ToSet(ctpList) \subseteq visitedCTPs
        /\ cur \in CTPs \cup {Idle} /\ pending \subseteq Sites({"call", "fork"})
        /\ multiforked \subseteq Tids
        /\ root \in Tids \cup {0} /\ mhpRoot \in Tids \cup {0}
        /\ DOMAIN flags \subseteq Cxts \X Stmts
        /\ \A cs \in DOMAIN flags : flags[cs] \in {"alive", "dead"}
        /\ ToSet(cxtStmtList) \subseteq DOMAIN flags
        /\ directJoin \subseteq (Cxts \X Sites({"join"})) \X Tids
        /\ symmetricJoin \subseteq Cxts \X Sites({"join"})
        /\ HBPair \cup HPPair \cup fullJoin \cup partialJoin \subseteq Tids \X Tids
        /\ DOMAIN interleaving \subseteq Tids \X Cxts \X Stmts
        /\ \A cts \in DOMAIN interleaving : interleaving[cts] \subseteq Tids
        /\ ToSet(ctsList) \subseteq DOMAIN interleaving
        /\ lockcandidateFuncSet \subseteq Funs
        /\ instCILocksMap \cup instTocondCILocksMap \subseteq Stmts \X Sites({"lock"})
        /\ cxtLockset \subseteq Cxts \X Sites({"lock"})
        /\ visitedCLPs \subseteq Cxts \X Funs /\ ToSet(clpList) \subseteq visitedCLPs
        /\ ToSet(lockStmtList) \cup DOMAIN cxtStmtToCxtLockSet \subseteq Cxts \X Stmts
        /\ \A cs \in DOMAIN cxtStmtToCxtLockSet : cxtStmtToCxtLockSet[cs] \subseteq cxtLockset
        /\ it \in Sites({"access"}) \cup {NoSite} /\ ahead \subseteq Sites({"access"})
        /\ pairs \subseteq Sites({"access"}) \X Sites({"access"})
        /\ pcg.spawners \cup pcg.spawnees \cup pcg.followers \subseteq Funs
        /\ \A i \in DOMAIN threads :
            /\ threads[i].parent \in 0..(i - 1)
            /\ \A d \in DOMAIN threads[i].stack : threads[i].stack[d].at \in Stmts
        /\ \A c \in DOMAIN handles : handles[c] \in {0} \cup DOMAIN threads
        /\ \A mutex \in DOMAIN owners : owners[mutex] \in DOMAIN threads

\* The statements the analyses are about to go to, without their threads.
Reached == ToSet(cxtStmtList) \cup {<<cts[2], cts[3]>> : cts \in ToSet(ctsList)}

\* Every fork the analyses come to, and every fork a run executes, has a node in
\* the thread creation tree, found by the context and the fork site: getTCTNode
\* (TCT.h:189) asserts as much.
EveryForkHasANode ==
    /\ \A cs \in Reached :
        Op(cs[2]) = "fork" => NodesOf(pushCxt(cs[1], cs[2]), cs[2]) # {}
    /\ \A i \in DOMAIN threads : NodesOf(threads[i].cxt, threads[i].fork) # {}

\* A node that stands for several threads of a run is marked so: nothing
\* compares a node that is not marked with itself (MHP.cpp:521).
SharedNodesAreMarked ==
    \A i, j \in DOMAIN threads :
        i # j /\ Node(i) = Node(j) => isMultiForkedThread(Node(i))

\* "t1 fully joins t2 along all program path" (MHP.h:470): when a thread has
\* ended, so have the threads it forked whose node it fully joins.
FullJoinIsFull ==
    \A i \in Running :
        LET p == threads[i].parent
        IN  p # 0 /\ isFullJoin(Node(p), Node(i)) => p \in Running

\* A thread that happens before its sibling does not run with it.
HappensBeforeIsOrder ==
    \A i, j \in Running :
        i # j /\ threads[i].parent = threads[j].parent => ~isHBPair(Node(i), Node(j))

AtAccess(i) == Op(Top(i).at) = "access"

\* The statements two threads are about to execute are reported as parallel
\* (MHP.cpp:490-498).
ParallelIsReported ==
    \A i, j \in Running :
        i # j /\ AtAccess(i) /\ AtAccess(j)
            => mayHappenInParallelInst(Top(i).at, Top(j).at)

\* Two statements that are "protected by at least one common lock under every
\* context" (LockAnalysis.cpp:475) are not about to be executed at the same time.
\* A statement is not asked about itself: CxtStmts are not compared with
\* themselves.
ProtectedExclude ==
    \A i, j \in Running :
        LET s1 == Top(i).at
            s2 == Top(j).at
        IN  AtAccess(i) /\ AtAccess(j) /\ s1 # s2 => ~isProtectedByCommonLock(s1, s2)

\* "pair up all instructions (NC2) pairs and add to pair vector if they contain
\* data race" (MTA.cpp:282): two different accesses of an object that are about to
\* happen at the same time are a pair.
RacesAreReported ==
    \A i, j \in Running :
        LET s1 == Top(i).at
            s2 == Top(j).at
        IN  AtAccess(i) /\ AtAccess(j) /\ s1 # s2 /\ isShared(s1) /\ alias(s1, s2)
                => {<<s1, s2>>, <<s2, s1>>} \cap pairs # {}

\* The procedure creation graph is coarser than the runs: functions two threads
\* are in may happen in parallel.
ParallelFunsCovered ==
    \A i, j \in Running :
        i # j => mayHappenInParallelBetweenFunctions(FunOf(Top(i).at), FunOf(Top(j).at))

\* mayHappenInParallelCache answers for a pair of functions that neither fork
\* nor join what it answered for the first pair of their statements
\* (MHP.cpp:532-545): any other pair would have got the same answer.
CacheIsExact ==
    stage = "done" =>
        \A f, g \in Funs \ candidateFuncSet :
            LET answers ==
                {mayHappenInParallelInst(s1, s2) :
                    s1 \in {s \in Stmts : FunOf(s) = f},
                    s2 \in {s \in Stmts : FunOf(s) = g}}
            IN  Cardinality(answers) = 1

\* What the comments of tests/mta say of the programs the instance takes from
\* them (INTERLEV_ACCESS): the threads, named by their fork sites, a thread may
\* run in parallel with at a statement; and what tests/rc says of pairs of
\* accesses (RC_PROTECTED, RC_RACE).
OraclesHold ==
    stage = "done" =>
        /\ \A o \in Programs[prog].oracle :
            LET t == getTCTNode(o.thread.cxt, o.thread.fork)
            IN  {nodes[u].fork : u \in getInterleavingThreads(<<t, o.cxt, o.at>>)} = o.with
        /\ \A o \in Programs[prog].locks :
            isProtectedByCommonLock(o.pair[1], o.pair[2]) = o.protected

\* The worklists run empty, although a join takes away from a set what its
\* predecessors put back.
AnalysisEnds == <>(stage \in {"done", "run"})
=============================================================================
