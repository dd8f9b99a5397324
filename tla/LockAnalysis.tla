----------------------------- MODULE LockAnalysis -----------------------------
(***************************************************************************)
(* Which locks are held at a statement (lib/MTA/LockAnalysis.cpp,          *)
(* include/MTA/LockAnalysis.h).                                            *)
(*                                                                         *)
(* Spans inside one function first; then the context-sensitive lock sites  *)
(* (a CxtLock is <<cxt, lock site>>, a CxtLockProc is <<cxt, function>>);  *)
(* then a CxtStmt <<cxt, stmt>> at a time is taken from a worklist, with   *)
(* the set of CxtLocks held there, which shrinks where paths meet.         *)
(*                                                                         *)
(* Mutexes are told apart by name: isAliasedLocks takes a may-alias for a  *)
(* must-alias ("todo: must alias", LockAnalysis.h:284).                    *)
(***************************************************************************)
EXTENDS MHP

VARIABLES
    lockcandidateFuncSet,
    instCILocksMap,      \* pairs of a statement and a lock site of its function
    instTocondCILocksMap,
    cxtLockset,          \* CxtLocks
    clpList,             \* worklist of CxtLockProcs
    visitedCLPs,         \* visitedCTPs of the class
    lockStmtList,        \* worklist of CxtStmts
    cxtStmtToCxtLockSet  \* its domain, when the worklist is empty, is
                         \* instToCxtStmtSet

lockVars == <<lockcandidateFuncSet, instCILocksMap, instTocondCILocksMap, cxtLockset,
              clpList, visitedCLPs, lockStmtList, cxtStmtToCxtLockSet>>

isAliasedLocks(l1, l2) == Stmt(l1).mutex = Stmt(l2).mutex

-----------------------------------------------------------------------------
(* Spans inside a function.                                                *)

\* The functions that lock or unlock, and all that call or fork them.
LockCandidates ==
    LET sites == {FunOf(s) : s \in Sites({"lock", "unlock"})}
    IN  sites \cup {f \in Funs : \E g \in sites : Reaches(f, g)}

isLockCandidateFun(f) == f \in lockcandidateFuncSet

\* No block comes before the entry block; one that is jumped to is not it.
EntryBlock(f) == IF 1 \in JumpTargets(f) THEN {} ELSE BlockOf(Entry(f))

FrontOfExitBlock(f) ==
    CHOOSE s \in BlockOf(ExitOf(f)) : \A t \in BlockOf(ExitOf(f)) : s[2] <= t[2]

Matches(op, lock, s) == Op(s) = op /\ isAliasedLocks(lock, s)

\* intraForwardTraverse: what is reached from a lock up to its unlocks.
ForwardInsts(lock) ==
    ReachedFrom({lock}, [s \in StmtsOf(FunOf(lock)) |->
                            IF Matches("unlock", lock, s) THEN {} ELSE Succs(s)])

UnlockSet(lock) == {s \in ForwardInsts(lock) : Matches("unlock", lock, s)}
intraForwardTraverse(lock) == FrontOfExitBlock(FunOf(lock)) \notin ForwardInsts(lock)

\* What is reached backwards from the unlocks of a lock up to locks.
BackwardInsts(lock) ==
    ReachedFrom(UnlockSet(lock), [s \in StmtsOf(FunOf(lock)) |->
                                    IF Matches("lock", lock, s) THEN {} ELSE Preds(s)])

\* intraBackwardTraverse: the branch at the end of the entry block is not met.
intraBackwardTraverse(lock) ==
    LET f == FunOf(lock)
    IN  \A s \in BackwardInsts(lock) :
            \/ Matches("lock", lock, s)
            \/ s \in EntryBlock(f)
            \/ s # Entry(f) /\ Preds(s) \cap EntryBlock(f) = {}

\* analyzeIntraProcedualLock: the locks that hold on all paths to their unlocks,
\* or on some.
IntraLocks(conditional) ==
    {l \in Sites({"lock"}) :
        intraForwardTraverse(l) /\ (conditional <=> ~intraBackwardTraverse(l))}

Spans(locks) == UNION {{<<s, l>> : s \in ForwardInsts(l)} : l \in locks}

-----------------------------------------------------------------------------
(* Queries.                                                                *)

IntraLockSet(s) == {p[2] : p \in {q \in instCILocksMap : q[1] = s}}
isInsideCondIntraLock(s) == \E p \in instTocondCILocksMap : p[1] = s
isInsideIntraLock(s) == IntraLockSet(s) # {} \/ isInsideCondIntraLock(s)

isProtectedByCommonCILock(i1, i2) ==
    /\ ~isInsideCondIntraLock(i1) /\ ~isInsideCondIntraLock(i2)
    /\ \E l1 \in IntraLockSet(i1), l2 \in IntraLockSet(i2) : isAliasedLocks(l1, l2)

CxtStmtsOf(s) == {cs \in DOMAIN cxtStmtToCxtLockSet : cs[2] = s}

\* A CxtStmt is not compared with itself.
isProtectedByCommonCxtLock(i1, i2) ==
    /\ CxtStmtsOf(i1) # {} /\ CxtStmtsOf(i2) # {}
    /\ \A cs1 \in CxtStmtsOf(i1), cs2 \in CxtStmtsOf(i2) :
        \/ cs1 = cs2
        \/ \E l1 \in cxtStmtToCxtLockSet[cs1], l2 \in cxtStmtToCxtLockSet[cs2] :
            isAliasedLocks(l1[2], l2[2])

isProtectedByCommonLock(i1, i2) ==
    IF isInsideIntraLock(i1) /\ isInsideIntraLock(i2)
    THEN isProtectedByCommonCILock(i1, i2)
    ELSE isProtectedByCommonCxtLock(i1, i2)

-----------------------------------------------------------------------------
(* Contexts here go through all functions, not only through candidates.    *)

pushLockCxt(cxt, site) ==
    IF inSameCallGraphSCC(FunOf(site), Callee(site)) THEN cxt ELSE Append(cxt, site)

\* The set of contexts to return to, none or one.
matchLockCxt(cxt, site) ==
    CASE cxt = <<>> \/ inSameCallGraphSCC(FunOf(site), Callee(site)) -> {cxt}
      [] OTHER -> IF Last(cxt) = site THEN {Front(cxt)} ELSE {}

\* The entry functions both walks start from.
LockEntryFuns == {f \in LockCandidates : \A e \in CallEdges : e[2] # f}

LockInit ==
    /\ lockcandidateFuncSet = {} /\ instCILocksMap = {} /\ instTocondCILocksMap = {}
    /\ cxtLockset = {} /\ clpList = <<>> /\ visitedCLPs = {}
    /\ lockStmtList = <<>> /\ cxtStmtToCxtLockSet = <<>>

\* buildCandidateFuncSetforLock, analyzeIntraProcedualLock, and the start of
\* collectCxtLock.
AnalyzeIntraLocks ==
    /\ stage = "lock"
    /\ stage' = "cxtlocks"
    /\ lockcandidateFuncSet' = LockCandidates
    /\ instCILocksMap' = Spans(IntraLocks(FALSE))
    /\ instTocondCILocksMap' = Spans(IntraLocks(TRUE))
    /\ visitedCLPs' = {<<(<<>>), f>> : f \in LockEntryFuns}
    /\ clpList' = SomeOrder(visitedCLPs')
    /\ UNCHANGED <<prog, code, callPaths, treeVars, fjaVars, mhpVars, cxtLockset,
                   lockStmtList, cxtStmtToCxtLockSet>>

\* Mutant of CLPsFrom: the routines that are forked are not gone into.
CalleesOnly(clp) ==
    {<<pushLockCxt(clp[1], s), Callee(s)>> :
        s \in {c \in Sites({"call"}) : FunOf(c) = clp[2]}}

CLPsFrom(clp) ==
    {<<pushLockCxt(clp[1], s), Callee(s)>> :
        s \in {c \in Sites({"call", "fork"}) : FunOf(c) = clp[2]}}

\* collectCxtLock takes a CxtLockProc, with handleCallRelation for its call sites;
\* what comes of them does not depend on their order.
CollectCxtLock ==
    /\ stage = "cxtlocks" /\ clpList # <<>>
    /\ LET clp == Head(clpList)
           into == isLockCandidateFun(clp[2])
           locks == {<<clp[1], s>> : s \in {l \in Sites({"lock"}) : FunOf(l) = clp[2]}}
           new == IF into THEN CLPsFrom(clp) \ visitedCLPs ELSE {}
       IN  /\ cxtLockset' = cxtLockset \cup (IF into THEN locks ELSE {})
           /\ visitedCLPs' = visitedCLPs \cup new
           /\ clpList' = Tail(clpList) \o SomeOrder(new)
    /\ UNCHANGED <<progVars, treeVars, fjaVars, mhpVars, lockcandidateFuncSet, instCILocksMap,
                   instTocondCILocksMap, lockStmtList, cxtStmtToCxtLockSet>>

\* analyzeLockSpanCxtStmt begins.
StartLockSpans ==
    /\ stage = "cxtlocks" /\ clpList = <<>>
    /\ stage' = "lockspans"
    /\ lockStmtList' \in Orders({<<(<<>>), Entry(f)>> : f \in LockEntryFuns})
    /\ UNCHANGED <<prog, code, callPaths, treeVars, fjaVars, mhpVars, lockcandidateFuncSet,
                   instCILocksMap, instTocondCILocksMap, cxtLockset, clpList, visitedCLPs,
                   cxtStmtToCxtLockSet>>

-----------------------------------------------------------------------------

\* Mutant of MarkLocks: a second path changes nothing.
MarkFirst(sets, targets, src) ==
    Put(sets, IF src = {} THEN {} ELSE targets \ DOMAIN sets, src)

\* markCxtStmtFlag: a CxtStmt without an entry gets the locks of src, and an
\* entry if there are any; one with an entry keeps those that src has too.
MarkLocks(sets, targets, src) ==
    [cs \in DOMAIN sets \cup (IF src = {} THEN {} ELSE targets) |->
        CASE cs \notin DOMAIN sets -> src
          [] cs \in DOMAIN sets \cap targets -> sets[cs] \cap src
          [] OTHER -> sets[cs]]

\* What is pushed: what had no entry, and what lost a lock.
PushedLocks(sets, targets, src) ==
    {cs \in targets : cs \notin DOMAIN sets \/ ~(sets[cs] \subseteq src)}

\* The first of the worklist is cs, with the locks held there.
LocksAt(cs) ==
    IF cs \in DOMAIN cxtStmtToCxtLockSet THEN cxtStmtToCxtLockSet[cs] ELSE {}

VisitingLocks(cs, kinds) ==
    /\ stage = "lockspans" /\ lockStmtList # <<>>
    /\ cs = Head(lockStmtList) /\ Op(cs[2]) \in kinds
    /\ UNCHANGED <<progVars, treeVars, fjaVars, mhpVars, lockcandidateFuncSet, instCILocksMap,
                   instTocondCILocksMap, cxtLockset, clpList, visitedCLPs>>

\* touchCxtStmt gives cs an entry; then its locks go on to targets.
GoOn(cs, locks, targets) ==
    LET touched == Put(cxtStmtToCxtLockSet, {cs}, locks)
        pushed == PushedLocks(touched, targets, locks)
    IN  /\ cxtStmtToCxtLockSet' = MarkLocks(touched, targets, locks)
        /\ \E order \in Orders(pushed \ ToSet(Tail(lockStmtList))) :
            lockStmtList' = Tail(lockStmtList) \o order

CallTarget(cs) == {<<pushLockCxt(cs[1], cs[2]), Entry(Callee(cs[2]))>>}

\* handleFork: the routine starts with the locks of the fork site.
LockVisitFork(cs) ==
    /\ VisitingLocks(cs, {"fork"})
    /\ GoOn(cs, LocksAt(cs), CallTarget(cs) \cup At(cs[1], Succs(cs[2])))

\* A lock site goes on only when it adds itself.
LockVisitAcquire(cs) ==
    /\ VisitingLocks(cs, {"lock"})
    /\ GoOn(cs, LocksAt(cs) \cup {cs},
            IF cs \in LocksAt(cs) THEN {} ELSE At(cs[1], Succs(cs[2])))

\* An unlock site is never in its own set of locks: nothing follows.
LockVisitRelease(cs) ==
    /\ VisitingLocks(cs, {"unlock"})
    /\ GoOn(cs, LocksAt(cs), {})

LockVisitCall(cs) ==
    /\ VisitingLocks(cs, {"call"})
    /\ GoOn(cs, LocksAt(cs), CallTarget(cs))

LockVisitRet(cs) ==
    /\ VisitingLocks(cs, {"ret"})
    /\ GoOn(cs, LocksAt(cs),
            UNION {UNION {At(c, Succs(site)) : c \in matchLockCxt(cs[1], site)} :
                     site \in {s \in Sites({"call"}) : Callee(s) = FunOf(cs[2])}})

\* handleIntra, for calls of library functions too.
LockVisitIntra(cs) ==
    /\ VisitingLocks(cs, {"access", "join", "branch", "goto", "loop"})
    /\ GoOn(cs, LocksAt(cs), At(cs[1], Succs(cs[2])))

FinishLockSpans ==
    /\ stage = "lockspans" /\ lockStmtList = <<>>
    /\ stage' = "pairs"
    /\ UNCHANGED <<prog, code, callPaths, treeVars, fjaVars, mhpVars, lockVars>>

LockStep ==
    \/ AnalyzeIntraLocks \/ CollectCxtLock \/ StartLockSpans
    \/ \E cs \in ToSet(lockStmtList) :
        \/ LockVisitFork(cs) \/ LockVisitAcquire(cs) \/ LockVisitRelease(cs)
        \/ LockVisitCall(cs) \/ LockVisitRet(cs) \/ LockVisitIntra(cs)
    \/ FinishLockSpans

-----------------------------------------------------------------------------

\* The assertion "context-sensitive lock not found!!" (LockAnalysis.cpp:314): the
\* two walks, over functions and over statements, compute contexts on their own
\* and agree on those a lock site is met under.
LockContextsCollected ==
    \A cs \in ToSet(lockStmtList) : Op(cs[2]) = "lock" => cs \in cxtLockset
=============================================================================
