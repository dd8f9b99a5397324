--------------------------------- MODULE MHP ---------------------------------
(***************************************************************************)
(* The may-happen-in-parallel analysis (class MHP, lib/MTA/MHP.cpp and     *)
(* include/MTA/MHP.h): for each context-sensitive statement of each        *)
(* abstract thread, the threads that may run while it is executed.         *)
(*                                                                         *)
(* A CxtThreadStmt is <<tid, cxt, stmt>>.  One step takes one of them from *)
(* the worklist.                                                           *)
(***************************************************************************)
EXTENDS ForkJoinAnalysis

VARIABLES
    mhpRoot,         \* the thread that is analysed, 0 before the first
    ctsList,         \* the worklist of CxtThreadStmts
    interleaving     \* threadStmtToTheadInterLeav; its domain is instToTSMap

mhpVars == <<mhpRoot, ctsList, interleaving>>

getInterleavingThreads(cts) ==
    IF cts \in DOMAIN interleaving THEN interleaving[cts] ELSE {}

\* addInterleavingThread, for several statements: they get the threads of new.
AddThreads(il, targets, new) ==
    [cts \in DOMAIN il \cup (IF new = {} THEN {} ELSE targets) |->
        (IF cts \in DOMAIN il THEN il[cts] ELSE {}) \cup (IF cts \in targets THEN new ELSE {})]

\* The joining thread must not stand for several threads, nor the join be
\* executed in a recursion.
isMustJoin(curTid, join) == ~isMultiForkedThread(curTid) /\ join \notin inRecurJoinSites

\* rmInterleavingThread, for several statements of one thread.
RemoveThreads(il, targets, tid, joined, join) ==
    [cts \in DOMAIN il |->
        IF isMustJoin(tid, join) /\ cts \in targets THEN il[cts] \ joined ELSE il[cts]]

AtThread(tid, cxt, stmts) == {<<tid, cxt, s>> : s \in stmts}
EntryOf(t) == <<t, nodes[t].cxt, Entry(nodes[t].routine)>>

\* Whether curTid is joined by ancestor: each thread from it up to ancestor is
\* fully joined by its parent.
isRecurFullJoin(ancestor, curTid) ==
    ancestor \in ReachedFrom({curTid}, [t \in Tids |-> {u \in Parents(t) : isFullJoin(u, t)}])

-----------------------------------------------------------------------------
(* Queries.                                                                *)

ThreadStmtSet(s) == {cts \in DOMAIN interleaving : cts[3] = s}

mayHappenInParallelInst(i1, i2) ==
    \E ts1 \in ThreadStmtSet(i1), ts2 \in ThreadStmtSet(i2) :
        IF ts1[1] = ts2[1] THEN isMultiForkedThread(ts1[1])
        ELSE ts2[1] \in interleaving[ts1] /\ ts1[1] \in interleaving[ts2]

-----------------------------------------------------------------------------

MHPInit == mhpRoot = 0 /\ ctsList = <<>> /\ interleaving = <<>>

\* Mutant of Changed: rmInterleavingThread pushes joins without a test for a change.
ChangedOrJoin(old, new) ==
    {cts \in DOMAIN new : cts \notin DOMAIN old \/ new[cts] # old[cts] \/ Op(cts[3]) = "join"}

\* What is pushed: the statements whose set is another one after an addition or
\* a removal.
Changed(old, new) ==
    {cts \in DOMAIN new : cts \notin DOMAIN old \/ new[cts] # old[cts]}

Update(il, left) ==
    \E steps \in {<<interleaving>> \o il} :
        LET pushed == UNION {Changed(steps[n - 1], steps[n]) : n \in 2..Len(steps)}
        IN  /\ interleaving' = Last(steps)
            /\ \E order \in Orders(pushed \ ToSet(left)) : ctsList' = left \o order

\* Mutant of AfterForksOf: the fork site of t only.
AfterForkOf(t) ==
    IF nodes[t].fork = NoSite THEN {}
    ELSE AtThread(getParentThread(t), nodes[t].forkCxt, getNextInsts(nodes[t].fork))

\* updateAncestorThreads: t runs in parallel with what follows its fork site,
\* and the fork sites of its ancestors, in the forking thread.
AfterForksOf(t) ==
    UNION {AtThread(getParentThread(u), nodes[u].forkCxt, getNextInsts(nodes[u].fork)) :
             u \in {v \in {t} \cup getAncestorThread(t) : nodes[v].fork # NoSite}}

\* updateSiblingThreads: t runs in parallel with its siblings and those of its
\* ancestors, except where one ends before the other starts.
SiblingEntriesOf(t) ==
    UNION {{EntryOf(s) : s \in {v \in getSiblingThread(u) :
                ~(isHBPair(u, v) /\ isRecurFullJoin(u, t)) /\ ~isHBPair(v, u)}} :
             u \in {t} \cup getAncestorThread(t)}

\* analyzeInterleaving, the start of a thread.
StartInterleaving ==
    LET t == mhpRoot + 1
        il == AddThreads(interleaving,
                {EntryOf(t)} \cup AfterForksOf(t) \cup SiblingEntriesOf(t), {t})
    IN  /\ stage = "mhp" /\ ctsList = <<>> /\ mhpRoot < Len(nodes)
        /\ mhpRoot' = t
        /\ Update(<<il>>, <<>>)
        /\ UNCHANGED <<progVars, treeVars, fjaVars>>

VisitingThread(cts, candidate, kinds) ==
    /\ stage = "mhp" /\ ctsList # <<>>
    /\ cts = Head(ctsList)
    /\ isCandidateFun(FunOf(cts[3])) = candidate
    /\ Op(cts[3]) \in kinds
    /\ UNCHANGED <<progVars, treeVars, fjaVars, mhpRoot>>

NextOf(cts) == AtThread(cts[1], cts[2], getNextInsts(cts[3]))

\* handleFork: the spawnee starts with what runs in parallel with its spawner.
VisitForkThread(cts) ==
    LET child == getTCTNode(pushCxt(cts[2], cts[3]), cts[3])
        entry == <<child, nodes[child].cxt, Entry(Callee(cts[3]))>>
    IN  /\ VisitingThread(cts, TRUE, {"fork"})
        /\ Update(<<AddThreads(interleaving, {entry} \cup NextOf(cts), interleaving[cts])>>,
                  Tail(ctsList))

\* handleJoin: the joined threads are taken away, at the join or at the exits of
\* its loop.
VisitJoinThread(cts) ==
    LET join == cts[3]
        joined == getDirAndIndJoinedTid(cts[2], join)
        loop == getJoinLoop(join)
        exits == IF loop = NoSite THEN {}
                 ELSE AtThread(cts[1], cts[2], getExitBlocks(loop))
        toExits == AddThreads(interleaving, exits, interleaving[cts])
        where == CASE loop = NoSite -> {cts}
                   [] loop # NoSite /\ isJoinInSymmetricLoop(cts[2], join) -> exits
                   [] OTHER -> {}
        il == RemoveThreads(toExits, where, cts[1], joined, join)
    IN  /\ VisitingThread(cts, TRUE, {"join"})
        /\ Update(<<toExits, il, AddThreads(il, NextOf(cts), il[cts])>>, Tail(ctsList))

\* handleCall, and handleIntra too if the callee is not a candidate.
VisitCallThread(cts) ==
    LET callee == Callee(cts[3])
        entry == <<cts[1], pushCxt(cts[2], cts[3]), Entry(callee)>>
        after == IF isCandidateFun(callee) THEN {} ELSE NextOf(cts)
    IN  /\ VisitingThread(cts, TRUE, {"call"})
        /\ Update(<<AddThreads(interleaving, {entry} \cup after, interleaving[cts])>>,
                  Tail(ctsList))

\* handleRet
VisitRetThread(cts) ==
    /\ VisitingThread(cts, TRUE, {"ret"})
    /\ Update(<<AddThreads(interleaving,
                 {<<cts[1], cs[1], cs[2]>> : cs \in ReturnTargets(cts[2], FunOf(cts[3]))},
                 interleaving[cts])>>, Tail(ctsList))

\* handleIntra
VisitIntraThread(cts) ==
    /\ VisitingThread(cts, TRUE, {"access", "lock", "unlock", "branch", "goto", "loop"})
    /\ Update(<<AddThreads(interleaving, NextOf(cts), interleaving[cts])>>, Tail(ctsList))

\* handleNonCandidateFun: from the entry of a function that neither forks nor
\* joins to the entries of its callees.
VisitNonCandidate(cts) ==
    LET callees == {Callee(s) : s \in {c \in Sites({"call"}) :
                                          FunOf(c) = FunOf(cts[3])}}
    IN  /\ VisitingThread(cts, FALSE, {Op(cts[3])})
        /\ Update(<<AddThreads(interleaving,
                     AtThread(cts[1], cts[2], {Entry(f) : f \in callees}),
                     interleaving[cts])>>, Tail(ctsList))

\* Mutant of NonCandidateStmts: the loop ends where it should skip the entry.
NoStmts == {}

\* The statements of a function that is no candidate, as its entry was met.
NonCandidateStmts ==
    UNION {AtThread(cts[1], cts[2], {s \in Stmts : Entry(FunOf(s)) = cts[3]}) :
             cts \in {c \in DOMAIN interleaving : ~isCandidateFun(FunOf(c[3]))}}

\* updateNonCandidateFunInterleaving: they get what the entry has, too.
UpdateNonCandidateFuns ==
    /\ stage = "mhp" /\ ctsList = <<>> /\ mhpRoot = Len(nodes)
    /\ interleaving' =
        [cts \in NonCandidateStmts \cup DOMAIN interleaving |->
            getInterleavingThreads(cts)
            \cup (IF cts \in NonCandidateStmts
                  THEN interleaving[<<cts[1], cts[2], Entry(FunOf(cts[3]))>>] ELSE {})]
    /\ stage' = "lock"
    /\ mhpRoot' = 0
    /\ UNCHANGED <<prog, code, callPaths, treeVars, fjaVars, ctsList>>

MHPStep ==
    \/ StartInterleaving
    \/ \E cts \in ToSet(ctsList) :
        \/ VisitForkThread(cts) \/ VisitJoinThread(cts) \/ VisitCallThread(cts)
        \/ VisitRetThread(cts) \/ VisitIntraThread(cts) \/ VisitNonCandidate(cts)
    \/ UpdateNonCandidateFuns
=============================================================================
