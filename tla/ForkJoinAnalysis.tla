--------------------------- MODULE ForkJoinAnalysis ---------------------------
(***************************************************************************)
(* Which join joins which thread, and which threads never run at the same  *)
(* time (class ForkJoinAnalysis, lib/MTA/MHP.cpp and include/MTA/MHP.h).   *)
(*                                                                         *)
(* For every thread but the main one, a flag - alive or dead - is carried  *)
(* forward from its fork site through the context-sensitive statements of  *)
(* its parent.  One step takes one statement from the worklist.  The order *)
(* in which a handler pushes several statements is the order of            *)
(* successors, or of pointers in a set of call sites: any order here.      *)
(***************************************************************************)
EXTENDS TCT

VARIABLES
    root,          \* the thread whose fate is followed, 0 before the first
    flags,         \* cxtStmtToAliveFlagMap: <<cxt, stmt>> -> "alive" or "dead"
    cxtStmtList,   \* the worklist
    directJoin,    \* directJoinMap, as pairs of a <<cxt, stmt>> and a node id
    symmetricJoin, \* cxtJoinInLoop: the <<cxt, stmt>> of its joins
    HBPair, HPPair, fullJoin, partialJoin   \* pairs of node ids

relationVars == <<directJoin, symmetricJoin, HBPair, HPPair, fullJoin, partialJoin>>
fjaVars == <<root, flags, cxtStmtList, relationVars>>

\* Mutants of isHBPair and isFullJoin: what was seen on another path is ignored.
isHBPairOnAPath(t, u) == <<t, u>> \in HBPair
isJoinOnAPath(t, u) == <<t, u>> \in fullJoin

isHBPair(t, u) == <<t, u>> \in HBPair /\ <<t, u>> \notin HPPair
isFullJoin(t, u) == <<t, u>> \in fullJoin /\ <<t, u>> \notin partialJoin

getDirectlyJoinedTid(cxt, join) == {j[2] : j \in {d \in directJoin : d[1] = <<cxt, join>>}}

\* The threads a join joins: those it joins directly, and all that these join
\* fully themselves.
getDirAndIndJoinedTid(cxt, join) ==
    ReachedFrom(getDirectlyJoinedTid(cxt, join),
                [t \in Tids |-> {u \in Children(t) : isFullJoin(t, u)}])

isJoinInSymmetricLoop(cxt, join) == <<cxt, join>> \in symmetricJoin

-----------------------------------------------------------------------------
(* Aliasing of the thread handles of a fork and a join.                    *)

InLoop(s) == Stmt(s).ptr.kind = "strided"
TripCount(s) == Stmt(getLoop(s)).trip

\* The pointers are array elements: both, one, or none.  A trip count that is
\* not a constant is 0.
isSameSCEV(fork, join) ==
    LET f == Stmt(fork).ptr
        j == Stmt(join).ptr
    IN  \/ /\ InLoop(fork) /\ InLoop(join)
           /\ f.index = j.index /\ f.step = j.step
           /\ TripCount(fork) <= TripCount(join)
        \/ f.kind = "element" /\ j.kind = "element" /\ f.index = j.index
        \/ f.kind = "scalar" /\ j.kind = "scalar"

isAliasedForkJoin(fork, join) ==
    Stmt(fork).ptr.var = Stmt(join).ptr.var /\ isSameSCEV(fork, join)

-----------------------------------------------------------------------------
(* Marking.                                                                *)

Flag(fl, cs) == IF cs \in DOMAIN fl THEN fl[cs] ELSE "empty"

\* markCxtStmtFlag(tgr, flag): the flag of each target is overwritten.
Overwrite(fl, targets, flag) == Put(fl, targets, flag)

\* markCxtStmtFlag(tgr, src): alive wins over dead.
Propagate(fl, targets, flag) ==
    Put(fl, {cs \in targets : Flag(fl, cs) = "empty" \/ flag = "alive"}, flag)

\* The sequences of the elements of a set, and one of them.
Orders(S) == SetToSeqs(S)
SomeOrder(S) == SetToSeq(S)

At(cxt, stmts) == {<<cxt, s>> : s \in stmts}

\* What is pushed: the statements whose flag is another one after a marking.
Pushed(fl) ==
    UNION {{cs \in DOMAIN fl[n] : Flag(fl[n - 1], cs) # fl[n][cs]} : n \in 2..Len(fl)}

\* The flags become the last of fl by way of the others, and the list is what is
\* left of it and the statements to push that are not on it, in some order.
Mark(fl, left) ==
    \E steps \in {<<flags>> \o fl} :
        /\ flags' = Last(steps)
        /\ \E order \in Orders(Pushed(steps) \ ToSet(left)) : cxtStmtList' = left \o order

IntraTargets(cs) == At(cs[1], getNextInsts(cs[2]))

-----------------------------------------------------------------------------

ForkJoinInit ==
    /\ root = 0 /\ flags = <<>> /\ cxtStmtList = <<>>
    /\ directJoin = {} /\ symmetricJoin = {}
    /\ HBPair = {} /\ HPPair = {} /\ fullJoin = {} /\ partialJoin = {}

\* The next thread: clearFlagMap, and the statements after its fork site, where
\* it is alive.  The main thread has no fork site.
StartThread ==
    /\ stage = "fja" /\ cxtStmtList = <<>> /\ root < Len(nodes)
    /\ root' = root + 1
    /\ LET n == nodes[root']
           first == IF n.fork = NoSite THEN {}
                    ELSE At(n.forkCxt, getNextInsts(n.fork))
       IN  /\ flags' = [cs \in first |-> "alive"]
           /\ cxtStmtList' \in Orders(first)
    /\ UNCHANGED <<progVars, treeVars, relationVars>>

Visiting(cs, kinds) ==
    /\ stage = "fja" /\ cxtStmtList # <<>>
    /\ cs = Head(cxtStmtList) /\ Op(cs[2]) \in kinds
    /\ UNCHANGED <<progVars, treeVars, root>>

\* handleFork: a thread that is forked while root is dead starts after root's
\* end.
VisitFork(cs) ==
    LET child == getTCTNode(pushCxt(cs[1], cs[2]), cs[2])
        alive == flags[cs] = "alive"
    IN  /\ Visiting(cs, {"fork"})
        /\ HBPair' = IF alive THEN HBPair ELSE HBPair \cup {<<root, child>>}
        /\ HPPair' = IF alive THEN HPPair \cup {<<root, child>>, <<child, root>>}
                     ELSE HPPair
        /\ Mark(<<Propagate(flags, IntraTargets(cs), flags[cs])>>, Tail(cxtStmtList))
        /\ UNCHANGED <<directJoin, symmetricJoin, fullJoin, partialJoin>>

\* handleJoin.  The join of a loop acts at the exits of the loop, another join at
\* the join itself; a loop whose join is not root's is left as root was found.
VisitJoin(cs) ==
    LET loop == getJoinLoop(cs[2])
        exits == IF loop = NoSite THEN {} ELSE At(cs[1], getExitBlocks(loop))
        joins == isAliasedForkJoin(nodes[root].fork, cs[2])
        marked == CASE joins /\ loop = NoSite -> Overwrite(flags, {cs}, "dead")
                    [] joins /\ loop # NoSite -> Overwrite(flags, exits, "dead")
                    [] OTHER -> Propagate(flags, exits, flags[cs])
    IN  /\ Visiting(cs, {"join"})
        /\ directJoin' = IF joins THEN directJoin \cup {<<cs, root>>} ELSE directJoin
        /\ symmetricJoin' = IF joins /\ loop # NoSite THEN symmetricJoin \cup {cs}
                            ELSE symmetricJoin
        /\ Mark(<<marked, Propagate(marked, IntraTargets(cs), marked[cs])>>, Tail(cxtStmtList))
        /\ UNCHANGED <<HBPair, HPPair, fullJoin, partialJoin>>

\* handleCall, for candidate functions; handleIntra for all that is left.
VisitCall(cs) ==
    LET into == Op(cs[2]) = "call" /\ isCandidateFun(Callee(cs[2]))
        targets == IF into THEN {<<pushCxt(cs[1], cs[2]), Entry(Callee(cs[2]))>>}
                   ELSE IntraTargets(cs)
    IN  /\ Visiting(cs, {"access", "lock", "unlock", "call", "branch", "goto", "loop"})
        /\ Mark(<<Propagate(flags, targets, flags[cs])>>, Tail(cxtStmtList))
        /\ UNCHANGED relationVars

\* The statements a return goes to.
ReturnTargets(cxt, fun) ==
    UNION {UNION {At(c, getNextInsts(site)) : c \in matchCxt(cxt, site)} :
             site \in {s \in Sites({"call"}) : Callee(s) = fun}}

\* handleRet, and what is recorded at the exit of the parent's start routine.
VisitRet(cs) ==
    LET fl == Propagate(flags, ReturnTargets(cs[1], FunOf(cs[2])), flags[cs])
        parent == getParentThread(root)
        exit == cs[2] = ExitOf(nodes[parent].routine)
    IN  /\ Visiting(cs, {"ret"})
        /\ Mark(<<fl>>, Tail(cxtStmtList))
        /\ fullJoin' = IF exit /\ fl[cs] # "alive"
                       THEN fullJoin \cup {<<parent, root>>} ELSE fullJoin
        /\ partialJoin' = IF exit /\ fl[cs] = "alive"
                          THEN partialJoin \cup {<<parent, root>>} ELSE partialJoin
        /\ UNCHANGED <<directJoin, symmetricJoin, HBPair, HPPair>>

FinishForkJoin ==
    /\ stage = "fja" /\ cxtStmtList = <<>> /\ root = Len(nodes)
    /\ stage' = "mhp"
    /\ root' = 0
    /\ flags' = <<>>
    /\ UNCHANGED <<prog, code, callPaths, treeVars, cxtStmtList, relationVars>>

ForkJoinStep ==
    \/ StartThread
    \/ \E cs \in ToSet(cxtStmtList) :
        VisitFork(cs) \/ VisitJoin(cs) \/ VisitCall(cs) \/ VisitRet(cs)
    \/ FinishForkJoin
=============================================================================
