--------------------------------- MODULE TCT ---------------------------------
(***************************************************************************)
(* The thread creation tree (lib/MTA/TCT.cpp, include/MTA/TCT.h): the      *)
(* abstract threads of a program, one for each pair of a fork site and the *)
(* string of call sites that leads to it.                                  *)
(*                                                                         *)
(* Node ids count from 1 here, from 0 in the code; node 1 is the main      *)
(* thread.  A call site has one callee (no function pointers).             *)
(***************************************************************************)
EXTENDS ThreadProgram, SequencesExt

VARIABLES
    candidateFuncSet,    \* functions the analyses go into
    joinSiteToLoopMap,   \* join -> the loop it is executed in every round of
    inRecurJoinSites,
    nodes,         \* node id -> its CxtThread and what is recorded for it
    edges,         \* pairs of a spawner and a spawnee, node ids
    ctpList,       \* worklist of CxtThreadProcs
    visitedCTPs,
    cur,           \* the CxtThreadProc taken from ctpList last
    pending,       \* its call sites that handleCallRelation has not seen yet
    multiforked    \* nodes that stand for more than one thread

siteVars == <<candidateFuncSet, joinSiteToLoopMap, inRecurJoinSites>>
treeVars == <<siteVars, nodes, edges, ctpList, visitedCTPs, cur, pending, multiforked>>

Tids == DOMAIN nodes
None == "none"
Idle == [tid |-> 0, cxt |-> <<>>, fun |-> None]

-----------------------------------------------------------------------------
(* What build computes first.                                              *)

\* markRelProcs: the functions a fork or a join is reachable from, and the
\* routines that are forked.
Candidates ==
    LET relevant == {FunOf(s) : s \in Sites({"fork", "join"})}
    IN  relevant
        \cup {f \in Funs : \E g \in relevant : Reaches(f, g)}
        \cup {Callee(s) : s \in Sites({"fork"})}

isCandidateFun(f) == f \in candidateFuncSet

\* collectEntryFunInCallGraph, those of them that build starts from.
EntryFuns == {f \in Candidates : \A e \in CallEdges : e[2] # f}

\* isJoinMustExecutedInLoop: the join post-dominates what follows the header.
isJoinMustExecutedInLoop(h, join) ==
    \A s \in Succs(h) \cap LoopBody(h) : PostDominates(join, s)

\* collectLoopInfoForJoin; NoSite for a join without such a loop.
JoinLoops ==
    [j \in Sites({"join"}) |->
        LET h == getLoop(j)
        IN  IF h # NoSite /\ isJoinMustExecutedInLoop(h, j) THEN h ELSE NoSite]

getJoinLoop(j) == joinSiteToLoopMap[j]
isLoopHeaderOfJoinLoop(s) ==
    \E j \in DOMAIN joinSiteToLoopMap : joinSiteToLoopMap[j] = s

\* The sites a site is executed through: itself, and the calls and forks of
\* its function, of their functions, and so on.
SitesAbove(s) ==
    {s} \cup {c \in Sites({"call", "fork"}) :
                Callee(c) = FunOf(s) \/ Reaches(Callee(c), FunOf(s))}

\* Mutant of isInLoopInstruction: the calls that lead to the site are not asked.
isInLoopItself(s) == getLoop(s) # NoSite

isInLoopInstruction(s) == \E c \in SitesAbove(s) : getLoop(c) # NoSite
isInRecursion(s) == \E c \in SitesAbove(s) : isInCycle(FunOf(c))

-----------------------------------------------------------------------------
(* Helpers the later analyses share.                                       *)

\* At the header of the loop of a join control goes into the loop only.
getNextInsts(s) ==
    IF isLoopHeaderOfJoinLoop(s)
    THEN Succs(s) \cap LoopBody(s)
    ELSE Succs(s)

pushCxt(cxt, site) ==
    IF isCandidateFun(FunOf(site)) /\ ~inSameCallGraphSCC(FunOf(site), Callee(site))
    THEN Append(cxt, site) ELSE cxt

\* matchCxt: the set of contexts to return to through a call site, none or one.
matchCxt(cxt, site) ==
    CASE ~isCandidateFun(FunOf(site)) \/ cxt = <<>> -> {cxt}
      [] inSameCallGraphSCC(FunOf(site), Callee(site)) -> {cxt}
      [] OTHER -> IF Last(cxt) = site THEN {Front(cxt)} ELSE {}

NodesOf(cxt, fork) == {t \in Tids : nodes[t].cxt = cxt /\ nodes[t].fork = fork}
getTCTNode(cxt, fork) == CHOOSE t \in Tids : t \in NodesOf(cxt, fork)

Parents(t) == {e[1] : e \in {d \in edges : d[2] = t}}
Children(t) == {e[2] : e \in {d \in edges : d[1] = t}}

hasParentThread(t) == Cardinality(Parents(t)) = 1
getParentThread(t) == CHOOSE u \in Tids : u \in Parents(t)

getAncestorThread(t) == ReachedFrom(Parents(t), [u \in Tids |-> Parents(u)])

getSiblingThread(t) ==
    IF hasParentThread(t) THEN Children(getParentThread(t)) \ {t} ELSE {}

isMultiForkedThread(t) == t \in multiforked

-----------------------------------------------------------------------------

NewNode(cxt, fork, oldCxt, routine) ==
    [cxt |-> cxt, fork |-> fork, forkCxt |-> oldCxt, routine |-> routine,
     inloop |-> fork # NoSite /\ isInLoopInstruction(fork),
     incycle |-> fork # NoSite /\ isInRecursion(fork)]

\* The entry functions share one node, of the routine that comes first.
TreeInit ==
    /\ candidateFuncSet = Candidates
    /\ joinSiteToLoopMap = JoinLoops
    /\ inRecurJoinSites = {j \in Sites({"join"}) : isInRecursion(j)}
    /\ \E first \in EntryFuns :
        LET procs == <<first>> \o SetToSeq(EntryFuns \ {first})
        IN  /\ nodes = <<NewNode(<<>>, NoSite, <<>>, first)>>
            /\ ctpList = [i \in DOMAIN procs |->
                            [tid |-> 1, cxt |-> <<>>, fun |-> procs[i]]]
            /\ visitedCTPs = ToSet(ctpList)
            /\ edges = {}
            /\ cur = Idle
            /\ pending = {}
            /\ multiforked = {}

\* build takes a CxtThreadProc; it has no call sites to handle if it is not a
\* candidate.
PopCTP ==
    /\ stage = "tct" /\ pending = {} /\ ctpList # <<>>
    /\ cur' = Head(ctpList)
    /\ ctpList' = Tail(ctpList)
    /\ pending' = {s \in Sites({"call", "fork"}) :
                    FunOf(s) = cur'.fun /\ isCandidateFun(cur'.fun)}
    /\ UNCHANGED <<progVars, siteVars, nodes, edges, visitedCTPs, multiforked>>

\* Mutants of isVisitedCTPs: only the list is asked, or the context is not.
isOnCTPWorkList(ctp) == ctp \in ToSet(ctpList)
isVisitedProc(ctp) == \E v \in visitedCTPs : v.tid = ctp.tid /\ v.fun = ctp.fun

isVisitedCTPs(ctp) == ctp \in visitedCTPs

pushToCTPWorkList(ctp) ==
    /\ visitedCTPs' = visitedCTPs \cup {ctp}
    /\ ctpList' = IF isVisitedCTPs(ctp) THEN ctpList ELSE Append(ctpList, ctp)

\* handleCallRelation, a call.
HandleCallRet(site) ==
    /\ stage = "tct" /\ site \in pending /\ Op(site) = "call"
    /\ pushToCTPWorkList([tid |-> cur.tid, cxt |-> pushCxt(cur.cxt, site),
                          fun |-> Callee(site)])
    /\ pending' = pending \ {site}
    /\ UNCHANGED <<progVars, siteVars, nodes, edges, cur, multiforked>>

\* Mutant of NewTid: the counter is incremented first.
TidAfterIncrement == Len(nodes) + 2

NewTid == Len(nodes) + 1

\* handleCallRelation, a fork: getOrCreateTCTNode, and an edge if the spawnee
\* has not been entered before.
HandleFork(site) ==
    LET cxt == pushCxt(cur.cxt, site)
        known == NodesOf(cxt, site)
        tid == IF known = {} THEN NewTid ELSE CHOOSE t \in Tids : t \in known
        ctp == [tid |-> tid, cxt |-> cxt, fun |-> Callee(site)]
    IN  /\ stage = "tct" /\ site \in pending /\ Op(site) = "fork"
        /\ nodes' = IF known = {}
                    THEN Append(nodes, NewNode(cxt, site, cur.cxt, Callee(site)))
                    ELSE nodes
        /\ pushToCTPWorkList(ctp)
        /\ edges' = IF isVisitedCTPs(ctp) THEN edges
                    ELSE edges \cup {<<cur.tid, tid>>}
        /\ pending' = pending \ {site}
        /\ UNCHANGED <<progVars, siteVars, cur, multiforked>>

\* collectMultiForkedThreads goes down the tree from the main thread.
CollectMultiForkedThreads ==
    /\ stage = "tct" /\ pending = {} /\ ctpList = <<>>
    /\ multiforked' =
        {t \in Tids : \E u \in {t} \cup getAncestorThread(t) :
                        nodes[u].inloop \/ nodes[u].incycle}
    /\ cur' = Idle
    /\ stage' = "fja"
    /\ UNCHANGED <<prog, code, callPaths, siteVars, nodes, edges, ctpList, visitedCTPs, pending>>

TreeStep ==
    \/ PopCTP
    \/ \E site \in pending : HandleCallRet(site) \/ HandleFork(site)
    \/ CollectMultiForkedThreads

-----------------------------------------------------------------------------

\* A node has at most one parent, the assumption getParentThread (TCT.h:216)
\* and everything that walks the tree rests on: a thread that is reached again,
\* through recursion, gets no second edge.
OneParent == \A d, e \in edges : d[2] = e[2] => d = e

=============================================================================
