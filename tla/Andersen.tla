------------------------------ MODULE Andersen ------------------------------
(***************************************************************************)
(* The inclusion-based points-to analysis the thread analyses are built    *)
(* on: AndersenWaveDiff (lib/WPA/Andersen.cpp, AndersenWave.cpp and        *)
(* AndersenWaveDiff.cpp, on the constraint graph of lib/MemoryModel/       *)
(* ConsG.cpp and the solver loop of include/WPA/WPASolver.h).              *)
(*                                                                         *)
(* A node is a pointer variable or an object.  A graph holds the           *)
(* constraints of a program:                                               *)
(*   addr   <<o, p>>   p = &o                                              *)
(*   copy   <<u, v>>   v = u                                               *)
(*   deref  a load  val = *ptr  or a store  *ptr = val                     *)
(*   opaque            constant and non-pointer objects                    *)
(*   calls  an indirect call through fp that may reach the function object *)
(*          fun; links are the copies from actuals to formals and from the *)
(*          returned value to the call                                     *)
(* Field edges (gep) and the collapsing of fields are not modelled: every  *)
(* object is one node.                                                     *)
(*                                                                         *)
(* Constraint solving alternates three activities until nothing is new:    *)
(* cycles of copy edges are merged into one representative; the difference *)
(* between what a node points to and what it has already propagated flows  *)
(* along the copy edges in topological order; and loads and stores of the  *)
(* nodes on the work list add copy edges for the objects they have not yet *)
(* seen.  The work list is a set: the code's FIFO is one of its orders.    *)
(***************************************************************************)

CONSTANTS
    Nodes,      \* the nodes of the constraint graph
    Graphs,     \* the constraint graphs analysed
    Reference(_) \* a solution of a graph

Edges  == Nodes \X Nodes
Derefs == [kind : {"load", "store"}, ptr : Nodes, val : Nodes]
Calls  == [fp : Nodes, fun : Nodes, links : SUBSET Edges]

ConstraintGraphs ==
    [addr : SUBSET Edges, copy : SUBSET Edges, deref : SUBSET Derefs,
     opaque : SUBSET Nodes, calls : SUBSET Calls]

(* The copy edge a dereference stands for when its pointer points to o. *)
CopyFor(d, o) == IF d.kind = "load" THEN <<o, d.val>> ELSE <<d.val, o>>

(* S assigns every node a set of objects that satisfies every constraint.  *)
IsSolution(g, S) ==
    /\ S \in [Nodes -> SUBSET Nodes]
    /\ \A e \in g.addr : e[1] \in S[e[2]]
    /\ \A e \in g.copy : S[e[1]] \subseteq S[e[2]]
    /\ \A d \in g.deref : \A o \in S[d.ptr] \ g.opaque :
          S[CopyFor(d, o)[1]] \subseteq S[CopyFor(d, o)[2]]
    /\ \A c \in g.calls : c.fun \in S[c.fp] =>
          \A l \in c.links : S[l[1]] \subseteq S[l[2]]

ASSUME GraphsAssumption == Graphs \subseteq ConstraintGraphs
ASSUME ReferenceAssumption == \A g \in Graphs : IsSolution(g, Reference(g))

-----------------------------------------------------------------------------
VARIABLES
    graph,      \* the constraints of the program
    stage,      \* where analyze() is: "addr", "detect", "solve", "link", "done"
    copies,     \* the copy edges of the constraint graph, between representatives
    derefs,     \* its load and store edges, between representatives
    rep,        \* nodeToRepMap
    pts,        \* the points-to set of every representative
    propa,      \* what each node has propagated along its copy edges
    cache,      \* the objects each load or store edge has been handled for
    worklist,   \* the nodes whose loads and stores are to be handled
    toVisit,    \* nodeStack: the representatives still to be visited
    todo,       \* the edges postProcessNode() has still to handle
    toLink,     \* cpySrcNodes: the copy edges of newly resolved calls
    connected,  \* the indirect calls already resolved
    reanalyze

vars == <<graph, stage, copies, derefs, rep, pts, propa, cache, worklist,
          toVisit, todo, toLink, connected, reanalyze>>

Reps == {rep[n] : n \in Nodes}

(* A copy edge from a node to itself is never added. *)
NoLoops(E) == {e \in E : e[1] # e[2]}

(* Merged nodes have left the graph: what is left joins representatives,   *)
(* which represent themselves.                                             *)
Canonical ==
    /\ Reps = {n \in Nodes : rep[n] = n}
    /\ copies \subseteq NoLoops(Reps \X Reps)
    /\ \A d \in derefs : d.ptr \in Reps /\ d.val \in Reps
    /\ todo \subseteq derefs
    /\ toLink \subseteq copies
    /\ toVisit \subseteq Reps
    /\ \A n \in Nodes : propa[n] \subseteq pts[n]

TypeOK ==
    /\ graph \in Graphs
    /\ stage \in {"addr", "detect", "solve", "link", "done"}
    /\ copies \subseteq Edges
    /\ derefs \subseteq Derefs
    /\ rep \in [Nodes -> Nodes]
    /\ pts \in [Nodes -> SUBSET Nodes]
    /\ propa \in [Nodes -> SUBSET Nodes]
    /\ cache \subseteq Derefs \X Nodes
    /\ worklist \subseteq Nodes
    /\ toVisit \subseteq Nodes
    /\ todo \subseteq Derefs
    /\ toLink \subseteq Edges
    /\ connected \subseteq Calls
    /\ reanalyze \in BOOLEAN
    /\ Canonical

Init ==
    /\ graph \in Graphs
    /\ stage = "addr"
    /\ copies = NoLoops(graph.copy)
    /\ derefs = graph.deref
    /\ rep = [n \in Nodes |-> n]
    /\ pts = [n \in Nodes |-> {}]
    /\ propa = [n \in Nodes |-> {}]
    /\ cache = {}
    /\ worklist = {}
    /\ toVisit = {}
    /\ todo = {}
    /\ toLink = {}
    /\ connected = {}
    /\ reanalyze = FALSE

-----------------------------------------------------------------------------
(* The first propagation: p = &o puts o into pts(p). *)
ProcessAllAddr ==
    /\ stage = "addr"
    /\ pts' = [n \in Nodes |-> {e[1] : e \in {a \in graph.addr : a[2] = n}}]
    /\ worklist' = {a[2] : a \in graph.addr}
    /\ stage' = "detect"
    /\ UNCHANGED <<graph, copies, derefs, rep, propa, cache, toVisit, todo,
                   toLink, connected, reanalyze>>

(* Two nodes are in one strongly connected component when the same sets    *)
(* closed under E hold them.                                               *)
ClosedSets(E) == {T \in SUBSET Nodes : \A e \in E : e[1] \in T => e[2] \in T}

\* Mutant of Components: reaching is taken for belonging together.
OneWayComponents(E) ==
    LET closed == ClosedSets(E)
    IN  [u \in Nodes |-> {v \in Nodes : \A T \in closed : u \in T => v \in T}]

Components(E) ==
    LET closed == ClosedSets(E)
    IN  [u \in Nodes |-> {v \in Nodes : \A T \in closed : u \in T <=> v \in T}]

(* One node of every component: the node the search enters it by, which    *)
(* depends on the order of the node map.                                   *)
IsRootSet(R, component) ==
    /\ \A n \in Reps : \E r \in R : r \in component[n]
    /\ \A r, s \in R : s \in component[r] => r = s

RootFunction(R, component) ==
    [n \in Nodes |-> CHOOSE r \in R : r \in component[rep[n]]]

MovedEdges(root, E) == {<<root[e[1]], root[e[2]]>> : e \in E}

\* Mutant of MovedDerefs: loads and stores stay where they are.
UnmovedDerefs(root, D) == D

MovedDerefs(root, D) ==
    {[kind |-> d.kind, ptr |-> root[d.ptr], val |-> root[d.val]] : d \in D}

\* Mutant of MergedPropa: without updatePropaPts().
PropaOfRoot(root) == propa

MergedPropa(root) ==
    [n \in Nodes |-> {o \in propa[n] : \A m \in Reps : root[m] = n => o \in propa[m]}]

(* mergeNodeToRep() for every member of every component: edges move to the *)
(* representative, points-to sets are united and propagated sets           *)
(* intersected.  A moved edge is a new edge, with an empty cache.          *)
MergeCycles(root) ==
    /\ rep' = root
    /\ copies' = NoLoops(MovedEdges(root, copies))
    /\ derefs' = MovedDerefs(root, derefs)
    /\ pts' = [n \in Nodes |->
                 pts[n] \cup UNION {pts[m] : m \in {m \in Reps : root[m] = n}}]
    /\ propa' = MergedPropa(root)
    /\ cache' = {c \in cache : /\ root[c[1].ptr] = c[1].ptr
                               /\ root[c[1].val] = c[1].val}

(* analyze() starts an iteration; SCCDetect() finds and merges the cycles  *)
(* and leaves the representatives to be visited in topological order.      *)
DetectCycles ==
    /\ stage = "detect"
    /\ \E component \in {Components(copies)} : \E R \in SUBSET Reps :
          /\ IsRootSet(R, component)
          /\ \E root \in {RootFunction(R, component)} : MergeCycles(root)
          /\ toVisit' = R
    /\ reanalyze' = FALSE
    /\ stage' = "solve"
    /\ UNCHANGED <<graph, worklist, todo, toLink, connected>>

(* processNode(): what a node points to and has not propagated yet flows   *)
(* to its successors; those that learn something get on the work list.     *)
(* The nodes no unvisited node precedes are processed in one step: none is *)
(* a successor of another, so their order makes no difference.             *)
\* Mutant of Ready: the topological order is not restored.
UnorderedReady == toVisit

Ready == {n \in toVisit : \A e \in copies : e[2] = n => e[1] \notin toVisit}

Arriving(n) ==
    UNION {pts[m] \ propa[m] : m \in {m \in Ready : <<m, n>> \in copies}}

Visit ==
    /\ stage = "solve"
    /\ toVisit # {}
    /\ toVisit' = toVisit \ Ready
    /\ propa' = [n \in Nodes |-> IF n \in Ready THEN pts[n] ELSE propa[n]]
    /\ pts' = [n \in Nodes |-> pts[n] \cup Arriving(n)]
    /\ worklist' = worklist \cup {n \in Nodes : ~ Arriving(n) \subseteq pts[n]}
    /\ UNCHANGED <<graph, stage, copies, derefs, rep, cache, todo, toLink,
                   connected, reanalyze>>

(* popFromWorklist() and the loops of postProcessNode(). *)
Pop(w) ==
    /\ stage = "solve"
    /\ toVisit = {} /\ todo = {}
    /\ w \in worklist
    /\ worklist' = worklist \ {w}
    /\ todo' = {d \in derefs : d.ptr = rep[w]}
    /\ UNCHANGED <<graph, stage, copies, derefs, rep, pts, propa, cache,
                   toVisit, toLink, connected, reanalyze>>

(* handleLoad() and handleStore(): one copy edge for every object the edge *)
(* has not been handled for.  Each new copy edge carries the whole         *)
(* points-to set of its source at once.  No source of a new edge is the    *)
(* target of another, so the order of the objects makes no difference.     *)
NewObjects(d) == {o \in pts[d.ptr] : <<d, o>> \notin cache}

HandleDeref(d) ==
    LET wanted == {CopyFor(d, rep[o]) : o \in NewObjects(d) \ graph.opaque}
        added  == NoLoops(wanted) \ copies
    IN  /\ stage = "solve"
        /\ d \in todo
        /\ d.kind = "store" => \A t \in todo : t.kind = "store"
        /\ todo' = todo \ {d}
        /\ cache' = cache \cup {<<d, o>> : o \in NewObjects(d)}
        /\ copies' = copies \cup added
        /\ pts' = [n \in Nodes |->
                     pts[n] \cup UNION {pts[e[1]] : e \in {a \in added : a[2] = n}}]
        /\ worklist' = worklist \cup {n \in Nodes : pts'[n] # pts[n]}
        /\ reanalyze' = (reanalyze \/ added # {})
        /\ UNCHANGED <<graph, stage, derefs, rep, propa, toVisit, toLink, connected>>

(* onTheFlyCallGraphSolve() and connectCaller2CalleeParams(): the calls    *)
(* whose function pointer now reaches a function get their copy edges.     *)

\* Mutant of NewCalls: a resolved call is resolved again.
CallsAgain == {c \in graph.calls : c.fun \in pts[rep[c.fp]]}

NewCalls == {c \in graph.calls \ connected : c.fun \in pts[rep[c.fp]]}

UpdateCallGraph ==
    LET added == NoLoops(UNION {MovedEdges(rep, c.links) : c \in NewCalls}) \ copies
    IN  /\ stage = "solve"
        /\ toVisit = {} /\ todo = {} /\ worklist = {}
        /\ copies' = copies \cup added
        /\ toLink' = added
        /\ connected' = connected \cup NewCalls
        /\ reanalyze' = (reanalyze \/ NewCalls # {})
        /\ stage' = "link"
        /\ UNCHANGED <<graph, derefs, rep, pts, propa, cache, worklist, toVisit, todo>>

(* The second loop of updateCallGraph(). *)
Link(e) ==
    /\ stage = "link"
    /\ e \in toLink
    /\ toLink' = toLink \ {e}
    /\ pts' = [pts EXCEPT ![e[2]] = @ \cup pts[e[1]]]
    /\ worklist' = worklist \cup {e[2]}
    /\ UNCHANGED <<graph, stage, copies, derefs, rep, propa, cache, toVisit,
                   todo, connected, reanalyze>>

(* The condition of the loop of analyze(). *)
EndIteration ==
    /\ stage = "link"
    /\ toLink = {}
    /\ stage' = IF reanalyze THEN "detect" ELSE "done"
    /\ UNCHANGED <<graph, copies, derefs, rep, pts, propa, cache, worklist,
                   toVisit, todo, toLink, connected, reanalyze>>

Next ==
    \/ ProcessAllAddr
    \/ DetectCycles
    \/ Visit
    \/ \E w \in Nodes : Pop(w)
    \/ \E d \in Derefs : HandleDeref(d)
    \/ UpdateCallGraph
    \/ \E e \in Edges : Link(e)
    \/ EndIteration

Spec == Init /\ [][Next]_vars

(* The solver is one thread that nothing stops. *)
FairSpec == Spec /\ WF_vars(Next)

-----------------------------------------------------------------------------
(* What a query returns: getPts() of the representative. *)
Solution == [n \in Nodes |-> pts[rep[n]]]

(* No node is given an object it does not have in the reference solution:  *)
(* merging cycles, propagating differences and handling each object once   *)
(* never adds anything no solution forces.                                 *)
Precise ==
    LET reference == Reference(graph)
    IN  \A n \in Nodes : Solution[n] \subseteq reference[n]

(* Difference propagation forgets nothing: what a node has propagated is   *)
(* in the set of every successor, those of copy edges added or moved after *)
(* it was propagated included.                                             *)
PropagatedReached ==
    \A e \in copies \ toLink : propa[e[1]] \subseteq pts[e[2]]

(* Two nodes were merged that no cycle of the program's own copies joins:  *)
(* the cycle was closed by copy edges the solver added.                    *)
LateCycle ==
    LET component == Components(graph.copy)
    IN  \E u, v \in Nodes : rep[u] = rep[v] /\ v \notin component[u]

(* When the analysis ends without having met a cycle closed by its own     *)
(* edges, its result satisfies every constraint.                           *)
SolvedUnlessLateCycle ==
    stage = "done" /\ ~ LateCycle => IsSolution(graph, Solution)

(* When the analysis ends, its result satisfies every constraint: the rule *)
(* in front of each process function of Andersen.cpp, e.g.                 *)
(* "src --load--> dst, node \in pts(src) ==> node--copy-->dst".            *)
Solved == stage = "done" => IsSolution(graph, Solution)

(* The analysis ends. *)
Terminates == <>(stage = "done")
=============================================================================
