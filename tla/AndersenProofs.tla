---------------------------- MODULE AndersenProofs ----------------------------
(***************************************************************************)
(* For any set of nodes and any constraint graphs: the solver invents      *)
(* nothing (Precise), difference propagation loses nothing                 *)
(* (PropagatedReached), and an analysis that ends without having merged a  *)
(* cycle it closed itself has solved every constraint                      *)
(* (SolvedUnlessLateCycle).                                                *)
(*                                                                         *)
(* Merging is seen through one function, root, from every node to its new  *)
(* representative (IsMerge); the steps after it are read as steps of the   *)
(* graph of representatives.                                               *)
(***************************************************************************)
EXTENDS Andersen, TLAPS

(* Which of the solver's lists can hold something where.                   *)
Idle ==
    /\ stage = "addr" => \A n \in Nodes : rep[n] = n /\ propa[n] = {}
    /\ stage = "addr" => ~ reanalyze
    /\ stage \in {"addr", "detect", "done"} => toVisit = {} /\ todo = {}
    /\ stage = "link" => toVisit = {} /\ todo = {}
    /\ stage # "link" => toLink = {}
    /\ toVisit # {} => todo = {}
    /\ stage = "link" /\ ~ reanalyze => toLink = {} /\ worklist = {}
    /\ stage = "done" => worklist = {} /\ ~ reanalyze

Shape == TypeOK /\ Idle

(* What a merge is: root sends every node to a representative of its       *)
(* component.                                                              *)
IsMerge(root) ==
    /\ root \in [Nodes -> Nodes]
    /\ \A n \in Nodes : /\ root[n] \in Reps
                        /\ root[n] \in Components(copies)[rep[n]]
                        /\ root[root[n]] = root[n]
                        /\ root[rep[n]] = root[n]
    /\ \A m, n \in Nodes : root[n] \in Components(copies)[root[m]] => root[m] = root[n]
    /\ toVisit' = {root[n] : n \in Nodes}

\* Components are equivalence classes.
LEMMA ComponentIsClass ==
  ASSUME NEW E, NEW u \in Nodes, NEW v \in Nodes, NEW w \in Nodes
  PROVE  /\ u \in Components(E)[u]
         /\ v \in Components(E)[u] => u \in Components(E)[v]
         /\ v \in Components(E)[u] /\ w \in Components(E)[v] => w \in Components(E)[u]
BY DEF Components

\* What is closed under a graph's edges is shared by each of its components.
LEMMA ClosedSetSharedInComponent ==
  ASSUME NEW E, NEW u \in Nodes, NEW v \in Nodes, v \in Components(E)[u],
         NEW T \in SUBSET Nodes, \A e \in E : e[1] \in T => e[2] \in T
  PROVE  u \in T <=> v \in T
BY DEF Components, ClosedSets

\* A step of DetectCycles is a merge.
LEMMA DetectCyclesMerges ==
  ASSUME TypeOK, DetectCycles
  PROVE  \E root : IsMerge(root) /\ MergeCycles(root)
<1>1. PICK R \in SUBSET Reps :
        /\ IsRootSet(R, Components(copies))
        /\ MergeCycles(RootFunction(R, Components(copies)))
        /\ toVisit' = R
  BY DEF DetectCycles
<1> DEFINE component == Components(copies)
           root == RootFunction(R, component)
<1>2. /\ rep \in [Nodes -> Nodes] /\ R \subseteq Nodes
      /\ \A n \in Nodes : rep[n] \in Reps /\ rep[rep[n]] = rep[n]
  BY <1>1 DEF TypeOK, Canonical, Reps
<1>3. ASSUME NEW n \in Nodes
      PROVE  root[n] \in R /\ root[n] \in component[rep[n]]
  <2>1. \E r \in R : r \in component[rep[n]]
    BY <1>1, <1>2 DEF IsRootSet
  <2> QED
    BY <2>1 DEF RootFunction
<1>4. ASSUME NEW r \in R PROVE root[r] = r
  <2>1. r \in Nodes /\ rep[r] = r
    BY <1>2, <1>1 DEF TypeOK, Canonical
  <2>2. root[r] \in R /\ root[r] \in component[r]
    BY <2>1, <1>3
  <2> HIDE DEF root
  <2> QED
    BY <2>2, <1>1 DEF IsRootSet
<1>5. ASSUME NEW n \in Nodes PROVE root[rep[n]] = root[n]
  BY <1>2 DEF RootFunction
<1>6. toVisit' = {root[n] : n \in Nodes}
  <2> HIDE DEF root
  <2> QED
    BY <1>1, <1>2, <1>3, <1>4
<1>7. root \in [Nodes -> Nodes]
  BY <1>2, <1>3 DEF RootFunction
<1>8. IsMerge(root)
  <2> HIDE DEF root
  <2> QED
    BY <1>3, <1>4, <1>5, <1>6, <1>7, <1>1, <1>2 DEF IsMerge, IsRootSet
<1> QED
  BY <1>1, <1>8

-----------------------------------------------------------------------------
(* Type correctness.                                                       *)

LEMMA GraphTyped ==
  ASSUME TypeOK
  PROVE  /\ graph.addr \subseteq Edges /\ graph.copy \subseteq Edges
         /\ graph.deref \subseteq Derefs /\ graph.calls \subseteq Calls
         /\ graph.opaque \subseteq Nodes
         /\ \A c \in graph.calls : /\ c.fp \in Nodes /\ c.fun \in Nodes
                                   /\ c.links \subseteq Edges
BY GraphsAssumption DEF TypeOK, ConstraintGraphs, Calls

\* The edges a dereference adds join representatives.
LEMMA CopyForTyped ==
  ASSUME TypeOK, NEW d \in derefs, NEW o \in Nodes
  PROVE  /\ d.ptr \in Reps /\ d.val \in Reps /\ rep[o] \in Reps
         /\ CopyFor(d, rep[o]) \in Reps \X Reps
         /\ Reps \subseteq Nodes
BY DEF TypeOK, Canonical, CopyFor, Reps

LEMMA InitShape == Init => Shape
<1> SUFFICES ASSUME Init PROVE Shape
  OBVIOUS
<1>1. /\ graph.copy \subseteq Edges /\ graph.deref \subseteq Derefs
  BY GraphsAssumption DEF Init, ConstraintGraphs
<1>2. Reps = Nodes /\ Reps = {n \in Nodes : rep[n] = n}
  BY DEF Init, Reps
<1>3. Canonical
  BY <1>1, <1>2 DEF Init, Canonical, NoLoops, Edges, Derefs
<1> QED
  BY <1>1, <1>3 DEF Init, Shape, TypeOK, Idle, NoLoops

LEMMA MergeShape ==
  ASSUME Shape, DetectCycles PROVE Shape'
<1>1. PICK root : IsMerge(root) /\ MergeCycles(root)
  BY DetectCyclesMerges DEF Shape
<1>2. /\ root \in [Nodes -> Nodes]
      /\ \A n \in Nodes : root[n] \in Reps /\ root[root[n]] = root[n]
      /\ toVisit' = {root[n] : n \in Nodes}
      /\ rep' = root
  BY <1>1 DEF IsMerge, MergeCycles
<1>3. Reps' = {root[n] : n \in Nodes}
  BY <1>2 DEF Reps
<1>4. Reps' = {n \in Nodes : rep'[n] = n} /\ Reps' \subseteq Nodes
  BY <1>2, <1>3
<1>5. /\ copies \subseteq Nodes \X Nodes
      /\ \A d \in derefs : d.ptr \in Nodes /\ d.val \in Nodes /\ d.kind \in {"load", "store"}
  BY DEF Shape, TypeOK, Edges, Derefs
<1>6. copies' \subseteq NoLoops(Reps' \X Reps')
  BY <1>1, <1>2, <1>3, <1>5 DEF MergeCycles, NoLoops, MovedEdges
<1>7. derefs' \subseteq Derefs /\ \A d \in derefs' : d.ptr \in Reps' /\ d.val \in Reps'
  BY <1>1, <1>2, <1>3, <1>5 DEF MergeCycles, MovedDerefs, Derefs
<1>8. /\ pts' \in [Nodes -> SUBSET Nodes] /\ propa' \in [Nodes -> SUBSET Nodes]
      /\ \A n \in Nodes : propa'[n] \subseteq pts'[n]
  <2>1. Reps \subseteq Nodes
    BY DEF Shape, TypeOK, Canonical
  <2>2. ASSUME NEW n \in Nodes
        PROVE  /\ propa'[n] \subseteq propa[n]
               /\ pts[n] \subseteq pts'[n] /\ pts'[n] \subseteq Nodes
    BY <1>1, <2>1 DEF MergeCycles, MergedPropa, Shape, TypeOK
  <2>3. ASSUME NEW n \in Nodes PROVE propa[n] \subseteq pts[n]
    BY DEF Shape, TypeOK, Canonical
  <2>4. /\ propa' = [n \in Nodes |-> propa'[n]] /\ pts' = [n \in Nodes |-> pts'[n]]
    BY <1>1 DEF MergeCycles, MergedPropa
  <2> QED
    BY <2>2, <2>3, <2>4
<1>9. cache' \subseteq Derefs \X Nodes
  BY <1>1 DEF MergeCycles, Shape, TypeOK
<1>10. todo = {} /\ toLink = {} /\ todo' = {} /\ toLink' = {} /\ stage' = "solve"
  BY DEF Shape, Idle, DetectCycles
<1>11. Canonical'
  BY <1>2, <1>3, <1>4, <1>6, <1>7, <1>8, <1>10 DEF Canonical
<1>12. copies' \subseteq Edges
  BY <1>6, <1>4 DEF NoLoops, Edges
<1>13. TypeOK'
  BY <1>2, <1>7, <1>8, <1>9, <1>10, <1>11, <1>12, <1>3, <1>4 DEF TypeOK, DetectCycles, Shape
<1> QED
  BY <1>10, <1>13 DEF Shape, Idle

\* All steps but a merge leave the representatives alone; the steps add
\* copy edges between representatives only.
LEMMA NextShape ==
  ASSUME Shape, [Next]_vars PROVE Shape'
<1> USE DEF Shape
<1>1. CASE ProcessAllAddr
  <2>1. /\ UNCHANGED <<graph, copies, derefs, rep, propa, cache, toVisit, todo,
                       toLink, connected, reanalyze>>
        /\ stage = "addr" /\ stage' = "detect"
        /\ toVisit = {} /\ todo = {} /\ toLink = {}
        /\ \A n \in Nodes : propa[n] = {}
    BY <1>1 DEF ProcessAllAddr, Idle
  <2>2. pts' \in [Nodes -> SUBSET Nodes] /\ worklist' \subseteq Nodes
    BY <1>1, GraphTyped DEF ProcessAllAddr, Edges
  <2> QED
    BY <2>1, <2>2 DEF TypeOK, Canonical, Reps, Idle
<1>2. CASE DetectCycles
  BY <1>2, MergeShape
<1>3. CASE Visit
  <2>1. /\ UNCHANGED <<graph, stage, copies, derefs, rep, cache, todo, toLink,
                       connected, reanalyze>>
        /\ toVisit' \subseteq toVisit /\ stage = "solve" /\ toVisit # {}
    BY <1>3 DEF Visit
  <2>2. ASSUME NEW n \in Nodes PROVE Arriving(n) \subseteq Nodes
    BY DEF Arriving, Ready, TypeOK
  <2>3. /\ pts' \in [Nodes -> SUBSET Nodes] /\ propa' \in [Nodes -> SUBSET Nodes]
        /\ worklist' \subseteq Nodes
        /\ \A n \in Nodes : propa'[n] \subseteq pts'[n]
    <3>1. ASSUME NEW n \in Nodes PROVE pts[n] \subseteq Nodes /\ propa[n] \subseteq pts[n]
      BY DEF TypeOK, Canonical
    <3>2. /\ pts' = [n \in Nodes |-> pts[n] \cup Arriving(n)]
          /\ propa' = [n \in Nodes |-> IF n \in Ready THEN pts[n] ELSE propa[n]]
      BY <1>3 DEF Visit
    <3>3. worklist' \subseteq Nodes
      BY <1>3 DEF Visit, TypeOK
    <3> QED
      BY <2>2, <3>1, <3>2, <3>3
  <2> QED
    BY <2>1, <2>3 DEF TypeOK, Canonical, Reps, Idle
<1>4. ASSUME NEW w \in Nodes, Pop(w) PROVE Shape'
  <2>1. /\ UNCHANGED <<graph, stage, copies, derefs, rep, pts, propa, cache,
                       toVisit, toLink, connected, reanalyze>>
        /\ worklist' \subseteq worklist /\ todo' \subseteq derefs
        /\ stage = "solve" /\ toVisit = {}
    BY <1>4 DEF Pop
  <2> QED
    BY <2>1 DEF TypeOK, Canonical, Reps, Idle
<1>5. ASSUME NEW d \in Derefs, HandleDeref(d) PROVE Shape'
  <2> DEFINE wanted == {CopyFor(d, rep[o]) : o \in NewObjects(d) \ graph.opaque}
             added  == NoLoops(wanted) \ copies
  <2>1. /\ UNCHANGED <<graph, stage, derefs, rep, propa, toVisit, toLink, connected>>
        /\ stage = "solve" /\ d \in todo /\ todo' = todo \ {d}
        /\ cache' = cache \cup {<<d, o>> : o \in NewObjects(d)}
        /\ copies' = copies \cup added
        /\ pts' = [n \in Nodes |->
                     pts[n] \cup UNION {pts[e[1]] : e \in {a \in added : a[2] = n}}]
        /\ worklist' = worklist \cup {n \in Nodes : pts'[n] # pts[n]}
        /\ reanalyze' = (reanalyze \/ added # {})
    BY <1>5 DEF HandleDeref
  <2>2. d \in derefs /\ NewObjects(d) \subseteq Nodes /\ d.ptr \in Nodes
    BY <2>1, <1>5 DEF TypeOK, Canonical, NewObjects, Derefs
  <2>3. added \subseteq NoLoops(Reps \X Reps) /\ Reps \subseteq Nodes
    BY <2>2, CopyForTyped DEF NoLoops
  <2>4. added \subseteq Edges /\ \A e \in added : e[1] \in Nodes
    BY <2>3 DEF NoLoops, Edges
  <2> HIDE DEF added
  <2>5. ASSUME NEW n \in Nodes
        PROVE  pts[n] \subseteq pts'[n] /\ pts'[n] \subseteq Nodes /\ propa[n] \subseteq pts[n]
    BY <2>1, <2>4 DEF TypeOK, Canonical
  <2>6. pts' \in [Nodes -> SUBSET Nodes]
    <3>1. pts' = [n \in Nodes |-> pts'[n]]
      BY <2>1
    <3> QED
      BY <2>5, <3>1
  <2>7. cache' \subseteq Derefs \X Nodes /\ worklist' \subseteq Nodes
    BY <2>1, <2>2, <1>5 DEF TypeOK
  <2>8. Reps' = Reps /\ copies' \subseteq NoLoops(Reps \X Reps) /\ copies' \subseteq Edges
    BY <2>1, <2>3, <2>4 DEF Reps, TypeOK, Canonical
  <2>9. Canonical'
    BY <2>1, <2>5, <2>8 DEF Canonical, TypeOK
  <2>10. reanalyze' \in BOOLEAN
    BY <2>1 DEF TypeOK
  <2>11. TypeOK'
    BY <2>1, <2>6, <2>7, <2>8, <2>9, <2>10 DEF TypeOK
  <2>12. toVisit = {}
    BY <2>1 DEF Idle
  <2> QED
    BY <2>1, <2>11, <2>12 DEF Idle
<1>6. CASE UpdateCallGraph
  <2> DEFINE linked == UNION {MovedEdges(rep, c.links) : c \in NewCalls}
             added  == NoLoops(linked) \ copies
  <2>1. /\ UNCHANGED <<graph, derefs, rep, pts, propa, cache, worklist, toVisit, todo>>
        /\ stage = "solve" /\ toVisit = {} /\ todo = {} /\ worklist = {}
        /\ copies' = copies \cup added /\ toLink' = added
        /\ connected' = connected \cup NewCalls
        /\ reanalyze' = (reanalyze \/ NewCalls # {})
        /\ stage' = "link"
    BY <1>6 DEF UpdateCallGraph
  <2>2. linked \subseteq Reps \X Reps
    <3>1. ASSUME NEW c \in NewCalls PROVE MovedEdges(rep, c.links) \subseteq Reps \X Reps
      <4>1. c.links \subseteq Nodes \X Nodes
        BY GraphTyped DEF NewCalls, Edges
      <4> QED
        BY <4>1 DEF MovedEdges, Reps
    <3> QED
      BY <3>1
  <2>7. NewCalls = {} => added = {}
    BY DEF NoLoops
  <2> HIDE DEF linked
  <2>3. added \subseteq NoLoops(Reps \X Reps) /\ added \subseteq Edges
    BY <2>2 DEF NoLoops, Edges, TypeOK, Canonical
  <2>4. connected' \subseteq Calls
    BY <2>1, GraphTyped DEF NewCalls, TypeOK
  <2> HIDE DEF added
  <2>5. Canonical'
    BY <2>1, <2>3 DEF Canonical, TypeOK, Reps
  <2>6. reanalyze' \in BOOLEAN
    BY <2>1 DEF TypeOK
  <2> QED
    BY <2>1, <2>3, <2>4, <2>5, <2>6, <2>7 DEF TypeOK, Idle
<1>7. ASSUME NEW e \in Edges, Link(e) PROVE Shape'
  <2>1. /\ UNCHANGED <<graph, stage, copies, derefs, rep, propa, cache, toVisit,
                       todo, connected, reanalyze>>
        /\ stage = "link" /\ toLink' \subseteq toLink /\ toLink # {}
        /\ pts' = [pts EXCEPT ![e[2]] = @ \cup pts[e[1]]]
        /\ worklist' = worklist \cup {e[2]}
        /\ e[1] \in Nodes /\ e[2] \in Nodes
    BY <1>7 DEF Link, Edges
  <2>2. /\ pts' \in [Nodes -> SUBSET Nodes] /\ worklist' \subseteq Nodes
        /\ \A n \in Nodes : pts[n] \subseteq pts'[n]
    BY <2>1 DEF TypeOK
  <2>3. Canonical'
    BY <2>1, <2>2 DEF Canonical, TypeOK, Reps
  <2> QED
    BY <2>1, <2>2, <2>3 DEF TypeOK, Idle
<1>8. CASE EndIteration
  <2>1. /\ UNCHANGED <<graph, copies, derefs, rep, pts, propa, cache, worklist,
                       toVisit, todo, toLink, connected, reanalyze>>
        /\ stage = "link" /\ toLink = {}
        /\ stage' = IF reanalyze THEN "detect" ELSE "done"
    BY <1>8 DEF EndIteration
  <2> QED
    BY <2>1 DEF TypeOK, Canonical, Reps, Idle
<1>9. CASE UNCHANGED vars
  BY <1>9 DEF vars, TypeOK, Canonical, Reps, Idle
<1> HIDE DEF Shape
<1> QED
  BY <1>1, <1>2, <1>3, <1>4, <1>5, <1>6, <1>7, <1>8, <1>9 DEF Next

THEOREM TypeCorrect == Spec => []TypeOK
<1>1. Init => Shape
  BY InitShape
<1>2. Shape /\ [Next]_vars => Shape'
  BY NextShape
<1>3. Shape => TypeOK
  BY DEF Shape
<1> QED
  BY <1>1, <1>2, <1>3, PTL DEF Spec

-----------------------------------------------------------------------------
(* What the steps do to the points-to sets, in the form the invariants     *)
(* below use it.                                                           *)

LEMMA MergeStep ==
  ASSUME Shape, NEW root, IsMerge(root), MergeCycles(root)
  PROVE  /\ \A e \in copies' : \E c \in copies :
               /\ e[1] = root[c[1]] /\ e[2] = root[c[2]] /\ e[1] # e[2]
               /\ c[1] \in Reps /\ c[2] \in Reps
         /\ \A u, v \in Nodes : <<u, v>> \in copies =>
               root[u] = root[v] \/ <<root[u], root[v]>> \in copies'
         /\ \A m \in Reps : pts[m] \subseteq pts'[root[m]] /\ propa'[root[m]] \subseteq propa[m]
         /\ \A n \in Nodes : \A o \in pts'[n] :
               o \in pts[n] \/ \E m \in Reps : root[m] = n /\ o \in pts[m]
         /\ rep' = root
<1>1. /\ root \in [Nodes -> Nodes] /\ Reps \subseteq Nodes
      /\ copies \subseteq Reps \X Reps
  BY DEF IsMerge, Shape, TypeOK, Canonical, NoLoops
<1>2. /\ copies' = NoLoops(MovedEdges(root, copies)) /\ rep' = root
      /\ propa' = MergedPropa(root)
      /\ pts' = [n \in Nodes |->
                   pts[n] \cup UNION {pts[m] : m \in {m \in Reps : root[m] = n}}]
  BY DEF MergeCycles
<1>3. \A e \in copies' : \E c \in copies :
               /\ e[1] = root[c[1]] /\ e[2] = root[c[2]] /\ e[1] # e[2]
               /\ c[1] \in Reps /\ c[2] \in Reps
  BY <1>1, <1>2 DEF NoLoops, MovedEdges
<1>4. ASSUME NEW u \in Nodes, NEW v \in Nodes, <<u, v>> \in copies, root[u] # root[v]
      PROVE  <<root[u], root[v]>> \in copies'
  BY <1>1, <1>2, <1>4 DEF NoLoops, MovedEdges
<1>5. ASSUME NEW m \in Reps
      PROVE  pts[m] \subseteq pts'[root[m]] /\ propa'[root[m]] \subseteq propa[m]
  BY <1>1, <1>2 DEF MergedPropa
<1>6. ASSUME NEW n \in Nodes, NEW o \in pts'[n]
      PROVE  o \in pts[n] \/ \E m \in Reps : root[m] = n /\ o \in pts[m]
  BY <1>2, <1>6
<1> QED
  BY <1>2, <1>3, <1>4, <1>5, <1>6

LEMMA VisitStep ==
  ASSUME Shape, Visit
  PROVE  /\ \A n \in Nodes : /\ pts[n] \subseteq pts'[n]
                             /\ propa'[n] = IF n \in Ready THEN pts[n] ELSE propa[n]
         /\ \A e \in copies : e[1] \in Ready =>
               pts[e[1]] \ propa[e[1]] \subseteq pts'[e[2]]
         /\ \A n \in Nodes : \A o \in pts'[n] \ pts[n] :
               n \in worklist' /\ \E e \in copies : e[1] \in Ready /\ e[2] = n /\ o \in pts[e[1]]
         /\ worklist \subseteq worklist' /\ Ready \subseteq Nodes
<1>1. /\ propa' = [n \in Nodes |-> IF n \in Ready THEN pts[n] ELSE propa[n]]
      /\ pts' = [n \in Nodes |-> pts[n] \cup Arriving(n)]
      /\ worklist' = worklist \cup {n \in Nodes : ~ Arriving(n) \subseteq pts[n]}
  BY DEF Visit
<1>2. Ready \subseteq Nodes /\ copies \subseteq Nodes \X Nodes
  BY DEF Ready, Shape, TypeOK, Edges
<1>3. ASSUME NEW e \in copies, e[1] \in Ready
      PROVE  pts[e[1]] \ propa[e[1]] \subseteq pts'[e[2]]
  <2>1. e = <<e[1], e[2]>> /\ e[2] \in Nodes
    BY <1>2
  <2>2. pts[e[1]] \ propa[e[1]] \subseteq Arriving(e[2])
    BY <2>1, <1>3 DEF Arriving
  <2> QED
    BY <2>1, <2>2, <1>1
<1>4. ASSUME NEW n \in Nodes, NEW o \in pts'[n] \ pts[n]
      PROVE  n \in worklist' /\ \E e \in copies : e[1] \in Ready /\ e[2] = n /\ o \in pts[e[1]]
  <2>1. o \in Arriving(n)
    BY <1>1, <1>4
  <2>2. PICK m \in Ready : <<m, n>> \in copies /\ o \in pts[m]
    BY <2>1 DEF Arriving
  <2> QED
    BY <2>1, <2>2, <1>1
<1> QED
  BY <1>1, <1>2, <1>3, <1>4

LEMMA DerefStep ==
  ASSUME Shape, NEW d \in Derefs, HandleDeref(d)
  PROVE  /\ copies \subseteq copies'
         /\ \A n \in Nodes : pts[n] \subseteq pts'[n]
         /\ \A e \in copies' \ copies :
               /\ e \in Reps \X Reps /\ e[1] # e[2]
               /\ pts[e[1]] \subseteq pts'[e[2]]
               /\ \E o \in pts[d.ptr] \ graph.opaque : e = CopyFor(d, rep[o])
         /\ \A o \in NewObjects(d) \ graph.opaque :
               LET e == CopyFor(d, rep[o]) IN e[1] = e[2] \/ e \in copies'
         /\ \A n \in Nodes : \A o \in pts'[n] \ pts[n] :
               n \in worklist' /\ \E e \in copies' \ copies : e[2] = n /\ o \in pts[e[1]]
         /\ worklist \subseteq worklist'
         /\ ~ reanalyze' => ~ reanalyze /\ copies' = copies /\ pts' = pts
<1> DEFINE wanted == {CopyFor(d, rep[o]) : o \in NewObjects(d) \ graph.opaque}
           added  == NoLoops(wanted) \ copies
<1>1. /\ d \in todo
      /\ copies' = copies \cup added
      /\ pts' = [n \in Nodes |->
                   pts[n] \cup UNION {pts[e[1]] : e \in {a \in added : a[2] = n}}]
      /\ worklist' = worklist \cup {n \in Nodes : pts'[n] # pts[n]}
      /\ reanalyze' = (reanalyze \/ added # {})
  BY DEF HandleDeref
<1>2. d \in derefs /\ NewObjects(d) \subseteq Nodes /\ NewObjects(d) \subseteq pts[d.ptr]
      /\ pts \in [Nodes -> SUBSET Nodes]
  BY <1>1 DEF Shape, TypeOK, Canonical, NewObjects, Derefs
<1>3. \A e \in added : /\ e \in Reps \X Reps /\ e[1] # e[2]
                       /\ \E o \in pts[d.ptr] \ graph.opaque : e = CopyFor(d, rep[o])
  BY <1>2, CopyForTyped DEF NoLoops, Shape
<1>4. \A o \in NewObjects(d) \ graph.opaque :
        LET e == CopyFor(d, rep[o]) IN e[1] = e[2] \/ e \in copies'
  BY <1>1 DEF NoLoops
<1>5. copies' \ copies = added
  BY <1>1
<1> HIDE DEF added
<1>6. Reps \subseteq Nodes
  BY DEF Shape, TypeOK, Canonical
<1>7. \A e \in added : pts[e[1]] \subseteq pts'[e[2]]
  BY <1>1, <1>3, <1>6
<1>8. ASSUME NEW n \in Nodes, NEW o \in pts'[n] \ pts[n]
      PROVE  n \in worklist' /\ \E e \in added : e[2] = n /\ o \in pts[e[1]]
  BY <1>1, <1>8
<1>9. ~ reanalyze' => ~ reanalyze /\ copies' = copies /\ pts' = pts
  <2>1. ~ reanalyze' => ~ reanalyze /\ added = {}
    BY <1>1
  <2>2. ASSUME added = {} PROVE copies' = copies /\ pts' = pts
    <3>1. pts' = [n \in Nodes |-> pts[n]]
      BY <1>1, <2>2
    <3> QED
      BY <3>1, <1>1, <1>2, <2>2
  <2> QED
    BY <2>1, <2>2
<1>10. copies \subseteq copies' /\ worklist \subseteq worklist' /\ \A n \in Nodes : pts[n] \subseteq pts'[n]
  BY <1>1
<1> QED
  BY <1>3, <1>4, <1>5, <1>7, <1>8, <1>9, <1>10

LEMMA LinkStep ==
  ASSUME Shape, NEW e \in Edges, Link(e)
  PROVE  /\ e \in copies /\ e[1] \in Nodes /\ e[2] \in Nodes
         /\ \A n \in Nodes : pts'[n] = IF n = e[2] THEN pts[n] \cup pts[e[1]] ELSE pts[n]
         /\ worklist' = worklist \cup {e[2]} /\ toLink' = toLink \ {e}
         /\ stage = "link" /\ reanalyze
<1>1. /\ e \in toLink /\ stage = "link"
      /\ toLink' = toLink \ {e}
      /\ pts' = [pts EXCEPT ![e[2]] = @ \cup pts[e[1]]]
      /\ worklist' = worklist \cup {e[2]}
  BY DEF Link
<1>2. e \in copies /\ pts \in [Nodes -> SUBSET Nodes] /\ reanalyze \in BOOLEAN
  BY <1>1 DEF Shape, TypeOK, Canonical
<1>3. reanalyze
  BY <1>1, <1>2 DEF Shape, Idle
<1> QED
  BY <1>1, <1>2, <1>3 DEF Edges

-----------------------------------------------------------------------------
(* Difference propagation.                                                 *)

LEMMA NextPropagated ==
  ASSUME Shape, PropagatedReached, [Next]_vars PROVE PropagatedReached'
<1> USE DEF PropagatedReached
<1>0. /\ copies \subseteq Nodes \X Nodes
      /\ stage # "link" => toLink = {}
      /\ \A n \in Nodes : propa[n] \subseteq pts[n]
  BY DEF Shape, TypeOK, Canonical, Idle, Edges
<1>1. CASE ProcessAllAddr
  <2>1. copies' = copies /\ propa' = propa /\ \A n \in Nodes : propa[n] = {}
    BY <1>1 DEF ProcessAllAddr, Shape, Idle
  <2> QED
    BY <2>1, <1>0
<1>2. CASE DetectCycles
  <2>1. PICK root : IsMerge(root) /\ MergeCycles(root)
    BY <1>2, DetectCyclesMerges DEF Shape
  <2>2. toLink = {} /\ root \in [Nodes -> Nodes] /\ Reps \subseteq Nodes
    BY <1>0, <1>2, <2>1 DEF DetectCycles, IsMerge, Shape, TypeOK, Canonical
  <2>3. ASSUME NEW e \in copies' PROVE propa'[e[1]] \subseteq pts'[e[2]]
    <3>1. PICK c \in copies : /\ e[1] = root[c[1]] /\ e[2] = root[c[2]]
                              /\ c[1] \in Reps /\ c[2] \in Reps
      BY <2>1, MergeStep
    <3>2. propa'[e[1]] \subseteq propa[c[1]] /\ pts[c[2]] \subseteq pts'[e[2]]
      BY <2>1, <3>1, MergeStep
    <3>3. propa[c[1]] \subseteq pts[c[2]]
      BY <2>2
    <3> QED
      BY <3>2, <3>3
  <2> QED
    BY <2>3
<1>3. CASE Visit
  <2>1. copies' = copies /\ toLink' = toLink
    BY <1>3 DEF Visit
  <2>2. ASSUME NEW e \in copies \ toLink PROVE propa'[e[1]] \subseteq pts'[e[2]]
    <3>1. e[1] \in Nodes /\ e[2] \in Nodes /\ propa[e[1]] \subseteq pts[e[2]]
      BY <1>0
    <3>2. pts[e[2]] \subseteq pts'[e[2]]
      BY <3>1, <1>3, VisitStep
    <3>3. propa'[e[1]] = IF e[1] \in Ready THEN pts[e[1]] ELSE propa[e[1]]
      BY <3>1, <1>3, VisitStep
    <3>4. e[1] \in Ready => pts[e[1]] \ propa[e[1]] \subseteq pts'[e[2]]
      BY <1>3, VisitStep
    <3> QED
      BY <3>1, <3>2, <3>3, <3>4
  <2> QED
    BY <2>1, <2>2
<1>4. ASSUME NEW w \in Nodes, Pop(w) PROVE PropagatedReached'
  BY <1>4 DEF Pop
<1>5. ASSUME NEW d \in Derefs, HandleDeref(d) PROVE PropagatedReached'
  <2>1. propa' = propa /\ toLink = {} /\ toLink' = {}
    BY <1>5, <1>0 DEF HandleDeref
  <2>2. ASSUME NEW e \in copies' PROVE propa[e[1]] \subseteq pts'[e[2]]
    <3>1. CASE e \in copies
      <4>1. propa[e[1]] \subseteq pts[e[2]] /\ e[2] \in Nodes
        BY <3>1, <2>1, <1>0
      <4> QED
        BY <4>1, <1>5, DerefStep
    <3>2. CASE e \notin copies
      <4>1. pts[e[1]] \subseteq pts'[e[2]] /\ e[1] \in Nodes
        BY <3>2, <1>5, DerefStep DEF Shape, TypeOK, Canonical
      <4> QED
        BY <4>1, <1>0
    <3> QED
      BY <3>1, <3>2
  <2> QED
    BY <2>1, <2>2
<1>6. CASE UpdateCallGraph
  BY <1>6, <1>0 DEF UpdateCallGraph
<1>7. ASSUME NEW e \in Edges, Link(e) PROVE PropagatedReached'
  <2>1. copies' = copies /\ propa' = propa
    BY <1>7 DEF Link
  <2>2. /\ \A n \in Nodes : pts[n] \subseteq pts'[n]
        /\ pts[e[1]] \subseteq pts'[e[2]] /\ e[1] \in Nodes /\ toLink' = toLink \ {e}
    BY <1>7, LinkStep
  <2>3. ASSUME NEW c \in copies \ toLink' PROVE propa[c[1]] \subseteq pts'[c[2]]
    <3>1. CASE c = e
      BY <3>1, <2>2, <1>0
    <3>2. CASE c # e
      BY <3>2, <2>2, <1>0
    <3> QED
      BY <3>1, <3>2
  <2> QED
    BY <2>1, <2>3
<1>8. CASE EndIteration
  BY <1>8 DEF EndIteration
<1>9. CASE UNCHANGED vars
  BY <1>9 DEF vars
<1> HIDE DEF PropagatedReached
<1> QED
  BY <1>1, <1>2, <1>3, <1>4, <1>5, <1>6, <1>7, <1>8, <1>9 DEF Next

\* What a node has propagated has reached all its successors, those of
\* edges moved by a merge included (updatePropaPts()).
THEOREM DifferencesReach == Spec => []PropagatedReached
<1>1. Init => PropagatedReached
  <2> SUFFICES ASSUME Init PROVE PropagatedReached
    OBVIOUS
  <2>1. copies \subseteq Nodes \X Nodes
    BY InitShape DEF Shape, TypeOK, Edges
  <2> QED
    BY <2>1 DEF Init, PropagatedReached
<1>2. Init => Shape
  BY InitShape
<1>3. Shape /\ [Next]_vars => Shape'
  BY NextShape
<1>4. Shape /\ PropagatedReached /\ [Next]_vars => PropagatedReached'
  BY NextPropagated
<1> QED
  BY <1>1, <1>2, <1>3, <1>4, PTL DEF Spec

-----------------------------------------------------------------------------
(* Nothing is invented.                                                    *)

(* The graph of representatives holds no constraint that the reference     *)
(* solution does not satisfy.                                              *)
Forced ==
    LET S == Reference(graph)
    IN  /\ \A n \in Nodes : S[rep[n]] = S[n] /\ pts[n] \subseteq S[n]
        /\ \A e \in copies : S[e[1]] \subseteq S[e[2]]
        /\ \A d \in derefs : \A o \in S[d.ptr] \ graph.opaque :
              S[CopyFor(d, o)[1]] \subseteq S[CopyFor(d, o)[2]]

LEMMA ReferenceSolves ==
  ASSUME TypeOK PROVE IsSolution(graph, Reference(graph))
BY ReferenceAssumption DEF TypeOK

\* The nodes of a component have the same reference set: each one's set
\* flows to all the others.
LEMMA MergedAgree ==
  ASSUME Shape, Forced, NEW root, IsMerge(root), NEW n \in Nodes
  PROVE  Reference(graph)[root[n]] = Reference(graph)[n]
<1> DEFINE S == Reference(graph)
           u == rep[n]
           v == root[n]
           Above(w) == {x \in Nodes : S[w] \subseteq S[x]}
<1>1. u \in Nodes /\ v \in Nodes /\ v \in Components(copies)[u]
  BY DEF IsMerge, Shape, TypeOK
<1>2. ASSUME NEW w \in Nodes PROVE \A e \in copies : e[1] \in Above(w) => e[2] \in Above(w)
  <2>1. \A e \in copies : e[2] \in Nodes /\ S[e[1]] \subseteq S[e[2]]
    BY DEF Forced, Shape, TypeOK, Edges
  <2> QED
    BY <2>1
<1>3. ASSUME NEW w \in Nodes PROVE u \in Above(w) <=> v \in Above(w)
  <2> HIDE DEF u, v
  <2>1. Above(w) \in SUBSET Nodes
    OBVIOUS
  <2>2. \A e \in copies : e[1] \in Above(w) => e[2] \in Above(w)
    BY <1>2
  <2> HIDE DEF Above
  <2> QED
    BY <2>1, <2>2, <1>1, ClosedSetSharedInComponent
<1>4. S[u] \subseteq S[v] /\ S[v] \subseteq S[u]
  <2> HIDE DEF u, v
  <2>1. u \in Above(u) /\ v \in Above(v)
    BY <1>1
  <2>2. v \in Above(u) /\ u \in Above(v)
    BY <2>1, <1>1, <1>3
  <2> QED
    BY <2>2
<1>5. S[u] = S[n]
  BY DEF Forced
<1> QED
  BY <1>4, <1>5

LEMMA NextForced ==
  ASSUME Shape, Forced, [Next]_vars PROVE Forced'
<1> DEFINE S == Reference(graph)
<1>0. /\ IsSolution(graph, S) /\ S \in [Nodes -> SUBSET Nodes]
      /\ copies \subseteq Nodes \X Nodes /\ rep \in [Nodes -> Nodes]
      /\ pts \in [Nodes -> SUBSET Nodes] /\ derefs \subseteq Derefs
  BY ReferenceSolves DEF Shape, TypeOK, IsSolution, Edges
<1>f. /\ \A n \in Nodes : S[rep[n]] = S[n] /\ pts[n] \subseteq S[n]
      /\ \A e \in copies : S[e[1]] \subseteq S[e[2]]
      /\ \A d \in derefs : \A o \in S[d.ptr] \ graph.opaque :
              S[CopyFor(d, o)[1]] \subseteq S[CopyFor(d, o)[2]]
  BY DEF Forced
<1>g. graph' = graph
  BY DEF Next, vars, ProcessAllAddr, DetectCycles, Visit, Pop, HandleDeref,
         UpdateCallGraph, Link, EndIteration
\* It suffices that a step keeps the representatives and the dereferences,
\* and adds only objects and copies the reference solution has.
<1>s. SUFFICES ASSUME ~ Forced'
               PROVE  FALSE
  OBVIOUS
<1> DEFINE Kept == rep' = rep /\ derefs' = derefs
           NewPts == \A n \in Nodes : pts'[n] \subseteq S[n]
           NewCopies == \A e \in copies' : S[e[1]] \subseteq S[e[2]]
<1>k. ~ (Kept /\ NewPts /\ NewCopies)
  BY <1>s, <1>f, <1>g DEF Forced
<1>1. CASE ProcessAllAddr
  <2>1. \A n \in Nodes : pts'[n] = {e[1] : e \in {a \in graph.addr : a[2] = n}}
    BY <1>1 DEF ProcessAllAddr
  <2>2. NewPts
    BY <2>1, <1>0 DEF IsSolution
  <2> QED
    BY <2>2, <1>1, <1>f, <1>k DEF ProcessAllAddr
<1>2. CASE DetectCycles
  <2>1. PICK root : IsMerge(root) /\ MergeCycles(root)
    BY <1>2, DetectCyclesMerges DEF Shape
  <2>2. ASSUME NEW n \in Nodes PROVE root[n] \in Nodes /\ S[root[n]] = S[n]
    BY <2>1, MergedAgree DEF IsMerge
  <2>3. rep' = root /\ NewCopies
    <3>1. ASSUME NEW e \in copies' PROVE S[e[1]] \subseteq S[e[2]]
      <4>1. PICK c \in copies : e[1] = root[c[1]] /\ e[2] = root[c[2]]
        BY <2>1, MergeStep
      <4>2. c[1] \in Nodes /\ c[2] \in Nodes /\ S[c[1]] \subseteq S[c[2]]
        BY <1>0, <1>f
      <4> QED
        BY <4>1, <4>2, <2>2
    <3> QED
      BY <3>1, <2>1, MergeStep
  <2>4. NewPts
    <3>1. ASSUME NEW n \in Nodes, NEW o \in pts'[n] PROVE o \in S[n]
      <4>1. o \in pts[n] \/ \E m \in Reps : root[m] = n /\ o \in pts[m]
        BY <2>1, MergeStep
      <4>2. Reps \subseteq Nodes
        BY DEF Shape, TypeOK, Canonical
      <4> QED
        BY <4>1, <4>2, <2>2, <1>f
    <3> QED
      BY <3>1
  <2>5. ASSUME NEW d \in derefs', NEW o \in S[d.ptr] \ graph.opaque
        PROVE  S[CopyFor(d, o)[1]] \subseteq S[CopyFor(d, o)[2]]
    <3>1. PICK c \in derefs : d = [kind |-> c.kind, ptr |-> root[c.ptr], val |-> root[c.val]]
      BY <2>1 DEF MergeCycles, MovedDerefs
    <3>2. /\ c.ptr \in Nodes /\ c.val \in Nodes /\ d.kind = c.kind
          /\ d.ptr = root[c.ptr] /\ d.val = root[c.val]
      BY <3>1, <1>0 DEF Derefs
    <3>3. o \in S[c.ptr] \ graph.opaque /\ S[d.val] = S[c.val]
      BY <3>2, <2>2
    <3>4. S[CopyFor(c, o)[1]] \subseteq S[CopyFor(c, o)[2]]
      BY <3>3, <1>f
    <3> QED
      BY <3>2, <3>3, <3>4 DEF CopyFor
  <2> QED
    BY <2>2, <2>3, <2>4, <2>5, <1>s, <1>g DEF Forced
<1>3. CASE Visit
  <2>1. ASSUME NEW n \in Nodes, NEW o \in pts'[n] PROVE o \in S[n]
    <3>1. CASE o \in pts[n]
      BY <3>1, <1>f
    <3>2. CASE o \notin pts[n]
      <4>1. PICK e \in copies : e[2] = n /\ o \in pts[e[1]]
        BY <3>2, <1>3, VisitStep
      <4> QED
        BY <4>1, <1>0, <1>f
    <3> QED
      BY <3>1, <3>2
  <2>2. Kept /\ copies' = copies
    BY <1>3 DEF Visit
  <2> QED
    BY <2>1, <2>2, <1>f, <1>k
<1>4. ASSUME NEW w \in Nodes, Pop(w) PROVE FALSE
  BY <1>4, <1>f, <1>k DEF Pop
<1>5. ASSUME NEW d \in Derefs, HandleDeref(d) PROVE FALSE
  <2>1. Kept /\ d \in derefs
    BY <1>5 DEF HandleDeref, Shape, TypeOK, Canonical
  <2>2. ASSUME NEW e \in copies' PROVE S[e[1]] \subseteq S[e[2]]
    <3>1. CASE e \in copies
      BY <3>1, <1>f
    <3>2. CASE e \notin copies
      <4>1. PICK o \in pts[d.ptr] \ graph.opaque : e = CopyFor(d, rep[o])
        BY <3>2, <1>5, DerefStep
      <4>2. d.ptr \in Nodes /\ d.val \in Nodes
        BY <2>1, <1>0 DEF Derefs
      <4>3. o \in Nodes /\ o \in S[d.ptr] \ graph.opaque /\ S[rep[o]] = S[o]
        BY <4>1, <4>2, <1>0, <1>f
      <4>4. S[CopyFor(d, o)[1]] \subseteq S[CopyFor(d, o)[2]]
        BY <4>3, <2>1, <1>f
      <4> QED
        BY <4>1, <4>3, <4>4 DEF CopyFor
    <3> QED
      BY <3>1, <3>2
  <2>3. ASSUME NEW n \in Nodes, NEW o \in pts'[n] PROVE o \in S[n]
    <3>1. CASE o \in pts[n]
      BY <3>1, <1>f
    <3>2. CASE o \notin pts[n]
      <4>1. PICK e \in copies' \ copies : e[2] = n /\ o \in pts[e[1]]
        BY <3>2, <1>5, DerefStep
      <4>2. e[1] \in Nodes /\ e[2] \in Nodes
        BY <4>1, <1>5, DerefStep DEF Shape, TypeOK, Canonical
      <4> QED
        BY <4>1, <4>2, <2>2, <1>f
    <3> QED
      BY <3>1, <3>2
  <2> QED
    BY <2>1, <2>2, <2>3, <1>k
<1>6. CASE UpdateCallGraph
  <2>1. ASSUME NEW e \in copies' PROVE S[e[1]] \subseteq S[e[2]]
    <3>1. CASE e \in copies
      BY <3>1, <1>f
    <3>2. CASE e \notin copies
      <4>1. PICK c \in NewCalls : e \in MovedEdges(rep, c.links)
        BY <3>2, <1>6 DEF UpdateCallGraph, NoLoops
      <4>2. PICK l \in c.links : e = <<rep[l[1]], rep[l[2]]>>
        BY <4>1 DEF MovedEdges
      <4>3. /\ c \in graph.calls /\ c.fp \in Nodes /\ l[1] \in Nodes /\ l[2] \in Nodes
            /\ c.fun \in pts[rep[c.fp]]
        BY GraphTyped DEF NewCalls, Edges, Shape
      <4>4. c.fun \in S[c.fp]
        BY <4>3, <1>0, <1>f
      <4>5. S[l[1]] \subseteq S[l[2]]
        BY <4>3, <4>4, <1>0 DEF IsSolution
      <4> QED
        BY <4>2, <4>3, <4>5, <1>f
    <3> QED
      BY <3>1, <3>2
  <2>2. Kept /\ pts' = pts
    BY <1>6 DEF UpdateCallGraph
  <2> QED
    BY <2>1, <2>2, <1>f, <1>k
<1>7. ASSUME NEW e \in Edges, Link(e) PROVE FALSE
  <2>1. Kept /\ copies' = copies
    BY <1>7 DEF Link
  <2>2. /\ e \in copies /\ e[1] \in Nodes
        /\ \A n \in Nodes : pts'[n] = IF n = e[2] THEN pts[n] \cup pts[e[1]] ELSE pts[n]
    BY <1>7, LinkStep
  <2> QED
    BY <2>1, <2>2, <1>f, <1>k
<1>8. CASE EndIteration
  BY <1>8, <1>f, <1>k DEF EndIteration
<1>9. CASE UNCHANGED vars
  BY <1>9, <1>f, <1>k DEF vars
<1> QED
  BY <1>1, <1>2, <1>3, <1>4, <1>5, <1>6, <1>7, <1>8, <1>9 DEF Next

LEMMA InitForced == Init => Forced
<1> SUFFICES ASSUME Init PROVE Forced
  OBVIOUS
<1>1. IsSolution(graph, Reference(graph)) /\ copies \subseteq graph.copy
  BY InitShape, ReferenceSolves DEF Shape, Init, NoLoops
<1> QED
  BY <1>1 DEF Forced, Init, IsSolution

\* Whatever solution of the constraints is taken as the reference, the
\* analysis never gives a node an object the solution does not.
THEOREM NothingInvented == Spec => []Precise
<1>1. Init => Shape /\ Forced
  BY InitShape, InitForced
<1>2. Shape /\ [Next]_vars => Shape'
  BY NextShape
<1>3. Shape /\ Forced /\ [Next]_vars => Forced'
  BY NextForced
<1>4. Shape /\ Forced => Precise
  BY DEF Shape, TypeOK, Forced, Precise, Solution
<1> QED
  BY <1>1, <1>2, <1>3, <1>4, PTL DEF Spec

-----------------------------------------------------------------------------
(* No constraint is lost: each one of the program is an edge of the graph  *)
(* of representatives, and so is each object a dereference was handled for.*)

Joined(u, v) == rep[u] = rep[v] \/ <<rep[u], rep[v]>> \in copies

Moved(d) == [kind |-> d.kind, ptr |-> rep[d.ptr], val |-> rep[d.val]]

Covers ==
    /\ stage # "addr" => \A e \in graph.addr : e[1] \in pts[rep[e[2]]]
    /\ \A e \in graph.copy : Joined(e[1], e[2])
    /\ \A d \in graph.deref : Moved(d) \in derefs
    /\ \A c \in connected : \A l \in c.links : Joined(l[1], l[2])
    /\ \A c \in cache : c[2] \notin graph.opaque =>
          Joined(CopyFor(c[1], c[2])[1], CopyFor(c[1], c[2])[2])

LEMMA JoinedKept ==
  ASSUME Shape, [Next]_vars, NEW u \in Nodes, NEW v \in Nodes, Joined(u, v)
  PROVE  Joined(u, v)'
<1>1. CASE DetectCycles
  <2>1. PICK root : IsMerge(root) /\ MergeCycles(root)
    BY <1>1, DetectCyclesMerges DEF Shape
  <2>2. rep' = root /\ root[rep[u]] = root[u] /\ root[rep[v]] = root[v]
    BY <2>1, MergeStep DEF IsMerge
  <2>3. rep[u] \in Nodes /\ rep[v] \in Nodes
    BY DEF Shape, TypeOK
  <2>4. <<rep[u], rep[v]>> \in copies =>
          root[u] = root[v] \/ <<root[u], root[v]>> \in copies'
    BY <2>1, <2>2, <2>3, MergeStep
  <2> QED
    BY <2>2, <2>4 DEF Joined
<1>2. CASE ~ DetectCycles
  <2>1. rep' = rep /\ copies \subseteq copies'
    BY <1>2 DEF Next, vars, ProcessAllAddr, Visit, Pop, HandleDeref,
                UpdateCallGraph, Link, EndIteration
  <2> QED
    BY <2>1 DEF Joined
<1> QED
  BY <1>1, <1>2

LEMMA PtsKept ==
  ASSUME Shape, [Next]_vars, stage # "addr", NEW n \in Nodes
  PROVE  pts[rep[n]] \subseteq pts'[rep'[n]]
<1>0. rep[n] \in Reps /\ Reps \subseteq Nodes /\ rep \in [Nodes -> Nodes]
  BY DEF Shape, TypeOK, Canonical, Reps
<1>1. CASE DetectCycles
  <2>1. PICK root : IsMerge(root) /\ MergeCycles(root)
    BY <1>1, DetectCyclesMerges DEF Shape
  <2> QED
    BY <1>0, <2>1, MergeStep DEF IsMerge
<1>2. CASE ~ DetectCycles
  <2>1. rep' = rep
    BY <1>2 DEF Next, vars, ProcessAllAddr, Visit, Pop, HandleDeref,
                UpdateCallGraph, Link, EndIteration
  <2>2. CASE Visit
    BY <1>0, <2>1, <2>2, VisitStep
  <2>3. ASSUME NEW d \in Derefs, HandleDeref(d) PROVE pts[rep[n]] \subseteq pts'[rep[n]]
    BY <1>0, <2>3, DerefStep
  <2>4. ASSUME NEW e \in Edges, Link(e) PROVE pts[rep[n]] \subseteq pts'[rep[n]]
    BY <1>0, <2>4, LinkStep
  <2>5. CASE UNCHANGED pts
    BY <2>1, <2>5
  <2> QED
    BY <1>2, <2>1, <2>2, <2>3, <2>4, <2>5
    DEF Next, vars, ProcessAllAddr, Pop, UpdateCallGraph, EndIteration
<1> QED
  BY <1>1, <1>2

LEMMA NextCovers ==
  ASSUME Shape, Covers, [Next]_vars PROVE Covers'
<1>0. /\ graph.addr \subseteq Nodes \X Nodes /\ graph.copy \subseteq Nodes \X Nodes
      /\ graph.deref \subseteq Derefs /\ connected \subseteq Calls
      /\ cache \subseteq Derefs \X Nodes /\ rep \in [Nodes -> Nodes]
  BY GraphTyped DEF Shape, TypeOK, Edges
<1>g. graph' = graph
  BY DEF Next, vars, ProcessAllAddr, DetectCycles, Visit, Pop, HandleDeref,
         UpdateCallGraph, Link, EndIteration
<1>1. stage' # "addr" => \A e \in graph.addr : e[1] \in pts'[rep'[e[2]]]
  <2>1. CASE stage = "addr"
    <3>1. CASE ProcessAllAddr
      <4>1. ASSUME NEW e \in graph.addr PROVE e[1] \in pts'[rep'[e[2]]]
        <5>1. e[2] \in Nodes /\ rep'[e[2]] = rep[e[2]] /\ rep[e[2]] \in Nodes
          BY <1>0, <3>1 DEF ProcessAllAddr
        <5>2. pts' = [n \in Nodes |-> {x[1] : x \in {a \in graph.addr : a[2] = n}}]
          BY <3>1 DEF ProcessAllAddr
        <5>3. rep[e[2]] = e[2]
          BY <2>1, <1>0 DEF Shape, Idle
        <5> QED
          BY <5>1, <5>2, <5>3
      <4> QED
        BY <4>1
    <3>2. CASE ~ ProcessAllAddr
      BY <2>1, <3>2 DEF Next, vars, DetectCycles, Visit, Pop, HandleDeref,
         UpdateCallGraph, Link, EndIteration
    <3> QED
      BY <3>1, <3>2
  <2>2. CASE stage # "addr"
    BY <2>2, <1>0, PtsKept DEF Covers
  <2> QED
    BY <2>1, <2>2
<1>2. \A e \in graph.copy : Joined(e[1], e[2])'
  BY <1>0, JoinedKept DEF Covers
<1>3. \A d \in graph.deref : Moved(d)' \in derefs'
  <2>1. CASE DetectCycles
    <3>1. PICK root : IsMerge(root) /\ MergeCycles(root)
      BY <2>1, DetectCyclesMerges DEF Shape
    <3>2. ASSUME NEW d \in graph.deref PROVE Moved(d)' \in derefs'
      <4>1. d.ptr \in Nodes /\ d.val \in Nodes /\ Moved(d) \in derefs
        BY <1>0 DEF Covers, Derefs
      <4>2. root[rep[d.ptr]] = root[d.ptr] /\ root[rep[d.val]] = root[d.val] /\ rep' = root
        BY <4>1, <3>1 DEF IsMerge, MergeCycles
      <4>3. [kind |-> d.kind, ptr |-> root[rep[d.ptr]], val |-> root[rep[d.val]]] \in derefs'
        BY <4>1, <3>1 DEF MergeCycles, MovedDerefs, Moved
      <4> QED
        BY <4>2, <4>3 DEF Moved
    <3> QED
      BY <3>2
  <2>2. CASE ~ DetectCycles
    <3>1. rep' = rep /\ derefs' = derefs
      BY <2>2 DEF Next, vars, ProcessAllAddr, Visit, Pop, HandleDeref,
                  UpdateCallGraph, Link, EndIteration
    <3> QED
      BY <3>1 DEF Covers, Moved
  <2> QED
    BY <2>1, <2>2
<1>4. \A c \in connected' : \A l \in c.links : Joined(l[1], l[2])'
  <2>1. ASSUME NEW c \in connected, NEW l \in c.links PROVE Joined(l[1], l[2])'
    <3>1. l[1] \in Nodes /\ l[2] \in Nodes
      BY <1>0 DEF Calls, Edges
    <3> QED
      BY <3>1, JoinedKept DEF Covers
  <2>2. CASE UpdateCallGraph
    <3>1. ASSUME NEW c \in NewCalls, NEW l \in c.links PROVE Joined(l[1], l[2])'
      <4>1. <<rep[l[1]], rep[l[2]]>> \in MovedEdges(rep, c.links)
        BY DEF MovedEdges
      <4>2. rep' = rep /\ (rep[l[1]] = rep[l[2]] \/ <<rep[l[1]], rep[l[2]]>> \in copies')
        BY <4>1, <2>2 DEF UpdateCallGraph, NoLoops
      <4> QED
        BY <4>2 DEF Joined
    <3> QED
      BY <2>1, <2>2, <3>1 DEF UpdateCallGraph
  <2>3. CASE ~ UpdateCallGraph
    <3>1. connected' = connected
      BY <2>3 DEF Next, vars, ProcessAllAddr, DetectCycles, Visit, Pop, HandleDeref,
                  Link, EndIteration
    <3> QED
      BY <3>1, <2>1
  <2> QED
    BY <2>2, <2>3
<1>5. \A c \in cache' : c[2] \notin graph.opaque =>
        Joined(CopyFor(c[1], c[2])[1], CopyFor(c[1], c[2])[2])'
  <2>1. ASSUME NEW c \in cache, c[2] \notin graph.opaque
        PROVE  Joined(CopyFor(c[1], c[2])[1], CopyFor(c[1], c[2])[2])'
    <3>1. CopyFor(c[1], c[2]) \in Nodes \X Nodes
      BY <1>0 DEF CopyFor, Derefs
    <3>2. Joined(CopyFor(c[1], c[2])[1], CopyFor(c[1], c[2])[2])
      BY <2>1 DEF Covers
    <3> QED
      BY <3>1, <3>2, JoinedKept
  <2>2. ASSUME NEW d \in Derefs, HandleDeref(d), NEW c \in cache', c[2] \notin graph.opaque
        PROVE  Joined(CopyFor(c[1], c[2])[1], CopyFor(c[1], c[2])[2])'
    <3>1. CASE c \in cache
      BY <3>1, <2>2, <2>1
    <3>2. CASE c \notin cache
      <4>1. PICK o \in NewObjects(d) : c = <<d, o>>
        BY <3>2, <2>2 DEF HandleDeref
      <4>2. /\ d \in derefs /\ o \in Nodes /\ rep' = rep
        BY <4>1, <2>2 DEF HandleDeref, NewObjects, Shape, TypeOK, Canonical, Derefs
      <4>3. rep[d.val] = d.val
        BY <4>2 DEF Shape, TypeOK, Canonical
      <4>4. LET e == CopyFor(d, rep[o]) IN e[1] = e[2] \/ e \in copies'
        BY <4>1, <2>2, DerefStep
      <4> QED
        BY <4>1, <4>2, <4>3, <4>4 DEF Joined, CopyFor
    <3> QED
      BY <3>1, <3>2
  <2>3. CASE \A d \in Derefs : ~ HandleDeref(d)
    <3>1. cache' \subseteq cache
      BY <2>3 DEF Next, vars, ProcessAllAddr, DetectCycles, MergeCycles, Visit, Pop,
                  UpdateCallGraph, Link, EndIteration
    <3> QED
      BY <3>1, <2>1
  <2> QED
    BY <2>2, <2>3
<1> QED
  BY <1>g, <1>1, <1>2, <1>3, <1>4, <1>5 DEF Covers

LEMMA InitCovers == Init => Covers
<1> SUFFICES ASSUME Init PROVE Covers
  OBVIOUS
<1>1. graph.copy \subseteq Nodes \X Nodes /\ graph.deref \subseteq Derefs
  BY InitShape, GraphTyped DEF Shape, Edges
<1>2. ASSUME NEW e \in graph.copy PROVE Joined(e[1], e[2])
  <2>1. e[1] \in Nodes /\ e[2] \in Nodes /\ e = <<e[1], e[2]>>
    BY <1>1
  <2>2. rep[e[1]] = e[1] /\ rep[e[2]] = e[2] /\ (e[1] = e[2] \/ e \in copies)
    BY <2>1 DEF Init, NoLoops
  <2> QED
    BY <2>1, <2>2 DEF Joined
<1>3. ASSUME NEW d \in graph.deref PROVE Moved(d) \in derefs
  <2>1. d.ptr \in Nodes /\ d.val \in Nodes /\ d = [kind |-> d.kind, ptr |-> d.ptr, val |-> d.val]
    BY <1>1 DEF Derefs
  <2> QED
    BY <2>1 DEF Init, Moved
<1> QED
  BY <1>2, <1>3 DEF Init, Covers

-----------------------------------------------------------------------------
(* The wave: copies lead from visited nodes to unvisited ones only.  When  *)
(* no edge was added since the wave, every node has propagated all it has, *)
(* and every call its pointer resolves to is connected.                    *)

Wave ==
    /\ \A e \in copies : e[1] \in toVisit => e[2] \in toVisit
    /\ stage \in {"solve", "link", "done"} /\ ~ reanalyze =>
          \A n \in Reps \ toVisit : pts[n] \subseteq propa[n]
    /\ stage \in {"link", "done"} /\ ~ reanalyze =>
          \A c \in graph.calls : c.fun \in pts[rep[c.fp]] => c \in connected

LEMMA NextWave ==
  ASSUME Shape, Wave, [Next]_vars PROVE Wave'
<1>0. /\ copies \subseteq Reps \X Reps /\ Reps \subseteq Nodes /\ toVisit \subseteq Reps
      /\ reanalyze \in BOOLEAN
  BY DEF Shape, TypeOK, Canonical, NoLoops
<1>1. CASE ProcessAllAddr
  BY <1>1 DEF ProcessAllAddr, Shape, Idle, Wave
<1>2. CASE DetectCycles
  <2>1. PICK root : IsMerge(root) /\ MergeCycles(root)
    BY <1>2, DetectCyclesMerges DEF Shape
  <2>2. rep' = root /\ root \in [Nodes -> Nodes] /\ toVisit' = {root[n] : n \in Nodes}
    BY <2>1, MergeStep DEF IsMerge
  <2>3. Reps' = toVisit' /\ stage' = "solve"
    BY <2>2, <1>2 DEF Reps, DetectCycles
  <2>4. \A e \in copies' : e[2] \in toVisit'
    <3>1. ASSUME NEW e \in copies' PROVE \E c \in Nodes : e[2] = root[c]
      BY <2>1, <1>0, MergeStep
    <3> QED
      BY <3>1, <2>2
  <2> QED
    BY <2>3, <2>4 DEF Wave
<1>3. CASE Visit
  <2>1. /\ UNCHANGED <<graph, stage, copies, rep, connected, reanalyze>>
        /\ toVisit' = toVisit \ Ready /\ stage = "solve"
    BY <1>3 DEF Visit
  <2>2. \A e \in copies : e[1] \in toVisit' => e[2] \in toVisit'
    BY <2>1 DEF Wave, Ready
  <2>3. ASSUME ~ reanalyze, NEW n \in Reps \ toVisit' PROVE pts'[n] \subseteq propa'[n]
    <3>1. n \in Nodes /\ pts[n] \subseteq pts'[n]
      BY <1>0, <1>3, VisitStep
    <3>2. pts'[n] \subseteq pts[n]
      <4> SUFFICES ASSUME NEW o \in pts'[n] \ pts[n] PROVE FALSE
        OBVIOUS
      <4>1. PICK e \in copies : e[1] \in Ready /\ e[2] = n
        BY <3>1, <1>3, VisitStep
      <4>2. e[1] \in toVisit /\ n \in toVisit
        BY <4>1 DEF Ready, Wave
      <4>3. n \in Ready
        BY <4>2, <2>1, <2>3
      <4> QED
        BY <4>1, <4>2, <4>3 DEF Ready
    <3>3. propa'[n] = IF n \in Ready THEN pts[n] ELSE propa[n]
      BY <3>1, <1>3, VisitStep
    <3>4. n \in Ready \/ pts[n] \subseteq propa[n]
      BY <2>1, <2>3 DEF Wave
    <3> QED
      BY <3>2, <3>3, <3>4
  <2>4. Reps' = Reps
    BY <2>1 DEF Reps
  <2> QED
    BY <2>1, <2>2, <2>3, <2>4 DEF Wave
<1>4. ASSUME NEW w \in Nodes, Pop(w) PROVE Wave'
  BY <1>4 DEF Pop, Wave, Reps
<1>5. ASSUME NEW d \in Derefs, HandleDeref(d) PROVE Wave'
  <2>1. /\ UNCHANGED <<graph, stage, rep, propa, toVisit, connected>> /\ d \in todo
        /\ stage = "solve"
    BY <1>5 DEF HandleDeref
  <2>2. toVisit = {} /\ Reps' = Reps
    BY <2>1 DEF Shape, Idle, Reps
  <2>3. ~ reanalyze' => ~ reanalyze /\ pts' = pts
    BY <1>5, DerefStep
  <2> QED
    BY <2>1, <2>2, <2>3 DEF Wave
<1>6. CASE UpdateCallGraph
  <2>1. /\ UNCHANGED <<graph, rep, pts, propa, toVisit>> /\ stage = "solve" /\ toVisit = {}
        /\ connected' = connected \cup NewCalls
        /\ reanalyze' = (reanalyze \/ NewCalls # {}) /\ stage' = "link"
    BY <1>6 DEF UpdateCallGraph
  <2>2. Reps' = Reps /\ (~ reanalyze' => ~ reanalyze /\ NewCalls = {})
    BY <2>1, <1>0 DEF Reps
  <2>3. \A c \in graph.calls : c.fun \in pts[rep[c.fp]] => c \in connected'
    BY <2>1 DEF NewCalls
  <2> QED
    BY <2>1, <2>2, <2>3 DEF Wave
<1>7. ASSUME NEW e \in Edges, Link(e) PROVE Wave'
  <2>1. UNCHANGED <<copies, toVisit, reanalyze>>
    BY <1>7 DEF Link
  <2>2. reanalyze
    BY <1>7, LinkStep
  <2> QED
    BY <2>1, <2>2 DEF Wave
<1>8. CASE EndIteration
  <2>1. /\ UNCHANGED <<graph, copies, rep, pts, propa, toVisit, connected, reanalyze>>
        /\ stage = "link" /\ (reanalyze => stage' = "detect")
    BY <1>8 DEF EndIteration
  <2>2. Reps' = Reps
    BY <2>1 DEF Reps
  <2> QED
    BY <2>1, <2>2 DEF Wave
<1>9. CASE UNCHANGED vars
  BY <1>9 DEF vars, Wave, Reps
<1> QED
  BY <1>1, <1>2, <1>3, <1>4, <1>5, <1>6, <1>7, <1>8, <1>9 DEF Next

-----------------------------------------------------------------------------
(* Every object of a dereferenced node has been handled for its loads and  *)
(* stores, or the node is still to be processed: as long as the only       *)
(* cycles merged are the program's own.  Those are all merged before the   *)
(* first wave, when every node that points to something is on the work     *)
(* list.                                                                   *)

Early == stage = "addr" \/ (stage = "detect" /\ ~ reanalyze)

Collapsed ==
    /\ Early => /\ \A n \in Nodes : rep[n] = n
                /\ copies = NoLoops(graph.copy)
                /\ \A n \in Nodes : pts[n] # {} => n \in worklist
    /\ ~ Early => \A u, v \in Nodes : v \in Components(graph.copy)[u] => rep[u] = rep[v]

Pending ==
    \A d \in derefs : \A o \in pts[d.ptr] :
       \/ <<d, o>> \in cache
       \/ d \in todo
       \/ \E w \in worklist : rep[w] = d.ptr

\* Loops make no difference to the components.
LEMMA LoopsDoNotMatter ==
  ASSUME NEW E PROVE Components(NoLoops(E)) = Components(E)
<1>1. ClosedSets(NoLoops(E)) = ClosedSets(E)
  BY DEF ClosedSets, NoLoops
<1> QED
  BY <1>1 DEF Components

LEMMA NextCollapsed ==
  ASSUME Shape, Collapsed, [Next]_vars PROVE Collapsed'
<1>g. graph' = graph
  BY DEF Next, vars, ProcessAllAddr, DetectCycles, Visit, Pop, HandleDeref,
         UpdateCallGraph, Link, EndIteration
<1>0. rep \in [Nodes -> Nodes] /\ reanalyze \in BOOLEAN
      /\ graph.addr \subseteq Nodes \X Nodes
  BY GraphTyped DEF Shape, TypeOK, Edges
<1>1. CASE ProcessAllAddr
  <2>1. /\ stage = "addr" /\ stage' = "detect" /\ rep' = rep /\ copies' = copies
        /\ reanalyze' = reanalyze /\ worklist' = {a[2] : a \in graph.addr}
        /\ pts' = [n \in Nodes |-> {e[1] : e \in {a \in graph.addr : a[2] = n}}]
    BY <1>1 DEF ProcessAllAddr
  <2>2. Early
    BY <2>1 DEF Early
  <2>3. \A n \in Nodes : pts'[n] # {} => n \in worklist'
    BY <2>1
  <2>4. CASE ~ reanalyze
    <3>1. Early'
      BY <2>1, <2>4 DEF Early
    <3> QED
      BY <2>1, <2>2, <2>3, <3>1, <1>g DEF Collapsed
  <2>5. CASE reanalyze
    BY <2>1, <2>5 DEF Shape, Idle
  <2> QED
    BY <2>4, <2>5
<1>2. CASE DetectCycles
  <2>1. PICK root : IsMerge(root) /\ MergeCycles(root)
    BY <1>2, DetectCyclesMerges DEF Shape
  <2>2. rep' = root /\ ~ Early' /\ stage = "detect"
    BY <2>1, <1>2, MergeStep DEF Early, DetectCycles
  <2>3. ASSUME NEW u \in Nodes, NEW v \in Nodes, v \in Components(graph.copy)[u]
        PROVE  root[u] = root[v]
    <3>1. CASE Early
      <4>1. /\ rep[u] = u /\ rep[v] = v
            /\ v \in Components(copies)[u]
        BY <3>1, <2>3, LoopsDoNotMatter DEF Collapsed
      <4>2. /\ root[u] \in Nodes /\ root[v] \in Nodes
            /\ root[u] \in Components(copies)[u] /\ root[v] \in Components(copies)[v]
        BY <4>1, <2>1 DEF IsMerge
      <4>3. u \in Components(copies)[root[u]]
        BY <4>2, ComponentIsClass
      <4>4. v \in Components(copies)[root[u]]
        BY <4>1, <4>2, <4>3, ComponentIsClass
      <4>5. root[v] \in Components(copies)[root[u]]
        BY <4>2, <4>4, ComponentIsClass
      <4> QED
        BY <4>5, <2>1 DEF IsMerge
    <3>2. CASE ~ Early
      <4>1. rep[u] = rep[v]
        BY <3>2, <2>3 DEF Collapsed
      <4> QED
        BY <4>1, <2>1 DEF IsMerge
    <3> QED
      BY <3>1, <3>2
  <2> QED
    BY <2>2, <2>3, <1>g DEF Collapsed
<1>3. CASE ~ ProcessAllAddr /\ ~ DetectCycles
  <2>1. rep' = rep /\ (Early' => Early) /\ (Early => Early')
    BY <1>3, <1>0 DEF Early, Next, vars, Visit, Pop, HandleDeref, UpdateCallGraph,
                      Link, EndIteration
  <2>2. Early => copies' = copies /\ pts' = pts /\ worklist' = worklist
    BY <1>3 DEF Early, Next, vars, Visit, Pop, HandleDeref, UpdateCallGraph,
                Link, EndIteration
  <2> QED
    BY <2>1, <2>2, <1>g DEF Collapsed
<1> QED
  BY <1>1, <1>2, <1>3

\* The first merge happens with everything on the work list; a later one
\* that merges no two nodes changes nothing.
LEMMA MergePending ==
  ASSUME Shape, Collapsed, ~ LateCycle => Pending, DetectCycles, ~ LateCycle'
  PROVE  Pending'
<1>1. PICK root : IsMerge(root) /\ MergeCycles(root)
  BY DetectCyclesMerges DEF Shape
<1>2. /\ rep' = root /\ worklist' = worklist /\ graph' = graph /\ stage = "detect"
      /\ root \in [Nodes -> Nodes] /\ rep \in [Nodes -> Nodes]
      /\ Reps \subseteq Nodes /\ \A n \in Reps : rep[n] = n
      /\ todo = {} /\ todo' = {} /\ derefs \subseteq Derefs
      /\ pts \in [Nodes -> SUBSET Nodes]
  BY <1>1, MergeStep DEF DetectCycles, IsMerge, Shape, TypeOK, Canonical, Idle
<1>3. \A n \in Nodes : \A o \in pts'[n] :
        o \in pts[n] \/ \E m \in Reps : root[m] = n /\ o \in pts[m]
  BY <1>1, MergeStep
<1>4. \A d \in derefs' : d.ptr \in Nodes /\ root[d.ptr] = d.ptr
  BY <1>1, <1>2 DEF MergeCycles, MovedDerefs, Derefs, IsMerge
<1>5. CASE Early
  <2>1. ASSUME NEW d \in derefs', NEW o \in pts'[d.ptr]
        PROVE  \E w \in worklist : root[w] = d.ptr
    <3>1. \E m \in Nodes : root[m] = d.ptr /\ o \in pts[m]
      BY <1>2, <1>3, <1>4
    <3>2. PICK m \in Nodes : root[m] = d.ptr /\ o \in pts[m]
      BY <3>1
    <3>3. m \in worklist
      BY <3>2, <1>5 DEF Collapsed
    <3> QED
      BY <3>2, <3>3
  <2> QED
    BY <2>1, <1>2 DEF Pending
<1>6. CASE ~ Early
  <2>1. \A u, v \in Nodes : root[u] = root[v] => v \in Components(graph.copy)[u]
    BY <1>2 DEF LateCycle
  <2>2. ASSUME NEW m \in Reps PROVE root[m] = m
    <3>1. m \in Nodes /\ root[m] \in Nodes /\ root[root[m]] = root[m]
      BY <1>1, <1>2 DEF IsMerge
    <3>2. root[m] \in Components(graph.copy)[m]
      BY <2>1, <3>1
    <3>3. rep[m] = rep[root[m]]
      BY <3>1, <3>2, <1>6 DEF Collapsed
    <3>4. root[m] \in Reps
      BY <1>1, <3>1 DEF IsMerge
    <3> QED
      BY <3>3, <3>4, <1>2
  <2>3. root = rep
    <3>1. ASSUME NEW n \in Nodes PROVE root[n] = rep[n]
      <4>1. rep[n] \in Reps /\ root[rep[n]] = root[n]
        BY <1>1 DEF Reps, IsMerge
      <4> QED
        BY <4>1, <2>2
    <3> QED
      BY <3>1, <1>2
  <2>4. derefs' = derefs
    <3>1. ASSUME NEW d \in derefs
          PROVE  [kind |-> d.kind, ptr |-> root[d.ptr], val |-> root[d.val]] = d
      <4>1. d.ptr \in Reps /\ d.val \in Reps /\ d = [kind |-> d.kind, ptr |-> d.ptr, val |-> d.val]
        BY <1>2 DEF Shape, TypeOK, Canonical, Derefs
      <4> QED
        BY <4>1, <2>2
    <3> QED
      BY <3>1, <1>1 DEF MergeCycles, MovedDerefs
  <2>5. ASSUME NEW d \in derefs PROVE d.ptr \in Reps /\ d.val \in Reps
    BY DEF Shape, TypeOK, Canonical
  <2>6. ASSUME NEW d \in derefs, NEW o \in pts'[d.ptr] PROVE o \in pts[d.ptr]
    BY <2>5, <2>2, <1>2, <1>3
  <2>7. ASSUME NEW d \in derefs, NEW o, <<d, o>> \in cache PROVE <<d, o>> \in cache'
    BY <2>5, <2>2, <2>7, <1>1 DEF MergeCycles
  <2>8. ~ LateCycle
    BY <2>1, <2>3 DEF LateCycle
  <2>9. Pending
    BY <2>8
  <2> QED
    BY <2>3, <2>4, <2>6, <2>7, <2>9, <1>2 DEF Pending
<1> QED
  BY <1>5, <1>6

LEMMA NextPending ==
  ASSUME Shape, Collapsed, ~ LateCycle => Pending, [Next]_vars, ~ LateCycle'
  PROVE  Pending'
<1>0. /\ \A d \in derefs : d.ptr \in Nodes /\ rep[d.ptr] = d.ptr
      /\ stage # "solve" => todo = {}
      /\ toVisit # {} => todo = {}
      /\ derefs \subseteq Derefs
  BY DEF Shape, TypeOK, Canonical, Idle
<1>1. CASE ~ DetectCycles
  <2>1. rep' = rep /\ graph' = graph /\ derefs' = derefs
    BY <1>1 DEF Next, vars, ProcessAllAddr, Visit, Pop, HandleDeref,
                UpdateCallGraph, Link, EndIteration
  <2>2. Pending
    BY <2>1 DEF LateCycle
  <2>3. CASE ProcessAllAddr
    <3>1. /\ \A n \in Nodes : rep[n] = n
          /\ worklist' = {a[2] : a \in graph.addr}
          /\ pts' = [n \in Nodes |-> {e[1] : e \in {a \in graph.addr : a[2] = n}}]
      BY <2>3 DEF ProcessAllAddr, Shape, Idle
    <3>2. ASSUME NEW n \in Nodes, NEW o \in pts'[n] PROVE n \in worklist'
      BY <3>1
    <3> QED
      BY <2>1, <3>1, <3>2, <1>0 DEF Pending
  <2>4. CASE Visit
    <3>1. cache' = cache /\ todo' = todo
      BY <2>4 DEF Visit
    <3>2. ASSUME NEW d \in derefs, NEW o \in pts'[d.ptr]
          PROVE  o \in pts[d.ptr] \/ d.ptr \in worklist'
      BY <1>0, <2>4, VisitStep
    <3>3. worklist \subseteq worklist'
      BY <2>4, VisitStep
    <3> QED
      BY <2>1, <2>2, <3>1, <3>2, <3>3, <1>0 DEF Pending
  <2>5. ASSUME NEW w \in Nodes, Pop(w) PROVE Pending'
    <3>1. /\ pts' = pts /\ cache' = cache /\ todo = {} /\ w \in worklist
          /\ worklist' = worklist \ {w} /\ todo' = {d \in derefs : d.ptr = rep[w]}
      BY <2>5 DEF Pop
    <3> QED
      BY <2>1, <2>2, <3>1 DEF Pending
  <2>6. ASSUME NEW t \in Derefs, HandleDeref(t) PROVE Pending'
    <3>1. /\ cache' = cache \cup {<<t, o>> : o \in NewObjects(t)}
          /\ todo' = todo \ {t} /\ worklist \subseteq worklist'
      BY <2>6, DerefStep DEF HandleDeref
    <3>2. ASSUME NEW d \in derefs, NEW o \in pts'[d.ptr]
          PROVE  o \in pts[d.ptr] \/ d.ptr \in worklist'
      BY <1>0, <2>6, DerefStep
    <3>3. ASSUME NEW o \in pts[t.ptr] PROVE <<t, o>> \in cache'
      BY <3>1 DEF NewObjects
    <3> QED
      BY <2>1, <2>2, <3>1, <3>2, <3>3, <1>0 DEF Pending
  <2>7. CASE UpdateCallGraph
    BY <2>1, <2>2, <2>7 DEF Pending, UpdateCallGraph
  <2>8. ASSUME NEW e \in Edges, Link(e) PROVE Pending'
    <3>1. cache' = cache /\ todo' = todo
      BY <2>8 DEF Link
    <3>2. ASSUME NEW d \in derefs, NEW o \in pts'[d.ptr]
          PROVE  o \in pts[d.ptr] \/ d.ptr \in worklist'
      BY <1>0, <2>8, LinkStep
    <3>3. worklist \subseteq worklist'
      BY <2>8, LinkStep
    <3> QED
      BY <2>1, <2>2, <3>1, <3>2, <3>3, <1>0 DEF Pending
  <2>9. CASE EndIteration
    BY <2>1, <2>2, <2>9 DEF Pending, EndIteration
  <2>10. CASE UNCHANGED vars
    BY <2>1, <2>2, <2>10 DEF Pending, vars
  <2> QED
    BY <1>1, <2>3, <2>4, <2>5, <2>6, <2>7, <2>8, <2>9, <2>10 DEF Next
<1> QED
  BY <1>1, MergePending

-----------------------------------------------------------------------------
(* An analysis that met no late cycle has solved everything.               *)

Complete == /\ Shape /\ PropagatedReached /\ Covers /\ Wave /\ Collapsed
            /\ (~ LateCycle => Pending)

LEMMA CompleteSolves ==
  ASSUME Complete PROVE SolvedUnlessLateCycle
<1> SUFFICES ASSUME stage = "done", ~ LateCycle
             PROVE  IsSolution(graph, Solution)
  BY DEF SolvedUnlessLateCycle
<1> USE DEF Complete
<1>1. /\ toVisit = {} /\ todo = {} /\ toLink = {} /\ worklist = {} /\ ~ reanalyze
      /\ rep \in [Nodes -> Nodes] /\ pts \in [Nodes -> SUBSET Nodes]
      /\ copies \subseteq Reps \X Reps
      /\ \A n \in Nodes : rep[n] \in Reps
  BY DEF Shape, TypeOK, Canonical, Idle, NoLoops, Reps
<1>2. \A n \in Nodes : Solution[n] = pts[rep[n]]
  BY DEF Solution
<1>3. ASSUME NEW u \in Nodes, NEW v \in Nodes, Joined(u, v)
      PROVE  Solution[u] \subseteq Solution[v]
  <2>1. CASE rep[u] = rep[v]
    BY <2>1, <1>2
  <2>2. CASE <<rep[u], rep[v]>> \in copies
    <3>1. pts[rep[u]] \subseteq propa[rep[u]]
      BY <1>1 DEF Wave
    <3>2. propa[rep[u]] \subseteq pts[rep[v]]
      BY <2>2, <1>1 DEF PropagatedReached
    <3> QED
      BY <3>1, <3>2, <1>2
  <2> QED
    BY <1>3, <2>1, <2>2 DEF Joined
<1>4. /\ graph.addr \subseteq Nodes \X Nodes /\ graph.copy \subseteq Nodes \X Nodes
      /\ graph.deref \subseteq Derefs /\ graph.calls \subseteq Calls
      /\ \A c \in graph.calls : c.links \subseteq Nodes \X Nodes /\ c.fp \in Nodes
  BY GraphTyped DEF Shape, Edges
<1>5. ASSUME NEW e \in graph.addr PROVE e[1] \in Solution[e[2]]
  BY <1>2, <1>4 DEF Covers
<1>6. ASSUME NEW e \in graph.copy PROVE Solution[e[1]] \subseteq Solution[e[2]]
  <2>1. e[1] \in Nodes /\ e[2] \in Nodes /\ Joined(e[1], e[2])
    BY <1>4 DEF Covers
  <2> QED
    BY <2>1, <1>3
<1>7. ASSUME NEW d \in graph.deref, NEW o \in Solution[d.ptr] \ graph.opaque
      PROVE  Solution[CopyFor(d, o)[1]] \subseteq Solution[CopyFor(d, o)[2]]
  <2>1. d.ptr \in Nodes /\ d.val \in Nodes /\ Moved(d) \in derefs
    BY <1>4 DEF Covers, Derefs
  <2>2. o \in pts[rep[d.ptr]] /\ o \in Nodes /\ o \notin graph.opaque
    BY <2>1, <1>1, <1>2, <1>7
  <2>3. <<Moved(d), o>> \in cache
    BY <2>1, <2>2, <1>1 DEF Pending, Moved
  <2>4. Joined(CopyFor(Moved(d), o)[1], CopyFor(Moved(d), o)[2])
    BY <2>2, <2>3 DEF Covers
  <2>5. rep[rep[d.val]] = rep[d.val]
    BY <2>1, <1>1 DEF Shape, TypeOK, Canonical
  <2>6. Joined(CopyFor(d, o)[1], CopyFor(d, o)[2])
    BY <2>4, <2>5 DEF CopyFor, Moved, Joined
  <2>7. CopyFor(d, o)[1] \in Nodes /\ CopyFor(d, o)[2] \in Nodes
    BY <2>1, <2>2 DEF CopyFor
  <2> QED
    BY <2>6, <2>7, <1>3
<1>8. ASSUME NEW c \in graph.calls, c.fun \in Solution[c.fp], NEW l \in c.links
      PROVE  Solution[l[1]] \subseteq Solution[l[2]]
  <2>1. c \in connected
    BY <1>1, <1>2, <1>4, <1>8 DEF Wave
  <2>2. l[1] \in Nodes /\ l[2] \in Nodes /\ Joined(l[1], l[2])
    BY <2>1, <1>4 DEF Covers
  <2> QED
    BY <2>2, <1>3
<1>9. Solution \in [Nodes -> SUBSET Nodes]
  BY <1>1 DEF Solution
<1> QED
  BY <1>5, <1>6, <1>7, <1>8, <1>9 DEF IsSolution

LEMMA InitComplete == Init => Complete
<1> SUFFICES ASSUME Init PROVE Complete
  OBVIOUS
<1>1. Shape /\ Covers
  BY InitShape, InitCovers
<1>2. PropagatedReached
  BY <1>1 DEF Init, PropagatedReached, Shape, TypeOK, Edges
<1>3. Wave
  BY DEF Init, Wave
<1>4. Early
  BY DEF Init, Early
<1>5. Collapsed
  BY <1>4 DEF Init, Collapsed
<1>6. Pending
  BY <1>1 DEF Init, Pending, Shape, TypeOK, Derefs
<1> QED
  BY <1>1, <1>2, <1>3, <1>5, <1>6 DEF Complete

LEMMA NextComplete ==
  ASSUME Complete, [Next]_vars PROVE Complete'
BY NextShape, NextPropagated, NextCovers, NextWave, NextCollapsed, NextPending DEF Complete

\* At its end the analysis satisfies every constraint of every program,
\* unless it merged a cycle that its own copy edges closed.  With
\* NothingInvented: it has computed the least solution.
THEOREM SolvedWithoutLateCycles == Spec => []SolvedUnlessLateCycle
<1>1. Init => Complete
  BY InitComplete
<1>2. Complete /\ [Next]_vars => Complete'
  BY NextComplete
<1>3. Complete => SolvedUnlessLateCycle
  BY CompleteSolves
<1> QED
  BY <1>1, <1>2, <1>3, PTL DEF Spec
=============================================================================
