------------------------------- MODULE MHPProofs -------------------------------
(***************************************************************************)
(* The walks of the fork-join and of the interleaving analysis, for every  *)
(* program: they meet statements only under contexts for which the thread  *)
(* creation tree has the nodes they look up.  Then, of programs without    *)
(* joins, which other threads they have met at a statement (SpreadInv).    *)
(***************************************************************************)
EXTENDS ContextProofs

\* CxtStmts a walk may meet.
OnWalk(S) ==
    \A cs \in S : /\ cs = <<cs[1], cs[2]>> /\ cs[2] \in Stmts
                  /\ <<cs[1], FunOf(cs[2])>> \in Walked

\* Finitely many of them, that a step may go to.
WalkTargets(T) == IsFiniteSet(T) /\ OnWalk(T)

-----------------------------------------------------------------------------
(* Where a statement goes on.                                              *)

LEMMA WalkInFunction ==
    ASSUME ProgInv, NEW c, NEW f, <<c, f>> \in Walked, NEW S, S \subseteq Stmts,
           \A s \in S : FunOf(s) = f
    PROVE  WalkTargets(At(c, S))
<1>1. IsFiniteSet(S)
  BY StmtsFinite, FS_Subset DEF ProgInv
<1>2. IsFiniteSet(At(c, S))
  <2> DEFINE g == [t \in S |-> <<c, t>>]
  <2>1. At(c, S) = {g[t] : t \in S}
    BY DEF At
  <2> HIDE DEF g
  <2> QED  BY <1>1, <2>1, FiniteImage
<1>3. OnWalk(At(c, S))
  BY DEF OnWalk, At
<1> QED  BY <1>2, <1>3 DEF WalkTargets

LEMMA WalkNext ==
    ASSUME ProgInv, NEW c, NEW s \in Stmts, <<c, FunOf(s)>> \in Walked
    PROVE  WalkTargets(At(c, getNextInsts(s)))
<1>1. getNextInsts(s) \subseteq Stmts /\ \A t \in getNextInsts(s) : FunOf(t) = FunOf(s)
  BY NextFacts DEF ProgInv
<1> QED  BY <1>1, WalkInFunction

LEMMA WalkExits ==
    ASSUME ProgInv, NEW c, NEW j \in Sites({"join"}), <<c, FunOf(j)>> \in Walked,
           getJoinLoop(j) # NoSite
    PROVE  WalkTargets(At(c, getExitBlocks(getJoinLoop(j))))
<1> DEFINE S == getExitBlocks(getJoinLoop(j))
<1>1. S \subseteq Stmts /\ \A t \in S : FunOf(t) = FunOf(j)
  BY ExitFacts
<1> HIDE DEF S
<1> QED  BY <1>1, WalkInFunction DEF S

LEMMA WalkEntry ==
    ASSUME ProgInv, NEW c, NEW f, <<c, f>> \in Walked
    PROVE  Entry(f) \in Stmts /\ FunOf(Entry(f)) = f /\ WalkTargets({<<c, Entry(f)>>})
<1>1. f \in Funs
  BY WalkedFacts
<1>2. Entry(f) \in Stmts /\ FunOf(Entry(f)) = f
  BY <1>1, StmtFacts DEF ProgInv
<1>3. At(c, {Entry(f)}) = {<<c, Entry(f)>>}
  BY DEF At
<1> DEFINE e == Entry(f)
<1>4. {e} \subseteq Stmts /\ \A s \in {e} : FunOf(s) = f
  BY <1>2
<1> HIDE DEF e
<1>5. WalkTargets(At(c, {e}))
  BY <1>4, WalkInFunction
<1> QED  BY <1>2, <1>3, <1>5 DEF e

LEMMA WalkInto ==
    ASSUME ProgInv, NEW c, NEW s \in CallSites, <<c, FunOf(s)>> \in Walked
    PROVE  <<pushCxt(c, s), Callee(s)>> \in Walked
<1> DEFINE w == <<c, FunOf(s)>>
<1>1. w \in Walked /\ FunOf(s) = w[2] /\ w[1] = c
  OBVIOUS
<1> HIDE DEF w
<1> QED  BY <1>1, WalkedCall

LEMMA WalkReturn ==
    ASSUME ProgInv, NEW c, NEW f, <<c, f>> \in Walked
    PROVE  WalkTargets(ReturnTargets(c, f))
<1>1. ASSUME NEW x \in ReturnTargets(c, f)
      PROVE  /\ x[1] \in {c, Front(c)} /\ x[2] \in Stmts /\ x = <<x[1], x[2]>>
             /\ <<x[1], FunOf(x[2])>> \in Walked
  <2>1. PICK site \in Sites({"call"}) : \E d \in matchCxt(c, site) :
            Callee(site) = f /\ x \in At(d, getNextInsts(site))
    BY DEF ReturnTargets
  <2>2. PICK d \in matchCxt(c, site) : Callee(site) = f /\ x \in At(d, getNextInsts(site))
    BY <2>1
  <2>3. PICK t \in getNextInsts(site) : x = <<d, t>>
    BY <2>2 DEF At
  <2>4. site \in CallSites /\ site \in Stmts
    BY DEF CallSites, Sites
  <2>5. t \in Stmts /\ FunOf(t) = FunOf(site)
    BY <2>4, NextFacts DEF ProgInv
  <2>6. <<d, FunOf(site)>> \in Walked
    <3> DEFINE w == <<c, f>>
    <3>1. w \in Walked /\ Callee(site) = w[2] /\ d \in matchCxt(w[1], site)
      BY <2>2
    <3> HIDE DEF w
    <3> QED  BY <2>4, <3>1, WalkedReturn
  <2>7. d \in {c, Front(c)}
    BY DEF matchCxt
  <2> QED  BY <2>3, <2>5, <2>6, <2>7
<1> DEFINE C == {c, Front(c)}
<1>2. IsFiniteSet(C \X Stmts)
  <2>1. IsFiniteSet(C)
    BY FiniteDoubleton
  <2>2. IsFiniteSet(Stmts)
    BY StmtsFinite DEF ProgInv
  <2> HIDE DEF C
  <2> QED  BY <2>1, <2>2, FS_Product
<1>3. ReturnTargets(c, f) \subseteq C \X Stmts
  <2> SUFFICES ASSUME NEW x \in ReturnTargets(c, f) PROVE x \in C \X Stmts
    OBVIOUS
  <2>1. x[1] \in C /\ x[2] \in Stmts /\ x = <<x[1], x[2]>>
    BY <1>1
  <2> HIDE DEF C
  <2> QED  BY <2>1
<1>4. IsFiniteSet(ReturnTargets(c, f))
  BY <1>2, <1>3, FS_Subset
<1> QED  BY <1>1, <1>4 DEF WalkTargets, OnWalk

-----------------------------------------------------------------------------
(* The fork-join analysis.                                                 *)

FlagInv ==
    /\ IsList(cxtStmtList) /\ ToSet(cxtStmtList) \subseteq DOMAIN flags
    /\ WalkTargets(DOMAIN flags)
    /\ \A cs \in DOMAIN flags : flags[cs] \in {"alive", "dead"}
    /\ root \in Tids \cup {0}
    /\ cxtStmtList # <<>> => stage = "fja" /\ root \in Tids /\ nodes[root].fork # NoSite
    /\ HBPair \cup HPPair \cup fullJoin \cup partialJoin \subseteq Tids \X Tids
    /\ directJoin \subseteq (Seq(CallSites) \X Sites({"join"})) \X Tids
    /\ symmetricJoin \subseteq Seq(CallSites) \X Sites({"join"})

\* Flags on what a walk may meet, that go on from others.
Flags(fl) == WalkTargets(DOMAIN fl) /\ \A cs \in DOMAIN fl : fl[cs] \in {"alive", "dead"}

LEMMA PutFacts ==
    ASSUME NEW f, NEW S, NEW v
    PROVE  /\ DOMAIN Put(f, S, v) = S \cup DOMAIN f
           /\ \A x \in S \cup DOMAIN f : Put(f, S, v)[x] = IF x \in S THEN v ELSE f[x]
  BY DEF Put

LEMMA FlagsPut ==
    ASSUME NEW fl, Flags(fl), NEW T, WalkTargets(T), NEW v \in {"alive", "dead"}
    PROVE  /\ Flags(Overwrite(fl, T, v)) /\ DOMAIN fl \subseteq DOMAIN Overwrite(fl, T, v)
           /\ Flags(Propagate(fl, T, v)) /\ DOMAIN fl \subseteq DOMAIN Propagate(fl, T, v)
<1>1. ASSUME NEW S, S \subseteq T
      PROVE  Flags(Put(fl, S, v)) /\ DOMAIN fl \subseteq DOMAIN Put(fl, S, v)
  <2>1. IsFiniteSet(S) /\ OnWalk(S)
    BY <1>1, FS_Subset DEF WalkTargets, OnWalk
  <2>2. IsFiniteSet(S \cup DOMAIN fl) /\ OnWalk(S \cup DOMAIN fl)
    BY <2>1, FS_Union DEF WalkTargets, OnWalk, Flags
  <2> DEFINE r == Put(fl, S, v)
  <2>3. DOMAIN r = S \cup DOMAIN fl /\ \A x \in S \cup DOMAIN fl : r[x] = IF x \in S THEN v ELSE fl[x]
    BY PutFacts
  <2> HIDE DEF r
  <2>4. \A x \in DOMAIN r : r[x] \in {"alive", "dead"}
    BY <2>3 DEF Flags
  <2>5. WalkTargets(DOMAIN r)
    BY <2>2, <2>3 DEF WalkTargets
  <2> QED  BY <2>3, <2>4, <2>5 DEF Flags, r
<1> QED  BY <1>1 DEF Overwrite, Propagate

\* A marking goes through one set of flags or through two.
LEMMA MarkFacts ==
    ASSUME FixedNext, NEW left, IsList(left), ToSet(left) \subseteq DOMAIN flags, NEW A, NEW B,
           Flags(A), Flags(B), DOMAIN flags \subseteq DOMAIN A, DOMAIN A \subseteq DOMAIN B,
           (Mark(<<A>>, left) /\ B = A) \/ Mark(<<A, B>>, left)
    PROVE  flags' = B /\ IsList(cxtStmtList') /\ ToSet(cxtStmtList') \subseteq DOMAIN flags'
<1>1. PICK steps, new :
        /\ flags' = B /\ new \subseteq DOMAIN B
        /\ \E order \in Orders(new) : cxtStmtList' = left \o order
  <2>1. CASE Mark(<<A>>, left) /\ B = A
    <3> DEFINE s == <<flags>> \o <<A>>
    <3>1. Len(s) = 2 /\ s[2] = A /\ s[1] = flags
      OBVIOUS
    <3>2. /\ flags' = Last(s)
          /\ \E order \in Orders(Pushed(s) \ ToSet(left)) : cxtStmtList' = left \o order
      BY <2>1 DEF Mark
    <3> HIDE DEF s
    <3>3. Pushed(s) \subseteq DOMAIN A
      BY <3>1 DEF Pushed
    <3> QED  BY <2>1, <3>1, <3>2, <3>3 DEF Last
  <2>2. CASE Mark(<<A, B>>, left)
    <3> DEFINE s == <<flags>> \o <<A, B>>
    <3>1. Len(s) = 3 /\ s[3] = B /\ s[2] = A /\ s[1] = flags
      OBVIOUS
    <3>2. /\ flags' = Last(s)
          /\ \E order \in Orders(Pushed(s) \ ToSet(left)) : cxtStmtList' = left \o order
      BY <2>2 DEF Mark
    <3> HIDE DEF s
    <3>3. Pushed(s) \subseteq DOMAIN B
      <4>1. \A n \in 2..3 : n = 2 \/ n = 3
        OBVIOUS
      <4> QED  BY <3>1, <4>1 DEF Pushed
    <3> QED  BY <3>1, <3>2, <3>3 DEF Last
  <2> QED  BY <2>1, <2>2
<1>2. IsFiniteSet(new)
  BY <1>1, FS_Subset DEF Flags, WalkTargets
<1>3. PICK order \in Orders(new) : cxtStmtList' = left \o order
  BY <1>1
<1>4. IsList(order) /\ ToSet(order) = new
  BY <1>2, OrderFacts
<1> QED  BY <1>1, <1>3, <1>4, ListConcat

\* What a step on a statement keeps.
LEMMA FlagStep ==
    ASSUME ProgInv, FlagInv, FixedNext, NEW cs, NEW kinds, Visiting(cs, kinds), NEW A, NEW B,
           Flags(A), Flags(B), DOMAIN flags \subseteq DOMAIN A, DOMAIN A \subseteq DOMAIN B,
           (Mark(<<A>>, Tail(cxtStmtList)) /\ B = A) \/ Mark(<<A, B>>, Tail(cxtStmtList)),
           HBPair' \cup HPPair' \cup fullJoin' \cup partialJoin' \subseteq Tids \X Tids,
           directJoin' \subseteq (Seq(CallSites) \X Sites({"join"})) \X Tids,
           symmetricJoin' \subseteq Seq(CallSites) \X Sites({"join"})
    PROVE  FlagInv'
<1>1. /\ stage = "fja" /\ stage' = stage /\ cxtStmtList # <<>> /\ root' = root
      /\ nodes' = nodes
  BY DEF Visiting, progVars, treeVars
<1>2. IsList(Tail(cxtStmtList)) /\ ToSet(Tail(cxtStmtList)) \subseteq DOMAIN flags
  BY <1>1, ListTail DEF FlagInv
<1>3. flags' = B /\ IsList(cxtStmtList') /\ ToSet(cxtStmtList') \subseteq DOMAIN flags'
  BY <1>2, MarkFacts
<1>4. WalkTargets(DOMAIN flags)'
  BY <1>3 DEF Flags, WalkTargets, OnWalk, FixedNext
<1>5. Tids' = Tids
  BY <1>1 DEF Tids
<1> QED  BY <1>1, <1>3, <1>4, <1>5 DEF FlagInv, Flags, FixedNext, IsList

\* What the analysis knows of the statement it takes.
LEMMA VisitedFacts ==
    ASSUME ProgInv, FlagInv, NEW cs, NEW kinds, Visiting(cs, kinds)
    PROVE  /\ cs = <<cs[1], cs[2]>> /\ cs[2] \in Stmts /\ <<cs[1], FunOf(cs[2])>> \in Walked
           /\ cs[1] \in Seq(CallSites)
           /\ cs \in DOMAIN flags /\ flags[cs] \in {"alive", "dead"} /\ Flags(flags)
           /\ root \in Tids /\ nodes[root].fork # NoSite /\ Op(cs[2]) \in kinds
           /\ stage = "fja"
<1>1. cs \in ToSet(cxtStmtList) /\ cxtStmtList # <<>> /\ Op(cs[2]) \in kinds /\ stage = "fja"
  BY ListTail DEF Visiting, FlagInv
<1>2. cs \in DOMAIN flags /\ flags[cs] \in {"alive", "dead"} /\ Flags(flags)
  BY <1>1 DEF FlagInv, Flags
<1>3. cs = <<cs[1], cs[2]>> /\ cs[2] \in Stmts /\ <<cs[1], FunOf(cs[2])>> \in Walked
  BY <1>2 DEF FlagInv, WalkTargets, OnWalk
<1> DEFINE w == <<cs[1], FunOf(cs[2])>>
<1>4. w \in Walked /\ w[1] = cs[1]
  BY <1>3
<1> HIDE DEF w
<1>5. cs[1] \in Seq(CallSites)
  BY <1>4, WalkedFacts
<1> QED  BY <1>1, <1>2, <1>3, <1>5 DEF FlagInv

\* getTCTNode and getParentThread return nodes where the analyses call them.
LEMMA NodeLookup ==
    ASSUME ProgInv, WalkInv, stage # "tct", NEW s \in Sites({"fork"}), NEW c,
           <<c, FunOf(s)>> \in Walked
    PROVE  /\ getTCTNode(pushCxt(c, s), s) \in NodesOf(pushCxt(c, s), s)
           /\ getTCTNode(pushCxt(c, s), s) \in Tids
<1> DEFINE S == NodesOf(pushCxt(c, s), s)
<1>1. S # {} /\ S \subseteq Tids
  BY ForksHaveNodes DEF NodesOf
<1>2. getTCTNode(pushCxt(c, s), s) = CHOOSE t \in Tids : t \in S
  BY DEF getTCTNode
<1> HIDE DEF S
<1> QED  BY <1>1, <1>2 DEF S

LEMMA ParentLookup ==
    ASSUME NodeInv, NEW t \in Tids, nodes[t].fork # NoSite
    PROVE  getParentThread(t) \in Tids
<1>1. Parents(t) # {} /\ Parents(t) \subseteq Tids
  BY DEF NodeInv, Parents
<1> QED  BY <1>1 DEF getParentThread

LEMMA VisitForkStep ==
    ASSUME ProgInv, WalkInv, NodeInv, FlagInv, FixedNext, NEW cs, VisitFork(cs) PROVE FlagInv'
<1> DEFINE A == Propagate(flags, IntraTargets(cs), flags[cs])
           child == getTCTNode(pushCxt(cs[1], cs[2]), cs[2])
<1>1. /\ Visiting(cs, {"fork"}) /\ Mark(<<A>>, Tail(cxtStmtList))
      /\ HBPair' \subseteq HBPair \cup {<<root, child>>}
      /\ HPPair' \subseteq HPPair \cup {<<root, child>>, <<child, root>>}
      /\ UNCHANGED <<directJoin, symmetricJoin, fullJoin, partialJoin>>
  BY DEF VisitFork
<1>2. cs[2] \in Stmts /\ <<cs[1], FunOf(cs[2])>> \in Walked /\ Flags(flags)
      /\ flags[cs] \in {"alive", "dead"} /\ root \in Tids /\ Op(cs[2]) = "fork" /\ stage # "tct"
  BY <1>1, VisitedFacts
<1>3. Flags(A) /\ DOMAIN flags \subseteq DOMAIN A
  BY <1>2, WalkNext, FlagsPut DEF IntraTargets
<1>4. child \in Tids
  BY <1>2, NodeLookup DEF Sites
<1> HIDE DEF A, child
<1>5. HBPair' \cup HPPair' \cup fullJoin' \cup partialJoin' \subseteq Tids \X Tids
  BY <1>1, <1>2, <1>4 DEF FlagInv
<1> QED  BY <1>1, <1>3, <1>5, FlagStep DEF FlagInv

LEMMA VisitJoinStep ==
    ASSUME ProgInv, NodeInv, FlagInv, FixedNext, NEW cs, VisitJoin(cs) PROVE FlagInv'
<1> DEFINE loop == getJoinLoop(cs[2])
           exits == IF loop = NoSite THEN {} ELSE At(cs[1], getExitBlocks(loop))
           joins == isAliasedForkJoin(nodes[root].fork, cs[2])
           marked == CASE joins /\ loop = NoSite -> Overwrite(flags, {cs}, "dead")
                       [] joins /\ loop # NoSite -> Overwrite(flags, exits, "dead")
                       [] OTHER -> Propagate(flags, exits, flags[cs])
           B == Propagate(marked, IntraTargets(cs), marked[cs])
<1>1. /\ Visiting(cs, {"join"}) /\ Mark(<<marked, B>>, Tail(cxtStmtList))
      /\ directJoin' \subseteq directJoin \cup {<<cs, root>>}
      /\ symmetricJoin' \subseteq symmetricJoin \cup {cs}
      /\ UNCHANGED <<HBPair, HPPair, fullJoin, partialJoin>>
  BY DEF VisitJoin
<1>2. /\ cs = <<cs[1], cs[2]>> /\ cs[2] \in Stmts /\ <<cs[1], FunOf(cs[2])>> \in Walked
      /\ Flags(flags) /\ cs \in DOMAIN flags /\ flags[cs] \in {"alive", "dead"}
      /\ root \in Tids /\ Op(cs[2]) = "join" /\ cs[1] \in Seq(CallSites)
  BY <1>1, VisitedFacts
<1>3. cs[2] \in Sites({"join"})
  BY <1>2 DEF Sites
<1>4. WalkTargets(exits)
  <2>1. WalkTargets({})
    BY FS_EmptySet DEF WalkTargets, OnWalk
  <2>2. loop # NoSite => WalkTargets(At(cs[1], getExitBlocks(loop)))
    BY <1>2, <1>3, WalkExits
  <2> QED  BY <2>1, <2>2
<1>5. WalkTargets({cs})
  BY <1>2, FS_Singleton DEF WalkTargets, OnWalk
<1> HIDE DEF loop, exits, joins
<1>6. Flags(marked) /\ DOMAIN flags \subseteq DOMAIN marked
  BY <1>2, <1>4, <1>5, FlagsPut
<1> HIDE DEF marked
<1>7. marked[cs] \in {"alive", "dead"}
  BY <1>2, <1>6 DEF Flags
<1>8. Flags(B) /\ DOMAIN marked \subseteq DOMAIN B
  BY <1>2, <1>6, <1>7, WalkNext, FlagsPut DEF IntraTargets
<1> HIDE DEF B
<1>9. /\ directJoin' \subseteq (Seq(CallSites) \X Sites({"join"})) \X Tids
      /\ symmetricJoin' \subseteq Seq(CallSites) \X Sites({"join"})
  <2>1. cs \in Seq(CallSites) \X Sites({"join"})
    BY <1>2, <1>3
  <2> QED  BY <1>1, <1>2, <2>1 DEF FlagInv
<1> QED  BY <1>1, <1>6, <1>8, <1>9, FlagStep DEF FlagInv

LEMMA VisitCallStep ==
    ASSUME ProgInv, FlagInv, FixedNext, NEW cs, VisitCall(cs) PROVE FlagInv'
<1> DEFINE into == Op(cs[2]) = "call" /\ isCandidateFun(Callee(cs[2]))
           targets == IF into THEN {<<pushCxt(cs[1], cs[2]), Entry(Callee(cs[2]))>>}
                      ELSE IntraTargets(cs)
           A == Propagate(flags, targets, flags[cs])
<1>1. PICK kinds : Visiting(cs, kinds)
  BY DEF VisitCall
<1>2. Mark(<<A>>, Tail(cxtStmtList)) /\ UNCHANGED relationVars
  BY DEF VisitCall
<1>3. cs[2] \in Stmts /\ <<cs[1], FunOf(cs[2])>> \in Walked /\ Flags(flags)
      /\ flags[cs] \in {"alive", "dead"}
  BY <1>1, VisitedFacts
<1>4. WalkTargets(targets)
  <2>1. CASE into
    <3>1. cs[2] \in CallSites
      BY <1>3, <2>1 DEF CallSites, Sites
    <3>2. <<pushCxt(cs[1], cs[2]), Callee(cs[2])>> \in Walked
      BY <1>3, <3>1, WalkInto
    <3> QED  BY <2>1, <3>2, WalkEntry
  <2>2. CASE ~into
    BY <1>3, <2>2, WalkNext DEF IntraTargets
  <2> QED  BY <2>1, <2>2
<1> HIDE DEF into, targets
<1>5. Flags(A) /\ DOMAIN flags \subseteq DOMAIN A
  BY <1>3, <1>4, FlagsPut
<1> HIDE DEF A
<1> QED  BY <1>1, <1>2, <1>5, FlagStep DEF FlagInv, relationVars

LEMMA VisitRetStep ==
    ASSUME ProgInv, NodeInv, FlagInv, FixedNext, NEW cs, VisitRet(cs) PROVE FlagInv'
<1> DEFINE A == Propagate(flags, ReturnTargets(cs[1], FunOf(cs[2])), flags[cs])
           parent == getParentThread(root)
<1>1. /\ Visiting(cs, {"ret"}) /\ Mark(<<A>>, Tail(cxtStmtList))
      /\ fullJoin' \subseteq fullJoin \cup {<<parent, root>>}
      /\ partialJoin' \subseteq partialJoin \cup {<<parent, root>>}
      /\ UNCHANGED <<directJoin, symmetricJoin, HBPair, HPPair>>
  BY DEF VisitRet
<1>2. cs[2] \in Stmts /\ <<cs[1], FunOf(cs[2])>> \in Walked /\ Flags(flags)
      /\ flags[cs] \in {"alive", "dead"} /\ root \in Tids /\ nodes[root].fork # NoSite
  BY <1>1, VisitedFacts
<1>3. Flags(A) /\ DOMAIN flags \subseteq DOMAIN A
  BY <1>2, WalkReturn, FlagsPut
<1>4. parent \in Tids
  BY <1>2, ParentLookup
<1> HIDE DEF A, parent
<1>5. HBPair' \cup HPPair' \cup fullJoin' \cup partialJoin' \subseteq Tids \X Tids
  BY <1>1, <1>2, <1>4 DEF FlagInv
<1> QED  BY <1>1, <1>3, <1>5, FlagStep DEF FlagInv

LEMMA StartThreadStep ==
    ASSUME ProgInv, NodeInv, FlagInv, FixedNext, StartThread PROVE FlagInv'
<1> DEFINE n == nodes[root + 1]
           first == IF n.fork = NoSite THEN {} ELSE At(n.forkCxt, getNextInsts(n.fork))
<1>1. /\ stage = "fja" /\ stage' = stage /\ root < Len(nodes) /\ root' = root + 1
      /\ flags' = [cs \in first |-> "alive"] /\ cxtStmtList' \in Orders(first)
      /\ UNCHANGED relationVars /\ nodes' = nodes
  BY DEF StartThread, progVars, treeVars
<1>2. root + 1 \in Tids
  <2>1. DOMAIN nodes = 1..Len(nodes) /\ Len(nodes) \in Nat
    BY DEF NodeInv, NodesAreASequence
  <2>2. root \in 0..Len(nodes)
    BY <2>1 DEF FlagInv, Tids
  <2> QED  BY <1>1, <2>1, <2>2 DEF Tids
<1>3. WalkTargets(first)
  <2>1. CASE n.fork = NoSite
    BY <2>1, FS_EmptySet DEF WalkTargets, OnWalk
  <2>2. CASE n.fork # NoSite
    <3>1. n.fork \in Stmts /\ <<n.forkCxt, FunOf(n.fork)>> \in Walked
      BY <1>2, <2>2 DEF NodeInv, IsNode, Sites
    <3> QED  BY <2>2, <3>1, WalkNext
  <2> QED  BY <2>1, <2>2
<1>4. IsList(cxtStmtList') /\ ToSet(cxtStmtList') = first
  BY <1>1, <1>3, OrderFacts DEF WalkTargets
<1>5. cxtStmtList' # <<>> => n.fork # NoSite
  <2> SUFFICES ASSUME n.fork = NoSite PROVE cxtStmtList' = <<>>
    OBVIOUS
  <2> QED  BY <1>4, ListIsEmpty
<1>6. nodes'[root'] = n
  BY <1>1
<1> HIDE DEF n, first
<1>7. WalkTargets(DOMAIN flags)' /\ \A cs \in DOMAIN flags' : flags'[cs] \in {"alive", "dead"}
  BY <1>1, <1>3 DEF WalkTargets, OnWalk, FixedNext
<1>8. Tids' = Tids /\ DOMAIN flags' = first
  BY <1>1 DEF Tids
<1> QED
  BY <1>1, <1>2, <1>4, <1>5, <1>6, <1>7, <1>8 DEF FlagInv, FixedNext, IsList, relationVars

LEMMA FlagInvInit == ASSUME Init PROVE FlagInv
<1>1. /\ root = 0 /\ flags = <<>> /\ cxtStmtList = <<>>
      /\ directJoin = {} /\ symmetricJoin = {}
      /\ HBPair = {} /\ HPPair = {} /\ fullJoin = {} /\ partialJoin = {}
  BY DEF Init, ForkJoinInit
<1>2. DOMAIN flags = {}
  BY <1>1
<1>3. WalkTargets(DOMAIN flags)
  BY <1>2, FS_EmptySet DEF WalkTargets, OnWalk
<1> QED  BY <1>1, <1>2, <1>3, ListEmpty DEF FlagInv

\* A step that leaves the fork-join analysis alone, but may add nodes before it starts.
LEMMA FlagsUntouched ==
    ASSUME FlagInv, FixedNext, UNCHANGED fjaVars, Tids \subseteq Tids',
           \A t \in Tids : nodes'[t] = nodes[t],
           cxtStmtList # <<>> => stage' = "fja"
    PROVE  FlagInv'
<1>1. /\ root' = root /\ flags' = flags /\ cxtStmtList' = cxtStmtList
      /\ UNCHANGED relationVars
  BY DEF fjaVars
<1>2. WalkTargets(DOMAIN flags)'
  BY <1>1 DEF FlagInv, WalkTargets, OnWalk, FixedNext
<1>3. (HBPair \cup HPPair \cup fullJoin \cup partialJoin \subseteq Tids \X Tids)'
  BY <1>1 DEF FlagInv, relationVars
<1>4. (directJoin \subseteq (Seq(CallSites) \X Sites({"join"})) \X Tids)'
  BY <1>1 DEF FlagInv, relationVars, FixedNext
<1>5. (cxtStmtList # <<>> => stage = "fja" /\ root \in Tids /\ nodes[root].fork # NoSite)'
  BY <1>1 DEF FlagInv
<1> QED  BY <1>1, <1>2, <1>3, <1>4, <1>5 DEF FlagInv, FixedNext, IsList, relationVars

LEMMA FinishForkJoinStep ==
    ASSUME FlagInv, FixedNext, FinishForkJoin PROVE FlagInv'
<1>1. /\ root' = 0 /\ flags' = <<>> /\ cxtStmtList' = <<>> /\ UNCHANGED relationVars
      /\ nodes' = nodes
  BY DEF FinishForkJoin, treeVars
<1>2. DOMAIN flags' = {} /\ Tids' = Tids
  BY <1>1 DEF Tids
<1>3. WalkTargets(DOMAIN flags)'
  BY <1>2, FS_EmptySet DEF WalkTargets, OnWalk
<1> QED  BY <1>1, <1>2, <1>3, ListEmpty DEF FlagInv, FixedNext, IsList, relationVars

\* A step of the tree only adds nodes.
LEMMA NodesGrow ==
    ASSUME NodeInv, [Next]_vars
    PROVE  Tids \subseteq Tids' /\ \A t \in Tids : nodes'[t] = nodes[t]
<1>1. CASE nodes' = nodes
  BY <1>1 DEF Tids
<1>2. ASSUME NEW site \in pending, HandleFork(site)
      PROVE  Tids \subseteq Tids' /\ \A t \in Tids : nodes'[t] = nodes[t]
  <2>1. nodes' = nodes \/ \E n : nodes' = Append(nodes, n)
    BY <1>2 DEF HandleFork
  <2> QED  BY <1>1, <2>1, AppendToNodes DEF NodeInv, NodesAreASequence, Tids
<1>3. CASE TreeStep
  BY <1>1, <1>2, <1>3 DEF TreeStep, PopCTP, HandleCallRet, CollectMultiForkedThreads
<1>4. CASE ~TreeStep
  BY <1>1, <1>4, StepCases, ForkJoinFrame, MHPFrame, LockFrame, LaterFrame
  DEF treeVars, vars, analysisVars
<1> QED  BY <1>3, <1>4

LEMMA FlagInvStep ==
    ASSUME ProgInv, WalkInv, NodeInv, FlagInv, [Next]_vars PROVE FlagInv'
<1>0. FixedNext
  BY StepCases, FixedPrimed
<1>1. CASE ForkJoinStep
  BY <1>0, <1>1, VisitForkStep, VisitJoinStep, VisitCallStep, VisitRetStep, StartThreadStep,
     FinishForkJoinStep DEF ForkJoinStep
<1>2. CASE ~ForkJoinStep
  <2>1. UNCHANGED fjaVars /\ (cxtStmtList # <<>> => stage' = "fja")
    BY <1>2, StepCases, TreeFrame, MHPFrame, LockFrame, LaterFrame
    DEF FlagInv, vars, progVars, analysisVars
  <2> QED  BY <1>0, <2>1, NodesGrow, FlagsUntouched
<1> QED  BY <1>1, <1>2
-----------------------------------------------------------------------------
(* The interleaving analysis.                                              *)

\* CxtThreadStmts of the threads of the tree, of statements a walk may meet.
OnThread(S) ==
    \A cts \in S : /\ cts = <<cts[1], cts[2], cts[3]>> /\ cts[1] \in Tids /\ cts[3] \in Stmts
                   /\ <<cts[2], FunOf(cts[3])>> \in Walked

ThreadTargets(T) == IsFiniteSet(T) /\ OnThread(T)

\* An interleaving map.
Rows(il) == ThreadTargets(DOMAIN il) /\ \A cts \in DOMAIN il : il[cts] \subseteq Tids

InterleavingInv ==
    /\ IsList(ctsList) /\ ToSet(ctsList) \subseteq DOMAIN interleaving
    /\ Rows(interleaving)
    /\ mhpRoot \in Nat /\ mhpRoot <= Len(nodes)
    /\ ctsList # <<>> => stage = "mhp"

LEMMA ThreadUnion ==
    ASSUME NEW S, NEW T, ThreadTargets(S), ThreadTargets(T) PROVE ThreadTargets(S \cup T)
  BY FS_Union DEF ThreadTargets, OnThread

LEMMA ThreadNone == ThreadTargets({})
  BY FS_EmptySet DEF ThreadTargets, OnThread

LEMMA ThreadOnWalk ==
    ASSUME NEW t \in Tids, NEW T, WalkTargets(T)
    PROVE  ThreadTargets({<<t, cs[1], cs[2]>> : cs \in T})
<1> DEFINE g == [cs \in T |-> <<t, cs[1], cs[2]>>]
           S == {<<t, cs[1], cs[2]>> : cs \in T}
<1>1. S = {g[cs] : cs \in T}
  OBVIOUS
<1>2. IsFiniteSet(T)
  BY DEF WalkTargets
<1>3. OnThread(S)
  BY DEF OnThread, WalkTargets, OnWalk
<1> HIDE DEF g, S
<1>4. IsFiniteSet(S)
  BY <1>1, <1>2, FiniteImage
<1> QED  BY <1>3, <1>4 DEF ThreadTargets, S

LEMMA ThreadAt ==
    ASSUME NEW t \in Tids, NEW c, NEW S, WalkTargets(At(c, S))
    PROVE  ThreadTargets(AtThread(t, c, S))
<1> DEFINE T == At(c, S)
<1>1. AtThread(t, c, S) = {<<t, cs[1], cs[2]>> : cs \in T}
  <2>1. ASSUME NEW s \in S PROVE <<t, c, s>> \in {<<t, cs[1], cs[2]>> : cs \in T}
    <3>1. <<c, s>> \in T /\ <<t, c, s>> = <<t, <<c, s>>[1], <<c, s>>[2]>>
      BY DEF At
    <3> HIDE DEF T
    <3> QED  BY <3>1
  <2>2. ASSUME NEW cs \in T PROVE <<t, cs[1], cs[2]>> \in AtThread(t, c, S)
    BY <2>2 DEF AtThread, At
  <2> QED  BY <2>1, <2>2 DEF AtThread
<1> HIDE DEF T
<1> QED  BY <1>1, ThreadOnWalk DEF T

LEMMA ThreadEntry ==
    ASSUME ProgInv, NEW t \in Tids, NEW c, NEW f, <<c, f>> \in Walked
    PROVE  ThreadTargets({<<t, c, Entry(f)>>})
<1>1. Entry(f) \in Stmts /\ FunOf(Entry(f)) = f
  BY WalkEntry
<1> DEFINE e == <<t, c, Entry(f)>>
<1>2. e = <<e[1], e[2], e[3]>> /\ e[1] = t /\ e[2] = c /\ e[3] = Entry(f)
  OBVIOUS
<1> HIDE DEF e
<1>3. OnThread({e})
  BY <1>1, <1>2 DEF OnThread
<1>4. IsFiniteSet({e})
  BY FS_Singleton
<1> QED  BY <1>3, <1>4 DEF ThreadTargets, e

\* A union of finitely many sets of targets, one for each of some threads.
LEMMA ThreadUnions ==
    ASSUME IsFiniteSet(Tids), NEW U, U \subseteq Tids, NEW g, \A u \in U : ThreadTargets(g[u])
    PROVE  ThreadTargets(UNION {g[u] : u \in U})
<1> DEFINE W == {g[u] : u \in U}
<1>1. IsFiniteSet(U)
  BY FS_Subset
<1>2. IsFiniteSet(W)
  BY <1>1, FiniteImage
<1>3. \A S \in W : IsFiniteSet(S)
  BY DEF ThreadTargets
<1>4. IsFiniteSet(UNION W)
  BY <1>2, <1>3, FS_UNION
<1>5. OnThread(UNION W)
  BY DEF ThreadTargets, OnThread
<1> QED  BY <1>4, <1>5 DEF ThreadTargets

LEMMA AddFacts ==
    ASSUME NEW il, Rows(il), NEW T, ThreadTargets(T), NEW new, new \subseteq Tids
    PROVE  Rows(AddThreads(il, T, new)) /\ DOMAIN il \subseteq DOMAIN AddThreads(il, T, new)
<1> DEFINE r == AddThreads(il, T, new)
           S == IF new = {} THEN {} ELSE T
<1>1. /\ DOMAIN r = DOMAIN il \cup S
      /\ \A cts \in DOMAIN il \cup S :
            r[cts] = (IF cts \in DOMAIN il THEN il[cts] ELSE {})
                     \cup (IF cts \in T THEN new ELSE {})
  BY DEF AddThreads
<1>2. ThreadTargets(S)
  BY ThreadNone
<1>3. ThreadTargets(DOMAIN il)
  BY DEF Rows
<1> HIDE DEF r, S
<1>4. ThreadTargets(DOMAIN r)
  BY <1>1, <1>2, <1>3, ThreadUnion
<1> QED  BY <1>1, <1>4 DEF Rows, r

LEMMA RemoveFacts ==
    ASSUME NEW il, Rows(il), NEW T, NEW tid, NEW joined, NEW join
    PROVE  /\ Rows(RemoveThreads(il, T, tid, joined, join))
           /\ DOMAIN RemoveThreads(il, T, tid, joined, join) = DOMAIN il
<1> DEFINE r == RemoveThreads(il, T, tid, joined, join)
<1>1. DOMAIN r = DOMAIN il /\ \A cts \in DOMAIN il : r[cts] \subseteq il[cts]
  BY DEF RemoveThreads
<1> HIDE DEF r
<1> QED  BY <1>1 DEF Rows, r

LEMMA UpdateFacts ==
    ASSUME NEW left, IsList(left), NEW A, NEW B, NEW C, Rows(C),
           ToSet(left) \subseteq DOMAIN C, DOMAIN A \subseteq DOMAIN B, DOMAIN B \subseteq DOMAIN C,
           Update(<<C>>, left) \/ Update(<<A, B, C>>, left)
    PROVE  interleaving' = C /\ IsList(ctsList') /\ ToSet(ctsList') \subseteq DOMAIN C
<1>1. PICK new : /\ interleaving' = C /\ new \subseteq DOMAIN C
                 /\ \E order \in Orders(new) : ctsList' = left \o order
  <2>1. CASE Update(<<C>>, left)
    <3> DEFINE s == <<interleaving>> \o <<C>>
               pushed == UNION {Changed(s[n - 1], s[n]) : n \in 2..Len(s)}
    <3>1. Len(s) = 2 /\ s[2] = C
      OBVIOUS
    <3>2. /\ interleaving' = Last(s)
          /\ \E order \in Orders(pushed \ ToSet(left)) : ctsList' = left \o order
      BY <2>1 DEF Update
    <3> HIDE DEF s
    <3>3. pushed \subseteq DOMAIN C
      BY <3>1 DEF Changed
    <3> HIDE DEF pushed
    <3> QED  BY <3>1, <3>2, <3>3 DEF Last
  <2>2. CASE Update(<<A, B, C>>, left)
    <3> DEFINE s == <<interleaving>> \o <<A, B, C>>
               pushed == UNION {Changed(s[n - 1], s[n]) : n \in 2..Len(s)}
    <3>1. Len(s) = 4 /\ s[4] = C /\ s[3] = B /\ s[2] = A
      OBVIOUS
    <3>2. /\ interleaving' = Last(s)
          /\ \E order \in Orders(pushed \ ToSet(left)) : ctsList' = left \o order
      BY <2>2 DEF Update
    <3> HIDE DEF s
    <3>3. pushed \subseteq DOMAIN C
      <4>1. \A n \in 2..4 : n = 2 \/ n = 3 \/ n = 4
        OBVIOUS
      <4> QED  BY <3>1, <4>1 DEF Changed
    <3> HIDE DEF pushed
    <3> QED  BY <3>1, <3>2, <3>3 DEF Last
  <2> QED  BY <2>1, <2>2
<1>2. IsFiniteSet(new)
  BY <1>1, FS_Subset DEF Rows, ThreadTargets
<1>3. PICK order \in Orders(new) : ctsList' = left \o order
  BY <1>1
<1>4. IsList(order) /\ ToSet(order) = new
  BY <1>2, OrderFacts
<1> QED  BY <1>1, <1>3, <1>4, ListConcat

\* What an update keeps.
LEMMA RowStep ==
    ASSUME ProgInv, InterleavingInv, FixedNext, NEW left, IsList(left),
           ToSet(left) \subseteq DOMAIN interleaving, NEW A, NEW B, NEW C, Rows(C),
           DOMAIN interleaving \subseteq DOMAIN C,
           DOMAIN A \subseteq DOMAIN B, DOMAIN B \subseteq DOMAIN C,
           Update(<<C>>, left) \/ Update(<<A, B, C>>, left),
           stage = "mhp", stage' = stage, nodes' = nodes,
           mhpRoot' \in Nat, mhpRoot' <= Len(nodes)
    PROVE  InterleavingInv'
<1>1. interleaving' = C /\ IsList(ctsList') /\ ToSet(ctsList') \subseteq DOMAIN C
  BY UpdateFacts
<1>2. Tids' = Tids
  BY DEF Tids
<1>3. Rows(interleaving)'
  BY <1>1, <1>2 DEF Rows, ThreadTargets, OnThread, FixedNext
<1> QED  BY <1>1, <1>2, <1>3 DEF InterleavingInv, IsList

\* What the analysis knows of the statement it takes.
LEMMA VisitingThreadFacts ==
    ASSUME ProgInv, InterleavingInv, NEW cts, NEW candidate, NEW kinds,
           VisitingThread(cts, candidate, kinds)
    PROVE  /\ IsList(Tail(ctsList)) /\ ToSet(Tail(ctsList)) \subseteq DOMAIN interleaving
           /\ cts \in DOMAIN interleaving /\ Rows(interleaving)
           /\ interleaving[cts] \subseteq Tids
           /\ cts = <<cts[1], cts[2], cts[3]>> /\ cts[1] \in Tids /\ cts[3] \in Stmts
           /\ <<cts[2], FunOf(cts[3])>> \in Walked
           /\ isCandidateFun(FunOf(cts[3])) = candidate /\ Op(cts[3]) \in kinds
           /\ stage = "mhp" /\ stage' = stage /\ nodes' = nodes
           /\ mhpRoot' \in Nat /\ mhpRoot' <= Len(nodes)
<1>1. /\ cts = Head(ctsList) /\ ctsList # <<>> /\ stage = "mhp" /\ stage' = stage
      /\ nodes' = nodes /\ mhpRoot' = mhpRoot
      /\ isCandidateFun(FunOf(cts[3])) = candidate /\ Op(cts[3]) \in kinds
  BY DEF VisitingThread, progVars, treeVars
<1>2. /\ IsList(Tail(ctsList)) /\ ToSet(Tail(ctsList)) \subseteq DOMAIN interleaving
      /\ cts \in DOMAIN interleaving
  BY <1>1, ListTail DEF InterleavingInv
<1>3. Rows(interleaving) /\ mhpRoot \in Nat /\ mhpRoot <= Len(nodes)
  BY DEF InterleavingInv
<1> QED  BY <1>1, <1>2, <1>3 DEF Rows, ThreadTargets, OnThread

\* The handlers that only add threads to the targets a statement leads to.
LEMMA AddStep ==
    ASSUME ProgInv, InterleavingInv, FixedNext, NEW cts, NEW candidate, NEW kinds,
           VisitingThread(cts, candidate, kinds), NEW T, ThreadTargets(T),
           Update(<<AddThreads(interleaving, T, interleaving[cts])>>, Tail(ctsList))
    PROVE  InterleavingInv'
<1> DEFINE C == AddThreads(interleaving, T, interleaving[cts])
<1>1. /\ IsList(Tail(ctsList)) /\ ToSet(Tail(ctsList)) \subseteq DOMAIN interleaving
      /\ Rows(interleaving) /\ interleaving[cts] \subseteq Tids
      /\ stage = "mhp" /\ stage' = stage /\ nodes' = nodes
      /\ mhpRoot' \in Nat /\ mhpRoot' <= Len(nodes)
  BY VisitingThreadFacts
<1>2. Rows(C) /\ DOMAIN interleaving \subseteq DOMAIN C
  BY <1>1, AddFacts
<1>3. Update(<<C>>, Tail(ctsList))
  OBVIOUS
<1> HIDE DEF C
<1> QED  BY <1>1, <1>2, <1>3, RowStep

\* Where control goes on in the function.
LEMMA NextTargets ==
    ASSUME ProgInv, NEW cts, cts[1] \in Tids, cts[3] \in Stmts,
           <<cts[2], FunOf(cts[3])>> \in Walked
    PROVE  ThreadTargets(NextOf(cts))
  BY WalkNext, ThreadAt DEF NextOf

LEMMA ForkThreadStep ==
    ASSUME ProgInv, WalkInv, InterleavingInv, FixedNext, NEW cts, VisitForkThread(cts)
    PROVE  InterleavingInv'
<1> DEFINE child == getTCTNode(pushCxt(cts[2], cts[3]), cts[3])
           entry == <<child, nodes[child].cxt, Entry(Callee(cts[3]))>>
           T == {entry} \cup NextOf(cts)
<1>1. /\ VisitingThread(cts, TRUE, {"fork"})
      /\ Update(<<AddThreads(interleaving, T, interleaving[cts])>>, Tail(ctsList))
  BY DEF VisitForkThread
<1>2. /\ cts[1] \in Tids /\ cts[3] \in Stmts /\ <<cts[2], FunOf(cts[3])>> \in Walked
      /\ Op(cts[3]) \in {"fork"} /\ stage # "tct"
  BY <1>1, VisitingThreadFacts
<1>3. cts[3] \in Sites({"fork"}) /\ cts[3] \in CallSites
  BY <1>2 DEF Sites, CallSites
<1>4. child \in Tids /\ nodes[child].cxt = pushCxt(cts[2], cts[3])
  BY <1>2, <1>3, NodeLookup DEF NodesOf
<1>5. <<pushCxt(cts[2], cts[3]), Callee(cts[3])>> \in Walked
  BY <1>2, <1>3, WalkInto
<1> HIDE DEF child
<1>6. ThreadTargets({entry})
  BY <1>4, <1>5, ThreadEntry
<1> HIDE DEF entry
<1>7. ThreadTargets(T)
  BY <1>2, <1>6, NextTargets, ThreadUnion
<1> HIDE DEF T
<1> QED  BY <1>1, <1>7, AddStep

LEMMA JoinThreadStep ==
    ASSUME ProgInv, InterleavingInv, FixedNext, NEW cts, VisitJoinThread(cts)
    PROVE  InterleavingInv'
<1> DEFINE join == cts[3]
           joined == getDirAndIndJoinedTid(cts[2], join)
           loop == getJoinLoop(join)
           exits == IF loop = NoSite THEN {} ELSE AtThread(cts[1], cts[2], getExitBlocks(loop))
           A == AddThreads(interleaving, exits, interleaving[cts])
           where == CASE loop = NoSite -> {cts}
                      [] loop # NoSite /\ isJoinInSymmetricLoop(cts[2], join) -> exits
                      [] OTHER -> {}
           B == RemoveThreads(A, where, cts[1], joined, join)
           C == AddThreads(B, NextOf(cts), B[cts])
<1>1. VisitingThread(cts, TRUE, {"join"}) /\ Update(<<A, B, C>>, Tail(ctsList))
  BY DEF VisitJoinThread
<1>2. /\ IsList(Tail(ctsList)) /\ ToSet(Tail(ctsList)) \subseteq DOMAIN interleaving
      /\ Rows(interleaving) /\ interleaving[cts] \subseteq Tids /\ cts \in DOMAIN interleaving
      /\ stage = "mhp" /\ stage' = stage /\ nodes' = nodes
      /\ mhpRoot' \in Nat /\ mhpRoot' <= Len(nodes)
      /\ cts[1] \in Tids /\ cts[3] \in Stmts /\ <<cts[2], FunOf(cts[3])>> \in Walked
      /\ Op(cts[3]) \in {"join"}
  BY <1>1, VisitingThreadFacts
<1>3. cts[3] \in Sites({"join"})
  BY <1>2 DEF Sites
<1>4. ThreadTargets(exits)
  <2>1. loop # NoSite => WalkTargets(At(cts[2], getExitBlocks(loop)))
    BY <1>2, <1>3, WalkExits
  <2> HIDE DEF loop
  <2>2. loop # NoSite => ThreadTargets(AtThread(cts[1], cts[2], getExitBlocks(loop)))
    BY <1>2, <2>1, ThreadAt
  <2> QED  BY <2>2, ThreadNone
<1> HIDE DEF joined, exits, loop
<1>5. Rows(A) /\ DOMAIN interleaving \subseteq DOMAIN A
  BY <1>2, <1>4, AddFacts
<1> HIDE DEF A, where
<1>6. Rows(B) /\ DOMAIN B = DOMAIN A
  BY <1>5, RemoveFacts
<1> HIDE DEF B
<1>7. B[cts] \subseteq Tids
  BY <1>2, <1>5, <1>6 DEF Rows
<1>8. Rows(C) /\ DOMAIN B \subseteq DOMAIN C
  BY <1>2, <1>6, <1>7, NextTargets, AddFacts
<1> HIDE DEF C
<1>9. DOMAIN interleaving \subseteq DOMAIN C /\ DOMAIN A \subseteq DOMAIN B
  BY <1>5, <1>6, <1>8
<1> QED  BY <1>1, <1>2, <1>8, <1>9, RowStep

LEMMA CallThreadStep ==
    ASSUME ProgInv, InterleavingInv, FixedNext, NEW cts, VisitCallThread(cts)
    PROVE  InterleavingInv'
<1> DEFINE callee == Callee(cts[3])
           entry == <<cts[1], pushCxt(cts[2], cts[3]), Entry(callee)>>
           after == IF isCandidateFun(callee) THEN {} ELSE NextOf(cts)
           T == {entry} \cup after
<1>1. /\ VisitingThread(cts, TRUE, {"call"})
      /\ Update(<<AddThreads(interleaving, T, interleaving[cts])>>, Tail(ctsList))
  BY DEF VisitCallThread
<1>2. /\ cts[1] \in Tids /\ cts[3] \in Stmts /\ <<cts[2], FunOf(cts[3])>> \in Walked
      /\ Op(cts[3]) \in {"call"}
  BY <1>1, VisitingThreadFacts
<1>3. cts[3] \in CallSites
  BY <1>2 DEF Sites, CallSites
<1>4. ThreadTargets({entry})
  <2>1. <<pushCxt(cts[2], cts[3]), Callee(cts[3])>> \in Walked
    BY <1>2, <1>3, WalkInto
  <2> QED  BY <1>2, <2>1, ThreadEntry
<1>5. ThreadTargets(after)
  BY <1>2, NextTargets, ThreadNone
<1> HIDE DEF entry, after
<1>6. ThreadTargets(T)
  BY <1>4, <1>5, ThreadUnion
<1> HIDE DEF T
<1> QED  BY <1>1, <1>6, AddStep

LEMMA RetThreadStep ==
    ASSUME ProgInv, InterleavingInv, FixedNext, NEW cts, VisitRetThread(cts)
    PROVE  InterleavingInv'
<1> DEFINE R == ReturnTargets(cts[2], FunOf(cts[3]))
           T == {<<cts[1], cs[1], cs[2]>> : cs \in R}
<1>1. /\ VisitingThread(cts, TRUE, {"ret"})
      /\ Update(<<AddThreads(interleaving, T, interleaving[cts])>>, Tail(ctsList))
  BY DEF VisitRetThread
<1>2. cts[1] \in Tids /\ <<cts[2], FunOf(cts[3])>> \in Walked
  BY <1>1, VisitingThreadFacts
<1>3. WalkTargets(R)
  BY <1>2, WalkReturn
<1> HIDE DEF R
<1>4. ThreadTargets(T)
  BY <1>2, <1>3, ThreadOnWalk
<1> HIDE DEF T
<1> QED  BY <1>1, <1>4, AddStep

LEMMA IntraThreadStep ==
    ASSUME ProgInv, InterleavingInv, FixedNext, NEW cts, VisitIntraThread(cts)
    PROVE  InterleavingInv'
<1> DEFINE T == NextOf(cts)
           kinds == {"access", "lock", "unlock", "branch", "goto", "loop"}
<1>1. /\ VisitingThread(cts, TRUE, kinds)
      /\ Update(<<AddThreads(interleaving, T, interleaving[cts])>>, Tail(ctsList))
  BY DEF VisitIntraThread
<1>2. cts[1] \in Tids /\ cts[3] \in Stmts /\ <<cts[2], FunOf(cts[3])>> \in Walked
  BY <1>1, VisitingThreadFacts
<1>3. ThreadTargets(T)
  BY <1>2, NextTargets
<1> HIDE DEF T, kinds
<1> QED  BY <1>1, <1>3, AddStep

\* A call out of a function that neither forks nor joins does not push its site.
LEMMA NonCandidateStep ==
    ASSUME ProgInv, InterleavingInv, FixedNext, NEW cts, VisitNonCandidate(cts)
    PROVE  InterleavingInv'
<1> DEFINE sites == {c \in Sites({"call"}) : FunOf(c) = FunOf(cts[3])}
           callees == {Callee(s) : s \in sites}
           T == AtThread(cts[1], cts[2], {Entry(f) : f \in callees})
<1>1. /\ VisitingThread(cts, FALSE, {Op(cts[3])})
      /\ Update(<<AddThreads(interleaving, T, interleaving[cts])>>, Tail(ctsList))
  BY DEF VisitNonCandidate
<1>2. /\ cts[1] \in Tids /\ <<cts[2], FunOf(cts[3])>> \in Walked
      /\ ~isCandidateFun(FunOf(cts[3]))
  BY <1>1, VisitingThreadFacts
<1>3. ASSUME NEW s \in sites
      PROVE  /\ <<cts[2], Callee(s)>> \in Walked /\ Entry(Callee(s)) \in Stmts
             /\ FunOf(Entry(Callee(s))) = Callee(s)
  <2>1. s \in CallSites /\ pushCxt(cts[2], s) = cts[2]
    BY <1>2, <1>3 DEF CallSites, Sites, pushCxt
  <2>2. <<cts[2], FunOf(s)>> \in Walked
    BY <1>2, <1>3
  <2>3. <<cts[2], Callee(s)>> \in Walked
    BY <2>1, <2>2, WalkInto
  <2> QED  BY <2>3, WalkEntry
<1>4. ThreadTargets(T)
  <2> DEFINE g == [s \in sites |-> <<cts[1], cts[2], Entry(Callee(s))>>]
  <2>1. T = {g[s] : s \in sites}
    BY DEF AtThread
  <2>2. IsFiniteSet(sites)
    <3>1. sites \subseteq Stmts
      BY DEF Sites
    <3> QED  BY <3>1, StmtsFinite, FS_Subset DEF ProgInv
  <2>3. OnThread(T)
    <3> SUFFICES ASSUME NEW s \in sites, NEW x, x = <<cts[1], cts[2], Entry(Callee(s))>>
                 PROVE  /\ x = <<x[1], x[2], x[3]>> /\ x[1] \in Tids /\ x[3] \in Stmts
                        /\ <<x[2], FunOf(x[3])>> \in Walked
      BY DEF OnThread, AtThread
    <3>1. x[1] = cts[1] /\ x[2] = cts[2] /\ x[3] = Entry(Callee(s))
      OBVIOUS
    <3> HIDE DEF sites
    <3> QED  BY <1>2, <1>3, <3>1
  <2> HIDE DEF g, T, sites
  <2>4. IsFiniteSet(T)
    BY <2>1, <2>2, FiniteImage
  <2> QED  BY <2>3, <2>4 DEF ThreadTargets
<1> HIDE DEF T
<1> QED  BY <1>1, <1>4, AddStep

\* What follows the fork site of a thread, in the thread that forks it.
LEMMA AfterForkTargets ==
    ASSUME ProgInv, NodeInv, NEW u \in Tids, nodes[u].fork # NoSite
    PROVE  ThreadTargets(AtThread(getParentThread(u), nodes[u].forkCxt,
                                  getNextInsts(nodes[u].fork)))
<1>1. nodes[u].fork \in Stmts /\ <<nodes[u].forkCxt, FunOf(nodes[u].fork)>> \in Walked
  BY DEF NodeInv, IsNode, Sites
<1>2. getParentThread(u) \in Tids
  BY ParentLookup
<1>3. WalkTargets(At(nodes[u].forkCxt, getNextInsts(nodes[u].fork)))
  BY <1>1, WalkNext
<1> QED  BY <1>2, <1>3, ThreadAt

LEMMA EntryTargets ==
    ASSUME ProgInv, NodeInv, NEW u \in Tids PROVE ThreadTargets({EntryOf(u)})
<1>1. <<nodes[u].cxt, nodes[u].routine>> \in Walked
  BY DEF NodeInv, IsNode
<1> QED  BY <1>1, ThreadEntry DEF EntryOf

LEMMA ThreadsAreFinite ==
    ASSUME NodeInv PROVE IsFiniteSet(Tids) /\ Len(nodes) \in Nat /\ Tids = 1..Len(nodes)
<1>1. Tids = 1..Len(nodes) /\ Len(nodes) \in Nat
  BY DEF NodeInv, NodesAreASequence, Tids
<1> QED  BY <1>1, FS_Interval

LEMMA AncestorsAreThreads ==
    ASSUME NodeInv, NEW t \in Tids PROVE {t} \cup getAncestorThread(t) \subseteq Tids
<1> DEFINE F == [u \in Tids |-> Parents(u)]
<1>1. \A u : Parents(u) \subseteq Tids
  BY DEF NodeInv, Parents
<1>2. Graph(Tids, Parents(t), F)
  BY <1>1, ThreadsAreFinite DEF Graph
<1> HIDE DEF F
<1>3. ReachedFrom(Parents(t), F) \subseteq Tids
  BY <1>2, ReachedClosed
<1> QED  BY <1>3 DEF getAncestorThread, F

\* The start of a thread.
LEMMA StartInterleavingStep ==
    ASSUME ProgInv, NodeInv, InterleavingInv, FixedNext, StartInterleaving
    PROVE  InterleavingInv'
<1> DEFINE t == mhpRoot + 1
           T == {EntryOf(t)} \cup AfterForksOf(t) \cup SiblingEntriesOf(t)
           C == AddThreads(interleaving, T, {t})
<1>1. /\ stage = "mhp" /\ stage' = stage /\ ctsList = <<>> /\ mhpRoot < Len(nodes)
      /\ mhpRoot' = t /\ Update(<<C>>, <<>>) /\ nodes' = nodes
  BY DEF StartInterleaving, progVars, treeVars
<1>2. /\ t \in Tids /\ mhpRoot' \in Nat /\ mhpRoot' <= Len(nodes)
  BY <1>1, ThreadsAreFinite DEF InterleavingInv
<1> DEFINE up == {t} \cup getAncestorThread(t)
<1> HIDE DEF t
<1>3. up \subseteq Tids
  BY <1>2, AncestorsAreThreads
<1>4. IsFiniteSet(Tids)
  BY ThreadsAreFinite
<1>5. ThreadTargets(AfterForksOf(t))
  <2> DEFINE U == {v \in up : nodes[v].fork # NoSite}
             g == [u \in U |-> AtThread(getParentThread(u), nodes[u].forkCxt,
                                        getNextInsts(nodes[u].fork))]
  <2>1. AfterForksOf(t) = UNION {g[u] : u \in U}
    BY DEF AfterForksOf
  <2>2. U \subseteq Tids /\ \A u \in U : ThreadTargets(g[u])
    BY <1>3, AfterForkTargets
  <2> HIDE DEF U, g
  <2> QED  BY <1>4, <2>1, <2>2, ThreadUnions
<1>6. ThreadTargets(SiblingEntriesOf(t))
  <2> DEFINE g == [u \in Tids |-> {EntryOf(u)}]
             all == UNION {g[u] : u \in Tids}
  <2>1. \A u \in Tids : ThreadTargets(g[u])
    BY EntryTargets
  <2>2. \A u : getSiblingThread(u) \subseteq Tids
    BY DEF NodeInv, getSiblingThread, Children
  <2>3. SiblingEntriesOf(t) \subseteq all
    BY <2>2 DEF SiblingEntriesOf
  <2> HIDE DEF g
  <2>4. ThreadTargets(all)
    BY <1>4, <2>1, ThreadUnions
  <2> HIDE DEF all
  <2> QED  BY <2>3, <2>4, FS_Subset DEF ThreadTargets, OnThread
<1>7. ThreadTargets({EntryOf(t)})
  BY <1>2, EntryTargets
<1>8. ThreadTargets(T)
  <2> DEFINE X == AfterForksOf(t)
             Y == SiblingEntriesOf(t)
             e == {EntryOf(t)}
  <2> HIDE DEF X, Y, e
  <2>1. ThreadTargets(e \cup X)
    BY <1>5, <1>7, ThreadUnion DEF X, e
  <2>2. ThreadTargets((e \cup X) \cup Y)
    BY <1>6, <2>1, ThreadUnion DEF Y
  <2> QED  BY <2>2 DEF X, Y, e
<1> HIDE DEF T
<1>9. Rows(C) /\ DOMAIN interleaving \subseteq DOMAIN C
  BY <1>2, <1>8, AddFacts DEF InterleavingInv
<1> HIDE DEF C
<1>10. IsList(<<>>) /\ ToSet(<<>>) \subseteq DOMAIN interleaving
  BY ListEmpty
<1> QED  BY <1>1, <1>2, <1>9, <1>10, RowStep

\* The statements of the functions the walk does not go into.
LEMMA UpdateNonCandidateStep ==
    ASSUME ProgInv, InterleavingInv, FixedNext, UpdateNonCandidateFuns
    PROVE  InterleavingInv'
<1> DEFINE D == NonCandidateStmts \cup DOMAIN interleaving
<1>1. /\ ctsList = <<>> /\ ctsList' = ctsList /\ mhpRoot' = 0 /\ nodes' = nodes
      /\ DOMAIN interleaving' = D
      /\ \A cts \in D : interleaving'[cts] =
            getInterleavingThreads(cts)
            \cup (IF cts \in NonCandidateStmts
                  THEN interleaving[<<cts[1], cts[2], Entry(FunOf(cts[3]))>>] ELSE {})
  BY DEF UpdateNonCandidateFuns, treeVars
<1>2. mhpRoot \in Nat /\ mhpRoot <= Len(nodes) /\ mhpRoot = Len(nodes)
  BY DEF InterleavingInv, UpdateNonCandidateFuns
<1>3. Tids' = Tids
  BY <1>1 DEF Tids
<1>4. ASSUME NEW cts \in NonCandidateStmts
      PROVE  \E c \in DOMAIN interleaving :
                /\ c = <<cts[1], cts[2], Entry(FunOf(cts[3]))>>
                /\ cts = <<c[1], c[2], cts[3]>> /\ cts[3] \in Stmts /\ FunOf(cts[3]) = FunOf(c[3])
                /\ c[1] \in Tids /\ <<c[2], FunOf(c[3])>> \in Walked
  <2>1. PICK c \in DOMAIN interleaving :
            cts \in AtThread(c[1], c[2], {s \in Stmts : Entry(FunOf(s)) = c[3]})
    BY DEF NonCandidateStmts
  <2>2. PICK s \in Stmts : Entry(FunOf(s)) = c[3] /\ cts = <<c[1], c[2], s>>
    BY <2>1 DEF AtThread
  <2>3. c = <<c[1], c[2], c[3]>> /\ c[1] \in Tids /\ <<c[2], FunOf(c[3])>> \in Walked
    BY DEF InterleavingInv, Rows, ThreadTargets, OnThread
  <2>4. FunOf(Entry(FunOf(s))) = FunOf(s)
    BY DEF Entry, FunOf
  <2>5. cts[1] = c[1] /\ cts[2] = c[2] /\ cts[3] = s
    BY <2>2
  <2> QED  BY <2>2, <2>3, <2>4, <2>5
<1>5. OnThread(NonCandidateStmts)
  <2> SUFFICES ASSUME NEW cts \in NonCandidateStmts
               PROVE  /\ cts = <<cts[1], cts[2], cts[3]>> /\ cts[1] \in Tids
                      /\ cts[3] \in Stmts /\ <<cts[2], FunOf(cts[3])>> \in Walked
    BY DEF OnThread
  <2>1. PICK c \in DOMAIN interleaving :
            /\ cts = <<c[1], c[2], cts[3]>> /\ cts[3] \in Stmts /\ FunOf(cts[3]) = FunOf(c[3])
            /\ c[1] \in Tids /\ <<c[2], FunOf(c[3])>> \in Walked
    BY <1>4
  <2>2. cts[1] = c[1] /\ cts[2] = c[2]
    BY <2>1
  <2> QED  BY <2>1, <2>2
<1>6. IsFiniteSet(NonCandidateStmts)
  <2> DEFINE S == DOMAIN interleaving
             P == S \X Stmts
             g == [p \in P |-> <<p[1][1], p[1][2], p[2]>>]
             all == {g[p] : p \in P}
  <2>1. IsFiniteSet(S) /\ IsFiniteSet(Stmts)
    BY StmtsFinite DEF ProgInv, InterleavingInv, Rows, ThreadTargets
  <2>2. NonCandidateStmts \subseteq all
    <3> SUFFICES ASSUME NEW cts \in NonCandidateStmts PROVE cts \in all
      OBVIOUS
    <3>1. PICK c \in S : cts = <<c[1], c[2], cts[3]>> /\ cts[3] \in Stmts
      BY <1>4
    <3>2. <<c, cts[3]>> \in P /\ g[<<c, cts[3]>>] = cts
      BY <3>1
    <3> HIDE DEF P, g
    <3> QED  BY <3>2
  <2> HIDE DEF S
  <2>3. IsFiniteSet(P)
    BY <2>1, FS_Product
  <2> HIDE DEF P, g
  <2>4. IsFiniteSet(all)
    BY <2>3, FiniteImage
  <2> HIDE DEF all
  <2> QED  BY <2>2, <2>4, FS_Subset
<1>7. ThreadTargets(D)
  BY <1>5, <1>6, ThreadUnion DEF InterleavingInv, Rows, ThreadTargets
<1>8. \A cts \in D : interleaving'[cts] \subseteq Tids
  <2> SUFFICES ASSUME NEW cts \in D PROVE interleaving'[cts] \subseteq Tids
    OBVIOUS
  <2>1. getInterleavingThreads(cts) \subseteq Tids
    BY DEF getInterleavingThreads, InterleavingInv, Rows
  <2>2. cts \in NonCandidateStmts =>
            interleaving[<<cts[1], cts[2], Entry(FunOf(cts[3]))>>] \subseteq Tids
    BY <1>4 DEF InterleavingInv, Rows
  <2> QED  BY <1>1, <2>1, <2>2
<1> HIDE DEF D
<1>9. Rows(interleaving)'
  BY <1>1, <1>3, <1>7, <1>8 DEF Rows, ThreadTargets, OnThread, FixedNext
<1> QED  BY <1>1, <1>2, <1>9, ListEmpty DEF InterleavingInv, IsList

LEMMA InterleavingInvStep ==
    ASSUME ProgInv, WalkInv, NodeInv, InterleavingInv, [Next]_vars PROVE InterleavingInv'
<1>0. FixedNext
  BY StepCases, FixedPrimed
<1>1. CASE MHPStep
  BY <1>0, <1>1, ForkThreadStep, JoinThreadStep, CallThreadStep, RetThreadStep, IntraThreadStep,
     NonCandidateStep, StartInterleavingStep, UpdateNonCandidateStep DEF MHPStep
<1>2. CASE ~MHPStep
  <2>1. UNCHANGED mhpVars /\ (ctsList # <<>> => stage' = "mhp")
    BY <1>2, StepCases, TreeFrame, ForkJoinFrame, LockFrame, LaterFrame
    DEF InterleavingInv, vars, progVars, analysisVars
  <2>2. Tids \subseteq Tids' /\ Len(nodes) <= Len(nodes') /\ Len(nodes') \in Nat
    <3>1. Tids \subseteq Tids'
      BY NodesGrow
    <3>2. NodeInv'
      BY WalkInvStep
    <3>3. Tids' = 1..Len(nodes') /\ Len(nodes') \in Nat
      BY <3>2 DEF NodeInv, NodesAreASequence, Tids
    <3>4. Tids = 1..Len(nodes) /\ Len(nodes) \in Nat
      BY ThreadsAreFinite
    <3>5. Len(nodes) = 0 \/ Len(nodes) \in Tids
      BY <3>4
    <3> QED  BY <3>1, <3>3, <3>4, <3>5
  <2>3. interleaving' = interleaving /\ ctsList' = ctsList /\ mhpRoot' = mhpRoot
    BY <2>1 DEF mhpVars
  <2>4. Rows(interleaving)'
    BY <1>0, <2>2, <2>3 DEF InterleavingInv, Rows, ThreadTargets, OnThread, FixedNext
  <2>5. (mhpRoot \in Nat /\ mhpRoot <= Len(nodes))'
    <3>1. mhpRoot \in Nat /\ mhpRoot <= Len(nodes) /\ Len(nodes) \in Nat
      BY ThreadsAreFinite DEF InterleavingInv
    <3> QED  BY <2>2, <2>3, <3>1
  <2> QED  BY <2>1, <2>3, <2>4, <2>5 DEF InterleavingInv, IsList
<1> QED  BY <1>1, <1>2

LEMMA InterleavingInvInit == ASSUME Init PROVE InterleavingInv
<1>1. mhpRoot = 0 /\ ctsList = <<>> /\ interleaving = <<>>
  BY DEF Init, MHPInit
<1>2. NodeInv
  BY WalkInvInit
<1>3. Len(nodes) \in Nat
  BY <1>2, ThreadsAreFinite
<1>4. DOMAIN interleaving = {}
  BY <1>1
<1>5. Rows(interleaving)
  BY <1>4, ThreadNone DEF Rows
<1> QED  BY <1>1, <1>3, <1>5, ListEmpty DEF InterleavingInv
-----------------------------------------------------------------------------
(* The functions the walk does not go into: it stops at their entries, and *)
(* their statements get, at the end, what the entry has.  It does stop     *)
(* there if no return leads into one of them, that is, if only candidates  *)
(* call candidates.                                                        *)

RoutinesStayInside ==
    \A s \in Sites({"call"}) : isCandidateFun(Callee(s)) => isCandidateFun(FunOf(s))

\* The statements of candidates, and the entries of the other functions.
Stops(S) == \A cts \in S : isCandidateFun(FunOf(cts[3])) \/ cts[3] = Entry(FunOf(cts[3]))

\* All statements of the other functions have what one of them has.
Uniform(il) ==
    \A cts \in DOMAIN il, s \in Stmts :
        ~isCandidateFun(FunOf(cts[3])) /\ FunOf(s) = FunOf(cts[3]) =>
            <<cts[1], cts[2], s>> \in DOMAIN il /\ il[<<cts[1], cts[2], s>>] = il[cts]

StopsInv ==
    IF stage \in {"tct", "fja", "mhp"} THEN Stops(DOMAIN interleaving) ELSE Uniform(interleaving)

\* The assertion "curInst is not the entry of non candidate function." (MHP.cpp:195)
NonCandidatesAtEntry ==
    \A cts \in ToSet(ctsList) :
        ~isCandidateFun(FunOf(cts[3])) => cts[3] = Entry(FunOf(cts[3]))

LEMMA UpdatedTo ==
    ASSUME NEW left, NEW A, NEW B, NEW C, Update(<<C>>, left) \/ Update(<<A, B, C>>, left)
    PROVE  interleaving' = C
<1>1. CASE Update(<<C>>, left)
  <2>1. interleaving' = Last(<<interleaving>> \o <<C>>)
    BY <1>1 DEF Update
  <2> QED  BY <2>1 DEF Last
<1>2. CASE Update(<<A, B, C>>, left)
  <2>1. interleaving' = Last(<<interleaving>> \o <<A, B, C>>)
    BY <1>2 DEF Update
  <2> QED  BY <2>1 DEF Last
<1> QED  BY <1>1, <1>2

LEMMA StopsGrow ==
    ASSUME FixedNext, Stops(DOMAIN interleaving), NEW T, Stops(T), NEW left, NEW new, NEW il,
           il = AddThreads(interleaving, T, new), Update(<<il>>, left)
    PROVE  Stops(DOMAIN interleaving)'
<1>1. interleaving' = il
  BY UpdatedTo
<1>2. DOMAIN interleaving' \subseteq DOMAIN interleaving \cup T
  BY <1>1 DEF AddThreads
<1> QED  BY <1>2 DEF Stops, FixedNext

LEMMA EntriesStop == \A t, c, f : Stops({<<t, c, Entry(f)>>})
  BY DEF Stops, Entry, FunOf

LEMMA CandidatesStop ==
    ASSUME NEW t, NEW c, NEW f, isCandidateFun(f), NEW S, \A s \in S : FunOf(s) = f
    PROVE  Stops(AtThread(t, c, S))
  BY DEF Stops, AtThread

LEMMA StopsUnion == ASSUME NEW S, NEW T, Stops(S), Stops(T) PROVE Stops(S \cup T)
  BY DEF Stops

LEMMA NextStops ==
    ASSUME ProgInv, NEW cts, cts[3] \in Stmts, isCandidateFun(FunOf(cts[3]))
    PROVE  Stops(NextOf(cts))
<1>1. \A s \in getNextInsts(cts[3]) : FunOf(s) = FunOf(cts[3])
  BY NextFacts DEF ProgInv
<1> QED  BY <1>1, CandidatesStop DEF NextOf

LEMMA StartStops ==
    ASSUME ProgInv, NodeInv, InterleavingInv, StartInterleaving, FixedNext,
           Stops(DOMAIN interleaving)
    PROVE  Stops(DOMAIN interleaving)'
<1> DEFINE t == mhpRoot + 1
           T == {EntryOf(t)} \cup AfterForksOf(t) \cup SiblingEntriesOf(t)
           C == AddThreads(interleaving, T, {t})
<1>1. mhpRoot < Len(nodes) /\ Update(<<C>>, <<>>)
  BY DEF StartInterleaving
<1>2. t \in Tids
  BY <1>1, ThreadsAreFinite DEF InterleavingInv
<1> HIDE DEF t
<1>3. {t} \cup getAncestorThread(t) \subseteq Tids
  BY <1>2, AncestorsAreThreads
<1>4. Stops(AfterForksOf(t))
  <2>1. ASSUME NEW u \in Tids, nodes[u].fork # NoSite, NEW s \in getNextInsts(nodes[u].fork)
        PROVE  isCandidateFun(FunOf(s))
    <3>1. nodes[u].fork \in Sites({"fork"}) /\ nodes[u].fork \in Stmts
      BY <2>1 DEF NodeInv, IsNode, Sites
    <3>2. nodes[u].fork \in Sites({"fork", "join"})
      BY <3>1 DEF Sites
    <3>3. FunOf(s) = FunOf(nodes[u].fork)
      BY <3>1, NextFacts DEF ProgInv
    <3> QED  BY <3>2, <3>3, CandidateFacts
  <2> QED  BY <1>3, <2>1 DEF Stops, AfterForksOf, AtThread
<1>5. Stops(SiblingEntriesOf(t)) /\ Stops({EntryOf(t)})
  BY EntriesStop DEF Stops, SiblingEntriesOf, EntryOf
<1>6. Stops(T)
  BY <1>4, <1>5 DEF Stops
<1> HIDE DEF T
<1>7. C = AddThreads(interleaving, T, {t})
  OBVIOUS
<1> HIDE DEF C
<1> QED  BY <1>1, <1>6, <1>7, StopsGrow

\* A handler adds statements of the candidate it is in or returns to, and entries.
LEMMA VisitStops ==
    ASSUME ProgInv, InterleavingInv, RoutinesStayInside, FixedNext, Stops(DOMAIN interleaving),
           NEW cts,
           \/ VisitForkThread(cts) \/ VisitJoinThread(cts) \/ VisitCallThread(cts)
           \/ VisitRetThread(cts) \/ VisitIntraThread(cts) \/ VisitNonCandidate(cts)
    PROVE  Stops(DOMAIN interleaving)'
<1>1. ASSUME NEW kinds, VisitingThread(cts, TRUE, kinds)
      PROVE  /\ cts[3] \in Stmts /\ isCandidateFun(FunOf(cts[3])) /\ Op(cts[3]) \in kinds
             /\ Stops(NextOf(cts))
  <2>1. cts[3] \in Stmts /\ isCandidateFun(FunOf(cts[3])) /\ Op(cts[3]) \in kinds
    BY <1>1, VisitingThreadFacts
  <2> QED  BY <2>1, NextStops
<1>2. ASSUME NEW T, Stops(T),
             Update(<<AddThreads(interleaving, T, interleaving[cts])>>, Tail(ctsList))
      PROVE  Stops(DOMAIN interleaving)'
  <2> DEFINE il == AddThreads(interleaving, T, interleaving[cts])
  <2>1. il = AddThreads(interleaving, T, interleaving[cts]) /\ Update(<<il>>, Tail(ctsList))
    BY <1>2
  <2> HIDE DEF il
  <2> QED  BY <1>2, <2>1, StopsGrow
<1>3. CASE VisitForkThread(cts)
  <2> DEFINE child == getTCTNode(pushCxt(cts[2], cts[3]), cts[3])
             entry == {<<child, nodes[child].cxt, Entry(Callee(cts[3]))>>}
             T == entry \cup NextOf(cts)
  <2>1. /\ VisitingThread(cts, TRUE, {"fork"})
        /\ Update(<<AddThreads(interleaving, T, interleaving[cts])>>, Tail(ctsList))
    BY <1>3 DEF VisitForkThread
  <2>2. Stops(entry)
    BY EntriesStop
  <2> HIDE DEF entry
  <2>3. Stops(T)
    BY <1>1, <2>1, <2>2, StopsUnion
  <2> HIDE DEF T
  <2> QED  BY <1>2, <2>1, <2>3
<1>4. CASE VisitCallThread(cts)
  <2> DEFINE entry == {<<cts[1], pushCxt(cts[2], cts[3]), Entry(Callee(cts[3]))>>}
             after == IF isCandidateFun(Callee(cts[3])) THEN {} ELSE NextOf(cts)
             T == entry \cup after
  <2>1. /\ VisitingThread(cts, TRUE, {"call"})
        /\ Update(<<AddThreads(interleaving, T, interleaving[cts])>>, Tail(ctsList))
    BY <1>4 DEF VisitCallThread
  <2>2. Stops(entry)
    BY EntriesStop
  <2>3. Stops(after)
    BY <1>1, <2>1 DEF Stops
  <2> HIDE DEF entry, after
  <2>4. Stops(T)
    BY <2>2, <2>3, StopsUnion
  <2> HIDE DEF T
  <2> QED  BY <1>2, <2>1, <2>4
<1>5. CASE VisitRetThread(cts)
  <2> DEFINE R == ReturnTargets(cts[2], FunOf(cts[3]))
             T == {<<cts[1], cs[1], cs[2]>> : cs \in R}
  <2>1. /\ VisitingThread(cts, TRUE, {"ret"})
        /\ Update(<<AddThreads(interleaving, T, interleaving[cts])>>, Tail(ctsList))
    BY <1>5 DEF VisitRetThread
  <2>2. ASSUME NEW cs \in R PROVE isCandidateFun(FunOf(cs[2]))
    <3>1. PICK site \in Sites({"call"}) : \E c \in matchCxt(cts[2], site) :
              Callee(site) = FunOf(cts[3]) /\ cs \in At(c, getNextInsts(site))
      BY DEF ReturnTargets
    <3>2. cs[2] \in getNextInsts(site) /\ site \in Stmts
      BY <3>1 DEF At, Sites
    <3>3. FunOf(cs[2]) = FunOf(site)
      BY <3>2, NextFacts DEF ProgInv
    <3>4. isCandidateFun(Callee(site))
      BY <1>1, <2>1, <3>1
    <3> QED  BY <3>3, <3>4 DEF RoutinesStayInside
  <2> HIDE DEF R
  <2>3. Stops(T)
    BY <2>2 DEF Stops
  <2> HIDE DEF T
  <2> QED  BY <1>2, <2>1, <2>3
<1>6. CASE VisitIntraThread(cts)
  <2> DEFINE kinds == {"access", "lock", "unlock", "branch", "goto", "loop"}
  <2>1. /\ VisitingThread(cts, TRUE, kinds)
        /\ Update(<<AddThreads(interleaving, NextOf(cts), interleaving[cts])>>, Tail(ctsList))
    BY <1>6 DEF VisitIntraThread
  <2> HIDE DEF kinds
  <2> QED  BY <1>1, <1>2, <2>1
<1>7. CASE VisitNonCandidate(cts)
  <2> DEFINE callees == {Callee(s) : s \in {c \in Sites({"call"}) : FunOf(c) = FunOf(cts[3])}}
             T == AtThread(cts[1], cts[2], {Entry(f) : f \in callees})
  <2>1. Update(<<AddThreads(interleaving, T, interleaving[cts])>>, Tail(ctsList))
    BY <1>7 DEF VisitNonCandidate
  <2> HIDE DEF callees
  <2>2. Stops(T)
    BY DEF Stops, AtThread, Entry, FunOf
  <2> HIDE DEF T
  <2> QED  BY <1>2, <2>1, <2>2
<1>8. CASE VisitJoinThread(cts)
  <2> DEFINE join == cts[3]
             joined == getDirAndIndJoinedTid(cts[2], join)
             loop == getJoinLoop(join)
             exits == IF loop = NoSite THEN {} ELSE AtThread(cts[1], cts[2], getExitBlocks(loop))
             A == AddThreads(interleaving, exits, interleaving[cts])
             where == CASE loop = NoSite -> {cts}
                        [] loop # NoSite /\ isJoinInSymmetricLoop(cts[2], join) -> exits
                        [] OTHER -> {}
             B == RemoveThreads(A, where, cts[1], joined, join)
             C == AddThreads(B, NextOf(cts), B[cts])
  <2>1. VisitingThread(cts, TRUE, {"join"}) /\ Update(<<A, B, C>>, Tail(ctsList))
    BY <1>8 DEF VisitJoinThread
  <2>2. cts[3] \in Sites({"join"})
    BY <1>1, <2>1 DEF Sites
  <2>3. Stops(exits)
    <3>1. loop # NoSite => \A s \in getExitBlocks(loop) : FunOf(s) = FunOf(cts[3])
      BY <2>2, ExitFacts
    <3> HIDE DEF loop
    <3>2. loop # NoSite => Stops(AtThread(cts[1], cts[2], getExitBlocks(loop)))
      BY <1>1, <2>1, <3>1, CandidatesStop
    <3> QED  BY <3>2 DEF Stops
  <2> HIDE DEF joined, exits, loop
  <2>4. DOMAIN A \subseteq DOMAIN interleaving \cup exits
    BY DEF AddThreads
  <2> HIDE DEF A, where
  <2>5. DOMAIN B = DOMAIN A
    BY DEF RemoveThreads
  <2> HIDE DEF B
  <2>6. DOMAIN C \subseteq DOMAIN B \cup NextOf(cts)
    BY DEF AddThreads
  <2> HIDE DEF C
  <2>7. interleaving' = C
    BY <2>1, UpdatedTo
  <2>8. DOMAIN interleaving' \subseteq DOMAIN interleaving \cup exits \cup NextOf(cts)
    BY <2>4, <2>5, <2>6, <2>7
  <2>9. Stops(NextOf(cts))
    BY <1>1, <2>1
  <2> QED  BY <2>3, <2>8, <2>9 DEF Stops, FixedNext
<1> QED  BY <1>3, <1>4, <1>5, <1>6, <1>7, <1>8

LEMMA UpdateIsUniform ==
    ASSUME ProgInv, InterleavingInv, FixedNext, Stops(DOMAIN interleaving), UpdateNonCandidateFuns
    PROVE  Uniform(interleaving)'
<1> DEFINE D == NonCandidateStmts \cup DOMAIN interleaving
<1>1. /\ DOMAIN interleaving' = D
      /\ \A cts \in D : interleaving'[cts] =
            getInterleavingThreads(cts)
            \cup (IF cts \in NonCandidateStmts
                  THEN interleaving[<<cts[1], cts[2], Entry(FunOf(cts[3]))>>] ELSE {})
  BY DEF UpdateNonCandidateFuns
<1>2. \A c \in DOMAIN interleaving : c = <<c[1], c[2], c[3]>> /\ c[3] \in Stmts
  BY DEF InterleavingInv, Rows, ThreadTargets, OnThread
<1>3. \A f, s : FunOf(Entry(f)) = f /\ (Entry(FunOf(s)) = Entry(f) <=> FunOf(s) = f)
  BY DEF Entry, FunOf
\* The entry of a function that is no candidate has its row, and so have the others.
<1>4. ASSUME NEW x \in D, ~isCandidateFun(FunOf(x[3]))
      PROVE  /\ <<x[1], x[2], Entry(FunOf(x[3]))>> \in DOMAIN interleaving
             /\ x = <<x[1], x[2], x[3]>>
  <2>1. CASE x \in DOMAIN interleaving
    <3>1. x[3] = Entry(FunOf(x[3]))
      BY <1>4, <2>1 DEF Stops
    <3> QED  BY <1>2, <2>1, <3>1
  <2>2. CASE x \in NonCandidateStmts
    <3>1. PICK c \in DOMAIN interleaving :
              x \in AtThread(c[1], c[2], {s \in Stmts : Entry(FunOf(s)) = c[3]})
      BY <2>2 DEF NonCandidateStmts
    <3>2. PICK s \in Stmts : Entry(FunOf(s)) = c[3] /\ x = <<c[1], c[2], s>>
      BY <3>1 DEF AtThread
    <3>3. x[1] = c[1] /\ x[2] = c[2] /\ x[3] = s
      BY <3>2
    <3> QED  BY <1>2, <3>2, <3>3
  <2> QED  BY <2>1, <2>2
<1>5. ASSUME NEW c \in DOMAIN interleaving, ~isCandidateFun(FunOf(c[3])),
             NEW s \in Stmts, FunOf(s) = FunOf(c[3])
      PROVE  <<c[1], c[2], s>> \in NonCandidateStmts
  <2>1. c[3] = Entry(FunOf(c[3]))
    BY <1>5 DEF Stops
  <2>2. s \in {u \in Stmts : Entry(FunOf(u)) = c[3]}
    BY <1>5, <2>1
  <2>3. <<c[1], c[2], s>> \in AtThread(c[1], c[2], {u \in Stmts : Entry(FunOf(u)) = c[3]})
    BY <2>2 DEF AtThread
  <2> QED  BY <1>5, <2>3 DEF NonCandidateStmts
<1>6. ASSUME NEW x \in D, ~isCandidateFun(FunOf(x[3])), NEW s \in Stmts, FunOf(s) = FunOf(x[3])
      PROVE  /\ <<x[1], x[2], s>> \in D
             /\ interleaving'[<<x[1], x[2], s>>] =
                    interleaving[<<x[1], x[2], Entry(FunOf(x[3]))>>]
  <2> DEFINE e == <<x[1], x[2], Entry(FunOf(x[3]))>>
             y == <<x[1], x[2], s>>
  <2>1. e \in DOMAIN interleaving
    BY <1>4, <1>6
  <2>2. e[1] = x[1] /\ e[2] = x[2] /\ e[3] = Entry(FunOf(x[3])) /\ FunOf(e[3]) = FunOf(x[3])
    BY <1>3
  <2>3. y[1] = x[1] /\ y[2] = x[2] /\ y[3] = s
    OBVIOUS
  <2>4. <<y[1], y[2], Entry(FunOf(y[3]))>> = e
    BY <1>6, <2>3
  <2> HIDE DEF e
  <2>5. y \in NonCandidateStmts
    BY <1>5, <1>6, <2>1, <2>2
  <2> HIDE DEF y
  <2>6. y \in D
    BY <2>5
  <2>7. interleaving'[y] = getInterleavingThreads(y) \cup interleaving[e]
    BY <1>1, <2>4, <2>5, <2>6
  <2>8. getInterleavingThreads(y) \subseteq interleaving[e]
    <3>1. CASE y \in DOMAIN interleaving
      <4>1. y[3] = Entry(FunOf(y[3]))
        BY <1>6, <2>3, <3>1 DEF Stops
      <4>2. y = e
        BY <1>2, <2>4, <3>1, <4>1
      <4> QED  BY <3>1, <4>2 DEF getInterleavingThreads
    <3>2. CASE y \notin DOMAIN interleaving
      BY <3>2 DEF getInterleavingThreads
    <3> QED  BY <3>1, <3>2
  <2>9. interleaving'[y] = interleaving[e]
    BY <2>7, <2>8
  <2> QED  BY <2>6, <2>9 DEF e, y
<1> SUFFICES ASSUME NEW x \in D, NEW s \in Stmts,
                    ~isCandidateFun(FunOf(x[3])), FunOf(s) = FunOf(x[3])
             PROVE  /\ <<x[1], x[2], s>> \in D
                    /\ interleaving'[<<x[1], x[2], s>>] = interleaving'[x]
  BY <1>1 DEF Uniform, FixedNext
<1>7. x = <<x[1], x[2], x[3]>>
  BY <1>4
<1>8. x[3] \in Stmts
  <2>1. CASE x \in DOMAIN interleaving
    BY <1>2, <2>1
  <2>2. CASE x \in NonCandidateStmts
    BY <2>2 DEF NonCandidateStmts, AtThread
  <2> QED  BY <2>1, <2>2
<1>9. interleaving'[x] = interleaving[<<x[1], x[2], Entry(FunOf(x[3]))>>]
  <2>1. interleaving'[<<x[1], x[2], x[3]>>] = interleaving[<<x[1], x[2], Entry(FunOf(x[3]))>>]
    BY <1>6, <1>8
  <2> QED  BY <1>7, <2>1
<1> QED  BY <1>6, <1>9

LEMMA StopsInvStep ==
    ASSUME ProgInv, NodeInv, InterleavingInv, RoutinesStayInside, StopsInv, [Next]_vars
    PROVE  StopsInv'
<1>0. FixedNext
  BY StepCases, FixedPrimed
<1>1. CASE UpdateNonCandidateFuns
  <2>1. stage = "mhp" /\ stage' = "lock"
    BY <1>1 DEF UpdateNonCandidateFuns
  <2> QED  BY <1>0, <1>1, <2>1, UpdateIsUniform DEF StopsInv
<1>2. CASE MHPStep /\ ~UpdateNonCandidateFuns
  <2>1. stage = "mhp" /\ stage' = "mhp"
    BY <1>2 DEF MHPStep, StartInterleaving, VisitForkThread, VisitJoinThread, VisitCallThread,
                VisitRetThread, VisitIntraThread, VisitNonCandidate, VisitingThread, progVars
  <2>2. Stops(DOMAIN interleaving)'
    BY <1>0, <1>2, <2>1, StartStops, VisitStops DEF MHPStep, StopsInv
  <2> QED  BY <2>1, <2>2 DEF StopsInv
<1>3. CASE ~MHPStep
  <2>1. /\ UNCHANGED mhpVars
        /\ stage \in {"tct", "fja", "mhp"} <=> stage' \in {"tct", "fja", "mhp"}
    BY <1>3, StepCases, TreeFrame, ForkJoinFrame, LockFrame, LaterFrame
    DEF vars, progVars, analysisVars
  <2>2. interleaving' = interleaving
    BY <2>1 DEF mhpVars
  <2>3. /\ Stops(DOMAIN interleaving) => Stops(DOMAIN interleaving)'
        /\ Uniform(interleaving) => Uniform(interleaving)'
    BY <1>0, <2>2 DEF Stops, Uniform, FixedNext
  <2> QED  BY <2>1, <2>3 DEF StopsInv
<1> QED  BY <1>1, <1>2, <1>3

LEMMA StopsInvInit == ASSUME Init PROVE StopsInv
  BY DEF Init, MHPInit, StopsInv, Stops

LEMMA RoutinesFixed == ASSUME [Next]_vars PROVE RoutinesStayInside' = RoutinesStayInside
<1>1. FixedNext
  BY StepCases, FixedPrimed
<1> QED  BY <1>1 DEF RoutinesStayInside, FixedNext

\* The statements of a function that is no candidate have the same answers.
LEMMA SameAnswers ==
    ASSUME ProgInv, InterleavingInv, Uniform(interleaving), NEW s \in Stmts, NEW u \in Stmts,
           FunOf(s) = FunOf(u), ~isCandidateFun(FunOf(s)), NEW v,
           mayHappenInParallelInst(s, v) \/ mayHappenInParallelInst(v, s)
    PROVE  /\ mayHappenInParallelInst(s, v) => mayHappenInParallelInst(u, v)
           /\ mayHappenInParallelInst(v, s) => mayHappenInParallelInst(v, u)
<1>1. ASSUME NEW x \in ThreadStmtSet(s)
      PROVE  \E y \in ThreadStmtSet(u) :
                y[1] = x[1] /\ y \in DOMAIN interleaving /\ interleaving[y] = interleaving[x]
  <2>1. x \in DOMAIN interleaving /\ x[3] = s
    BY DEF ThreadStmtSet
  <2> DEFINE y == <<x[1], x[2], u>>
  <2>2. y \in DOMAIN interleaving /\ interleaving[y] = interleaving[x]
    BY <2>1 DEF Uniform
  <2>3. y[1] = x[1] /\ y[3] = u
    OBVIOUS
  <2> HIDE DEF y
  <2> QED  BY <2>2, <2>3 DEF ThreadStmtSet
<1>2. ASSUME mayHappenInParallelInst(s, v) PROVE mayHappenInParallelInst(u, v)
  <2>1. PICK x \in ThreadStmtSet(s) : \E z \in ThreadStmtSet(v) :
            IF x[1] = z[1] THEN isMultiForkedThread(x[1])
            ELSE z[1] \in interleaving[x] /\ x[1] \in interleaving[z]
    BY <1>2 DEF mayHappenInParallelInst
  <2>2. PICK y \in ThreadStmtSet(u) : y[1] = x[1] /\ interleaving[y] = interleaving[x]
    BY <1>1
  <2> QED  BY <2>1, <2>2 DEF mayHappenInParallelInst
<1>3. ASSUME mayHappenInParallelInst(v, s) PROVE mayHappenInParallelInst(v, u)
  <2>1. PICK x \in ThreadStmtSet(s) : \E z \in ThreadStmtSet(v) :
            IF z[1] = x[1] THEN isMultiForkedThread(z[1])
            ELSE x[1] \in interleaving[z] /\ z[1] \in interleaving[x]
    BY <1>3 DEF mayHappenInParallelInst
  <2>2. PICK y \in ThreadStmtSet(u) : y[1] = x[1] /\ interleaving[y] = interleaving[x]
    BY <1>1
  <2> QED  BY <2>1, <2>2 DEF mayHappenInParallelInst
<1> QED  BY <1>2, <1>3

LEMMA UniformIsExact ==
    ASSUME ProgInv, InterleavingInv, stage = "done" => Uniform(interleaving)
    PROVE  CacheIsExact
<1> SUFFICES ASSUME stage = "done", NEW f \in Funs \ candidateFuncSet,
                    NEW g \in Funs \ candidateFuncSet
             PROVE  Cardinality({mayHappenInParallelInst(s1, s2) :
                                    s1 \in {s \in Stmts : FunOf(s) = f},
                                    s2 \in {s \in Stmts : FunOf(s) = g}}) = 1
  BY DEF CacheIsExact
<1> DEFINE S == {s \in Stmts : FunOf(s) = f}
           T == {s \in Stmts : FunOf(s) = g}
           answers == {mayHappenInParallelInst(s1, s2) : s1 \in S, s2 \in T}
           answer == mayHappenInParallelInst(Entry(f), Entry(g))
<1>1. Entry(f) \in S /\ Entry(g) \in T
  BY StmtFacts DEF ProgInv
<1>2. ~isCandidateFun(f) /\ ~isCandidateFun(g)
  BY DEF isCandidateFun
<1>3. ASSUME NEW s1 \in S, NEW s2 \in T PROVE mayHappenInParallelInst(s1, s2) <=> answer
  <2>1. mayHappenInParallelInst(s1, s2) <=> mayHappenInParallelInst(Entry(f), s2)
    BY <1>1, <1>2, SameAnswers
  <2>2. mayHappenInParallelInst(Entry(f), s2) <=> mayHappenInParallelInst(Entry(f), Entry(g))
    BY <1>1, <1>2, SameAnswers
  <2> QED  BY <2>1, <2>2
<1>4. answers = {answer}
  <2>1. answer \in answers
    BY <1>1
  <2>2. ASSUME NEW a \in answers PROVE a = answer
    <3>1. PICK s1 \in S, s2 \in T : a = mayHappenInParallelInst(s1, s2)
      OBVIOUS
    <3>2. mayHappenInParallelInst(s1, s2) \in BOOLEAN /\ answer \in BOOLEAN
      BY DEF mayHappenInParallelInst
    <3>3. mayHappenInParallelInst(s1, s2) <=> answer
      BY <1>3
    <3> QED  BY <3>1, <3>2, <3>3
  <2> HIDE DEF answer, answers
  <2> QED  BY <2>1, <2>2
<1>5. Cardinality(answers) = 1
  <2> HIDE DEF answer, answers
  <2> QED  BY <1>4, FS_Singleton
<1>6. answers = {mayHappenInParallelInst(s1, s2) :
                    s1 \in {s \in Stmts : FunOf(s) = f},
                    s2 \in {s \in Stmts : FunOf(s) = g}}
  OBVIOUS
<1> HIDE DEF answers
<1> QED  BY <1>5, <1>6

\* What the proofs below keep.
StopsWhole == ProgInv /\ WalkInv /\ NodeInv /\ InterleavingInv /\ (RoutinesStayInside => StopsInv)

LEMMA StopsWholeKept == Spec => []StopsWhole
<1>1. Init => StopsWhole
  BY ProgInvInit, WalkInvInit, InterleavingInvInit, StopsInvInit DEF StopsWhole
<1>2. StopsWhole /\ [Next]_vars => StopsWhole'
  BY ProgInvStep, WalkInvStep, InterleavingInvStep, StopsInvStep, RoutinesFixed DEF StopsWhole
<1> QED  BY <1>1, <1>2, PTL DEF Spec

\* The assertion of MHP.cpp:195 holds of every program in which only candidates call
\* candidates.
THEOREM EntryIsMetFirst == Spec => [](RoutinesStayInside => NonCandidatesAtEntry)
<1>1. StopsWhole => (RoutinesStayInside => NonCandidatesAtEntry)
  BY ListEmpty DEF StopsWhole, StopsInv, Stops, InterleavingInv, NonCandidatesAtEntry
<1> QED  BY <1>1, StopsWholeKept, PTL

\* In these programs one answer is right for all statements of two functions that
\* neither fork nor join (MHP.cpp:532-545).
THEOREM CacheAnswersForAll == Spec => [](RoutinesStayInside => CacheIsExact)
<1>1. StopsWhole => (RoutinesStayInside => CacheIsExact)
  BY UniformIsExact DEF StopsWhole, StopsInv
<1> QED  BY <1>1, StopsWholeKept, PTL

-----------------------------------------------------------------------------
(* Programs that fork outside of recursion, and join nothing: no thread    *)
(* creates itself again, a node has one creator, and what may run in       *)
(* parallel only grows as the walk goes on.                                *)

NoJoins == Sites({"join"}) = {}
ForksOutsideRecursion == \A s \in Sites({"fork"}) : ~isInRecursion(s)

\* The functions a fork is executed in, or through.
Forking == Above({FunOf(s) : s \in Sites({"fork"})})

LEMMA ForkingFacts ==
    ASSUME ProgInv, ForksOutsideRecursion
    PROVE  /\ \A x \in CallSites : Op(x) = "fork" \/ Callee(x) \in Forking =>
                /\ FunOf(x) \in Forking
                /\ \A c : pushCxt(c, x) = Append(c, x)
                /\ ~inSameCallGraphSCC(FunOf(x), Callee(x))
           /\ \A f \in Forking : isCandidateFun(f)
<1> DEFINE B == {FunOf(s) : s \in Sites({"fork"})}
<1>1. \A s \in Sites({"fork"}) : s \in CallSites /\ s \in Sites({"fork", "join"}) /\ Op(s) = "fork"
  BY DEF Sites, CallSites
<1>2. B \subseteq Funs
  BY <1>1, StmtFacts DEF ProgInv
<1>3. /\ \A s \in CallSites : Callee(s) \in Forking => FunOf(s) \in Forking
      /\ \A f \in Forking : f \in B \/ \E g \in B : Reaches(f, g)
  BY <1>2, AboveFacts DEF Forking, Above
<1>4. \A f \in Forking : isCandidateFun(f)
  <2>1. B \subseteq Related
    BY <1>1, CandidateFacts
  <2> HIDE DEF B
  <2> QED  BY <1>3, <2>1, CandidateFacts
<1>5. \A x \in CallSites : Op(x) = "fork" => x \in Sites({"fork"}) /\ FunOf(x) \in B
  BY DEF Sites, CallSites
<1>6. \A f \in B : f \in Forking
  BY DEF Forking, Above
<1>7. ASSUME NEW x \in CallSites, Op(x) = "fork" \/ Callee(x) \in Forking
      PROVE  ~inSameCallGraphSCC(FunOf(x), Callee(x))
  <2>1. PICK s \in Sites({"fork"}) : x \in SitesAbove(s)
    <3>1. CASE Op(x) = "fork"
      BY <1>5, <3>1 DEF SitesAbove
    <3>2. CASE Callee(x) \in Forking
      <4>1. PICK s \in Sites({"fork"}) : Callee(x) = FunOf(s) \/ Reaches(Callee(x), FunOf(s))
        BY <1>3, <3>2
      <4> QED  BY <4>1 DEF SitesAbove, CallSites
    <3> QED  BY <1>7, <3>1, <3>2
  <2>2. ~Reaches(FunOf(x), FunOf(x))
    BY <2>1 DEF ForksOutsideRecursion, isInRecursion, isInCycle
  <2> QED  BY <2>2, ReachFacts DEF inSameCallGraphSCC
<1> HIDE DEF B
<1> QED  BY <1>3, <1>4, <1>5, <1>6, <1>7 DEF pushCxt

-----------------------------------------------------------------------------
(* The tree of such a program.                                             *)

\* v, and calls.
Continues(u, v) ==
    /\ Len(v) <= Len(u)
    /\ \A k \in 1..Len(u) : IF k <= Len(v) THEN u[k] = v[k] ELSE Op(u[k]) = "call"

\* A node has its context and its fork for itself; the context under which a thread calls, and
\* forks, on the way to a fork is its own and calls.
TreeShape ==
    /\ \A t \in Tids : t # 1 => nodes[t].fork # NoSite
    /\ \A t, u \in Tids : nodes[t].cxt = nodes[u].cxt /\ nodes[t].fork = nodes[u].fork => t = u
    /\ \A v \in visitedCTPs : v.fun \in Forking => Continues(v.cxt, nodes[v.tid].cxt)
    /\ \A e \in edges : Continues(nodes[e[2]].forkCxt, nodes[e[1]].cxt)

LEMMA ContinuesFacts ==
    ASSUME NEW S, NEW u \in Seq(S), NEW v, Len(v) \in Nat, Continues(u, v)
    PROVE  /\ Continues(u, u)
           /\ \A x \in S : Op(x) = "call" => Continues(Append(u, x), v)
<1>1. Continues(u, u)
  BY DEF Continues
<1>2. ASSUME NEW x \in S, Op(x) = "call" PROVE Continues(Append(u, x), v)
  <2> DEFINE w == Append(u, x)
  <2>1. Len(w) = Len(u) + 1 /\ w[Len(u) + 1] = x /\ Len(u) \in Nat /\ \A k \in 1..Len(u) : w[k] = u[k]
    OBVIOUS
  <2> HIDE DEF w
  <2>2. Len(v) <= Len(w)
    BY <2>1 DEF Continues
  <2>3. ASSUME NEW k \in 1..Len(w) PROVE IF k <= Len(v) THEN w[k] = v[k] ELSE Op(w[k]) = "call"
    <3>1. CASE k = Len(u) + 1
      BY <1>2, <2>1, <3>1 DEF Continues
    <3>2. CASE k # Len(u) + 1
      <4>1. k \in 1..Len(u)
        BY <2>1, <3>2
      <4> QED  BY <2>1, <4>1 DEF Continues
    <3> QED  BY <3>1, <3>2
  <2> QED  BY <2>2, <2>3 DEF Continues, w
<1> QED  BY <1>1, <1>2

\* The contexts of the tree.
LEMMA NodeCxts ==
    ASSUME ProgInv, NodeInv, ForksOutsideRecursion, NEW t \in Tids
    PROVE  /\ nodes[t].cxt \in Seq(CallSites)
           /\ nodes[t].fork # NoSite =>
                /\ nodes[t].forkCxt \in Seq(CallSites)
                /\ nodes[t].fork \in CallSites /\ Op(nodes[t].fork) = "fork"
                /\ nodes[t].cxt = Append(nodes[t].forkCxt, nodes[t].fork)
                /\ nodes[t].routine = Callee(nodes[t].fork)
<1> DEFINE n == nodes[t]
<1>1. IsNode(n)
  BY DEF NodeInv
<1> HIDE DEF n
<1>2. n.cxt \in Seq(CallSites)
  <2> DEFINE w == <<n.cxt, n.routine>>
  <2>1. w \in Walked /\ w[1] = n.cxt
    BY <1>1 DEF IsNode
  <2> HIDE DEF w
  <2> QED  BY <2>1, WalkedFacts
<1>3. ASSUME n.fork # NoSite
      PROVE  /\ n.forkCxt \in Seq(CallSites) /\ n.fork \in CallSites /\ Op(n.fork) = "fork"
             /\ n.cxt = Append(n.forkCxt, n.fork) /\ n.routine = Callee(n.fork)
  <2> DEFINE w == <<n.forkCxt, FunOf(n.fork)>>
  <2>1. w \in Walked /\ w[1] = n.forkCxt
    BY <1>1, <1>3 DEF IsNode
  <2> HIDE DEF w
  <2>2. n.forkCxt \in Seq(CallSites)
    BY <2>1, WalkedFacts
  <2>3. n.fork \in CallSites /\ Op(n.fork) = "fork" /\ n.cxt = pushCxt(n.forkCxt, n.fork)
        /\ n.routine = Callee(n.fork)
    BY <1>1, <1>3 DEF IsNode, Sites, CallSites
  <2> QED  BY <2>2, <2>3, ForkingFacts
<1> QED  BY <1>2, <1>3 DEF n

\* A context continues that of one node.
LEMMA OneNode ==
    ASSUME ProgInv, NodeInv, ForksOutsideRecursion, TreeShape,
           NEW c \in Seq(CallSites), NEW v \in Tids, NEW w \in Tids,
           Continues(c, nodes[v].cxt), Continues(c, nodes[w].cxt)
    PROVE  v = w
<1>1. ASSUME NEW t \in Tids, Continues(c, nodes[t].cxt)
      PROVE  /\ nodes[t].cxt \in Seq(CallSites) /\ Len(nodes[t].cxt) \in Nat
             /\ Len(nodes[t].cxt) = 0 <=> t = 1
             /\ t # 1 => LET n == Len(nodes[t].cxt)
                         IN  /\ nodes[t].fork = nodes[t].cxt[n] /\ nodes[t].fork = c[n]
                             /\ n \in 1..Len(c) /\ Op(nodes[t].fork) = "fork"
             /\ Len(nodes[t].cxt) <= Len(c)
             /\ \A k \in 1..Len(nodes[t].cxt) : nodes[t].cxt[k] = c[k]
  <2> DEFINE x == nodes[t].cxt
             n == Len(x)
  <2>1. x \in Seq(CallSites) /\ n \in Nat
    BY NodeCxts
  <2>2. n <= Len(c) /\ \A k \in 1..n : x[k] = c[k]
    BY <1>1, <2>1 DEF Continues
  <2>3. t = 1 => n = 0
    BY DEF NodeInv
  <2>4. ASSUME t # 1
        PROVE  n # 0 /\ nodes[t].fork = x[n] /\ nodes[t].fork = c[n] /\ n \in 1..Len(c)
               /\ Op(nodes[t].fork) = "fork"
    <3> DEFINE y == nodes[t].forkCxt
               s == nodes[t].fork
    <3>1. y \in Seq(CallSites) /\ s \in CallSites /\ Op(s) = "fork" /\ x = Append(y, s)
      BY <2>4, NodeCxts DEF TreeShape
    <3> HIDE DEF x, y, s
    <3>2. n = Len(y) + 1 /\ x[Len(y) + 1] = s /\ Len(y) \in Nat
      BY <3>1
    <3>3. n \in 1..Len(c) /\ s = x[n]
      BY <2>2, <3>2
    <3> QED  BY <2>2, <3>1, <3>2, <3>3 DEF s
  <2> HIDE DEF x
  <2> QED  BY <2>1, <2>2, <2>3, <2>4 DEF x
<1>2. ASSUME NEW t \in Tids, NEW u \in Tids, Continues(c, nodes[t].cxt), Continues(c, nodes[u].cxt),
             Len(nodes[u].cxt) < Len(nodes[t].cxt)
      PROVE  FALSE
  <2> DEFINE n == Len(nodes[t].cxt)
  <2>1. n \in Nat /\ n # 0 /\ Len(nodes[u].cxt) \in Nat
    BY <1>1, <1>2
  <2>2. n \in 1..Len(c) /\ Op(c[n]) = "fork"
    BY <1>1, <1>2, <2>1
  <2>3. ~(n <= Len(nodes[u].cxt))
    BY <1>2, <2>1
  <2>4. Op(c[n]) = "call"
    BY <1>2, <2>2, <2>3 DEF Continues
  <2> QED  BY <2>2, <2>4
<1>3. Len(nodes[v].cxt) = Len(nodes[w].cxt)
  <2>1. Len(nodes[v].cxt) \in Nat /\ Len(nodes[w].cxt) \in Nat
    BY <1>1
  <2> QED  BY <1>2, <2>1
<1>4. nodes[v].cxt = nodes[w].cxt
  <2>1. \A k \in 1..Len(nodes[v].cxt) : nodes[v].cxt[k] = nodes[w].cxt[k]
    BY <1>1, <1>3
  <2> DEFINE x == nodes[v].cxt
             y == nodes[w].cxt
  <2>2. x \in Seq(CallSites) /\ y \in Seq(CallSites)
    BY <1>1
  <2> HIDE DEF x, y
  <2>3. x = y
    BY <1>3, <2>1, <2>2 DEF x, y
  <2> QED  BY <2>3 DEF x, y
<1>5. CASE v = 1 \/ w = 1
  BY <1>1, <1>3, <1>5
<1>6. CASE v # 1 /\ w # 1
  <2>1. nodes[v].fork = nodes[w].fork
    BY <1>1, <1>3, <1>4, <1>6
  <2> QED  BY <1>4, <2>1 DEF TreeShape
<1> QED  BY <1>5, <1>6

\* The node a fork under a context that continues its own makes is its child, and of no other.
LEMMA ParentIs ==
    ASSUME ProgInv, NodeInv, ForksOutsideRecursion, TreeShape,
           NEW u \in Tids, u # 1, NEW v \in Tids, Continues(nodes[u].forkCxt, nodes[v].cxt)
    PROVE  Parents(u) = {v} /\ hasParentThread(u) /\ getParentThread(u) = v /\ u \in Children(v)
<1>1. Parents(u) # {}
  BY DEF NodeInv
<1>2. ASSUME NEW p \in Parents(u) PROVE p = v
  <2>1. PICK e \in edges : e[2] = u /\ p = e[1]
    BY DEF Parents
  <2>2. Continues(nodes[u].forkCxt, nodes[p].cxt) /\ p \in Tids
    BY <2>1 DEF TreeShape, NodeInv
  <2>3. nodes[u].forkCxt \in Seq(CallSites)
    BY NodeCxts DEF TreeShape
  <2> QED  BY <2>2, <2>3, OneNode
<1>3. Parents(u) = {v}
  BY <1>1, <1>2
<1>4. hasParentThread(u)
  BY <1>3, FS_Singleton DEF hasParentThread
<1>5. u \in Children(v)
  <2>1. v \in Parents(u)
    BY <1>3
  <2> QED  BY <2>1 DEF Parents, Children
<1> QED  BY <1>3, <1>4, <1>5 DEF getParentThread

LEMMA ShapeFixed ==
    ASSUME UNCHANGED fixedVars
    PROVE  /\ NoJoins' = NoJoins /\ ForksOutsideRecursion' = ForksOutsideRecursion
           /\ Forking' = Forking
           /\ \A u, v : Continues(u, v)' = Continues(u, v)
<1>1. FixedNext /\ callPaths' = callPaths /\ code' = code
  BY FixedPrimed DEF fixedVars
<1>2. \A s : isInRecursion(s)' = isInRecursion(s)
  <2>1. \A s : SitesAbove(s)' = SitesAbove(s)
    BY <1>1 DEF SitesAbove, Reaches, FixedNext
  <2>2. \A f : isInCycle(f)' = isInCycle(f)
    BY <1>1 DEF isInCycle, Reaches
  <2> QED  BY <2>1, <2>2 DEF isInRecursion
<1>3. NoJoins' = NoJoins /\ ForksOutsideRecursion' = ForksOutsideRecursion
  BY <1>1, <1>2 DEF NoJoins, ForksOutsideRecursion, FixedNext
<1>4. Forking' = Forking
  BY <1>1 DEF Forking, Above, Reaches, FixedNext
<1>5. \A u, v : Continues(u, v)' = Continues(u, v)
  BY <1>1 DEF Continues, FixedNext
<1> QED  BY <1>3, <1>4, <1>5

LEMMA ShapeInit == ASSUME Init PROVE TreeShape
<1>1. PICK first \in EntryFuns :
        LET procs == <<first>> \o SetToSeq(EntryFuns \ {first})
        IN  /\ nodes = <<NewNode(<<>>, NoSite, <<>>, first)>>
            /\ ctpList = [i \in DOMAIN procs |-> [tid |-> 1, cxt |-> <<>>, fun |-> procs[i]]]
            /\ visitedCTPs = ToSet(ctpList)
            /\ edges = {}
  BY DEF Init, TreeInit
<1> DEFINE procs == <<first>> \o SetToSeq(EntryFuns \ {first})
<1>2. /\ nodes = <<NewNode(<<>>, NoSite, <<>>, first)>> /\ edges = {}
      /\ ctpList = [i \in DOMAIN procs |-> [tid |-> 1, cxt |-> <<>>, fun |-> procs[i]]]
      /\ visitedCTPs = ToSet(ctpList)
  BY <1>1
<1> HIDE DEF procs
<1>3. \A v \in visitedCTPs : v.tid = 1 /\ v.cxt = <<>>
  BY <1>2 DEF ToSet
<1>4. Tids = {1} /\ nodes[1].cxt = <<>>
  BY <1>2 DEF Tids, NewNode
<1>5. Continues(<<>>, <<>>)
  BY DEF Continues
<1> QED  BY <1>2, <1>3, <1>4, <1>5 DEF TreeShape

LEMMA ShapeCall ==
    ASSUME ProgInv, WalkInv, NodeInv, ForksOutsideRecursion, TreeShape, UNCHANGED fixedVars,
           NEW site \in pending, HandleCallRet(site)
    PROVE  TreeShape'
<1> DEFINE ctp == [tid |-> cur.tid, cxt |-> pushCxt(cur.cxt, site), fun |-> Callee(site)]
<1>1. /\ visitedCTPs' = visitedCTPs \cup {ctp} /\ UNCHANGED <<nodes, edges>> /\ Op(site) = "call"
  BY DEF HandleCallRet, pushToCTPWorkList
<1>2. /\ cur \in visitedCTPs /\ site \in CallSites /\ FunOf(site) = cur.fun
      /\ cur.tid \in Tids
  BY DEF WalkInv
<1>3. cur.cxt \in Seq(CallSites)
  <2> DEFINE w == <<cur.cxt, cur.fun>>
  <2>1. w \in Walked /\ w[1] = cur.cxt
    BY <1>2 DEF WalkInv
  <2> HIDE DEF w
  <2> QED  BY <2>1, WalkedFacts
<1>4. ctp.fun \in Forking => Continues(ctp.cxt, nodes[ctp.tid].cxt)
  <2> SUFFICES ASSUME Callee(site) \in Forking
               PROVE  Continues(pushCxt(cur.cxt, site), nodes[cur.tid].cxt)
    OBVIOUS
  <2>1. cur.fun \in Forking /\ pushCxt(cur.cxt, site) = Append(cur.cxt, site)
    BY <1>2, ForkingFacts
  <2>2. Continues(cur.cxt, nodes[cur.tid].cxt)
    BY <1>2, <2>1 DEF TreeShape
  <2>3. Len(nodes[cur.tid].cxt) \in Nat
    <3>1. nodes[cur.tid].cxt \in Seq(CallSites)
      BY <1>2, NodeCxts
    <3> QED  BY <3>1
  <2> QED  BY <1>1, <1>2, <1>3, <2>1, <2>2, <2>3, ContinuesFacts
<1> HIDE DEF ctp
<1>5. Tids' = Tids
  BY <1>1 DEF Tids
<1> QED  BY <1>1, <1>4, <1>5, ShapeFixed DEF TreeShape

LEMMA ShapeFork ==
    ASSUME ProgInv, WalkInv, NodeInv, ForksOutsideRecursion, TreeShape, UNCHANGED fixedVars,
           NEW site \in pending, HandleFork(site), NodeInv'
    PROVE  TreeShape'
<1> DEFINE cxt == pushCxt(cur.cxt, site)
           known == NodesOf(cxt, site)
           tid == IF known = {} THEN NewTid ELSE CHOOSE t \in Tids : t \in known
           ctp == [tid |-> tid, cxt |-> cxt, fun |-> Callee(site)]
           node == NewNode(cxt, site, cur.cxt, Callee(site))
<1>1. /\ Op(site) = "fork"
      /\ nodes' = IF known = {} THEN Append(nodes, node) ELSE nodes
      /\ visitedCTPs' = visitedCTPs \cup {ctp}
      /\ edges' = IF ctp \in visitedCTPs THEN edges ELSE edges \cup {<<cur.tid, tid>>}
  BY DEF HandleFork, pushToCTPWorkList, isVisitedCTPs
<1>2. ctp.tid = tid /\ ctp.cxt = cxt
  OBVIOUS
<1>3. node.cxt = cxt /\ node.fork = site /\ node.forkCxt = cur.cxt
  BY DEF NewNode
<1>4. /\ cur \in visitedCTPs /\ cur.tid \in Tids /\ site \in CallSites /\ FunOf(site) = cur.fun
      /\ site # NoSite
  <2>1. \A s \in CallSites : s # NoSite
    <3>1. \A s \in Stmts : s # NoSite
      BY StmtFacts DEF ProgInv, IsProgram, Funs
    <3> QED  BY <3>1 DEF CallSites, Sites
  <2> QED  BY <2>1 DEF WalkInv
<1>5. cur.cxt \in Seq(CallSites)
  <2> DEFINE w == <<cur.cxt, cur.fun>>
  <2>1. w \in Walked /\ w[1] = cur.cxt
    BY <1>4 DEF WalkInv
  <2> HIDE DEF w
  <2> QED  BY <2>1, WalkedFacts
<1>6. cur.fun \in Forking /\ cxt = Append(cur.cxt, site)
  BY <1>1, <1>4, ForkingFacts
<1>7. Continues(cur.cxt, nodes[cur.tid].cxt)
  BY <1>4, <1>6 DEF TreeShape
<1> HIDE DEF cxt, ctp, node
<1>8. /\ Tids \subseteq Tids' /\ \A t \in Tids : nodes'[t] = nodes[t]
      /\ tid \in Tids' /\ nodes'[tid].cxt = cxt /\ nodes'[tid].fork = site
      /\ nodes'[tid].forkCxt = cur.cxt
      /\ \A t \in Tids' : t \in Tids \/ (t = tid /\ known = {})
  <2>1. CASE known = {}
    <3>1. nodes' = Append(nodes, node) /\ tid = Len(nodes) + 1
      BY <1>1, <2>1 DEF NewTid
    <3> HIDE DEF tid, known
    <3>2. Tids \subseteq Tids' /\ (\A t \in Tids : nodes'[t] = nodes[t]) /\ tid \in Tids'
          /\ nodes'[tid] = node
      BY <3>1, AppendToNodes DEF NodeInv, NodesAreASequence, Tids
    <3>3. Tids' = Tids \cup {tid}
      <4>1. nodes \in Seq({nodes[t] : t \in DOMAIN nodes})
        BY DEF NodeInv, NodesAreASequence
      <4> QED  BY <3>1, <4>1 DEF Tids
    <3> QED  BY <1>3, <2>1, <3>2, <3>3
  <2>2. CASE known # {}
    <3>1. nodes' = nodes /\ tid \in known
      BY <1>1, <2>2 DEF NodesOf
    <3> HIDE DEF tid
    <3>2. tid \in Tids /\ nodes[tid].cxt = cxt /\ nodes[tid].fork = site
      BY <3>1 DEF NodesOf
    <3>3. nodes[tid].forkCxt \in Seq(CallSites) /\ cxt = Append(nodes[tid].forkCxt, site)
      BY <1>4, <3>2, NodeCxts
    <3>4. nodes[tid].forkCxt = cur.cxt
      <4> DEFINE c == nodes[tid].forkCxt
      <4>1. Front(Append(c, site)) = c
        BY <1>4, <3>3, FrontLast
      <4>2. Front(Append(cur.cxt, site)) = cur.cxt
        BY <1>4, <1>5, FrontLast
      <4> QED  BY <1>6, <3>3, <4>1, <4>2
    <3> QED  BY <3>1, <3>2, <3>4 DEF Tids
  <2> QED  BY <2>1, <2>2
<1>9. ASSUME NEW t \in Tids, nodes[t].cxt = cxt, nodes[t].fork = site PROVE known # {}
  BY <1>9 DEF NodesOf
<1> HIDE DEF tid, known
<1>10. /\ \A v \in visitedCTPs : v.tid \in Tids
       /\ \A e \in edges : e[1] \in Tids /\ e[2] \in Tids
  BY DEF WalkInv, NodeInv
<1>11. \A t \in Tids' : t # 1 => nodes'[t].fork # NoSite
  BY <1>4, <1>8 DEF TreeShape
<1>12. ASSUME NEW t \in Tids', NEW u \in Tids', nodes'[t].cxt = nodes'[u].cxt,
              nodes'[t].fork = nodes'[u].fork
       PROVE  t = u
  BY <1>8, <1>9, <1>12 DEF TreeShape
<1>13. Continues(cxt, cxt)
  <2>1. cxt \in Seq(CallSites)
    BY <1>4, <1>5, <1>6
  <2> HIDE DEF cxt
  <2>2. Len(cxt) \in Nat
    BY <2>1
  <2> QED  BY <2>2 DEF Continues
<1>14. \A v \in visitedCTPs' : v.fun \in Forking => Continues(v.cxt, nodes'[v.tid].cxt)
  <2>1. \A v \in visitedCTPs : v.fun \in Forking => Continues(v.cxt, nodes'[v.tid].cxt)
    BY <1>8, <1>10 DEF TreeShape
  <2>2. Continues(ctp.cxt, nodes'[ctp.tid].cxt)
    BY <1>2, <1>8, <1>13
  <2>3. visitedCTPs' = visitedCTPs \cup {ctp}
    BY <1>1
  <2> QED  BY <2>1, <2>2, <2>3
<1>15. \A e \in edges' : Continues(nodes'[e[2]].forkCxt, nodes'[e[1]].cxt)
  <2>1. \A e \in edges : Continues(nodes'[e[2]].forkCxt, nodes'[e[1]].cxt)
    BY <1>8, <1>10 DEF TreeShape
  <2>2. Continues(nodes'[tid].forkCxt, nodes'[cur.tid].cxt)
    BY <1>4, <1>7, <1>8
  <2> DEFINE made == <<cur.tid, tid>>
  <2>3. made[1] = cur.tid /\ made[2] = tid /\ edges' \subseteq edges \cup {made}
    BY <1>1
  <2> HIDE DEF made
  <2> QED  BY <2>1, <2>2, <2>3
<1> QED  BY <1>11, <1>12, <1>14, <1>15, ShapeFixed DEF TreeShape

LEMMA ShapeStep ==
    ASSUME ProgInv, WalkInv, NodeInv, ForksOutsideRecursion, TreeShape, [Next]_vars
    PROVE  TreeShape'
<1>0. UNCHANGED fixedVars /\ NodeInv'
  BY StepCases, WalkInvStep
<1>1. ASSUME UNCHANGED <<nodes, edges, visitedCTPs>> PROVE TreeShape'
  BY <1>0, <1>1, ShapeFixed DEF TreeShape, Tids
<1>2. CASE \E site \in pending : HandleCallRet(site) \/ HandleFork(site)
  BY <1>0, <1>2, ShapeCall, ShapeFork
<1>3. CASE PopCTP \/ CollectMultiForkedThreads
  BY <1>1, <1>3 DEF PopCTP, CollectMultiForkedThreads
<1>4. CASE ~TreeStep
  <2>1. UNCHANGED treeVars
    BY <1>4, StepCases, ForkJoinFrame, MHPFrame, LockFrame, LaterFrame
    DEF vars, progVars, analysisVars
  <2> QED  BY <1>1, <2>1 DEF treeVars
<1> QED  BY <1>2, <1>3, <1>4 DEF TreeStep

-----------------------------------------------------------------------------
(* Without joins every thread is alive wherever it is looked for.          *)

AliveInv == HBPair = {} /\ \A cs \in DOMAIN flags : flags[cs] = "alive"

LEMMA AliveInit == ASSUME Init PROVE AliveInv
<1>1. flags = <<>> /\ HBPair = {}
  BY DEF Init, ForkJoinInit
<1> QED  BY <1>1 DEF AliveInv

LEMMA AliveMark ==
    ASSUME \A x \in DOMAIN flags : flags[x] = "alive", NEW T, NEW left,
           Mark(<<Propagate(flags, T, "alive")>>, left)
    PROVE  \A x \in DOMAIN flags' : flags'[x] = "alive"
<1> DEFINE A == Propagate(flags, T, "alive")
           s == <<flags>> \o <<A>>
<1>1. flags' = Last(s)
  BY DEF Mark
<1>2. Len(s) = 2 /\ s[2] = A
  OBVIOUS
<1>3. \A x \in DOMAIN A : A[x] = "alive"
  <2> DEFINE S == {x \in T : Flag(flags, x) = "empty" \/ "alive" = "alive"}
             r == Put(flags, S, "alive")
  <2>1. A = r
    BY DEF Propagate
  <2> HIDE DEF S
  <2>2. /\ DOMAIN r = S \cup DOMAIN flags
        /\ \A x \in S \cup DOMAIN flags : r[x] = IF x \in S THEN "alive" ELSE flags[x]
    BY PutFacts
  <2> HIDE DEF r, A
  <2> QED  BY <2>1, <2>2
<1> HIDE DEF A, s
<1> QED  BY <1>1, <1>2, <1>3 DEF Last

LEMMA AliveStep ==
    ASSUME ProgInv, WalkInv, NodeInv, FlagInv, NoJoins, AliveInv, [Next]_vars
    PROVE  AliveInv'
<1>1. CASE ~ForkJoinStep
  <2>1. UNCHANGED fjaVars
    BY <1>1, StepCases, TreeFrame, MHPFrame, LockFrame, LaterFrame DEF vars, analysisVars
  <2>2. flags' = flags /\ HBPair' = HBPair
    BY <2>1 DEF fjaVars, relationVars
  <2> QED  BY <2>2 DEF AliveInv
<1>2. CASE StartThread
  BY <1>2 DEF StartThread, relationVars, AliveInv
<1>3. CASE FinishForkJoin
  BY <1>3 DEF FinishForkJoin, relationVars, AliveInv
<1>4. ASSUME NEW cs \in ToSet(cxtStmtList), VisitFork(cs) PROVE AliveInv'
  <2>1. cs \in DOMAIN flags
    BY <1>4 DEF FlagInv
  <2>2. flags[cs] = "alive" /\ HBPair = {}
    BY <2>1 DEF AliveInv
  <2>3. HBPair' = HBPair
    BY <1>4, <2>2 DEF VisitFork
  <2>4. Mark(<<Propagate(flags, IntraTargets(cs), "alive")>>, Tail(cxtStmtList))
    BY <1>4, <2>2 DEF VisitFork
  <2> QED  BY <2>2, <2>3, <2>4, AliveMark DEF AliveInv
<1>5. ASSUME NEW cs \in ToSet(cxtStmtList), VisitJoin(cs) PROVE AliveInv'
  <2>1. cs \in DOMAIN flags
    BY <1>5 DEF FlagInv
  <2>2. cs[2] \in Stmts /\ Op(cs[2]) = "join"
    BY <1>5, <2>1 DEF VisitJoin, Visiting, FlagInv, WalkTargets, OnWalk
  <2> QED  BY <2>2 DEF NoJoins, Sites
<1>6. ASSUME NEW cs \in ToSet(cxtStmtList), VisitCall(cs) PROVE AliveInv'
  <2>1. cs \in DOMAIN flags
    BY <1>6 DEF FlagInv
  <2>2. flags[cs] = "alive"
    BY <2>1 DEF AliveInv
  <2>3. HBPair' = HBPair
    BY <1>6 DEF VisitCall, relationVars
  <2>4. PICK T : Mark(<<Propagate(flags, T, "alive")>>, Tail(cxtStmtList))
    BY <1>6, <2>2 DEF VisitCall
  <2> QED  BY <2>3, <2>4, AliveMark DEF AliveInv
<1>7. ASSUME NEW cs \in ToSet(cxtStmtList), VisitRet(cs) PROVE AliveInv'
  <2>1. cs \in DOMAIN flags
    BY <1>7 DEF FlagInv
  <2>2. flags[cs] = "alive"
    BY <2>1 DEF AliveInv
  <2>3. HBPair' = HBPair
    BY <1>7 DEF VisitRet
  <2>4. Mark(<<Propagate(flags, ReturnTargets(cs[1], FunOf(cs[2])), "alive")>>, Tail(cxtStmtList))
    BY <1>7, <2>2 DEF VisitRet
  <2> QED  BY <2>3, <2>4, AliveMark DEF AliveInv
<1> QED  BY <1>1, <1>2, <1>3, <1>4, <1>5, <1>6, <1>7 DEF ForkJoinStep

-----------------------------------------------------------------------------
(* The walk of such a program passes on what it has, and takes nothing     *)
(* away: once a statement is off the worklist, those control may go to     *)
(* from it have its threads too.                                           *)

RowOf(il, cts) == IF cts \in DOMAIN il THEN il[cts] ELSE {}

\* Where a statement passes its threads on to.
SpreadsTo(cts) ==
    LET s == cts[3]
        child == getTCTNode(pushCxt(cts[2], s), s)
    IN  CASE ~isCandidateFun(FunOf(s)) ->
                AtThread(cts[1], cts[2], {Entry(f) : f \in
                    {Callee(c) : c \in {d \in Sites({"call"}) : FunOf(d) = FunOf(s)}}})
          [] isCandidateFun(FunOf(s)) /\ Op(s) = "fork" ->
                {<<child, nodes[child].cxt, Entry(Callee(s))>>} \cup NextOf(cts)
          [] isCandidateFun(FunOf(s)) /\ Op(s) = "call" ->
                {<<cts[1], pushCxt(cts[2], s), Entry(Callee(s))>>}
                \cup (IF isCandidateFun(Callee(s)) THEN {} ELSE NextOf(cts))
          [] isCandidateFun(FunOf(s)) /\ Op(s) = "ret" ->
                {<<cts[1], cs[1], cs[2]>> : cs \in ReturnTargets(cts[2], FunOf(s))}
          [] OTHER -> NextOf(cts)

LEMMA SpreadsFixed ==
    ASSUME UNCHANGED fixedVars, nodes' = nodes
    PROVE  \A cts : SpreadsTo(cts)' = SpreadsTo(cts)
<1>1. FixedNext /\ callPaths' = callPaths /\ joinSiteToLoopMap' = joinSiteToLoopMap
  BY FixedPrimed DEF fixedVars, siteVars
<1>2. \A s : getNextInsts(s)' = getNextInsts(s)
  BY <1>1 DEF getNextInsts, isLoopHeaderOfJoinLoop, Succs, LoopBody, FixedNext
<1>3. \A c, s : matchCxt(c, s)' = matchCxt(c, s)
  BY <1>1 DEF matchCxt, inSameCallGraphSCC, Reaches, FixedNext
<1>4. \A c, f : ReturnTargets(c, f)' = ReturnTargets(c, f)
  BY <1>1, <1>2, <1>3 DEF ReturnTargets, At, FixedNext
<1>5. \A c, s : getTCTNode(c, s)' = getTCTNode(c, s)
  BY DEF getTCTNode, NodesOf, Tids
<1>6. \A cts : NextOf(cts)' = NextOf(cts)
  BY <1>2 DEF NextOf, AtThread
<1> QED  BY <1>1, <1>4, <1>5, <1>6 DEF SpreadsTo, AtThread, FixedNext

LEMMA NextIsSucc ==
    ASSUME ProgInv, NoJoins PROVE \A s : getNextInsts(s) = Succs(s)
<1>1. DOMAIN joinSiteToLoopMap = {}
  BY DEF ProgInv, JoinLoops, NoJoins
<1> QED  BY <1>1 DEF getNextInsts, isLoopHeaderOfJoinLoop

\* What an update by one addition does to the rows and to the worklist.
LEMMA Added ==
    ASSUME NEW left, IsList(left), NEW T, NEW new,
           Update(<<AddThreads(interleaving, T, new)>>, left), IsFiniteSet(DOMAIN interleaving')
    PROVE  /\ \A x \in DOMAIN interleaving' \ ToSet(ctsList') :
                /\ x \in DOMAIN interleaving /\ x \notin ToSet(left)
                /\ interleaving'[x] = interleaving[x]
           /\ \A x : RowOf(interleaving, x) \subseteq RowOf(interleaving', x)
           /\ \A x \in T : new \subseteq RowOf(interleaving', x)
<1> DEFINE C == AddThreads(interleaving, T, new)
           s == <<interleaving>> \o <<C>>
           pushed == UNION {Changed(s[n - 1], s[n]) : n \in 2..Len(s)}
<1>1. Len(s) = 2 /\ s[2] = C /\ s[1] = interleaving
  OBVIOUS
<1>2. /\ interleaving' = Last(s)
      /\ \E order \in Orders(pushed \ ToSet(left)) : ctsList' = left \o order
  BY DEF Update
<1>3. /\ DOMAIN C = DOMAIN interleaving \cup (IF new = {} THEN {} ELSE T)
      /\ \A x \in DOMAIN C : C[x] = (IF x \in DOMAIN interleaving THEN interleaving[x] ELSE {})
                                    \cup (IF x \in T THEN new ELSE {})
  BY DEF AddThreads
<1> HIDE DEF C, s
<1>4. interleaving' = C
  BY <1>1, <1>2 DEF Last
<1>5. pushed = Changed(interleaving, C)
  <2>1. \A n \in 2..Len(s) : n = 2
    BY <1>1
  <2> QED  BY <1>1, <2>1
<1> HIDE DEF pushed
<1> DEFINE P == pushed \ ToSet(left)
<1>6. IsFiniteSet(P)
  <2>1. P \subseteq DOMAIN C
    BY <1>5 DEF Changed
  <2> HIDE DEF P
  <2> QED  BY <1>4, <2>1, FS_Subset
<1>7. PICK order \in Orders(P) : ctsList' = left \o order
  BY <1>2
<1>8. ToSet(ctsList') = ToSet(left) \cup P
  <2> HIDE DEF P
  <2>1. IsList(order) /\ ToSet(order) = P
    BY <1>6, <1>7, OrderFacts
  <2> QED  BY <1>7, <2>1, ListConcat
<1>9. ASSUME NEW x \in DOMAIN interleaving' \ ToSet(ctsList')
      PROVE  /\ x \in DOMAIN interleaving /\ x \notin ToSet(left)
             /\ interleaving'[x] = interleaving[x]
  BY <1>4, <1>5, <1>8 DEF Changed
<1>10. \A x : RowOf(interleaving, x) \subseteq RowOf(interleaving', x)
  BY <1>3, <1>4 DEF RowOf
<1>11. \A x \in T : new \subseteq RowOf(interleaving', x)
  BY <1>3, <1>4 DEF RowOf
<1> QED  BY <1>9, <1>10, <1>11

\* Each handler is that addition.
LEMMA VisitSpreads ==
    ASSUME ProgInv, InterleavingInv, NoJoins, NEW cts,
           \/ VisitForkThread(cts) \/ VisitJoinThread(cts) \/ VisitCallThread(cts)
           \/ VisitRetThread(cts) \/ VisitIntraThread(cts) \/ VisitNonCandidate(cts)
    PROVE  /\ cts = Head(ctsList) /\ ctsList # <<>>
           /\ Update(<<AddThreads(interleaving, SpreadsTo(cts), interleaving[cts])>>, Tail(ctsList))
<1>1. ASSUME NEW kinds, VisitingThread(cts, TRUE, kinds)
      PROVE  /\ cts = Head(ctsList) /\ ctsList # <<>> /\ cts[3] \in Stmts
             /\ isCandidateFun(FunOf(cts[3])) /\ Op(cts[3]) \in kinds
  <2>1. cts = Head(ctsList) /\ ctsList # <<>> /\ isCandidateFun(FunOf(cts[3]))
    BY <1>1 DEF VisitingThread
  <2>2. cts[3] \in Stmts /\ Op(cts[3]) \in kinds
    BY <1>1, VisitingThreadFacts
  <2> QED  BY <2>1, <2>2
<1>2. CASE VisitForkThread(cts)
  <2>1. VisitingThread(cts, TRUE, {"fork"})
    BY <1>2 DEF VisitForkThread
  <2>2. isCandidateFun(FunOf(cts[3])) /\ Op(cts[3]) \in {"fork"}
    BY <1>1, <2>1
  <2> QED  BY <1>1, <1>2, <2>1, <2>2 DEF VisitForkThread, SpreadsTo
<1>3. CASE VisitCallThread(cts)
  <2>1. VisitingThread(cts, TRUE, {"call"})
    BY <1>3 DEF VisitCallThread
  <2>2. isCandidateFun(FunOf(cts[3])) /\ Op(cts[3]) \in {"call"}
    BY <1>1, <2>1
  <2> QED  BY <1>1, <1>3, <2>1, <2>2 DEF VisitCallThread, SpreadsTo
<1>4. CASE VisitRetThread(cts)
  <2>1. VisitingThread(cts, TRUE, {"ret"})
    BY <1>4 DEF VisitRetThread
  <2>2. isCandidateFun(FunOf(cts[3])) /\ Op(cts[3]) \in {"ret"}
    BY <1>1, <2>1
  <2> QED  BY <1>1, <1>4, <2>1, <2>2 DEF VisitRetThread, SpreadsTo
<1>5. CASE VisitIntraThread(cts)
  <2> DEFINE kinds == {"access", "lock", "unlock", "branch", "goto", "loop"}
  <2>1. VisitingThread(cts, TRUE, kinds)
    BY <1>5 DEF VisitIntraThread
  <2>2. isCandidateFun(FunOf(cts[3])) /\ Op(cts[3]) \in kinds
    BY <1>1, <2>1
  <2>3. SpreadsTo(cts) = NextOf(cts)
    BY <2>2 DEF SpreadsTo
  <2> QED  BY <1>1, <1>5, <2>1, <2>3 DEF VisitIntraThread
<1>6. CASE VisitNonCandidate(cts)
  <2>1. VisitingThread(cts, FALSE, {Op(cts[3])})
    BY <1>6 DEF VisitNonCandidate
  <2>2. ~isCandidateFun(FunOf(cts[3])) /\ cts = Head(ctsList) /\ ctsList # <<>>
    BY <2>1 DEF VisitingThread
  <2> QED  BY <1>6, <2>2 DEF VisitNonCandidate, SpreadsTo
<1>7. CASE VisitJoinThread(cts)
  <2>1. VisitingThread(cts, TRUE, {"join"})
    BY <1>7 DEF VisitJoinThread
  <2>2. cts[3] \in Stmts /\ Op(cts[3]) \in {"join"}
    BY <1>1, <2>1
  <2> QED  BY <2>2 DEF NoJoins, Sites
<1> QED  BY <1>2, <1>3, <1>4, <1>5, <1>6, <1>7

\* Where a thread of the tree is put at its start.
StartsAt(t) == {EntryOf(t)} \cup AfterForksOf(t) \cup SiblingEntriesOf(t)

Walking == stage \in {"tct", "fja", "mhp"}

SpreadInv ==
    /\ stage \in {"tct", "fja"} => DOMAIN interleaving = {} /\ mhpRoot = 0
    /\ \A x \in DOMAIN interleaving \ ToSet(ctsList) :
        Stops({x}) => \A y \in SpreadsTo(x) : interleaving[x] \subseteq RowOf(interleaving, y)
    /\ \A t \in Tids : ~Walking \/ (stage = "mhp" /\ t <= mhpRoot) =>
            \A y \in StartsAt(t) : t \in RowOf(interleaving, y)
    /\ ~Walking => \A x \in DOMAIN interleaving, s \in Stmts :
            ~isCandidateFun(FunOf(x[3])) /\ x[3] = Entry(FunOf(x[3])) /\ FunOf(s) = FunOf(x[3]) =>
                interleaving[x] \subseteq RowOf(interleaving, <<x[1], x[2], s>>)

LEMMA StartsFixed ==
    ASSUME UNCHANGED <<fixedVars, treeVars, fjaVars>>
    PROVE  \A t : StartsAt(t)' = StartsAt(t)
<1>1. FixedNext /\ joinSiteToLoopMap' = joinSiteToLoopMap
  BY FixedPrimed DEF fixedVars, siteVars
<1>2. \A s : getNextInsts(s)' = getNextInsts(s)
  BY <1>1 DEF getNextInsts, isLoopHeaderOfJoinLoop, Succs, LoopBody, FixedNext
<1>3. nodes' = nodes /\ edges' = edges /\ UNCHANGED relationVars
  BY DEF treeVars, fjaVars
<1>4. Tids' = Tids /\ \A t : Parents(t)' = Parents(t) /\ Children(t)' = Children(t)
  BY <1>3 DEF Tids, Parents, Children
<1>5. \A t : /\ getParentThread(t)' = getParentThread(t)
             /\ getAncestorThread(t)' = getAncestorThread(t)
             /\ getSiblingThread(t)' = getSiblingThread(t)
  BY <1>4 DEF getParentThread, getAncestorThread, getSiblingThread, hasParentThread
<1>6. \A t : EntryOf(t)' = EntryOf(t)
  BY <1>1, <1>3 DEF EntryOf, FixedNext
<1>7. \A t : AfterForksOf(t)' = AfterForksOf(t)
  BY <1>2, <1>3, <1>5 DEF AfterForksOf, AtThread
<1>8. \A t, u : isHBPair(t, u)' = isHBPair(t, u) /\ isFullJoin(t, u)' = isFullJoin(t, u)
  BY <1>3 DEF isHBPair, isFullJoin, relationVars
<1>9. \A t, u : isRecurFullJoin(t, u)' = isRecurFullJoin(t, u)
  BY <1>4, <1>8 DEF isRecurFullJoin
<1>10. \A t : SiblingEntriesOf(t)' = SiblingEntriesOf(t)
  BY <1>5, <1>6, <1>8, <1>9 DEF SiblingEntriesOf
<1> QED  BY <1>6, <1>7, <1>10 DEF StartsAt

\* The last step of the analysis gives the statements of a function what its entry has, and
\* leaves what the walk stops at as it is.
LEMMA LastStep ==
    ASSUME InterleavingInv, UpdateNonCandidateFuns
    PROVE  /\ \A x : RowOf(interleaving, x) \subseteq RowOf(interleaving', x)
           /\ \A x \in DOMAIN interleaving' : Stops({x}) =>
                x \in DOMAIN interleaving /\ interleaving'[x] = interleaving[x]
           /\ \A x \in DOMAIN interleaving, s \in Stmts :
                ~isCandidateFun(FunOf(x[3])) /\ x[3] = Entry(FunOf(x[3])) /\ FunOf(s) = FunOf(x[3]) =>
                    interleaving[x] \subseteq RowOf(interleaving', <<x[1], x[2], s>>)
<1> DEFINE D == NonCandidateStmts \cup DOMAIN interleaving
<1>1. /\ DOMAIN interleaving' = D
      /\ \A x \in D : interleaving'[x] =
            RowOf(interleaving, x)
            \cup (IF x \in NonCandidateStmts
                  THEN interleaving[<<x[1], x[2], Entry(FunOf(x[3]))>>] ELSE {})
  BY DEF UpdateNonCandidateFuns, getInterleavingThreads, RowOf
<1>2. \A c \in DOMAIN interleaving : c = <<c[1], c[2], c[3]>>
  BY DEF InterleavingInv, Rows, ThreadTargets, OnThread
<1>3. \A f : FunOf(Entry(f)) = f
  BY DEF Entry, FunOf
<1>4. ASSUME NEW x \in NonCandidateStmts
      PROVE  /\ <<x[1], x[2], Entry(FunOf(x[3]))>> \in DOMAIN interleaving
             /\ x = <<x[1], x[2], x[3]>> /\ ~isCandidateFun(FunOf(x[3]))
  <2>1. PICK c \in DOMAIN interleaving :
            /\ ~isCandidateFun(FunOf(c[3]))
            /\ x \in AtThread(c[1], c[2], {s \in Stmts : Entry(FunOf(s)) = c[3]})
    BY DEF NonCandidateStmts
  <2>2. PICK s \in Stmts : Entry(FunOf(s)) = c[3] /\ x = <<c[1], c[2], s>>
    BY <2>1 DEF AtThread
  <2>3. x[1] = c[1] /\ x[2] = c[2] /\ x[3] = s
    BY <2>2
  <2>4. FunOf(s) = FunOf(c[3])
    BY <1>3, <2>2
  <2> QED  BY <1>2, <2>1, <2>2, <2>3, <2>4
<1>5. ASSUME NEW x \in D, Stops({x})
      PROVE  x \in DOMAIN interleaving /\ interleaving'[x] = interleaving[x]
  <2>1. CASE x \in NonCandidateStmts
    <3>1. x[3] = Entry(FunOf(x[3]))
      BY <1>4, <1>5, <2>1 DEF Stops
    <3>2. x = <<x[1], x[2], Entry(FunOf(x[3]))>>
      BY <1>4, <2>1, <3>1
    <3>3. x \in DOMAIN interleaving
      BY <1>4, <2>1, <3>2
    <3>4. interleaving'[x] = interleaving[x] \cup interleaving[x]
      BY <1>1, <2>1, <3>2, <3>3 DEF RowOf
    <3> QED  BY <3>3, <3>4
  <2>2. CASE x \notin NonCandidateStmts
    BY <1>1, <2>2 DEF RowOf
  <2> QED  BY <2>1, <2>2
<1>6. ASSUME NEW x \in DOMAIN interleaving, NEW s \in Stmts, ~isCandidateFun(FunOf(x[3])),
             x[3] = Entry(FunOf(x[3])), FunOf(s) = FunOf(x[3])
      PROVE  interleaving[x] \subseteq RowOf(interleaving', <<x[1], x[2], s>>)
  <2> DEFINE y == <<x[1], x[2], s>>
  <2>1. y[1] = x[1] /\ y[2] = x[2] /\ y[3] = s
    OBVIOUS
  <2>2. y \in NonCandidateStmts
    <3>1. y \in AtThread(x[1], x[2], {u \in Stmts : Entry(FunOf(u)) = x[3]})
      BY <1>6 DEF AtThread
    <3> HIDE DEF y
    <3> QED  BY <1>6, <3>1 DEF NonCandidateStmts
  <2> HIDE DEF y
  <2>3. <<y[1], y[2], Entry(FunOf(y[3]))>> = x
    <3>1. <<x[1], x[2], x[3]>> = x
      BY <1>2
    <3> QED  BY <1>6, <2>1, <3>1
  <2>4. y \in DOMAIN interleaving' /\ interleaving[x] \subseteq interleaving'[y]
    BY <1>1, <2>2, <2>3
  <2> QED  BY <2>4 DEF y, RowOf
<1>7. ASSUME NEW x PROVE RowOf(interleaving, x) \subseteq RowOf(interleaving', x)
  BY <1>1 DEF RowOf
<1> HIDE DEF D
<1> QED  BY <1>1, <1>5, <1>6, <1>7

LEMMA SpreadInit == ASSUME Init PROVE SpreadInv
<1>1. stage = "tct" /\ mhpRoot = 0 /\ interleaving = <<>>
  BY DEF Init, MHPInit
<1> QED  BY <1>1 DEF SpreadInv, Walking

LEMMA SpreadStep ==
    ASSUME ProgInv, WalkInv, NodeInv, InterleavingInv, NoJoins, SpreadInv, [Next]_vars
    PROVE  SpreadInv'
<1>0. UNCHANGED fixedVars /\ FixedNext /\ InterleavingInv'
  BY StepCases, FixedPrimed, InterleavingInvStep
<1>1. IsFiniteSet(DOMAIN interleaving')
  BY <1>0 DEF InterleavingInv, Rows, ThreadTargets
<1>2. ASSUME ~(stage = "mhp")
      PROVE  /\ UNCHANGED mhpVars
             /\ stage \in {"tct", "fja"} \/ UNCHANGED <<treeVars, fjaVars>>
             /\ stage \in {"tct", "fja"} => stage' \in {"tct", "fja", "mhp"}
             /\ ~Walking <=> stage \notin {"tct", "fja"}
             /\ stage \notin {"tct", "fja"} => ~Walking' /\ stage' \notin {"tct", "fja"}
  BY <1>2, StepCases, TreeFrame, ForkJoinFrame, MHPFrame, LockFrame, LaterFrame
  DEF vars, progVars, analysisVars, Walking
<1>3. CASE stage \in {"tct", "fja"}
  <2>1. UNCHANGED mhpVars /\ stage' \in {"tct", "fja", "mhp"}
    BY <1>2, <1>3
  <2>2. DOMAIN interleaving' = {} /\ mhpRoot' = 0
    BY <1>3, <2>1 DEF SpreadInv, mhpVars
  <2>3. \A t \in Tids' : ~(t <= 0)
    <3>1. NodeInv'
      BY WalkInvStep
    <3>2. Tids' = 1..Len(nodes')
      BY <3>1 DEF NodeInv, NodesAreASequence, Tids
    <3> QED  BY <3>2
  <2> QED  BY <2>1, <2>2, <2>3 DEF SpreadInv, Walking
<1>4. CASE stage \notin {"tct", "fja", "mhp"}
  <2>1. UNCHANGED mhpVars /\ UNCHANGED <<treeVars, fjaVars>> /\ ~Walking /\ ~Walking'
        /\ stage' \notin {"tct", "fja"}
    BY <1>2, <1>4
  <2>2. /\ interleaving' = interleaving /\ ctsList' = ctsList /\ nodes' = nodes /\ Tids' = Tids
    BY <2>1 DEF mhpVars, treeVars, Tids
  <2>3. /\ \A x : SpreadsTo(x)' = SpreadsTo(x)
        /\ \A t : StartsAt(t)' = StartsAt(t)
    BY <1>0, <2>1, <2>2, SpreadsFixed, StartsFixed
  <2>4. \A x : Stops({x})' = Stops({x})
    BY <1>0 DEF Stops, FixedNext
  <2> QED  BY <1>0, <2>1, <2>2, <2>3, <2>4 DEF SpreadInv, FixedNext
<1>5. CASE stage = "mhp"
  <2>1. UNCHANGED <<treeVars, fjaVars>>
    BY <1>5, StepCases, TreeFrame, ForkJoinFrame, MHPFrame, LockFrame, LaterFrame
    DEF vars, analysisVars
  <2>2. nodes' = nodes /\ Tids' = Tids
    BY <2>1 DEF treeVars, Tids
  <2>3. /\ \A x : SpreadsTo(x)' = SpreadsTo(x)
        /\ \A t : StartsAt(t)' = StartsAt(t)
    BY <1>0, <2>1, <2>2, SpreadsFixed, StartsFixed
  <2>4. \A x : Stops({x})' = Stops({x})
    BY <1>0 DEF Stops, FixedNext
  \* What an addition keeps, of the threads that are put somewhere already.
  <2>5. ASSUME \A x : RowOf(interleaving, x) \subseteq RowOf(interleaving', x)
        PROVE  \A t \in Tids : t <= mhpRoot => \A y \in StartsAt(t) : t \in RowOf(interleaving', y)
    BY <1>5, <2>5 DEF SpreadInv
  <2>6. CASE StartInterleaving
    <3> DEFINE new == {mhpRoot + 1}
               T == StartsAt(mhpRoot + 1)
    <3>1. /\ Update(<<AddThreads(interleaving, T, new)>>, <<>>) /\ ctsList = <<>>
          /\ stage' = "mhp" /\ mhpRoot' = mhpRoot + 1 /\ mhpRoot \in Nat
      BY <2>6 DEF StartInterleaving, StartsAt, progVars, InterleavingInv
    <3>2. IsList(<<>>) /\ ToSet(<<>>) = {}
      BY ListEmpty
    <3>3. mhpRoot + 1 \in new
      OBVIOUS
    <3> HIDE DEF T, new
    <3>4. /\ \A x \in DOMAIN interleaving' \ ToSet(ctsList') :
                x \in DOMAIN interleaving /\ interleaving'[x] = interleaving[x]
          /\ \A x : RowOf(interleaving, x) \subseteq RowOf(interleaving', x)
          /\ \A x \in T : new \subseteq RowOf(interleaving', x)
      BY <1>1, <3>1, <3>2, Added
    <3>5. \A x \in DOMAIN interleaving' \ ToSet(ctsList') :
            Stops({x}) => \A y \in SpreadsTo(x) : interleaving'[x] \subseteq RowOf(interleaving', y)
      BY <3>1, <3>2, <3>4 DEF SpreadInv
    <3>6. ASSUME NEW t \in Tids, t <= mhpRoot + 1
          PROVE  \A y \in StartsAt(t) : t \in RowOf(interleaving', y)
      <4>1. CASE t = mhpRoot + 1
        BY <3>3, <3>4, <4>1 DEF T
      <4>2. CASE t # mhpRoot + 1
        <5>1. t \in Nat
          BY ThreadsAreFinite
        <5> QED  BY <2>5, <3>1, <3>4, <3>6, <4>2, <5>1
      <4> QED  BY <4>1, <4>2
    <3> QED  BY <2>2, <2>3, <2>4, <3>1, <3>5, <3>6 DEF SpreadInv, Walking
  <2>7. ASSUME NEW cts,
               \/ VisitForkThread(cts) \/ VisitJoinThread(cts) \/ VisitCallThread(cts)
               \/ VisitRetThread(cts) \/ VisitIntraThread(cts) \/ VisitNonCandidate(cts)
        PROVE  SpreadInv'
    <3> DEFINE new == interleaving[cts]
               T == SpreadsTo(cts)
               left == Tail(ctsList)
    <3>1. cts = Head(ctsList) /\ ctsList # <<>> /\ Update(<<AddThreads(interleaving, T, new)>>, left)
      BY <2>7, VisitSpreads
    <3>2. IsList(left) /\ ToSet(ctsList) = {cts} \cup ToSet(left)
      BY <3>1, ListTail DEF InterleavingInv
    <3>3. stage' = "mhp" /\ mhpRoot' = mhpRoot
      BY <1>5, <2>7 DEF VisitForkThread, VisitJoinThread, VisitCallThread, VisitRetThread,
                        VisitIntraThread, VisitNonCandidate, VisitingThread, progVars
    <3> HIDE DEF T, new, left
    <3>4. /\ \A x \in DOMAIN interleaving' \ ToSet(ctsList') :
                x \in DOMAIN interleaving /\ x \notin ToSet(left)
                /\ interleaving'[x] = interleaving[x]
          /\ \A x : RowOf(interleaving, x) \subseteq RowOf(interleaving', x)
          /\ \A x \in T : new \subseteq RowOf(interleaving', x)
      BY <1>1, <3>1, <3>2, Added
    <3>5. ASSUME NEW x \in DOMAIN interleaving' \ ToSet(ctsList'), Stops({x}), NEW y \in SpreadsTo(x)
          PROVE  interleaving'[x] \subseteq RowOf(interleaving', y)
      <4>1. CASE x = cts
        BY <3>4, <3>5, <4>1 DEF T, new
      <4>2. CASE x # cts
        <5>1. interleaving[x] \subseteq RowOf(interleaving, y)
          BY <3>2, <3>4, <3>5, <4>2 DEF SpreadInv
        <5> QED  BY <3>4, <3>5, <5>1
      <4> QED  BY <4>1, <4>2
    <3> QED  BY <2>2, <2>3, <2>4, <2>5, <3>3, <3>4, <3>5 DEF SpreadInv, Walking
  <2>8. CASE UpdateNonCandidateFuns
    <3>1. /\ \A x : RowOf(interleaving, x) \subseteq RowOf(interleaving', x)
          /\ \A x \in DOMAIN interleaving' : Stops({x}) =>
                x \in DOMAIN interleaving /\ interleaving'[x] = interleaving[x]
          /\ \A x \in DOMAIN interleaving, s \in Stmts :
                ~isCandidateFun(FunOf(x[3])) /\ x[3] = Entry(FunOf(x[3])) /\ FunOf(s) = FunOf(x[3]) =>
                    interleaving[x] \subseteq RowOf(interleaving', <<x[1], x[2], s>>)
      BY <2>8, LastStep
    <3>2. stage' = "lock" /\ ctsList = <<>> /\ ctsList' = <<>> /\ mhpRoot = Len(nodes)
      BY <2>8 DEF UpdateNonCandidateFuns
    <3>3. \A t \in Tids : t <= mhpRoot
      BY <3>2, ThreadsAreFinite
    <3>4. ASSUME NEW x \in DOMAIN interleaving', Stops({x}), NEW y \in SpreadsTo(x)
          PROVE  interleaving'[x] \subseteq RowOf(interleaving', y)
      <4>1. x \in DOMAIN interleaving \ ToSet(ctsList) /\ interleaving'[x] = interleaving[x]
        BY <3>1, <3>2, <3>4, ListEmpty
      <4>2. interleaving[x] \subseteq RowOf(interleaving, y)
        BY <3>4, <4>1 DEF SpreadInv
      <4> QED  BY <3>1, <4>1, <4>2
    <3>5. ASSUME NEW x \in DOMAIN interleaving', NEW s \in Stmts, ~isCandidateFun(FunOf(x[3])),
                 x[3] = Entry(FunOf(x[3])), FunOf(s) = FunOf(x[3])
          PROVE  interleaving'[x] \subseteq RowOf(interleaving', <<x[1], x[2], s>>)
      <4>1. Stops({x})
        BY <3>5 DEF Stops
      <4> QED  BY <3>1, <3>5, <4>1
    <3> QED  BY <1>0, <2>2, <2>3, <2>4, <2>5, <3>1, <3>2, <3>3, <3>4, <3>5
             DEF SpreadInv, Walking, FixedNext
  <2>9. CASE ~MHPStep
    <3>1. UNCHANGED <<mhpVars, stage>>
      BY <1>5, <2>9, StepCases, TreeFrame, ForkJoinFrame, LockFrame, LaterFrame
      DEF vars, progVars, analysisVars
    <3> QED  BY <1>5, <2>2, <2>3, <2>4, <3>1 DEF SpreadInv, mhpVars, Walking
  <2> QED  BY <2>6, <2>7, <2>8, <2>9 DEF MHPStep
<1> QED  BY <1>3, <1>4, <1>5

-----------------------------------------------------------------------------
(* What the analysis has for a thread at a statement once it has ended.    *)

\* The statement itself, or the entry of a function the walk does not go into.
StopOf(s) == IF isCandidateFun(FunOf(s)) THEN s ELSE Entry(FunOf(s))
Met(u, c, s) == RowOf(interleaving, <<u, c, StopOf(s)>>)

\* The threads of the tree a thread stands above, and the thread.
Heirs(u) == {t \in Tids : u \in {t} \cup getAncestorThread(t)}

\* The invariants of an analysis that has ended.
Analysed ==
    /\ ProgInv /\ WalkInv /\ NodeInv /\ InterleavingInv /\ NoJoins /\ SpreadInv
    /\ ~Walking

LEMMA HeirsFacts ==
    ASSUME NodeInv
    PROVE  /\ \A u \in Tids : u \in Heirs(u)
           /\ \A u \in Tids : \A v \in {u} \cup getAncestorThread(u) : Heirs(u) \subseteq Heirs(v)
           /\ \A u \in Tids : Parents(u) \subseteq getAncestorThread(u)
<1> DEFINE F == [u \in Tids |-> Parents(u)]
<1>1. \A t \in Tids : Graph(Tids, Parents(t), F)
  <2>1. \A u : Parents(u) \subseteq Tids
    BY DEF NodeInv, Parents
  <2> QED  BY <2>1, ThreadsAreFinite DEF Graph
<1>2. \A t : getAncestorThread(t) = ReachedFrom(Parents(t), F)
  BY DEF getAncestorThread
<1>3. \A t \in Tids : F[t] = Parents(t)
  OBVIOUS
<1> HIDE DEF F
<1>4. ASSUME NEW t \in Tids
      PROVE  /\ Parents(t) \subseteq getAncestorThread(t) /\ getAncestorThread(t) \subseteq Tids
             /\ \A x \in getAncestorThread(t) : F[x] \subseteq getAncestorThread(t)
  <2>1. Graph(Tids, Parents(t), F)
    BY <1>1
  <2> QED  BY <1>2, <2>1, ReachedClosed
<1>5. ASSUME NEW t \in Tids, NEW u \in getAncestorThread(t)
      PROVE  getAncestorThread(u) \subseteq getAncestorThread(t)
  <2> DEFINE T == getAncestorThread(t)
  <2>1. u \in Tids /\ Parents(u) \subseteq T
    BY <1>3, <1>4, <1>5
  <2>2. Graph(Tids, Parents(u), F) /\ \A x \in Tids : x \in T => F[x] \subseteq T
    BY <1>1, <1>4, <2>1
  <2> HIDE DEF T
  <2>3. ReachedFrom(Parents(u), F) \subseteq T
    BY <2>1, <2>2, ReachedLeast
  <2> QED  BY <1>2, <2>3 DEF T
<1> QED  BY <1>4, <1>5 DEF Heirs

\* Off the worklist, which is empty, a statement has passed its threads on.
LEMMA PassedOn ==
    ASSUME Analysed, NEW x, Stops({x}), NEW y \in SpreadsTo(x)
    PROVE  RowOf(interleaving, x) \subseteq RowOf(interleaving, y)
<1>1. ToSet(ctsList) = {}
  <2>1. ctsList = <<>>
    BY DEF Analysed, InterleavingInv, Walking
  <2> QED  BY <2>1, ListEmpty
<1> QED  BY <1>1 DEF Analysed, SpreadInv, RowOf

LEMMA StopFacts ==
    ASSUME ProgInv, NEW s \in Stmts
    PROVE  /\ StopOf(s) \in Stmts /\ FunOf(StopOf(s)) = FunOf(s) /\ \A u, c : Stops({<<u, c, StopOf(s)>>})
           /\ \A f \in Funs : StopOf(Entry(f)) = Entry(f)
           /\ \A t : ~isCandidateFun(FunOf(s)) /\ FunOf(t) = FunOf(s) => StopOf(t) = StopOf(s)
<1>1. FunOf(s) \in Funs /\ \A f \in Funs : Entry(f) \in Stmts /\ FunOf(Entry(f)) = f
  BY StmtFacts DEF ProgInv
<1>2. StopOf(s) \in Stmts /\ FunOf(StopOf(s)) = FunOf(s)
  BY <1>1 DEF StopOf
<1>3. isCandidateFun(FunOf(StopOf(s))) \/ StopOf(s) = Entry(FunOf(StopOf(s)))
  BY <1>2 DEF StopOf
<1>4. \A u, c : Stops({<<u, c, StopOf(s)>>})
  BY <1>3 DEF Stops
<1> QED  BY <1>1, <1>2, <1>4 DEF StopOf

\* In a function the walk does not go into, everything has what the entry has.
LEMMA MetInside ==
    ASSUME ProgInv, NEW s \in Stmts, ~isCandidateFun(FunOf(s)), NEW t, FunOf(t) = FunOf(s), NEW u, NEW c
    PROVE  Met(u, c, s) = Met(u, c, t)
<1>1. StopOf(t) = StopOf(s)
  BY StopFacts
<1> QED  BY <1>1 DEF Met

LEMMA MetNext ==
    ASSUME Analysed, NEW s \in Stmts, NEW t \in Succs(s), NEW u, NEW c,
           \/ Op(s) \notin {"call", "ret"}
           \/ Op(s) = "call" /\ ~isCandidateFun(Callee(s))
           \/ ~isCandidateFun(FunOf(s))
    PROVE  Met(u, c, s) \subseteq Met(u, c, t)
<1>1. ProgInv /\ t \in Stmts /\ FunOf(t) = FunOf(s)
  BY SuccFacts DEF Analysed, ProgInv
<1>2. CASE ~isCandidateFun(FunOf(s))
  BY <1>1, <1>2, MetInside
<1>3. CASE isCandidateFun(FunOf(s))
  <2> DEFINE x == <<u, c, s>>
             y == <<u, c, t>>
  <2>1. x[1] = u /\ x[2] = c /\ x[3] = s
    OBVIOUS
  <2>2. StopOf(s) = s /\ StopOf(t) = t
    BY <1>1, <1>3 DEF StopOf
  <2>3. y \in NextOf(x)
    <3>1. t \in getNextInsts(s)
      BY NextIsSucc DEF Analysed
    <3> QED  BY <3>1 DEF NextOf, AtThread
  <2>4. Stops({x})
    BY <1>1, <2>2, StopFacts
  <2> HIDE DEF x, y
  <2>5. y \in SpreadsTo(x)
    <3>1. CASE Op(s) \notin {"call", "ret", "fork"}
      BY <1>3, <2>1, <2>3, <3>1 DEF SpreadsTo
    <3>2. CASE Op(s) = "fork"
      BY <1>3, <2>1, <2>3, <3>2 DEF SpreadsTo
    <3>3. CASE Op(s) = "call" /\ ~isCandidateFun(Callee(s))
      BY <1>3, <2>1, <2>3, <3>3 DEF SpreadsTo
    <3> QED  BY <1>3, <3>1, <3>2, <3>3
  <2>6. RowOf(interleaving, x) \subseteq RowOf(interleaving, y)
    BY <2>4, <2>5, PassedOn
  <2> QED  BY <2>2, <2>6 DEF x, y, Met
<1> QED  BY <1>2, <1>3

\* A call passes them on to the entry of its callee.
LEMMA MetEntered ==
    ASSUME Analysed, NEW s \in CallSites, Op(s) = "call", NEW u, NEW c
    PROVE  Met(u, c, s) \subseteq Met(u, pushCxt(c, s), Entry(Callee(s)))
<1>1. s \in Stmts /\ s \in Sites({"call"}) /\ Callee(s) \in Funs /\ FunOf(s) \in Funs /\ ProgInv
  <2>1. ProgInv
    BY DEF Analysed
  <2> QED  BY <2>1, StmtFacts DEF ProgInv, CallSites, Sites
<1> DEFINE x == <<u, c, StopOf(s)>>
           y == <<u, pushCxt(c, s), Entry(Callee(s))>>
<1>2. x[1] = u /\ x[2] = c /\ x[3] = StopOf(s) /\ FunOf(StopOf(s)) = FunOf(s) /\ Stops({x})
  BY <1>1, StopFacts
<1>3. y \in SpreadsTo(x)
  <2>1. CASE isCandidateFun(FunOf(s))
    <3>1. x[3] = s
      BY <1>2, <2>1 DEF StopOf
    <3>2. y \in {<<x[1], pushCxt(x[2], s), Entry(Callee(s))>>}
      BY <1>2
    <3> HIDE DEF x, y
    <3> QED  BY <2>1, <3>1, <3>2 DEF SpreadsTo
  <2>2. CASE ~isCandidateFun(FunOf(s))
    <3> DEFINE callees == {Callee(d) : d \in {e \in Sites({"call"}) : FunOf(e) = FunOf(x[3])}}
    <3>1. pushCxt(c, s) = c
      BY <2>2 DEF pushCxt
    <3>2. Callee(s) \in callees
      BY <1>1, <1>2
    <3>3. SpreadsTo(x) = AtThread(x[1], x[2], {Entry(f) : f \in callees})
      BY <1>2, <2>2 DEF SpreadsTo
    <3>4. y = <<x[1], x[2], Entry(Callee(s))>>
      BY <1>2, <3>1
    <3> HIDE DEF x, y, callees
    <3> QED  BY <3>2, <3>3, <3>4 DEF AtThread
  <2> QED  BY <2>1, <2>2
<1>4. StopOf(Entry(Callee(s))) = Entry(Callee(s))
  BY <1>1, StopFacts
<1> HIDE DEF x, y
<1>5. RowOf(interleaving, x) \subseteq RowOf(interleaving, y)
  BY <1>2, <1>3, PassedOn
<1> QED  BY <1>4, <1>5 DEF x, y, Met

\* A return passes them on to what follows the call.
LEMMA MetReturned ==
    ASSUME Analysed, NEW s \in Stmts, Op(s) = "ret", isCandidateFun(FunOf(s)),
           NEW site \in CallSites, Op(site) = "call", Callee(site) = FunOf(s),
           isCandidateFun(FunOf(site)), NEW t \in Succs(site), NEW d \in Seq(CallSites), NEW u
    PROVE  Met(u, pushCxt(d, site), s) \subseteq Met(u, d, t)
<1>1. site \in Stmts /\ site \in Sites({"call"}) /\ ProgInv
  BY DEF Analysed, CallSites, Sites
<1>2. t \in Stmts /\ FunOf(t) = FunOf(site)
  BY <1>1, SuccFacts DEF ProgInv
<1> DEFINE e == pushCxt(d, site)
<1>3. d \in matchCxt(e, site)
  <2>1. CASE inSameCallGraphSCC(FunOf(site), Callee(site))
    <3>1. e = d
      BY <2>1 DEF pushCxt
    <3> HIDE DEF e
    <3> QED  BY <2>1, <3>1 DEF matchCxt
  <2>2. CASE ~inSameCallGraphSCC(FunOf(site), Callee(site))
    <3>1. e = Append(d, site)
      BY <2>2 DEF pushCxt
    <3>2. Append(d, site) # <<>> /\ Front(Append(d, site)) = d /\ Last(Append(d, site)) = site
      BY FrontLast
    <3>3. e # <<>> /\ Front(e) = d /\ Last(e) = site
      BY <3>1, <3>2
    <3> HIDE DEF e
    <3> QED  BY <2>2, <3>3 DEF matchCxt
  <2> QED  BY <2>1, <2>2
<1> HIDE DEF e
<1> DEFINE x == <<u, e, s>>
           y == <<u, d, t>>
           cs == <<d, t>>
<1>4. x[1] = u /\ x[2] = e /\ x[3] = s /\ cs[1] = d /\ cs[2] = t /\ y = <<x[1], cs[1], cs[2]>>
  OBVIOUS
<1>5. StopOf(s) = s /\ StopOf(t) = t
  BY <1>2 DEF StopOf
<1>6. Stops({x})
  BY <1>1, <1>5, StopFacts
<1>7. cs \in ReturnTargets(x[2], FunOf(x[3]))
  <2>1. t \in getNextInsts(site)
    BY NextIsSucc DEF Analysed
  <2>2. cs \in At(d, getNextInsts(site))
    BY <2>1 DEF At
  <2> HIDE DEF cs, x, y
  <2> QED  BY <1>1, <1>3, <1>4, <2>2 DEF ReturnTargets
<1> HIDE DEF x, y, cs
<1>8. y \in SpreadsTo(x)
  BY <1>4, <1>7 DEF SpreadsTo
<1>9. RowOf(interleaving, x) \subseteq RowOf(interleaving, y)
  BY <1>6, <1>8, PassedOn
<1> QED  BY <1>5, <1>9 DEF x, y, Met, e

\* A fork passes them on to the start of the thread.
LEMMA MetForked ==
    ASSUME Analysed, NEW s \in Sites({"fork"}), NEW u, NEW c, NEW n \in Tids,
           n = getTCTNode(pushCxt(c, s), s), nodes[n].routine = Callee(s)
    PROVE  Met(u, c, s) \subseteq Met(n, nodes[n].cxt, Entry(nodes[n].routine))
<1>1. s \in Stmts /\ s \in CallSites /\ Op(s) = "fork" /\ ProgInv
  BY DEF Analysed, CallSites, Sites
<1>2. isCandidateFun(FunOf(s)) /\ Callee(s) \in Funs
  <2>1. s \in Sites({"fork", "join"})
    BY <1>1 DEF Sites
  <2> QED  BY <1>1, <2>1, CandidateFacts, StmtFacts DEF ProgInv
<1> DEFINE x == <<u, c, s>>
           y == <<n, nodes[n].cxt, Entry(Callee(s))>>
<1>3. x[1] = u /\ x[2] = c /\ x[3] = s
  OBVIOUS
<1>4. StopOf(s) = s /\ StopOf(Entry(Callee(s))) = Entry(Callee(s)) /\ Stops({x})
  <2>1. StopOf(s) = s
    BY <1>2 DEF StopOf
  <2> QED  BY <1>1, <1>2, <2>1, StopFacts
<1>5. y \in SpreadsTo(x)
  <2>1. y = LET child == getTCTNode(pushCxt(x[2], s), s)
            IN  <<child, nodes[child].cxt, Entry(Callee(s))>>
    BY <1>3
  <2> HIDE DEF x, y
  <2> QED  BY <1>1, <1>2, <1>3, <2>1 DEF SpreadsTo
<1> HIDE DEF x, y
<1>6. RowOf(interleaving, x) \subseteq RowOf(interleaving, y)
  BY <1>4, <1>5, PassedOn
<1> QED  BY <1>4, <1>6 DEF x, y, Met

\* Where the heirs of a thread are put at their start: at its own start, at what follows its
\* fork, and, as nothing is joined, at the starts of its siblings.
LEMMA MetHeirs ==
    ASSUME Analysed, TreeShape, AliveInv, NEW u \in Tids
    PROVE  /\ u \in Met(u, nodes[u].cxt, Entry(nodes[u].routine))
           /\ \A v, x : u # 1 /\ getParentThread(u) = v /\ x \in Succs(nodes[u].fork) =>
                Heirs(u) \subseteq Met(v, nodes[u].forkCxt, x)
           /\ \A s \in Tids : s \in getSiblingThread(u) =>
                Heirs(u) \subseteq Met(s, nodes[s].cxt, Entry(nodes[s].routine))
<1>1. /\ ProgInv /\ NodeInv
      /\ \A t \in Tids : \A y \in StartsAt(t) : t \in RowOf(interleaving, y)
  BY DEF Analysed, SpreadInv
<1>2. ASSUME NEW v \in Tids
      PROVE  Met(v, nodes[v].cxt, Entry(nodes[v].routine)) = RowOf(interleaving, EntryOf(v))
  <2>1. nodes[v].routine \in Funs
    <3> DEFINE w == <<nodes[v].cxt, nodes[v].routine>>
    <3>1. w \in Walked /\ w[2] = nodes[v].routine
      BY <1>1 DEF NodeInv, IsNode
    <3> HIDE DEF w
    <3> QED  BY <1>1, <3>1, WalkedFacts
  <2>2. Entry(nodes[v].routine) \in Stmts
    BY <1>1, <2>1, StmtFacts DEF ProgInv
  <2>3. StopOf(Entry(nodes[v].routine)) = Entry(nodes[v].routine)
    BY <1>1, <2>1, <2>2, StopFacts
  <2> QED  BY <2>3 DEF Met, EntryOf
<1>3. u \in Met(u, nodes[u].cxt, Entry(nodes[u].routine))
  BY <1>1, <1>2 DEF StartsAt
<1>4. ASSUME u # 1, NEW x \in Succs(nodes[u].fork), NEW t \in Heirs(u)
      PROVE  t \in Met(getParentThread(u), nodes[u].forkCxt, x)
  <2> DEFINE v == getParentThread(u)
             y == <<v, nodes[u].forkCxt, x>>
  <2>1. t \in Tids /\ u \in {t} \cup getAncestorThread(t) /\ nodes[u].fork # NoSite
    BY <1>4 DEF Heirs, TreeShape
  <2>2. nodes[u].fork \in Stmts /\ nodes[u].fork \in Sites({"fork", "join"})
    BY <1>1, <2>1 DEF NodeInv, IsNode, Sites
  <2>3. x \in Stmts /\ FunOf(x) = FunOf(nodes[u].fork)
    BY <1>1, <1>4, <2>2, SuccFacts DEF ProgInv
  <2>4. StopOf(x) = x
    <3>1. isCandidateFun(FunOf(nodes[u].fork))
      BY <1>1, <2>2, CandidateFacts
    <3> QED  BY <2>3, <3>1 DEF StopOf
  <2>5. y \in AtThread(v, nodes[u].forkCxt, getNextInsts(nodes[u].fork))
    <3>1. x \in getNextInsts(nodes[u].fork)
      BY <1>4, NextIsSucc DEF Analysed
    <3> QED  BY <3>1 DEF AtThread
  <2> HIDE DEF y
  <2>6. y \in AfterForksOf(t)
    BY <2>1, <2>5 DEF AfterForksOf
  <2>7. t \in RowOf(interleaving, y)
    BY <1>1, <2>1, <2>6 DEF StartsAt
  <2> QED  BY <2>4, <2>7 DEF y, Met
<1>5. ASSUME NEW s \in Tids, s \in getSiblingThread(u), NEW t \in Heirs(u)
      PROVE  t \in Met(s, nodes[s].cxt, Entry(nodes[s].routine))
  <2>1. t \in Tids /\ u \in {t} \cup getAncestorThread(t)
    BY <1>5 DEF Heirs
  <2>2. ~isHBPair(u, s) /\ ~isHBPair(s, u)
    BY DEF AliveInv, isHBPair
  <2>3. EntryOf(s) \in SiblingEntriesOf(t)
    BY <1>5, <2>1, <2>2 DEF SiblingEntriesOf
  <2>4. t \in RowOf(interleaving, EntryOf(s))
    BY <1>1, <2>1, <2>3 DEF StartsAt
  <2> QED  BY <1>2, <2>4
<1> QED  BY <1>3, <1>4, <1>5

\* The statements of a function have what the walk has where it stops.
LEMMA MetRows ==
    ASSUME Analysed, NEW s \in Stmts, NEW u, NEW c
    PROVE  Met(u, c, s) \subseteq RowOf(interleaving, <<u, c, s>>)
<1>1. CASE isCandidateFun(FunOf(s))
  BY <1>1 DEF Met, StopOf
<1>2. CASE ~isCandidateFun(FunOf(s))
  <2> DEFINE x == <<u, c, StopOf(s)>>
  <2>1. x[1] = u /\ x[2] = c /\ x[3] = StopOf(s)
    OBVIOUS
  <2>2. FunOf(StopOf(s)) = FunOf(s) /\ x[3] = Entry(FunOf(s))
    <3>1. ProgInv
      BY DEF Analysed
    <3> QED  BY <1>2, <3>1, StopFacts DEF StopOf
  <2> HIDE DEF x
  <2>3. RowOf(interleaving, x) \subseteq RowOf(interleaving, <<x[1], x[2], s>>)
    BY <1>2, <2>1, <2>2 DEF Analysed, SpreadInv, RowOf
  <2> QED  BY <2>1, <2>3 DEF x, Met
<1> QED  BY <1>1, <1>2
=============================================================================
