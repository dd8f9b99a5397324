----------------------------- MODULE ContextProofs -----------------------------
(***************************************************************************)
(* Facts the proofs about the thread analyses rest on: induction over the  *)
(* naturals for sets, what is reached in a finite graph, the paths of the  *)
(* call graph, the orders in which a worklist is filled.  On them, the     *)
(* contexts the thread creation tree and the lock analysis are built over, *)
(* for every program: the tree is a tree and has a node for every fork a   *)
(* walk can come to (ForksHaveNodes); and a lock site is met by the walk   *)
(* over statements under contexts the walk over functions has collected it *)
(* under.                                                                  *)
(***************************************************************************)
EXTENDS Execution, FiniteSetTheorems, SequenceTheorems, WellFoundedInduction, TLAPS

-----------------------------------------------------------------------------
(* Induction.                                                              *)

\* Every set of naturals that is not empty has a least element.
LEMMA LeastNatural ==
    ASSUME NEW T, T \subseteq Nat, T # {}
    PROVE  \E n \in T : \A m \in T : n <= m
<1> DEFINE R == OpToRel(<, Nat)
<1>1. IsWellFoundedOn(R, Nat)
  BY NatLessThanWellFounded
<1>2. \A x, y \in Nat : x < y => <<x, y>> \in R
  BY DEF OpToRel
<1> HIDE DEF R
<1>3. PICK x \in T : \A y \in T : ~ (<<y, x>> \in R)
  BY <1>1, WFMin
<1>4. \A y \in T : ~ (y < x)
  BY <1>2, <1>3
<1> QED  BY <1>4

\* A set with 0 and with the successor of each of its naturals has all naturals.
LEMMA InductiveSet ==
    ASSUME NEW S, 0 \in S, \A n \in Nat : n \in S => n + 1 \in S
    PROVE  Nat \subseteq S
<1> DEFINE T == Nat \ S
<1> SUFFICES ASSUME T # {} PROVE FALSE
  OBVIOUS
<1>1. PICK n \in T : \A m \in T : n <= m
  BY LeastNatural
<1>2. n # 0 /\ n - 1 \in Nat /\ n - 1 \notin T
  BY <1>1
<1> QED  BY <1>2

\* g is the iteration of G from A, up to N.
Iterates(D, A, G, N, g) ==
    g \in [0..N -> D] /\ g[0] = A /\ \A i \in 1..N : g[i] = G[g[i - 1]]

\* A value and a step define a function on 0..N.
LEMMA Iteration ==
    ASSUME NEW D, NEW A, NEW G, NEW N, A \in D, G \in [D -> D], N \in Nat
    PROVE  \E g : Iterates(D, A, G, N, g)
<1> DEFINE Good(n) == \E g \in [0..n -> D] : g[0] = A /\ \A i \in 1..n : g[i] = G[g[i - 1]]
           S == {n \in Nat : Good(n)}
<1>1. 0 \in S
  <2> DEFINE g == [i \in 0..0 |-> A]
  <2>1. g \in [0..0 -> D] /\ g[0] = A /\ \A i \in 1..0 : g[i] = G[g[i - 1]]
    OBVIOUS
  <2> HIDE DEF g
  <2>2. Good(0)
    BY <2>1
  <2> QED  BY <2>2
<1>2. ASSUME NEW n \in Nat, n \in S PROVE n + 1 \in S
  <2>1. PICK g \in [0..n -> D] : g[0] = A /\ \A i \in 1..n : g[i] = G[g[i - 1]]
    BY <1>2
  <2> DEFINE h == [i \in 0..(n + 1) |-> IF i = n + 1 THEN G[g[n]] ELSE g[i]]
  <2>2. h \in [0..(n + 1) -> D] /\ h[0] = A
    BY <2>1
  <2>3. \A i \in 1..(n + 1) : h[i] = G[h[i - 1]]
    BY <2>1
  <2> HIDE DEF h
  <2>4. Good(n + 1)
    BY <2>2, <2>3
  <2> QED  BY <2>4
<1>3. N \in S
  <2> HIDE DEF S
  <2> QED  BY <1>1, <1>2, InductiveSet
<1> QED  BY <1>3 DEF Iterates

-----------------------------------------------------------------------------
(* What is reached in a finite graph.                                      *)

\* F is a finite graph on S, and A are some of its nodes.
Graph(S, A, F) == IsFiniteSet(S) /\ A \subseteq S /\ F \in [S -> SUBSET S]

\* r are sets that grow by the successors of their nodes, up to what is reached.
Grow(S, A, F, r) ==
    /\ r \in [0..Cardinality(S) -> SUBSET S]
    /\ r[0] = A
    /\ \A n \in 1..Cardinality(S) : r[n] = UNION {{x} \cup F[x] : x \in r[n - 1]}
    /\ ReachedFrom(A, F) = r[Cardinality(S)]

\* The function ReachedFrom defines exists.
LEMMA ReachedSteps ==
    ASSUME NEW S, NEW A, NEW F, Graph(S, A, F)
    PROVE  \E r : Grow(S, A, F, r)
<1> DEFINE N == Cardinality(S)
           G == [X \in SUBSET S |-> UNION {{x} \cup F[x] : x \in X}]
           Steps(h) == h = [n \in 0..N |-> IF n = 0 THEN A
                                           ELSE UNION {{x} \cup F[x] : x \in h[n - 1]}]
           r == CHOOSE h : Steps(h)
<1>0. IsFiniteSet(S) /\ A \in SUBSET S /\ F \in [S -> SUBSET S]
  BY DEF Graph
<1>1. N \in Nat
  BY <1>0, FS_CardinalityType
<1>2. ReachedFrom(A, F) = r[N]
  <2>1. DOMAIN F = S
    BY <1>0
  <2> QED  BY <2>1 DEF ReachedFrom
<1>3. G \in [SUBSET S -> SUBSET S]
  BY <1>0
<1> HIDE DEF N
<1>4. PICK g \in [0..N -> SUBSET S] : g[0] = A /\ \A i \in 1..N : g[i] = G[g[i - 1]]
  <2> DEFINE D == SUBSET S
  <2>1. A \in D /\ G \in [D -> D]
    BY <1>0, <1>3
  <2> HIDE DEF G, D
  <2>2. \E g : Iterates(D, A, G, N, g)
    BY <1>1, <2>1, Iteration
  <2> QED  BY <2>2 DEF Iterates, D
<1>5. Steps(g)
  <2>1. \A n \in 0..N : n # 0 => n \in 1..N /\ n - 1 \in 0..N
    BY <1>1
  <2>2. \A n \in 0..N : n # 0 => g[n] = UNION {{x} \cup F[x] : x \in g[n - 1]}
    BY <1>4, <2>1
  <2> QED  BY <1>4, <2>2
<1>6. Steps(r)
  <2> HIDE DEF Steps
  <2> QED  BY <1>5
<1> HIDE DEF r
<1>7. DOMAIN r = 0..N /\ r[0] = A
      /\ \A n \in 1..N : r[n] = UNION {{x} \cup F[x] : x \in r[n - 1]}
  <2>1. 0 \in 0..N /\ \A n \in 1..N : n \in 0..N /\ n # 0
    BY <1>1
  <2>2. DOMAIN r = 0..N
    BY <1>6
  <2>3. \A n \in 0..N : r[n] = IF n = 0 THEN A ELSE UNION {{x} \cup F[x] : x \in r[n - 1]}
    BY <1>6
  <2> QED  BY <2>1, <2>2, <2>3
<1> DEFINE same == {n \in Nat : n \in 0..N => r[n] = g[n]}
<1>8. 0 \in same
  BY <1>4, <1>7
<1>9. ASSUME NEW n \in Nat, n \in same PROVE n + 1 \in same
  <2> SUFFICES ASSUME n + 1 \in 0..N PROVE r[n + 1] = g[n + 1]
    OBVIOUS
  <2>1. n \in 0..N /\ n + 1 \in 1..N /\ (n + 1) - 1 = n
    BY <1>1
  <2>2. r[n] = g[n]
    BY <1>9, <2>1
  <2>3. r[n + 1] = UNION {{x} \cup F[x] : x \in g[n]}
    BY <1>7, <2>1, <2>2
  <2>4. g[n + 1] = G[g[n]]
    BY <1>4, <2>1
  <2> QED  BY <1>4, <2>1, <2>3, <2>4
<1>10. \A n \in 0..N : r[n] = g[n]
  <2> HIDE DEF same
  <2>1. Nat \subseteq same
    BY <1>8, <1>9, InductiveSet
  <2> QED  BY <1>1, <2>1 DEF same
<1>11. r \in [0..N -> SUBSET S]
  <2>1. r = [n \in 0..N |-> r[n]]
    BY <1>6
  <2>2. \A n \in 0..N : r[n] \in SUBSET S
    BY <1>4, <1>10
  <2> QED  BY <2>1, <2>2
<1> QED  BY <1>2, <1>7, <1>11 DEF N, Grow

\* What is reached includes where one starts, and stays in the graph.
LEMMA ReachedClosed ==
    ASSUME NEW S, NEW A, NEW F, Graph(S, A, F)
    PROVE  /\ A \subseteq ReachedFrom(A, F)
           /\ ReachedFrom(A, F) \subseteq S
           /\ \A x \in ReachedFrom(A, F) : F[x] \subseteq ReachedFrom(A, F)
<1> DEFINE N == Cardinality(S)
<1>0. IsFiniteSet(S) /\ A \in SUBSET S /\ F \in [S -> SUBSET S]
  BY DEF Graph
<1>1. N \in Nat
  BY <1>0, FS_CardinalityType
<1>2. PICK r \in [0..N -> SUBSET S] :
          /\ r[0] = A
          /\ \A n \in 1..N : r[n] = UNION {{x} \cup F[x] : x \in r[n - 1]}
          /\ ReachedFrom(A, F) = r[N]
  <2>1. PICK r : Grow(S, A, F, r)
    BY ReachedSteps
  <2> QED  BY <2>1 DEF Grow
<1> HIDE DEF N
<1> DEFINE Closed(X) == \A x \in X : F[x] \subseteq X
           P == {n \in Nat : n \in 0..N => /\ A \subseteq r[n]
                                           /\ Closed(r[n]) \/ Cardinality(r[n]) >= n}
<1>3. \A n \in 0..N : IsFiniteSet(r[n]) /\ Cardinality(r[n]) \in Nat
  BY <1>0, <1>2, FS_Subset, FS_CardinalityType
<1>4. 0 \in P
  BY <1>1, <1>2, <1>3
<1>5. ASSUME NEW n \in Nat, n \in P PROVE n + 1 \in P
  <2> SUFFICES ASSUME n + 1 \in 0..N
               PROVE  /\ A \subseteq r[n + 1]
                      /\ Closed(r[n + 1]) \/ Cardinality(r[n + 1]) >= n + 1
    OBVIOUS
  <2>1. n \in 0..N /\ n + 1 \in 1..N /\ (n + 1) - 1 = n
    BY <1>1
  <2>2. r[n + 1] = UNION {{x} \cup F[x] : x \in r[n]} /\ r[n] \in SUBSET S
    BY <1>2, <2>1
  <2>3. r[n] \subseteq r[n + 1]
    BY <2>2
  <2>4. A \subseteq r[n] /\ (Closed(r[n]) \/ Cardinality(r[n]) >= n)
    BY <1>5, <2>1
  <2>5. CASE Closed(r[n])
    <3>1. r[n + 1] = r[n]
      BY <2>2, <2>5
    <3> QED  BY <2>4, <2>5, <3>1
  <2>6. CASE ~ Closed(r[n])
    <3>1. r[n + 1] # r[n]
      BY <2>2, <2>6
    <3>2. Cardinality(r[n]) <= Cardinality(r[n + 1])
          /\ Cardinality(r[n]) # Cardinality(r[n + 1])
      BY <1>3, <2>3, <3>1, FS_Subset
    <3>3. Cardinality(r[n]) \in Nat /\ Cardinality(r[n + 1]) \in Nat
      BY <1>3, <2>1
    <3>4. Cardinality(r[n]) >= n
      BY <2>4, <2>6
    <3>5. Cardinality(r[n + 1]) >= n + 1
      BY <3>2, <3>3, <3>4
    <3> QED  BY <2>3, <2>4, <3>5
  <2> QED  BY <2>5, <2>6
<1>6. N \in P
  <2> HIDE DEF P
  <2> QED  BY <1>1, <1>4, <1>5, InductiveSet
<1>7. A \subseteq r[N] /\ (Closed(r[N]) \/ Cardinality(r[N]) >= N) /\ r[N] \in SUBSET S
  BY <1>1, <1>2, <1>6
<1>8. Closed(r[N])
  <2> SUFFICES ASSUME Cardinality(r[N]) >= N PROVE Closed(r[N])
    BY <1>7
  <2>1. Cardinality(r[N]) <= N /\ Cardinality(r[N]) \in Nat
    BY <1>0, <1>1, <1>3, <1>7, FS_Subset DEF N
  <2>2. Cardinality(S) = Cardinality(r[N])
    BY <1>1, <2>1 DEF N
  <2>3. r[N] = S
    BY <1>0, <1>7, <2>2, FS_Subset
  <2> QED  BY <1>0, <2>3
<1> QED  BY <1>2, <1>7, <1>8

\* Nothing else is reached.
LEMMA ReachedLeast ==
    ASSUME NEW S, NEW A, NEW F, Graph(S, A, F),
           NEW T, A \subseteq T, \A x \in S : x \in T => F[x] \subseteq T
    PROVE  ReachedFrom(A, F) \subseteq T
<1> DEFINE N == Cardinality(S)
<1>0. IsFiniteSet(S) /\ A \in SUBSET S /\ F \in [S -> SUBSET S]
  BY DEF Graph
<1>1. N \in Nat
  BY <1>0, FS_CardinalityType
<1>2. PICK r \in [0..N -> SUBSET S] :
          /\ r[0] = A
          /\ \A n \in 1..N : r[n] = UNION {{x} \cup F[x] : x \in r[n - 1]}
          /\ ReachedFrom(A, F) = r[N]
  <2>1. PICK r : Grow(S, A, F, r)
    BY ReachedSteps
  <2> QED  BY <2>1 DEF Grow
<1> HIDE DEF N
<1> DEFINE P == {n \in Nat : n \in 0..N => r[n] \subseteq T}
<1>3. 0 \in P
  BY <1>2
<1>4. ASSUME NEW n \in Nat, n \in P PROVE n + 1 \in P
  <2> SUFFICES ASSUME n + 1 \in 0..N PROVE r[n + 1] \subseteq T
    OBVIOUS
  <2>1. n \in 0..N /\ n + 1 \in 1..N /\ (n + 1) - 1 = n
    BY <1>1
  <2>2. r[n + 1] = UNION {{x} \cup F[x] : x \in r[n]} /\ r[n] \subseteq S
    BY <1>2, <2>1
  <2>3. r[n] \subseteq T
    BY <1>4, <2>1
  <2> QED  BY <2>2, <2>3
<1>5. Nat \subseteq P
  <2> HIDE DEF P
  <2> QED  BY <1>3, <1>4, InductiveSet
<1> QED  BY <1>1, <1>2, <1>5

-----------------------------------------------------------------------------
(* Worklists.                                                              *)

IsList(s) == s \in Seq(ToSet(s))

LEMMA ListIn ==
    ASSUME NEW S, NEW s \in Seq(S)
    PROVE  IsList(s) /\ ToSet(s) \subseteq S
<1>1. Len(s) \in Nat /\ DOMAIN s = 1..Len(s) /\ s = [i \in 1..Len(s) |-> s[i]]
  OBVIOUS
<1>2. \A i \in 1..Len(s) : s[i] \in ToSet(s) /\ s[i] \in S
  BY <1>1 DEF ToSet
<1>3. s \in [1..Len(s) -> ToSet(s)]
  BY <1>1, <1>2
<1>4. IsList(s)
  BY <1>1, <1>3, SeqDef DEF IsList
<1>5. ToSet(s) \subseteq S
  BY <1>1, <1>2 DEF ToSet
<1> QED  BY <1>4, <1>5

LEMMA ListEmpty == IsList(<<>>) /\ ToSet(<<>>) = {}
<1>1. <<>> \in Seq({}) /\ DOMAIN <<>> = {}
  OBVIOUS
<1> QED  BY <1>1, ListIn

LEMMA ListIsEmpty == ASSUME NEW s, IsList(s), ToSet(s) = {} PROVE s = <<>>
<1>1. s \in Seq({})
  BY DEF IsList
<1> QED  BY <1>1

LEMMA ListConcat ==
    ASSUME NEW s, NEW t, IsList(s), IsList(t)
    PROVE  IsList(s \o t) /\ ToSet(s \o t) = ToSet(s) \cup ToSet(t)
<1> DEFINE S == ToSet(s) \cup ToSet(t)
<1>1. s \in Seq(S) /\ t \in Seq(S)
  BY SeqMonotonic DEF IsList
<1>2. s \o t \in Seq(S)
  BY <1>1
<1>3. IsList(s \o t) /\ ToSet(s \o t) \subseteq S
  BY <1>2, ListIn
<1>4. ASSUME NEW x \in S PROVE x \in ToSet(s \o t)
  <2>1. /\ DOMAIN s = 1..Len(s) /\ DOMAIN t = 1..Len(t) /\ Len(s) \in Nat /\ Len(t) \in Nat
        /\ DOMAIN (s \o t) = 1..(Len(s) + Len(t))
        /\ \A i \in 1..Len(s) : (s \o t)[i] = s[i]
        /\ \A i \in 1..Len(t) : (s \o t)[Len(s) + i] = t[i]
    BY <1>1
  <2>2. CASE x \in ToSet(s)
    <3>1. PICK i \in 1..Len(s) : x = s[i]
      BY <2>1, <2>2 DEF ToSet
    <3>2. x = (s \o t)[i] /\ i \in DOMAIN (s \o t)
      BY <2>1, <3>1
    <3> QED  BY <3>2 DEF ToSet
  <2>3. CASE x \in ToSet(t)
    <3>1. PICK i \in 1..Len(t) : x = t[i]
      BY <2>1, <2>3 DEF ToSet
    <3>2. x = (s \o t)[Len(s) + i] /\ Len(s) + i \in DOMAIN (s \o t)
      BY <2>1, <3>1
    <3> QED  BY <3>2 DEF ToSet
  <2> QED  BY <2>2, <2>3
<1> QED  BY <1>3, <1>4

LEMMA ListOfOne == ASSUME NEW x PROVE IsList(<<x>>) /\ ToSet(<<x>>) = {x}
<1>1. <<x>> \in Seq({x}) /\ DOMAIN <<x>> = 1..1 /\ <<x>>[1] = x
  OBVIOUS
<1>2. x \in ToSet(<<x>>)
  BY <1>1 DEF ToSet
<1> QED  BY <1>1, <1>2, ListIn

LEMMA ListAppend ==
    ASSUME NEW s, NEW x, IsList(s)
    PROVE  IsList(Append(s, x)) /\ ToSet(Append(s, x)) = ToSet(s) \cup {x}
<1>1. Append(s, x) = s \o <<x>>
  <2>1. s \in Seq(ToSet(s) \cup {x})
    BY SeqMonotonic DEF IsList
  <2> QED  BY <2>1, AppendIsConcat
<1> QED  BY <1>1, ListOfOne, ListConcat

LEMMA ListTail ==
    ASSUME NEW s, IsList(s), s # <<>>
    PROVE  /\ IsList(Tail(s)) /\ Head(s) \in ToSet(s)
           /\ ToSet(s) = {Head(s)} \cup ToSet(Tail(s))
<1>1. s \in Seq(ToSet(s))
  BY DEF IsList
<1>2. Head(s) \in ToSet(s) /\ Tail(s) \in Seq(ToSet(s)) /\ s = <<Head(s)>> \o Tail(s)
  BY <1>1
<1>3. IsList(Tail(s))
  BY <1>2, ListIn
<1> QED  BY <1>2, <1>3, ListOfOne, ListConcat

\* The sequences a finite set is put into a worklist as.
LEMMA OrderFacts ==
    ASSUME NEW S, IsFiniteSet(S), NEW s \in Orders(S)
    PROVE  IsList(s) /\ ToSet(s) = S
<1> DEFINE D == 1..Cardinality(S)
<1>1. Cardinality(S) \in Nat
  BY FS_CardinalityType
<1>2. s \in [D -> S] /\ \A i, j \in D : i # j => s[i] # s[j]
  BY DEF Orders, SetToSeqs
<1>3. s \in Seq(S)
  BY <1>1, <1>2, SeqDef
<1>4. s \in Injection(D, S)
  BY <1>2 DEF Injection, IsInjective
<1>5. IsFiniteSet(D) /\ Cardinality(D) = Cardinality(S)
  BY <1>1, FS_Interval
<1>6. s \in Surjection(D, S)
  BY <1>4, <1>5, FS_Injection
<1>7. S \subseteq ToSet(s)
  BY <1>2, <1>6 DEF Surjection, ToSet
<1> QED  BY <1>3, <1>7, ListIn

LEMMA SomeOrderFacts ==
    ASSUME NEW S, IsFiniteSet(S)
    PROVE  IsList(SomeOrder(S)) /\ ToSet(SomeOrder(S)) = S
<1> DEFINE D == 1..Cardinality(S)
<1>1. \E f \in [D -> S] : IsInjective(f)
  <2>1. PICK f : f \in Bijection(D, S)
    BY FS_CardinalityType DEF ExistsBijection
  <2>2. f \in [D -> S] /\ IsInjective(f)
    BY <2>1 DEF Bijection, Injection, IsInjective
  <2> QED  BY <2>2
<1>2. SomeOrder(S) \in [D -> S] /\ IsInjective(SomeOrder(S))
  BY <1>1 DEF SomeOrder, SetToSeq
<1>3. SomeOrder(S) \in Orders(S)
  BY <1>2 DEF IsInjective, Orders, SetToSeqs
<1> QED  BY <1>3, OrderFacts

-----------------------------------------------------------------------------
(* The call graph.                                                         *)

CallSites == Sites({"call", "fork"})

\* What never changes: the code of the program, its call graph,
\* the candidates, the loops of the joins.
ProgInv ==
    /\ prog \in DOMAIN Programs /\ IsProgram(code) /\ callPaths = Paths
    /\ candidateFuncSet = Candidates /\ joinSiteToLoopMap = JoinLoops

LEMMA PathsClosed ==
    ASSUME IsFiniteSet(Funs), NEW E, E \subseteq Funs \X Funs
    PROVE  /\ E \subseteq PathsOf(E) /\ PathsOf(E) \subseteq Funs \X Funs
           /\ \A f, g, h : <<f, g>> \in PathsOf(E) /\ <<g, h>> \in E => <<f, h>> \in PathsOf(E)
<1> DEFINE next == [f \in Funs |-> {g \in Funs : <<f, g>> \in E}]
           R(f) == ReachedFrom(next[f], next)
<1>0. PathsOf(E) = UNION {{f} \X R(f) : f \in Funs}
  BY DEF PathsOf
<1>1. \A f, g : <<f, g>> \in PathsOf(E) <=> f \in Funs /\ g \in R(f)
  <2> HIDE DEF R
  <2> QED  BY <1>0
<1>2. \A p \in PathsOf(E) : \E f \in Funs : \E g \in R(f) : p = <<f, g>>
  <2> HIDE DEF R
  <2> QED  BY <1>0
<1>3. \A f \in Funs : Graph(Funs, next[f], next)
  BY DEF Graph
<1>4. \A f \in Funs : /\ next[f] \subseteq R(f) /\ R(f) \subseteq Funs
                      /\ \A g \in R(f) : next[g] \subseteq R(f)
  <2> HIDE DEF next
  <2> QED  BY <1>3, ReachedClosed
<1>5. \A f \in Funs : next[f] = {g \in Funs : <<f, g>> \in E}
  OBVIOUS
<1> HIDE DEF next, R
<1>6. ASSUME NEW e \in E PROVE e \in PathsOf(E)
  <2>1. PICK f \in Funs, g \in Funs : e = <<f, g>>
    OBVIOUS
  <2> QED  BY <1>1, <1>4, <1>5, <2>1
<1>7. PathsOf(E) \subseteq Funs \X Funs
  BY <1>2, <1>4
<1>8. ASSUME NEW f, NEW g, NEW h, <<f, g>> \in PathsOf(E), <<g, h>> \in E
      PROVE  <<f, h>> \in PathsOf(E)
  <2>1. f \in Funs /\ g \in R(f) /\ g \in Funs /\ h \in Funs
    BY <1>1, <1>8
  <2>2. h \in next[g]
    BY <1>5, <1>8, <2>1
  <2> QED  BY <1>1, <1>4, <2>1, <2>2
<1> QED  BY <1>6, <1>7, <1>8

LEMMA PathsLeast ==
    ASSUME IsFiniteSet(Funs), NEW E, E \subseteq Funs \X Funs, NEW f \in Funs, NEW T,
           \A g : <<f, g>> \in E => g \in T,
           \A g, h : <<g, h>> \in E /\ g \in T => h \in T
    PROVE  \A g : <<f, g>> \in PathsOf(E) => g \in T
<1> DEFINE next == [x \in Funs |-> {g \in Funs : <<x, g>> \in E}]
           R(x) == ReachedFrom(next[x], next)
<1>1. \A g : <<f, g>> \in PathsOf(E) => g \in R(f)
  <2>1. PathsOf(E) = UNION {{x} \X R(x) : x \in Funs}
    BY DEF PathsOf
  <2> HIDE DEF R
  <2> QED  BY <2>1
<1>2. Graph(Funs, next[f], next)
  BY DEF Graph
<1>3. next[f] \subseteq T /\ \A x \in Funs : x \in T => next[x] \subseteq T
  OBVIOUS
<1>4. R(f) \subseteq T
  <2> HIDE DEF next
  <2> QED  BY <1>2, <1>3, ReachedLeast
<1> QED  BY <1>1, <1>4

LEMMA PathsTransitive ==
    ASSUME IsFiniteSet(Funs), NEW E, E \subseteq Funs \X Funs
    PROVE  \A f, g, h : <<f, g>> \in PathsOf(E) /\ <<g, h>> \in PathsOf(E)
                            => <<f, h>> \in PathsOf(E)
<1> SUFFICES ASSUME NEW f, NEW g, <<f, g>> \in PathsOf(E)
             PROVE  \A h : <<g, h>> \in PathsOf(E) => <<f, h>> \in PathsOf(E)
  OBVIOUS
<1> DEFINE T == {h \in Funs : <<f, h>> \in PathsOf(E)}
<1>1. f \in Funs /\ g \in Funs
  BY PathsClosed
<1>2. \A h : <<g, h>> \in E => h \in T
  BY PathsClosed
<1>3. \A h, k : <<h, k>> \in E /\ h \in T => k \in T
  BY PathsClosed
<1>4. \A h : <<g, h>> \in PathsOf(E) => h \in T
  <2> HIDE DEF T
  <2> QED  BY <1>1, <1>2, <1>3, PathsLeast
<1> QED  BY <1>4

\* A path has a first and a last edge.
LEMMA PathsSplit ==
    ASSUME IsFiniteSet(Funs), NEW E, E \subseteq Funs \X Funs, NEW f, NEW g,
           <<f, g>> \in PathsOf(E)
    PROVE  /\ \E h : <<f, h>> \in E /\ (h = g \/ <<h, g>> \in PathsOf(E))
           /\ \E h : <<h, g>> \in E /\ (h = f \/ <<f, h>> \in PathsOf(E))
<1>1. f \in Funs /\ g \in Funs
  BY PathsClosed
<1>2. \E h : <<f, h>> \in E /\ (h = g \/ <<h, g>> \in PathsOf(E))
  <2> DEFINE T == {k \in Funs : \E h : <<f, h>> \in E /\ (h = k \/ <<h, k>> \in PathsOf(E))}
  <2>1. \A h : <<f, h>> \in E => h \in T
    OBVIOUS
  <2>2. \A h, k : <<h, k>> \in E /\ h \in T => k \in T
    BY PathsClosed
  <2>3. g \in T
    <3> HIDE DEF T
    <3> QED  BY <1>1, <2>1, <2>2, PathsLeast
  <2> QED  BY <2>3
<1>3. \E h : <<h, g>> \in E /\ (h = f \/ <<f, h>> \in PathsOf(E))
  <2> DEFINE T == {k \in Funs : \E h : <<h, k>> \in E /\ (h = f \/ <<f, h>> \in PathsOf(E))}
  <2>1. \A h : <<f, h>> \in E => h \in T
    OBVIOUS
  <2>2. \A h, k : <<h, k>> \in E /\ h \in T => k \in T
    BY PathsClosed
  <2>3. g \in T
    <3> HIDE DEF T
    <3> QED  BY <1>1, <2>1, <2>2, PathsLeast
  <2> QED  BY <2>3
<1> QED  BY <1>2, <1>3

-----------------------------------------------------------------------------
(* Call sites and the functions they join.                                 *)

LEMMA StmtFacts ==
    ASSUME IsProgram(code)
    PROVE  /\ IsFiniteSet(Funs)
           /\ \A s : s \in Stmts <=> \E f \in Funs : \E i \in 1..Len(code[f]) : s = <<f, i>>
           /\ \A f \in Funs : Len(code[f]) \in Nat \ {0} /\ DOMAIN code[f] = 1..Len(code[f])
           /\ \A s \in Stmts : FunOf(s) \in Funs /\ s[2] \in 1..Len(code[FunOf(s)])
                               /\ s = <<FunOf(s), s[2]>>
           /\ \A s \in CallSites : s \in Stmts /\ Op(s) \in {"call", "fork"}
                                   /\ FunOf(s) \in Funs /\ Callee(s) \in Funs
           /\ \A f \in Funs : Entry(f) \in Stmts /\ FunOf(Entry(f)) = f
<1>1. IsFiniteSet(Funs) /\ \A f \in Funs : Len(code[f]) \in Nat \ {0}
                                            /\ DOMAIN code[f] = 1..Len(code[f])
  BY DEF IsProgram, Funs
<1>2. \A s : s \in Stmts <=> \E f \in Funs : \E i \in 1..Len(code[f]) : s = <<f, i>>
  BY <1>1 DEF Stmts, StmtsOf
<1>3. \A s \in Stmts : FunOf(s) \in Funs /\ s[2] \in 1..Len(code[FunOf(s)])
                       /\ s = <<FunOf(s), s[2]>>
  BY <1>2 DEF FunOf
<1>4. ASSUME NEW s \in CallSites
      PROVE  s \in Stmts /\ Op(s) \in {"call", "fork"} /\ FunOf(s) \in Funs /\ Callee(s) \in Funs
  <2>1. s \in Stmts /\ Op(s) \in {"call", "fork"}
    BY DEF CallSites, Sites
  <2>2. FunOf(s) \in DOMAIN code /\ s[2] \in DOMAIN code[FunOf(s)]
        /\ code[FunOf(s)][s[2]].op \in {"call", "fork"}
    BY <1>1, <1>3, <2>1 DEF Funs, Op, Stmt, FunOf
  <2>3. code[FunOf(s)][s[2]].to \in DOMAIN code
    BY <2>2 DEF IsProgram
  <2> QED  BY <2>1, <2>2, <2>3 DEF Funs, Callee, Stmt, FunOf
<1>5. \A f \in Funs : Entry(f) \in Stmts /\ FunOf(Entry(f)) = f
  <2>1. \A f \in Funs : 1 \in 1..Len(code[f])
    BY <1>1
  <2> QED  BY <1>2, <2>1 DEF Entry, FunOf
<1> QED  BY <1>1, <1>2, <1>3, <1>4, <1>5

\* What the analyses ask of the call graph, for the paths of its edges.
LEMMA ReachFacts ==
    ASSUME ProgInv
    PROVE  /\ \A s \in CallSites : Reaches(FunOf(s), Callee(s))
           /\ \A f, g : Reaches(f, g) => f \in Funs /\ g \in Funs
           /\ \A f, g, h : Reaches(f, g) /\ Reaches(g, h) => Reaches(f, h)
           /\ \A f, g : Reaches(f, g) =>
                /\ \E s \in CallSites : FunOf(s) = f /\ (Callee(s) = g \/ Reaches(Callee(s), g))
                /\ \E s \in CallSites : Callee(s) = g /\ (FunOf(s) = f \/ Reaches(f, FunOf(s)))
<1>1. IsFiniteSet(Funs)
  BY StmtFacts DEF ProgInv
<1>2. \A e : e \in CallEdges <=> \E s \in CallSites : e = <<FunOf(s), Callee(s)>>
  BY DEF CallEdges, EdgesOf, CallSites
<1>3. CallEdges \subseteq Funs \X Funs
  BY <1>2, StmtFacts DEF ProgInv
<1>4. callPaths = PathsOf(CallEdges)
  BY DEF ProgInv, Paths
<1>5. \A s \in CallSites : Reaches(FunOf(s), Callee(s))
  <2>1. CallEdges \subseteq callPaths
    BY <1>1, <1>3, <1>4, PathsClosed
  <2> QED  BY <1>2, <2>1 DEF Reaches
<1>6. \A f, g : Reaches(f, g) => f \in Funs /\ g \in Funs
  BY <1>1, <1>3, <1>4, PathsClosed DEF Reaches
<1>7. \A f, g, h : Reaches(f, g) /\ Reaches(g, h) => Reaches(f, h)
  BY <1>1, <1>3, <1>4, PathsTransitive DEF Reaches
<1>8. ASSUME NEW f, NEW g, Reaches(f, g)
      PROVE  /\ \E s \in CallSites : FunOf(s) = f /\ (Callee(s) = g \/ Reaches(Callee(s), g))
             /\ \E s \in CallSites : Callee(s) = g /\ (FunOf(s) = f \/ Reaches(f, FunOf(s)))
  <2>1. <<f, g>> \in PathsOf(CallEdges)
    BY <1>4, <1>8 DEF Reaches
  <2>2. PICK h : <<f, h>> \in CallEdges /\ (h = g \/ <<h, g>> \in PathsOf(CallEdges))
    BY <1>1, <1>3, <2>1, PathsSplit
  <2>3. PICK k : <<k, g>> \in CallEdges /\ (k = f \/ <<f, k>> \in PathsOf(CallEdges))
    BY <1>1, <1>3, <2>1, PathsSplit
  <2> QED  BY <1>2, <1>4, <2>2, <2>3 DEF Reaches
<1> QED  BY <1>5, <1>6, <1>7, <1>8

\* The functions of B and those that lead to them.
Above(B) == B \cup {f \in Funs : \E g \in B : Reaches(f, g)}

LEMMA AboveFacts ==
    ASSUME ProgInv, NEW B, B \subseteq Funs
    PROVE  /\ Above(B) \subseteq Funs
           /\ \A s \in CallSites : Callee(s) \in Above(B) => FunOf(s) \in Above(B)
           /\ \A f, g : Reaches(f, g) /\ g \in Above(B) => f \in Above(B)
<1>1. \A f, g : Reaches(f, g) /\ g \in Above(B) => f \in Above(B)
  BY ReachFacts DEF Above
<1> QED  BY <1>1, ReachFacts DEF Above

-----------------------------------------------------------------------------
(* The contexts a function is met under.                                   *)

Pairs == Seq(CallSites) \X Funs
HasCaller(f) == \E s \in CallSites : Callee(s) = f

LEMMA HasCallerFacts == \A f : (\A e \in CallEdges : e[2] # f) <=> ~HasCaller(f)
<1>1. CallEdges = {<<FunOf(s), Callee(s)>> : s \in CallSites}
  BY DEF CallEdges, EdgesOf, CallSites
<1>2. \A s \in CallSites : <<FunOf(s), Callee(s)>> \in CallEdges
  BY <1>1
<1>3. \A e \in CallEdges : \E s \in CallSites : e[2] = Callee(s)
  BY <1>1
<1>4. \A s \in CallSites : <<FunOf(s), Callee(s)>>[2] = Callee(s)
  OBVIOUS
<1> HIDE <1>1
<1> QED  BY <1>2, <1>3, <1>4 DEF HasCaller

\* The functions nobody calls start with the empty context; a call or a fork
\* leads to its callee.
IsContextSet(V) ==
    /\ \A f \in Funs : ~HasCaller(f) => <<(<<>>), f>> \in V
    /\ \A v \in V, s \in CallSites :
        FunOf(s) = v[2] => <<pushLockCxt(v[1], s), Callee(s)>> \in V

Contexts == {w \in Pairs : \A V : IsContextSet(V) => w \in V}

LEMMA ContextsLeast == ASSUME NEW V, IsContextSet(V) PROVE Contexts \subseteq V
  BY DEF Contexts

LEMMA ContextsClosed == ASSUME ProgInv PROVE IsContextSet(Contexts)
<1>1. \A f \in Funs : ~HasCaller(f) => <<(<<>>), f>> \in Contexts
  <2>1. <<>> \in Seq(CallSites)
    OBVIOUS
  <2> QED  BY <2>1 DEF IsContextSet, Contexts, Pairs
<1>2. ASSUME NEW w \in Contexts, NEW s \in CallSites, FunOf(s) = w[2]
      PROVE  <<pushLockCxt(w[1], s), Callee(s)>> \in Contexts
  <2>1. w[1] \in Seq(CallSites) /\ Callee(s) \in Funs
    BY StmtFacts DEF Contexts, Pairs, ProgInv
  <2>2. pushLockCxt(w[1], s) \in Seq(CallSites)
    BY <2>1 DEF pushLockCxt
  <2>3. \A V : IsContextSet(V) => <<pushLockCxt(w[1], s), Callee(s)>> \in V
    BY <1>2 DEF IsContextSet, Contexts
  <2> QED  BY <2>1, <2>2, <2>3 DEF Contexts, Pairs
<1> QED  BY <1>1, <1>2 DEF IsContextSet

LEMMA FrontLast ==
    ASSUME NEW S, NEW c \in Seq(S)
    PROVE  /\ \A x \in S : /\ Append(c, x) \in Seq(S) /\ Append(c, x) # <<>>
                           /\ Front(Append(c, x)) = c /\ Last(Append(c, x)) = x
           /\ c # <<>> => Front(c) \in Seq(S) /\ Last(c) \in S
<1>1. ASSUME NEW x \in S
      PROVE  /\ Append(c, x) \in Seq(S) /\ Append(c, x) # <<>>
             /\ Front(Append(c, x)) = c /\ Last(Append(c, x)) = x
  <2> DEFINE d == Append(c, x)
  <2>1. /\ d \in Seq(S) /\ Len(d) = Len(c) + 1 /\ Len(c) \in Nat
        /\ d[Len(d)] = x /\ d # <<>>
        /\ \A i \in 1..Len(c) : d[i] = c[i]
    OBVIOUS
  <2>2. c \in [1..Len(c) -> S]
    BY LenProperties
  <2> HIDE DEF d
  <2>3. Front(d) = [i \in 1..Len(c) |-> d[i]]
    BY <2>1 DEF Front
  <2>4. Front(d) = c
    BY <2>1, <2>2, <2>3
  <2> QED  BY <2>1, <2>4 DEF Last, d
<1>2. ASSUME c # <<>> PROVE Front(c) \in Seq(S) /\ Last(c) \in S
  <2>1. Len(c) \in Nat /\ Len(c) # 0 /\ \A i \in 1..Len(c) : c[i] \in S
    BY <1>2
  <2> QED  BY <2>1 DEF Front, Last
<1> QED  BY <1>1, <1>2

\* A step of a context set: to the context one frame down or to the same one.
LEMMA PushFacts ==
    ASSUME NEW c \in Seq(CallSites), NEW s \in CallSites
    PROVE  /\ pushLockCxt(c, s) \in Seq(CallSites)
           /\ inSameCallGraphSCC(FunOf(s), Callee(s)) => pushLockCxt(c, s) = c
           /\ ~inSameCallGraphSCC(FunOf(s), Callee(s)) =>
                /\ pushLockCxt(c, s) # <<>>
                /\ Front(pushLockCxt(c, s)) = c /\ Last(pushLockCxt(c, s)) = s
  BY FrontLast DEF pushLockCxt

\* Only a function nobody calls is met under the empty context.
LEMMA ContextRoot ==
    ASSUME ProgInv, NEW w \in Contexts, w[1] = <<>>
    PROVE  ~HasCaller(w[2])
<1> DEFINE V == {v \in Contexts : v[1] = <<>> => ~HasCaller(v[2])}
<1>1. \A f \in Funs : ~HasCaller(f) => <<(<<>>), f>> \in V
  BY ContextsClosed DEF IsContextSet
<1>2. ASSUME NEW v \in V, NEW s \in CallSites, FunOf(s) = v[2]
      PROVE  <<pushLockCxt(v[1], s), Callee(s)>> \in V
  <2>1. v[1] \in Seq(CallSites)
    BY DEF Contexts, Pairs
  <2>2. <<pushLockCxt(v[1], s), Callee(s)>> \in Contexts
    BY <1>2, ContextsClosed DEF IsContextSet
  <2>3. pushLockCxt(v[1], s) # <<>>
    <3> SUFFICES ASSUME inSameCallGraphSCC(FunOf(s), Callee(s)), v[1] = <<>> PROVE FALSE
      BY <2>1, PushFacts
    <3>1. ~HasCaller(FunOf(s))
      BY <1>2
    <3>2. FunOf(s) # Callee(s)
      BY <3>1 DEF HasCaller
    <3>3. Reaches(Callee(s), FunOf(s))
      BY <3>2 DEF inSameCallGraphSCC
    <3> QED  BY <3>1, <3>3, ReachFacts DEF HasCaller
  <2> QED  BY <2>2, <2>3
<1>3. IsContextSet(V)
  <2> HIDE DEF V
  <2> QED  BY <1>1, <1>2 DEF IsContextSet
<1>4. Contexts \subseteq V
  <2> HIDE DEF V
  <2> QED  BY <1>3, ContextsLeast
<1> QED  BY <1>4

\* The function the last call site of a context is in is met under the rest of it.
LEMMA ContextParent ==
    ASSUME ProgInv, NEW w \in Contexts, w[1] # <<>>
    PROVE  <<Front(w[1]), FunOf(Last(w[1]))>> \in Contexts
<1> DEFINE V == {v \in Contexts : v[1] # <<>> => <<Front(v[1]), FunOf(Last(v[1]))>> \in Contexts}
<1>1. \A f \in Funs : ~HasCaller(f) => <<(<<>>), f>> \in V
  BY ContextsClosed DEF IsContextSet
<1>2. ASSUME NEW v \in V, NEW s \in CallSites, FunOf(s) = v[2]
      PROVE  <<pushLockCxt(v[1], s), Callee(s)>> \in V
  <2>1. v[1] \in Seq(CallSites) /\ v = <<v[1], v[2]>> /\ v \in Contexts
    BY DEF Contexts, Pairs
  <2>2. <<pushLockCxt(v[1], s), Callee(s)>> \in Contexts
    BY <1>2, ContextsClosed DEF IsContextSet
  <2>3. CASE inSameCallGraphSCC(FunOf(s), Callee(s))
    <3>1. pushLockCxt(v[1], s) = v[1]
      BY <2>1, <2>3, PushFacts
    <3> QED  BY <2>2, <3>1
  <2>4. CASE ~inSameCallGraphSCC(FunOf(s), Callee(s))
    <3>1. <<Front(pushLockCxt(v[1], s)), FunOf(Last(pushLockCxt(v[1], s)))>> = v
      BY <1>2, <2>1, <2>4, PushFacts
    <3> QED  BY <2>1, <2>2, <3>1
  <2> QED  BY <2>3, <2>4
<1>3. IsContextSet(V)
  <2> HIDE DEF V
  <2> QED  BY <1>1, <1>2 DEF IsContextSet
<1>4. Contexts \subseteq V
  <2> HIDE DEF V
  <2> QED  BY <1>3, ContextsLeast
<1> QED  BY <1>4

\* The functions of a strongly connected component share their contexts.
LEMMA ContextComponent ==
    ASSUME ProgInv, NEW c, NEW g, NEW f, <<c, g>> \in Contexts, inSameCallGraphSCC(g, f)
    PROVE  <<c, f>> \in Contexts
<1> SUFFICES ASSUME Reaches(g, f), Reaches(f, g) PROVE <<c, f>> \in Contexts
  BY DEF inSameCallGraphSCC
<1> DEFINE T == {h \in Funs : Reaches(g, h) /\ (Reaches(h, g) => <<c, h>> \in Contexts)}
<1>0. c \in Seq(CallSites) /\ g \in Funs
  BY DEF Contexts, Pairs
<1>1. ASSUME NEW s \in CallSites, FunOf(s) = g \/ FunOf(s) \in T PROVE Callee(s) \in T
  <2>1. Reaches(g, Callee(s)) /\ Callee(s) \in Funs
    BY <1>1, ReachFacts
  <2> SUFFICES ASSUME Reaches(Callee(s), g) PROVE <<c, Callee(s)>> \in Contexts
    BY <2>1
  <2>2. Reaches(FunOf(s), g)
    BY ReachFacts
  <2>3. <<c, FunOf(s)>> \in Contexts
    BY <1>1, <2>2
  <2>4. inSameCallGraphSCC(FunOf(s), Callee(s))
    BY <1>1, ReachFacts DEF inSameCallGraphSCC
  <2>5. pushLockCxt(c, s) = c
    BY <2>4 DEF pushLockCxt
  <2>6. <<pushLockCxt(<<c, FunOf(s)>>[1], s), Callee(s)>> \in Contexts
    BY <2>3, ContextsClosed DEF IsContextSet
  <2> QED  BY <2>5, <2>6
<1>2. \A k : <<g, k>> \in CallEdges => k \in T
  <2> HIDE DEF T
  <2> QED  BY <1>1 DEF CallEdges, EdgesOf, CallSites
<1>3. \A h, k : <<h, k>> \in CallEdges /\ h \in T => k \in T
  <2> HIDE DEF T
  <2> QED  BY <1>1 DEF CallEdges, EdgesOf, CallSites
<1>4. IsFiniteSet(Funs) /\ CallEdges \subseteq Funs \X Funs
  BY StmtFacts DEF CallEdges, EdgesOf, CallSites, ProgInv
<1>5. <<g, f>> \in PathsOf(CallEdges)
  BY DEF Reaches, ProgInv, Paths
<1>6. f \in T
  <2> HIDE DEF T
  <2> QED  BY <1>0, <1>2, <1>3, <1>4, <1>5, PathsLeast
<1> QED  BY <1>6

\* A return leads to a function under a context it is met under.
LEMMA ContextReturn ==
    ASSUME ProgInv, NEW w \in Contexts, NEW s \in CallSites, Callee(s) = w[2],
           NEW c \in matchLockCxt(w[1], s)
    PROVE  <<c, FunOf(s)>> \in Contexts
<1>1. w = <<w[1], w[2]>> /\ w[1] # <<>>
  BY ContextRoot DEF HasCaller, Contexts, Pairs
<1>2. CASE inSameCallGraphSCC(FunOf(s), Callee(s))
  <2>1. c = w[1] /\ inSameCallGraphSCC(w[2], FunOf(s))
    BY <1>2 DEF matchLockCxt, inSameCallGraphSCC
  <2> QED  BY <1>1, <2>1, ContextComponent
<1>3. CASE ~inSameCallGraphSCC(FunOf(s), Callee(s))
  <2>1. Last(w[1]) = s /\ c = Front(w[1])
    BY <1>1, <1>3 DEF matchLockCxt
  <2> QED  BY <1>1, <2>1, ContextParent
<1> QED  BY <1>2, <1>3

-----------------------------------------------------------------------------
(* The contexts a walk over the statements of the candidates meets         *)
(* functions under.  A walk also goes, by calls and returns, through       *)
(* functions that are no candidates: it adds nothing to the context there, *)
(* and where a routine is called as well as forked it may come to them     *)
(* under contexts no call leads to.                                        *)

\* The functions a fork or a join is reached from.
Related == Above({FunOf(s) : s \in Sites({"fork", "join"})})

LEMMA CandidateFacts ==
    ASSUME ProgInv
    PROVE  /\ \A f : isCandidateFun(f) <=>
                f \in Related \/ \E s \in Sites({"fork"}) : Callee(s) = f
           /\ \A f : isCandidateFun(f) => f \in Funs
           /\ Related \subseteq Funs
           /\ \A s \in Sites({"fork", "join"}) : FunOf(s) \in Related
           /\ \A s \in CallSites : Callee(s) \in Related => FunOf(s) \in Related
           /\ \A f, g : Reaches(f, g) /\ g \in Related => f \in Related
           /\ \A f : f \in EntryFuns <=> isCandidateFun(f) /\ ~HasCaller(f)
<1> DEFINE B == {FunOf(s) : s \in Sites({"fork", "join"})}
<1>1. B \subseteq Funs
  BY StmtFacts DEF Sites, ProgInv
<1>2. /\ Related \subseteq Funs
      /\ \A s \in CallSites : Callee(s) \in Related => FunOf(s) \in Related
      /\ \A f, g : Reaches(f, g) /\ g \in Related => f \in Related
  <2> HIDE DEF B
  <2> QED  BY <1>1, AboveFacts DEF Related, B
<1>3. \A s \in Sites({"fork", "join"}) : FunOf(s) \in Related
  BY DEF Related, Above
<1>4. candidateFuncSet = Related \cup {Callee(s) : s \in Sites({"fork"})}
  BY DEF ProgInv, Candidates, Related, Above
<1>5. \A s \in Sites({"fork"}) : s \in CallSites
  BY DEF Sites, CallSites
<1>6. \A f : f \in EntryFuns <=> isCandidateFun(f) /\ ~HasCaller(f)
  BY HasCallerFacts DEF EntryFuns, ProgInv, isCandidateFun
<1> QED  BY <1>2, <1>3, <1>4, <1>5, <1>6, StmtFacts DEF isCandidateFun, ProgInv

Fits(w) ==
    /\ w[2] \in Related => w \in Contexts
    /\ w[1] = <<>> => w[2] \in EntryFuns

CallerOf(w) == <<Front(w[1]), FunOf(Last(w[1]))>>

\* Sets of pairs that fit with, for each of them, the one it was called from.
Consistent(T) == \A w \in T : w \in Pairs /\ Fits(w) /\ (w[1] # <<>> => CallerOf(w) \in T)
Walked == UNION {T \in SUBSET Pairs : Consistent(T)}

LEMMA WalkedIsConsistent == Consistent(Walked)
<1> SUFFICES ASSUME NEW w \in Walked
             PROVE  w \in Pairs /\ Fits(w) /\ (w[1] # <<>> => CallerOf(w) \in Walked)
  BY DEF Consistent
<1>1. PICK T \in SUBSET Pairs : Consistent(T) /\ w \in T
  BY DEF Walked
<1>2. T \subseteq Walked
  BY <1>1 DEF Walked
<1>3. w \in Pairs /\ Fits(w) /\ (w[1] # <<>> => CallerOf(w) \in T)
  BY <1>1 DEF Consistent
<1> QED  BY <1>2, <1>3

LEMMA WalkedExtended ==
    ASSUME NEW w \in Pairs, Fits(w), w[1] # <<>> => CallerOf(w) \in Walked
    PROVE  w \in Walked
<1> DEFINE T == Walked \cup {w}
<1>1. \A v \in Walked : v \in Pairs /\ Fits(v) /\ (v[1] # <<>> => CallerOf(v) \in Walked)
  BY WalkedIsConsistent DEF Consistent
<1>2. Consistent(T)
  BY <1>1 DEF Consistent
<1>3. T \in SUBSET Pairs
  BY <1>1
<1> HIDE DEF T
<1>4. T \subseteq Walked
  BY <1>2, <1>3 DEF Walked
<1> QED  BY <1>4 DEF T

LEMMA WalkedFacts ==
    ASSUME NEW w \in Walked
    PROVE  /\ w[1] \in Seq(CallSites) /\ w[2] \in Funs /\ w = <<w[1], w[2]>>
           /\ Fits(w) /\ (w[1] # <<>> => CallerOf(w) \in Walked)
<1>1. w \in Pairs /\ Fits(w) /\ (w[1] # <<>> => CallerOf(w) \in Walked)
  BY WalkedIsConsistent DEF Consistent
<1> QED  BY <1>1 DEF Pairs

LEMMA WalkedRoot == ASSUME ProgInv, NEW f \in EntryFuns PROVE <<(<<>>), f>> \in Walked
<1>1. f \in Funs /\ ~HasCaller(f)
  BY CandidateFacts
<1>2. <<(<<>>), f>> \in Contexts /\ <<(<<>>), f>> \in Pairs
  BY <1>1, ContextsClosed DEF IsContextSet, Contexts
<1> QED  BY <1>2, WalkedExtended DEF Fits

\* A call, and a fork, lead to the callee.
LEMMA WalkedCall ==
    ASSUME ProgInv, NEW w \in Walked, NEW s \in CallSites, FunOf(s) = w[2]
    PROVE  <<pushCxt(w[1], s), Callee(s)>> \in Walked
<1> DEFINE v == <<pushCxt(w[1], s), Callee(s)>>
<1>1. w[1] \in Seq(CallSites) /\ w = <<w[1], w[2]>> /\ Fits(w)
      /\ (w[1] # <<>> => CallerOf(w) \in Walked)
  BY WalkedFacts
<1>2. Callee(s) \in Funs
  BY StmtFacts DEF ProgInv
<1>3. Callee(s) \in Related => w[2] \in Related /\ isCandidateFun(w[2]) /\ w \in Contexts
  BY <1>1, CandidateFacts DEF Fits
<1>4. pushCxt(w[1], s) = IF isCandidateFun(w[2]) THEN pushLockCxt(w[1], s) ELSE w[1]
  BY DEF pushCxt, pushLockCxt
<1>5. Callee(s) \in Related => v \in Contexts
  BY <1>3, <1>4, ContextsClosed DEF IsContextSet
<1>6. CASE isCandidateFun(w[2]) /\ ~inSameCallGraphSCC(FunOf(s), Callee(s))
  <2>1. v[1] # <<>> /\ CallerOf(v) = w /\ v \in Pairs
    BY <1>1, <1>2, <1>4, <1>6, PushFacts DEF CallerOf, Pairs
  <2> QED  BY <1>5, <2>1, WalkedExtended DEF Fits
<1>7. CASE ~ (isCandidateFun(w[2]) /\ ~inSameCallGraphSCC(FunOf(s), Callee(s)))
  <2>1. v[1] = w[1] /\ v \in Pairs /\ CallerOf(v) = CallerOf(w)
    BY <1>1, <1>2, <1>7 DEF pushCxt, CallerOf, Pairs
  <2>2. w[1] # <<>>
    <3> SUFFICES ASSUME w[1] = <<>> PROVE FALSE
      OBVIOUS
    <3>1. isCandidateFun(w[2]) /\ ~HasCaller(w[2])
      BY <1>1, CandidateFacts DEF Fits
    <3>2. HasCaller(FunOf(s))
      BY <1>7, <3>1, ReachFacts DEF inSameCallGraphSCC, HasCaller
    <3> QED  BY <3>1, <3>2
  <2> QED  BY <1>1, <1>5, <2>1, <2>2, WalkedExtended DEF Fits
<1> QED  BY <1>6, <1>7

\* A return leads back to the function of a call site.
LEMMA WalkedReturn ==
    ASSUME ProgInv, NEW w \in Walked, NEW s \in CallSites, Callee(s) = w[2],
           NEW c \in matchCxt(w[1], s)
    PROVE  <<c, FunOf(s)>> \in Walked
<1> DEFINE v == <<c, FunOf(s)>>
<1>1. w[1] \in Seq(CallSites) /\ w = <<w[1], w[2]>> /\ Fits(w)
      /\ (w[1] # <<>> => CallerOf(w) \in Walked)
  BY WalkedFacts
<1>2. w[1] # <<>>
  BY <1>1, CandidateFacts DEF Fits, HasCaller
<1>3. FunOf(s) \in Funs
  BY StmtFacts DEF ProgInv
<1>4. CASE c = w[1] /\ ~isCandidateFun(FunOf(s))
  <2>1. v \in Pairs /\ Fits(v) /\ CallerOf(v) = CallerOf(w)
    BY <1>1, <1>2, <1>3, <1>4, CandidateFacts DEF Fits, Pairs, CallerOf
  <2> QED  BY <1>1, <1>2, <1>4, <2>1, WalkedExtended
<1>5. CASE c = w[1] /\ inSameCallGraphSCC(FunOf(s), Callee(s))
  <2>1. FunOf(s) \in Related => w[2] \in Related
    BY <1>5, CandidateFacts DEF inSameCallGraphSCC
  <2>2. inSameCallGraphSCC(w[2], FunOf(s))
    BY <1>5 DEF inSameCallGraphSCC
  <2>3. FunOf(s) \in Related => v \in Contexts
    BY <1>1, <1>5, <2>1, <2>2, ContextComponent DEF Fits
  <2>4. v \in Pairs /\ Fits(v) /\ CallerOf(v) = CallerOf(w)
    BY <1>1, <1>2, <1>3, <1>5, <2>3 DEF Fits, Pairs, CallerOf
  <2> QED  BY <1>1, <1>2, <1>5, <2>4, WalkedExtended
<1>6. CASE Last(w[1]) = s /\ c = Front(w[1])
  BY <1>1, <1>2, <1>6 DEF CallerOf
<1>7. \/ c = w[1] /\ ~isCandidateFun(FunOf(s))
      \/ c = w[1] /\ inSameCallGraphSCC(FunOf(s), Callee(s))
      \/ Last(w[1]) = s /\ c = Front(w[1])
  BY <1>2 DEF matchCxt
<1> QED  BY <1>4, <1>5, <1>6, <1>7

-----------------------------------------------------------------------------
(* Statements of one function.                                             *)

LEMMA FiniteImage ==
    ASSUME NEW S, IsFiniteSet(S), NEW f
    PROVE  IsFiniteSet({f[x] : x \in S})
<1> DEFINE g == [x \in S |-> f[x]]
<1>1. g \in Surjection(S, {f[x] : x \in S})
  BY DEF Surjection
<1> QED  BY <1>1, FS_Surjection

LEMMA FiniteDoubleton == ASSUME NEW x, NEW y PROVE IsFiniteSet({x, y})
<1>1. IsFiniteSet({x})
  BY FS_Singleton
<1>2. {x, y} = {x} \cup {y}
  OBVIOUS
<1> HIDE <1>2
<1> QED  BY <1>1, <1>2, FS_AddElement

LEMMA StmtsFinite == ASSUME IsProgram(code) PROVE IsFiniteSet(Stmts)
<1> DEFINE g == [f \in Funs |-> StmtsOf(f)]
<1>1. ASSUME NEW f \in Funs PROVE IsFiniteSet(StmtsOf(f))
  <2> DEFINE h == [i \in DOMAIN code[f] |-> <<f, i>>]
  <2>1. Len(code[f]) \in Int /\ DOMAIN code[f] = 1..Len(code[f])
    BY StmtFacts
  <2>2. IsFiniteSet(DOMAIN code[f])
    BY <2>1, FS_Interval
  <2>3. IsFiniteSet({h[i] : i \in DOMAIN code[f]})
    <3> HIDE DEF h
    <3> QED  BY <2>2, FiniteImage
  <2>4. StmtsOf(f) = {h[i] : i \in DOMAIN code[f]}
    BY DEF StmtsOf
  <2> QED  BY <2>3, <2>4
<1>2. IsFiniteSet({g[f] : f \in Funs})
  <2> HIDE DEF g
  <2> QED  BY StmtFacts, FiniteImage
<1>3. Stmts = UNION {g[f] : f \in Funs}
  BY DEF Stmts
<1>4. \A T \in {g[f] : f \in Funs} : IsFiniteSet(T)
  BY <1>1
<1> HIDE DEF g
<1> QED  BY <1>2, <1>3, <1>4, FS_UNION

\* Control stays in the function.
LEMMA SuccFacts ==
    ASSUME IsProgram(code), NEW s \in Stmts
    PROVE  \A t \in Succs(s) : t \in Stmts /\ FunOf(t) = FunOf(s)
<1> DEFINE f == FunOf(s)
           n == Len(code[f])
<1>1. /\ f \in Funs /\ s[2] \in 1..n /\ n \in Nat \ {0} /\ DOMAIN code[f] = 1..n
      /\ s = <<f, s[2]>>
  BY StmtFacts
<1>2. Op(s) = "ret" <=> s[2] = n
  BY <1>1 DEF IsProgram, Op, Stmt, FunOf, Funs
<1>3. Op(s) \in {"branch", "goto", "loop"} => Stmt(s).target \in 1..n
  BY <1>1 DEF IsProgram, Op, Stmt, FunOf, Funs
<1>4. \A i \in 1..n : <<f, i>> \in Stmts /\ FunOf(<<f, i>>) = f
  BY <1>1, StmtFacts DEF FunOf
<1>5. Op(s) # "ret" => s[2] + 1 \in 1..n
  BY <1>1, <1>2
<1> HIDE DEF f, n
<1>6. \A t \in Succs(s) : \E i \in 1..n : t = <<f, i>>
  BY <1>3, <1>5 DEF Succs, f
<1> QED  BY <1>4, <1>6 DEF f

LEMMA NextFacts ==
    ASSUME IsProgram(code), NEW s \in Stmts
    PROVE  \A t \in getNextInsts(s) : t \in Stmts /\ FunOf(t) = FunOf(s)
  BY SuccFacts DEF getNextInsts

\* The innermost loop around a statement is one of its function.
LEMMA LoopFacts ==
    ASSUME IsProgram(code), NEW s \in Stmts, getLoop(s) # NoSite
    PROVE  getLoop(s) \in Sites({"loop"}) /\ s \in LoopBody(getLoop(s))
           /\ FunOf(getLoop(s)) = FunOf(s)
<1> DEFINE around == {h \in Sites({"loop"}) : s \in LoopBody(h)}
           n == Len(code[FunOf(s)])
           T == {m \in Nat : \E h \in around : m = n - h[2]}
<1>1. around # {} /\ getLoop(s) = CHOOSE h \in around : \A g \in around : g[2] <= h[2]
  BY DEF getLoop
<1>2. \A h \in around : h \in Stmts /\ FunOf(h) = FunOf(s) /\ h[2] \in 1..n /\ n \in Nat
  <2> SUFFICES ASSUME NEW h \in around
               PROVE  h \in Stmts /\ FunOf(h) = FunOf(s) /\ h[2] \in 1..n /\ n \in Nat
    OBVIOUS
  <2>1. h \in Stmts /\ FunOf(h) = FunOf(s)
    BY DEF Sites, LoopBody, FunOf
  <2>2. h[2] \in 1..Len(code[FunOf(h)]) /\ Len(code[FunOf(h)]) \in Nat
    BY <2>1, StmtFacts
  <2> QED  BY <2>1, <2>2
<1>3. T # {} /\ T \subseteq Nat
  <2>1. PICK h : h \in around
    BY <1>1
  <2>2. n - h[2] \in T
    BY <1>2, <2>1
  <2> QED  BY <2>2
<1>4. PICK m \in T : \A k \in T : m <= k
  <2> HIDE DEF T
  <2> QED  BY <1>3, LeastNatural
<1>5. PICK h \in around : m = n - h[2]
  BY <1>4
<1>6. ASSUME NEW g \in around PROVE g[2] <= h[2]
  <2>1. n - g[2] \in T
    BY <1>2
  <2>2. n - h[2] <= n - g[2]
    BY <1>4, <1>5, <2>1
  <2> QED  BY <1>2, <2>2
<1> HIDE DEF around, n, T
<1>7. getLoop(s) \in around
  BY <1>1, <1>5, <1>6
<1>8. getLoop(s) \in Sites({"loop"}) /\ s \in LoopBody(getLoop(s))
  BY <1>7 DEF around
<1> QED  BY <1>2, <1>7, <1>8

LEMMA ExitFacts ==
    ASSUME ProgInv, NEW j \in Sites({"join"}), getJoinLoop(j) # NoSite
    PROVE  \A t \in getExitBlocks(getJoinLoop(j)) : t \in Stmts /\ FunOf(t) = FunOf(j)
<1> DEFINE h == getJoinLoop(j)
<1>1. h = getLoop(j) /\ j \in Stmts
  BY DEF ProgInv, JoinLoops, getJoinLoop, Sites
<1>2. h \in Sites({"loop"}) /\ FunOf(h) = FunOf(j)
  BY <1>1, LoopFacts DEF ProgInv
<1>3. h \in Stmts /\ Op(h) = "loop"
  BY <1>2 DEF Sites
<1>4. FunOf(h) \in Funs /\ h[2] \in 1..Len(code[FunOf(h)])
      /\ Len(code[FunOf(h)]) \in Nat /\ DOMAIN code[FunOf(h)] = 1..Len(code[FunOf(h)])
  BY <1>3, StmtFacts DEF ProgInv
<1>5. Stmt(h).target \in 1..Len(code[FunOf(h)])
  BY <1>3, <1>4 DEF ProgInv, IsProgram, Op, Stmt, FunOf, Funs
<1>6. \A t \in LoopBody(h) : t \in Stmts /\ FunOf(t) = FunOf(j)
  <2>1. \A i \in h[2]..(Stmt(h).target - 1) : i \in 1..Len(code[FunOf(h)])
    BY <1>4, <1>5
  <2>2. \A i \in 1..Len(code[FunOf(h)]) : <<FunOf(h), i>> \in Stmts
    BY <1>4, StmtFacts DEF ProgInv
  <2> QED  BY <1>2, <2>1, <2>2 DEF LoopBody, FunOf
<1> HIDE DEF h
<1>7. \A t \in getExitBlocks(h) : t \in Stmts /\ FunOf(t) = FunOf(j)
  BY <1>6, SuccFacts DEF getExitBlocks, ProgInv
<1> QED  BY <1>7 DEF h

-----------------------------------------------------------------------------
(* Which step changes what.                                                *)

fixedVars == <<prog, code, callPaths, siteVars>>

LEMMA TreeFrame ==
    ASSUME TreeStep
    PROVE  stage = "tct" /\ stage' \in {"tct", "fja"} /\ UNCHANGED fixedVars
<1>1. CASE PopCTP \/ CollectMultiForkedThreads
  BY <1>1 DEF PopCTP, CollectMultiForkedThreads, progVars, fixedVars
<1>2. CASE \E site \in pending : HandleCallRet(site) \/ HandleFork(site)
  BY <1>2 DEF HandleCallRet, HandleFork, progVars, fixedVars
<1> QED  BY <1>1, <1>2 DEF TreeStep

LEMMA ForkJoinFrame ==
    ASSUME ForkJoinStep
    PROVE  /\ stage = "fja" /\ stage' \in {"fja", "mhp"}
           /\ UNCHANGED <<fixedVars, treeVars>>
<1>1. CASE StartThread \/ FinishForkJoin
  BY <1>1 DEF StartThread, FinishForkJoin, progVars, fixedVars, treeVars
<1>2. ASSUME NEW cs, NEW kinds, Visiting(cs, kinds)
      PROVE  stage = "fja" /\ stage' = stage /\ UNCHANGED <<fixedVars, treeVars>>
  BY <1>2 DEF Visiting, progVars, fixedVars, treeVars
<1>3. CASE \E cs \in ToSet(cxtStmtList) :
             VisitFork(cs) \/ VisitJoin(cs) \/ VisitCall(cs) \/ VisitRet(cs)
  BY <1>2, <1>3 DEF VisitFork, VisitJoin, VisitCall, VisitRet
<1> QED  BY <1>1, <1>2, <1>3 DEF ForkJoinStep

LEMMA MHPFrame ==
    ASSUME MHPStep
    PROVE  /\ stage = "mhp" /\ stage' \in {"mhp", "lock"}
           /\ UNCHANGED <<fixedVars, treeVars, fjaVars>>
<1>1. CASE StartInterleaving \/ UpdateNonCandidateFuns
  BY <1>1 DEF StartInterleaving, UpdateNonCandidateFuns, progVars, fixedVars, treeVars
<1>2. ASSUME NEW cts, NEW candidate, NEW kinds, VisitingThread(cts, candidate, kinds)
      PROVE  stage = "mhp" /\ stage' = stage /\ UNCHANGED <<fixedVars, treeVars, fjaVars>>
  BY <1>2 DEF VisitingThread, progVars, fixedVars, treeVars
<1>3. ASSUME NEW cts \in ToSet(ctsList),
             \/ VisitForkThread(cts) \/ VisitJoinThread(cts) \/ VisitCallThread(cts)
             \/ VisitRetThread(cts) \/ VisitIntraThread(cts) \/ VisitNonCandidate(cts)
      PROVE  stage = "mhp" /\ stage' = stage /\ UNCHANGED <<fixedVars, treeVars, fjaVars>>
  <2>1. CASE VisitForkThread(cts)
    BY <1>2, <2>1 DEF VisitForkThread
  <2>2. CASE VisitJoinThread(cts)
    BY <1>2, <2>2 DEF VisitJoinThread
  <2>3. CASE VisitCallThread(cts)
    BY <1>2, <2>3 DEF VisitCallThread
  <2>4. CASE VisitRetThread(cts)
    BY <1>2, <2>4 DEF VisitRetThread
  <2>5. CASE VisitIntraThread(cts)
    BY <1>2, <2>5 DEF VisitIntraThread
  <2>6. CASE VisitNonCandidate(cts)
    BY <1>2, <2>6 DEF VisitNonCandidate
  <2> QED  BY <1>3, <2>1, <2>2, <2>3, <2>4, <2>5, <2>6
<1> QED  BY <1>1, <1>3 DEF MHPStep

LEMMA LockFrame ==
    ASSUME LockStep
    PROVE  /\ stage \in {"lock", "cxtlocks", "lockspans"}
           /\ stage' \in {"cxtlocks", "lockspans", "pairs"}
           /\ UNCHANGED <<fixedVars, treeVars, fjaVars, mhpVars>>
<1>1. CASE AnalyzeIntraLocks \/ CollectCxtLock
  BY <1>1 DEF AnalyzeIntraLocks, CollectCxtLock, progVars, fixedVars, treeVars
<1>2. CASE StartLockSpans \/ FinishLockSpans
  BY <1>2 DEF StartLockSpans, FinishLockSpans, progVars, fixedVars, treeVars
<1>3. ASSUME NEW cs, NEW kinds, VisitingLocks(cs, kinds)
      PROVE  /\ stage = "lockspans" /\ stage' = stage
             /\ UNCHANGED <<fixedVars, treeVars, fjaVars, mhpVars>>
  BY <1>3 DEF VisitingLocks, progVars, fixedVars, treeVars
<1>4. ASSUME NEW cs \in ToSet(lockStmtList),
             LockVisitFork(cs) \/ LockVisitAcquire(cs) \/ LockVisitRelease(cs)
             \/ LockVisitCall(cs) \/ LockVisitRet(cs) \/ LockVisitIntra(cs)
      PROVE  /\ stage = "lockspans" /\ stage' = stage
             /\ UNCHANGED <<fixedVars, treeVars, fjaVars, mhpVars>>
  BY <1>3, <1>4 DEF LockVisitFork, LockVisitAcquire, LockVisitRelease, LockVisitCall,
                    LockVisitRet, LockVisitIntra
<1> QED  BY <1>1, <1>2, <1>4 DEF LockStep

\* What comes after the analyses of threads and locks.
LaterStep ==
    \/ PairStep /\ UNCHANGED runVars
    \/ InferFromCallGraph /\ UNCHANGED <<treeVars, fjaVars, mhpVars, lockVars, runVars>>
    \/ Run
    \/ Execute

LEMMA LaterFrame ==
    ASSUME LaterStep
    PROVE  /\ stage \in {"pairs", "pairing", "pcg", "done", "run"}
           /\ stage' \in {"pairing", "pcg", "done", "run"}
           /\ UNCHANGED <<fixedVars, treeVars, fjaVars, mhpVars, lockVars>>
<1>1. CASE PairStep
  BY <1>1 DEF PairStep, StartPairs, SkipLocal, PairUp, FinishPairs, progVars, fixedVars, treeVars
<1>2. CASE InferFromCallGraph /\ UNCHANGED <<treeVars, fjaVars, mhpVars, lockVars, runVars>>
  BY <1>2 DEF InferFromCallGraph, fixedVars, treeVars
<1>3. CASE Run
  BY <1>3 DEF Run, analysisVars, fixedVars, treeVars
<1>4. ASSUME NEW i, NEW kinds, Executing(i, kinds)
      PROVE  /\ stage = "run" /\ stage' = stage
             /\ UNCHANGED <<fixedVars, treeVars, fjaVars, mhpVars, lockVars>>
  BY <1>4 DEF Executing, analysisVars, progVars, fixedVars, treeVars
<1>5. ASSUME NEW i \in DOMAIN threads,
             \/ ExecAccess(i) \/ ExecJump(i) \/ ExecLoop(i) \/ ExecCall(i) \/ ExecRet(i)
             \/ ExecFork(i) \/ ExecJoin(i) \/ ExecLock(i) \/ ExecUnlock(i)
      PROVE  /\ stage = "run" /\ stage' = stage
             /\ UNCHANGED <<fixedVars, treeVars, fjaVars, mhpVars, lockVars>>
  BY <1>4, <1>5 DEF ExecAccess, ExecJump, ExecLoop, ExecCall, ExecRet, ExecFork, ExecJoin,
                    ExecLock, ExecUnlock
<1> QED  BY <1>1, <1>2, <1>3, <1>5 DEF LaterStep, Execute

LEMMA StepCases ==
    ASSUME [Next]_vars
    PROVE  /\ UNCHANGED fixedVars
           /\ \/ TreeStep /\ UNCHANGED <<fjaVars, mhpVars, lockVars, runVars>>
              \/ ForkJoinStep /\ UNCHANGED <<mhpVars, lockVars, runVars>>
              \/ MHPStep /\ UNCHANGED <<lockVars, runVars>>
              \/ LockStep /\ UNCHANGED runVars
              \/ LaterStep
              \/ UNCHANGED vars
<1>1. CASE Next
  BY <1>1, TreeFrame, ForkJoinFrame, MHPFrame, LockFrame, LaterFrame
  DEF Next, Analysis, LaterStep, fjaVars, mhpVars, lockVars, runVars
<1>2. CASE UNCHANGED vars
  BY <1>2 DEF vars, progVars, analysisVars, treeVars, fixedVars
<1> QED  BY <1>1, <1>2

-----------------------------------------------------------------------------
(* The program, its call graph and what build computes first never change. *)

LEMMA ProgInvInit == ASSUME Init PROVE ProgInv
<1>1. /\ prog \in DOMAIN Programs /\ code = Programs[prog].code /\ callPaths = Paths
      /\ TreeInit
  BY DEF Init
<1>2. candidateFuncSet = Candidates /\ joinSiteToLoopMap = JoinLoops
  BY <1>1 DEF TreeInit
<1> QED  BY <1>1, <1>2, ProgramsAssumption DEF ProgInv

\* What is computed from the program alone is the same after a step.
FixedNext ==
    /\ Funs' = Funs /\ Stmts' = Stmts /\ CallSites' = CallSites
    /\ \A kinds : Sites(kinds)' = Sites(kinds)
    /\ \A s : Op(s)' = Op(s) /\ Callee(s)' = Callee(s) /\ Stmt(s)' = Stmt(s)
    /\ \A f : Entry(f)' = Entry(f)
    /\ CallEdges' = CallEdges /\ Paths' = Paths /\ Candidates' = Candidates
    /\ JoinLoops' = JoinLoops
    /\ \A f : isCandidateFun(f)' = isCandidateFun(f)
    /\ \A c, s : pushCxt(c, s)' = pushCxt(c, s) /\ pushLockCxt(c, s)' = pushLockCxt(c, s)
    /\ EntryFuns' = EntryFuns /\ LockCandidates' = LockCandidates
    /\ LockEntryFuns' = LockEntryFuns
    /\ Contexts' = Contexts /\ Walked' = Walked /\ Related' = Related

LEMMA FixedPrimed == ASSUME UNCHANGED fixedVars PROVE FixedNext
<1>1. code' = code /\ callPaths' = callPaths /\ candidateFuncSet' = candidateFuncSet
      /\ joinSiteToLoopMap' = joinSiteToLoopMap
  BY DEF fixedVars, siteVars
<1>2. Funs' = Funs /\ Stmts' = Stmts
  BY <1>1 DEF Funs, Stmts, StmtsOf
<1>3. \A s : Op(s)' = Op(s) /\ Callee(s)' = Callee(s) /\ Stmt(s)' = Stmt(s)
  BY <1>1 DEF Op, Callee, Stmt
<1>4. \A kinds : Sites(kinds)' = Sites(kinds)
  BY <1>1, <1>2, <1>3 DEF Sites
<1>5. CallSites' = CallSites
  BY <1>4 DEF CallSites
<1>6. CallEdges' = CallEdges
  BY <1>3, <1>4 DEF CallEdges, EdgesOf
<1>7. Paths' = Paths
  BY <1>2, <1>6 DEF Paths, PathsOf
<1>8. \A f, g : /\ Reaches(f, g)' = Reaches(f, g)
                /\ inSameCallGraphSCC(f, g)' = inSameCallGraphSCC(f, g)
  BY <1>1 DEF Reaches, inSameCallGraphSCC
<1>9. Candidates' = Candidates
  BY <1>2, <1>3, <1>4, <1>8 DEF Candidates
<1>10. \A f : isCandidateFun(f)' = isCandidateFun(f)
  BY <1>1 DEF isCandidateFun
<1>11. \A c, s : pushCxt(c, s)' = pushCxt(c, s) /\ pushLockCxt(c, s)' = pushLockCxt(c, s)
  BY <1>3, <1>8, <1>10 DEF pushCxt, pushLockCxt
<1>12. EntryFuns' = EntryFuns
  BY <1>6, <1>9 DEF EntryFuns
<1>13. LockCandidates' = LockCandidates /\ LockEntryFuns' = LockEntryFuns
  BY <1>2, <1>4, <1>6, <1>8 DEF LockCandidates, LockEntryFuns
<1>14. JoinLoops' = JoinLoops
  <2>1. \A s : Succs(s)' = Succs(s) /\ LoopBody(s)' = LoopBody(s)
    BY <1>3 DEF Succs, LoopBody
  <2>2. ASSUME NEW s PROVE getLoop(s)' = getLoop(s)
    <3> DEFINE around == {h \in Sites({"loop"}) : s \in LoopBody(h)}
    <3>1. around' = around
      BY <1>4, <2>1
    <3>2. getLoop(s) = IF around = {} THEN NoSite
                       ELSE CHOOSE h \in around : \A g \in around : g[2] <= h[2]
      BY DEF getLoop
    <3>3. getLoop(s)' = IF around' = {} THEN NoSite
                        ELSE CHOOSE h \in around' : \A g \in around' : g[2] <= h[2]
      BY DEF getLoop
    <3> HIDE DEF around
    <3> QED  BY <3>1, <3>2, <3>3
  <2>3. \A j, s : PostDominates(j, s)' = PostDominates(j, s)
    BY <1>1, <1>3, <2>1 DEF PostDominates, StmtsOf
  <2>4. \A h, j : isJoinMustExecutedInLoop(h, j)' = isJoinMustExecutedInLoop(h, j)
    BY <2>1, <2>3 DEF isJoinMustExecutedInLoop
  <2> QED  BY <1>4, <2>2, <2>4 DEF JoinLoops
<1>15. Pairs' = Pairs /\ \A f : HasCaller(f)' = HasCaller(f)
  BY <1>2, <1>3, <1>5 DEF Pairs, HasCaller
<1>16. \A V : IsContextSet(V)' = IsContextSet(V)
  BY <1>2, <1>3, <1>5, <1>11, <1>15 DEF IsContextSet
<1>17. Contexts' = Contexts
  BY <1>15, <1>16 DEF Contexts
<1>18. Related' = Related
  BY <1>2, <1>4, <1>8 DEF Related, Above
<1>19. \A w : Fits(w)' = Fits(w)
  BY <1>12, <1>17, <1>18 DEF Fits
<1>20. \A T : Consistent(T)' = Consistent(T)
  BY <1>15, <1>19 DEF Consistent
<1>21. Walked' = Walked
  BY <1>15, <1>20 DEF Walked
<1> QED
  BY <1>2, <1>3, <1>4, <1>5, <1>6, <1>7, <1>9, <1>10, <1>11, <1>12, <1>13, <1>14, <1>17, <1>18,
     <1>21
  DEF Entry, FixedNext

LEMMA ProgInvStep == ASSUME ProgInv, [Next]_vars PROVE ProgInv'
<1>1. UNCHANGED fixedVars
  BY StepCases
<1>2. Paths' = Paths /\ Candidates' = Candidates /\ JoinLoops' = JoinLoops
  BY <1>1, FixedPrimed DEF FixedNext
<1> QED  BY <1>1, <1>2 DEF ProgInv, IsProgram, fixedVars, siteVars

\* The program, its call graph, and what the analyses compute from them once are
\* the same in every stage of MTA::runOnModule: what one stage has looked up still
\* holds in the next.
LEMMA ProgramIsFixed == Spec => []ProgInv
  BY ProgInvInit, ProgInvStep, PTL DEF Spec


-----------------------------------------------------------------------------
(* The thread creation tree.                                               *)

\* The CxtThreadProc a thread is entered with at its fork site.
EntryCTP(t) == [tid |-> t, cxt |-> nodes[t].cxt, fun |-> Callee(nodes[t].fork)]

NodesAreASequence == nodes \in Seq({nodes[t] : t \in DOMAIN nodes})

\* A thread with a parent has been entered, so its fork site adds no more edges.
SpawneesAreVisited ==
    \A d \in edges : d[2] \in Tids /\ EntryCTP(d[2]) \in visitedCTPs

TreeInv == NodesAreASequence /\ SpawneesAreVisited /\ OneParent

-----------------------------------------------------------------------------

\* What Append does to a sequence of whatever elements: the old ones stay.
LEMMA AppendToNodes ==
    ASSUME NEW s, s \in Seq({s[t] : t \in DOMAIN s}), NEW x
    PROVE  LET r == Append(s, x)
           IN  /\ r \in Seq({r[t] : t \in DOMAIN r})
               /\ DOMAIN s \subseteq DOMAIN r
               /\ \A t \in DOMAIN s : r[t] = s[t]
               /\ Len(s) + 1 \in DOMAIN r \ DOMAIN s
               /\ r[Len(s) + 1] = x
<1> DEFINE r == Append(s, x)
           S == {s[t] : t \in DOMAIN s} \cup {x}
<1>1. s \in Seq(S)
  <2>1. Len(s) \in Nat /\ DOMAIN s = 1..Len(s) /\ s = [i \in 1..Len(s) |-> s[i]]
    OBVIOUS
  <2>2. \A i \in 1..Len(s) : s[i] \in S
    BY <2>1
  <2> QED  BY <2>1, <2>2
<1>2. /\ r \in Seq(S) /\ Len(r) = Len(s) + 1
      /\ \A i \in 1..Len(s) : r[i] = s[i]
      /\ r[Len(s) + 1] = x
  BY <1>1
<1>3. DOMAIN s = 1..Len(s) /\ DOMAIN r = 1..(Len(s) + 1) /\ Len(s) \in Nat
  BY <1>1, <1>2
<1>4. r \in Seq({r[t] : t \in DOMAIN r})
  <2>1. Len(r) \in Nat /\ r \in [1..Len(r) -> S]
    BY <1>2, LenProperties
  <2> DEFINE T == {r[t] : t \in DOMAIN r}
  <2>2. r \in [1..Len(r) -> T]
    BY <2>1
  <2> HIDE DEF r, T
  <2>3. r \in Seq(T)
    BY <2>1, <2>2, SeqDef
  <2> QED  BY <2>3 DEF T
<1> QED  BY <1>2, <1>3, <1>4

LEMMA TreeInvInit == Init => TreeInv
<1> SUFFICES ASSUME Init PROVE TreeInv
  OBVIOUS
<1>1. PICK first \in EntryFuns : nodes = <<NewNode(<<>>, NoSite, <<>>, first)>>
  BY DEF Init, TreeInit
<1>2. NodesAreASequence
  BY <1>1 DEF NodesAreASequence
<1>3. edges = {}
  BY DEF Init, TreeInit
<1> QED  BY <1>2, <1>3 DEF TreeInv, SpawneesAreVisited, OneParent

LEMMA TreeInvFork ==
    ASSUME TreeInv, NEW site \in pending, HandleFork(site)
    PROVE  TreeInv'
<1> DEFINE pushed == pushCxt(cur.cxt, site)
           known == NodesOf(pushed, site)
           node == NewNode(pushed, site, cur.cxt, Callee(site))
<1>1. PICK tid, cxt, routine :
        /\ cxt = pushed /\ routine = Callee(site)
        /\ tid = IF known = {} THEN NewTid ELSE CHOOSE t \in Tids : t \in known
  OBVIOUS
<1> DEFINE ctp == [tid |-> tid, cxt |-> cxt, fun |-> routine]
<1>2. /\ nodes' = IF known = {} THEN Append(nodes, node) ELSE nodes
      /\ visitedCTPs' = visitedCTPs \cup {ctp}
      /\ edges' = IF ctp \in visitedCTPs THEN edges ELSE edges \cup {<<cur.tid, tid>>}
      /\ code' = code
  BY <1>1 DEF HandleFork, pushToCTPWorkList, isVisitedCTPs, progVars
<1>3. /\ nodes' \in Seq({nodes'[t] : t \in DOMAIN nodes'})
      /\ DOMAIN nodes \subseteq DOMAIN nodes'
      /\ \A t \in DOMAIN nodes : nodes'[t] = nodes[t]
      /\ tid \in DOMAIN nodes'
      /\ nodes'[tid].cxt = cxt /\ nodes'[tid].fork = site
  <2>1. CASE known = {}
    <3>1. nodes' = Append(nodes, node) /\ tid = Len(nodes) + 1
      BY <1>1, <1>2, <2>1 DEF NewTid
    <3>2. node.cxt = cxt /\ node.fork = site
      BY <1>1 DEF NewNode
    <3> HIDE DEF node
    <3> QED  BY <3>1, <3>2, AppendToNodes DEF TreeInv, NodesAreASequence
  <2>2. CASE known # {}
    <3>1. tid \in Tids /\ nodes[tid].cxt = cxt /\ nodes[tid].fork = site
      BY <1>1, <2>2 DEF NodesOf
    <3>2. nodes' = nodes
      BY <1>2, <2>2
    <3> QED  BY <3>1, <3>2 DEF TreeInv, NodesAreASequence, Tids
  <2> QED  BY <2>1, <2>2
<1>4. Callee(site)' = routine /\ \A s : Callee(s)' = Callee(s)
  BY <1>1, <1>2 DEF Callee, Stmt
<1> HIDE DEF pushed, known, node
<1>5. ASSUME NEW d \in edges
      PROVE  d[2] \in DOMAIN nodes' /\ EntryCTP(d[2])' = EntryCTP(d[2])
  BY <1>2, <1>3, <1>4 DEF TreeInv, SpawneesAreVisited, EntryCTP, Tids, Callee, Stmt
<1>6. EntryCTP(tid)' = ctp
  BY <1>3, <1>4 DEF EntryCTP
<1> HIDE DEF ctp
<1>7. SpawneesAreVisited'
  <2> SUFFICES ASSUME NEW d \in edges'
               PROVE  d[2] \in DOMAIN nodes' /\ EntryCTP(d[2])' \in visitedCTPs'
    BY DEF SpawneesAreVisited, Tids
  <2>1. CASE d \in edges
    BY <2>1, <1>2, <1>5 DEF TreeInv, SpawneesAreVisited
  <2>2. CASE d = <<cur.tid, tid>>
    BY <2>2, <1>2, <1>3, <1>6
  <2> QED  BY <2>1, <2>2, <1>2
<1>8. OneParent'
  <2>1. ASSUME NEW d \in edges, d[2] = tid
        PROVE  ctp \in visitedCTPs
    BY <2>1, <1>5, <1>6 DEF TreeInv, SpawneesAreVisited
  <2>2. CASE ctp \in visitedCTPs
    BY <2>2, <1>2 DEF TreeInv, OneParent
  <2>3. CASE ctp \notin visitedCTPs
    <3> DEFINE new == <<cur.tid, tid>>
    <3>1. new[2] = tid /\ edges' = edges \cup {new} /\ \A d \in edges : d[2] # tid
      BY <2>1, <2>3, <1>2
    <3> HIDE DEF new
    <3> QED  BY <3>1 DEF TreeInv, OneParent
  <2> QED  BY <2>2, <2>3
<1> QED  BY <1>3, <1>7, <1>8 DEF TreeInv, NodesAreASequence

LEMMA TreeInvNext == TreeInv /\ [Next]_vars => TreeInv'
<1> SUFFICES ASSUME TreeInv, [Next]_vars PROVE TreeInv'
  OBVIOUS
<1>1. CASE \E site \in pending : HandleFork(site)
  BY <1>1, TreeInvFork
<1>2. ASSUME nodes' = nodes, edges' = edges, code' = code,
             visitedCTPs \subseteq visitedCTPs'
      PROVE  TreeInv'
  BY <1>2 DEF TreeInv, NodesAreASequence, SpawneesAreVisited, OneParent, EntryCTP, Tids,
              Callee, Stmt
<1>3. CASE PopCTP \/ CollectMultiForkedThreads
  BY <1>2, <1>3 DEF PopCTP, CollectMultiForkedThreads, progVars
<1>4. CASE \E site \in pending : HandleCallRet(site)
  BY <1>2, <1>4 DEF HandleCallRet, pushToCTPWorkList, progVars
<1>5. ASSUME UNCHANGED treeVars, UNCHANGED fixedVars PROVE TreeInv'
  BY <1>2, <1>5 DEF treeVars, fixedVars
<1>6. CASE TreeStep
  BY <1>1, <1>3, <1>4, <1>6 DEF TreeStep
<1>7. CASE ~TreeStep
  BY <1>5, <1>7, StepCases, ForkJoinFrame, MHPFrame, LockFrame, LaterFrame
  DEF vars, analysisVars
<1> QED  BY <1>6, <1>7

\* getParentThread (TCT.h:214-220) may take the only incoming edge of a thread:
\* in every program the tree has at most one for each.
THEOREM TreeHasOneParent == Spec => []OneParent
<1>1. TreeInv => OneParent
  BY DEF TreeInv
<1> QED  BY <1>1, TreeInvInit, TreeInvNext, PTL DEF Spec
-----------------------------------------------------------------------------
(* Every fork has its node.                                                *)

\* The call sites of a CxtThreadProc: its callee is visited, a fork has a node.
Handled(v, s) ==
    /\ \E u \in visitedCTPs : u.cxt = pushCxt(v.cxt, s) /\ u.fun = Callee(s)
    /\ Op(s) = "fork" => NodesOf(pushCxt(v.cxt, s), s) # {}

\* The walk build makes: what has been taken from the worklist has its call sites
\* handled, but for the pending ones.
WalkInv ==
    /\ IsList(ctpList)
    /\ stage # "tct" => pending = {} /\ ctpList = <<>>
    /\ \A f \in EntryFuns : \E v \in visitedCTPs : v.cxt = <<>> /\ v.fun = f
    /\ \A v \in visitedCTPs : v.tid \in Tids /\ <<v.cxt, v.fun>> \in Walked
    /\ ToSet(ctpList) \subseteq visitedCTPs
    /\ pending # {} => cur \in visitedCTPs
    /\ pending \subseteq {s \in CallSites : FunOf(s) = cur.fun}
    /\ \A v \in visitedCTPs \ ToSet(ctpList), s \in CallSites :
        FunOf(s) = v.fun /\ isCandidateFun(v.fun) /\ ~(v = cur /\ s \in pending) => Handled(v, s)

\* A node of a fork is of its callee, under the contexts a walk meets both under.
IsNode(n) ==
    /\ <<n.cxt, n.routine>> \in Walked
    /\ n.fork # NoSite =>
        /\ n.fork \in Sites({"fork"}) /\ n.routine = Callee(n.fork)
        /\ n.cxt = pushCxt(n.forkCxt, n.fork) /\ <<n.forkCxt, FunOf(n.fork)>> \in Walked

NodeInv ==
    /\ NodesAreASequence /\ 1 \in Tids
    /\ nodes[1].cxt = <<>> /\ nodes[1].fork = NoSite
    /\ \A t \in Tids : IsNode(nodes[t])
    /\ \A t \in Tids : t # 1 => Parents(t) # {}
    /\ edges \subseteq Tids \X Tids

LEMMA WalkInvInit == ASSUME Init PROVE WalkInv /\ NodeInv
<1>1. ProgInv
  BY ProgInvInit
<1>2. PICK first \in EntryFuns :
        LET procs == <<first>> \o SetToSeq(EntryFuns \ {first})
        IN  /\ nodes = <<NewNode(<<>>, NoSite, <<>>, first)>>
            /\ ctpList = [i \in DOMAIN procs |-> [tid |-> 1, cxt |-> <<>>, fun |-> procs[i]]]
            /\ visitedCTPs = ToSet(ctpList)
            /\ edges = {} /\ pending = {}
  BY DEF Init, TreeInit
<1> DEFINE procs == <<first>> \o SomeOrder(EntryFuns \ {first})
           node == NewNode(<<>>, NoSite, <<>>, first)
<1>3. /\ nodes = <<node>> /\ edges = {} /\ pending = {}
      /\ ctpList = [i \in DOMAIN procs |-> [tid |-> 1, cxt |-> <<>>, fun |-> procs[i]]]
      /\ visitedCTPs = ToSet(ctpList)
  BY <1>2 DEF SomeOrder
<1>4. IsFiniteSet(EntryFuns \ {first})
  <2>1. EntryFuns \ {first} \subseteq Funs
    BY <1>1, CandidateFacts
  <2> QED  BY <1>1, <2>1, StmtFacts, FS_Subset DEF ProgInv
<1>5. IsList(procs) /\ ToSet(procs) = EntryFuns
  <2>1. IsList(SomeOrder(EntryFuns \ {first})) /\ ToSet(SomeOrder(EntryFuns \ {first})) = EntryFuns \ {first}
    BY <1>4, SomeOrderFacts
  <2>2. IsList(<<first>>) /\ ToSet(<<first>>) = {first}
    BY ListOfOne
  <2>3. EntryFuns = {first} \cup (EntryFuns \ {first})
    OBVIOUS
  <2> DEFINE rest == SomeOrder(EntryFuns \ {first})
  <2> HIDE DEF rest
  <2>4. IsList(<<first>> \o rest) /\ ToSet(<<first>> \o rest) = ToSet(<<first>>) \cup ToSet(rest)
    BY <2>1, <2>2, ListConcat DEF rest
  <2> QED  BY <2>1, <2>2, <2>3, <2>4 DEF rest
<1> HIDE DEF procs
<1>6. ToSet(ctpList) = {[tid |-> 1, cxt |-> <<>>, fun |-> f] : f \in EntryFuns}
  BY <1>3, <1>5 DEF ToSet
<1>7. IsList(ctpList)
  <2>1. Len(procs) \in Nat /\ DOMAIN procs = 1..Len(procs)
    BY <1>5 DEF IsList
  <2>2. DOMAIN ctpList = 1..Len(procs) /\ ctpList = [i \in 1..Len(procs) |-> ctpList[i]]
    BY <1>3, <2>1
  <2>3. \A i \in 1..Len(procs) : ctpList[i] \in ToSet(ctpList)
    BY <2>2 DEF ToSet
  <2>4. ctpList \in [1..Len(procs) -> ToSet(ctpList)]
    BY <2>2, <2>3
  <2> QED  BY <2>1, <2>4, SeqDef DEF IsList
<1>8. node.cxt = <<>> /\ node.fork = NoSite /\ node.routine = first
  BY DEF NewNode
<1> HIDE DEF node
<1>9. Tids = {1} /\ nodes[1] = node /\ NodesAreASequence
  BY <1>3 DEF Tids, NodesAreASequence
<1>10. \A f \in EntryFuns : <<(<<>>), f>> \in Walked
  BY <1>1, WalkedRoot
<1>11. NodeInv
  BY <1>3, <1>8, <1>9, <1>10 DEF NodeInv, IsNode
<1>12. WalkInv
  <2>1. /\ stage = "tct" /\ visitedCTPs = ToSet(ctpList)
        /\ \A v \in visitedCTPs : \E f \in EntryFuns : v = [tid |-> 1, cxt |-> <<>>, fun |-> f]
        /\ \A f \in EntryFuns : [tid |-> 1, cxt |-> <<>>, fun |-> f] \in visitedCTPs
    BY <1>3, <1>6 DEF Init
  <2>2. \A v \in visitedCTPs : v.tid \in Tids /\ <<v.cxt, v.fun>> \in Walked
    BY <1>9, <1>10, <2>1
  <2>3. \A f \in EntryFuns : \E v \in visitedCTPs : v.cxt = <<>> /\ v.fun = f
    BY <2>1
  <2> QED  BY <1>3, <1>7, <2>1, <2>2, <2>3 DEF WalkInv
<1> QED  BY <1>11, <1>12

\* What the invariants say of the nodes and of visited CxtThreadProcs stays true of
\* more of them.
LEMMA HandledGrows ==
    ASSUME FixedNext, visitedCTPs \subseteq visitedCTPs', Tids \subseteq Tids',
           \A t \in Tids : nodes'[t] = nodes[t], NEW v, NEW s, Handled(v, s)
    PROVE  Handled(v, s)'
<1>1. NodesOf(pushCxt(v.cxt, s), s) \subseteq NodesOf(pushCxt(v.cxt, s), s)'
  BY DEF NodesOf, FixedNext
<1> QED  BY <1>1 DEF Handled, FixedNext

LEMMA IsNodePrimed == ASSUME FixedNext, NEW n, IsNode(n) PROVE IsNode(n)'
  BY DEF IsNode, FixedNext

LEMMA PopStep == ASSUME ProgInv, WalkInv, NodeInv, PopCTP, FixedNext PROVE WalkInv'
<1>1. /\ stage = "tct" /\ stage' = stage /\ pending = {} /\ ctpList # <<>>
      /\ cur' = Head(ctpList) /\ ctpList' = Tail(ctpList)
      /\ pending' = {s \in CallSites : FunOf(s) = cur'.fun /\ isCandidateFun(cur'.fun)}
      /\ visitedCTPs' = visitedCTPs /\ nodes' = nodes
  BY DEF PopCTP, progVars, CallSites
<1>2. /\ IsList(ctpList') /\ ToSet(ctpList) = {cur'} \cup ToSet(ctpList')
  BY <1>1, ListTail DEF WalkInv
<1>3. Tids' = Tids /\ \A v, s : Handled(v, s) => Handled(v, s)'
  BY <1>1, HandledGrows DEF Tids
<1>4. ASSUME NEW v \in visitedCTPs' \ ToSet(ctpList'), NEW s \in CallSites,
             FunOf(s) = v.fun, isCandidateFun(v.fun), ~(v = cur' /\ s \in pending')
      PROVE  Handled(v, s)'
  <2>1. v # cur'
    BY <1>1, <1>4
  <2>2. v \in visitedCTPs \ ToSet(ctpList)
    BY <1>1, <1>2, <2>1
  <2> QED  BY <1>1, <1>3, <1>4, <2>2 DEF WalkInv
<1> QED  BY <1>1, <1>2, <1>3, <1>4 DEF WalkInv, FixedNext, IsList

\* What handling a call site with the CxtThreadProc ctp does.
LEMMA PushStep ==
    ASSUME ProgInv, WalkInv, FixedNext, NEW site \in pending, NEW ctp,
           stage = "tct", stage' = stage, cur' = cur, pending' = pending \ {site},
           pushToCTPWorkList(ctp),
           Tids \subseteq Tids', \A t \in Tids : nodes'[t] = nodes[t],
           ctp.tid \in Tids', ctp.cxt = pushCxt(cur.cxt, site), ctp.fun = Callee(site),
           Op(site) = "fork" => \E t \in Tids' : nodes'[t].cxt = ctp.cxt /\ nodes'[t].fork = site
    PROVE  WalkInv'
<1>1. /\ visitedCTPs' = visitedCTPs \cup {ctp}
      /\ ctpList' = IF ctp \in visitedCTPs THEN ctpList ELSE Append(ctpList, ctp)
  BY DEF pushToCTPWorkList, isVisitedCTPs
<1>2. /\ IsList(ctpList')
      /\ ToSet(ctpList') = ToSet(ctpList) \cup (IF ctp \in visitedCTPs THEN {} ELSE {ctp})
  BY <1>1, ListAppend DEF WalkInv, IsList
<1>3. /\ cur \in visitedCTPs /\ <<cur.cxt, cur.fun>> \in Walked
      /\ site \in CallSites /\ FunOf(site) = cur.fun
  BY DEF WalkInv
<1>4. <<ctp.cxt, ctp.fun>> \in Walked
  <2> DEFINE w == <<cur.cxt, cur.fun>>
  <2>1. w \in Walked /\ FunOf(site) = w[2] /\ w[1] = cur.cxt
    BY <1>3
  <2> HIDE DEF w
  <2> QED  BY <1>3, <2>1, WalkedCall
<1>5. \A v, s : Handled(v, s) => Handled(v, s)'
  BY <1>1, HandledGrows
<1>6. Handled(cur, site)'
  <2>1. Op(site) = "fork" => NodesOf(pushCxt(cur.cxt, site), site)' # {}
    BY DEF NodesOf, FixedNext
  <2>2. ctp \in visitedCTPs'
    BY <1>1
  <2> QED  BY <2>1, <2>2 DEF Handled, FixedNext
<1>7. ASSUME NEW v \in visitedCTPs' \ ToSet(ctpList'), NEW s \in CallSites,
             FunOf(s) = v.fun, isCandidateFun(v.fun), ~(v = cur /\ s \in pending')
      PROVE  Handled(v, s)'
  <2>1. v \in visitedCTPs \ ToSet(ctpList)
    BY <1>1, <1>2
  <2>2. CASE v = cur /\ s = site
    BY <1>6, <2>2
  <2>3. CASE ~(v = cur /\ s \in pending)
    BY <1>5, <1>7, <2>1, <2>3 DEF WalkInv
  <2> QED  BY <1>7, <2>2, <2>3
<1>8. \A v \in visitedCTPs' : v.tid \in Tids' /\ <<v.cxt, v.fun>> \in Walked
  BY <1>1, <1>4 DEF WalkInv
<1>9. \A f \in EntryFuns : \E v \in visitedCTPs' : v.cxt = <<>> /\ v.fun = f
  BY <1>1 DEF WalkInv
<1>10. /\ ToSet(ctpList') \subseteq visitedCTPs' /\ cur' \in visitedCTPs'
       /\ pending' \subseteq {s \in CallSites : FunOf(s) = cur'.fun}
  BY <1>1, <1>2, <1>3 DEF WalkInv
<1> QED  BY <1>2, <1>7, <1>8, <1>9, <1>10 DEF WalkInv, FixedNext, IsList

LEMMA CallStep ==
    ASSUME ProgInv, WalkInv, NodeInv, NEW site \in pending, HandleCallRet(site), FixedNext
    PROVE  WalkInv' /\ NodeInv'
<1> DEFINE ctp == [tid |-> cur.tid, cxt |-> pushCxt(cur.cxt, site), fun |-> Callee(site)]
<1>1. /\ stage = "tct" /\ stage' = stage /\ cur' = cur /\ pending' = pending \ {site}
      /\ pushToCTPWorkList(ctp) /\ UNCHANGED <<nodes, edges>> /\ Op(site) = "call"
  BY DEF HandleCallRet, progVars
<1>2. ctp.tid \in Tids /\ ctp.cxt = pushCxt(cur.cxt, site) /\ ctp.fun = Callee(site)
  BY DEF WalkInv
<1>3. Tids' = Tids
  BY <1>1 DEF Tids
<1> HIDE DEF ctp
<1>4. WalkInv'
  BY <1>1, <1>2, <1>3, PushStep
<1>5. NodeInv'
  BY <1>1, <1>3, IsNodePrimed DEF NodeInv, NodesAreASequence, Parents
<1> QED  BY <1>4, <1>5

LEMMA ForkStep ==
    ASSUME ProgInv, WalkInv, NodeInv, NEW site \in pending, HandleFork(site), FixedNext
    PROVE  WalkInv' /\ NodeInv'
<1> DEFINE cxt == pushCxt(cur.cxt, site)
           known == NodesOf(cxt, site)
           tid == IF known = {} THEN NewTid ELSE CHOOSE t \in Tids : t \in known
           ctp == [tid |-> tid, cxt |-> cxt, fun |-> Callee(site)]
           node == NewNode(cxt, site, cur.cxt, Callee(site))
<1>1. /\ stage = "tct" /\ stage' = stage /\ cur' = cur /\ pending' = pending \ {site}
      /\ Op(site) = "fork"
      /\ nodes' = IF known = {} THEN Append(nodes, node) ELSE nodes
      /\ pushToCTPWorkList(ctp)
      /\ edges' = IF ctp \in visitedCTPs THEN edges ELSE edges \cup {<<cur.tid, tid>>}
  BY DEF HandleFork, progVars, isVisitedCTPs
<1>2. ctp.tid = tid /\ ctp.cxt = cxt /\ ctp.fun = Callee(site)
  OBVIOUS
<1>3. node.cxt = cxt /\ node.fork = site /\ node.forkCxt = cur.cxt /\ node.routine = Callee(site)
  BY DEF NewNode
<1>4. /\ cur \in visitedCTPs /\ cur.tid \in Tids /\ <<cur.cxt, cur.fun>> \in Walked
      /\ site \in CallSites /\ FunOf(site) = cur.fun /\ site \in Sites({"fork"})
  BY <1>1 DEF WalkInv, CallSites, Sites
<1>5. <<cxt, Callee(site)>> \in Walked /\ <<cur.cxt, FunOf(site)>> \in Walked
  <2> DEFINE w == <<cur.cxt, cur.fun>>
  <2>1. w \in Walked /\ FunOf(site) = w[2] /\ w[1] = cur.cxt
    BY <1>4
  <2> HIDE DEF w
  <2> QED  BY <1>4, <2>1, WalkedCall
<1>6. IsNode(node)
  BY <1>3, <1>4, <1>5 DEF IsNode
<1> HIDE DEF node, ctp, cxt
<1>7. known # {} => tid \in Tids /\ nodes[tid].cxt = cxt /\ nodes[tid].fork = site
  <2> SUFFICES ASSUME known # {} PROVE tid \in Tids /\ tid \in known
    BY DEF NodesOf
  <2> QED  BY DEF NodesOf
<1> DEFINE k == known
<1>8. /\ NodesAreASequence' /\ Tids \subseteq Tids' /\ \A t \in Tids : nodes'[t] = nodes[t]
      /\ tid \in Tids' /\ nodes'[tid].cxt = cxt /\ nodes'[tid].fork = site
      /\ IF known = {} THEN nodes'[tid] = node /\ Tids' = Tids \cup {tid} /\ tid \notin Tids
         ELSE nodes' = nodes /\ Tids' = Tids
  <2>1. CASE known = {}
    <3>1. nodes' = Append(nodes, node) /\ tid = Len(nodes) + 1
      BY <1>1, <2>1 DEF NewTid
    <3>2. /\ NodesAreASequence' /\ Tids \subseteq Tids' /\ \A t \in Tids : nodes'[t] = nodes[t]
          /\ tid \in Tids' \ Tids /\ nodes'[tid] = node
      BY <3>1, AppendToNodes DEF NodeInv, NodesAreASequence, Tids
    <3>3. Tids' = Tids \cup {tid}
      <4>1. DOMAIN nodes = 1..Len(nodes) /\ Len(nodes) \in Nat
        BY DEF NodeInv, NodesAreASequence
      <4>2. DOMAIN nodes' = 1..(Len(nodes) + 1)
        BY <3>1, <4>1 DEF NodeInv, NodesAreASequence
      <4> HIDE DEF tid
      <4> QED  BY <3>1, <4>1, <4>2 DEF Tids
    <3> QED  BY <1>3, <2>1, <3>2, <3>3
  <2>2. CASE known # {}
    <3>1. nodes' = nodes
      BY <1>1, <2>2
    <3> QED  BY <1>7, <2>2, <3>1 DEF NodeInv, NodesAreASequence, Tids
  <2> QED  BY <2>1, <2>2
<1> HIDE DEF known, k, tid
<1>9. WalkInv'
  <2>1. \E t \in Tids' : nodes'[t].cxt = ctp.cxt /\ nodes'[t].fork = site
    BY <1>2, <1>8
  <2>2. ctp.cxt = pushCxt(cur.cxt, site)
    BY <1>2 DEF cxt
  <2> QED  BY <1>1, <1>2, <1>8, <2>1, <2>2, PushStep
<1>10. NodeInv'
  <2>1. ASSUME NEW t \in Tids' PROVE IsNode(nodes[t])'
    <3>1. CASE t \in Tids
      BY <1>8, <3>1 DEF NodeInv, IsNode, FixedNext
    <3>2. CASE t \notin Tids
      <4>1. nodes'[t] = node
        BY <1>8, <3>2
      <4> QED  BY <1>6, <4>1 DEF IsNode, FixedNext
    <3> QED  BY <3>1, <3>2
  <2>2. edges' \subseteq Tids' \X Tids' /\ edges \subseteq edges'
    BY <1>1, <1>4, <1>8 DEF NodeInv
  <2>3. ASSUME NEW t \in Tids', t # 1 PROVE Parents(t)' # {}
    <3>1. CASE t \in Tids
      <4>1. PICK d \in edges : d[2] = t
        BY <2>3, <3>1 DEF NodeInv, Parents
      <4> QED  BY <2>2, <4>1 DEF Parents
    <3>2. CASE t \notin Tids
      <4>1. t = tid /\ tid \notin Tids
        BY <1>8, <3>2
      <4>2. ctp \notin visitedCTPs
        BY <1>2, <4>1 DEF WalkInv
      <4>3. <<cur.tid, t>> \in edges'
        BY <1>1, <4>1, <4>2
      <4> QED  BY <4>3 DEF Parents
    <3> QED  BY <3>1, <3>2
  <2> QED  BY <1>8, <2>1, <2>2, <2>3 DEF NodeInv
<1> QED  BY <1>9, <1>10

LEMMA WalkInvStep == ASSUME ProgInv, WalkInv, NodeInv, [Next]_vars PROVE WalkInv' /\ NodeInv'
<1>0. FixedNext
  BY StepCases, FixedPrimed
<1>1. ASSUME UNCHANGED <<nodes, edges, visitedCTPs, ctpList, pending>>,
             cur' = cur \/ pending = {}, stage' # "tct" => pending = {} /\ ctpList = <<>>
      PROVE  WalkInv' /\ NodeInv'
  <2>1. Tids' = Tids /\ \A v, s : Handled(v, s) => Handled(v, s)'
    BY <1>0, <1>1, HandledGrows DEF Tids
  <2>2. WalkInv'
    BY <1>0, <1>1, <2>1 DEF WalkInv, FixedNext, IsList
  <2>3. NodeInv'
    BY <1>0, <1>1, <2>1 DEF NodeInv, NodesAreASequence, Parents, IsNode, FixedNext
  <2> QED  BY <2>2, <2>3
<1>2. CASE PopCTP
  <2>1. NodeInv'
    <3>1. nodes' = nodes /\ edges' = edges
      BY <1>2 DEF PopCTP
    <3> QED  BY <1>0, <3>1 DEF NodeInv, NodesAreASequence, Tids, Parents, IsNode, FixedNext
  <2> QED  BY <1>0, <1>2, <2>1, PopStep
<1>3. CASE \E site \in pending : HandleCallRet(site) \/ HandleFork(site)
  BY <1>0, <1>3, CallStep, ForkStep
<1>4. CASE CollectMultiForkedThreads
  BY <1>1, <1>4 DEF CollectMultiForkedThreads
<1>5. CASE ~TreeStep
  <2>1. UNCHANGED treeVars /\ (stage' = stage \/ stage # "tct")
    BY <1>5, StepCases, ForkJoinFrame, MHPFrame, LockFrame, LaterFrame
    DEF vars, progVars, analysisVars
  <2>2. stage' # "tct" => pending = {} /\ ctpList = <<>>
    BY <2>1 DEF WalkInv
  <2> QED  BY <1>1, <2>1, <2>2 DEF treeVars
<1> QED  BY <1>2, <1>3, <1>4, <1>5 DEF TreeStep

\* The invariant of the walk that builds the tree (TCT::build): each call site of what
\* has been taken from the worklist is handled, and each node has its edge and its
\* CxtThreadProc.
THEOREM TreeIsComplete == Spec => [](WalkInv /\ NodeInv)
  BY WalkInvInit, WalkInvStep, ProgramIsFixed, PTL DEF Spec

\* Once the tree is built, each context of a function a fork or a join is reached
\* from has been visited: the contexts are the least set the walk is closed under.
LEMMA EveryContextBuilt ==
    ASSUME ProgInv, WalkInv, stage # "tct", NEW w \in Contexts, w[2] \in Related
    PROVE  \E v \in visitedCTPs : w = <<v.cxt, v.fun>>
<1> DEFINE V == {u \in Contexts : u[2] \in Related => \E v \in visitedCTPs : u = <<v.cxt, v.fun>>}
<1>1. \A f \in Funs : ~HasCaller(f) => <<(<<>>), f>> \in V
  <2> SUFFICES ASSUME NEW f \in Funs, ~HasCaller(f), f \in Related
               PROVE  \E v \in visitedCTPs : <<(<<>>), f>> = <<v.cxt, v.fun>>
    BY ContextsClosed DEF IsContextSet
  <2>1. f \in EntryFuns
    BY CandidateFacts
  <2> QED  BY <2>1 DEF WalkInv
<1>2. ASSUME NEW u \in V, NEW s \in CallSites, FunOf(s) = u[2]
      PROVE  <<pushLockCxt(u[1], s), Callee(s)>> \in V
  <2>1. <<pushLockCxt(u[1], s), Callee(s)>> \in Contexts
    BY <1>2, ContextsClosed DEF IsContextSet
  <2> SUFFICES ASSUME Callee(s) \in Related
               PROVE  \E v \in visitedCTPs : <<pushLockCxt(u[1], s), Callee(s)>> = <<v.cxt, v.fun>>
    BY <2>1
  <2>2. u[2] \in Related /\ isCandidateFun(u[2])
    BY <1>2, CandidateFacts
  <2>3. PICK v \in visitedCTPs : u = <<v.cxt, v.fun>>
    BY <2>2
  <2>4. v.cxt = u[1] /\ v.fun = u[2]
    BY <2>3
  <2>5. Handled(v, s)
    BY <1>2, <2>2, <2>4, ListEmpty DEF WalkInv
  <2>6. PICK x \in visitedCTPs : x.cxt = pushCxt(v.cxt, s) /\ x.fun = Callee(s)
    BY <2>5 DEF Handled
  <2>7. pushCxt(v.cxt, s) = pushLockCxt(u[1], s)
    BY <1>2, <2>2, <2>4 DEF pushCxt, pushLockCxt
  <2> QED  BY <2>6, <2>7
<1>3. IsContextSet(V)
  <2> HIDE DEF V
  <2> QED  BY <1>1, <1>2 DEF IsContextSet
<1>4. Contexts \subseteq V
  <2> HIDE DEF V
  <2> QED  BY <1>3, ContextsLeast
<1> QED  BY <1>4

\* getTCTNode (TCT.h:189) finds a node for every fork a walk comes to.
LEMMA ForksHaveNodes ==
    ASSUME ProgInv, WalkInv, stage # "tct", NEW s \in Sites({"fork"}), NEW c,
           <<c, FunOf(s)>> \in Walked
    PROVE  NodesOf(pushCxt(c, s), s) # {}
<1> DEFINE w == <<c, FunOf(s)>>
<1>1. s \in CallSites /\ Op(s) = "fork" /\ FunOf(s) \in Related /\ isCandidateFun(FunOf(s))
  BY CandidateFacts DEF CallSites, Sites
<1>2. w \in Contexts /\ w[2] \in Related
  BY <1>1, WalkedFacts DEF Fits
<1> HIDE DEF w
<1>3. PICK v \in visitedCTPs : w = <<v.cxt, v.fun>>
  BY <1>2, EveryContextBuilt
<1>4. v.cxt = c /\ v.fun = FunOf(s)
  BY <1>3 DEF w
<1>5. Handled(v, s)
  BY <1>1, <1>4, ListEmpty DEF WalkInv
<1> QED  BY <1>1, <1>4, <1>5 DEF Handled

-----------------------------------------------------------------------------
(* The lock analysis.                                                      *)

\* CxtStmts whose function is met under their context.
InContexts(S) ==
    \A cs \in S : /\ cs = <<cs[1], cs[2]>> /\ cs[2] \in Stmts
                  /\ <<cs[1], FunOf(cs[2])>> \in Contexts

\* The walk over functions: the roots are visited, and what has been taken from
\* the worklist has its call sites and its lock sites handled.
Collected ==
    /\ lockcandidateFuncSet = LockCandidates
    /\ \A f \in LockEntryFuns : <<(<<>>), f>> \in visitedCLPs
    /\ \A v \in visitedCLPs \ ToSet(clpList) : isLockCandidateFun(v[2]) =>
        /\ CLPsFrom(v) \subseteq visitedCLPs
        /\ \A l \in Sites({"lock"}) : FunOf(l) = v[2] => <<v[1], l>> \in cxtLockset

\* What the sets of the analysis are of: spans of lock sites, lock sites under a
\* context of their function, and at a CxtStmt some of those collected.
LockTypes ==
    /\ lockcandidateFuncSet \subseteq Funs
    /\ instCILocksMap \cup instTocondCILocksMap \subseteq Stmts \X Sites({"lock"})
    /\ cxtLockset \subseteq Seq(CallSites) \X Sites({"lock"})
    /\ visitedCLPs \subseteq Contexts /\ ToSet(clpList) \subseteq visitedCLPs
    /\ InContexts(DOMAIN cxtStmtToCxtLockSet)
    /\ \A cs \in DOMAIN cxtStmtToCxtLockSet : cxtStmtToCxtLockSet[cs] \subseteq cxtLockset

LockInv ==
    /\ IsList(clpList) /\ IsList(lockStmtList)
    /\ stage \in {"cxtlocks", "lockspans"} => Collected
    /\ stage = "lockspans" => clpList = <<>>
    /\ stage # "lockspans" => lockStmtList = <<>>
    /\ InContexts(ToSet(lockStmtList))
    /\ LockTypes

-----------------------------------------------------------------------------

LEMMA LockCandidateFacts ==
    ASSUME ProgInv
    PROVE  /\ LockCandidates \subseteq Funs
           /\ \A l \in Sites({"lock"}) : l \in Stmts /\ FunOf(l) \in LockCandidates
           /\ \A s \in CallSites : Callee(s) \in LockCandidates => FunOf(s) \in LockCandidates
           /\ \A f : f \in LockEntryFuns <=> f \in LockCandidates /\ ~HasCaller(f)
<1> DEFINE B == {FunOf(s) : s \in Sites({"lock", "unlock"})}
<1>1. B \subseteq Funs
  BY StmtFacts DEF Sites, ProgInv
<1>2. LockCandidates = Above(B)
  BY DEF LockCandidates, Above
<1>3. \A l \in Sites({"lock"}) : l \in Stmts /\ FunOf(l) \in LockCandidates
  BY DEF Sites, LockCandidates
<1>4. /\ LockCandidates \subseteq Funs
      /\ \A s \in CallSites : Callee(s) \in LockCandidates => FunOf(s) \in LockCandidates
  <2> HIDE DEF B
  <2> QED  BY <1>1, <1>2, AboveFacts
<1>5. \A f : f \in LockEntryFuns <=> f \in LockCandidates /\ ~HasCaller(f)
  BY HasCallerFacts DEF LockEntryFuns
<1> QED  BY <1>3, <1>4, <1>5

\* When the worklist is empty every context of a function that locks has been
\* visited: the contexts are the least set the walk is closed under.
LEMMA EveryContextVisited ==
    ASSUME ProgInv, Collected, clpList = <<>>, NEW w \in Contexts, w[2] \in LockCandidates
    PROVE  w \in visitedCLPs
<1> DEFINE V == {v \in Contexts : v[2] \in LockCandidates => v \in visitedCLPs}
<1>1. \A f \in Funs : ~HasCaller(f) => <<(<<>>), f>> \in V
  BY ContextsClosed, LockCandidateFacts DEF IsContextSet, Collected
<1>2. ASSUME NEW v \in V, NEW s \in CallSites, FunOf(s) = v[2]
      PROVE  <<pushLockCxt(v[1], s), Callee(s)>> \in V
  <2>1. <<pushLockCxt(v[1], s), Callee(s)>> \in Contexts
    BY <1>2, ContextsClosed DEF IsContextSet
  <2> SUFFICES ASSUME Callee(s) \in LockCandidates
               PROVE  <<pushLockCxt(v[1], s), Callee(s)>> \in visitedCLPs
    BY <2>1
  <2>2. v[2] \in LockCandidates /\ v \in visitedCLPs
    BY <1>2, LockCandidateFacts
  <2>3. v \in visitedCLPs \ ToSet(clpList)
    BY <2>2, ListEmpty
  <2>4. CLPsFrom(v) \subseteq visitedCLPs
    BY <2>2, <2>3 DEF Collected, isLockCandidateFun
  <2>5. <<pushLockCxt(v[1], s), Callee(s)>> \in CLPsFrom(v)
    BY <1>2 DEF CLPsFrom, CallSites, Sites
  <2> QED  BY <2>4, <2>5
<1>3. IsContextSet(V)
  <2> HIDE DEF V
  <2> QED  BY <1>1, <1>2 DEF IsContextSet
<1>4. Contexts \subseteq V
  <2> HIDE DEF V
  <2> QED  BY <1>3, ContextsLeast
<1> QED  BY <1>4

LEMMA LockInvImplies == ASSUME ProgInv, LockInv PROVE LockContextsCollected
<1> SUFFICES ASSUME NEW cs \in ToSet(lockStmtList), Op(cs[2]) = "lock" PROVE cs \in cxtLockset
  BY DEF LockContextsCollected
<1>1. stage = "lockspans" /\ clpList = <<>> /\ Collected
  BY ListEmpty DEF LockInv
<1>2. cs[2] \in Sites({"lock"}) /\ <<cs[1], FunOf(cs[2])>> \in Contexts
  BY DEF LockInv, InContexts, Sites
<1> DEFINE v == <<cs[1], FunOf(cs[2])>>
<1>3. v \in visitedCLPs \ ToSet(clpList) /\ isLockCandidateFun(v[2])
  BY <1>1, <1>2, EveryContextVisited, LockCandidateFacts, ListEmpty
  DEF isLockCandidateFun, Collected
<1>4. <<cs[1], cs[2]>> \in cxtLockset
  BY <1>1, <1>2, <1>3 DEF Collected
<1>5. cs = <<cs[1], cs[2]>>
  BY DEF LockInv, InContexts
<1> QED  BY <1>4, <1>5
-----------------------------------------------------------------------------
(* The walk over functions.                                                *)

LEMMA CLPsFinite == ASSUME IsProgram(code), NEW v PROVE IsFiniteSet(CLPsFrom(v))
<1> DEFINE S == {c \in Sites({"call", "fork"}) : FunOf(c) = v[2]}
           g == [s \in S |-> <<pushLockCxt(v[1], s), Callee(s)>>]
<1>1. IsFiniteSet(S)
  BY StmtsFinite, FS_Subset DEF Sites
<1>2. CLPsFrom(v) = {g[s] : s \in S}
  BY DEF CLPsFrom
<1> HIDE DEF S, g
<1> QED  BY <1>1, <1>2, FiniteImage

\* A span stays in the function of its lock site.
LEMMA SpanFacts ==
    ASSUME ProgInv, NEW conditional
    PROVE  Spans(IntraLocks(conditional)) \subseteq Stmts \X Sites({"lock"})
<1>1. ASSUME NEW l \in Sites({"lock"}) PROVE ForwardInsts(l) \subseteq Stmts
  <2> DEFINE S == StmtsOf(FunOf(l))
             F == [s \in S |-> IF Matches("unlock", l, s) THEN {} ELSE Succs(s)]
  <2>1. l \in Stmts /\ IsFiniteSet(Stmts)
    BY StmtsFinite DEF ProgInv, Sites
  <2>2. S \subseteq Stmts /\ \A s \in Stmts : s \in S <=> FunOf(s) = FunOf(l)
    <3>1. FunOf(l) \in Funs
      BY <2>1, StmtFacts DEF ProgInv
    <3>2. S \subseteq Stmts
      BY <3>1 DEF Stmts
    <3>3. \A s \in S : FunOf(s) = FunOf(l)
      BY DEF StmtsOf, FunOf
    <3>4. \A s \in Stmts : s \in StmtsOf(FunOf(s))
      BY DEF Stmts, StmtsOf, FunOf
    <3> QED  BY <3>2, <3>3, <3>4
  <2>3. \A s \in S : Succs(s) \subseteq S
    BY <2>2, SuccFacts DEF ProgInv
  <2>4. F \in [S -> SUBSET S]
    <3> HIDE DEF S
    <3> QED  BY <2>3
  <2>5. IsFiniteSet(S) /\ {l} \subseteq S
    BY <2>1, <2>2, FS_Subset
  <2> DEFINE A == {l}
  <2>6. ForwardInsts(l) = ReachedFrom(A, F)
    BY DEF ForwardInsts
  <2> HIDE DEF S, F, A
  <2>7. Graph(S, A, F)
    BY <2>4, <2>5 DEF Graph, A
  <2> QED  BY <2>2, <2>6, <2>7, ReachedClosed
<1>2. IntraLocks(conditional) \subseteq Sites({"lock"})
  BY DEF IntraLocks
<1> QED  BY <1>1, <1>2 DEF Spans

LEMMA AnalyzeIntraLocksStep ==
    ASSUME ProgInv, LockInv, AnalyzeIntraLocks, FixedNext PROVE LockInv'
<1>1. /\ stage = "lock" /\ stage' = "cxtlocks"
      /\ lockcandidateFuncSet' = LockCandidates
      /\ visitedCLPs' = {<<(<<>>), f>> : f \in LockEntryFuns}
      /\ clpList' = SomeOrder(visitedCLPs')
      /\ instCILocksMap' = Spans(IntraLocks(FALSE)) /\ instTocondCILocksMap' = Spans(IntraLocks(TRUE))
      /\ UNCHANGED <<cxtLockset, lockStmtList, cxtStmtToCxtLockSet>>
  BY DEF AnalyzeIntraLocks
<1>2. IsFiniteSet(visitedCLPs')
  <2> DEFINE g == [f \in LockEntryFuns |-> <<(<<>>), f>>]
  <2>1. IsFiniteSet(LockEntryFuns)
    BY LockCandidateFacts, StmtFacts, FS_Subset DEF ProgInv
  <2>2. visitedCLPs' = {g[f] : f \in LockEntryFuns}
    BY <1>1
  <2> HIDE DEF g
  <2> QED  BY <2>1, <2>2, FiniteImage
<1>3. IsList(clpList') /\ ToSet(clpList') = visitedCLPs'
  BY <1>1, <1>2, SomeOrderFacts
<1>4. Collected'
  BY <1>1, <1>3 DEF Collected, FixedNext
<1>5. lockStmtList = <<>>
  BY <1>1 DEF LockInv
<1>6. visitedCLPs' \subseteq Contexts
  BY <1>1, LockCandidateFacts, ContextsClosed DEF IsContextSet
<1>7. LockTypes'
  <2>1. instCILocksMap' \cup instTocondCILocksMap' \subseteq Stmts \X Sites({"lock"})
    BY <1>1, SpanFacts
  <2> QED  BY <1>1, <1>3, <1>6, <2>1, LockCandidateFacts
           DEF LockInv, LockTypes, InContexts, FixedNext
<1> QED  BY <1>1, <1>3, <1>4, <1>5, <1>7, ListEmpty DEF LockInv, InContexts, IsList

LEMMA CollectCxtLockStep ==
    ASSUME ProgInv, LockInv, CollectCxtLock, FixedNext PROVE LockInv'
<1> DEFINE clp == Head(clpList)
           into == isLockCandidateFun(clp[2])
           locks == {<<clp[1], s>> : s \in {l \in Sites({"lock"}) : FunOf(l) = clp[2]}}
           new == IF into THEN CLPsFrom(clp) \ visitedCLPs ELSE {}
<1>1. /\ stage = "cxtlocks" /\ stage' = stage /\ clpList # <<>>
      /\ cxtLockset' = cxtLockset \cup (IF into THEN locks ELSE {})
      /\ visitedCLPs' = visitedCLPs \cup new
      /\ clpList' = Tail(clpList) \o SomeOrder(new)
      /\ UNCHANGED <<lockStmtList, lockcandidateFuncSet, instCILocksMap, instTocondCILocksMap,
                     cxtStmtToCxtLockSet>>
  BY DEF CollectCxtLock, progVars
<1>2. IsFiniteSet(new)
  <2>1. IsFiniteSet(CLPsFrom(clp))
    BY CLPsFinite DEF ProgInv
  <2> QED  BY <2>1, FS_Subset, FS_EmptySet
<1>3. /\ IsList(Tail(clpList)) /\ ToSet(clpList) = {clp} \cup ToSet(Tail(clpList))
      /\ IsList(SomeOrder(new)) /\ ToSet(SomeOrder(new)) = new
  BY <1>1, <1>2, ListTail, SomeOrderFacts DEF LockInv
<1>4. IsList(clpList') /\ ToSet(clpList') = ToSet(Tail(clpList)) \cup new
  <2> HIDE DEF new
  <2> QED  BY <1>1, <1>3, ListConcat
<1>5. ASSUME NEW v \in visitedCLPs' \ ToSet(clpList'), isLockCandidateFun(v[2])
      PROVE  /\ CLPsFrom(v) \subseteq visitedCLPs'
             /\ \A l \in Sites({"lock"}) : FunOf(l) = v[2] => <<v[1], l>> \in cxtLockset'
  <2>1. v \in visitedCLPs
    BY <1>1, <1>4
  <2>2. CASE v = clp
    <3>1. into
      BY <1>5, <2>2
    <3>2. CLPsFrom(v) \subseteq visitedCLPs'
      BY <1>1, <2>2, <3>1
    <3>3. \A l \in Sites({"lock"}) : FunOf(l) = v[2] => <<v[1], l>> \in cxtLockset'
      BY <1>1, <2>2, <3>1
    <3> QED  BY <3>2, <3>3
  <2>3. CASE v # clp
    <3>1. v \in visitedCLPs \ ToSet(clpList)
      BY <1>3, <1>4, <2>1, <2>3
    <3> QED  BY <1>1, <1>5, <3>1 DEF LockInv, Collected
  <2> QED  BY <2>2, <2>3
<1>9. clp \in visitedCLPs /\ clp \in Contexts /\ clp[1] \in Seq(CallSites)
  <2>1. clp \in visitedCLPs /\ clp \in Contexts
    BY <1>3 DEF LockInv, LockTypes
  <2> QED  BY <2>1 DEF Contexts, Pairs
<1>10. new \subseteq Contexts
  <2>1. CLPsFrom(clp) \subseteq Contexts
    BY <1>9, ContextsClosed DEF IsContextSet, CLPsFrom, CallSites, Sites
  <2> QED  BY <2>1
<1>11. locks \subseteq Seq(CallSites) \X Sites({"lock"})
  BY <1>9
<1> HIDE DEF clp, into, locks, new
<1>12. LockTypes'
  <2>1. InContexts(DOMAIN cxtStmtToCxtLockSet)'
    BY <1>1 DEF LockInv, LockTypes, InContexts, FixedNext
  <2>2. cxtLockset \subseteq cxtLockset' /\ cxtLockset' \subseteq Seq(CallSites) \X Sites({"lock"})
    BY <1>1, <1>11 DEF LockInv, LockTypes
  <2>3. visitedCLPs' \subseteq Contexts /\ ToSet(clpList') \subseteq visitedCLPs'
    BY <1>1, <1>3, <1>4, <1>10 DEF LockInv, LockTypes
  <2> QED  BY <1>1, <2>1, <2>2, <2>3 DEF LockInv, LockTypes, FixedNext
<1>6. /\ \A f : isLockCandidateFun(f)' = isLockCandidateFun(f)
      /\ \A v : CLPsFrom(v)' = CLPsFrom(v)
  BY <1>1 DEF isLockCandidateFun, CLPsFrom, FixedNext
<1>7. Collected'
  BY <1>1, <1>5, <1>6 DEF LockInv, Collected, FixedNext
<1>8. InContexts(ToSet(lockStmtList))'
  BY <1>1 DEF LockInv, InContexts, FixedNext
<1> QED  BY <1>1, <1>4, <1>7, <1>8, <1>12 DEF LockInv, IsList

-----------------------------------------------------------------------------
(* The walk over statements.                                               *)

LEMMA StartLockSpansStep ==
    ASSUME ProgInv, LockInv, StartLockSpans, FixedNext PROVE LockInv'
<1> DEFINE first == {<<(<<>>), Entry(f)>> : f \in LockEntryFuns}
<1>1. /\ stage = "cxtlocks" /\ stage' = "lockspans" /\ clpList = <<>>
      /\ lockStmtList' \in Orders(first)
      /\ UNCHANGED <<lockcandidateFuncSet, instCILocksMap, instTocondCILocksMap, cxtLockset, clpList,
                     visitedCLPs, cxtStmtToCxtLockSet>>
  BY DEF StartLockSpans
<1>2. IsFiniteSet(first)
  <2> DEFINE g == [f \in LockEntryFuns |-> <<(<<>>), Entry(f)>>]
  <2>1. IsFiniteSet(LockEntryFuns)
    BY LockCandidateFacts, StmtFacts, FS_Subset DEF ProgInv
  <2>2. first = {g[f] : f \in LockEntryFuns}
    OBVIOUS
  <2> HIDE DEF g
  <2> QED  BY <2>1, <2>2, FiniteImage
<1>3. IsList(lockStmtList') /\ ToSet(lockStmtList') = first
  BY <1>1, <1>2, OrderFacts
<1>4. ASSUME NEW f \in LockEntryFuns
      PROVE  Entry(f) \in Stmts /\ <<(<<>>), FunOf(Entry(f))>> \in Contexts
  BY LockCandidateFacts, StmtFacts, ContextsClosed DEF ProgInv, IsContextSet
<1>5. InContexts(ToSet(lockStmtList))'
  BY <1>3, <1>4 DEF InContexts, FixedNext
<1>6. Collected'
  BY <1>1 DEF LockInv, Collected, isLockCandidateFun, CLPsFrom, FixedNext
<1>7. LockTypes'
  BY <1>1 DEF LockInv, LockTypes, InContexts, FixedNext
<1> QED  BY <1>1, <1>3, <1>5, <1>6, <1>7 DEF LockInv, IsList

\* A statement goes on to finitely many, each under a context of its function.
Targets(T) == IsFiniteSet(T) /\ InContexts(T)

LEMMA VisitingLocksStep ==
    ASSUME ProgInv, LockInv, FixedNext, NEW cs, NEW kinds, NEW locks, NEW T,
           VisitingLocks(cs, kinds), GoOn(cs, locks, T), Targets(T), locks \subseteq cxtLockset
    PROVE  LockInv'
<1> DEFINE touched == Put(cxtStmtToCxtLockSet, {cs}, locks)
           new == PushedLocks(touched, T, locks) \ ToSet(Tail(lockStmtList))
<1>1. /\ stage = "lockspans" /\ stage' = stage /\ lockStmtList # <<>>
      /\ UNCHANGED <<lockcandidateFuncSet, instCILocksMap, instTocondCILocksMap, cxtLockset, clpList,
                     visitedCLPs>>
      /\ cs = Head(lockStmtList)
  BY DEF VisitingLocks, progVars
<1>2. PICK order \in Orders(new) : lockStmtList' = Tail(lockStmtList) \o order
  BY DEF GoOn
<1>3. new \subseteq T
  BY DEF PushedLocks
<1> HIDE DEF new
<1>4. IsList(order) /\ ToSet(order) = new
  BY <1>2, <1>3, FS_Subset, OrderFacts DEF Targets
<1>5. /\ IsList(Tail(lockStmtList)) /\ ToSet(Tail(lockStmtList)) \subseteq ToSet(lockStmtList)
      /\ cs \in ToSet(lockStmtList)
  BY <1>1, ListTail DEF LockInv
<1>6. IsList(lockStmtList') /\ ToSet(lockStmtList') = ToSet(Tail(lockStmtList)) \cup new
  BY <1>2, <1>4, <1>5, ListConcat
<1>7. InContexts(ToSet(lockStmtList))'
  BY <1>3, <1>5, <1>6 DEF LockInv, InContexts, Targets, FixedNext
<1>8. Collected'
  BY <1>1 DEF LockInv, Collected, isLockCandidateFun, CLPsFrom, FixedNext
<1>9. cxtStmtToCxtLockSet' = MarkLocks(touched, T, locks)
  BY DEF GoOn
<1>10. /\ DOMAIN touched = {cs} \cup DOMAIN cxtStmtToCxtLockSet
       /\ \A x \in DOMAIN touched : touched[x] \subseteq cxtLockset
  BY DEF Put, LockInv, LockTypes
<1> HIDE DEF touched
<1>11. DOMAIN cxtStmtToCxtLockSet' \subseteq DOMAIN touched \cup T
  BY <1>9 DEF MarkLocks
<1>12. \A x \in DOMAIN cxtStmtToCxtLockSet' : cxtStmtToCxtLockSet'[x] \subseteq cxtLockset
  BY <1>9, <1>10 DEF MarkLocks
<1>13. InContexts(DOMAIN cxtStmtToCxtLockSet)'
  BY <1>5, <1>10, <1>11 DEF LockInv, LockTypes, InContexts, Targets, FixedNext
<1>14. LockTypes'
  BY <1>1, <1>12, <1>13 DEF LockInv, LockTypes, FixedNext
<1> QED  BY <1>1, <1>6, <1>7, <1>8, <1>14 DEF LockInv, IsList

LEMMA TargetsUnion ==
    ASSUME NEW S, NEW T, Targets(S), Targets(T) PROVE Targets(S \cup T)
  BY FS_Union DEF Targets, InContexts

LEMMA TargetsInFunction ==
    ASSUME IsProgram(code), NEW c, NEW s \in Stmts, <<c, FunOf(s)>> \in Contexts
    PROVE  Targets(At(c, Succs(s))) /\ Targets({})
<1>1. IsFiniteSet(Succs(s))
  BY SuccFacts, StmtsFinite, FS_Subset
<1>2. IsFiniteSet(At(c, Succs(s)))
  <2> DEFINE g == [t \in Succs(s) |-> <<c, t>>]
  <2>1. At(c, Succs(s)) = {g[t] : t \in Succs(s)}
    BY DEF At
  <2> HIDE DEF g
  <2> QED  BY <1>1, <2>1, FiniteImage
<1>3. InContexts(At(c, Succs(s)))
  BY SuccFacts DEF InContexts, At
<1> QED  BY <1>2, <1>3, FS_EmptySet DEF Targets, InContexts

LEMMA TargetsOfCall ==
    ASSUME ProgInv, NEW cs, cs[2] \in CallSites, <<cs[1], FunOf(cs[2])>> \in Contexts
    PROVE  Targets(CallTarget(cs))
<1> DEFINE c == pushLockCxt(cs[1], cs[2])
           f == Callee(cs[2])
<1>1. <<c, f>> \in Contexts
  <2>1. <<pushLockCxt(<<cs[1], FunOf(cs[2])>>[1], cs[2]), f>> \in Contexts
    BY ContextsClosed DEF IsContextSet
  <2> QED  BY <2>1
<1>2. f \in Funs /\ Entry(f) \in Stmts /\ FunOf(Entry(f)) = f
  BY StmtFacts DEF ProgInv
<1>3. CallTarget(cs) = {<<c, Entry(f)>>}
  BY DEF CallTarget
<1> DEFINE e == Entry(f)
<1> HIDE DEF c, f, e
<1>4. CallTarget(cs) = {<<c, e>>} /\ e \in Stmts /\ <<c, FunOf(e)>> \in Contexts
  BY <1>1, <1>2, <1>3 DEF e
<1>5. IsFiniteSet(CallTarget(cs))
  BY <1>4, FS_Singleton
<1> QED  BY <1>4, <1>5 DEF Targets, InContexts

ReturnsOf(cs) ==
    UNION {UNION {At(c, Succs(site)) : c \in matchLockCxt(cs[1], site)} :
             site \in {s \in Sites({"call"}) : Callee(s) = FunOf(cs[2])}}

LEMMA TargetsOfReturn ==
    ASSUME ProgInv, NEW cs, cs[2] \in Stmts, <<cs[1], FunOf(cs[2])>> \in Contexts
    PROVE  Targets(ReturnsOf(cs))
<1>1. ASSUME NEW x \in ReturnsOf(cs)
      PROVE  /\ x[1] \in {cs[1], Front(cs[1])} /\ x[2] \in Stmts /\ x = <<x[1], x[2]>>
             /\ <<x[1], FunOf(x[2])>> \in Contexts
  <2>1. PICK site \in Sites({"call"}) : \E c \in matchLockCxt(cs[1], site) :
            Callee(site) = FunOf(cs[2]) /\ x \in At(c, Succs(site))
    BY DEF ReturnsOf
  <2>2. PICK c \in matchLockCxt(cs[1], site) :
            Callee(site) = FunOf(cs[2]) /\ x \in At(c, Succs(site))
    BY <2>1
  <2>3. PICK t \in Succs(site) : x = <<c, t>>
    BY <2>2 DEF At
  <2>4. site \in CallSites /\ site \in Stmts
    BY DEF CallSites, Sites
  <2>5. t \in Stmts /\ FunOf(t) = FunOf(site)
    BY <2>4, SuccFacts DEF ProgInv
  <2>6. <<c, FunOf(site)>> \in Contexts
    <3> DEFINE w == <<cs[1], FunOf(cs[2])>>
    <3>1. w \in Contexts /\ Callee(site) = w[2] /\ c \in matchLockCxt(w[1], site)
      BY <2>2
    <3> HIDE DEF w
    <3> QED  BY <2>4, <3>1, ContextReturn
  <2>7. c \in {cs[1], Front(cs[1])}
    BY DEF matchLockCxt
  <2> QED  BY <2>3, <2>5, <2>6, <2>7
<1> DEFINE C == {cs[1], Front(cs[1])}
<1>2. IsFiniteSet(C \X Stmts)
  <2>1. IsFiniteSet(C)
    BY FiniteDoubleton
  <2>2. IsFiniteSet(Stmts)
    BY StmtsFinite DEF ProgInv
  <2> HIDE DEF C
  <2> QED  BY <2>1, <2>2, FS_Product
<1>3. ReturnsOf(cs) \subseteq C \X Stmts
  <2> SUFFICES ASSUME NEW x \in ReturnsOf(cs) PROVE x \in C \X Stmts
    OBVIOUS
  <2>1. x[1] \in C /\ x[2] \in Stmts /\ x = <<x[1], x[2]>>
    BY <1>1
  <2> HIDE DEF C
  <2> QED  BY <2>1
<1>4. IsFiniteSet(ReturnsOf(cs))
  BY <1>2, <1>3, FS_Subset
<1> QED  BY <1>1, <1>4 DEF Targets, InContexts

LEMMA LockInvStep == ASSUME ProgInv, LockInv, [Next]_vars PROVE LockInv'
<1>0. FixedNext
  BY StepCases, FixedPrimed DEF FixedNext
<1>1. CASE LockStep
  <2>1. CASE AnalyzeIntraLocks \/ CollectCxtLock \/ StartLockSpans
    BY <1>0, <2>1, AnalyzeIntraLocksStep, CollectCxtLockStep, StartLockSpansStep
  <2>2. CASE FinishLockSpans
    BY <1>0, <2>2, ListEmpty
    DEF FinishLockSpans, LockInv, LockTypes, lockVars, IsList, InContexts, FixedNext
  <2>3. ASSUME NEW cs \in ToSet(lockStmtList)
        PROVE  cs[2] \in Stmts /\ <<cs[1], FunOf(cs[2])>> \in Contexts
    BY DEF LockInv, InContexts
  <2>4. ASSUME NEW cs \in ToSet(lockStmtList), NEW kinds, VisitingLocks(cs, kinds)
        PROVE  Op(cs[2]) \in kinds
    BY <2>4 DEF VisitingLocks
  <2>5. ASSUME NEW cs \in ToSet(lockStmtList)
        PROVE  /\ Targets(At(cs[1], Succs(cs[2]))) /\ Targets({})
               /\ Targets(ReturnsOf(cs))
               /\ Op(cs[2]) \in {"call", "fork"} => Targets(CallTarget(cs))
               /\ LocksAt(cs) \subseteq cxtLockset
               /\ Op(cs[2]) = "lock" => LocksAt(cs) \cup {cs} \subseteq cxtLockset
    <3>1. LocksAt(cs) \subseteq cxtLockset
      BY DEF LocksAt, LockInv, LockTypes
    <3>2. Op(cs[2]) = "lock" => cs \in cxtLockset
      BY LockInvImplies DEF LockContextsCollected
    <3> QED
    BY <2>3, <3>1, <3>2, TargetsInFunction, TargetsOfReturn, TargetsOfCall DEF ProgInv, CallSites, Sites
  <2>6. ASSUME NEW cs \in ToSet(lockStmtList), LockVisitFork(cs) PROVE LockInv'
    BY <1>0, <2>4, <2>5, <2>6, TargetsUnion, VisitingLocksStep DEF LockVisitFork
  <2>7. ASSUME NEW cs \in ToSet(lockStmtList), LockVisitAcquire(cs) PROVE LockInv'
    BY <1>0, <2>4, <2>5, <2>7, VisitingLocksStep DEF LockVisitAcquire
  <2>8. ASSUME NEW cs \in ToSet(lockStmtList), LockVisitRelease(cs) PROVE LockInv'
    BY <1>0, <2>5, <2>8, VisitingLocksStep DEF LockVisitRelease
  <2>9. ASSUME NEW cs \in ToSet(lockStmtList), LockVisitCall(cs) PROVE LockInv'
    BY <1>0, <2>4, <2>5, <2>9, VisitingLocksStep DEF LockVisitCall
  <2>10. ASSUME NEW cs \in ToSet(lockStmtList), LockVisitRet(cs) PROVE LockInv'
    BY <1>0, <2>5, <2>10, VisitingLocksStep DEF LockVisitRet, ReturnsOf
  <2>11. ASSUME NEW cs \in ToSet(lockStmtList), LockVisitIntra(cs) PROVE LockInv'
    BY <1>0, <2>5, <2>11, VisitingLocksStep DEF LockVisitIntra
  <2> QED
    BY <1>1, <2>1, <2>2, <2>6, <2>7, <2>8, <2>9, <2>10, <2>11 DEF LockStep
<1>2. ASSUME UNCHANGED lockVars,
             stage' = stage \/ {stage, stage'} \cap {"cxtlocks", "lockspans"} = {}
      PROVE  LockInv'
  <2>1. /\ clpList' = clpList /\ lockStmtList' = lockStmtList /\ visitedCLPs' = visitedCLPs
        /\ lockcandidateFuncSet' = lockcandidateFuncSet /\ cxtLockset' = cxtLockset
        /\ UNCHANGED <<instCILocksMap, instTocondCILocksMap, cxtStmtToCxtLockSet>>
    BY <1>2 DEF lockVars
  <2>2. Collected' = Collected
    BY <1>0, <2>1 DEF Collected, isLockCandidateFun, CLPsFrom, FixedNext
  <2>3. InContexts(ToSet(lockStmtList))' = InContexts(ToSet(lockStmtList))
    BY <1>0, <2>1 DEF InContexts, FixedNext
  <2>4. LockTypes'
    BY <1>0, <2>1 DEF LockInv, LockTypes, InContexts, FixedNext
  <2> QED  BY <1>2, <2>1, <2>2, <2>3, <2>4 DEF LockInv, IsList
<1>3. CASE ~LockStep
  BY <1>2, <1>3, StepCases, TreeFrame, ForkJoinFrame, MHPFrame, LaterFrame
  DEF vars, progVars, analysisVars
<1> QED  BY <1>1, <1>3

LEMMA LockInvInit == ASSUME Init PROVE LockInv
  BY ListEmpty DEF Init, LockInit, LockInv, LockTypes, InContexts

\* A lock site that the walk over statements comes to, under whatever context, is one
\* the walk over functions has collected (the lookup of LockAnalysis.cpp:314), for
\* every program and every order of both worklists.
THEOREM LockSitesCollected == Spec => []LockContextsCollected
<1>1. Spec => []LockInv
  BY LockInvInit, LockInvStep, ProgramIsFixed, PTL DEF Spec
<1> QED  BY <1>1, LockInvImplies, ProgramIsFixed, PTL
=============================================================================
