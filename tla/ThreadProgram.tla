---------------------------- MODULE ThreadProgram ----------------------------
(***************************************************************************)
(* The multi-threaded program the static analyses of lib/MTA read, and     *)
(* what they ask of it: the thread call graph, its strongly connected      *)
(* components, the loops.                                                  *)
(*                                                                         *)
(* A program is a record [code, oracle].  code maps a function to the      *)
(* sequence of its statements, of which the last is its only return.  A    *)
(* statement is a record with a field op:                                  *)
(*    "access" (obj)               a load or a store of obj; "stack" stands *)
(*                                 for what is neither global nor on the   *)
(*                                 heap, and differs from thread to thread *)
(*    "fork" (to, ptr)             pthread_create(ptr, .., to, ..)         *)
(*    "join" (ptr)                 pthread_join( *ptr, ..)                 *)
(*    "lock", "unlock" (mutex)     pthread_mutex_lock, _unlock             *)
(*    "call" (to)                  a direct call                           *)
(*    "branch" (target)            go on, or jump                          *)
(*    "goto" (target)              jump (back, to the header of its loop)  *)
(*    "loop" (target, trip)        header of a loop: go in, or jump out;   *)
(*                                 trip is its constant trip count, or 0   *)
(*    "ret"                        return                                  *)
(* ptr is [var, local, kind, index, step]: a variable of the program or of *)
(* each thread, and in it a scalar, a constant element of an array, or the *)
(* element index + step * i of iteration i of the loop the statement is in *)
(* ("strided").                                                            *)
(***************************************************************************)
EXTENDS Naturals, Sequences, FiniteSets

CONSTANTS Programs, NoSite

\* What the comment above says of a program, without the fields only some of the
\* analyses read.
IsProgram(c) ==
    /\ IsFiniteSet(DOMAIN c)
    /\ \A f \in DOMAIN c :
        /\ Len(c[f]) \in Nat \ {0} /\ DOMAIN c[f] = 1..Len(c[f])
        /\ \A i \in DOMAIN c[f] :
            LET s == c[f][i]
            IN  /\ <<f, i>> # NoSite
                /\ s.op = "ret" <=> i = Len(c[f])
                /\ s.op \in {"call", "fork"} => s.to \in DOMAIN c
                /\ s.op \in {"branch", "goto", "loop"} => s.target \in DOMAIN c[f]

ASSUME ProgramsAssumption == \A p \in DOMAIN Programs : IsProgram(Programs[p].code)

VARIABLES
    prog,       \* the program under analysis, a name in DOMAIN Programs
    code,       \* its code
    callPaths,  \* its thread call graph: see Paths
    stage       \* what MTA::runOnModule is doing

progVars == <<prog, code, callPaths, stage>>

Funs == DOMAIN code
StmtsOf(f) == {<<f, i>> : i \in DOMAIN code[f]}
Stmts == UNION {StmtsOf(f) : f \in Funs}

Stmt(s) == code[s[1]][s[2]]
Op(s) == Stmt(s).op
FunOf(s) == s[1]
Callee(s) == Stmt(s).to
Entry(f) == <<f, 1>>
ExitOf(f) == <<f, Len(code[f])>>
Sites(kinds) == {s \in Stmts : Op(s) \in kinds}

\* The function f with the elements of S mapped to v.
Put(f, S, v) == [x \in S \cup DOMAIN f |-> IF x \in S THEN v ELSE f[x]]

\* The nodes reached from those of A in a graph: F maps a node to its successors.
ReachedFrom(A, F) ==
    LET reached[n \in 0..Cardinality(DOMAIN F)] ==
            IF n = 0 THEN A
            ELSE UNION {{x} \cup F[x] : x \in reached[n - 1]}
    IN  reached[Cardinality(DOMAIN F)]

-----------------------------------------------------------------------------
(* The thread call graph: an edge per call and per fork.                   *)

EdgesOf(kinds) == {<<FunOf(s), Callee(s)>> : s \in Sites(kinds)}
CallEdges == EdgesOf({"call", "fork"})

\* The pairs of functions joined by a path of at least one edge of E.
PathsOf(E) ==
    LET next == [f \in Funs |-> {g \in Funs : <<f, g>> \in E}]
    IN  UNION {{f} \X ReachedFrom(next[f], next) : f \in Funs}

Paths == PathsOf(CallEdges)

Reaches(f, g) == <<f, g>> \in callPaths

inSameCallGraphSCC(f, g) == f = g \/ (Reaches(f, g) /\ Reaches(g, f))

\* SCCDetection::isInCycle: more than one function, or a call of itself.
isInCycle(f) == Reaches(f, f)

-----------------------------------------------------------------------------
(* Control flow inside a function.                                         *)

Succs(s) ==
    LET fall == <<FunOf(s), s[2] + 1>>
    IN  CASE Op(s) = "ret" -> {}
          [] Op(s) = "goto" -> {<<FunOf(s), Stmt(s).target>>}
          [] Op(s) \in {"branch", "loop"} -> {fall, <<FunOf(s), Stmt(s).target>>}
          [] OTHER -> {fall}

Preds(s) == {p \in Stmts : FunOf(p) = FunOf(s) /\ s \in Succs(p)}

\* The basic blocks: a statement leads one if it is the first, is jumped to, or
\* comes after a jump.  A block that the next statement would fall into ends in
\* a branch that is no statement here.
JumpTargets(f) == {Stmt(s).target : s \in {t \in Sites({"branch", "goto", "loop"}) : FunOf(t) = f}}
Leaders(f) ==
    {i \in DOMAIN code[f] : \/ i = 1 \/ i \in JumpTargets(f)
                            \/ Op(<<f, i - 1>>) \in {"branch", "goto", "loop"}}
BlockOf(s) ==
    {t \in Stmts : /\ FunOf(t) = FunOf(s)
                   /\ \A l \in Leaders(FunOf(s)) : l <= t[2] <=> l <= s[2]}

\* A loop, named by its header, is the header and all that is before its exit,
\* which is where the header jumps to.
LoopBody(h) == {<<FunOf(h), i>> : i \in h[2]..(Stmt(h).target - 1)}

\* getLoop: the innermost loop around s, or NoSite.
getLoop(s) ==
    LET around == {h \in Sites({"loop"}) : s \in LoopBody(h)}
    IN  IF around = {} THEN NoSite
        ELSE CHOOSE h \in around : \A g \in around : g[2] <= h[2]

\* Loop::getExitBlocks: the statements outside of a loop that follow one of it.
getExitBlocks(h) == UNION {Succs(s) : s \in LoopBody(h)} \ LoopBody(h)

\* PostDominatorTree::dominates(join, s): no path from s returns without join.
PostDominates(join, s) ==
    \A a \in ReachedFrom({s} \ {join}, [t \in StmtsOf(FunOf(s)) |-> Succs(t) \ {join}]) :
        Op(a) # "ret"
=============================================================================
