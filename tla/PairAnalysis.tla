----------------------------- MODULE PairAnalysis -----------------------------
(***************************************************************************)
(* The pairs the driver reports as data races (MTA::pairAnalysis,          *)
(* lib/MTA/MTA.cpp).  The loads and stores are in a std::set of pointers,  *)
(* so in any order; the order is chosen as the iterator moves on.          *)
(***************************************************************************)
EXTENDS LockAnalysis

VARIABLES
    it,      \* what the iterator points to, NoSite at the end
    ahead,   \* the instructions behind it
    pairs    \* the pairs found

pairVars == <<it, ahead, pairs>>

isShared(s) == Stmt(s).obj # "stack"
alias(s1, s2) == Stmt(s1).obj = Stmt(s2).obj

hasDataRace(s1, s2) ==
    /\ alias(s1, s2)
    /\ mayHappenInParallelInst(s1, s2)
    /\ ~isProtectedByCommonLock(s1, s2)

PairInit == it = NoSite /\ ahead = {} /\ pairs = {}

\* The iterator goes to the next instruction, or to the end.
Advance(left) ==
    /\ it' \in IF left = {} THEN {NoSite} ELSE left
    /\ ahead' = left \ {it'}

StartPairs ==
    /\ stage = "pairs" /\ it = NoSite
    /\ stage' = "pairing"
    /\ Advance(Sites({"access"}))
    /\ UNCHANGED <<prog, code, callPaths, treeVars, fjaVars, mhpVars, lockVars, pairs>>

SkipLocal ==
    /\ stage = "pairing" /\ it # NoSite /\ ~isShared(it)
    /\ Advance(ahead)
    /\ UNCHANGED <<progVars, treeVars, fjaVars, mhpVars, lockVars, pairs>>

\* The inner loop starts with it2 = ++it, and so pairs the next instruction, with
\* itself and with those behind it.
PairUp ==
    /\ stage = "pairing" /\ it # NoSite /\ isShared(it)
    /\ Advance(ahead)
    /\ pairs' = pairs \cup
        {p \in {it'} \X (IF it' = NoSite THEN {} ELSE {it'} \cup ahead') :
            hasDataRace(p[1], p[2])}
    /\ UNCHANGED <<progVars, treeVars, fjaVars, mhpVars, lockVars>>

FinishPairs ==
    /\ stage = "pairing" /\ it = NoSite
    /\ stage' = "pcg"
    /\ UNCHANGED <<prog, code, callPaths, treeVars, fjaVars, mhpVars, lockVars, pairVars>>

PairStep == StartPairs \/ SkipLocal \/ PairUp \/ FinishPairs
=============================================================================
