----------------------------- MODULE MCAndersen -----------------------------
(***************************************************************************)
(* The constraint graphs Andersen is checked on.                           *)
(***************************************************************************)
EXTENDS Andersen, Naturals, FiniteSets, FiniteSetsExt

AllNodes == {"p", "q", "r", "t", "x", "y", "z", "f"}

Load(p, v)  == [kind |-> "load", ptr |-> p, val |-> v]      \* v = *p
Store(p, v) == [kind |-> "store", ptr |-> p, val |-> v]     \* *p = v

-----------------------------------------------------------------------------
(* Every program of three pointers p = &x, q = &y, r = &p with at most two *)
(* copies and two loads or stores among them, MaxConstraints in all.       *)
MaxConstraints == 3

Pointers == {"p", "q", "r"}
Copies   == NoLoops(Pointers \X Pointers)
Accesses == {Load(u, v) : u \in Pointers, v \in Pointers}
                \cup {Store(u, v) : u \in Pointers, v \in Pointers}

SmallGraphs ==
    UNION {{[addr |-> {<<"x", "p">>, <<"y", "q">>, <<"p", "r">>}, copy |-> C,
             deref |-> D, opaque |-> {}, calls |-> {}] :
               C \in kSubset(kl[1], Copies), D \in kSubset(kl[2], Accesses)} :
           kl \in {kl \in (0 .. 2) \X (0 .. 2) : kl[1] + kl[2] <= MaxConstraints}}

-----------------------------------------------------------------------------
(* A cycle of the program's own copies whose members load and store:       *)
(* p = &x; q = p; p = q; *q = r; r = &y; t = *p.                           *)
OwnCycle ==
    [addr |-> {<<"x", "p">>, <<"y", "r">>}, copy |-> {<<"p", "q">>, <<"q", "p">>},
     deref |-> {Store("q", "r"), Load("p", "t")}, opaque |-> {}, calls |-> {}]

(* A cycle of copies that only an indirect call closes: q = f(p), where f  *)
(* returns its argument r in z, and p = q.                                 *)
CallCycle ==
    [addr |-> {<<"f", "t">>, <<"x", "p">>}, copy |-> {<<"r", "z">>, <<"q", "p">>},
     deref |-> {Load("z", "y")}, opaque |-> {},
     calls |-> {[fp |-> "t", fun |-> "f", links |-> {<<"p", "r">>, <<"z", "q">>}]}]

(* The function pointer is read from memory, and the call finds another.   *)
LoadedCall ==
    [addr |-> {<<"x", "p">>, <<"f", "q">>, <<"y", "r">>}, copy |-> {},
     deref |-> {Store("p", "q"), Load("p", "t")}, opaque |-> {"y"},
     calls |-> {[fp |-> "t", fun |-> "f", links |-> {<<"r", "z">>, <<"z", "q">>}],
                [fp |-> "q", fun |-> "y", links |-> {<<"p", "z">>}]}]

(* A constant object: nothing is read from it or stored to it.             *)
Constant ==
    [addr |-> {<<"x", "p">>, <<"y", "p">>, <<"z", "q">>}, copy |-> {<<"p", "t">>},
     deref |-> {Store("t", "q"), Load("p", "r")}, opaque |-> {"y"}, calls |-> {}]

(* p = &x; q = *p; r = q; *p = r closes the cycle x, q, r by the edges of  *)
(* a load and a store; t = &y; *p = t gives its members y, which holds f;  *)
(* z = *r.                                                                 *)
LateStore ==
    [addr |-> {<<"x", "p">>, <<"y", "t">>, <<"f", "y">>}, copy |-> {<<"q", "r">>},
     deref |-> {Load("p", "q"), Store("p", "r"), Store("p", "t"), Load("r", "z")},
     opaque |-> {}, calls |-> {}]

Programs == {OwnCycle, CallCycle, LoadedCall, Constant, LateStore}

-----------------------------------------------------------------------------
(* The least solution as pairs of a node and an object, by rounds that     *)
(* apply every constraint once.                                            *)
MaxRounds == 12

Forced(g, P) ==
    g.copy \cup {CopyFor(do[1], do[2]) : do \in
                   {do \in g.deref \X (Nodes \ g.opaque) : <<do[1].ptr, do[2]>> \in P}}
           \cup UNION {c.links : c \in {c \in g.calls : <<c.fp, c.fun>> \in P}}

Round(g, P) ==
    P \cup {<<ep[1][2], ep[2][2]>> :
               ep \in {ep \in Forced(g, P) \X P : ep[1][1] = ep[2][1]}}

Least(g) ==
    LET L[k \in 0 .. MaxRounds] ==
            IF k = 0 THEN {<<a[2], a[1]>> : a \in g.addr}
            ELSE UNION {Round(g, P) : P \in {L[k - 1]}}
    IN  CHOOSE S \in {[n \in Nodes |-> {o \in Nodes : <<n, o>> \in P}] :
                         P \in {L[MaxRounds]}} : TRUE

AllGraphs == SmallGraphs \cup Programs

(* The graph whose late cycle hides an object from a load. *)
LateGraphs == {LateStore}
=============================================================================
