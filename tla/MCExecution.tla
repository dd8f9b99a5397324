----------------------------- MODULE MCExecution -----------------------------
(* Programs for TLC: those of tests/mta and tests/rc, cut down, and more.  *)
EXTENDS Execution

On(obj) == [op |-> "access", obj |-> obj]
Access == On("stack")
Lock(mutex) == [op |-> "lock", mutex |-> mutex]
Unlock(mutex) == [op |-> "unlock", mutex |-> mutex]
Ret == [op |-> "ret"]
Call(f) == [op |-> "call", to |-> f]
Fork(f, ptr) == [op |-> "fork", to |-> f, ptr |-> ptr]
Join(ptr) == [op |-> "join", ptr |-> ptr]
Branch(n) == [op |-> "branch", target |-> n]
Goto(n) == [op |-> "goto", target |-> n]
Loop(n, trip) == [op |-> "loop", target |-> n, trip |-> trip]

Scalar(v) == [var |-> v, local |-> FALSE, kind |-> "scalar", index |-> 0, step |-> 0]
Element(v, k) == [var |-> v, local |-> FALSE, kind |-> "element", index |-> k, step |-> 0]
Local(v) == [Scalar(v) EXCEPT !.local = TRUE]
Strided(v) == [var |-> v, local |-> FALSE, kind |-> "strided", index |-> 0, step |-> 1]

Work == <<Access, Ret>>
Main == [cxt |-> <<>>, fork |-> NoSite]
Thread(cxt) == [cxt |-> cxt, fork |-> cxt[Len(cxt)]]
Oracle(thread, cxt, at, with) == [thread |-> thread, cxt |-> cxt, at |-> at, with |-> with]

m(i) == <<"main", i>>
c(i) == <<"Call", i>>
f(i) == <<"foo1", i>>

\* succ_cxt_offspring_1.c
Offspring ==
    LET t1 == <<m(1), c(2)>>
        t2 == <<m(1), c(2), f(2)>>
    IN  [code |-> [main |-> <<Call("Call"), Access, Ret>>,
                   Call |-> <<Access, Fork("foo1", Scalar("t1")), Access,
                              Join(Scalar("t1")), Access, Ret>>,
                   foo1 |-> <<Access, Fork("foo2", Scalar("t2")), Access,
                              Join(Scalar("t2")), Access, Ret>>,
                   foo2 |-> Work],
         oracle |-> {Oracle(Thread(t2), t2, <<"foo2", 1>>, {NoSite, c(2), f(2)}),
                     Oracle(Thread(t1), t1, f(1), {NoSite, c(2)}),
                     Oracle(Thread(t1), t1, f(3), {NoSite, c(2), f(2)}),
                     Oracle(Thread(t1), t1, f(5), {NoSite, c(2)}),
                     Oracle(Main, <<m(1)>>, c(1), {NoSite}),
                     Oracle(Main, <<m(1)>>, c(3), {NoSite, c(2), f(2)}),
                     Oracle(Main, <<m(1)>>, c(5), {NoSite}),
                     Oracle(Main, <<>>, m(2), {NoSite})}]

\* succ_cxt_branch_1.c
Conditional ==
    [code |-> [main |-> <<Branch(4), Fork("foo", Scalar("t1")), Access, Access,
                          Join(Scalar("t1")), Access, Ret>>,
               foo |-> Work],
     oracle |-> {Oracle(Thread(<<m(2)>>), <<m(2)>>, <<"foo", 1>>, {NoSite, m(2)}),
                 Oracle(Main, <<>>, m(3), {NoSite, m(2)}),
                 Oracle(Main, <<>>, m(4), {NoSite, m(2)}),
                 Oracle(Main, <<>>, m(6), {NoSite})}]

\* The symmetric loops of succ_cxt_loop_2.c, or loops that join fewer threads
\* than are forked (unsound_cxt_loop_7.c).
Loops(forks, joins, after) ==
    [code |-> [main |-> <<Access, Loop(5, forks), Fork("foo", Strided("t")), Goto(2), Access,
                          Loop(9, joins), Join(Strided("t")), Goto(6), Access, Ret>>,
               foo |-> Work],
     oracle |-> {Oracle(Main, <<>>, m(1), {NoSite}),
                 Oracle(Main, <<>>, m(5), {NoSite, m(3)}),
                 Oracle(Main, <<>>, m(9), after)}]

\* succ_cxt_recur_4.c, with one thread.
Recursion ==
    LET t1 == <<m(1), c(2)>>
    IN  [code |-> [main |-> <<Call("Call"), Access, Ret>>,
                   Call |-> <<Branch(5), Fork("foo1", Scalar("t")), Access, Call("Call"),
                              Access, Ret>>,
                   foo1 |-> Work],
         oracle |-> {Oracle(Thread(t1), t1, f(1), {NoSite, c(2)}),
                     Oracle(Main, <<m(1)>>, c(3), {NoSite, c(2)}),
                     Oracle(Main, <<>>, m(2), {NoSite, c(2)})}]

\* succ_cxt_cand_1.c
Helpers ==
    LET t1 == <<m(2)>>
        aa == <<"aa", 1>>
        both == {NoSite, m(2)}
    IN  [code |-> [main |-> <<Call("gplus"), Fork("foo2", Scalar("t2")), Call("gplus"),
                              Join(Scalar("t2")), Call("gplus"), Ret>>,
                   foo2 |-> <<Access, Call("aa"), Call("gplus"), Ret>>,
                   gplus |-> <<Access, Call("aa"), Ret>>,
                   aa |-> Work],
         oracle |-> {Oracle(Main, <<m(1)>>, aa, {NoSite}),
                     Oracle(Main, <<m(3)>>, aa, both),
                     Oracle(Main, <<m(5)>>, aa, {NoSite}),
                     Oracle(Thread(t1), <<m(2), <<"foo2", 2>>>>, aa, both),
                     Oracle(Thread(t1), <<m(2), <<"foo2", 3>>>>, aa, both)}]

\* One thread is joined before the other is forked, or is on one of two paths.
OneByOne(join) ==
    [code |-> [main |-> <<Fork("foo", Scalar("t1"))>> \o join \o
                        <<Fork("bar", Element("t", 1)), Access, Join(Element("t", 1)),
                          Access, Ret>>,
               foo |-> Work, bar |-> Work],
     oracle |-> {}]

OnOnePath == <<Branch(5), Join(Scalar("t1")), Goto(8), Access, Access, Access>>

\* A fork in a function that is called in a loop.
ForkInHelper ==
    [code |-> [main |-> <<Loop(4, 2), Call("Call"), Goto(1), Access, Ret>>,
               Call |-> <<Fork("foo1", Scalar("t")), Ret>>,
               foo1 |-> Work],
     oracle |-> {}]

\* succ_cxt_sibling_7.c, cut down: a thread is joined that leaves one of its own
\* behind, before another is forked.
Orphan ==
    LET t1 == <<m(1)>>
        t2 == <<m(1), f(1)>>
        t4 == <<m(3)>>
    IN  [code |-> [main |-> <<Fork("foo1", Scalar("t1")), Join(Scalar("t1")),
                              Fork("foo2", Scalar("t4")), Access, Ret>>,
                   foo1 |-> <<Fork("ffoo1", Scalar("t2")), Access, Ret>>,
                   foo2 |-> Work, ffoo1 |-> Work],
         oracle |-> {Oracle(Thread(t1), t1, f(2), {NoSite, m(1), f(1)}),
                     Oracle(Thread(t2), t2, <<"ffoo1", 1>>, {NoSite, m(1), f(1)}),
                     Oracle(Thread(t4), t4, <<"foo2", 1>>, {NoSite, f(1), m(3)}),
                     Oracle(Main, <<>>, m(4), {NoSite, f(1), m(3)})}]

\* The same without the second fork.
LeftBehind ==
    [code |-> [main |-> <<Fork("foo1", Scalar("t1")), Join(Scalar("t1")), Access, Ret>>,
               foo1 |-> <<Fork("ffoo1", Scalar("t2")), Access, Ret>>,
               ffoo1 |-> Work],
     oracle |-> {Oracle(Main, <<>>, m(3), {NoSite, f(1)})}]

\* succ_cxt_join_1.c: the fork and the join are in callees.
ForkAndJoinInCallees ==
    LET cxt == <<m(1), <<"Create", 1>>>>
    IN  [code |-> [main |-> <<Call("Create"), Access, Call("Join"), Access, Ret>>,
                   Create |-> <<Fork("foo1", Scalar("t1")), Access, Ret>>,
                   Join |-> <<Access, Join(Scalar("t1")), Access, Ret>>,
                   foo1 |-> Work],
         oracle |-> {Oracle(Thread(cxt), cxt, f(1), {NoSite, <<"Create", 1>>}),
                     Oracle(Main, <<m(3)>>, <<"Join", 1>>, {NoSite, <<"Create", 1>>}),
                     Oracle(Main, <<m(3)>>, <<"Join", 3>>, {NoSite}),
                     Oracle(Main, <<>>, m(4), {NoSite})}]

\* A routine that forks itself, and a function that forks called twice.
SpawnerCalls ==
    [code |-> [main |-> <<Call("Call"), Fork("foo1", Scalar("t1")), Call("Call"), Access, Ret>>,
               Call |-> <<Fork("bar", Scalar("t2")), Access, Join(Scalar("t2")), Ret>>,
               foo1 |-> <<Branch(3), Fork("foo1", Scalar("t3")), Access, Ret>>,
               bar |-> Work],
     oracle |-> {}]

\* A thread that is forked in a loop forks and joins two threads in turn.
SharedParent ==
    [code |-> [main |-> <<Loop(4, 2), Fork("foo1", Strided("t")), Goto(1), Ret>>,
               foo1 |-> <<Fork("foo", Local("t1")), Join(Local("t1")),
                          Fork("bar", Local("t2")), Ret>>,
               foo |-> Work, bar |-> Work],
     oracle |-> {}]

\* succ_cxt_loop_1.c: threads that are forked and joined in symmetric loops fork
\* and join threads.
Nested ==
    LET t1 == <<m(2)>>
        t2 == <<m(2), f(2)>>
        all == {NoSite, m(2), f(2)}
    IN  [code |-> [main |-> <<Loop(4, 2), Fork("foo1", Strided("t")), Goto(1), Access,
                              Loop(8, 2), Join(Strided("t")), Goto(5), Access, Ret>>,
                   foo1 |-> <<Access, Fork("foo2", Local("t2")), Access,
                              Join(Local("t2")), Access, Ret>>,
                   foo2 |-> Work],
         oracle |-> {Oracle(Main, <<>>, m(4), all), Oracle(Main, <<>>, m(8), {NoSite}),
                     Oracle(Thread(t1), t1, f(1), all), Oracle(Thread(t1), t1, f(3), all),
                     Oracle(Thread(t1), t1, f(5), all),
                     Oracle(Thread(t2), t2, <<"foo2", 1>>, all)}]

\* The loop of the join may be left early.
Break ==
    [code |-> [main |-> <<Loop(4, 2), Fork("foo", Strided("t")), Goto(1), Access,
                          Loop(9, 2), Join(Strided("t")), Branch(9), Goto(5), Access, Ret>>,
               foo |-> Work],
     oracle |-> {}]

\* Two threads with one routine, and a helper they both call.
Swapped ==
    [code |-> [main |-> <<Fork("foo", Element("t", 0)), Fork("foo", Element("t", 1)), Access,
                          Join(Element("t", 1)), Access, Join(Element("t", 0)), Access, Ret>>,
               foo |-> <<Access, Call("aa"), Ret>>, aa |-> <<Access, Access, Ret>>],
     oracle |-> {}]

\* Fork and join in every round of a recursion.
JoinInRecursion ==
    [code |-> [main |-> <<Call("Call"), Access, Ret>>,
               Call |-> <<Branch(6), Fork("foo", Scalar("t")), Join(Scalar("t")), Access,
                          Call("Call"), Ret>>,
               foo |-> Work],
     oracle |-> {}]

\* A thread that is joined by its sibling.
JoinedBySibling ==
    [code |-> [main |-> <<Fork("foo", Scalar("t1")), Fork("bar", Element("t", 1)), Access,
                          Join(Element("t", 1)), Access, Ret>>,
               foo |-> Work, bar |-> <<Access, Join(Scalar("t1")), Access, Ret>>],
     oracle |-> {}]

\* A loop forks threads whose handles all go to one variable; one is joined.
OneHandle ==
    [code |-> [main |-> <<Loop(4, 2), Fork("foo", Scalar("t1")), Goto(1),
                          Join(Scalar("t1")), Access, Ret>>,
               foo |-> Work],
     oracle |-> {}]

-----------------------------------------------------------------------------
(* Programs with locks.  locks says what tests/rc says (RC_PROTECTED or    *)
(* RC_RACE) of pairs of statements.                                        *)

G == On("g")
Two(s1, s2, are) == [pair |-> <<s1, s2>>, protected |-> are]

\* main forks foo, and then does what is given.
WithFoo(main, foo, locks) ==
    [code |-> [main |-> <<Fork("foo", Scalar("t"))>> \o main \o <<Ret>>, foo |-> foo],
     oracle |-> {}, locks |-> locks]

\* lock_5.c and lock_4.c: nested locks, different locks.
LockTwice ==
    WithFoo(<<Lock("l1"), G, Unlock("l1"), Access>>,
            <<Access, Lock("l1"), Lock("l2"), Unlock("l2"), G, Unlock("l1"), G, Ret>>,
            {Two(m(3), <<"foo", 5>>, TRUE), Two(m(3), <<"foo", 7>>, FALSE)})
LockAnother ==
    WithFoo(<<Lock("l2"), G, Unlock("l2"), Access>>,
            <<Access, Lock("l1"), G, Unlock("l1"), Ret>>, {Two(m(3), <<"foo", 3>>, FALSE)})

\* lock_6.c: a lock on one of two paths, before an unlock on both, which is in the
\* last block or before it.
LockMaybe(end) ==
    WithFoo(<<Lock("l"), G, Unlock("l")>>,
            <<Branch(4), Lock("l"), Goto(4), G, Unlock("l")>> \o end,
            {Two(m(3), <<"foo", 4>>, FALSE)})

\* lock_interprocedural_4.c: the locks and an access are in wrappers.
Wrapped ==
    LET main == <<Call("lock"), G, Call("unlock"), G>>
        foo == <<Call("lock"), Call("access"), Call("unlock"), Ret>>
        p == WithFoo(main, foo, {Two(m(3), <<"access", 1>>, TRUE)})
    IN  [p EXCEPT !.code = @ @@ [lock |-> <<Lock("l"), Ret>>, unlock |-> <<Unlock("l"), Ret>>,
                                 access |-> <<G, Ret>>]]

\* lock_interprocedural_5.c and _6.c: a helper that is called with the lock, and
\* with it again or without; main has an access too.
Helped(bar, are) ==
    [code |-> [main |-> <<Fork("foo", Scalar("t1")), Fork("bar", Scalar("t2")),
                          Lock("l"), G, Unlock("l"), Ret>>,
               foo |-> <<Lock("l"), Call("access"), Unlock("l"), Ret>>, bar |-> bar,
               access |-> <<G, Ret>>],
     oracle |-> {}, locks |-> {Two(<<"access", 1>>, s, are) : s \in {<<"access", 1>>, m(4)}}]

\* A path that locks meets a longer one that does not.
LongWay ==
    WithFoo(<<Call("lock"), G, Unlock("l")>>,
            <<Branch(4), Call("lock"), Goto(10), Access, Access, Access, Access, Access, Access,
              G, Branch(12), Unlock("l"), Ret>>, {})

\* Locks in a loop, and in a recursion; a routine is called and forked.
Rounds ==
    WithFoo(<<Loop(7, 0), Call("lock"), G, Unlock("l"), Goto(2), Call("foo")>>,
            <<Lock("l"), Branch(4), Access, G, Unlock("l"), Branch(8), Call("foo"), Ret>>, {})

\* lock_15.c: a helper that is called with the lock and then without it.
HelpedAgain ==
    LET p == WithFoo(<<Lock("l"), G, Unlock("l")>>,
                     <<Lock("l"), Call("access"), Unlock("l"), Call("access"), Ret>>, {})
    IN  [p EXCEPT !.code = @ @@ [access |-> <<G, Ret>>]]

\* A lock on one of two paths of the same length.
LockElse ==
    WithFoo(<<Lock("l"), G, Unlock("l")>>,
            <<Branch(4), Access, Goto(6), Lock("l"), Goto(6), G, Branch(9), Unlock("l"), Ret>>, {})

\* A thread is forked by one that holds a lock.
ForkLocked ==
    [code |-> [main |-> <<Lock("l"), Fork("foo", Scalar("t")), G, Unlock("l"), Ret>>,
               foo |-> <<Call("access"), Ret>>, access |-> <<G, Ret>>],
     oracle |-> {}, locks |-> {}]

\* An unlock on one of two paths that meet again.
UnlockEarly ==
    WithFoo(<<Lock("l"), G, Unlock("l")>>,
            <<Lock("l"), Branch(4), Unlock("l"), G, Branch(7), Unlock("l"), Ret>>, {})

\* A function that forks calls a helper first, on one path, and is called twice.
HelpFirst ==
    [code |-> [main |-> <<Call("Call"), Call("Call"), Ret>>,
               Call |-> <<Branch(3), Call("aa"), Fork("foo", Scalar("t")), Ret>>,
               aa |-> Work, foo |-> Work],
     oracle |-> {}, locks |-> {}]

\* A helper that neither forks nor joins calls a function that is forked elsewhere.
RoutineCalled ==
    [code |-> [main |-> <<Fork("foo", Scalar("t")), Call("h"), Call("foo"), Ret>>,
               h |-> <<Access, Call("foo"), Access, Ret>>,
               foo |-> Work],
     oracle |-> {}, locks |-> {}]

\* Two accesses, without a lock.
TwoAccesses == WithFoo(<<G>>, <<G, Ret>>, {})

LockPrograms ==
    LET lock == [lock |-> <<Lock("l"), Ret>>]
        With(p) == [p EXCEPT !.code = @ @@ lock]
    IN  [twice |-> LockTwice, another |-> LockAnother, wrapped |-> Wrapped,
         onepath |-> LockMaybe(<<Ret>>), before |-> LockMaybe(<<Branch(8), Access, Ret>>),
         both |-> Helped(<<Lock("l"), Call("access"), Unlock("l"), Ret>>, TRUE),
         one |-> Helped(<<Access, Call("access"), Ret>>, FALSE),
         longway |-> With(LongWay), rounds |-> With(Rounds)]

ForkPrograms ==
    [offspring |-> Offspring, conditional |-> Conditional,
     symmetric |-> Loops(2, 2, {NoSite}), fewer |-> Loops(2, 1, {NoSite, m(3)}),
     recursion |-> Recursion, helpers |-> Helpers,
     joined |-> OneByOne(<<Join(Scalar("t1"))>>), maybe |-> OneByOne(OnOnePath),
     helper |-> ForkInHelper, left |-> LeftBehind, callees |-> ForkAndJoinInCallees,
     spawners |-> SpawnerCalls, shared |-> SharedParent, nested |-> Nested,
     break |-> Break, swapped |-> Swapped, rejoin |-> JoinInRecursion,
     sibling |-> JoinedBySibling]

WithoutLocks(programs) == [p \in DOMAIN programs |-> programs[p] @@ [locks |-> {}]]

Sound == WithoutLocks(ForkPrograms) @@ LockPrograms

\* Not sound: the first three for ProtectedExclude, like HelpedAgain, the next
\* for ParallelFunsCovered, and the last for CacheIsExact.
LeftOut == [else |-> LockElse, forked |-> ForkLocked, early |-> UnlockEarly,
            first |-> HelpFirst, called |-> RoutineCalled]

HelpedAgainOnly == [again |-> HelpedAgain]
TwoAccessesOnly == [two |-> TwoAccesses]
OrphanOnly == WithoutLocks([orphan |-> Orphan])
OneHandleOnly == WithoutLocks([onehandle |-> OneHandle])
=============================================================================
