------------------------------- MODULE RunProofs -------------------------------
(***************************************************************************)
(* What is true of the runs of every program: two threads of a run have    *)
(* one node only if the tree marks it (SharedAreMarked); the functions two *)
(* threads are in are in the procedure creation graph (CoarserThanRuns);   *)
(* without joins, what they are about to execute is reported as parallel   *)
(* (ForksAreReported).                                                     *)
(*                                                                         *)
(* ExecuteEffect reduces the statements to four kinds of steps of one      *)
(* thread: it goes on in a frame, enters a function, leaves one, or forks. *)
(***************************************************************************)
EXTENDS ExecutionProofs

-----------------------------------------------------------------------------
(* What a step of a run does to the stacks.                                *)

Depth(i) == Len(threads[i].stack)

\* A step of thread i leaves the other threads alone.
Untouched(i) ==
    \A k \in DOMAIN threads :
        /\ k \in DOMAIN threads' /\ (k # i => threads'[k] = threads[k])
        /\ threads'[k].cxt = threads[k].cxt /\ threads'[k].fork = threads[k].fork
        /\ threads'[k].parent = threads[k].parent

\* It leaves the n frames at the bottom of its stack alone.
Below(i, n) == \A d \in 1..n : threads'[i].stack[d] = threads[i].stack[d]

MovesTo(i, n, s) ==
    /\ threads'[i].stack[n].at = s
    /\ threads'[i].stack[n].cxt = threads[i].stack[n].cxt

Goes(i) ==
    /\ DOMAIN threads' = DOMAIN threads /\ Op(Top(i).at) \notin {"call", "fork", "ret"}
    /\ Depth(i)' = Depth(i) /\ Below(i, Depth(i) - 1)
    /\ \E s \in Succs(Top(i).at) : MovesTo(i, Depth(i), s)

Enters(i) ==
    /\ DOMAIN threads' = DOMAIN threads /\ Op(Top(i).at) = "call"
    /\ Depth(i)' = Depth(i) + 1 /\ Below(i, Depth(i))
    /\ threads'[i].stack[Depth(i) + 1].at = Entry(Callee(Top(i).at))
    /\ threads'[i].stack[Depth(i) + 1].cxt = pushCxt(Top(i).cxt, Top(i).at)

Leaves(i) ==
    /\ DOMAIN threads' = DOMAIN threads /\ Op(Top(i).at) = "ret"
    /\ Depth(i)' = Depth(i) - 1 /\ Below(i, Depth(i) - 2)
    /\ Depth(i) > 1 => MovesTo(i, Depth(i) - 1, After(threads[i].stack[Depth(i) - 1].at))

\* The thread with number k begins.
Forks(i, k) ==
    /\ k = Len(threads) + 1 /\ DOMAIN threads' = DOMAIN threads \cup {k}
    /\ Op(Top(i).at) = "fork"
    /\ Depth(i)' = Depth(i) /\ Below(i, Depth(i) - 1)
    /\ MovesTo(i, Depth(i), After(Top(i).at))
    /\ threads'[k].cxt = pushCxt(Top(i).cxt, Top(i).at)
    /\ threads'[k].fork = Top(i).at /\ threads'[k].parent = i
    /\ Len(threads'[k].stack) = 1
    /\ threads'[k].stack[1].at = Entry(Callee(Top(i).at))
    /\ threads'[k].stack[1].cxt = pushCxt(Top(i).cxt, Top(i).at)

LEMMA NewTop ==
    ASSUME NEW st, IsStack(st), st # <<>>, NEW f
    PROVE  LET up == Append(Front(st), f)
           IN  /\ Len(up) = Len(st) /\ up[Len(st)] = f
               /\ \A d \in 1..(Len(st) - 1) : up[d] = st[d]
<1>1. /\ IsList(Front(st)) /\ Len(Front(st)) = Len(st) - 1
      /\ \A d \in DOMAIN Front(st) : Front(st)[d] = st[d]
  BY ListFront DEF IsStack
<1> DEFINE low == Front(st)
<1> HIDE DEF low
<1>2. Len(low) \in Nat /\ DOMAIN low = 1..Len(low)
  BY <1>1, ListIndex DEF low
<1>3. /\ Len(Append(low, f)) = Len(low) + 1 /\ Append(low, f)[Len(low) + 1] = f
      /\ \A d \in DOMAIN low : Append(low, f)[d] = low[d]
  BY <1>1, ListGrows DEF low
<1>4. Len(st) \in Nat
  BY ListIndex DEF IsStack
<1> QED  BY <1>1, <1>2, <1>3, <1>4 DEF low

\* The thread keeps its stack but for the top of it.
LEMMA TopReplaced ==
    ASSUME RunInv, NEW i \in Running, NEW f,
           threads' = [threads EXCEPT ![i].stack = Append(Front(threads[i].stack), f)]
    PROVE  /\ Untouched(i) /\ DOMAIN threads' = DOMAIN threads
           /\ Depth(i)' = Depth(i) /\ Below(i, Depth(i) - 1)
           /\ threads'[i].stack[Depth(i)] = f
           /\ Top(i) = threads[i].stack[Depth(i)]
<1>1. i \in DOMAIN threads /\ IsStack(threads[i].stack) /\ threads[i].stack # <<>>
      /\ Top(i) = Last(threads[i].stack)
  BY TopFacts
<1> DEFINE up == Append(Front(threads[i].stack), f)
<1>2. Len(up) = Depth(i) /\ up[Depth(i)] = f
      /\ \A d \in 1..(Depth(i) - 1) : up[d] = threads[i].stack[d]
  BY <1>1, NewTop DEF Depth
<1>3. \A k \in DOMAIN threads : threads[k] =
        [stack |-> threads[k].stack, cxt |-> threads[k].cxt, fork |-> threads[k].fork,
         parent |-> threads[k].parent]
  BY DEF RunInv, IsThread
<1> HIDE DEF up
<1>4. threads' = [threads EXCEPT ![i].stack = up]
  BY DEF up
<1>5. /\ DOMAIN threads' = DOMAIN threads /\ threads'[i] = [threads[i] EXCEPT !.stack = up]
      /\ \A k \in DOMAIN threads : k # i => threads'[k] = threads[k]
  BY <1>1, <1>4
<1>6. threads'[i].stack = up /\ threads'[i].cxt = threads[i].cxt
      /\ threads'[i].fork = threads[i].fork /\ threads'[i].parent = threads[i].parent
  BY <1>1, <1>3, <1>5
<1>7. Untouched(i)
  BY <1>5, <1>6 DEF Untouched
<1>8. Top(i) = threads[i].stack[Depth(i)]
  BY <1>1, ListIndex DEF IsStack, Depth
<1> QED  BY <1>2, <1>5, <1>6, <1>7, <1>8 DEF Depth, Below

LEMMA GoToEffect ==
    ASSUME RunInv, NEW i \in Running, NEW s \in Succs(Top(i).at), threads' = GoTo(i, s),
           Op(Top(i).at) \notin {"call", "fork", "ret"}
    PROVE  Untouched(i) /\ Goes(i)
<1> DEFINE f == [Last(threads[i].stack) EXCEPT !.at = s]
<1>1. threads' = [threads EXCEPT ![i].stack = Append(Front(threads[i].stack), f)]
  BY DEF GoTo
<1>2. IsFrame(Top(i)) /\ Top(i) = Last(threads[i].stack)
  BY TopFacts
<1>3. f.at = s /\ f.cxt = Top(i).cxt
  BY <1>2 DEF IsFrame
<1> HIDE DEF f
<1> QED  BY <1>1, <1>3, TopReplaced DEF Goes, MovesTo

LEMMA AfterIsSucc ==
    ASSUME NEW s, Op(s) \notin {"ret", "goto"} PROVE After(s) \in Succs(s)
  BY DEF Succs, After

LEMMA LoopEffect ==
    ASSUME RunInv, NEW i, ExecLoop(i) PROVE Untouched(i) /\ Goes(i)
<1> DEFINE h == Top(i).at
           Set(s, m) == [threads EXCEPT ![i].stack =
                            Append(Front(@), [Last(@) EXCEPT !.at = s, !.rounds[h] = m])]
<1>1. Executing(i, {"loop"}) /\ \E m : threads' = Set(After(h), m)
                                       \/ threads' = Set(<<FunOf(h), Stmt(h).target>>, m)
  BY DEF ExecLoop
<1>2. i \in Running /\ Op(h) = "loop"
  BY <1>1 DEF Executing
<1>3. PICK m : threads' = Set(After(h), m) \/ threads' = Set(<<FunOf(h), Stmt(h).target>>, m)
  BY <1>1
<1>4. PICK s \in Succs(h) : threads' = Set(s, m)
  BY <1>2, <1>3 DEF Succs, After
<1> DEFINE r == [Last(threads[i].stack).rounds EXCEPT ![h] = m]
           f == [Last(threads[i].stack) EXCEPT !.at = s, !.rounds = r]
<1>5. IsFrame(Top(i)) /\ Top(i) = Last(threads[i].stack)
  BY <1>2, TopFacts
<1>6. f = [Last(threads[i].stack) EXCEPT !.at = s, !.rounds[h] = m]
  BY <1>5 DEF IsFrame
<1>7. threads' = [threads EXCEPT ![i].stack = Append(Front(threads[i].stack), f)]
  BY <1>4, <1>6
<1>8. f.at = s /\ f.cxt = Top(i).cxt
  <2> HIDE DEF r
  <2> QED  BY <1>5 DEF IsFrame
<1> HIDE DEF f, h
<1> QED  BY <1>2, <1>4, <1>7, <1>8, TopReplaced DEF Goes, MovesTo, h

LEMMA CallEffect ==
    ASSUME RunInv, NEW i, ExecCall(i) PROVE Untouched(i) /\ Enters(i)
<1> DEFINE s == Top(i).at
           f == Frame(Entry(Callee(s)), pushCxt(Top(i).cxt, s))
           up == Append(threads[i].stack, f)
<1>1. Executing(i, {"call"}) /\ threads' = [threads EXCEPT ![i].stack = up]
  BY DEF ExecCall
<1>2. i \in Running /\ Op(s) = "call"
  BY <1>1 DEF Executing
<1>3. i \in DOMAIN threads /\ IsStack(threads[i].stack)
  BY <1>2, TopFacts
<1>4. f.at = Entry(Callee(s)) /\ f.cxt = pushCxt(Top(i).cxt, s)
  BY DEF Frame
<1> HIDE DEF f, s
<1>5. Len(up) = Depth(i) + 1 /\ up[Depth(i) + 1] = f /\ Depth(i) \in Nat
      /\ \A d \in 1..Depth(i) : up[d] = threads[i].stack[d]
  BY <1>3, ListGrows, ListIndex DEF IsStack, Depth
<1> HIDE DEF up
<1>6. \A k \in DOMAIN threads : threads[k] =
        [stack |-> threads[k].stack, cxt |-> threads[k].cxt, fork |-> threads[k].fork,
         parent |-> threads[k].parent]
  BY DEF RunInv, IsThread
<1>7. /\ DOMAIN threads' = DOMAIN threads /\ threads'[i] = [threads[i] EXCEPT !.stack = up]
      /\ \A k \in DOMAIN threads : k # i => threads'[k] = threads[k]
  BY <1>1, <1>3
<1>8. threads'[i].stack = up /\ threads'[i].cxt = threads[i].cxt
      /\ threads'[i].fork = threads[i].fork /\ threads'[i].parent = threads[i].parent
  BY <1>3, <1>6, <1>7
<1>9. Untouched(i)
  BY <1>7, <1>8 DEF Untouched
<1> QED  BY <1>2, <1>4, <1>5, <1>7, <1>8, <1>9 DEF Enters, Depth, Below, s

LEMMA RetEffect ==
    ASSUME RunInv, NEW i, ExecRet(i) PROVE Untouched(i) /\ Leaves(i)
<1> DEFINE old == threads[i].stack
           low == Front(old)
           up == IF low = <<>> THEN <<>>
                 ELSE Append(Front(low), [Last(low) EXCEPT !.at = After(@)])
<1>1. Executing(i, {"ret"}) /\ threads' = [threads EXCEPT ![i].stack = up]
  BY DEF ExecRet
<1>2. i \in Running /\ Op(Top(i).at) = "ret"
  BY <1>1 DEF Executing
<1>3. i \in DOMAIN threads /\ IsStack(old) /\ old # <<>>
  BY <1>2, TopFacts
<1>4. IsStack(low) /\ Len(low) = Depth(i) - 1 /\ Depth(i) \in Nat
      /\ \A d \in 1..(Depth(i) - 1) : low[d] = old[d]
  <2>1. IsList(low) /\ Len(low) = Depth(i) - 1 /\ \A d \in DOMAIN low : low[d] = old[d]
    BY <1>3, ListFront DEF IsStack, Depth
  <2>2. DOMAIN low = 1..Len(low) /\ Depth(i) \in Nat
    BY <1>3, <2>1, ListIndex DEF IsStack, Depth
  <2> QED  BY <1>3, <2>1, <2>2, StackTop
<1>5. \A k \in DOMAIN threads : threads[k] =
        [stack |-> threads[k].stack, cxt |-> threads[k].cxt, fork |-> threads[k].fork,
         parent |-> threads[k].parent]
  BY DEF RunInv, IsThread
<1>6. /\ Len(up) = Depth(i) - 1 /\ \A d \in 1..(Depth(i) - 2) : up[d] = old[d]
      /\ Depth(i) > 1 => up[Depth(i) - 1].at = After(old[Depth(i) - 1].at)
                         /\ up[Depth(i) - 1].cxt = old[Depth(i) - 1].cxt
  <2> HIDE DEF low
  <2>1. CASE low = <<>>
    <3>1. Len(low) = 0 /\ up = <<>> /\ Len(up) = 0
      BY <2>1
    <3> HIDE DEF up
    <3> QED  BY <1>4, <3>1
  <2>2. CASE low # <<>>
    <3> DEFINE g == [Last(low) EXCEPT !.at = After(Last(low).at)]
    <3>1. up = Append(Front(low), g)
      BY <2>2
    <3>2. Len(low) \in DOMAIN low /\ Last(low) = low[Len(low)] /\ DOMAIN low = 1..Len(low)
      BY <1>4, <2>2, ListIndex DEF IsStack
    <3>3. Last(low) = old[Depth(i) - 1]
      BY <1>4, <3>2
    <3>4. IsFrame(Last(low))
      BY <1>4, <2>2, StackTop
    <3>5. g.at = After(Last(low).at) /\ g.cxt = Last(low).cxt
      BY <3>4 DEF IsFrame
    <3> HIDE DEF g, up
    <3>6. Len(up) = Len(low) /\ up[Len(low)] = g /\ \A d \in 1..(Len(low) - 1) : up[d] = low[d]
      BY <1>4, <2>2, <3>1, NewTop
    <3> QED  BY <1>4, <3>3, <3>5, <3>6
  <2> QED  BY <2>1, <2>2
<1> HIDE DEF up, low
<1>7. /\ DOMAIN threads' = DOMAIN threads /\ threads'[i] = [threads[i] EXCEPT !.stack = up]
      /\ \A k \in DOMAIN threads : k # i => threads'[k] = threads[k]
  BY <1>1, <1>3
<1>8. threads'[i].stack = up /\ threads'[i].cxt = threads[i].cxt
      /\ threads'[i].fork = threads[i].fork /\ threads'[i].parent = threads[i].parent
  BY <1>3, <1>5, <1>7
<1>9. Untouched(i)
  BY <1>7, <1>8 DEF Untouched
<1> QED  BY <1>2, <1>4, <1>6, <1>7, <1>8, <1>9 DEF Leaves, Depth, Below, MovesTo

LEMMA ForkEffect ==
    ASSUME RunInv, NEW i, ExecFork(i) PROVE Untouched(i) /\ \E k : Forks(i, k)
<1> DEFINE s == Top(i).at
           cxt == pushCxt(Top(i).cxt, s)
           new == NewThread(Entry(Callee(s)), cxt, s, i)
           f == [Last(threads[i].stack) EXCEPT !.at = After(s)]
           up == Append(Front(threads[i].stack), f)
           ts == [threads EXCEPT ![i].stack = up]
           k == Len(threads) + 1
<1>1. Executing(i, {"fork"}) /\ threads' = Append(ts, new)
  BY DEF ExecFork, GoTo
<1>2. i \in Running /\ Op(s) = "fork"
  BY <1>1 DEF Executing
<1>3. i \in DOMAIN threads /\ IsStack(threads[i].stack) /\ threads[i].stack # <<>>
      /\ IsFrame(Top(i)) /\ Top(i) = Last(threads[i].stack)
  BY <1>2, TopFacts
<1>4. f.at = After(s) /\ f.cxt = Top(i).cxt
  BY <1>3 DEF IsFrame
<1>5. Top(i) = threads[i].stack[Depth(i)]
  BY <1>3, ListIndex DEF IsStack, Depth
<1>6. /\ new.cxt = cxt /\ new.fork = s /\ new.parent = i /\ Len(new.stack) = 1
      /\ new.stack[1].at = Entry(Callee(s)) /\ new.stack[1].cxt = cxt
  BY DEF NewThread, Frame
<1> HIDE DEF f, new
<1>7. Len(up) = Depth(i) /\ up[Depth(i)] = f
      /\ \A d \in 1..(Depth(i) - 1) : up[d] = threads[i].stack[d]
  BY <1>3, NewTop DEF Depth
<1> HIDE DEF up
<1>8. \A j \in DOMAIN threads : threads[j] =
        [stack |-> threads[j].stack, cxt |-> threads[j].cxt, fork |-> threads[j].fork,
         parent |-> threads[j].parent]
  BY DEF RunInv, IsThread
<1>9. DOMAIN threads = 1..Len(threads) /\ Len(threads) \in Nat
  BY ListIndex DEF RunInv
<1>10. /\ DOMAIN ts = DOMAIN threads /\ ts[i] = [threads[i] EXCEPT !.stack = up]
       /\ \A j \in DOMAIN threads : j # i => ts[j] = threads[j]
  BY <1>3
<1>11. ts[i].stack = up /\ ts[i].cxt = threads[i].cxt
       /\ ts[i].fork = threads[i].fork /\ ts[i].parent = threads[i].parent
  BY <1>3, <1>8, <1>10
<1>12. IsList(ts) /\ Len(ts) = Len(threads)
  <2>1. ts \in [1..Len(threads) -> ToSet(ts)]
    BY <1>9 DEF ToSet
  <2> HIDE DEF ts
  <2> QED  BY <1>9, <2>1, SeqDef, LenProperties DEF IsList
<1> HIDE DEF ts
<1>13. DOMAIN threads' = DOMAIN threads \cup {k} /\ threads'[k] = new
       /\ \A j \in DOMAIN threads : threads'[j] = ts[j]
  BY <1>1, <1>10, <1>12, ListGrows
<1>14. Untouched(i)
  BY <1>10, <1>11, <1>13 DEF Untouched
<1>15. Depth(i)' = Depth(i) /\ Below(i, Depth(i) - 1) /\ MovesTo(i, Depth(i), After(s))
  BY <1>3, <1>4, <1>5, <1>7, <1>11, <1>13 DEF Depth, Below, MovesTo
<1> HIDE DEF cxt, s
<1>16. Forks(i, k)
  BY <1>2, <1>6, <1>13, <1>15 DEF Forks, cxt, s
<1> QED  BY <1>14, <1>16

\* The kinds of steps of a thread.
Runs(i) == Goes(i) \/ Enters(i) \/ Leaves(i) \/ \E k : Forks(i, k)

LEMMA ExecuteEffect ==
    ASSUME RunInv, Execute
    PROVE  \E i \in Running : Untouched(i) /\ Runs(i) /\ stage = "run"
<1>1. PICK i \in DOMAIN threads :
        \/ ExecAccess(i) \/ ExecJump(i) \/ ExecLoop(i) \/ ExecCall(i)
        \/ ExecRet(i) \/ ExecFork(i) \/ ExecJoin(i) \/ ExecLock(i) \/ ExecUnlock(i)
  BY DEF Execute
<1>2. i \in Running /\ stage = "run"
  BY <1>1 DEF ExecAccess, ExecJump, ExecLoop, ExecCall, ExecRet, ExecFork, ExecJoin, ExecLock,
              ExecUnlock, Executing
<1>3. CASE ExecAccess(i) \/ ExecJoin(i) \/ ExecLock(i) \/ ExecUnlock(i)
  <2>1. threads' = GoTo(i, After(Top(i).at))
        /\ Op(Top(i).at) \notin {"call", "fork", "ret", "goto"}
    BY <1>3 DEF ExecAccess, ExecJoin, ExecLock, ExecUnlock, Executing
  <2> QED  BY <1>2, <2>1, AfterIsSucc, GoToEffect DEF Runs
<1>4. CASE ExecJump(i)
  BY <1>2, <1>4, GoToEffect DEF ExecJump, Executing, Runs
<1> QED  BY <1>1, <1>2, <1>3, <1>4, LoopEffect, CallEffect, RetEffect, ForkEffect DEF Runs

-----------------------------------------------------------------------------
(* Threads of one node.                                                    *)

\* Neither the fork s nor what it is executed through can be executed again without
\* what it is executed through being executed again.
Once(s) == ~isInLoopInstruction(s) /\ ~isInRecursion(s)

\* The functions s is executed in, or through.
Zone(s) == {g \in Funs : g = FunOf(s) \/ Reaches(g, FunOf(s))}
InZone(s, i, d) == FunOf(threads[i].stack[d].at) \in Zone(s)

Frames(i) == DOMAIN threads[i].stack

\* The contexts under which something on the way to s has begun.
Begun(s) ==
    {threads[i].cxt : i \in {k \in DOMAIN threads : threads[k].fork \in SitesAbove(s)}}
    \cup UNION {{threads[i].stack[d].cxt : d \in {e \in Frames(i) : InZone(s, i, e)}} :
                    i \in DOMAIN threads}

Extends(u, v) == Len(v) < Len(u) /\ \A k \in 1..Len(v) : u[k] = v[k]

\* Frame d of thread i has gone through x.
Passed(i, d, x) ==
    \/ threads[i].stack[d].at[2] > x[2]
    \/ d # Depth(i) /\ threads[i].stack[d].at = x

\* A frame has passed the site by which a context continues its own.
HasPassed(s, i, d, u) ==
    LET g == threads[i].stack[d]
    IN  InZone(s, i, d) /\ Extends(u, g.cxt) /\ FunOf(u[Len(g.cxt) + 1]) = FunOf(g.at)
            => Passed(i, d, u[Len(g.cxt) + 1])

SameCall(i, d, j, e) ==
    /\ threads[i].stack[d].cxt = threads[j].stack[e].cxt
    /\ FunOf(threads[i].stack[d].at) = FunOf(threads[j].stack[e].at)

\* What is on the way to s is under a context once.
OnceInv(s) ==
    /\ \A u \in Begun(s) : u \in Seq(SitesAbove(s))
    /\ \A i \in DOMAIN threads : \A d \in Frames(i) : \A u \in Begun(s) : HasPassed(s, i, d, u)
    /\ \A i, j \in DOMAIN threads : \A d \in Frames(i), e \in Frames(j) :
        InZone(s, i, d) /\ SameCall(i, d, j, e) => i = j /\ d = e
    /\ \A i, j \in DOMAIN threads :
        /\ threads[i].fork \in SitesAbove(s) /\ threads[j].fork \in SitesAbove(s)
        /\ threads[i].cxt = threads[j].cxt
        => i = j

\* A jump back is a turn of a loop.
JumpsBackAreLoops ==
    \A s \in Stmts : \A t \in Succs(s) :
        t[2] <= s[2] => \E h \in Sites({"loop"}) : s \in LoopBody(h) /\ t \in LoopBody(h)

-----------------------------------------------------------------------------

LEMMA OnceFacts ==
    ASSUME ProgInv, NEW s \in Sites({"fork"}), Once(s)
    PROVE  /\ SitesAbove(s) \subseteq CallSites /\ s \in SitesAbove(s)
           /\ \A x \in CallSites : Callee(x) \in Zone(s) => x \in SitesAbove(s)
           /\ \A x \in SitesAbove(s) : /\ FunOf(x) \in Zone(s) /\ getLoop(x) = NoSite
                                       /\ \A c : pushCxt(c, x) = Append(c, x)
<1>1. s \in CallSites /\ SitesAbove(s) = {s} \cup {c \in CallSites :
                        Callee(c) = FunOf(s) \/ Reaches(Callee(c), FunOf(s))}
  BY DEF SitesAbove, CallSites, Sites
<1>2. \A x \in CallSites : Callee(x) \in Zone(s) => x \in SitesAbove(s)
  BY <1>1 DEF Zone
<1>3. ASSUME NEW x \in SitesAbove(s)
      PROVE  FunOf(x) \in Zone(s) /\ getLoop(x) = NoSite /\ \A c : pushCxt(c, x) = Append(c, x)
  <2>1. x \in CallSites /\ FunOf(x) \in Funs /\ Reaches(FunOf(x), Callee(x))
    BY <1>1, StmtFacts, ReachFacts DEF ProgInv
  <2>2. FunOf(x) = FunOf(s) \/ Reaches(FunOf(x), FunOf(s))
    BY <1>1, <2>1, ReachFacts
  <2>3. getLoop(x) = NoSite /\ ~Reaches(FunOf(x), FunOf(x))
    BY DEF Once, isInLoopInstruction, isInRecursion, isInCycle
  <2>4. ~inSameCallGraphSCC(FunOf(x), Callee(x))
    BY <2>1, <2>3, ReachFacts DEF inSameCallGraphSCC
  <2>5. isCandidateFun(FunOf(x))
    <3>1. s \in Sites({"fork", "join"}) /\ FunOf(s) \in Funs
      BY <1>1, StmtFacts DEF Sites, ProgInv
    <3> QED  BY <2>1, <2>2, <3>1, CandidateFacts DEF Related, Above
  <2> QED  BY <2>1, <2>2, <2>3, <2>4, <2>5 DEF Zone, pushCxt
<1> QED  BY <1>1, <1>2, <1>3

\* A site that is in no loop is passed for good.
LEMMA PassedStays ==
    ASSUME ProgInv, JumpsBackAreLoops, NEW x \in Stmts, getLoop(x) = NoSite,
           NEW a \in Stmts, FunOf(a) = FunOf(x), a[2] > x[2], NEW b \in Succs(a)
    PROVE  b[2] > x[2]
<1>1. b \in Stmts /\ FunOf(b) = FunOf(a)
  BY SuccFacts DEF ProgInv
<1>2. /\ a[2] \in Nat /\ b[2] \in Nat /\ x[2] \in Nat /\ x = <<FunOf(x), x[2]>>
  <2>1. \A t \in Stmts : t[2] \in Nat /\ t = <<FunOf(t), t[2]>>
    BY StmtFacts DEF ProgInv
  <2> QED  BY <1>1, <2>1
<1> SUFFICES ASSUME b[2] <= x[2] PROVE FALSE
  BY <1>2
<1>3. PICK h \in Sites({"loop"}) : a \in LoopBody(h) /\ b \in LoopBody(h)
  BY <1>2 DEF JumpsBackAreLoops
<1>4. h \in Stmts /\ Op(h) = "loop"
  BY <1>3 DEF Sites
<1>5. Stmt(h).target \in Nat /\ h[2] \in Nat
  <2>1. FunOf(h) \in Funs /\ h[2] \in 1..Len(code[FunOf(h)])
        /\ Len(code[FunOf(h)]) \in Nat /\ DOMAIN code[FunOf(h)] = 1..Len(code[FunOf(h)])
    BY <1>4, StmtFacts DEF ProgInv
  <2>2. Stmt(h).target \in 1..Len(code[FunOf(h)])
    BY <1>4, <2>1 DEF ProgInv, IsProgram, Op, Stmt, FunOf, Funs
  <2> QED  BY <2>1, <2>2
<1>6. FunOf(h) = FunOf(a) /\ a[2] <= Stmt(h).target - 1 /\ h[2] <= b[2]
  BY <1>3, <1>5 DEF LoopBody, FunOf
<1>7. x \in LoopBody(h)
  <2>1. x[2] \in h[2]..(Stmt(h).target - 1)
    BY <1>2, <1>5, <1>6
  <2> QED  BY <1>2, <1>6, <2>1 DEF LoopBody
<1>8. \A l \in Sites({"loop"}) : l # NoSite
  <2>1. \A l \in Stmts : l # NoSite
    BY StmtFacts DEF ProgInv, IsProgram, Funs
  <2> QED  BY <2>1 DEF Sites
<1> DEFINE around == {l \in Sites({"loop"}) : x \in LoopBody(l)}
<1>9. h \in around /\ getLoop(x) = CHOOSE l \in around : \A g \in around : g[2] <= l[2]
  BY <1>7 DEF getLoop
<1>10. \E l \in around : \A g \in around : g[2] <= l[2]
  <2> DEFINE n == Len(code[FunOf(x)])
             T == {m \in Nat : \E l \in around : m = n - l[2]}
  <2>1. \A l \in around : l[2] \in 1..n /\ n \in Nat
    <3> SUFFICES ASSUME NEW l \in around PROVE l[2] \in 1..n /\ n \in Nat
      OBVIOUS
    <3>1. l \in Stmts /\ FunOf(l) = FunOf(x)
      BY DEF Sites, LoopBody, FunOf
    <3> QED  BY <3>1, StmtFacts DEF ProgInv
  <2>2. n - h[2] \in T
    BY <1>9, <2>1
  <2> HIDE DEF around, n
  <2>3. PICK m \in T : \A k \in T : m <= k
    <3>1. T # {} /\ T \subseteq Nat
      BY <2>2
    <3> HIDE DEF T
    <3> QED  BY <3>1, LeastNatural
  <2>4. PICK l \in around : m = n - l[2]
    BY <2>3
  <2>5. ASSUME NEW g \in around PROVE g[2] <= l[2]
    <3>1. n - g[2] \in T
      BY <2>1
    <3>2. n - l[2] <= n - g[2]
      BY <2>3, <2>4, <3>1
    <3> QED  BY <2>1, <3>2
  <2> QED  BY <2>4, <2>5
<1> QED  BY <1>8, <1>9, <1>10

LEMMA BegunFacts ==
    ASSUME NEW s
    PROVE  /\ \A i \in DOMAIN threads : threads[i].fork \in SitesAbove(s) => threads[i].cxt \in Begun(s)
           /\ \A i \in DOMAIN threads : \A d \in Frames(i) :
                InZone(s, i, d) => threads[i].stack[d].cxt \in Begun(s)
           /\ \A u \in Begun(s) :
                \/ \E i \in DOMAIN threads : threads[i].fork \in SitesAbove(s) /\ u = threads[i].cxt
                \/ \E i \in DOMAIN threads : \E d \in Frames(i) :
                        InZone(s, i, d) /\ u = threads[i].stack[d].cxt
  BY DEF Begun

\* A frame that was there before.
FrameStays(s, i, d) ==
    /\ i \in DOMAIN threads /\ d \in Frames(i) /\ InZone(s, i, d)
    /\ threads'[i].stack[d].cxt = threads[i].stack[d].cxt
    /\ FunOf(threads'[i].stack[d].at) = FunOf(threads[i].stack[d].at)
    /\ \A x \in SitesAbove(s) :
        FunOf(x) = FunOf(threads[i].stack[d].at) /\ Passed(i, d, x) => Passed(i, d, x)'

\* What a step begins, if anything, is frame e of thread b, or that thread, under a
\* context of W; nothing has begun under it before, and what leads to it is past it.
FramesBegun(s, b, e, W) ==
    \A i \in DOMAIN threads' : \A d \in Frames(i)' : InZone(s, i, d)' =>
        FrameStays(s, i, d) \/ (i = b /\ d = e /\ threads'[i].stack[d].cxt \in W)
ThreadsBegun(s, b, W) ==
    \A i \in DOMAIN threads' : threads'[i].fork \in SitesAbove(s) =>
        \/ /\ i \in DOMAIN threads /\ threads[i].fork \in SitesAbove(s)
           /\ threads'[i].cxt = threads[i].cxt
        \/ i = b /\ threads'[i].cxt \in W
NotBegun(s, W) ==
    \A u \in W : u \in Seq(SitesAbove(s)) /\ u \notin Begun(s) /\ \A v \in Begun(s) : ~Extends(v, u)
PassedBy(s, W) ==
    \A u \in W : \A i \in DOMAIN threads : \A d \in Frames(i) :
        FrameStays(s, i, d) /\ Extends(u, threads[i].stack[d].cxt) =>
            \A x : x = u[Len(threads[i].stack[d].cxt) + 1]
                   /\ FunOf(x) = FunOf(threads[i].stack[d].at) => Passed(i, d, x)'

LEMMA OnceKept ==
    ASSUME UNCHANGED fixedVars, NEW s, OnceInv(s), NEW w, NEW W, W \subseteq {w}, NEW b, NEW e,
           FramesBegun(s, b, e, W), ThreadsBegun(s, b, W), NotBegun(s, W), PassedBy(s, W)
    PROVE  OnceInv(s)'
<1> USE DEF FramesBegun, ThreadsBegun, NotBegun, PassedBy
<1>1. SitesAbove(s)' = SitesAbove(s) /\ Zone(s)' = Zone(s)
  BY DEF fixedVars, SitesAbove, Zone, Sites, Stmts, StmtsOf, Funs, Op, Stmt, Callee, Reaches, FunOf
<1> DEFINE at(i, d) == threads[i].stack[d].at
           cxt(i, d) == threads[i].stack[d].cxt
           F(i) == Frames(i)'
           new(i, d) == threads'[i].stack[d].cxt
           go(i, d) == threads'[i].stack[d].at
<1>2. \A i \in DOMAIN threads : \A d \in Frames(i) : InZone(s, i, d) => cxt(i, d) \in Begun(s)
  BY BegunFacts
<1>3. \A i \in DOMAIN threads : threads[i].fork \in SitesAbove(s) => threads[i].cxt \in Begun(s)
  BY BegunFacts
<1>4. \A u \in Begun(s)' : u \in Begun(s) \cup W
  <2> SUFFICES ASSUME NEW u \in Begun(s)' PROVE u \in Begun(s) \cup W
    OBVIOUS
  <2>1. \/ \E i \in DOMAIN threads' : threads'[i].fork \in SitesAbove(s) /\ u = threads'[i].cxt
        \/ \E i \in DOMAIN threads' : \E d \in F(i) : InZone(s, i, d)' /\ u = new(i, d)
    BY <1>1 DEF Begun
  <2>2. CASE \E i \in DOMAIN threads' : threads'[i].fork \in SitesAbove(s) /\ u = threads'[i].cxt
    BY <1>3, <2>2
  <2>3. CASE \E i \in DOMAIN threads' : \E d \in F(i) : InZone(s, i, d)' /\ u = new(i, d)
    BY <1>2, <2>3 DEF FrameStays
  <2> QED  BY <2>1, <2>2, <2>3
<1>5. \A u \in Begun(s)' : u \in Seq(SitesAbove(s))
  BY <1>4 DEF OnceInv
<1>6. ASSUME NEW i \in DOMAIN threads', NEW d \in F(i), NEW u \in Begun(s)',
             InZone(s, i, d)', Extends(u, new(i, d)), NEW x,
             x = u[Len(new(i, d)) + 1], FunOf(x) = FunOf(go(i, d))
      PROVE  Passed(i, d, x)'
  <2>1. u \in Begun(s) \cup W /\ u \in Seq(SitesAbove(s))
    BY <1>4, <1>5
  <2>2. CASE FrameStays(s, i, d)
    <3>1. /\ i \in DOMAIN threads /\ d \in Frames(i) /\ InZone(s, i, d)
          /\ new(i, d) = cxt(i, d) /\ FunOf(go(i, d)) = FunOf(at(i, d))
          /\ \A y \in SitesAbove(s) :
                FunOf(y) = FunOf(at(i, d)) /\ Passed(i, d, y) => Passed(i, d, y)'
      BY <2>2 DEF FrameStays
    <3>0. x = u[Len(cxt(i, d)) + 1]
      BY <1>6, <3>1
    <3>2. x \in SitesAbove(s) /\ FunOf(x) = FunOf(at(i, d))
      <4>1. Len(cxt(i, d)) \in Nat
        BY <1>2, <3>1 DEF OnceInv
      <4>2. Len(cxt(i, d)) + 1 \in 1..Len(u)
        BY <1>6, <2>1, <3>1, <4>1 DEF Extends
      <4> QED  BY <1>6, <2>1, <3>0, <3>1, <4>2
    <3>3. CASE u \in Begun(s)
      <4>1. HasPassed(s, i, d, u)
        BY <3>1, <3>3 DEF OnceInv
      <4>2. Passed(i, d, x)
        BY <1>6, <3>0, <3>1, <3>2, <4>1 DEF HasPassed
      <4> QED  BY <3>1, <3>2, <4>2
    <3>4. CASE u \in W
      BY <1>6, <2>2, <3>0, <3>1, <3>2, <3>4
    <3> QED  BY <2>1, <3>3, <3>4
  <2>3. CASE i = b /\ d = e /\ new(i, d) \in W
    <3>1. u \notin Begun(s)
      BY <1>6, <2>3
    <3>2. u = new(i, d) /\ Len(u) \in Nat
      BY <2>1, <2>3, <3>1
    <3> QED  BY <1>6, <3>2 DEF Extends
  <2> QED  BY <1>6, <2>2, <2>3
<1>7. ASSUME NEW i \in DOMAIN threads', NEW j \in DOMAIN threads', NEW d \in F(i), NEW c \in F(j),
             InZone(s, i, d)', new(i, d) = new(j, c), FunOf(go(i, d)) = FunOf(go(j, c))
      PROVE  i = j /\ d = c
  <2>1. InZone(s, j, c)'
    BY <1>7 DEF InZone
  <2>2. \/ FrameStays(s, i, d) /\ new(i, d) \in Begun(s)
        \/ i = b /\ d = e /\ new(i, d) \in W
    BY <1>2, <1>7 DEF FrameStays
  <2>3. \/ FrameStays(s, j, c) /\ new(j, c) \in Begun(s)
        \/ j = b /\ c = e /\ new(j, c) \in W
    BY <1>2, <2>1 DEF FrameStays
  <2>4. CASE FrameStays(s, i, d) /\ FrameStays(s, j, c)
    <3>1. SameCall(i, d, j, c) /\ InZone(s, i, d) /\ i \in DOMAIN threads /\ j \in DOMAIN threads
          /\ d \in Frames(i) /\ c \in Frames(j)
      BY <1>7, <2>4 DEF FrameStays, SameCall
    <3> QED  BY <3>1 DEF OnceInv
  <2> QED  BY <1>7, <2>2, <2>3, <2>4
<1>8. ASSUME NEW i \in DOMAIN threads', NEW j \in DOMAIN threads',
             threads'[i].fork \in SitesAbove(s), threads'[j].fork \in SitesAbove(s),
             threads'[i].cxt = threads'[j].cxt
      PROVE  i = j
  BY <1>3, <1>8 DEF OnceInv
<1> HIDE DEF F, new, go
<1>9. \A i \in DOMAIN threads' : \A d \in Frames(i)' : \A u \in Begun(s)' : HasPassed(s, i, d, u)'
  BY <1>6 DEF HasPassed, F, new, go, Extends, Passed, Depth
<1>10. \A i, j \in DOMAIN threads' : \A d \in Frames(i)', c \in Frames(j)' :
        InZone(s, i, d)' /\ SameCall(i, d, j, c)' => i = j /\ d = c
  BY <1>7 DEF SameCall, F, new, go
<1> QED  BY <1>1, <1>5, <1>8, <1>9, <1>10 DEF OnceInv

LEMMA FrameFacts ==
    ASSUME RunInv, NEW i \in DOMAIN threads
    PROVE  /\ Depth(i) \in Nat /\ Frames(i) = 1..Depth(i)
           /\ \A d \in Frames(i) : /\ threads[i].stack[d].at \in Stmts
                                   /\ <<threads[i].stack[d].cxt, FunOf(threads[i].stack[d].at)>> \in Walked
           /\ \A d \in Frames(i) : d # Depth(i) => Op(threads[i].stack[d].at) = "call"
<1>1. IsStack(threads[i].stack)
  BY DEF RunInv, IsThread
<1> QED  BY <1>1, ListIndex DEF IsStack, IsFrame, Depth, Frames

LEMMA FramesPrimed ==
    ASSUME RunInv', NEW i \in DOMAIN threads'
    PROVE  Depth(i)' \in Nat /\ Frames(i)' = 1..(Depth(i)')
<1>1. IsList(threads'[i].stack)
  BY DEF RunInv, IsThread, IsStack, IsList
<1> QED  BY <1>1, ListIndex DEF Depth, Frames

LEMMA RunningTop ==
    ASSUME RunInv, NEW i \in Running
    PROVE  /\ i \in DOMAIN threads /\ Depth(i) \in Frames(i) /\ Depth(i) \in Nat \ {0}
           /\ Top(i) = threads[i].stack[Depth(i)] /\ Top(i).at \in Stmts
<1>1. i \in DOMAIN threads /\ IsStack(threads[i].stack) /\ threads[i].stack # <<>>
      /\ Top(i) = Last(threads[i].stack) /\ Top(i).at \in Stmts
  BY TopFacts
<1>2. Depth(i) \in Frames(i) /\ Top(i) = threads[i].stack[Depth(i)]
  BY <1>1, ListIndex DEF IsStack, Depth, Frames
<1> QED  BY <1>1, <1>2, FrameFacts

LEMMA NextStmt ==
    ASSUME ProgInv, NEW a \in Stmts, Op(a) \notin {"ret", "goto"}
    PROVE  After(a) \in Succs(a) /\ FunOf(After(a)) = FunOf(a) /\ After(a)[2] = a[2] + 1
           /\ a[2] \in Nat /\ After(a)[2] > a[2]
<1>1. a[2] \in Nat
  <2>1. a[2] \in 1..Len(code[FunOf(a)])
    BY StmtFacts DEF ProgInv
  <2> QED  BY <2>1
<1>2. FunOf(After(a)) = FunOf(a) /\ After(a)[2] = a[2] + 1
  BY DEF After, FunOf
<1> QED  BY <1>1, <1>2, AfterIsSucc

\* Whatever a thread does, what its frames and those of others have passed stays passed.
LEMMA FramesStay ==
    ASSUME ProgInv, RunInv, RunInv', JumpsBackAreLoops, NEW s \in Sites({"fork"}), Once(s),
           NEW a \in Running, Untouched(a), Runs(a),
           NEW i \in DOMAIN threads, NEW d \in Frames(i), d \in Frames(i)'
    PROVE  /\ threads'[i].stack[d].cxt = threads[i].stack[d].cxt
           /\ FunOf(threads'[i].stack[d].at) = FunOf(threads[i].stack[d].at)
           /\ \A x \in SitesAbove(s) :
                FunOf(x) = FunOf(threads[i].stack[d].at) /\ Passed(i, d, x) => Passed(i, d, x)'
<1> DEFINE n == Depth(a)
           at == threads[i].stack[d].at
           go == threads'[i].stack[d].at
           Stays == threads'[i].stack[d].cxt = threads[i].stack[d].cxt /\ FunOf(go) = FunOf(at)
                    /\ \A x \in SitesAbove(s) : FunOf(x) = FunOf(at) /\ Passed(i, d, x) => Passed(i, d, x)'
<1>0. /\ n \in Nat \ {0} /\ n \in Frames(a) /\ a \in DOMAIN threads
      /\ Top(a) = threads[a].stack[n] /\ Frames(a) = 1..n
  BY RunningTop, FrameFacts
<1>1. i \in DOMAIN threads' /\ Frames(i) = 1..Depth(i) /\ Frames(i)' = 1..(Depth(i)') /\ at \in Stmts
      /\ Depth(i) \in Nat /\ Depth(i)' \in Nat
  BY FrameFacts, FramesPrimed DEF Untouched
<1>2. \A x \in SitesAbove(s) : x \in Stmts /\ getLoop(x) = NoSite
  BY OnceFacts DEF CallSites, Sites
<1>3. ASSUME threads'[i].stack[d] = threads[i].stack[d], d # Depth(i) => d # Depth(i)'
      PROVE  Stays
  BY <1>3 DEF Passed
<1>4. ASSUME go \in Succs(at), d = Depth(i), threads'[i].stack[d].cxt = threads[i].stack[d].cxt
      PROVE  Stays
  <2>1. FunOf(go) = FunOf(at)
    BY <1>1, <1>4, SuccFacts DEF ProgInv
  <2>2. ASSUME NEW x \in SitesAbove(s), FunOf(x) = FunOf(at), Passed(i, d, x) PROVE Passed(i, d, x)'
    <3>1. at[2] > x[2]
      BY <1>4, <2>2 DEF Passed
    <3>2. go[2] > x[2]
      BY <1>1, <1>2, <1>4, <2>2, <3>1, PassedStays
    <3> QED  BY <3>2 DEF Passed
  <2> QED  BY <1>4, <2>1, <2>2
<1>5. ASSUME go = After(at), Op(at) = "call", threads'[i].stack[d].cxt = threads[i].stack[d].cxt
      PROVE  Stays
  <2>1. FunOf(go) = FunOf(at) /\ go[2] = at[2] + 1 /\ at[2] \in Nat
    BY <1>1, <1>5, NextStmt
  <2>2. ASSUME NEW x \in SitesAbove(s), FunOf(x) = FunOf(at), Passed(i, d, x) PROVE Passed(i, d, x)'
    <3>1. x[2] \in Nat
      <4>1. x[2] \in 1..Len(code[FunOf(x)])
        BY <1>2, StmtFacts DEF ProgInv
      <4> QED  BY <4>1
    <3>2. go[2] > x[2]
      BY <2>1, <2>2, <3>1 DEF Passed
    <3> QED  BY <3>2 DEF Passed
  <2> QED  BY <1>5, <2>1, <2>2
<1> SUFFICES Stays
  OBVIOUS
<1>6. CASE i # a
  <2>1. threads'[i] = threads[i]
    BY <1>6 DEF Untouched
  <2> QED  BY <1>3, <2>1 DEF Depth
<1>7. CASE i = a /\ (Goes(a) \/ \E k : Forks(a, k))
  <2>1. Depth(a)' = n /\ Below(a, n - 1) /\ \E t \in Succs(Top(a).at) : MovesTo(a, n, t)
    <3>1. ASSUME NEW k, Forks(a, k) PROVE After(Top(a).at) \in Succs(Top(a).at)
      BY <3>1, RunningTop, NextStmt DEF Forks
    <3> QED  BY <1>7, <3>1 DEF Goes, Forks
  <2>2. CASE d # n
    BY <1>0, <1>1, <1>3, <1>7, <2>1, <2>2 DEF Below
  <2>3. CASE d = n
    BY <1>0, <1>4, <1>7, <2>1, <2>3 DEF MovesTo
  <2> QED  BY <2>2, <2>3
<1>8. CASE i = a /\ Enters(a)
  <2>1. threads'[i].stack[d] = threads[i].stack[d]
    BY <1>0, <1>8 DEF Enters, Below
  <2>2. Depth(i)' = n + 1 /\ d \in 1..n
    BY <1>0, <1>8 DEF Enters
  <2>3. d # Depth(i)'
    BY <1>0, <2>2
  <2> QED  BY <1>3, <2>1, <2>3
<1>9. CASE i = a /\ Leaves(a)
  <2>1. Depth(i)' = n - 1 /\ d \in 1..(n - 1)
    BY <1>0, <1>1, <1>9 DEF Leaves
  <2>2. CASE d # n - 1
    <3>1. d \in 1..(n - 2)
      BY <1>0, <2>1, <2>2
    <3>2. threads'[i].stack[d] = threads[i].stack[d]
      BY <1>9, <3>1 DEF Leaves, Below
    <3> QED  BY <1>3, <2>1, <2>2, <3>2
  <2>3. CASE d = n - 1
    <3>1. d # Depth(i) /\ n > 1
      BY <1>0, <1>9, <2>1, <2>3
    <3>2. Op(at) = "call"
      BY <3>1, FrameFacts
    <3>3. MovesTo(a, n - 1, After(threads[a].stack[n - 1].at))
      BY <1>9, <3>1 DEF Leaves
    <3> QED  BY <1>5, <1>9, <2>3, <3>2, <3>3 DEF MovesTo
  <2> QED  BY <2>2, <2>3
<1> HIDE DEF Stays
<1> QED  BY <1>6, <1>7, <1>8, <1>9 DEF Runs

\* Nothing has begun under the context of a call or fork about to be made.
LEMMA CallIsNew ==
    ASSUME ProgInv, RunInv, NEW s \in Sites({"fork"}), Once(s), OnceInv(s),
           NEW a \in Running, Top(a).at \in SitesAbove(s)
    PROVE  LET w == Append(Top(a).cxt, Top(a).at)
           IN  /\ pushCxt(Top(a).cxt, Top(a).at) = w
               /\ w \in Seq(SitesAbove(s)) /\ Top(a).cxt \in Seq(SitesAbove(s))
               /\ Top(a).cxt \in Begun(s) /\ InZone(s, a, Depth(a))
               /\ \A u \in Begun(s) : u # w /\ ~Extends(u, w)
<1> DEFINE c == Top(a).at
           v == Top(a).cxt
           w == Append(v, c)
           n == Depth(a)
<1>1. a \in DOMAIN threads /\ n \in Frames(a) /\ Top(a) = threads[a].stack[n]
  BY RunningTop
<1>2. FunOf(c) \in Zone(s) /\ pushCxt(v, c) = w
  BY OnceFacts
<1>3. InZone(s, a, n) /\ v \in Begun(s)
  BY <1>1, <1>2, BegunFacts DEF InZone
<1>4. v \in Seq(SitesAbove(s)) /\ w \in Seq(SitesAbove(s))
  BY <1>3 DEF OnceInv
<1>5. Len(w) = Len(v) + 1 /\ w[Len(v) + 1] = c /\ Len(v) \in Nat /\ \A k \in 1..Len(v) : w[k] = v[k]
  BY <1>4
<1>6. ASSUME NEW u \in Begun(s), u = w \/ Extends(u, w) PROVE FALSE
  <2>1. Len(u) \in Nat
    BY DEF OnceInv
  <2>2. Extends(u, v) /\ u[Len(v) + 1] = c
    BY <1>5, <1>6, <2>1 DEF Extends
  <2>3. HasPassed(s, a, n, u)
    BY <1>1 DEF OnceInv
  <2>4. Passed(a, n, c)
    BY <1>1, <1>3, <2>2, <2>3 DEF HasPassed
  <2>5. c[2] > c[2]
    BY <1>1, <2>4 DEF Passed
  <2>6. c[2] \in Nat
    <3>1. c[2] \in 1..Len(code[FunOf(c)])
      BY RunningTop, StmtFacts DEF ProgInv
    <3> QED  BY <3>1
  <2> QED  BY <2>5, <2>6
<1> QED  BY <1>2, <1>3, <1>4, <1>6

\* Whatever leads to a call that has been made is past it.
LEMMA CallIsPassed ==
    ASSUME ProgInv, RunInv, NEW s \in Sites({"fork"}), Once(s), OnceInv(s),
           NEW a \in Running, NEW c \in SitesAbove(s), c = Top(a).at, NEW n, n = Depth(a),
           Passed(a, n, c)',
           NEW i \in DOMAIN threads, NEW d \in Frames(i), FrameStays(s, i, d),
           Extends(Append(Top(a).cxt, c), threads[i].stack[d].cxt),
           NEW x, x = Append(Top(a).cxt, c)[Len(threads[i].stack[d].cxt) + 1],
           FunOf(x) = FunOf(threads[i].stack[d].at)
    PROVE  Passed(i, d, x)'
<1> DEFINE v == Top(a).cxt
           w == Append(v, c)
           u == threads[i].stack[d].cxt
<1>1. /\ v \in Seq(SitesAbove(s)) /\ v \in Begun(s) /\ InZone(s, a, n)
  BY CallIsNew
<1>2. u \in Seq(SitesAbove(s)) /\ u \in Begun(s) /\ InZone(s, i, d)
  BY BegunFacts DEF OnceInv, FrameStays
<1>3. Len(w) = Len(v) + 1 /\ w[Len(v) + 1] = c /\ Len(v) \in Nat /\ \A k \in 1..Len(v) : w[k] = v[k]
  BY <1>1
<1>4. Len(u) \in Nat /\ Len(u) < Len(v) + 1 /\ \A k \in 1..Len(u) : w[k] = u[k]
  BY <1>2, <1>3 DEF Extends
<1>5. a \in DOMAIN threads /\ n \in Frames(a) /\ Top(a) = threads[a].stack[n]
  BY RunningTop
<1>6. CASE Len(u) = Len(v)
  <2>1. u = v
    BY <1>1, <1>2, <1>3, <1>4, <1>6
  <2>2. x = c
    BY <1>3, <1>6
  <2>3. SameCall(a, n, i, d)
    BY <1>5, <2>1, <2>2 DEF SameCall
  <2>4. a = i /\ n = d
    BY <1>1, <1>5, <2>3 DEF OnceInv
  <2> QED  BY <2>2, <2>4
<1>7. CASE Len(u) < Len(v)
  <2>1. Extends(v, u)
    BY <1>3, <1>4, <1>7 DEF Extends
  <2>2. x = v[Len(u) + 1] /\ x \in SitesAbove(s)
    BY <1>1, <1>3, <1>4, <1>7
  <2>3. HasPassed(s, i, d, v)
    BY <1>1 DEF OnceInv
  <2>4. Passed(i, d, x)
    BY <1>2, <2>1, <2>2, <2>3 DEF HasPassed
  <2> QED  BY <2>2, <2>4 DEF FrameStays
<1> HIDE DEF u, v, w
<1>8. Len(u) = Len(v) \/ Len(u) < Len(v)
  BY <1>3, <1>4
<1> QED  BY <1>6, <1>7, <1>8

LEMMA OnceStep ==
    ASSUME ProgInv, RunInv, RunInv', UNCHANGED fixedVars, JumpsBackAreLoops,
           NEW s \in Sites({"fork"}), Once(s), OnceInv(s),
           NEW a \in Running, Untouched(a), Runs(a)
    PROVE  OnceInv(s)'
<1> DEFINE c == Top(a).at
           w == Append(Top(a).cxt, c)
           n == Depth(a)
           Old(i, d) == i \in DOMAIN threads /\ d \in Frames(i)
<1>0. /\ a \in DOMAIN threads /\ n \in Frames(a) /\ n \in Nat \ {0} /\ Frames(a) = 1..n
      /\ Top(a) = threads[a].stack[n] /\ c \in Stmts
  BY RunningTop, FrameFacts
<1>1. Zone(s)' = Zone(s)
  BY DEF fixedVars, Zone, Funs, Reaches, FunOf
<1>2. ASSUME NEW i \in DOMAIN threads', NEW d \in Frames(i)', InZone(s, i, d)', Old(i, d)
      PROVE  FrameStays(s, i, d)
  <2>1. /\ threads'[i].stack[d].cxt = threads[i].stack[d].cxt
        /\ FunOf(threads'[i].stack[d].at) = FunOf(threads[i].stack[d].at)
        /\ \A x \in SitesAbove(s) :
             FunOf(x) = FunOf(threads[i].stack[d].at) /\ Passed(i, d, x) => Passed(i, d, x)'
    BY <1>2, FramesStay
  <2>2. InZone(s, i, d)
    BY <1>1, <1>2, <2>1 DEF InZone
  <2> QED  BY <1>2, <2>1, <2>2 DEF FrameStays
<1>3. \A i \in DOMAIN threads : threads'[i].fork = threads[i].fork /\ threads'[i].cxt = threads[i].cxt
                                /\ i \in DOMAIN threads'
  BY DEF Untouched
<1>4. ASSUME DOMAIN threads' = DOMAIN threads,
             \A i \in DOMAIN threads' : \A d \in Frames(i)' : Old(i, d)
      PROVE  OnceInv(s)'
  <2> DEFINE W == {}
  <2>1. FramesBegun(s, 0, 0, W)
    BY <1>2, <1>4 DEF FramesBegun
  <2>2. ThreadsBegun(s, 0, W)
    BY <1>3, <1>4 DEF ThreadsBegun
  <2>3. NotBegun(s, W) /\ PassedBy(s, W) /\ W \subseteq {w}
    BY DEF NotBegun, PassedBy
  <2> HIDE DEF W, w
  <2> QED  BY <2>1, <2>2, <2>3, OnceKept
<1>5. ASSUME NEW b, NEW e, c \in CallSites,
             \A i \in DOMAIN threads' : \A d \in Frames(i)' : Old(i, d) \/ (i = b /\ d = e),
             FunOf(threads'[b].stack[e].at) = Callee(c),
             threads'[b].stack[e].cxt = pushCxt(Top(a).cxt, c),
             \A i \in DOMAIN threads' : \/ i \in DOMAIN threads
                                        \/ /\ i = b /\ threads'[i].fork = c
                                           /\ threads'[i].cxt = pushCxt(Top(a).cxt, c),
             \A x, m : x = c /\ m = n => Passed(a, m, x)'
      PROVE  OnceInv(s)'
  <2> DEFINE W == IF c \in SitesAbove(s) THEN {w} ELSE {}
  <2>1. FramesBegun(s, b, e, W)
    <3> SUFFICES ASSUME NEW i \in DOMAIN threads', NEW d \in Frames(i)', InZone(s, i, d)', ~Old(i, d)
                 PROVE  i = b /\ d = e /\ threads'[i].stack[d].cxt \in W
      BY <1>2 DEF FramesBegun
    <3>1. i = b /\ d = e
      BY <1>5
    <3>2. Callee(c) \in Zone(s)
      BY <1>1, <1>5, <3>1 DEF InZone
    <3>3. c \in SitesAbove(s)
      BY <1>5, <3>2, OnceFacts
    <3> QED  BY <1>5, <3>1, <3>3, CallIsNew
  <2>2. ThreadsBegun(s, b, W)
    BY <1>3, <1>5, CallIsNew DEF ThreadsBegun
  <2>3. NotBegun(s, W)
    BY CallIsNew DEF NotBegun
  <2>4. ASSUME NEW u \in W, NEW i \in DOMAIN threads, NEW d \in Frames(i), FrameStays(s, i, d),
               Extends(u, threads[i].stack[d].cxt), NEW x,
               x = u[Len(threads[i].stack[d].cxt) + 1], FunOf(x) = FunOf(threads[i].stack[d].at)
        PROVE  Passed(i, d, x)'
    <3>1. PICK m, y : m = n /\ y = c /\ Passed(a, m, y)'
      BY <1>5
    <3>2. c \in SitesAbove(s) /\ u = w
      BY <2>4
    <3>3. y \in SitesAbove(s) /\ y = Top(a).at /\ m = Depth(a) /\ u = Append(Top(a).cxt, y)
      BY <3>1, <3>2
    <3> HIDE DEF w, c, W, n
    <3> QED  BY <2>4, <3>1, <3>3, CallIsPassed
  <2>5. W \subseteq {w}
    OBVIOUS
  <2>6. PassedBy(s, W)
    BY <2>4 DEF PassedBy
  <2> HIDE DEF W, w
  <2> QED  BY <2>1, <2>2, <2>3, <2>5, <2>6, OnceKept
<1>6. CASE Goes(a) \/ Leaves(a)
  <2>1. DOMAIN threads' = DOMAIN threads /\ Depth(a)' \in {n, n - 1}
    BY <1>6 DEF Goes, Leaves
  <2>2. ASSUME NEW i \in DOMAIN threads', NEW d \in Frames(i)' PROVE Old(i, d)
    <3>1. CASE i # a
      BY <2>1, <3>1 DEF Untouched, Frames
    <3>2. CASE i = a
      <4>1. d \in 1..(Depth(a)')
        BY <3>2, FramesPrimed
      <4> QED  BY <1>0, <2>1, <3>2, <4>1
    <3> QED  BY <3>1, <3>2
  <2> QED  BY <1>4, <2>1, <2>2
<1>7. CASE Enters(a)
  <2>1. DOMAIN threads' = DOMAIN threads /\ Depth(a)' = n + 1 /\ c \in CallSites
    BY <1>0, <1>7 DEF Enters, CallSites, Sites
  <2>2. \A i \in DOMAIN threads' : \A d \in Frames(i)' : Old(i, d) \/ (i = a /\ d = n + 1)
    <3> SUFFICES ASSUME NEW i \in DOMAIN threads', NEW d \in Frames(i)'
                 PROVE  Old(i, d) \/ (i = a /\ d = n + 1)
      OBVIOUS
    <3>1. CASE i # a
      BY <2>1, <3>1 DEF Untouched, Frames
    <3>2. CASE i = a
      <4>1. d \in 1..(Depth(a)')
        BY <3>2, FramesPrimed
      <4> QED  BY <1>0, <2>1, <3>2, <4>1
    <3> QED  BY <3>1, <3>2
  <2>3. FunOf(threads'[a].stack[n + 1].at) = Callee(c)
        /\ threads'[a].stack[n + 1].cxt = pushCxt(Top(a).cxt, c)
    BY <1>7 DEF Enters, Entry, FunOf
  <2>4. ASSUME NEW x, NEW m, x = c, m = n PROVE Passed(a, m, x)'
    <3>1. threads'[a].stack[m] = threads[a].stack[m] /\ m # Depth(a)'
      BY <1>0, <1>7, <2>1, <2>4 DEF Enters, Below
    <3> QED  BY <1>0, <2>4, <3>1 DEF Passed
  <2> QED  BY <1>5, <2>1, <2>2, <2>3, <2>4
<1>8. ASSUME NEW k, Forks(a, k) PROVE OnceInv(s)'
  <2>1. /\ DOMAIN threads' = DOMAIN threads \cup {k} /\ Depth(a)' = n /\ c \in CallSites
        /\ Op(c) = "fork" /\ k = Len(threads) + 1
    BY <1>0, <1>8 DEF Forks, CallSites, Sites
  <2>2. k \notin DOMAIN threads
    BY <2>1, ListIndex DEF RunInv
  <2>3. \A i \in DOMAIN threads' : \A d \in Frames(i)' : Old(i, d) \/ (i = k /\ d = 1)
    <3> SUFFICES ASSUME NEW i \in DOMAIN threads', NEW d \in Frames(i)'
                 PROVE  Old(i, d) \/ (i = k /\ d = 1)
      OBVIOUS
    <3>1. CASE i \in DOMAIN threads /\ i # a
      BY <2>1, <3>1 DEF Untouched, Frames
    <3>2. CASE i = a
      <4>1. d \in 1..(Depth(a)')
        BY <3>2, FramesPrimed
      <4> QED  BY <1>0, <2>1, <3>2, <4>1
    <3>3. CASE i = k
      <4>1. Depth(k)' = 1
        BY <1>8 DEF Forks, Depth
      <4>2. d \in 1..(Depth(k)')
        BY <3>3, FramesPrimed
      <4> QED  BY <3>3, <4>1, <4>2
    <3> QED  BY <2>1, <3>1, <3>2, <3>3
  <2>4. FunOf(threads'[k].stack[1].at) = Callee(c)
        /\ threads'[k].stack[1].cxt = pushCxt(Top(a).cxt, c)
        /\ threads'[k].fork = c /\ threads'[k].cxt = pushCxt(Top(a).cxt, c)
    BY <1>8 DEF Forks, Entry, FunOf
  <2>5. ASSUME NEW x, NEW m, x = c, m = n PROVE Passed(a, m, x)'
    <3>1. threads'[a].stack[m].at = After(c)
      BY <1>8, <2>5 DEF Forks, MovesTo
    <3>2. After(c)[2] > c[2]
      BY <1>0, <2>1, NextStmt
    <3> QED  BY <2>5, <3>1, <3>2 DEF Passed
  <2> QED  BY <1>5, <2>1, <2>3, <2>4, <2>5
<1> QED  BY <1>6, <1>7, <1>8 DEF Runs

-----------------------------------------------------------------------------
(* The nodes that are marked.                                              *)

\* What CollectMultiForkedThreads asks of a node is there from its fork site, and it
\* marks the nodes it is true of.
MarkInv ==
    /\ \A t \in Tids : nodes[t].fork # NoSite /\ ~Once(nodes[t].fork) =>
        nodes[t].inloop \/ nodes[t].incycle
    /\ stage # "tct" => \A t \in Tids : nodes[t].inloop \/ nodes[t].incycle => t \in multiforked

\* Thread 1 is the only one nobody forked.
ForkInv ==
    \A i \in DOMAIN threads : IF i = 1 THEN threads[i].fork = NoSite
                              ELSE threads[i].fork \in Sites({"fork"})

LEMMA MarkInvInit == ASSUME Init PROVE MarkInv
<1>1. \E first : nodes = <<NewNode(<<>>, NoSite, <<>>, first)>>
  BY DEF Init, TreeInit
<1>2. stage = "tct"
  BY DEF Init
<1>3. \A t \in Tids : nodes[t].fork = NoSite
  BY <1>1 DEF NewNode, Tids
<1> QED  BY <1>2, <1>3 DEF MarkInv

LEMMA OnceFixed == ASSUME UNCHANGED fixedVars, NEW s PROVE Once(s)' = Once(s)
<1>1. code' = code /\ callPaths' = callPaths
  BY DEF fixedVars
<1>2. SitesAbove(s)' = SitesAbove(s)
  BY <1>1 DEF SitesAbove, Sites, Stmts, StmtsOf, Funs, Op, Stmt, Callee, Reaches
<1>3. \A c : getLoop(c)' = getLoop(c)
  BY <1>1 DEF getLoop, LoopBody, Sites, Stmts, StmtsOf, Funs, Op, Stmt
<1>4. \A f : isInCycle(f)' = isInCycle(f)
  BY <1>1 DEF isInCycle, Reaches
<1> QED  BY <1>2, <1>3, <1>4 DEF Once, isInLoopInstruction, isInRecursion, FunOf

LEMMA MarkInvStep ==
    ASSUME ProgInv, NodeInv, MarkInv, [Next]_vars PROVE MarkInv'
<1>0. UNCHANGED fixedVars /\ Tids \subseteq Tids' /\ \A t \in Tids : nodes'[t] = nodes[t]
  BY StepCases, NodesGrow
<1>1. \A s : Once(s)' = Once(s)
  BY <1>0, OnceFixed
<1>2. ASSUME NEW site \in pending, HandleFork(site) PROVE MarkInv'
  <2>1. stage' = "tct" /\ (nodes' = nodes \/ \E c, old, f : nodes' = Append(nodes, NewNode(c, site, old, f)))
    BY <1>2 DEF HandleFork, progVars
  <2>2. CASE nodes' = nodes
    BY <1>1, <2>1, <2>2 DEF MarkInv, Tids
  <2>3. CASE \E c, old, f : nodes' = Append(nodes, NewNode(c, site, old, f))
    <3>1. PICK c, old, f : nodes' = Append(nodes, NewNode(c, site, old, f))
      BY <2>3
    <3> DEFINE node == NewNode(c, site, old, f)
    <3>2. node.fork # NoSite /\ ~Once(node.fork) => node.inloop \/ node.incycle
      BY DEF NewNode, Once
    <3> HIDE DEF node
    <3>3. nodes' = Append(nodes, node) /\ nodes \in Seq({nodes[t] : t \in DOMAIN nodes})
      BY <3>1 DEF node, NodeInv, NodesAreASequence
    <3>4. Tids' = Tids \cup {Len(nodes) + 1} /\ nodes'[Len(nodes) + 1] = node
      BY <3>3, AppendToNodes DEF Tids
    <3> QED  BY <1>0, <1>1, <2>1, <3>2, <3>4 DEF MarkInv
  <2> QED  BY <2>1, <2>2, <2>3
<1>3. CASE CollectMultiForkedThreads
  <2>1. nodes' = nodes /\ \A t \in Tids : nodes[t].inloop \/ nodes[t].incycle => t \in multiforked'
    BY <1>3 DEF CollectMultiForkedThreads
  <2> QED  BY <1>1, <2>1 DEF MarkInv, Tids
<1>4. CASE PopCTP \/ \E site \in pending : HandleCallRet(site)
  <2>1. nodes' = nodes /\ stage' = "tct"
    BY <1>4 DEF PopCTP, HandleCallRet, progVars
  <2> QED  BY <1>1, <2>1 DEF MarkInv, Tids
<1>5. CASE ~TreeStep
  <2>1. UNCHANGED treeVars /\ (stage # "tct" \/ stage' = stage)
    BY <1>5, StepCases, ForkJoinFrame, MHPFrame, LockFrame, LaterFrame
    DEF vars, analysisVars, progVars
  <2>2. nodes' = nodes /\ multiforked' = multiforked
    BY <2>1 DEF treeVars
  <2> QED  BY <1>1, <2>1, <2>2 DEF MarkInv, Tids
<1> QED  BY <1>2, <1>3, <1>4, <1>5 DEF TreeStep

LEMMA RunFrame ==
    ASSUME [Next]_vars, ~Execute, ~Run PROVE UNCHANGED runVars
<1>1. CASE LaterStep
  BY <1>1 DEF LaterStep
<1> QED  BY <1>1, StepCases DEF vars

\* A run begins with one thread.
LEMMA RunBegins ==
    ASSUME Run, RunInv
    PROVE  /\ threads = <<>> /\ DOMAIN threads' = {1}
           /\ threads'[1].fork = NoSite /\ threads'[1].cxt = <<>> /\ threads'[1].parent = 0
           /\ Len(threads'[1].stack) = 1 /\ DOMAIN threads'[1].stack = {1}
           /\ threads'[1].stack[1].cxt = <<>>
           /\ threads'[1].stack[1].at = Entry(nodes[1].routine)
<1> DEFINE f == Frame(Entry(nodes[1].routine), <<>>)
           th == NewThread(Entry(nodes[1].routine), <<>>, NoSite, 0)
<1>1. stage = "done" /\ threads' = <<th>>
  BY DEF Run
<1>2. threads = <<>>
  BY <1>1 DEF RunInv
<1>3. th = [stack |-> <<f>>, cxt |-> <<>>, fork |-> NoSite, parent |-> 0]
  BY DEF NewThread
<1>4. f.cxt = <<>> /\ f.at = Entry(nodes[1].routine)
  BY DEF Frame
<1> HIDE DEF th, f
<1>5. DOMAIN threads' = {1} /\ threads'[1] = th
  BY <1>1, ListOfOne
<1>6. th.stack = <<f>> /\ Len(<<f>>) = 1 /\ DOMAIN <<f>> = {1} /\ <<f>>[1] = f
  BY <1>3, ListOfOne
<1> QED  BY <1>2, <1>3, <1>4, <1>5, <1>6

LEMMA ForkInvStep ==
    ASSUME RunInv, ForkInv, [Next]_vars PROVE ForkInv'
<1>0. Sites({"fork"})' = Sites({"fork"})
  BY StepCases, FixedPrimed DEF FixedNext
<1>1. CASE Execute
  <2>1. PICK a \in Running : Untouched(a) /\ Runs(a)
    BY <1>1, ExecuteEffect
  <2>2. ASSUME NEW k, Forks(a, k) PROVE ForkInv'
    <3>1. Top(a).at \in Sites({"fork"})
      BY <2>2, RunningTop DEF Forks, Sites
    <3>2. k # 1
      <4>1. a \in DOMAIN threads /\ DOMAIN threads = 1..Len(threads) /\ Len(threads) \in Nat
        BY RunningTop, ListIndex DEF RunInv
      <4> QED  BY <2>2, <4>1 DEF Forks
    <3> QED  BY <1>0, <2>1, <2>2, <3>1, <3>2 DEF ForkInv, Forks, Untouched
  <2>3. CASE DOMAIN threads' = DOMAIN threads
    BY <1>0, <2>1, <2>3 DEF ForkInv, Untouched
  <2> QED  BY <2>1, <2>2, <2>3 DEF Runs, Goes, Enters, Leaves
<1>2. CASE Run
  BY <1>2, RunBegins DEF ForkInv
<1>3. CASE ~Execute /\ ~Run
  BY <1>0, <1>3, RunFrame DEF ForkInv, runVars
<1> QED  BY <1>1, <1>2, <1>3

OnceForks == JumpsBackAreLoops => \A s \in Sites({"fork"}) : Once(s) => OnceInv(s)

LEMMA OnceInvStep ==
    ASSUME ProgInv, RunInv, RunInv', OnceForks, [Next]_vars PROVE OnceForks'
<1>0. UNCHANGED fixedVars
  BY StepCases
<1>1. Sites({"fork"})' = Sites({"fork"}) /\ \A s : Once(s)' = Once(s)
  BY <1>0, FixedPrimed, OnceFixed DEF FixedNext
<1>2. JumpsBackAreLoops' = JumpsBackAreLoops
  <2>1. code' = code
    BY <1>0 DEF fixedVars
  <2> QED  BY <2>1 DEF JumpsBackAreLoops, Succs, Sites, LoopBody, Stmts, StmtsOf, Funs, Op, Stmt
<1> SUFFICES ASSUME JumpsBackAreLoops, NEW s \in Sites({"fork"}), Once(s) PROVE OnceInv(s)'
  BY <1>1, <1>2 DEF OnceForks
<1>3. OnceInv(s)
  BY DEF OnceForks
<1>4. CASE Execute
  BY <1>0, <1>3, <1>4, ExecuteEffect, OnceStep
<1>5. CASE ~Execute /\ ~Run
  <2>1. threads' = threads /\ code' = code /\ callPaths' = callPaths
    BY <1>0, <1>5, RunFrame DEF runVars, fixedVars
  <2>2. SitesAbove(s)' = SitesAbove(s) /\ Zone(s)' = Zone(s)
    BY <2>1 DEF SitesAbove, Zone, Sites, Stmts, StmtsOf, Funs, Op, Stmt, Callee, Reaches
  <2> QED  BY <1>3, <2>1, <2>2
           DEF OnceInv, Begun, HasPassed, Passed, SameCall, InZone, Frames, Depth
<1>6. CASE Run
  <2>1. DOMAIN threads' = {1} /\ threads'[1].fork = NoSite /\ Frames(1)' = {1}
        /\ threads'[1].stack[1].cxt = <<>>
    BY <1>6, RunBegins DEF Frames
  <2>2. SitesAbove(s)' = SitesAbove(s)
    BY <1>0 DEF fixedVars, SitesAbove, Sites, Stmts, StmtsOf, Funs, Op, Stmt, Callee, Reaches
  <2>3. NoSite \notin SitesAbove(s)
    <3>1. SitesAbove(s) \subseteq Stmts
      BY OnceFacts DEF CallSites, Sites
    <3>2. \A l \in Stmts : l # NoSite
      BY StmtFacts DEF ProgInv, IsProgram, Funs
    <3> QED  BY <3>1, <3>2
  <2>4. Begun(s)' \subseteq {<<>>}
    BY <2>1, <2>2, <2>3 DEF Begun
  <2>5. \A u \in {<<>>} : u \in Seq(SitesAbove(s)) /\ ~Extends(u, <<>>)
    BY DEF Extends
  <2>6. \A i \in DOMAIN threads' : \A d \in Frames(i)' : \A u \in Begun(s)' : HasPassed(s, i, d, u)'
    <3> SUFFICES ASSUME NEW u \in Begun(s)' PROVE HasPassed(s, 1, 1, u)'
      BY <2>1
    <3>1. u = <<>> /\ threads'[1].stack[1].cxt = <<>> /\ ~Extends(<<>>, <<>>)
      BY <2>1, <2>4, <2>5
    <3> QED  BY <3>1 DEF HasPassed
  <2>7. \A u \in Begun(s)' : u \in Seq(SitesAbove(s)')
    BY <2>2, <2>4, <2>5
  <2>8. \A i, j \in DOMAIN threads' : i = j /\ \A d \in Frames(i)', e \in Frames(j)' : d = e
    BY <2>1
  <2> QED  BY <2>6, <2>7, <2>8 DEF OnceInv
<1> QED  BY <1>4, <1>5, <1>6

LEMMA MarkedIfShared ==
    ASSUME ProgInv, RunInv, ForkInv, MarkInv, JumpsBackAreLoops, OnceForks
    PROVE  SharedNodesAreMarked
<1> SUFFICES ASSUME NEW i \in DOMAIN threads, NEW j \in DOMAIN threads, i # j, Node(i) = Node(j)
             PROVE  isMultiForkedThread(Node(i))
  BY DEF SharedNodesAreMarked
<1>1. \A k \in DOMAIN threads : Node(k) \in NodesOf(threads[k].cxt, threads[k].fork)
  <2> SUFFICES ASSUME NEW k \in DOMAIN threads
               PROVE  Node(k) \in NodesOf(threads[k].cxt, threads[k].fork)
    OBVIOUS
  <2> DEFINE S == NodesOf(threads[k].cxt, threads[k].fork)
  <2>1. S # {} /\ S \subseteq Tids
    BY DEF RunInv, IsThread, NodesOf
  <2>2. Node(k) = CHOOSE t \in Tids : t \in S
    BY DEF Node, getTCTNode
  <2> HIDE DEF S
  <2> QED  BY <2>1, <2>2 DEF S
<1> DEFINE t == Node(i)
           s == threads[i].fork
<1>2. t \in Tids /\ nodes[t].fork = s /\ threads[j].fork = s /\ threads[i].cxt = threads[j].cxt
  BY <1>1 DEF NodesOf
<1>3. s \in Sites({"fork"}) /\ s # NoSite
  <2>1. \A l \in Sites({"fork"}) : l # NoSite
    <3>1. \A l \in Stmts : l # NoSite
      BY StmtFacts DEF ProgInv, IsProgram, Funs
    <3> QED  BY <3>1 DEF Sites
  <2> QED  BY <1>2, <2>1 DEF ForkInv
<1>4. ~Once(s)
  <2> SUFFICES ASSUME Once(s) PROVE FALSE
    OBVIOUS
  <2>1. OnceInv(s) /\ s \in SitesAbove(s)
    BY <1>3, OnceFacts DEF OnceForks
  <2> QED  BY <1>2, <2>1 DEF OnceInv
<1>5. stage = "run"
  BY DEF RunInv
<1> HIDE DEF t, s
<1>6. t \in multiforked
  BY <1>2, <1>3, <1>4, <1>5 DEF MarkInv
<1> QED  BY <1>6 DEF isMultiForkedThread, t

\* Of a program whose jumps back are turns of loops: when a run forks two threads of one
\* node, the node is marked as one of several threads (TCT.cpp:233), so that MHP compares
\* it with itself.
THEOREM SharedAreMarked == Spec => [](JumpsBackAreLoops => SharedNodesAreMarked)
<1> DEFINE I == WholeInv /\ ForkInv /\ MarkInv /\ OnceForks
<1>1. ASSUME Init PROVE ForkInv /\ OnceForks
  <2>1. DOMAIN threads = {}
    BY <1>1, ListEmpty DEF Init
  <2>2. \A s : Begun(s) = {}
    BY <2>1 DEF Begun
  <2> QED  BY <2>1, <2>2 DEF ForkInv, OnceForks, OnceInv
<1>2. WholeInv /\ WholeInv' /\ ForkInv /\ MarkInv /\ OnceForks /\ [Next]_vars
        => ForkInv' /\ MarkInv' /\ OnceForks'
  BY ForkInvStep, MarkInvStep, OnceInvStep DEF WholeInv
<1>3. Init => MarkInv
  BY MarkInvInit
<1>4. WholeInv /\ ForkInv /\ MarkInv /\ OnceForks => (JumpsBackAreLoops => SharedNodesAreMarked)
  BY MarkedIfShared DEF WholeInv
<1> QED  BY <1>1, <1>2, <1>3, <1>4, WalksStayOnTheTree, PTL DEF Spec

-----------------------------------------------------------------------------
(* Functions that threads run in parallel.                                 *)

\* Statements that follow a spawn site in its function.
AfterSpawn == UNION {BlocksAfter(x) : x \in SpawnSites}

\* The functions that the three sets have with all they call.
Covered ==
    {f \in Funs : WithCallees({f}) \subseteq Spawners \cup Spawnees \cup Followers}

\* identifyFollowers leaves out a spawner that is called after a spawn site (PCG.cpp:180), and
\* so the functions it calls before it spawns itself, unless they are in the graph anyhow.
LateSpawnersAreCovered ==
    \A y \in Sites({"call"}) \cap AfterSpawn : Callee(y) \in Spawners => Callee(y) \in Covered

PCGInv ==
    stage \in {"done", "run"} =>
        pcg = [spawners |-> Spawners, spawnees |-> Spawnees, followers |-> Followers]

\* A frame is in a function that the calls below it lead to.
CallsLead ==
    \A i \in DOMAIN threads : \A d, e \in Frames(i) :
        d < e => FunOf(threads[i].stack[e].at) \in WithCallees({Callee(threads[i].stack[d].at)})

\* Forked threads are in spawnees.
ForkedInSpawnees ==
    \A i \in DOMAIN threads \ {1} : \A d \in Frames(i) :
        FunOf(threads[i].stack[d].at) \in Spawnees

\* Once it has forked, the main thread is where it may fork, or past a spawn site.
MainIsCovered ==
    2 \in DOMAIN threads =>
        \A d \in Frames(1) : \/ FunOf(threads[1].stack[d].at) \in Covered
                             \/ threads[1].stack[d].at \in AfterSpawn

FunsInv == CallsLead /\ ForkedInSpawnees /\ (LateSpawnersAreCovered => MainIsCovered)

LEMMA CallSitesSplit ==
    ASSUME ProgInv
    PROVE  \A s \in Sites({"call"}) \cup Sites({"fork"}) :
                s \in Stmts /\ FunOf(s) \in Funs /\ Callee(s) \in Funs
  BY StmtFacts DEF ProgInv, CallSites, Sites

LEMMA CallPaths ==
    ASSUME ProgInv
    PROVE  LET P == PathsOf(EdgesOf({"call"}))
           IN  /\ P \subseteq Funs \X Funs
               /\ \A s \in Sites({"call"}) : <<FunOf(s), Callee(s)>> \in P
               /\ \A f, g, h : <<f, g>> \in P /\ <<g, h>> \in P => <<f, h>> \in P
<1> DEFINE E == EdgesOf({"call"})
<1>1. E \subseteq Funs \X Funs /\ \A s \in Sites({"call"}) : <<FunOf(s), Callee(s)>> \in E
  BY CallSitesSplit DEF EdgesOf
<1>2. IsFiniteSet(Funs)
  BY StmtFacts DEF ProgInv
<1> HIDE DEF E
<1>3. E \subseteq PathsOf(E) /\ PathsOf(E) \subseteq Funs \X Funs
  BY <1>1, <1>2, PathsClosed
<1>4. \A f, g, h : <<f, g>> \in PathsOf(E) /\ <<g, h>> \in PathsOf(E) => <<f, h>> \in PathsOf(E)
  BY <1>1, <1>2, PathsTransitive
<1> QED  BY <1>1, <1>3, <1>4 DEF E

LEMMA CalleesFacts ==
    ASSUME ProgInv, NEW S
    PROVE  /\ S \subseteq WithCallees(S)
           /\ \A s \in Sites({"call"}) : FunOf(s) \in WithCallees(S) => Callee(s) \in WithCallees(S)
           /\ \A f \in WithCallees(S) : WithCallees({f}) \subseteq WithCallees(S)
<1> DEFINE P == PathsOf(EdgesOf({"call"}))
<1>1. /\ \A s \in Sites({"call"}) : <<FunOf(s), Callee(s)>> \in P
      /\ \A f, g, h : <<f, g>> \in P /\ <<g, h>> \in P => <<f, h>> \in P
      /\ P \subseteq Funs \X Funs
  BY CallPaths
<1>2. \A T : WithCallees(T) = T \cup {e[2] : e \in {d \in P : d[1] \in T}}
  BY DEF WithCallees
<1> HIDE DEF P
<1>3. \A T, g : g \in WithCallees(T) <=> g \in T \/ \E f \in T : <<f, g>> \in P
  <2> SUFFICES ASSUME NEW T, NEW g
               PROVE  g \in WithCallees(T) <=> g \in T \/ \E f \in T : <<f, g>> \in P
    OBVIOUS
  <2>1. \A d \in P : d = <<d[1], d[2]>>
    BY <1>1
  <2>2. (\E d \in P : d[1] \in T /\ g = d[2]) <=> \E f \in T : <<f, g>> \in P
    BY <2>1
  <2> QED  BY <1>2, <2>2
<1>4. \A s \in Sites({"call"}) : FunOf(s) \in WithCallees(S) => Callee(s) \in WithCallees(S)
  BY <1>1, <1>3
<1>5. ASSUME NEW f \in WithCallees(S), NEW g \in WithCallees({f}) PROVE g \in WithCallees(S)
  <2>1. g = f \/ <<f, g>> \in P
    <3>1. g \in {f} \/ \E h \in {f} : <<h, g>> \in P
      BY <1>3
    <3> QED  BY <3>1
  <2>2. f \in S \/ \E h \in S : <<h, f>> \in P
    BY <1>3
  <2>3. g \in S \/ \E h \in S : <<h, g>> \in P
    BY <1>1, <2>1, <2>2
  <2> QED  BY <1>3, <2>3
<1> QED  BY <1>3, <1>4, <1>5

LEMMA CallersFacts ==
    ASSUME ProgInv
    PROVE  /\ \A s \in Sites({"fork"}) : FunOf(s) \in Spawners /\ Callee(s) \in Spawnees
           /\ \A s \in Sites({"call"}) : \A f \in WithCallees({Callee(s)}) :
                f \in Spawners => Callee(s) \in Spawners /\ FunOf(s) \in Spawners
<1> DEFINE P == PathsOf(EdgesOf({"call"}))
           S == {FunOf(s) : s \in Sites({"fork"})}
<1>1. /\ \A s \in Sites({"call"}) : <<FunOf(s), Callee(s)>> \in P
      /\ \A f, g, h : <<f, g>> \in P /\ <<g, h>> \in P => <<f, h>> \in P
      /\ P \subseteq Funs \X Funs
  BY CallPaths
<1>2. \A T : /\ WithCallees(T) = T \cup {e[2] : e \in {d \in P : d[1] \in T}}
             /\ WithCallers(T) = T \cup {e[1] : e \in {d \in P : d[2] \in T}}
  BY DEF WithCallees, WithCallers
<1> HIDE DEF P
<1>3. \A d \in P : d = <<d[1], d[2]>>
  BY <1>1
<1>4. \A g : g \in WithCallers(S) <=> g \in S \/ \E f \in S : <<g, f>> \in P
  <2> SUFFICES ASSUME NEW g PROVE g \in WithCallers(S) <=> g \in S \/ \E f \in S : <<g, f>> \in P
    OBVIOUS
  <2> HIDE DEF S
  <2>1. (\E d \in P : d[2] \in S /\ g = d[1]) <=> \E f \in S : <<g, f>> \in P
    BY <1>3
  <2> QED  BY <1>2, <2>1
<1>5. \A f, g : g \in WithCallees({f}) => g = f \/ <<f, g>> \in P
  BY <1>2, <1>3
<1>6. Spawners = WithCallers(S)
  BY DEF Spawners
<1>7. \A s \in Sites({"fork"}) : FunOf(s) \in S
  OBVIOUS
<1> HIDE DEF S
<1>8. \A s \in Sites({"fork"}) : FunOf(s) \in Spawners
  BY <1>4, <1>6, <1>7
<1>9. \A s \in Sites({"fork"}) : Callee(s) \in Spawnees
  BY CalleesFacts DEF Spawnees
<1>10. ASSUME NEW s \in Sites({"call"}), NEW f \in WithCallees({Callee(s)}), f \in Spawners
       PROVE  Callee(s) \in Spawners /\ FunOf(s) \in Spawners
  <2>1. f = Callee(s) \/ <<Callee(s), f>> \in P
    BY <1>5
  <2>2. f \in S \/ \E g \in S : <<f, g>> \in P
    BY <1>4, <1>6, <1>10
  <2>3. Callee(s) \in S \/ \E g \in S : <<Callee(s), g>> \in P
    BY <1>1, <2>1, <2>2
  <2>4. \E g \in S : <<FunOf(s), g>> \in P
    BY <1>1, <2>3
  <2> QED  BY <1>4, <1>6, <2>3, <2>4
<1> QED  BY <1>8, <1>9, <1>10

\* What follows a spawn site, and what is called there.
LEMMA AfterSpawnFacts ==
    ASSUME ProgInv
    PROVE  /\ SpawnSites \subseteq AfterSpawn
           /\ \A a \in AfterSpawn : /\ a \in Stmts /\ FunOf(a) \in Spawners
                                    /\ Succs(a) \subseteq AfterSpawn
           /\ \A f \in Covered : f \in Spawners \cup Spawnees \cup Followers
           /\ \A y \in Sites({"call"}) : FunOf(y) \in Covered => Callee(y) \in Covered
           /\ \A y \in Sites({"call"}) \cap AfterSpawn : Callee(y) \notin Spawners => Callee(y) \in Covered
<1>1. ASSUME NEW x \in SpawnSites
      PROVE  /\ x \in BlocksAfter(x) /\ FunOf(x) \in Spawners
             /\ \A a \in BlocksAfter(x) : a \in Stmts /\ FunOf(a) = FunOf(x) /\ Succs(a) \subseteq BlocksAfter(x)
  <2>1. x \in Stmts /\ FunOf(x) \in Funs /\ FunOf(x) \in Spawners
    <3>1. ASSUME x \in Sites({"call"}), Callee(x) \in Spawners PROVE FunOf(x) \in Spawners
      BY <3>1, CalleesFacts, CallersFacts
    <3> QED  BY <3>1, CallSitesSplit, CallersFacts DEF SpawnSites
  <2> DEFINE f == FunOf(x)
             S == StmtsOf(f)
             F == [s \in StmtsOf(f) |-> Succs(s)]
             B == BlockOf(x)
  <2>2. \A a : a \in S <=> a \in Stmts /\ FunOf(a) = f
    BY <2>1, StmtFacts DEF ProgInv, StmtsOf, FunOf
  <2>3. x \in B /\ B \subseteq S
    BY <2>1, <2>2 DEF BlockOf
  <2>4. \A s \in S : Succs(s) \subseteq S
    BY <2>2, SuccFacts DEF ProgInv
  <2>5. IsFiniteSet(S)
    <3>1. S \subseteq Stmts
      BY <2>2
    <3> QED  BY <3>1, StmtsFinite, FS_Subset DEF ProgInv
  <2>6. BlocksAfter(x) = ReachedFrom(B, F)
    BY DEF BlocksAfter
  <2> HIDE DEF B, S
  <2>7. Graph(S, B, F) /\ \A s \in S : F[s] = Succs(s)
    BY <2>3, <2>4, <2>5 DEF Graph, S
  <2> HIDE DEF F
  <2>8. /\ B \subseteq ReachedFrom(B, F) /\ ReachedFrom(B, F) \subseteq S
        /\ \A a \in ReachedFrom(B, F) : F[a] \subseteq ReachedFrom(B, F)
    BY <2>7, ReachedClosed
  <2> QED  BY <2>1, <2>2, <2>3, <2>6, <2>7, <2>8
<1>2. SpawnSites \subseteq AfterSpawn
      /\ \A a \in AfterSpawn : a \in Stmts /\ FunOf(a) \in Spawners /\ Succs(a) \subseteq AfterSpawn
  BY <1>1 DEF AfterSpawn
<1>3. \A f \in Covered : f \in Spawners \cup Spawnees \cup Followers
  BY CalleesFacts DEF Covered
<1>4. \A y \in Sites({"call"}) : FunOf(y) \in Covered => Callee(y) \in Covered
  <2> SUFFICES ASSUME NEW y \in Sites({"call"}), FunOf(y) \in Covered PROVE Callee(y) \in Covered
    OBVIOUS
  <2>1. Callee(y) \in WithCallees({FunOf(y)})
    BY CalleesFacts
  <2>2. WithCallees({Callee(y)}) \subseteq WithCallees({FunOf(y)})
    BY <2>1, CalleesFacts
  <2> QED  BY <2>2, CallSitesSplit DEF Covered
<1>5. ASSUME NEW y \in Sites({"call"}) \cap AfterSpawn, Callee(y) \notin Spawners
      PROVE  Callee(y) \in Covered
  <2>1. y \notin SpawnSites
    BY <1>5, CallersFacts DEF SpawnSites, Sites
  <2>2. Callee(y) \in IdentifiedFollowers
    BY <1>5, <2>1 DEF IdentifiedFollowers, AfterSpawn
  <2>3. Callee(y) \in Followers
    BY <2>2, CalleesFacts DEF Followers
  <2>4. WithCallees({Callee(y)}) \subseteq Followers
    BY <2>3, CalleesFacts DEF Followers
  <2> QED  BY <2>4, CallSitesSplit DEF Covered
<1> QED  BY <1>2, <1>3, <1>4, <1>5

LEMMA CoveredFixed ==
    ASSUME FixedNext, UNCHANGED fixedVars
    PROVE  /\ Spawners' = Spawners /\ Spawnees' = Spawnees /\ Followers' = Followers
           /\ AfterSpawn' = AfterSpawn /\ Covered' = Covered
           /\ LateSpawnersAreCovered' = LateSpawnersAreCovered
           /\ \A S : WithCallees(S)' = WithCallees(S)
<1>1. code' = code
  BY DEF fixedVars
<1>2. EdgesOf({"call"})' = EdgesOf({"call"}) /\ Funs' = Funs
  BY DEF FixedNext, EdgesOf
<1> DEFINE E == EdgesOf({"call"})
<1> HIDE DEF E
<1>3. PathsOf(E)' = PathsOf(E)
  <2>1. E' = E /\ Funs' = Funs
    BY <1>2 DEF E
  <2> QED  BY <2>1 DEF PathsOf
<1>4. \A S : WithCallees(S)' = WithCallees(S) /\ WithCallers(S)' = WithCallers(S)
  BY <1>3 DEF WithCallees, WithCallers, E
<1>5. Spawners' = Spawners /\ Spawnees' = Spawnees /\ SpawnSites' = SpawnSites
  BY <1>4 DEF Spawners, Spawnees, SpawnSites, FixedNext
<1>6. \A x : BlocksAfter(x)' = BlocksAfter(x) /\ BlockOf(x)' = BlockOf(x)
  BY <1>1 DEF BlocksAfter, BlockOf, Stmts, StmtsOf, Funs, Leaders, JumpTargets, Sites, Op, Stmt,
              Succs
<1>7. AfterSpawn' = AfterSpawn
  BY <1>5, <1>6 DEF AfterSpawn
<1>8. IdentifiedFollowers' = IdentifiedFollowers
  BY <1>5, <1>6 DEF IdentifiedFollowers, FixedNext
<1>9. Followers' = Followers
  BY <1>4, <1>8 DEF Followers
<1>10. Covered' = Covered
  BY <1>2, <1>4, <1>5, <1>9 DEF Covered
<1>11. LateSpawnersAreCovered' = LateSpawnersAreCovered
  BY <1>5, <1>7, <1>10 DEF LateSpawnersAreCovered, FixedNext
<1> QED  BY <1>4, <1>5, <1>7, <1>9, <1>10, <1>11

LEMMA PCGInvStep ==
    ASSUME PCGInv, [Next]_vars PROVE PCGInv'
<1>0. /\ Spawners' = Spawners /\ Spawnees' = Spawnees /\ Followers' = Followers
  BY StepCases, FixedPrimed, CoveredFixed
<1>1. CASE stage' \in {"done", "run"} /\ stage \in {"done", "run"}
  <2>1. pcg' = pcg
    <3>1. CASE Run \/ Execute \/ UNCHANGED vars
      BY <3>1 DEF Run, Execute, ExecAccess, ExecJump, ExecLoop, ExecCall, ExecRet, ExecFork, ExecJoin,
                ExecLock, ExecUnlock, Executing, vars, analysisVars
    <3>2. CASE Analysis
      <4>1. ~InferFromCallGraph
        BY <1>1 DEF InferFromCallGraph
      <4> QED  BY <3>2, <4>1 DEF Analysis
    <3> QED  BY <3>1, <3>2 DEF Next
  <2> QED  BY <1>0, <1>1, <2>1 DEF PCGInv
<1>2. CASE stage' \in {"done", "run"} /\ stage \notin {"done", "run"}
  <2>1. InferFromCallGraph
    <3>1. LaterStep
      BY <1>2, StepCases, TreeFrame, ForkJoinFrame, MHPFrame, LockFrame DEF vars, progVars
    <3> QED  BY <1>2, <3>1 DEF LaterStep, PairStep, StartPairs, SkipLocal, PairUp, FinishPairs,
               Run, Execute, ExecAccess, ExecJump, ExecLoop, ExecCall, ExecRet, ExecFork, ExecJoin,
                ExecLock, ExecUnlock, Executing, progVars
  <2> QED  BY <1>0, <2>1 DEF InferFromCallGraph, PCGInv
<1> QED  BY <1>1, <1>2 DEF PCGInv

\* Where the frames come from: they were there before, and have gone on if they are on top
\* now, or a call or a fork has begun them.
IsOld(i, d) ==
    /\ i \in DOMAIN threads /\ d \in Frames(i)
    /\ FunOf(threads'[i].stack[d].at) = FunOf(threads[i].stack[d].at)
    /\ threads'[i].stack[d].cxt = threads[i].stack[d].cxt
    /\ \/ threads'[i].stack[d].at = threads[i].stack[d].at
       \/ d = Depth(i)' /\ threads'[i].stack[d].at \in Succs(threads[i].stack[d].at)
IsCalled(a, i, d) ==
    /\ i = a /\ d = Depth(a) + 1 /\ d = Depth(i)' /\ Op(Top(a).at) = "call"
    /\ FunOf(threads'[i].stack[d].at) = Callee(Top(a).at)
    /\ threads'[i].stack[d].at = Entry(Callee(Top(a).at))
    /\ threads'[i].stack[d].cxt = pushCxt(Top(a).cxt, Top(a).at)
IsForked(a, i, d) ==
    /\ i \notin DOMAIN threads /\ d = 1 /\ d = Depth(i)' /\ Op(Top(a).at) = "fork"
    /\ FunOf(threads'[i].stack[d].at) = Callee(Top(a).at)
    /\ threads'[i].stack[d].at = Entry(Callee(Top(a).at))
    /\ threads'[i].stack[d].cxt = pushCxt(Top(a).cxt, Top(a).at)
    /\ threads'[i].cxt = threads'[i].stack[d].cxt
    /\ threads'[i].fork = Top(a).at /\ threads'[i].parent = a

LEMMA FrameOrigin ==
    ASSUME ProgInv, RunInv, RunInv', NEW a \in Running, Untouched(a), Runs(a),
           NEW i \in DOMAIN threads', NEW d \in Frames(i)'
    PROVE  IsOld(i, d) \/ IsCalled(a, i, d) \/ IsForked(a, i, d)
<1> DEFINE n == Depth(a)
           at == threads[i].stack[d].at
           go == threads'[i].stack[d].at
<1>1. /\ n \in Nat \ {0} /\ n \in Frames(a) /\ a \in DOMAIN threads /\ Frames(a) = 1..n
      /\ Top(a) = threads[a].stack[n] /\ Top(a).at \in Stmts
  BY RunningTop, FrameFacts
<1>2. Frames(i)' = 1..(Depth(i)') /\ Depth(i)' \in Nat
  BY FramesPrimed
<1>3. ASSUME i \in DOMAIN threads, d \in Frames(i), go \in Succs(at), d = Depth(i)',
             threads'[i].stack[d].cxt = threads[i].stack[d].cxt
      PROVE  IsOld(i, d)
  <2>1. FunOf(go) = FunOf(at)
    BY <1>3, FrameFacts, SuccFacts DEF ProgInv
  <2> QED  BY <1>3, <2>1 DEF IsOld
<1>4. ASSUME i \in DOMAIN threads, i # a PROVE IsOld(i, d)
  BY <1>4 DEF Untouched, IsOld, Frames
<1>5. ASSUME i = a, d \in 1..n, threads'[a].stack[d] = threads[a].stack[d] PROVE IsOld(i, d)
  BY <1>1, <1>5 DEF IsOld
<1>6. ASSUME i = a, NEW m \in {n - 1, n}, Depth(a)' = m, Below(a, m - 1), m >= 1,
             \E t \in Succs(threads[a].stack[m].at) : MovesTo(a, m, t)
      PROVE  IsOld(i, d)
  <2>1. d \in 1..m /\ d \in Frames(i) /\ i \in DOMAIN threads /\ m \in Nat
    BY <1>1, <1>2, <1>6
  <2>2. CASE d = m
    BY <1>3, <1>6, <2>1, <2>2 DEF MovesTo
  <2>3. CASE d # m
    <3>1. d \in 1..(m - 1) /\ d \in 1..n
      BY <1>1, <1>6, <2>1, <2>3
    <3> QED  BY <1>5, <1>6, <3>1 DEF Below
  <2> QED  BY <2>2, <2>3
<1>7. CASE i = a /\ Goes(a)
  BY <1>1, <1>6, <1>7 DEF Goes
<1>8. CASE Enters(a) /\ i = a
  <2>1. d = n + 1 => /\ go = Entry(Callee(Top(a).at))
                     /\ threads'[i].stack[d].cxt = pushCxt(Top(a).cxt, Top(a).at)
    BY <1>8 DEF Enters
  <2>2. CASE d = n + 1
    <3>1. FunOf(go) = Callee(Top(a).at)
      BY <2>1, <2>2 DEF Entry, FunOf
    <3> QED  BY <1>8, <2>1, <2>2, <3>1 DEF Enters, IsCalled
  <2>3. CASE d # n + 1
    <3>1. d \in 1..n
      BY <1>1, <1>2, <1>8, <2>3 DEF Enters
    <3> QED  BY <1>5, <1>8, <3>1 DEF Enters, Below
  <2> QED  BY <2>2, <2>3
<1>9. CASE Leaves(a) /\ i = a
  <2>1. Depth(a)' = n - 1 /\ Below(a, n - 2) /\ n - 1 >= 1
    BY <1>1, <1>2, <1>9 DEF Leaves
  <2> DEFINE m == n - 1
             low == threads[a].stack[m].at
  <2>2. m \in Frames(a) /\ m # n /\ MovesTo(a, m, After(low))
    BY <1>1, <1>9, <2>1 DEF Leaves
  <2>3. After(low) \in Succs(low)
    BY <1>1, <2>2, FrameFacts, NextStmt
  <2> HIDE DEF low
  <2>4. \E t \in Succs(threads[a].stack[m].at) : MovesTo(a, m, t)
    BY <2>2, <2>3 DEF low
  <2>5. Depth(a)' = m /\ Below(a, m - 1) /\ m >= 1 /\ m \in {n - 1, n}
    BY <1>1, <2>1
  <2> HIDE DEF m
  <2> QED  BY <1>6, <1>9, <2>4, <2>5
<1>10. ASSUME NEW k, Forks(a, k) PROVE IsOld(i, d) \/ IsForked(a, i, d)
  <2>1. k \notin DOMAIN threads
    BY ListIndex, <1>10 DEF Forks, RunInv
  <2>2. CASE i = a
    <3>1. After(Top(a).at) \in Succs(Top(a).at)
      BY <1>1, <1>10, NextStmt DEF Forks
    <3> QED  BY <1>1, <1>6, <1>10, <2>2, <3>1 DEF Forks
  <2>3. CASE i = k
    <3>1. Depth(i)' = 1 /\ (d = 1 => go = Entry(Callee(Top(a).at)))
      BY <1>10, <2>3 DEF Forks, Depth
    <3>2. d = 1
      BY <1>2, <3>1
    <3>3. FunOf(go) = Callee(Top(a).at)
      BY <3>1, <3>2 DEF Entry, FunOf
    <3> QED  BY <1>10, <2>1, <2>3, <3>1, <3>2, <3>3 DEF Forks, IsForked
  <2> QED  BY <1>4, <1>10, <2>2, <2>3 DEF Forks
<1>11. CASE i \in DOMAIN threads /\ i # a
  BY <1>4, <1>11
<1> QED  BY <1>7, <1>8, <1>9, <1>10, <1>11 DEF Runs, Goes, Enters, Leaves

LEMMA CallsLeadStep ==
    ASSUME ProgInv, RunInv, RunInv', FixedNext, UNCHANGED fixedVars, CallsLead,
           NEW a \in Running, Untouched(a), Runs(a)
    PROVE  CallsLead'
<1>0. (\A S : WithCallees(S)' = WithCallees(S)) /\ \A s : Callee(s)' = Callee(s)
  BY CoveredFixed DEF FixedNext
<1>1. ASSUME NEW i \in DOMAIN threads', NEW d \in Frames(i)', NEW e \in Frames(i)', d < e
      PROVE  FunOf(threads'[i].stack[e].at) \in WithCallees({Callee(threads'[i].stack[d].at)})
  <2> DEFINE f == Callee(threads[i].stack[d].at)
  <2>1. Frames(i)' = 1..(Depth(i)') /\ Depth(i)' \in Nat
    BY FramesPrimed
  <2>2. IsOld(i, d) /\ threads'[i].stack[d].at = threads[i].stack[d].at
    <3>1. d # Depth(i)'
      BY <1>1, <2>1
    <3> QED  BY <3>1, FrameOrigin DEF IsOld, IsCalled, IsForked
  <2>3. i \in DOMAIN threads /\ d \in Frames(i)
    BY <2>2 DEF IsOld
  <2>4. CASE IsOld(i, e)
    BY <1>1, <2>2, <2>3, <2>4 DEF IsOld, CallsLead
  <2>5. CASE IsCalled(a, i, e)
    <3>1. i = a /\ e = Depth(a) + 1 /\ FunOf(threads'[i].stack[e].at) = Callee(Top(a).at)
          /\ Top(a).at \in Sites({"call"}) /\ Top(a) = threads[a].stack[Depth(a)]
          /\ Depth(a) \in Frames(a) /\ Depth(a) \in Nat /\ d <= Depth(a)
      BY <1>1, <2>1, <2>5, RunningTop DEF IsCalled, Sites
    <3>2. CASE d = Depth(a)
      BY <2>2, <3>1, <3>2, CalleesFacts
    <3>3. CASE d < Depth(a)
      <4>1. FunOf(Top(a).at) \in WithCallees({f})
        BY <2>3, <3>1, <3>3 DEF CallsLead
      <4>2. Callee(Top(a).at) \in WithCallees({f})
        BY <3>1, <4>1, CalleesFacts
      <4> QED  BY <2>2, <3>1, <4>2
    <3>4. d = Depth(a) \/ d < Depth(a)
      BY <2>1, <3>1
    <3> QED  BY <3>2, <3>3, <3>4
  <2>6. ~IsForked(a, i, e)
    BY <2>3 DEF IsForked
  <2> QED  BY <2>4, <2>5, <2>6, FrameOrigin
<1> QED  BY <1>0, <1>1 DEF CallsLead

LEMMA ForkedInSpawneesStep ==
    ASSUME ProgInv, RunInv, RunInv', FixedNext, UNCHANGED fixedVars, ForkedInSpawnees,
           NEW a \in Running, Untouched(a), Runs(a)
    PROVE  ForkedInSpawnees'
<1>0. Spawnees' = Spawnees
  BY CoveredFixed
<1>1. ASSUME NEW i \in DOMAIN threads' \ {1}, NEW d \in Frames(i)'
      PROVE  FunOf(threads'[i].stack[d].at) \in Spawnees
  <2>1. Top(a) = threads[a].stack[Depth(a)] /\ Depth(a) \in Frames(a) /\ a \in DOMAIN threads
        /\ Top(a).at \in Stmts
    BY RunningTop
  <2>2. CASE IsOld(i, d)
    BY <2>2 DEF IsOld, ForkedInSpawnees
  <2>3. CASE IsCalled(a, i, d)
    <3>1. Top(a).at \in Sites({"call"}) /\ FunOf(Top(a).at) \in Spawnees
      BY <2>1, <2>3 DEF IsCalled, Sites, ForkedInSpawnees
    <3> QED  BY <2>3, <3>1, CalleesFacts DEF IsCalled, Spawnees
  <2>4. CASE IsForked(a, i, d)
    <3>1. Top(a).at \in Sites({"fork"})
      BY <2>1, <2>4 DEF IsForked, Sites
    <3> QED  BY <2>4, <3>1, CallersFacts DEF IsForked
  <2> QED  BY <2>2, <2>3, <2>4, FrameOrigin
<1> QED  BY <1>0, <1>1 DEF ForkedInSpawnees

LEMMA MainIsCoveredStep ==
    ASSUME ProgInv, RunInv, RunInv', FixedNext, UNCHANGED fixedVars, CallsLead, MainIsCovered,
           LateSpawnersAreCovered, NEW a \in Running, Untouched(a), Runs(a)
    PROVE  MainIsCovered'
<1>0. Covered' = Covered /\ AfterSpawn' = AfterSpawn
  BY CoveredFixed
<1> DEFINE Safe(s) == FunOf(s) \in Covered \/ s \in AfterSpawn
<1>1. Top(a) = threads[a].stack[Depth(a)] /\ Depth(a) \in Frames(a) /\ a \in DOMAIN threads
      /\ Top(a).at \in Stmts /\ 1 \in DOMAIN threads /\ 1 \in DOMAIN threads'
  <2>1. a \in DOMAIN threads /\ DOMAIN threads = 1..Len(threads) /\ Len(threads) \in Nat
    BY RunningTop, ListIndex DEF RunInv
  <2>2. 1 \in DOMAIN threads
    BY <2>1
  <2> QED  BY <2>2, RunningTop DEF Untouched
<1>2. ASSUME 2 \in DOMAIN threads, NEW d \in Frames(1)' PROVE Safe(threads'[1].stack[d].at)
  <2>1. \A e \in Frames(1) : Safe(threads[1].stack[e].at)
    BY <1>2 DEF MainIsCovered
  <2>2. CASE IsOld(1, d)
    BY <2>1, <2>2, AfterSpawnFacts DEF IsOld
  <2>3. CASE IsCalled(a, 1, d)
    <3>1. Top(a).at \in Sites({"call"}) /\ Safe(Top(a).at)
      BY <1>1, <2>1, <2>3 DEF IsCalled, Sites
    <3>2. Callee(Top(a).at) \in Covered
      BY <3>1, AfterSpawnFacts DEF LateSpawnersAreCovered
    <3> QED  BY <2>3, <3>2 DEF IsCalled
  <2>4. ~IsForked(a, 1, d)
    BY <1>1 DEF IsForked
  <2> QED  BY <1>1, <2>2, <2>3, <2>4, FrameOrigin
<1>3. ASSUME 2 \notin DOMAIN threads, 2 \in DOMAIN threads', NEW d \in Frames(1)'
      PROVE  Safe(threads'[1].stack[d].at)
  <2>0. DOMAIN threads = 1..Len(threads) /\ Len(threads) \in Nat
    BY ListIndex DEF RunInv
  <2>1. a = 1 /\ \E k : Forks(a, k)
    BY <1>1, <1>3, <2>0 DEF Runs, Goes, Enters, Leaves
  <2>2. /\ Depth(1)' = Depth(1) /\ Below(1, Depth(1) - 1)
        /\ MovesTo(1, Depth(1), After(Top(1).at)) /\ Op(Top(1).at) = "fork"
    BY <2>1 DEF Forks
  <2>3. Depth(1) \in Nat \ {0} /\ Frames(1) = 1..Depth(1) /\ Frames(1)' = 1..Depth(1)
    BY <1>1, <2>1, <2>2, RunningTop, FrameFacts, FramesPrimed
  <2>4. Top(1).at \in Sites({"fork"}) /\ Top(1).at \in SpawnSites /\ Top(1).at \in Stmts
    BY <1>1, <2>1, <2>2 DEF Sites, SpawnSites
  <2>5. CASE d = Depth(1)
    <3>1. After(Top(1).at) \in Succs(Top(1).at)
      BY <2>2, <2>4, NextStmt
    <3> QED  BY <2>2, <2>4, <2>5, <3>1, AfterSpawnFacts DEF MovesTo
  <2>6. CASE d # Depth(1)
    <3>1. d \in 1..(Depth(1) - 1) /\ d \in Frames(1) /\ d < Depth(1) /\ Depth(1) \in Frames(1)
      BY <2>3, <2>6
    <3>2. threads'[1].stack[d] = threads[1].stack[d]
      BY <2>2, <3>1 DEF Below
    <3> DEFINE s == threads[1].stack[d].at
    <3>3. s \in Sites({"call"})
      BY <1>1, <2>6, <3>1, FrameFacts DEF Sites
    <3>4. FunOf(Top(1).at) \in WithCallees({Callee(s)})
      BY <1>1, <2>1, <3>1 DEF CallsLead
    <3>5. Callee(s) \in Spawners
      BY <2>4, <3>3, <3>4, CallersFacts
    <3>6. s \in SpawnSites
      BY <3>3, <3>5 DEF SpawnSites
    <3> QED  BY <3>2, <3>6, AfterSpawnFacts
  <2> QED  BY <2>5, <2>6
<1> QED  BY <1>0, <1>2, <1>3 DEF MainIsCovered

LEMMA FunsInvStep ==
    ASSUME ProgInv, RunInv, RunInv', FunsInv, [Next]_vars PROVE FunsInv'
<1>0. UNCHANGED fixedVars /\ FixedNext
  BY StepCases, FixedPrimed
<1>1. CASE Execute
  <2>1. PICK a \in Running : Untouched(a) /\ Runs(a)
    BY <1>1, ExecuteEffect
  <2>2. LateSpawnersAreCovered' = LateSpawnersAreCovered
    BY <1>0, CoveredFixed
  <2> QED  BY <1>0, <2>1, <2>2, CallsLeadStep, ForkedInSpawneesStep, MainIsCoveredStep DEF FunsInv
<1>2. CASE Run
  <2>1. DOMAIN threads' = {1} /\ Frames(1)' = {1}
    BY <1>2, RunBegins DEF Frames
  <2> QED  BY <2>1 DEF FunsInv, CallsLead, ForkedInSpawnees, MainIsCovered
<1>3. CASE ~Execute /\ ~Run
  <2>1. threads' = threads
    BY <1>3, RunFrame DEF runVars
  <2>2. CallsLead' = CallsLead /\ ForkedInSpawnees' = ForkedInSpawnees
        /\ MainIsCovered' = MainIsCovered /\ LateSpawnersAreCovered' = LateSpawnersAreCovered
    <3>1. \A i : Frames(i)' = Frames(i)
      BY <2>1 DEF Frames
    <3> QED  BY <1>0, <2>1, <3>1, CoveredFixed
             DEF CallsLead, ForkedInSpawnees, MainIsCovered, FixedNext
  <2> QED  BY <2>2 DEF FunsInv
<1> QED  BY <1>1, <1>2, <1>3

LEMMA CoveredIfParallel ==
    ASSUME ProgInv, RunInv, PCGInv, FunsInv, LateSpawnersAreCovered PROVE ParallelFunsCovered
<1> DEFINE all == Spawners \cup Spawnees \cup Followers
           fun(i) == FunOf(Top(i).at)
<1>1. ASSUME NEW i \in Running, 2 \in DOMAIN threads
      PROVE  fun(i) \in all /\ (i # 1 => fun(i) \in Spawnees)
  <2>1. i \in DOMAIN threads /\ Depth(i) \in Frames(i) /\ Top(i) = threads[i].stack[Depth(i)]
    BY RunningTop
  <2> QED  BY <1>1, <2>1, AfterSpawnFacts DEF FunsInv, ForkedInSpawnees, MainIsCovered
<1>2. ASSUME NEW i \in Running, NEW j \in Running, i # j
      PROVE  mayHappenInParallelBetweenFunctions(fun(i), fun(j))
  <2>1. i \in DOMAIN threads /\ j \in DOMAIN threads /\ 2 \in DOMAIN threads
    <3>1. DOMAIN threads = 1..Len(threads) /\ Len(threads) \in Nat
      BY ListIndex DEF RunInv
    <3> QED  BY <1>2, <3>1 DEF Running
  <2>2. fun(i) \in all /\ fun(j) \in all /\ (fun(i) \in Spawnees \/ fun(j) \in Spawnees)
    BY <1>1, <1>2, <2>1
  <2>3. stage = "run"
    BY <2>1, ListEmpty DEF RunInv
  <2>4. pcg = [spawners |-> Spawners, spawnees |-> Spawnees, followers |-> Followers]
    BY <2>3 DEF PCGInv
  <2>5. pcg.spawners = Spawners /\ pcg.spawnees = Spawnees /\ pcg.followers = Followers
    BY <2>4
  <2> HIDE DEF fun
  <2> QED  BY <2>2, <2>5 DEF mayHappenInParallelBetweenFunctions
<1> QED  BY <1>2 DEF ParallelFunsCovered

\* The procedure creation graph is coarser than the runs (PCG.h:111), of a program in which
\* what a spawner calls that is itself called after a spawn site is in the graph: the
\* functions two threads are in may happen in parallel.
THEOREM CoarserThanRuns == Spec => [](LateSpawnersAreCovered => ParallelFunsCovered)
<1>1. Init => PCGInv /\ FunsInv
  <2>1. Init => DOMAIN threads = {} /\ stage = "tct"
    BY ListEmpty DEF Init
  <2> QED  BY <2>1 DEF PCGInv, FunsInv, CallsLead, ForkedInSpawnees, MainIsCovered, Frames
<1>2. WholeInv /\ WholeInv' /\ PCGInv /\ FunsInv /\ [Next]_vars => PCGInv' /\ FunsInv'
  BY PCGInvStep, FunsInvStep DEF WholeInv
<1>3. WholeInv /\ PCGInv /\ FunsInv => (LateSpawnersAreCovered => ParallelFunsCovered)
  BY CoveredIfParallel DEF WholeInv
<1> QED  BY <1>1, <1>2, <1>3, WalksStayOnTheTree, PTL DEF Spec

-----------------------------------------------------------------------------
(* The runs of programs that fork outside of recursion and join nothing.   *)

\* The frames of a stack call one another; the context on the way to a fork is the context of
\* the thread, and calls.
StackShape ==
    \A i \in DOMAIN threads : \A d \in Frames(i) :
        LET st == threads[i].stack
        IN  /\ d # Depth(i) => /\ FunOf(st[d + 1].at) = Callee(st[d].at)
                               /\ st[d + 1].cxt = pushCxt(st[d].cxt, st[d].at)
            /\ FunOf(st[d].at) \in Forking =>
                /\ Continues(st[d].cxt, threads[i].cxt)
                /\ \A e \in Frames(i) : e < d => FunOf(st[e].at) \in Forking

\* What a step of a run leaves alone.
settledVars == <<fixedVars, treeVars, fjaVars, mhpVars>>

LEMMA RunFixed ==
    ASSUME UNCHANGED settledVars
    PROVE  /\ Tids' = Tids /\ nodes' = nodes /\ FixedNext
           /\ \A u, c, s : Met(u, c, s)' = Met(u, c, s)
           /\ \A u : Heirs(u)' = Heirs(u)
           /\ \A c, s : getTCTNode(c, s)' = getTCTNode(c, s)
           /\ TreeShape' = TreeShape
<1>0. UNCHANGED fixedVars
  BY DEF settledVars
<1>1. FixedNext
  BY <1>0, FixedPrimed
<1>2. nodes' = nodes /\ edges' = edges /\ interleaving' = interleaving /\ visitedCTPs' = visitedCTPs
  BY DEF settledVars, treeVars, mhpVars
<1>3. Tids' = Tids
  BY <1>2 DEF Tids
<1>4. \A u, c, s : Met(u, c, s)' = Met(u, c, s)
  BY <1>1, <1>2 DEF Met, RowOf, StopOf, FixedNext
<1>5. \A u : getAncestorThread(u)' = getAncestorThread(u)
  BY <1>2, <1>3 DEF getAncestorThread, Parents
<1>6. \A c, s : getTCTNode(c, s)' = getTCTNode(c, s)
  BY <1>2, <1>3 DEF getTCTNode, NodesOf
<1>7. TreeShape' = TreeShape
  BY <1>0, <1>2, <1>3, ShapeFixed DEF TreeShape
<1> QED  BY <1>1, <1>2, <1>3, <1>4, <1>5, <1>6, <1>7 DEF Heirs

LEMMA RunSettles ==
    ASSUME [Next]_vars, Execute \/ Run \/ stage = "run" PROVE UNCHANGED settledVars
<1>1. CASE LaterStep
  BY <1>1, LaterFrame DEF settledVars
<1>2. CASE Execute \/ Run
  BY <1>1, <1>2 DEF LaterStep
<1>3. CASE stage = "run" /\ ~LaterStep
  BY <1>3, StepCases, TreeFrame, ForkJoinFrame, MHPFrame, LockFrame
  DEF settledVars, vars, analysisVars
<1> QED  BY <1>2, <1>3, <1>1

\* The node of a thread has its context and its fork.
LEMMA NodeOfThread ==
    ASSUME RunInv, NEW i \in DOMAIN threads
    PROVE  /\ Node(i) \in Tids
           /\ nodes[Node(i)].cxt = threads[i].cxt /\ nodes[Node(i)].fork = threads[i].fork
<1> DEFINE S == NodesOf(threads[i].cxt, threads[i].fork)
<1>1. S # {} /\ S \subseteq Tids
  BY DEF RunInv, IsThread, NodesOf
<1>2. Node(i) = CHOOSE t \in Tids : t \in S
  BY DEF Node, getTCTNode
<1> HIDE DEF S
<1>3. Node(i) \in S
  BY <1>1, <1>2
<1> QED  BY <1>3 DEF S, NodesOf

LEMMA StackShapeRun ==
    ASSUME ProgInv, RunInv, RunInv', Run PROVE StackShape'
<1>1. /\ DOMAIN threads' = {1} /\ threads'[1].cxt = <<>> /\ Len(threads'[1].stack) = 1
      /\ DOMAIN threads'[1].stack = {1} /\ threads'[1].stack[1].cxt = <<>>
  BY RunBegins
<1>2. Continues(threads[1].stack[1].cxt, threads[1].cxt)'
  BY <1>1 DEF Continues
<1>3. \A i \in DOMAIN threads' : \A d \in Frames(i)' : i = 1 /\ d = 1 /\ d = Depth(i)'
  BY <1>1 DEF Frames, Depth
<1>4. \A i \in DOMAIN threads' : \A d, e \in Frames(i)' : ~(e < d)
  BY <1>3
<1> QED  BY <1>2, <1>3, <1>4 DEF StackShape

\* Every step of a run keeps the shape.
LEMMA StackShapeStep ==
    ASSUME ProgInv, NodeInv, RunInv, RunInv', FixedNext, UNCHANGED fixedVars,
           ForksOutsideRecursion, StackShape, NEW a \in Running, Untouched(a), Runs(a)
    PROVE  StackShape'
<1>0. /\ Forking' = Forking /\ \A u, v : Continues(u, v)' = Continues(u, v)
      /\ \A s : Callee(s)' = Callee(s) /\ \A c : pushCxt(c, s)' = pushCxt(c, s)
  BY ShapeFixed DEF FixedNext
<1>t. /\ a \in DOMAIN threads /\ Depth(a) \in Frames(a) /\ Depth(a) \in Nat \ {0}
      /\ Top(a) = threads[a].stack[Depth(a)] /\ Top(a).at \in Stmts /\ Frames(a) = 1..Depth(a)
  BY RunningTop, FrameFacts
<1>c. Top(a).cxt \in Seq(CallSites)
  <2> DEFINE w == <<Top(a).cxt, FunOf(Top(a).at)>>
  <2>1. w \in Walked /\ w[1] = Top(a).cxt
    BY <1>t, FrameFacts
  <2> HIDE DEF w
  <2> QED  BY <2>1, WalkedFacts
<1>s. Op(Top(a).at) \in {"call", "fork"} => Top(a).at \in CallSites
  BY <1>t DEF CallSites, Sites
<1> SUFFICES ASSUME NEW i \in DOMAIN threads', NEW d \in Frames(i)'
             PROVE  LET st == threads'[i].stack
                    IN  /\ d # Depth(i)' => /\ FunOf(st[d + 1].at) = Callee(st[d].at)
                                            /\ st[d + 1].cxt = pushCxt(st[d].cxt, st[d].at)
                        /\ FunOf(st[d].at) \in Forking =>
                            /\ Continues(st[d].cxt, threads'[i].cxt)
                            /\ \A e \in Frames(i)' : e < d => FunOf(st[e].at) \in Forking
  BY <1>0 DEF StackShape
<1> DEFINE st == threads'[i].stack
           Old(e) == IsOld(i, e) \/ IsCalled(a, i, e) \/ IsForked(a, i, e)
<1>1. Frames(i)' = 1..(Depth(i)') /\ Depth(i)' \in Nat
  BY FramesPrimed
<1>2. \A e \in Frames(i)' : Old(e)
  BY FrameOrigin
<1>3. ASSUME NEW e \in Frames(i)', IsOld(i, e), i \in DOMAIN threads
      PROVE  /\ e \in Frames(i) /\ FunOf(st[e].at) = FunOf(threads[i].stack[e].at)
             /\ st[e].cxt = threads[i].stack[e].cxt
             /\ e # Depth(i)' => st[e].at = threads[i].stack[e].at
  BY <1>3 DEF IsOld
<1>4. CASE i \in DOMAIN threads
  <2>1. threads'[i].cxt = threads[i].cxt /\ Frames(i) = 1..Depth(i) /\ Depth(i) \in Nat
    BY <1>4, FrameFacts DEF Untouched
  <2>2. \A e \in Frames(i)' : IsOld(i, e) \/ IsCalled(a, i, e)
    BY <1>2, <1>4 DEF IsForked
  <2>3. \A e \in Frames(i)' : e # Depth(i)' => IsOld(i, e)
    BY <2>2 DEF IsCalled
  <2>4. ASSUME IsCalled(a, i, d)
        PROVE  /\ d = Depth(i)' /\ i = a /\ d = Depth(a) + 1 /\ FunOf(st[d].at) = Callee(Top(a).at)
               /\ st[d].cxt = pushCxt(Top(a).cxt, Top(a).at) /\ Top(a).at \in CallSites
               /\ Op(Top(a).at) = "call"
    BY <1>s, <2>4 DEF IsCalled
  <2>5. ASSUME d # Depth(i)'
        PROVE  FunOf(st[d + 1].at) = Callee(st[d].at) /\ st[d + 1].cxt = pushCxt(st[d].cxt, st[d].at)
    <3>1. d + 1 \in Frames(i)' /\ IsOld(i, d)
      BY <1>1, <2>3, <2>5
    <3>2. d \in Frames(i) /\ st[d].at = threads[i].stack[d].at /\ st[d].cxt = threads[i].stack[d].cxt
      BY <1>3, <1>4, <2>5, <3>1
    <3>3. CASE IsOld(i, d + 1)
      <4>1. /\ d + 1 \in Frames(i) /\ FunOf(st[d + 1].at) = FunOf(threads[i].stack[d + 1].at)
            /\ st[d + 1].cxt = threads[i].stack[d + 1].cxt
        BY <1>3, <1>4, <3>1, <3>3
      <4>2. d # Depth(i)
        BY <2>1, <4>1
      <4> QED  BY <1>4, <3>2, <4>1, <4>2 DEF StackShape
    <3>4. CASE IsCalled(a, i, d + 1)
      <4>1. d = Depth(a) /\ i = a
        BY <1>1, <1>t, <3>4 DEF IsCalled
      <4> QED  BY <1>t, <3>2, <3>4, <4>1 DEF IsCalled
    <3> QED  BY <2>2, <3>1, <3>3, <3>4
  <2>6. ASSUME FunOf(st[d].at) \in Forking PROVE Continues(st[d].cxt, threads'[i].cxt)
    <3>1. CASE IsOld(i, d)
      BY <1>3, <1>4, <2>1, <2>6, <3>1 DEF StackShape
    <3>2. CASE IsCalled(a, i, d)
      <4>1. /\ FunOf(Top(a).at) \in Forking
            /\ pushCxt(Top(a).cxt, Top(a).at) = Append(Top(a).cxt, Top(a).at)
        BY <2>4, <2>6, <3>2, ForkingFacts
      <4>2. Continues(Top(a).cxt, threads[a].cxt)
        BY <1>t, <4>1 DEF StackShape
      <4>3. Len(threads[a].cxt) \in Nat
        BY <1>t, NodeOfThread, NodeCxts
      <4> QED  BY <1>c, <2>1, <2>4, <3>2, <4>1, <4>2, <4>3, ContinuesFacts
    <3> QED  BY <2>2, <3>1, <3>2
  <2>7. ASSUME FunOf(st[d].at) \in Forking, NEW e \in Frames(i)', e < d
        PROVE  FunOf(st[e].at) \in Forking
    <3>1. IsOld(i, e)
      BY <1>1, <2>3, <2>7
    <3>2. e \in Frames(i) /\ FunOf(st[e].at) = FunOf(threads[i].stack[e].at)
      BY <1>3, <1>4, <3>1
    <3>3. CASE IsOld(i, d)
      BY <1>3, <1>4, <2>7, <3>2, <3>3 DEF StackShape
    <3>4. CASE IsCalled(a, i, d)
      <4>1. FunOf(Top(a).at) \in Forking /\ i = a /\ d = Depth(a) + 1
        BY <2>4, <2>7, <3>4, ForkingFacts
      <4>2. e = Depth(a) \/ e < Depth(a)
        BY <1>t, <2>7, <3>2, <4>1
      <4> QED  BY <1>t, <3>2, <4>1, <4>2 DEF StackShape
    <3> QED  BY <2>2, <3>3, <3>4
  <2> QED  BY <2>5, <2>6, <2>7
<1>5. CASE i \notin DOMAIN threads
  <2>1. d = 1 /\ d = Depth(i)' /\ threads'[i].cxt = st[d].cxt
        /\ st[d].cxt = pushCxt(Top(a).cxt, Top(a).at) /\ Op(Top(a).at) = "fork"
    <3>1. ~IsCalled(a, i, d) /\ ~IsOld(i, d)
      BY <1>5, <1>t DEF IsCalled, IsOld
    <3> QED  BY <1>2, <3>1 DEF IsForked
  <2>2. st[d].cxt \in Seq(CallSites)
    <3> DEFINE c == Top(a).cxt
               x == Top(a).at
    <3>1. pushCxt(c, x) = Append(c, x) /\ x \in CallSites /\ c \in Seq(CallSites) /\ st[d].cxt = pushCxt(c, x)
      BY <1>c, <1>s, <2>1, ForkingFacts
    <3> HIDE DEF c, x
    <3> QED  BY <3>1
  <2>3. Continues(st[d].cxt, st[d].cxt)
    BY <2>2 DEF Continues
  <2> QED  BY <1>1, <2>1, <2>3
<1> QED  BY <1>4, <1>5

\* A forked thread's node continues the one of the thread that forked it.
Kin ==
    \A i \in DOMAIN threads : i # 1 =>
        /\ threads[i].parent # 0
        /\ Continues(nodes[Node(i)].forkCxt, nodes[Node(threads[i].parent)].cxt)

Shaped == ProgInv /\ WalkInv /\ NodeInv /\ RunInv /\ ForksOutsideRecursion /\ TreeShape

LEMMA SiteIsNone == ASSUME ProgInv PROVE \A l \in Sites({"fork"}) : l # NoSite
<1>1. \A l \in Stmts : l # NoSite
  BY StmtFacts DEF ProgInv, IsProgram, Funs
<1> QED  BY <1>1 DEF Sites

LEMMA KinFacts ==
    ASSUME Shaped, ForkInv, Kin, NEW i \in DOMAIN threads, i # 1
    PROVE  \E p \in DOMAIN threads :
            /\ p = threads[i].parent /\ p \in 1..(i - 1) /\ Node(i) # 1
            /\ getParentThread(Node(i)) = Node(p) /\ hasParentThread(Node(i))
            /\ Node(i) \in Children(Node(p)) /\ Heirs(Node(i)) \subseteq Heirs(Node(p))
<1> DEFINE p == threads[i].parent
<1>1. p \in 1..(i - 1) /\ i \in 1..Len(threads) /\ Len(threads) \in Nat /\ DOMAIN threads = 1..Len(threads)
  <2>1. DOMAIN threads = 1..Len(threads) /\ Len(threads) \in Nat
    BY ListIndex DEF Shaped, RunInv
  <2>2. p \in 0..(i - 1) /\ p # 0
    BY DEF Shaped, RunInv, Kin
  <2> QED  BY <2>1, <2>2
<1>2. p \in DOMAIN threads /\ Continues(nodes[Node(i)].forkCxt, nodes[Node(p)].cxt)
  BY <1>1 DEF Kin
<1> HIDE DEF p
<1>3. Node(i) \in Tids /\ Node(p) \in Tids /\ nodes[Node(i)].fork = threads[i].fork
  BY <1>2, NodeOfThread DEF Shaped
<1>4. Node(i) # 1
  <2>1. threads[i].fork # NoSite
    BY SiteIsNone DEF ForkInv, Shaped
  <2> QED  BY <1>3, <2>1 DEF NodeInv, Shaped
<1> DEFINE u == Node(i)
           v == Node(p)
<1> HIDE DEF u, v
<1>5. Parents(u) = {v} /\ hasParentThread(u) /\ getParentThread(u) = v /\ u \in Children(v)
  BY <1>2, <1>3, <1>4, ParentIs DEF Shaped, u, v
<1>6. Heirs(u) \subseteq Heirs(v)
  BY <1>3, <1>5, HeirsFacts DEF Shaped, u, v
<1> QED  BY <1>1, <1>2, <1>4, <1>5, <1>6 DEF p, u, v

\* The node of the thread a fork begins.
LEMMA ForkedNode ==
    ASSUME Shaped, StackShape, NEW a \in Running, Op(Top(a).at) = "fork"
    PROVE  \E m \in Tids :
            /\ m = getTCTNode(pushCxt(Top(a).cxt, Top(a).at), Top(a).at) /\ m # 1
            /\ nodes[m].cxt = pushCxt(Top(a).cxt, Top(a).at) /\ nodes[m].fork = Top(a).at
            /\ nodes[m].forkCxt = Top(a).cxt /\ nodes[m].routine = Callee(Top(a).at)
            /\ Continues(nodes[m].forkCxt, nodes[Node(a)].cxt)
            /\ getParentThread(m) = Node(a) /\ hasParentThread(m) /\ m \in Children(Node(a))
            /\ Heirs(m) \subseteq Heirs(Node(a))
<1> DEFINE s == Top(a).at
           c == Top(a).cxt
           m == getTCTNode(pushCxt(c, s), s)
           v == Node(a)
<1>t. /\ a \in DOMAIN threads /\ Depth(a) \in Frames(a) /\ Depth(a) \in Nat \ {0}
      /\ Top(a) = threads[a].stack[Depth(a)] /\ s \in Stmts
  BY RunningTop DEF Shaped
<1>1. <<c, FunOf(s)>> \in Walked
  BY <1>t, FrameFacts DEF Shaped
<1>2. s \in Sites({"fork"}) /\ s \in CallSites /\ Op(s) = "fork"
  BY <1>t DEF Sites, CallSites
<1>3. c \in Seq(CallSites)
  <2> DEFINE w == <<c, FunOf(s)>>
  <2>1. w \in Walked /\ w[1] = c
    BY <1>1
  <2> HIDE DEF w, c
  <2> QED  BY <2>1, WalkedFacts
<1>4. v \in Tids /\ nodes[v].cxt = threads[a].cxt
  BY <1>t, NodeOfThread DEF Shaped
<1>5. FunOf(s) \in Forking /\ pushCxt(c, s) = Append(c, s)
  BY <1>2, ForkingFacts DEF Shaped
<1>6. Continues(c, nodes[v].cxt)
  BY <1>t, <1>4, <1>5 DEF StackShape
<1>7. stage # "tct"
  BY <1>t, ListEmpty DEF Shaped, RunInv
<1> HIDE DEF s, c, m, v
<1>8. m \in NodesOf(pushCxt(c, s), s) /\ m \in Tids
  BY <1>1, <1>2, <1>7, NodeLookup DEF m, Shaped
<1>9. nodes[m].cxt = pushCxt(c, s) /\ nodes[m].fork = s
  BY <1>8 DEF NodesOf
<1>10. s # NoSite
  BY <1>2, SiteIsNone DEF Shaped
<1>11. /\ m # 1 /\ nodes[m].forkCxt \in Seq(CallSites) /\ nodes[m].cxt = Append(nodes[m].forkCxt, s)
       /\ nodes[m].routine = Callee(s)
  BY <1>8, <1>9, <1>10, NodeCxts DEF Shaped, NodeInv
<1>12. nodes[m].forkCxt = c
  <2>1. Append(nodes[m].forkCxt, s) = Append(c, s)
    BY <1>5, <1>9, <1>11
  <2>2. Front(Append(nodes[m].forkCxt, s)) = nodes[m].forkCxt /\ Front(Append(c, s)) = c
    BY <1>2, <1>3, <1>11, FrontLast
  <2> QED  BY <2>1, <2>2
<1>13. Parents(m) = {v} /\ hasParentThread(m) /\ getParentThread(m) = v /\ m \in Children(v)
  BY <1>4, <1>6, <1>8, <1>11, <1>12, ParentIs DEF Shaped
<1>14. Heirs(m) \subseteq Heirs(v)
  BY <1>8, <1>13, HeirsFacts DEF Shaped
<1> QED  BY <1>6, <1>8, <1>9, <1>11, <1>12, <1>13, <1>14 DEF s, c, m, v

LEMMA KinRun == ASSUME RunInv, Run PROVE Kin'
  BY RunBegins DEF Kin

LEMMA KinStep ==
    ASSUME Shaped, RunInv', UNCHANGED settledVars, StackShape, Kin,
           NEW a \in Running, Untouched(a), Runs(a)
    PROVE  Kin'
<1>0. /\ nodes' = nodes /\ \A c, s : getTCTNode(c, s)' = getTCTNode(c, s)
      /\ \A u, v : Continues(u, v)' = Continues(u, v)
  <2>1. UNCHANGED fixedVars
    BY DEF settledVars
  <2> QED  BY <2>1, RunFixed, ShapeFixed
<1>1. ASSUME NEW i \in DOMAIN threads PROVE Node(i)' = Node(i) /\ i \in DOMAIN threads'
      /\ threads'[i].parent = threads[i].parent
  BY <1>0 DEF Untouched, Node
<1>2. \A i \in DOMAIN threads : threads[i].parent # 0 => threads[i].parent \in DOMAIN threads
  <2>1. DOMAIN threads = 1..Len(threads) /\ Len(threads) \in Nat
    BY ListIndex DEF Shaped, RunInv
  <2>2. \A i \in DOMAIN threads : threads[i].parent \in 0..(i - 1)
    BY DEF Shaped, RunInv
  <2> QED  BY <2>1, <2>2
<1>3. ASSUME NEW i \in DOMAIN threads, i # 1
      PROVE  /\ threads'[i].parent # 0
             /\ Continues(nodes[Node(i)].forkCxt, nodes[Node(threads[i].parent)].cxt)'
  BY <1>0, <1>1, <1>2, <1>3 DEF Kin
<1>4. ASSUME NEW n, Forks(a, n)
      PROVE  /\ threads'[n].parent # 0
             /\ Continues(nodes[Node(n)].forkCxt, nodes[Node(threads[n].parent)].cxt)'
  <2>1. /\ Op(Top(a).at) = "fork" /\ threads'[n].cxt = pushCxt(Top(a).cxt, Top(a).at)
        /\ threads'[n].fork = Top(a).at /\ threads'[n].parent = a
    BY <1>4 DEF Forks
  <2>2. Node(n)' = getTCTNode(pushCxt(Top(a).cxt, Top(a).at), Top(a).at)
    BY <1>0, <2>1 DEF Node
  <2>3. a \in DOMAIN threads /\ a # 0
    <3>1. a \in DOMAIN threads
      BY DEF Running
    <3> QED  BY <3>1, ListIndex DEF Shaped, RunInv
  <2> QED  BY <1>0, <1>1, <2>1, <2>2, <2>3, ForkedNode
<1>5. (\E n : Forks(a, n) /\ DOMAIN threads' = DOMAIN threads \cup {n}) \/ DOMAIN threads' = DOMAIN threads
  BY DEF Runs, Goes, Enters, Leaves, Forks
<1> QED  BY <1>3, <1>4, <1>5 DEF Kin

-----------------------------------------------------------------------------
(* What a frame has met.  A frame below the top of a stack is told of it   *)
(* only if its function, or the one it calls, is no candidate: the others  *)
(* are told when the call returns.                                         *)

Told(i, d) ==
    LET Waits(e) == isCandidateFun(FunOf(threads[i].stack[e].at))
    IN  d = Depth(i) \/ ~Waits(d) \/ ~Waits(d + 1)
MetAt(i, d) == Met(Node(i), threads[i].stack[d].cxt, threads[i].stack[d].at)

LEMMA FrameCxt ==
    ASSUME RunInv, NEW i \in DOMAIN threads, NEW d \in Frames(i)
    PROVE  threads[i].stack[d].cxt \in Seq(CallSites) /\ threads[i].stack[d].at \in Stmts
<1> DEFINE w == <<threads[i].stack[d].cxt, FunOf(threads[i].stack[d].at)>>
<1>1. w \in Walked /\ w[1] = threads[i].stack[d].cxt /\ threads[i].stack[d].at \in Stmts
  BY FrameFacts
<1> HIDE DEF w
<1> QED  BY <1>1, WalkedFacts

\* The top of a stack passes what it has met on.
LEMMA MetOnTop ==
    ASSUME Analysed, RunInv, RunInv', StackShape,
           NEW a \in Running, Untouched(a), Runs(a), NEW d \in Frames(a)', d = Depth(a)', NEW u
    PROVE  \E e \in Frames(a) : Told(a, e) /\
                Met(u, threads[a].stack[e].cxt, threads[a].stack[e].at) \subseteq
                    Met(u, threads'[a].stack[d].cxt, threads'[a].stack[d].at)
<1> DEFINE n == Depth(a)
           s == Top(a).at
           c == Top(a).cxt
<1>t. /\ a \in DOMAIN threads /\ n \in Frames(a) /\ n \in Nat \ {0} /\ Frames(a) = 1..n
      /\ Top(a) = threads[a].stack[n] /\ s \in Stmts
  BY RunningTop, FrameFacts
<1>d. Frames(a)' = 1..d /\ d \in Nat \ {0}
  <2>1. a \in DOMAIN threads'
    BY <1>t DEF Untouched
  <2>2. Depth(a)' \in Nat /\ Frames(a)' = 1..(Depth(a)')
    BY <2>1, FramesPrimed
  <2> QED  BY <2>2
<1>n. Told(a, n) /\ c = threads[a].stack[n].cxt /\ s = threads[a].stack[n].at
  BY <1>t DEF Told
<1>p. ProgInv
  BY DEF Analysed
<1>1. ASSUME d = n, NEW t \in Succs(s), MovesTo(a, n, t), Op(s) \notin {"call", "ret"}
      PROVE  Met(u, c, s) \subseteq Met(u, threads'[a].stack[d].cxt, threads'[a].stack[d].at)
  <2>1. threads'[a].stack[d].cxt = c /\ threads'[a].stack[d].at = t
    BY <1>1, <1>n DEF MovesTo
  <2> HIDE DEF c, s
  <2>2. Met(u, c, s) \subseteq Met(u, c, t)
    BY <1>t, <1>1, MetNext
  <2> QED  BY <2>1, <2>2
<1>2. CASE Goes(a)
  BY <1>1, <1>2, <1>t, <1>n DEF Goes
<1>3. CASE \E k : Forks(a, k)
  <2>1. Op(s) = "fork" /\ d = n /\ MovesTo(a, n, After(s))
    BY <1>3 DEF Forks
  <2>2. After(s) \in Succs(s)
    BY <1>p, <1>t, <2>1, NextStmt
  <2> QED  BY <1>1, <1>t, <1>n, <2>1, <2>2
<1>4. CASE Enters(a)
  <2>1. /\ Op(s) = "call" /\ d = n + 1 /\ threads'[a].stack[d].at = Entry(Callee(s))
        /\ threads'[a].stack[d].cxt = pushCxt(c, s)
    BY <1>4 DEF Enters
  <2>2. s \in CallSites
    BY <1>t, <2>1 DEF CallSites, Sites
  <2> HIDE DEF c, s
  <2>3. Met(u, c, s) \subseteq Met(u, pushCxt(c, s), Entry(Callee(s)))
    BY <2>1, <2>2, MetEntered
  <2> QED  BY <1>t, <1>n, <2>1, <2>3
<1>5. CASE Leaves(a)
  <2> DEFINE site == threads[a].stack[d].at
             b == threads[a].stack[d].cxt
             t == After(site)
  <2>1. Op(s) = "ret" /\ d = n - 1 /\ n > 1
    BY <1>5, <1>t, <1>d DEF Leaves
  <2>2. d \in Frames(a) /\ d # n /\ d + 1 = n
    BY <2>1, <1>t, <1>d
  <2>3. threads'[a].stack[d].at = t /\ threads'[a].stack[d].cxt = b
    BY <1>5, <2>1 DEF Leaves, MovesTo
  <2>4. site \in Stmts /\ Op(site) = "call" /\ b \in Seq(CallSites)
    BY <1>t, <2>2, FrameFacts, FrameCxt
  <2>5. FunOf(s) = Callee(site) /\ c = pushCxt(b, site)
    BY <1>t, <1>n, <2>2 DEF StackShape
  <2>6. site \in CallSites
    BY <2>4 DEF CallSites, Sites
  <2>7. ~isCandidateFun(FunOf(site)) \/ ~isCandidateFun(FunOf(s)) => Told(a, d)
    BY <1>n, <2>2 DEF Told
  <2> HIDE DEF s, c, site, b
  <2>8. t \in Succs(site)
    BY <1>p, <2>4, NextStmt
  <2> HIDE DEF t
  <2>9. CASE ~isCandidateFun(FunOf(site)) \/ ~isCandidateFun(FunOf(s))
    <3>1. Met(u, b, site) \subseteq Met(u, b, t)
      BY <2>4, <2>5, <2>8, <2>9, MetNext
    <3> QED  BY <2>2, <2>3, <2>7, <2>9, <3>1 DEF b, site
  <2>10. CASE isCandidateFun(FunOf(site)) /\ isCandidateFun(FunOf(s))
    <3>1. Met(u, pushCxt(b, site), s) \subseteq Met(u, b, t)
      BY <1>t, <2>1, <2>4, <2>5, <2>6, <2>8, <2>10, MetReturned
    <3> QED  BY <1>t, <1>n, <2>3, <2>5, <3>1
  <2> QED  BY <2>9, <2>10
<1> QED  BY <1>2, <1>3, <1>4, <1>5 DEF Runs

LEMMA MetStep ==
    ASSUME Analysed, Shaped, StackShape, RunInv', UNCHANGED settledVars,
           NEW a \in Running, Untouched(a), Runs(a),
           NEW i \in DOMAIN threads, NEW d \in Frames(i)', Told(i, d)'
    PROVE  \E e \in Frames(i) : Told(i, e) /\ MetAt(i, e) \subseteq MetAt(i, d)'
<1> DEFINE u == Node(i)
<1>0. /\ \A v, c, s : Met(v, c, s)' = Met(v, c, s)
      /\ \A c, s : getTCTNode(c, s)' = getTCTNode(c, s)
      /\ \A f : isCandidateFun(f)' = isCandidateFun(f)
  BY RunFixed DEF FixedNext
<1>1. u' = u
  BY <1>0 DEF Untouched, Node
<1>2. \A e : MetAt(i, e) = Met(u, threads[i].stack[e].cxt, threads[i].stack[e].at)
  BY DEF MetAt
<1>3. MetAt(i, d)' = Met(u, threads'[i].stack[d].cxt, threads'[i].stack[d].at)
  BY <1>0, <1>1 DEF MetAt
<1>i. ProgInv /\ RunInv
  BY DEF Shaped
<1> HIDE DEF u
<1>4. CASE i # a
  <2>1. threads'[i] = threads[i]
    BY <1>4 DEF Untouched
  <2>2. d \in Frames(i) /\ Told(i, d)
    BY <1>0, <2>1 DEF Frames, Told, Depth
  <2> QED  BY <1>2, <1>3, <2>1, <2>2
<1>5. CASE i = a /\ d = Depth(a)'
  <2>1. \E e \in Frames(a) : Told(a, e) /\
                Met(u, threads[a].stack[e].cxt, threads[a].stack[e].at) \subseteq
                    Met(u, threads'[a].stack[d].cxt, threads'[a].stack[d].at)
    BY <1>i, <1>5, MetOnTop
  <2> QED  BY <1>2, <1>3, <1>5, <2>1
<1>6. CASE i = a /\ d # Depth(a)'
  <2>1. Frames(a)' = 1..(Depth(a)') /\ Depth(a)' \in Nat /\ Frames(a) = 1..Depth(a) /\ Depth(a) \in Nat
    BY <1>i, <1>6, FramesPrimed, FrameFacts DEF Untouched
  <2>2. d + 1 \in Frames(a)'
    BY <1>6, <2>1
  <2>a. a \in DOMAIN threads' /\ a \in DOMAIN threads /\ d \in Frames(a)'
    BY <1>6 DEF Untouched
  <2>b. \A e \in Frames(a)' : IsOld(a, e) \/ IsCalled(a, a, e)
    BY <1>i, <2>a, FrameOrigin DEF IsForked
  <2>3. IsOld(a, d) /\ d \in Frames(a)
    BY <1>6, <2>a, <2>b DEF IsCalled, IsOld
  <2>4. threads'[a].stack[d].at = threads[a].stack[d].at /\ threads'[a].stack[d].cxt = threads[a].stack[d].cxt
    BY <1>6, <2>3 DEF IsOld
  <2>5. Told(a, d)
    <3>1. CASE IsOld(a, d + 1)
      BY <1>0, <1>6, <2>4, <3>1 DEF IsOld, Told
    <3>2. CASE IsCalled(a, a, d + 1)
      BY <2>1, <2>3, <3>2 DEF IsCalled, Told
    <3> QED  BY <2>2, <2>b, <3>1, <3>2
  <2> QED  BY <1>2, <1>3, <1>6, <2>3, <2>4, <2>5
<1> QED  BY <1>4, <1>5, <1>6

-----------------------------------------------------------------------------
(* Which threads a frame has met.                                          *)

\* A[i] are the threads that led to thread i: the one that forked it, the one that forked that.
Lineage(A) ==
    /\ DOMAIN A = DOMAIN threads
    /\ \A i \in DOMAIN threads : \A k \in A[i] :
        /\ k \in 1..(i - 1) /\ Heirs(Node(i)) \subseteq Heirs(Node(k))
        /\ \E b \in {i} \cup A[i] : threads[b].parent = k

MetAtEntry(t) == Met(t, nodes[t].cxt, Entry(nodes[t].routine))

\* A frame has met the nodes of the threads that did not lead to its thread, the nodes below
\* them, and what those that did have met as they began.
MetInv(A) ==
    \A i \in DOMAIN threads : \A d \in Frames(i) : Told(i, d) =>
        /\ \A j \in DOMAIN threads \ ({i} \cup A[i]) : Heirs(Node(j)) \subseteq MetAt(i, d)
        /\ \A k \in {i} \cup A[i] : MetAtEntry(Node(k)) \subseteq MetAt(i, d)

\* What the step of a thread is taken in.
Executed ==
    /\ Analysed /\ Shaped /\ StackShape /\ AliveInv /\ ForkInv /\ Kin /\ RunInv'
    /\ UNCHANGED settledVars

LEMMA MetKept ==
    ASSUME Executed, NEW a \in Running, Untouched(a), Runs(a), NEW A, Lineage(A), MetInv(A),
           NEW i \in DOMAIN threads
    PROVE  /\ Node(i)' = Node(i) /\ i \in DOMAIN threads'
           /\ Heirs(Node(i))' = Heirs(Node(i)) /\ MetAtEntry(Node(i))' = MetAtEntry(Node(i))
           /\ threads'[i].parent = threads[i].parent
           /\ \A d \in Frames(i)' : Told(i, d)' =>
                /\ \A j \in DOMAIN threads \ ({i} \cup A[i]) : Heirs(Node(j)) \subseteq MetAt(i, d)'
                /\ \A k \in {i} \cup A[i] : MetAtEntry(Node(k)) \subseteq MetAt(i, d)'
<1>0. /\ \A u, c, s : Met(u, c, s)' = Met(u, c, s)
      /\ \A u : Heirs(u)' = Heirs(u)
      /\ \A c, s : getTCTNode(c, s)' = getTCTNode(c, s)
      /\ nodes' = nodes /\ \A f : Entry(f)' = Entry(f)
  BY RunFixed DEF Executed, FixedNext
<1>1. Node(i)' = Node(i) /\ i \in DOMAIN threads' /\ threads'[i].parent = threads[i].parent
  BY <1>0 DEF Untouched, Node
<1>2. Heirs(Node(i))' = Heirs(Node(i)) /\ MetAtEntry(Node(i))' = MetAtEntry(Node(i))
  BY <1>0, <1>1 DEF MetAtEntry
<1>3. ASSUME NEW d \in Frames(i)', Told(i, d)'
      PROVE  /\ \A j \in DOMAIN threads \ ({i} \cup A[i]) : Heirs(Node(j)) \subseteq MetAt(i, d)'
             /\ \A k \in {i} \cup A[i] : MetAtEntry(Node(k)) \subseteq MetAt(i, d)'
  <2>1. PICK e \in Frames(i) : Told(i, e) /\ MetAt(i, e) \subseteq MetAt(i, d)'
    BY <1>3, MetStep DEF Executed
  <2> QED  BY <2>1 DEF MetInv
<1> QED  BY <1>1, <1>2, <1>3

LEMMA MetNoFork ==
    ASSUME Executed, NEW a \in Running, Untouched(a), Runs(a), DOMAIN threads' = DOMAIN threads,
           NEW A, Lineage(A), MetInv(A)
    PROVE  Lineage(A)' /\ MetInv(A)'
<1>1. \A i \in DOMAIN threads : A[i] \subseteq DOMAIN threads
  <2>1. DOMAIN threads = 1..Len(threads) /\ Len(threads) \in Nat
    BY ListIndex DEF Executed, Shaped, RunInv
  <2> QED  BY <2>1 DEF Lineage
<1>2. Lineage(A)'
  BY <1>1, MetKept DEF Lineage
<1>3. MetInv(A)'
  BY <1>1, MetKept DEF MetInv
<1> QED  BY <1>2, <1>3

\* A thread that forks is told of everything in its other frames when they return to.
LEMMA OnlyTopTold ==
    ASSUME Shaped, StackShape, NEW a \in Running, Op(Top(a).at) = "fork",
           NEW d \in Frames(a), Told(a, d)
    PROVE  d = Depth(a)
<1> SUFFICES ASSUME d # Depth(a) PROVE FALSE
  OBVIOUS
<1> DEFINE n == Depth(a)
           fun(e) == FunOf(threads[a].stack[e].at)
<1>1. /\ a \in DOMAIN threads /\ n \in Frames(a) /\ n \in Nat \ {0} /\ Frames(a) = 1..n
      /\ Top(a) = threads[a].stack[n] /\ Top(a).at \in Stmts
  BY RunningTop, FrameFacts DEF Shaped
<1>2. Top(a).at \in CallSites
  BY <1>1 DEF CallSites, Sites
<1>3. fun(n) \in Forking
  BY <1>1, <1>2, ForkingFacts DEF Shaped
<1>4. \A e \in Frames(a) : fun(e) \in Forking
  <2> TAKE e \in Frames(a)
  <2>1. e = n \/ e < n
    BY <1>1
  <2> QED  BY <1>1, <1>3, <2>1 DEF StackShape
<1>5. d + 1 \in Frames(a)
  BY <1>1
<1>6. isCandidateFun(fun(d)) /\ isCandidateFun(fun(d + 1))
  BY <1>4, <1>5, ForkingFacts DEF Shaped
<1> QED  BY <1>6 DEF Told

\* A thread comes after the thread that forked it in the list of the run's threads.
LEMMA ParentIsBefore ==
    ASSUME RunInv, NEW b \in DOMAIN threads
    PROVE  b \in Nat /\ b \in 1..Len(threads) /\ threads[b].parent \in Nat /\ threads[b].parent < b
<1>1. DOMAIN threads = 1..Len(threads) /\ Len(threads) \in Nat
  BY ListIndex DEF RunInv
<1>2. threads[b].parent \in 0..(b - 1)
  BY DEF RunInv
<1> QED  BY <1>1, <1>2

\* The forked thread is met by every frame that was there.
LEMMA ForkedIsMet ==
    ASSUME Executed, NEW a \in Running, Untouched(a), NEW n, Forks(a, n), NEW A, Lineage(A), MetInv(A),
           NEW m \in Tids, m = getTCTNode(pushCxt(Top(a).cxt, Top(a).at), Top(a).at), m # 1,
           nodes[m].fork = Top(a).at, nodes[m].forkCxt = Top(a).cxt,
           nodes[m].routine = Callee(Top(a).at), getParentThread(m) = Node(a), hasParentThread(m),
           Heirs(m) \subseteq Heirs(Node(a)),
           NEW i \in DOMAIN threads, NEW d \in Frames(i)', Told(i, d)'
    PROVE  Heirs(m) \subseteq MetAt(i, d)'
<1>r. Runs(a)
  BY DEF Runs
<1>t. /\ a \in DOMAIN threads /\ Depth(a) \in Frames(a) /\ Told(a, Depth(a))
      /\ Top(a) = threads[a].stack[Depth(a)] /\ Op(Top(a).at) = "fork" /\ Top(a).at \in Stmts
  BY RunningTop DEF Executed, Shaped, Forks, Told
<1>l. /\ DOMAIN threads = 1..Len(threads) /\ Len(threads) \in Nat
      /\ \A k \in DOMAIN threads : threads[k].parent \in 0..(k - 1)
  BY ListIndex DEF Executed, Shaped, RunInv
<1>s. \A k \in DOMAIN threads : A[k] \subseteq DOMAIN threads
  <2>1. \A k \in DOMAIN threads : 1..(k - 1) \subseteq DOMAIN threads
    BY <1>l
  <2>2. \A k \in DOMAIN threads : A[k] \subseteq 1..(k - 1)
    BY DEF Lineage
  <2> QED  BY <2>1, <2>2
<1>1. PICK e \in Frames(i) : Told(i, e) /\ MetAt(i, e) \subseteq MetAt(i, d)'
  BY <1>r, MetStep DEF Executed
<1>2. /\ \A j \in DOMAIN threads \ ({i} \cup A[i]) : Heirs(Node(j)) \subseteq MetAt(i, d)'
      /\ \A k \in {i} \cup A[i] : MetAtEntry(Node(k)) \subseteq MetAt(i, d)'
  BY <1>1 DEF MetInv
<1>3. \A k \in {a} \cup A[a] : Heirs(m) \subseteq Heirs(Node(k))
  BY <1>t DEF Lineage
<1>4. MetAt(a, Depth(a)) \subseteq MetAtEntry(m)
  <2> DEFINE s == Top(a).at
             c == Top(a).cxt
             u == Node(a)
  <2>1. s \in Sites({"fork"})
    BY <1>t DEF Sites
  <2>2. MetAt(a, Depth(a)) = Met(u, c, s)
    BY <1>t DEF MetAt
  <2>3. Analysed /\ m = getTCTNode(pushCxt(c, s), s) /\ nodes[m].routine = Callee(s)
    BY DEF Executed
  <2> HIDE DEF s, c, u
  <2> QED  BY <2>1, <2>2, <2>3, MetForked DEF MetAtEntry
<1>5. CASE i = a
  <2> DEFINE s == Top(a).at
             c == Top(a).cxt
             u == Node(a)
  <2>0. /\ \A v, x, y : Met(v, x, y)' = Met(v, x, y)
        /\ \A x, y : getTCTNode(x, y)' = getTCTNode(x, y)
        /\ \A f : isCandidateFun(f)' = isCandidateFun(f)
    BY RunFixed DEF FixedNext, Executed
  <2>1. Depth(a)' = Depth(a) /\ MovesTo(a, Depth(a), After(s))
    BY DEF Forks
  <2>2. d = Depth(a)
    <3>1. /\ RunInv' /\ ProgInv /\ RunInv /\ a \in DOMAIN threads' /\ d \in Frames(a)'
      BY <1>t, <1>5 DEF Executed, Shaped, Untouched
    <3>2. \A x \in Frames(a)' : IsOld(a, x)
      BY <1>r, <1>t, <3>1, FrameOrigin DEF IsCalled, IsForked
    <3>3. Frames(a)' = 1..(Depth(a)') /\ Depth(a)' \in Nat
      BY <3>1, FramesPrimed
    <3>4. d \in Frames(a) /\ Told(a, d)
      <4>1. d # Depth(a)' => d + 1 \in Frames(a)'
        BY <3>1, <3>3
      <4> QED  BY <1>5, <2>0, <2>1, <3>1, <3>2, <4>1 DEF IsOld, Told
    <3> QED  BY <1>t, <3>4, OnlyTopTold DEF Executed
  <2>3. u' = u
    BY <1>t, <2>0 DEF Untouched, Node
  <2>4. MetAt(i, d)' = Met(u, c, After(s))
    BY <1>5, <1>t, <2>0, <2>1, <2>2, <2>3 DEF MetAt, MovesTo
  <2>5. After(s) \in Succs(s)
    BY <1>t, NextStmt DEF Executed, Shaped
  <2>6. Analysed /\ TreeShape /\ AliveInv /\ nodes[m].fork = s /\ getParentThread(m) = u
    BY DEF Executed, Shaped
  <2> HIDE DEF s, c, u
  <2>7. Heirs(m) \subseteq Met(u, nodes[m].forkCxt, After(s))
    BY <2>5, <2>6, MetHeirs
  <2> QED  BY <2>4, <2>7 DEF c
<1>6. CASE i \in A[a]
  <2>1. PICK b \in {a} \cup A[a] : threads[b].parent = i
    BY <1>6, <1>t DEF Lineage
  <2>2. b \in DOMAIN threads
    <3>1. A[a] \subseteq DOMAIN threads
      BY <1>s, <1>t
    <3> QED  BY <1>t, <2>1, <3>1
  <2>3. b \notin {i} \cup A[i]
    <3>1. i < b /\ i \in Nat /\ b \in Nat
      BY <2>1, <2>2, ParentIsBefore DEF Executed, Shaped
    <3>2. \A k \in A[i] : k \in 1..(i - 1)
      BY DEF Lineage
    <3> QED  BY <3>1, <3>2
  <2> QED  BY <1>2, <1>3, <2>1, <2>2, <2>3
<1>7. CASE a \notin {i} \cup A[i]
  BY <1>2, <1>3, <1>7, <1>t
<1>8. CASE a \in A[i]
  <2>1. PICK b \in {i} \cup A[i] : threads[b].parent = a
    BY <1>8 DEF Lineage
  <2>2. b \in DOMAIN threads
    BY <1>l DEF Lineage
  <2>3. b \notin {a} \cup A[a] /\ b # 1
    <3>1. a < b /\ a \in 1..Len(threads) /\ b \in Nat
      BY <1>t, <2>1, <2>2, ParentIsBefore DEF Executed, Shaped
    <3>2. \A k \in A[a] : k \in 1..(a - 1)
      BY <1>t DEF Lineage
    <3> QED  BY <1>l, <3>1, <3>2
  <2>4. Node(b) \in Tids /\ Node(b) \in Children(Node(a))
    <3>1. \E p \in DOMAIN threads : p = threads[b].parent /\ Node(b) \in Children(Node(p))
      BY <2>2, <2>3, KinFacts DEF Executed
    <3> QED  BY <2>1, <2>2, <3>1, NodeOfThread DEF Executed, Shaped
  <2>5. CASE Node(b) = m
    <3>1. Heirs(Node(b)) \subseteq MetAt(a, Depth(a))
      BY <1>t, <2>2, <2>3 DEF MetInv
    <3> QED  BY <1>2, <1>4, <2>1, <2>5, <3>1
  <2>6. CASE Node(b) # m
    <3>1. Node(b) \in getSiblingThread(m)
      BY <2>4, <2>6 DEF getSiblingThread
    <3>2. Analysed /\ TreeShape /\ AliveInv
      BY DEF Executed, Shaped
    <3> DEFINE x == Node(b)
    <3> HIDE DEF x
    <3>3. Heirs(m) \subseteq MetAtEntry(x)
      BY <2>4, <3>1, <3>2, MetHeirs DEF MetAtEntry, x
    <3> QED  BY <1>2, <2>1, <3>3 DEF x
  <2> QED  BY <2>5, <2>6
<1> QED  BY <1>5, <1>6, <1>7, <1>8

LEMMA MetFork ==
    ASSUME Executed, NEW a \in Running, Untouched(a), NEW n, Forks(a, n), NEW A, Lineage(A), MetInv(A),
           NEW B, DOMAIN B = DOMAIN threads', \A i \in DOMAIN threads : B[i] = A[i],
           B[n] = {a} \cup A[a]
    PROVE  Lineage(B)' /\ MetInv(B)'
<1>r. Runs(a)
  BY DEF Runs
<1>t. /\ a \in DOMAIN threads /\ Depth(a) \in Frames(a) /\ Told(a, Depth(a))
      /\ Op(Top(a).at) = "fork"
  BY RunningTop DEF Executed, Shaped, Forks, Told
<1>l. /\ DOMAIN threads = 1..Len(threads) /\ Len(threads) \in Nat /\ n = Len(threads) + 1
      /\ DOMAIN threads' = DOMAIN threads \cup {n} /\ n \notin DOMAIN threads
      /\ \A i \in DOMAIN threads : A[i] \subseteq DOMAIN threads
  <2>1. DOMAIN threads = 1..Len(threads) /\ Len(threads) \in Nat
    BY ListIndex DEF Executed, Shaped, RunInv
  <2> QED  BY <2>1 DEF Lineage, Forks
<1>m. PICK m \in Tids :
        /\ m = getTCTNode(pushCxt(Top(a).cxt, Top(a).at), Top(a).at) /\ m # 1
        /\ nodes[m].cxt = pushCxt(Top(a).cxt, Top(a).at) /\ nodes[m].fork = Top(a).at
        /\ nodes[m].forkCxt = Top(a).cxt /\ nodes[m].routine = Callee(Top(a).at)
        /\ getParentThread(m) = Node(a) /\ hasParentThread(m) /\ Heirs(m) \subseteq Heirs(Node(a))
  BY <1>t, ForkedNode DEF Executed
<1>0. /\ \A u, c, s : Met(u, c, s)' = Met(u, c, s)
      /\ \A u : Heirs(u)' = Heirs(u)
      /\ \A c, s : getTCTNode(c, s)' = getTCTNode(c, s)
      /\ nodes' = nodes /\ \A f : Entry(f)' = Entry(f)
  BY RunFixed DEF Executed, FixedNext
<1>n. /\ Node(n)' = m /\ Heirs(Node(n))' = Heirs(m) /\ MetAtEntry(Node(n))' = MetAtEntry(m)
      /\ threads'[n].parent = a
  <2>1. threads'[n].cxt = pushCxt(Top(a).cxt, Top(a).at) /\ threads'[n].fork = Top(a).at
        /\ threads'[n].parent = a
    BY DEF Forks
  <2>2. Node(n)' = m
    BY <1>0, <1>m, <2>1 DEF Node
  <2> QED  BY <1>0, <2>1, <2>2 DEF MetAtEntry
<1>f. \A d \in Frames(n)' : MetAt(n, d)' = MetAtEntry(m)
  <2>1. /\ Len(threads'[n].stack) = 1 /\ threads'[n].stack[1].at = Entry(Callee(Top(a).at))
        /\ threads'[n].stack[1].cxt = pushCxt(Top(a).cxt, Top(a).at)
    BY DEF Forks
  <2>2. Frames(n)' = 1..1
    BY <1>l, <2>1, FramesPrimed DEF Executed, Depth
  <2>3. MetAt(n, 1)' = MetAtEntry(m)
    BY <1>0, <1>m, <1>n, <2>1 DEF MetAt, MetAtEntry
  <2> QED  BY <2>2, <2>3
<1>4. MetAt(a, Depth(a)) \subseteq MetAtEntry(m)
  <2> DEFINE s == Top(a).at
             c == Top(a).cxt
             u == Node(a)
  <2>1. s \in Sites({"fork"}) /\ MetAt(a, Depth(a)) = Met(u, c, s)
    BY <1>t, RunningTop DEF MetAt, Sites, Executed, Shaped
  <2>3. Analysed /\ m = getTCTNode(pushCxt(c, s), s) /\ nodes[m].routine = Callee(s)
    BY <1>m DEF Executed
  <2> HIDE DEF s, c, u
  <2> QED  BY <2>1, <2>3, MetForked DEF MetAtEntry
<1>5. /\ \A j \in DOMAIN threads \ ({a} \cup A[a]) : Heirs(Node(j)) \subseteq MetAtEntry(m)
      /\ \A k \in {a} \cup A[a] : MetAtEntry(Node(k)) \subseteq MetAtEntry(m)
  BY <1>4, <1>t DEF MetInv
<1>6. Lineage(B)'
  <2>1. ASSUME NEW k \in {a} \cup A[a]
        PROVE  /\ k \in 1..(n - 1) /\ Heirs(m) \subseteq Heirs(Node(k))
               /\ \E b \in {n} \cup B[n] : threads'[b].parent = k
    <3>1. k \in 1..(n - 1)
      BY <1>l, <1>t
    <3>2. Heirs(m) \subseteq Heirs(Node(k))
      BY <1>m, <1>t DEF Lineage
    <3>3. CASE k = a
      BY <1>n, <3>1, <3>2, <3>3
    <3>4. CASE k \in A[a]
      <4>1. PICK b \in {a} \cup A[a] : threads[b].parent = k
        BY <1>t, <3>4 DEF Lineage
      <4>2. threads'[b].parent = k
        BY <1>l, <1>t, <4>1 DEF Untouched
      <4> QED  BY <3>1, <3>2, <4>1, <4>2
    <3> QED  BY <3>3, <3>4
  <2>2. \A k \in B[n] :
            /\ k \in 1..(n - 1) /\ Heirs(Node(n))' \subseteq Heirs(Node(k))'
            /\ \E b \in {n} \cup B[n] : threads'[b].parent = k
    BY <1>l, <1>n, <1>r, <1>t, <2>1, MetKept
  <2>3. \A i \in DOMAIN threads : \A k \in B[i] :
            /\ k \in 1..(i - 1) /\ Heirs(Node(i))' \subseteq Heirs(Node(k))'
            /\ \E b \in {i} \cup B[i] : threads'[b].parent = k
    BY <1>l, <1>r, MetKept DEF Lineage
  <2> QED  BY <1>l, <2>2, <2>3 DEF Lineage
<1>7. \A i \in DOMAIN threads : \A d \in Frames(i)' : Told(i, d)' => Heirs(m) \subseteq MetAt(i, d)'
  BY <1>m, ForkedIsMet
<1>8. \A i \in DOMAIN threads : \A d \in Frames(i)' : Told(i, d)' =>
        /\ \A j \in DOMAIN threads' \ ({i} \cup B[i]) : Heirs(Node(j))' \subseteq MetAt(i, d)'
        /\ \A k \in {i} \cup B[i] : MetAtEntry(Node(k))' \subseteq MetAt(i, d)'
  BY <1>7, <1>l, <1>n, <1>r, MetKept
<1>9. \A d \in Frames(n)' :
        /\ \A j \in DOMAIN threads' \ ({n} \cup B[n]) : Heirs(Node(j))' \subseteq MetAt(n, d)'
        /\ \A k \in {n} \cup B[n] : MetAtEntry(Node(k))' \subseteq MetAt(n, d)'
  BY <1>5, <1>f, <1>l, <1>n, <1>r, <1>t, MetKept
<1> QED  BY <1>6, <1>8, <1>9, <1>l DEF MetInv

-----------------------------------------------------------------------------
(* The theorem.                                                            *)

\* Unless the program joins or forks in a recursion.
ForkOnlyInv ==
    NoJoins /\ ForksOutsideRecursion =>
        /\ TreeShape /\ AliveInv /\ SpreadInv /\ StackShape /\ Kin
        /\ \E A : Lineage(A) /\ MetInv(A)

LEMMA NoThreads ==
    ASSUME DOMAIN threads = {} PROVE StackShape /\ Kin /\ \E A : Lineage(A) /\ MetInv(A)
<1>1. PICK A : A = [i \in {} |-> {}]
  OBVIOUS
<1>2. DOMAIN A = {}
  BY <1>1
<1>3. Lineage(A) /\ MetInv(A)
  BY <1>2 DEF Lineage, MetInv
<1> QED  BY <1>3 DEF StackShape, Kin

\* The main thread's node is the first.
LEMMA MetRun ==
    ASSUME Shaped, RunInv', UNCHANGED settledVars, Run
    PROVE  \E A : Lineage(A)' /\ MetInv(A)'
<1>1. /\ DOMAIN threads' = {1} /\ threads'[1].cxt = <<>> /\ threads'[1].fork = NoSite
      /\ DOMAIN threads'[1].stack = {1} /\ threads'[1].stack[1].cxt = <<>>
      /\ threads'[1].stack[1].at = Entry(nodes[1].routine)
  BY RunBegins DEF Shaped
<1>0. /\ \A u, c, s : Met(u, c, s)' = Met(u, c, s)
      /\ \A c, s : getTCTNode(c, s)' = getTCTNode(c, s)
      /\ nodes' = nodes /\ \A f : Entry(f)' = Entry(f)
  BY RunFixed DEF FixedNext
<1>2. getTCTNode(<<>>, NoSite) = 1
  <2> DEFINE S == NodesOf(<<>>, NoSite)
  <2>1. 1 \in Tids /\ nodes[1].cxt = <<>> /\ nodes[1].fork = NoSite
    BY DEF Shaped, NodeInv
  <2>2. \A t \in S : t = 1
    BY DEF NodesOf, Shaped, TreeShape
  <2>3. 1 \in S
    BY <2>1 DEF NodesOf
  <2> HIDE DEF S
  <2>4. getTCTNode(<<>>, NoSite) = CHOOSE t \in Tids : t \in S
    BY DEF getTCTNode, S
  <2> QED  BY <2>1, <2>2, <2>3, <2>4
<1>3. Node(1)' = 1
  BY <1>0, <1>1, <1>2 DEF Node
<1>4. MetAtEntry(Node(1))' = MetAt(1, 1)'
  <2>1. nodes[1].cxt = <<>>
    BY DEF Shaped, NodeInv
  <2>2. MetAtEntry(Node(1))' = Met(1, <<>>, Entry(nodes[1].routine))
    BY <1>0, <1>3, <2>1 DEF MetAtEntry
  <2>3. MetAt(1, 1)' = Met(1, <<>>, Entry(nodes[1].routine))
    BY <1>0, <1>1, <1>3 DEF MetAt
  <2> QED  BY <2>2, <2>3
<1>5. PICK A : A = [i \in {1} |-> {}]
  OBVIOUS
<1>6. DOMAIN A = {1} /\ A[1] = {}
  BY <1>5
<1>7. Lineage(A)'
  BY <1>1, <1>6 DEF Lineage
<1>8. Frames(1)' = {1}
  BY <1>1 DEF Frames
<1>9. MetInv(A)'
  BY <1>1, <1>4, <1>6, <1>8 DEF MetInv
<1> QED  BY <1>7, <1>9

LEMMA MetSettled ==
    ASSUME RunInv, UNCHANGED settledVars, UNCHANGED runVars, StackShape, Kin, NEW A, Lineage(A), MetInv(A)
    PROVE  StackShape' /\ Kin' /\ Lineage(A)' /\ MetInv(A)'
<1>1. threads' = threads
  BY DEF runVars
<1>0. /\ \A u, c, s : Met(u, c, s)' = Met(u, c, s)
      /\ \A c, s : getTCTNode(c, s)' = getTCTNode(c, s) /\ pushCxt(c, s)' = pushCxt(c, s)
      /\ \A u : Heirs(u)' = Heirs(u)
      /\ nodes' = nodes /\ \A f : Entry(f)' = Entry(f) /\ isCandidateFun(f)' = isCandidateFun(f)
      /\ \A s : Callee(s)' = Callee(s)
  BY RunFixed DEF FixedNext
<1>2. Forking' = Forking /\ \A u, v : Continues(u, v)' = Continues(u, v)
  <2>1. UNCHANGED fixedVars
    BY DEF settledVars
  <2> QED  BY <2>1, ShapeFixed
<1>3. \A i : /\ Node(i)' = Node(i) /\ Depth(i)' = Depth(i) /\ Frames(i)' = Frames(i)
             /\ \A d : Told(i, d)' = Told(i, d) /\ MetAt(i, d)' = MetAt(i, d)
  BY <1>0, <1>1 DEF Node, Depth, Frames, Told, MetAt
<1>4. \A i : Heirs(Node(i))' = Heirs(Node(i)) /\ MetAtEntry(Node(i))' = MetAtEntry(Node(i))
  BY <1>0, <1>3 DEF MetAtEntry
<1>5. StackShape'
  BY <1>0, <1>1, <1>2, <1>3 DEF StackShape
<1>6. Kin'
  BY <1>0, <1>1, <1>2, <1>3 DEF Kin
<1>7. Lineage(A)'
  BY <1>1, <1>4 DEF Lineage
<1>8. MetInv(A)'
  BY <1>1, <1>3, <1>4 DEF MetInv
<1> QED  BY <1>5, <1>6, <1>7, <1>8

LEMMA ForkOnlyStep ==
    ASSUME WholeInv, WholeInv', ForkInv, ForkOnlyInv, [Next]_vars
    PROVE  ForkOnlyInv'
<1>0. UNCHANGED fixedVars /\ NoJoins' = NoJoins /\ ForksOutsideRecursion' = ForksOutsideRecursion
  BY StepCases, ShapeFixed
<1> SUFFICES ASSUME NoJoins, ForksOutsideRecursion
             PROVE  /\ TreeShape' /\ AliveInv' /\ SpreadInv' /\ StackShape' /\ Kin'
                    /\ \E A : Lineage(A)' /\ MetInv(A)'
  BY <1>0 DEF ForkOnlyInv
<1>1. /\ TreeShape /\ AliveInv /\ SpreadInv /\ StackShape /\ Kin /\ \E A : Lineage(A) /\ MetInv(A)
      /\ ProgInv /\ WalkInv /\ NodeInv /\ FlagInv /\ InterleavingInv /\ RunInv /\ RunInv'
  BY DEF ForkOnlyInv, WholeInv
<1>2. TreeShape' /\ AliveInv' /\ SpreadInv'
  BY <1>1, ShapeStep, AliveStep, SpreadStep
<1>3. Shaped
  BY <1>1 DEF Shaped
<1>4. PICK A : Lineage(A) /\ MetInv(A)
  BY <1>1
<1>5. CASE Execute
  <2>1. PICK a \in Running : Untouched(a) /\ Runs(a) /\ stage = "run"
    BY <1>1, <1>5, ExecuteEffect
  <2>2. UNCHANGED settledVars
    BY <1>5, RunSettles
  <2>3. Executed
    BY <1>1, <1>3, <2>1, <2>2 DEF Executed, Analysed, Walking
  <2>4. FixedNext
    BY <1>0, FixedPrimed
  <2>5. StackShape' /\ Kin'
    BY <1>0, <1>1, <1>3, <2>1, <2>2, <2>4, StackShapeStep, KinStep
  <2>6. CASE DOMAIN threads' = DOMAIN threads
    BY <1>2, <1>4, <2>1, <2>3, <2>5, <2>6, MetNoFork
  <2>7. ASSUME NEW n, Forks(a, n) PROVE \E B : Lineage(B)' /\ MetInv(B)'
    <3> DEFINE D == DOMAIN threads'
    <3>1. n \in D /\ n \notin DOMAIN threads /\ \A i \in DOMAIN threads : i \in D
      <4>1. DOMAIN threads = 1..Len(threads) /\ Len(threads) \in Nat
        BY <1>1, ListIndex DEF RunInv
      <4> QED  BY <2>7, <4>1 DEF Forks
    <3> HIDE DEF D
    <3>2. PICK B : B = [i \in D |-> IF i = n THEN {a} \cup A[a] ELSE A[i]]
      OBVIOUS
    <3>3. DOMAIN B = D /\ (\A i \in DOMAIN threads : B[i] = A[i]) /\ B[n] = {a} \cup A[a]
      BY <3>1, <3>2
    <3>4. Lineage(B)' /\ MetInv(B)'
      BY <1>4, <2>1, <2>3, <2>7, <3>3, MetFork DEF D
    <3> QED  BY <3>4
  <2>8. DOMAIN threads' = DOMAIN threads \/ \E n : Forks(a, n)
    BY <2>1 DEF Runs, Goes, Enters, Leaves
  <2> QED  BY <1>2, <2>5, <2>6, <2>7, <2>8
<1>6. CASE Run
  <2>1. UNCHANGED settledVars
    BY <1>6, RunSettles
  <2>2. StackShape' /\ Kin'
    BY <1>1, <1>6, StackShapeRun, KinRun
  <2> QED  BY <1>1, <1>2, <1>3, <1>6, <2>1, <2>2, MetRun
<1>7. CASE ~Execute /\ ~Run
  <2>1. UNCHANGED runVars
    BY <1>7, RunFrame
  <2>2. CASE stage = "run"
    <3>1. UNCHANGED settledVars
      BY <2>2, RunSettles
    <3> QED  BY <1>1, <1>2, <1>4, <2>1, <3>1, MetSettled
  <2>3. CASE stage # "run"
    <3>1. DOMAIN threads' = {}
      BY <1>1, <2>1, <2>3, ListEmpty DEF RunInv, runVars
    <3>2. \A i \in DOMAIN threads' : FALSE
      BY <3>1
    <3>3. PICK B : B = [i \in {} |-> {}]
      OBVIOUS
    <3>4. DOMAIN B = DOMAIN threads'
      BY <3>1, <3>3
    <3>5. Lineage(B)' /\ MetInv(B)'
      BY <3>2, <3>4 DEF Lineage, MetInv
    <3>6. StackShape' /\ Kin'
      BY <3>2 DEF StackShape, Kin
    <3> QED  BY <1>2, <3>5, <3>6
  <2> QED  BY <2>2, <2>3
<1> QED  BY <1>5, <1>6, <1>7

LEMMA ParallelIfMet ==
    ASSUME WholeInv, ForkInv, MarkInv, OnceForks, JumpsBackAreLoops, NoJoins, ForksOutsideRecursion,
           ForkOnlyInv
    PROVE  ParallelIsReported
<1>1. /\ TreeShape /\ AliveInv /\ SpreadInv /\ StackShape /\ Kin /\ \E A : Lineage(A) /\ MetInv(A)
      /\ ProgInv /\ WalkInv /\ NodeInv /\ InterleavingInv /\ RunInv
  BY DEF ForkOnlyInv, WholeInv
<1>2. SharedNodesAreMarked
  BY <1>1, MarkedIfShared
<1> SUFFICES ASSUME NEW i \in Running, NEW j \in Running, i # j
             PROVE  mayHappenInParallelInst(Top(i).at, Top(j).at)
  BY DEF ParallelIsReported
<1>3. PICK A : Lineage(A) /\ MetInv(A)
  BY <1>1
<1>4. Analysed
  <2>1. stage = "run"
    BY <1>1, ListEmpty DEF Running, RunInv
  <2> QED  BY <1>1, <2>1 DEF Analysed, Walking
<1> DEFINE Row(k) == RowOf(interleaving, <<Node(k), Top(k).cxt, Top(k).at>>)
<1>5. \A k \in Running : k \in DOMAIN threads /\ Node(k) \in Tids
  BY <1>1, NodeOfThread DEF Running
<1>6. ASSUME NEW k \in Running PROVE MetAt(k, Depth(k)) \subseteq Row(k)
  <2> DEFINE u == Node(k)
             c == Top(k).cxt
             s == Top(k).at
  <2>1. MetAt(k, Depth(k)) = Met(u, c, s) /\ s \in Stmts
    BY <1>1, RunningTop DEF MetAt
  <2> HIDE DEF u, c, s
  <2>2. Met(u, c, s) \subseteq RowOf(interleaving, <<u, c, s>>)
    BY <1>4, <2>1, MetRows
  <2> QED  BY <2>1, <2>2 DEF u, c, s
<1>7. ASSUME NEW k \in DOMAIN threads
      PROVE  Node(k) \in MetAtEntry(Node(k)) /\ Node(k) \in Heirs(Node(k))
  <2> DEFINE u == Node(k)
  <2>1. u \in Tids
    BY <1>1, NodeOfThread
  <2> HIDE DEF u
  <2>2. u \in MetAtEntry(u) /\ u \in Heirs(u)
    BY <1>1, <1>4, <2>1, MetHeirs, HeirsFacts DEF MetAtEntry
  <2> QED  BY <2>2 DEF u
<1>8. ASSUME NEW k \in Running, NEW l \in Running PROVE Node(l) \in Row(k)
  <2>1. Told(k, Depth(k)) /\ Depth(k) \in Frames(k)
    BY <1>1, RunningTop DEF Told
  <2>2. \/ Heirs(Node(l)) \subseteq MetAt(k, Depth(k))
        \/ MetAtEntry(Node(l)) \subseteq MetAt(k, Depth(k))
    BY <1>3, <1>5, <2>1 DEF MetInv
  <2> QED  BY <1>5, <1>6, <1>7, <2>2
<1> DEFINE x == <<Node(i), Top(i).cxt, Top(i).at>>
           y == <<Node(j), Top(j).cxt, Top(j).at>>
<1>9. /\ x \in DOMAIN interleaving /\ y \in DOMAIN interleaving
      /\ Node(j) \in interleaving[x] /\ Node(i) \in interleaving[y]
  <2>1. Row(i) = RowOf(interleaving, x) /\ Row(j) = RowOf(interleaving, y)
    OBVIOUS
  <2> HIDE DEF x, y
  <2> QED  BY <1>8, <2>1 DEF RowOf
<1>10. x[1] = Node(i) /\ x[3] = Top(i).at /\ y[1] = Node(j) /\ y[3] = Top(j).at
  OBVIOUS
<1>11. Node(i) = Node(j) => isMultiForkedThread(Node(i))
  BY <1>2, <1>5 DEF SharedNodesAreMarked
<1> HIDE DEF x, y
<1>12. x \in ThreadStmtSet(Top(i).at) /\ y \in ThreadStmtSet(Top(j).at)
  BY <1>9, <1>10 DEF ThreadStmtSet
<1> QED  BY <1>9, <1>10, <1>11, <1>12 DEF mayHappenInParallelInst

\* Of a program that joins nothing, forks outside of recursion, and whose jumps back are turns
\* of loops: the statements two threads of a run are about to execute are reported as parallel,
\* if the two threads have nodes of their own, and if they share one.  (MHP.cpp:490-498.)
THEOREM ForksAreReported ==
    Spec => [](NoJoins /\ ForksOutsideRecursion /\ JumpsBackAreLoops => ParallelIsReported)
<1>1. Init => ForkInv /\ OnceForks /\ MarkInv /\ ForkOnlyInv
  <2> SUFFICES ASSUME Init PROVE ForkInv /\ OnceForks /\ MarkInv /\ ForkOnlyInv
    OBVIOUS
  <2>1. DOMAIN threads = {}
    BY ListEmpty DEF Init
  <2>2. \A s : Begun(s) = {}
    BY <2>1 DEF Begun
  <2>3. ForkInv /\ OnceForks
    BY <2>1, <2>2 DEF ForkInv, OnceForks, OnceInv
  <2>4. StackShape /\ Kin /\ \E A : Lineage(A) /\ MetInv(A)
    BY <2>1, NoThreads
  <2> QED  BY <2>3, <2>4, MarkInvInit, ShapeInit, AliveInit, SpreadInit DEF ForkOnlyInv
<1>2. WholeInv /\ WholeInv' /\ ForkInv /\ MarkInv /\ OnceForks /\ ForkOnlyInv /\ [Next]_vars
        => ForkInv' /\ MarkInv' /\ OnceForks' /\ ForkOnlyInv'
  <2>1. WholeInv /\ WholeInv' /\ ForkInv /\ MarkInv /\ OnceForks /\ [Next]_vars
            => ForkInv' /\ MarkInv' /\ OnceForks'
    BY ForkInvStep, MarkInvStep, OnceInvStep DEF WholeInv
  <2> QED  BY <2>1, ForkOnlyStep
<1>3. WholeInv /\ ForkInv /\ MarkInv /\ OnceForks /\ ForkOnlyInv =>
        (NoJoins /\ ForksOutsideRecursion /\ JumpsBackAreLoops => ParallelIsReported)
  BY ParallelIfMet
<1> QED  BY <1>1, <1>2, <1>3, WalksStayOnTheTree, PTL DEF Spec
================================================================================
