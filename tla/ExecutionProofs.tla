---------------------------- MODULE ExecutionProofs ----------------------------
(***************************************************************************)
(* The analyses and the runs together, for every program: both meet        *)
(* functions only under contexts the thread creation tree was built for,   *)
(* so every fork of either has its node (EveryForkFound).                  *)
(***************************************************************************)
EXTENDS MHPProofs

-----------------------------------------------------------------------------
(* The runs.                                                               *)

IsFrame(f) ==
    /\ f = [at |-> f.at, cxt |-> f.cxt, rounds |-> f.rounds]
    /\ f.at \in Stmts /\ <<f.cxt, FunOf(f.at)>> \in Walked

\* A caller waits at its call.
IsStack(st) ==
    /\ IsList(st)
    /\ \A d \in DOMAIN st : IsFrame(st[d]) /\ (d # Len(st) => Op(st[d].at) = "call")

IsThread(th) ==
    /\ th = [stack |-> th.stack, cxt |-> th.cxt, fork |-> th.fork, parent |-> th.parent]
    /\ IsStack(th.stack)
    /\ NodesOf(th.cxt, th.fork) # {}

\* Threads are forked by those before them; handles and mutexes name threads.
RunInv ==
    /\ IsList(threads)
    /\ threads # <<>> => stage = "run"
    /\ \A i \in DOMAIN threads : IsThread(threads[i]) /\ threads[i].parent \in 0..(i - 1)
    /\ \A c \in DOMAIN handles : handles[c] \in {0} \cup DOMAIN threads
    /\ \A mutex \in DOMAIN owners : owners[mutex] \in DOMAIN threads

LEMMA ListIndex ==
    ASSUME NEW s, IsList(s)
    PROVE  /\ Len(s) \in Nat /\ DOMAIN s = 1..Len(s)
           /\ s # <<>> => Len(s) \in DOMAIN s /\ Last(s) = s[Len(s)]
  BY DEF IsList, Last

LEMMA ListFront ==
    ASSUME NEW s, IsList(s), s # <<>>
    PROVE  /\ IsList(Front(s)) /\ Len(Front(s)) = Len(s) - 1
           /\ \A d \in DOMAIN Front(s) : d \in DOMAIN s /\ d # Len(s) /\ Front(s)[d] = s[d]
<1>1. s \in Seq(ToSet(s)) /\ Len(s) \in Nat \ {0}
  BY DEF IsList
<1>2. /\ Front(s) \in Seq(ToSet(s)) /\ Len(Front(s)) = Len(s) - 1
      /\ \A d \in 1..(Len(s) - 1) : Front(s)[d] = s[d]
  <2> DEFINE n == Len(s)
             low == SubSeq(s, 1, n - 1)
  <2>1. n \in Nat \ {0} /\ \A d \in 1..(n - 1) : s[d] \in ToSet(s)
    BY <1>1
  <2>2. /\ low \in Seq(ToSet(s))
        /\ Len(low) = IF 1 <= n - 1 THEN n - 1 - 1 + 1 ELSE 0
        /\ \A d \in 1..(n - 1 - 1 + 1) : low[d] = s[1 + d - 1]
    BY <2>1, SubSeqProperties
  <2> HIDE DEF n, low
  <2>3. Len(low) = n - 1 /\ n - 1 - 1 + 1 = n - 1
    BY <2>1, <2>2
  <2>4. ASSUME NEW d \in 1..(n - 1) PROVE low[d] = s[d]
    <3>1. 1 + d - 1 = d
      BY <2>1
    <3> QED  BY <2>2, <2>3, <3>1
  <2> QED  BY <2>2, <2>3, <2>4 DEF Front, n, low
<1>3. DOMAIN Front(s) = 1..(Len(s) - 1) /\ DOMAIN s = 1..Len(s)
  BY <1>1, <1>2
<1> QED  BY <1>1, <1>2, <1>3, ListIn

LEMMA ListGrows ==
    ASSUME NEW s, IsList(s), NEW x
    PROVE  /\ IsList(Append(s, x)) /\ Len(Append(s, x)) = Len(s) + 1
           /\ DOMAIN Append(s, x) = DOMAIN s \cup {Len(s) + 1}
           /\ \A d \in DOMAIN s : d # Len(s) + 1 /\ Append(s, x)[d] = s[d]
           /\ Append(s, x)[Len(s) + 1] = x
<1>1. IsList(Append(s, x))
  BY ListAppend
<1>2. s \in Seq(ToSet(s) \cup {x}) /\ Len(s) \in Nat /\ DOMAIN s = 1..Len(s)
  BY SeqMonotonic DEF IsList
<1>3. Len(Append(s, x)) = Len(s) + 1 /\ DOMAIN Append(s, x) = 1..(Len(s) + 1)
  BY <1>2
<1>4. \A d \in 1..Len(s) : Append(s, x)[d] = s[d]
  BY <1>2
<1> QED  BY <1>1, <1>2, <1>3, <1>4

LEMMA StackOfOne == ASSUME NEW f, IsFrame(f) PROVE IsStack(<<f>>)
<1>1. IsList(<<f>>) /\ DOMAIN <<f>> = {1} /\ <<f>>[1] = f /\ Len(<<f>>) = 1
  BY ListOfOne
<1> QED  BY <1>1 DEF IsStack

\* The callers, and the frame on top of them.
LEMMA StackTop ==
    ASSUME NEW st, IsStack(st), st # <<>>
    PROVE  /\ IsFrame(Last(st)) /\ IsStack(Front(st))
           /\ \A f : IsFrame(f) => IsStack(Append(Front(st), f))
           /\ Front(st) # <<>> => Op(Last(Front(st)).at) = "call"
<1>1. Len(st) \in DOMAIN st /\ Last(st) = st[Len(st)] /\ IsList(st)
  BY ListIndex DEF IsStack
<1>2. /\ IsList(Front(st)) /\ Len(Front(st)) = Len(st) - 1
      /\ \A d \in DOMAIN Front(st) : d \in DOMAIN st /\ d # Len(st) /\ Front(st)[d] = st[d]
  BY <1>1, ListFront
<1> DEFINE low == Front(st)
<1> HIDE DEF low
<1>3. \A d \in DOMAIN low : IsFrame(low[d]) /\ Op(low[d].at) = "call"
  BY <1>2 DEF low, IsStack
<1>4. IsList(low)
  BY <1>2 DEF low
<1>5. ASSUME NEW f, IsFrame(f) PROVE IsStack(Append(low, f))
  <2> DEFINE up == Append(low, f)
  <2>1. /\ IsList(up) /\ Len(up) = Len(low) + 1 /\ DOMAIN up = DOMAIN low \cup {Len(low) + 1}
        /\ \A d \in DOMAIN low : d # Len(low) + 1 /\ up[d] = low[d]
        /\ up[Len(low) + 1] = f
    BY <1>4, ListGrows
  <2> HIDE DEF up
  <2>2. \A d \in DOMAIN up : IsFrame(up[d]) /\ (d # Len(up) => Op(up[d].at) = "call")
    BY <1>3, <1>5, <2>1
  <2> QED  BY <2>1, <2>2 DEF IsStack, up
<1>6. low # <<>> => Op(Last(low).at) = "call"
  BY <1>3, <1>4, ListIndex
<1>7. IsStack(low)
  BY <1>3, <1>4 DEF IsStack
<1> QED  BY <1>1, <1>5, <1>6, <1>7 DEF low, IsStack

LEMMA StackPush ==
    ASSUME NEW st, IsStack(st), st # <<>>, Op(Last(st).at) = "call", NEW f, IsFrame(f)
    PROVE  IsStack(Append(st, f))
<1> DEFINE up == Append(st, f)
<1>1. /\ IsList(up) /\ Len(up) = Len(st) + 1 /\ DOMAIN up = DOMAIN st \cup {Len(st) + 1}
      /\ \A d \in DOMAIN st : d # Len(st) + 1 /\ up[d] = st[d]
      /\ up[Len(st) + 1] = f
  BY ListGrows DEF IsStack
<1>2. Last(st) = st[Len(st)]
  BY ListIndex DEF IsStack
<1> HIDE DEF up
<1>3. \A d \in DOMAIN up : IsFrame(up[d]) /\ (d # Len(up) => Op(up[d].at) = "call")
  BY <1>1, <1>2 DEF IsStack
<1> QED  BY <1>1, <1>3 DEF IsStack, up

\* The statement a run goes on at.
LEMMA AfterFacts ==
    ASSUME IsProgram(code), NEW s \in Stmts, Op(s) \notin {"ret", "goto"}
    PROVE  After(s) \in Stmts /\ FunOf(After(s)) = FunOf(s)
<1>1. After(s) \in Succs(s)
  BY DEF Succs, After
<1> QED  BY <1>1, SuccFacts

LEMMA LoopExit ==
    ASSUME IsProgram(code), NEW s \in Stmts, Op(s) = "loop"
    PROVE  <<FunOf(s), Stmt(s).target>> \in Stmts
<1>1. <<FunOf(s), Stmt(s).target>> \in Succs(s)
  BY DEF Succs
<1> QED  BY <1>1, SuccFacts

\* The frame on top of thread i.
LEMMA TopFacts ==
    ASSUME RunInv, NEW i \in Running
    PROVE  /\ i \in DOMAIN threads /\ IsStack(threads[i].stack) /\ threads[i].stack # <<>>
           /\ IsFrame(Top(i)) /\ Top(i) = Last(threads[i].stack)
           /\ Top(i).at \in Stmts /\ <<Top(i).cxt, FunOf(Top(i).at)>> \in Walked
<1>1. i \in DOMAIN threads /\ IsStack(threads[i].stack) /\ threads[i].stack # <<>>
  BY DEF Running, RunInv, IsThread
<1>2. IsFrame(Last(threads[i].stack))
  BY <1>1, StackTop
<1> QED  BY <1>1, <1>2 DEF Top, IsFrame

\* Thread i gets another stack, and perhaps there is a new thread.
LEMMA StackStep ==
    ASSUME RunInv, FixedNext, UNCHANGED nodes, stage' = "run", NEW i \in DOMAIN threads,
           NEW st, IsStack(st), NEW new,
           \/ threads' = [threads EXCEPT ![i].stack = st]
           \/ /\ threads' = Append([threads EXCEPT ![i].stack = st], new)
              /\ IsThread(new) /\ new.parent = i,
           \A c \in DOMAIN handles' : handles'[c] \in {0} \cup DOMAIN threads',
           \A mutex \in DOMAIN owners' : owners'[mutex] \in DOMAIN threads'
    PROVE  RunInv'
<1> DEFINE th == [threads[i] EXCEPT !.stack = st]
           ts == [threads EXCEPT ![i] = th]
<1>1. IsThread(threads[i])
  BY DEF RunInv
<1>2. IsThread(th) /\ th.parent = threads[i].parent
  <2>1. /\ th.stack = st /\ th.cxt = threads[i].cxt /\ th.fork = threads[i].fork
        /\ th.parent = threads[i].parent
        /\ th = [stack |-> th.stack, cxt |-> th.cxt, fork |-> th.fork, parent |-> th.parent]
    BY <1>1 DEF IsThread
  <2> HIDE DEF th
  <2> QED  BY <1>1, <2>1 DEF IsThread
<1>3. threads' = ts \/ (threads' = Append(ts, new) /\ IsThread(new) /\ new.parent = i)
  OBVIOUS
<1>4. DOMAIN ts = DOMAIN threads /\ \A k \in DOMAIN threads : ts[k] = IF k = i THEN th ELSE threads[k]
  OBVIOUS
<1> HIDE DEF th, ts
<1>5. IsList(ts) /\ Len(ts) = Len(threads) /\ DOMAIN threads = 1..Len(threads) /\ Len(threads) \in Nat
  <2>1. Len(threads) \in Nat /\ DOMAIN threads = 1..Len(threads)
    BY ListIndex DEF RunInv
  <2>2. \A k \in 1..Len(threads) : ts[k] \in ToSet(ts)
    BY <1>4, <2>1 DEF ToSet
  <2>3. ts \in [1..Len(threads) -> ToSet(ts)]
    BY <1>4, <2>1, <2>2 DEF ts
  <2>4. ts \in Seq(ToSet(ts))
    BY <2>1, <2>3, SeqDef
  <2> QED  BY <1>4, <2>1, <2>3, <2>4 DEF IsList
<1>6. \A k \in DOMAIN ts : IsThread(ts[k]) /\ ts[k].parent \in 0..(k - 1)
  BY <1>2, <1>4 DEF RunInv
<1>7. /\ IsList(threads') /\ DOMAIN ts \subseteq DOMAIN threads'
      /\ \A k \in DOMAIN threads' : IsThread(threads'[k]) /\ threads'[k].parent \in 0..(k - 1)
  <2>1. CASE threads' = ts
    BY <1>5, <1>6, <2>1
  <2>2. CASE threads' = Append(ts, new) /\ IsThread(new) /\ new.parent = i
    <3>1. /\ IsList(threads') /\ DOMAIN threads' = DOMAIN ts \cup {Len(ts) + 1}
          /\ \A k \in DOMAIN ts : threads'[k] = ts[k]
          /\ threads'[Len(ts) + 1] = new
      BY <1>5, <2>2, ListGrows
    <3>2. new.parent \in 0..(Len(ts) + 1 - 1)
      BY <1>5, <2>2
    <3> QED  BY <1>6, <2>2, <3>1, <3>2
  <2> QED  BY <1>3, <2>1, <2>2
<1>8. \A k \in DOMAIN threads' : IsThread(threads[k])'
  <2> SUFFICES ASSUME NEW k \in DOMAIN threads' PROVE IsThread(threads[k])'
    OBVIOUS
  <2>1. IsThread(threads'[k])
    BY <1>7
  <2> QED  BY <2>1 DEF IsThread, IsStack, IsFrame, FixedNext, IsList, NodesOf, Tids
<1> QED  BY <1>7, <1>8 DEF RunInv, IsList

LEMMA FrameMoves ==
    ASSUME NEW f, IsFrame(f), NEW s \in Stmts, FunOf(s) = FunOf(f.at), NEW r
    PROVE  IsFrame([f EXCEPT !.at = s]) /\ IsFrame([f EXCEPT !.at = s, !.rounds = r])
<1> DEFINE g == [f EXCEPT !.at = s]
           h == [f EXCEPT !.at = s, !.rounds = r]
<1>1. g = [at |-> s, cxt |-> f.cxt, rounds |-> f.rounds]
  BY DEF IsFrame
<1>2. h = [at |-> s, cxt |-> f.cxt, rounds |-> r]
  <2>1. h = [g EXCEPT !.rounds = r]
    OBVIOUS
  <2> HIDE DEF g, h
  <2> QED  BY <1>1, <2>1
<1> HIDE DEF g, h
<1> QED  BY <1>1, <1>2 DEF IsFrame, g, h

\* Thread i goes on in the function it is in.
LEMMA GoToFacts ==
    ASSUME RunInv, NEW i \in Running, NEW s \in Stmts, FunOf(s) = FunOf(Top(i).at)
    PROVE  \E st : IsStack(st) /\ GoTo(i, s) = [threads EXCEPT ![i].stack = st]
<1> DEFINE st == Append(Front(threads[i].stack), [Last(threads[i].stack) EXCEPT !.at = s])
<1>1. GoTo(i, s) = [threads EXCEPT ![i].stack = st]
  BY DEF GoTo
<1>2. IsStack(st)
  BY TopFacts, StackTop, FrameMoves
<1> QED  BY <1>1, <1>2

\* The steps that change the stack of one thread only.
LEMMA GoStep ==
    ASSUME ProgInv, RunInv, FixedNext, UNCHANGED nodes, stage' = "run", NEW i \in Running,
           NEW s \in Stmts, FunOf(s) = FunOf(Top(i).at), threads' = GoTo(i, s),
           \A c \in DOMAIN handles' : handles'[c] \in {0} \cup DOMAIN threads,
           \A mutex \in DOMAIN owners' : owners'[mutex] \in DOMAIN threads
    PROVE  RunInv'
<1>1. PICK st : IsStack(st) /\ threads' = [threads EXCEPT ![i].stack = st]
  BY GoToFacts
<1>2. DOMAIN threads' = DOMAIN threads /\ i \in DOMAIN threads
  BY <1>1, TopFacts
<1> QED  BY <1>1, <1>2, StackStep

LEMMA ExecutingFacts ==
    ASSUME RunInv, NEW i, NEW kinds, Executing(i, kinds)
    PROVE  /\ i \in Running /\ Op(Top(i).at) \in kinds /\ nodes' = nodes /\ stage' = "run"
           /\ stage = "run"
           /\ Top(i).at \in Stmts /\ <<Top(i).cxt, FunOf(Top(i).at)>> \in Walked
           /\ \A c \in DOMAIN handles : handles[c] \in {0} \cup DOMAIN threads
           /\ \A mutex \in DOMAIN owners : owners[mutex] \in DOMAIN threads
<1>1. i \in Running /\ Op(Top(i).at) \in kinds /\ nodes' = nodes /\ stage' = "run" /\ stage = "run"
  BY DEF Executing, progVars, analysisVars, treeVars
<1>2. Top(i).at \in Stmts /\ <<Top(i).cxt, FunOf(Top(i).at)>> \in Walked
  BY <1>1, TopFacts
<1> QED  BY <1>1, <1>2 DEF RunInv

LEMMA ExecAccessStep ==
    ASSUME ProgInv, RunInv, FixedNext, NEW i, ExecAccess(i) \/ ExecJump(i) PROVE RunInv'
<1>1. PICK kinds : Executing(i, kinds) /\ kinds \subseteq {"access", "branch", "goto"}
  BY DEF ExecAccess, ExecJump
<1>2. UNCHANGED <<handles, owners>>
  BY DEF ExecAccess, ExecJump
<1>3. /\ i \in Running /\ Top(i).at \in Stmts /\ nodes' = nodes /\ stage' = "run"
      /\ \A c \in DOMAIN handles : handles[c] \in {0} \cup DOMAIN threads
      /\ \A mutex \in DOMAIN owners : owners[mutex] \in DOMAIN threads
  BY <1>1, ExecutingFacts
<1>4. PICK s \in Stmts : FunOf(s) = FunOf(Top(i).at) /\ threads' = GoTo(i, s)
  <2>1. CASE ExecAccess(i)
    <3>1. Executing(i, {"access"}) /\ threads' = GoTo(i, After(Top(i).at))
      BY <2>1 DEF ExecAccess
    <3>2. Op(Top(i).at) \in {"access"}
      BY <3>1, ExecutingFacts
    <3> QED  BY <1>3, <3>1, <3>2, AfterFacts DEF ProgInv
  <2>2. CASE ExecJump(i)
    BY <1>3, <2>2, SuccFacts DEF ExecJump, ProgInv
  <2> QED  BY <2>1, <2>2
<1> QED  BY <1>2, <1>3, <1>4, GoStep

LEMMA ExecLoopStep ==
    ASSUME ProgInv, RunInv, FixedNext, NEW i, ExecLoop(i) PROVE RunInv'
<1> DEFINE h == Top(i).at
           Set(s, m) == [threads EXCEPT ![i].stack =
                            Append(Front(@), [Last(@) EXCEPT !.at = s, !.rounds[h] = m])]
<1>1. /\ Executing(i, {"loop"}) /\ UNCHANGED <<handles, owners>>
      /\ \E m : threads' = Set(After(h), m) \/ threads' = Set(<<FunOf(h), Stmt(h).target>>, m)
  BY DEF ExecLoop
<1>2. /\ i \in Running /\ h \in Stmts /\ nodes' = nodes /\ stage' = "run" /\ Op(h) \in {"loop"}
      /\ \A c \in DOMAIN handles : handles[c] \in {0} \cup DOMAIN threads
      /\ \A mutex \in DOMAIN owners : owners[mutex] \in DOMAIN threads
  BY <1>1, ExecutingFacts
<1>3. PICK m : threads' = Set(After(h), m) \/ threads' = Set(<<FunOf(h), Stmt(h).target>>, m)
  BY <1>1
<1>4. /\ After(h) \in Stmts /\ FunOf(After(h)) = FunOf(h)
      /\ <<FunOf(h), Stmt(h).target>> \in Stmts
      /\ FunOf(<<FunOf(h), Stmt(h).target>>) = FunOf(h)
  BY <1>2, AfterFacts, LoopExit DEF ProgInv, FunOf
<1>5. PICK s \in Stmts : FunOf(s) = FunOf(h) /\ threads' = Set(s, m)
  BY <1>3, <1>4
<1> DEFINE r == [Last(threads[i].stack).rounds EXCEPT ![h] = m]
           f == [Last(threads[i].stack) EXCEPT !.at = s, !.rounds = r]
           st == Append(Front(threads[i].stack), f)
<1>6. /\ IsStack(threads[i].stack) /\ threads[i].stack # <<>> /\ i \in DOMAIN threads
      /\ IsFrame(Last(threads[i].stack)) /\ h = Last(threads[i].stack).at
  BY <1>2, TopFacts
<1>7. f = [Last(threads[i].stack) EXCEPT !.at = s, !.rounds[h] = m]
  BY <1>6 DEF IsFrame
<1>8. threads' = [threads EXCEPT ![i].stack = st]
  BY <1>5, <1>7
<1>9. IsFrame(f)
  <2> HIDE DEF r
  <2> QED  BY <1>5, <1>6, FrameMoves
<1> HIDE DEF f, h
<1>10. IsStack(st)
  BY <1>6, <1>9, StackTop
<1> HIDE DEF st
<1>11. DOMAIN threads' = DOMAIN threads
  BY <1>8
<1>12. /\ \A c \in DOMAIN handles' : handles'[c] \in {0} \cup DOMAIN threads'
       /\ \A mutex \in DOMAIN owners' : owners'[mutex] \in DOMAIN threads'
  BY <1>1, <1>2, <1>11
<1> QED  BY <1>2, <1>6, <1>8, <1>10, <1>12, StackStep

LEMMA ExecCallStep ==
    ASSUME ProgInv, RunInv, FixedNext, NEW i, ExecCall(i) PROVE RunInv'
<1> DEFINE s == Top(i).at
           f == Frame(Entry(Callee(s)), pushCxt(Top(i).cxt, s))
           st == Append(threads[i].stack, f)
<1>1. /\ Executing(i, {"call"}) /\ UNCHANGED <<handles, owners>>
      /\ threads' = [threads EXCEPT ![i].stack = st]
  BY DEF ExecCall
<1>2. /\ i \in Running /\ s \in Stmts /\ nodes' = nodes /\ stage' = "run" /\ Op(s) \in {"call"}
      /\ <<Top(i).cxt, FunOf(s)>> \in Walked
      /\ \A c \in DOMAIN handles : handles[c] \in {0} \cup DOMAIN threads
      /\ \A mutex \in DOMAIN owners : owners[mutex] \in DOMAIN threads
  BY <1>1, ExecutingFacts
<1>3. s \in CallSites
  BY <1>2 DEF CallSites, Sites
<1>4. <<pushCxt(Top(i).cxt, s), Callee(s)>> \in Walked
  BY <1>2, <1>3, WalkInto
<1>5. Entry(Callee(s)) \in Stmts /\ FunOf(Entry(Callee(s))) = Callee(s)
  BY <1>4, WalkEntry
<1>6. IsFrame(f)
  BY <1>4, <1>5 DEF IsFrame, Frame
<1>7. IsStack(threads[i].stack) /\ threads[i].stack # <<>> /\ i \in DOMAIN threads
      /\ Top(i) = Last(threads[i].stack)
  BY <1>2, TopFacts
<1> HIDE DEF f
<1>8. IsStack(st)
  BY <1>2, <1>6, <1>7, StackPush
<1> HIDE DEF st
<1>9. DOMAIN threads' = DOMAIN threads
  BY <1>1
<1>10. /\ \A c \in DOMAIN handles' : handles'[c] \in {0} \cup DOMAIN threads'
       /\ \A mutex \in DOMAIN owners' : owners'[mutex] \in DOMAIN threads'
  BY <1>1, <1>2, <1>9
<1> QED  BY <1>1, <1>2, <1>7, <1>8, <1>10, StackStep

LEMMA ExecRetStep ==
    ASSUME ProgInv, RunInv, FixedNext, NEW i, ExecRet(i) PROVE RunInv'
<1> DEFINE stack == Front(threads[i].stack)
           st == IF stack = <<>> THEN <<>>
                 ELSE Append(Front(stack), [Last(stack) EXCEPT !.at = After(@)])
<1>1. /\ Executing(i, {"ret"}) /\ UNCHANGED <<handles, owners>>
      /\ threads' = [threads EXCEPT ![i].stack = st]
  BY DEF ExecRet
<1>2. /\ i \in Running /\ nodes' = nodes /\ stage' = "run"
      /\ \A c \in DOMAIN handles : handles[c] \in {0} \cup DOMAIN threads
      /\ \A mutex \in DOMAIN owners : owners[mutex] \in DOMAIN threads
  BY <1>1, ExecutingFacts
<1>3. IsStack(threads[i].stack) /\ threads[i].stack # <<>> /\ i \in DOMAIN threads
  BY <1>2, TopFacts
<1>4. IsStack(stack) /\ (stack # <<>> => Op(Last(stack).at) = "call")
  BY <1>3, StackTop
<1> HIDE DEF stack
<1>5. IsStack(st)
  <2>1. CASE stack = <<>>
    <3>1. IsList(<<>>) /\ DOMAIN <<>> = {}
      BY ListEmpty
    <3> QED  BY <2>1, <3>1 DEF IsStack
  <2>2. CASE stack # <<>>
    <3>1. IsFrame(Last(stack)) /\ Op(Last(stack).at) = "call"
      BY <1>4, <2>2, StackTop
    <3> DEFINE f == Last(stack)
               g == [f EXCEPT !.at = After(f.at)]
    <3>2. After(f.at) \in Stmts /\ FunOf(After(f.at)) = FunOf(f.at)
      BY <3>1, AfterFacts DEF IsFrame, ProgInv
    <3>3. st = Append(Front(stack), g)
      BY <2>2
    <3> HIDE DEF f
    <3>4. IsFrame(g)
      BY <3>1, <3>2, FrameMoves DEF f
    <3> HIDE DEF g, st
    <3> QED  BY <1>4, <2>2, <3>3, <3>4, StackTop
  <2> QED  BY <2>1, <2>2
<1> HIDE DEF st
<1>6. DOMAIN threads' = DOMAIN threads
  BY <1>1
<1>7. /\ \A c \in DOMAIN handles' : handles'[c] \in {0} \cup DOMAIN threads'
      /\ \A mutex \in DOMAIN owners' : owners'[mutex] \in DOMAIN threads'
  BY <1>1, <1>2, <1>6
<1> QED  BY <1>1, <1>2, <1>3, <1>5, <1>7, StackStep

LEMMA ExecForkStep ==
    ASSUME ProgInv, WalkInv, RunInv, FixedNext, NEW i, ExecFork(i) PROVE RunInv'
<1> DEFINE s == Top(i).at
           cxt == pushCxt(Top(i).cxt, s)
           new == NewThread(Entry(Callee(s)), cxt, s, i)
<1>1. /\ Executing(i, {"fork"}) /\ owners' = owners
      /\ threads' = Append(GoTo(i, After(s)), new)
      /\ handles' = Put(handles, {Cell(i)}, Len(threads) + 1)
  BY DEF ExecFork
<1>2. /\ i \in Running /\ s \in Stmts /\ nodes' = nodes /\ stage' = "run" /\ stage = "run"
      /\ Op(s) \in {"fork"} /\ <<Top(i).cxt, FunOf(s)>> \in Walked
      /\ \A c \in DOMAIN handles : handles[c] \in {0} \cup DOMAIN threads
      /\ \A mutex \in DOMAIN owners : owners[mutex] \in DOMAIN threads
  BY <1>1, ExecutingFacts
<1>3. s \in CallSites /\ s \in Sites({"fork"})
  BY <1>2 DEF CallSites, Sites
<1>4. <<cxt, Callee(s)>> \in Walked
  BY <1>2, <1>3, WalkInto
<1>5. Entry(Callee(s)) \in Stmts /\ FunOf(Entry(Callee(s))) = Callee(s)
  BY <1>4, WalkEntry
<1>6. IsFrame(Frame(Entry(Callee(s)), cxt))
  BY <1>4, <1>5 DEF IsFrame, Frame
<1>7. NodesOf(cxt, s) # {}
  BY <1>2, <1>3, ForksHaveNodes
<1>8. /\ new = [stack |-> <<Frame(Entry(Callee(s)), cxt)>>, cxt |-> cxt, fork |-> s, parent |-> i]
  BY DEF NewThread
<1> HIDE DEF new
<1>9. IsThread(new) /\ new.parent = i
  <2>1. IsStack(<<Frame(Entry(Callee(s)), cxt)>>)
    BY <1>6, StackOfOne
  <2> QED  BY <1>7, <1>8, <2>1 DEF IsThread
<1>10. After(s) \in Stmts /\ FunOf(After(s)) = FunOf(s)
  BY <1>2, AfterFacts DEF ProgInv
<1>11. PICK st : IsStack(st) /\ GoTo(i, After(s)) = [threads EXCEPT ![i].stack = st]
  BY <1>2, <1>10, GoToFacts
<1>12. DOMAIN threads' = DOMAIN threads \cup {Len(threads) + 1}
  <2> DEFINE ts == [threads EXCEPT ![i].stack = st]
  <2>1. DOMAIN threads = 1..Len(threads) /\ Len(threads) \in Nat
    BY ListIndex DEF RunInv
  <2>2. ts \in Seq({ts[k] : k \in 1..Len(threads)}) /\ Len(ts) = Len(threads)
    <3>1. ts \in [1..Len(threads) -> {ts[k] : k \in 1..Len(threads)}]
      BY <2>1
    <3> HIDE DEF ts
    <3> QED  BY <2>1, <3>1, SeqDef, LenProperties
  <2> HIDE DEF ts
  <2>3. threads' = Append(ts, new)
    BY <1>1, <1>11 DEF ts
  <2> QED  BY <2>1, <2>2, <2>3
<1>13. \A c \in DOMAIN handles' : handles'[c] \in {0} \cup DOMAIN threads'
  BY <1>1, <1>2, <1>12 DEF Put
<1>14. \A mutex \in DOMAIN owners' : owners'[mutex] \in DOMAIN threads'
  BY <1>1, <1>2, <1>12
<1>15. i \in DOMAIN threads
  BY <1>2, TopFacts
<1> HIDE DEF s, cxt
<1> QED  BY <1>1, <1>2, <1>9, <1>11, <1>13, <1>14, <1>15, StackStep

LEMMA ExecSyncStep ==
    ASSUME ProgInv, RunInv, FixedNext, NEW i, ExecJoin(i) \/ ExecLock(i) \/ ExecUnlock(i)
    PROVE  RunInv'
<1>1. PICK kinds : Executing(i, kinds) /\ kinds \subseteq {"join", "lock", "unlock"}
  BY DEF ExecJoin, ExecLock, ExecUnlock
<1>2. threads' = GoTo(i, After(Top(i).at))
  BY DEF ExecJoin, ExecLock, ExecUnlock
<1>3. /\ i \in Running /\ Top(i).at \in Stmts /\ nodes' = nodes /\ stage' = "run"
      /\ Op(Top(i).at) \in kinds
      /\ \A c \in DOMAIN handles : handles[c] \in {0} \cup DOMAIN threads
      /\ \A mutex \in DOMAIN owners : owners[mutex] \in DOMAIN threads
  BY <1>1, ExecutingFacts
<1>4. After(Top(i).at) \in Stmts /\ FunOf(After(Top(i).at)) = FunOf(Top(i).at)
  BY <1>1, <1>3, AfterFacts DEF ProgInv
<1>5. i \in DOMAIN threads
  BY <1>3, TopFacts
<1>6. \A c \in DOMAIN handles' : handles'[c] \in {0} \cup DOMAIN threads
  BY <1>3 DEF ExecJoin, ExecLock, ExecUnlock
<1>7. \A mutex \in DOMAIN owners' : owners'[mutex] \in DOMAIN threads
  BY <1>3, <1>5 DEF ExecJoin, ExecLock, ExecUnlock, Put
<1> QED  BY <1>2, <1>3, <1>4, <1>6, <1>7, GoStep

LEMMA RunStep ==
    ASSUME ProgInv, NodeInv, RunInv, FixedNext, Run PROVE RunInv'
<1> DEFINE entry == Entry(nodes[1].routine)
           th == NewThread(entry, <<>>, NoSite, 0)
<1>1. /\ stage = "done" /\ stage' = "run" /\ threads' = <<th>> /\ nodes' = nodes
      /\ handles' = handles /\ owners' = owners
  BY DEF Run, analysisVars, treeVars
<1>2. threads = <<>> /\ DOMAIN threads = {}
  BY <1>1 DEF RunInv
<1>3. <<(<<>>), nodes[1].routine>> \in Walked /\ NodesOf(<<>>, NoSite) # {}
  BY DEF NodeInv, IsNode, NodesOf
<1>4. entry \in Stmts /\ FunOf(entry) = nodes[1].routine
  BY <1>3, WalkEntry
<1>5. IsFrame(Frame(entry, <<>>))
  BY <1>3, <1>4 DEF IsFrame, Frame
<1>6. th = [stack |-> <<Frame(entry, <<>>)>>, cxt |-> <<>>, fork |-> NoSite, parent |-> 0]
  BY DEF NewThread
<1> HIDE DEF th, entry
<1>7. IsThread(th) /\ th.parent = 0
  <2>1. IsStack(<<Frame(entry, <<>>)>>)
    BY <1>5, StackOfOne
  <2> QED  BY <1>3, <1>6, <2>1 DEF IsThread
<1>8. IsList(threads') /\ threads'[1] = th /\ DOMAIN threads' = {1}
  BY <1>1, ListOfOne
<1>9. IsThread(threads[1])'
  BY <1>1, <1>7, <1>8 DEF IsThread, IsStack, IsFrame, FixedNext, IsList, NodesOf, Tids
<1> QED  BY <1>1, <1>2, <1>7, <1>8, <1>9 DEF RunInv, IsList

LEMMA RunInvInit == ASSUME Init PROVE RunInv
<1>1. threads = <<>> /\ handles = <<>> /\ owners = <<>>
  BY DEF Init
<1>2. DOMAIN threads = {} /\ DOMAIN handles = {} /\ DOMAIN owners = {} /\ IsList(threads)
  BY <1>1, ListEmpty
<1> QED  BY <1>1, <1>2 DEF RunInv

LEMMA RunInvStep ==
    ASSUME ProgInv, WalkInv, NodeInv, RunInv, [Next]_vars PROVE RunInv'
<1>0. FixedNext
  BY StepCases, FixedPrimed
<1>1. CASE Execute
  BY <1>0, <1>1, ExecAccessStep, ExecLoopStep, ExecCallStep, ExecRetStep, ExecForkStep,
     ExecSyncStep DEF Execute
<1>2. CASE Run
  BY <1>0, <1>2, RunStep
<1>3. CASE ~Execute /\ ~Run
  <2>1. UNCHANGED runVars /\ (nodes' = nodes \/ stage = "tct") /\ (stage = "run" => stage' = "run")
    <3>1. CASE LaterStep
      <4>1. UNCHANGED runVars /\ stage # "run"
        BY <1>3, <3>1 DEF LaterStep, PairStep, StartPairs, SkipLocal, PairUp, FinishPairs,
                          InferFromCallGraph
      <4> QED  BY <3>1, <4>1, LaterFrame DEF treeVars
    <3>2. CASE UNCHANGED vars
      BY <3>2 DEF vars, progVars, analysisVars, treeVars
    <3> QED  BY <1>3, <3>1, <3>2, StepCases, TreeFrame, ForkJoinFrame, MHPFrame, LockFrame
             DEF treeVars
  <2>2. threads' = threads /\ handles' = handles /\ owners' = owners
    BY <2>1 DEF runVars
  <2>3. CASE threads = <<>>
    BY <2>2, <2>3 DEF RunInv, IsList
  <2>4. CASE threads # <<>>
    <3>1. stage = "run" /\ nodes' = nodes /\ stage' = "run"
      BY <2>1, <2>4 DEF RunInv
    <3>2. ASSUME NEW i \in DOMAIN threads PROVE IsThread(threads[i])'
      <4>1. IsThread(threads[i])
        BY DEF RunInv
      <4> QED  BY <1>0, <2>2, <3>1, <4>1
               DEF IsThread, IsStack, IsFrame, FixedNext, IsList, NodesOf, Tids
    <3> QED  BY <2>2, <3>1, <3>2 DEF RunInv, IsList
  <2> QED  BY <2>3, <2>4
<1> QED  BY <1>1, <1>2, <1>3

\* What every step keeps.
WholeInv == ProgInv /\ WalkInv /\ NodeInv /\ FlagInv /\ InterleavingInv /\ RunInv

\* The analyses and the runs go on under contexts they can be at, whatever the program.
THEOREM WalksStayOnTheTree == Spec => []WholeInv
<1>1. Init => WholeInv
  BY ProgInvInit, WalkInvInit, FlagInvInit, InterleavingInvInit, RunInvInit DEF WholeInv
<1>2. WholeInv /\ [Next]_vars => WholeInv'
  BY ProgInvStep, WalkInvStep, FlagInvStep, InterleavingInvStep, RunInvStep DEF WholeInv
<1> QED  BY <1>1, <1>2, PTL DEF Spec

\* getTCTNode (TCT.h:189) is never asked for a node the tree does not have: not by the
\* fork-join analysis, not by the interleaving analysis, and each thread of a run has one.
THEOREM EveryForkFound == Spec => []EveryForkHasANode
<1>1. ASSUME WholeInv, NEW cs \in Reached, Op(cs[2]) = "fork"
      PROVE  NodesOf(pushCxt(cs[1], cs[2]), cs[2]) # {}
  <2>1. stage # "tct" /\ cs[2] \in Stmts /\ <<cs[1], FunOf(cs[2])>> \in Walked
    <3>1. CASE cs \in ToSet(cxtStmtList)
      <4>1. cs \in DOMAIN flags /\ cxtStmtList # <<>>
        BY <1>1, <3>1, ListEmpty DEF WholeInv, FlagInv
      <4> QED  BY <1>1, <4>1 DEF WholeInv, FlagInv, WalkTargets, OnWalk
    <3>2. CASE cs \notin ToSet(cxtStmtList)
      <4>1. PICK cts \in ToSet(ctsList) : cs = <<cts[2], cts[3]>>
        BY <3>2 DEF Reached
      <4>2. cts \in DOMAIN interleaving /\ ctsList # <<>>
        BY <1>1, ListEmpty DEF WholeInv, InterleavingInv
      <4>3. cs[1] = cts[2] /\ cs[2] = cts[3]
        BY <4>1
      <4> QED  BY <1>1, <4>2, <4>3 DEF WholeInv, InterleavingInv, Rows, ThreadTargets, OnThread
    <3> QED  BY <3>1, <3>2
  <2>2. cs[2] \in Sites({"fork"})
    BY <1>1, <2>1 DEF Sites
  <2> QED  BY <1>1, <2>1, <2>2, ForksHaveNodes DEF WholeInv
<1>2. WholeInv => EveryForkHasANode
  BY <1>1 DEF EveryForkHasANode, WholeInv, RunInv, IsThread
<1> QED  BY <1>2, WalksStayOnTheTree, PTL
-----------------------------------------------------------------------------
(* Types.                                                                  *)

CTPType == [tid : Tids, cxt : Seq(CallSites), fun : Funs]
NodeType == [cxt : Seq(CallSites), fork : Sites({"fork"}) \cup {NoSite}, forkCxt : Seq(CallSites),
             routine : Funs, inloop : BOOLEAN, incycle : BOOLEAN]

\* What TreeIsComplete does not say of the tree.
TreeTypes ==
    /\ inRecurJoinSites \subseteq Sites({"join"})
    /\ \A t \in Tids : nodes[t] \in NodeType
    /\ visitedCTPs \subseteq CTPType
    /\ cur \in visitedCTPs \cup {Idle}
    /\ multiforked \subseteq Tids

\* The stages of MTA::runOnModule, and what the last of them compute.
LaterTypes ==
    /\ stage \in {"tct", "fja", "mhp", "lock", "cxtlocks", "lockspans", "pairs", "pairing", "pcg",
                  "done", "run"}
    /\ it \in Sites({"access"}) \cup {NoSite} /\ ahead \subseteq Sites({"access"})
    /\ pairs \subseteq Sites({"access"}) \X Sites({"access"})
    /\ pcg.spawners \cup pcg.spawnees \cup pcg.followers \subseteq Funs

LEMMA NewNodeType ==
    ASSUME NEW c \in Seq(CallSites), NEW s \in Sites({"fork"}) \cup {NoSite},
           NEW old \in Seq(CallSites), NEW f \in Funs
    PROVE  NewNode(c, s, old, f) \in NodeType
<1>1. (s # NoSite /\ isInLoopInstruction(s)) \in BOOLEAN /\ (s # NoSite /\ isInRecursion(s)) \in BOOLEAN
  BY DEF isInLoopInstruction, isInRecursion
<1> QED  BY <1>1 DEF NewNode, NodeType

LEMMA TreeTypesInit == ASSUME Init PROVE TreeTypes
<1>1. ProgInv /\ WalkInv /\ NodeInv
  BY ProgInvInit, WalkInvInit
<1>2. PICK first \in EntryFuns :
        LET procs == <<first>> \o SetToSeq(EntryFuns \ {first})
        IN  /\ nodes = <<NewNode(<<>>, NoSite, <<>>, first)>>
            /\ ctpList = [i \in DOMAIN procs |-> [tid |-> 1, cxt |-> <<>>, fun |-> procs[i]]]
            /\ visitedCTPs = ToSet(ctpList)
            /\ cur = Idle /\ multiforked = {}
  BY DEF Init, TreeInit
<1> DEFINE node == NewNode(<<>>, NoSite, <<>>, first)
<1>3. nodes = <<node>> /\ cur = Idle /\ multiforked = {}
  BY <1>2
<1>4. first \in Funs
  BY <1>1, CandidateFacts
<1>5. node \in NodeType
  <2>1. <<>> \in Seq(CallSites) /\ NoSite \in Sites({"fork"}) \cup {NoSite}
    OBVIOUS
  <2> QED  BY <1>4, <2>1, NewNodeType
<1> HIDE DEF node
<1>6. \A t \in Tids : nodes[t] \in NodeType
  BY <1>3, <1>5 DEF Tids
<1>7. visitedCTPs \subseteq CTPType
  <2> SUFFICES ASSUME NEW v \in visitedCTPs PROVE v \in CTPType
    OBVIOUS
  <2>1. PICK f : v = [tid |-> 1, cxt |-> <<>>, fun |-> f]
    BY <1>2 DEF ToSet
  <2>2. v.tid \in Tids /\ <<v.cxt, v.fun>> \in Walked
    BY <1>1 DEF WalkInv
  <2>3. v.fun \in Funs
    BY <2>2, WalkedFacts
  <2> QED  BY <2>1, <2>2, <2>3 DEF CTPType
<1>8. inRecurJoinSites \subseteq Sites({"join"})
  BY DEF Init, TreeInit
<1> QED  BY <1>3, <1>6, <1>7, <1>8 DEF TreeTypes

LEMMA TreeTypesStep ==
    ASSUME ProgInv, WalkInv, NodeInv, TreeTypes, [Next]_vars PROVE TreeTypes'
<1>0. FixedNext /\ inRecurJoinSites' = inRecurJoinSites
  BY StepCases, FixedPrimed DEF fixedVars, siteVars
<1>1. Tids \subseteq Tids' /\ \A t \in Tids : nodes'[t] = nodes[t]
  BY NodesGrow
<1>2. NodeType' = NodeType /\ CTPType \subseteq CTPType'
  BY <1>0, <1>1 DEF NodeType, CTPType, FixedNext
<1>3. inRecurJoinSites' \subseteq Sites({"join"})'
  BY <1>0 DEF TreeTypes, FixedNext
<1>4. ASSUME nodes' = nodes, visitedCTPs' = visitedCTPs, cur' \in visitedCTPs \cup {Idle},
             multiforked' \subseteq Tids
      PROVE  TreeTypes'
  BY <1>2, <1>3, <1>4 DEF TreeTypes, Tids
<1>5. CASE PopCTP
  <2>1. /\ nodes' = nodes /\ visitedCTPs' = visitedCTPs /\ multiforked' = multiforked
        /\ cur' = Head(ctpList) /\ ctpList # <<>>
    BY <1>5 DEF PopCTP
  <2>2. cur' \in visitedCTPs
    BY <2>1, ListTail DEF WalkInv
  <2> QED  BY <1>4, <2>1, <2>2 DEF TreeTypes
<1>6. CASE CollectMultiForkedThreads
  <2>1. nodes' = nodes /\ visitedCTPs' = visitedCTPs /\ cur' = Idle /\ multiforked' \subseteq Tids
    BY <1>6 DEF CollectMultiForkedThreads
  <2> QED  BY <1>4, <2>1
<1>7. ASSUME NEW site \in pending, HandleCallRet(site) \/ HandleFork(site) PROVE TreeTypes'
  <2>1. /\ cur \in visitedCTPs /\ cur.tid \in Tids /\ <<cur.cxt, cur.fun>> \in Walked
        /\ site \in CallSites /\ FunOf(site) = cur.fun
    BY DEF WalkInv
  <2> DEFINE c == pushCxt(cur.cxt, site)
             f == Callee(site)
  <2>2. <<c, f>> \in Walked
    <3> DEFINE w == <<cur.cxt, cur.fun>>
    <3>1. w \in Walked /\ FunOf(site) = w[2] /\ w[1] = cur.cxt
      BY <2>1
    <3> HIDE DEF w
    <3> QED  BY <2>1, <3>1, WalkedCall
  <2>3. c \in Seq(CallSites) /\ f \in Funs /\ cur.cxt \in Seq(CallSites)
    BY <2>1, <2>2, WalkedFacts
  <2> HIDE DEF c, f
  <2>4. PICK tid : /\ visitedCTPs' = visitedCTPs \cup {[tid |-> tid, cxt |-> c, fun |-> f]}
                   /\ cur' = cur /\ multiforked' = multiforked /\ tid \in Tids'
                   /\ \A t \in Tids' \ Tids : nodes'[t] \in NodeType
    <3>1. CASE HandleCallRet(site)
      <4>1. /\ visitedCTPs' = visitedCTPs \cup {[tid |-> cur.tid, cxt |-> c, fun |-> f]}
            /\ cur' = cur /\ multiforked' = multiforked /\ nodes' = nodes
        BY <3>1 DEF HandleCallRet, pushToCTPWorkList, c, f
      <4> QED  BY <2>1, <4>1 DEF Tids
    <3>2. CASE HandleFork(site)
      <4> DEFINE known == NodesOf(c, site)
                 node == NewNode(c, site, cur.cxt, f)
                 tid == IF known = {} THEN NewTid ELSE CHOOSE t \in Tids : t \in known
      <4>1. /\ visitedCTPs' = visitedCTPs \cup {[tid |-> tid, cxt |-> c, fun |-> f]}
            /\ cur' = cur /\ multiforked' = multiforked
            /\ nodes' = IF known = {} THEN Append(nodes, node) ELSE nodes
            /\ Op(site) = "fork"
        BY <3>2 DEF HandleFork, pushToCTPWorkList, c, f
      <4>2. node \in NodeType
        <5>1. site \in Sites({"fork"})
          BY <2>1, <4>1 DEF CallSites, Sites
        <5> QED  BY <2>3, <5>1, NewNodeType
      <4>3. Tids = 1..Len(nodes) /\ Len(nodes) \in Nat
        BY ThreadsAreFinite
      <4> HIDE DEF node
      <4>4. CASE known = {}
        <5>1. nodes' = Append(nodes, node) /\ tid = Len(nodes) + 1
          BY <4>1, <4>4 DEF NewTid
        <5>2. Tids' = 1..(Len(nodes) + 1) /\ nodes'[Len(nodes) + 1] = node
          BY <4>3, <5>1, AppendToNodes DEF NodeInv, NodesAreASequence, Tids
        <5> HIDE DEF tid
        <5>3. tid \in Tids' /\ \A t \in Tids' \ Tids : nodes'[t] \in NodeType
          BY <4>2, <4>3, <5>1, <5>2
        <5> QED  BY <4>1, <5>3
      <4>5. CASE known # {}
        <5>1. nodes' = nodes /\ tid \in Tids
          BY <4>1, <4>5 DEF NodesOf
        <5> HIDE DEF tid
        <5> QED  BY <4>1, <5>1 DEF Tids
      <4> QED  BY <4>4, <4>5
    <3> QED  BY <1>7, <3>1, <3>2
  <2>5. visitedCTPs' \subseteq CTPType'
    <3>1. [tid |-> tid, cxt |-> c, fun |-> f] \in CTPType'
      BY <1>0, <2>3, <2>4 DEF CTPType, FixedNext
    <3> QED  BY <1>2, <2>4, <3>1 DEF TreeTypes
  <2>6. ASSUME NEW t \in Tids' PROVE nodes'[t] \in NodeType'
    BY <1>1, <1>2, <2>4 DEF TreeTypes
  <2> QED  BY <1>1, <1>3, <2>1, <2>4, <2>5, <2>6 DEF TreeTypes
<1>8. CASE ~TreeStep
  <2>1. UNCHANGED treeVars
    BY <1>8, StepCases, ForkJoinFrame, MHPFrame, LockFrame, LaterFrame DEF vars, analysisVars
  <2>2. nodes' = nodes /\ visitedCTPs' = visitedCTPs /\ cur' = cur /\ multiforked' = multiforked
    BY <2>1 DEF treeVars
  <2> QED  BY <1>4, <2>2 DEF TreeTypes
<1> QED  BY <1>5, <1>6, <1>7, <1>8 DEF TreeStep

\* The procedure creation graph is one of functions.
LEMMA PCGFacts == ASSUME ProgInv PROVE Spawners \cup Spawnees \cup Followers \subseteq Funs
<1> DEFINE E == EdgesOf({"call"})
<1>1. \A s \in Sites({"call", "fork"}) : FunOf(s) \in Funs /\ Callee(s) \in Funs
  BY StmtFacts DEF ProgInv, CallSites
<1>2. \A s \in Sites({"call"}) \cup Sites({"fork"}) : s \in Sites({"call", "fork"})
  BY DEF Sites
<1>3. E \subseteq Funs \X Funs
  BY <1>1, <1>2 DEF EdgesOf
<1>4. PathsOf(E) \subseteq Funs \X Funs
  BY <1>3, StmtFacts, PathsClosed DEF ProgInv
<1>5. ASSUME NEW S, S \subseteq Funs PROVE WithCallers(S) \subseteq Funs /\ WithCallees(S) \subseteq Funs
  BY <1>4, <1>5 DEF WithCallers, WithCallees
<1>6. {FunOf(s) : s \in Sites({"fork"})} \subseteq Funs /\ {Callee(s) : s \in Sites({"fork"})} \subseteq Funs
  BY <1>1, <1>2
<1>7. IdentifiedFollowers \subseteq Funs
  BY <1>1, <1>2 DEF IdentifiedFollowers
<1> QED  BY <1>5, <1>6, <1>7 DEF Spawners, Spawnees, Followers

LEMMA LaterTypesInit == ASSUME Init PROVE LaterTypes
<1>1. stage = "tct" /\ it = NoSite /\ ahead = {} /\ pairs = {}
  BY DEF Init, PairInit
<1>2. pcg.spawners = {} /\ pcg.spawnees = {} /\ pcg.followers = {}
  BY DEF Init, PCGInit
<1> QED  BY <1>1, <1>2 DEF LaterTypes

LEMMA LaterTypesStep == ASSUME ProgInv, LaterTypes, [Next]_vars PROVE LaterTypes'
<1>0. FixedNext
  BY StepCases, FixedPrimed
<1>1. stage' \in {"tct", "fja", "mhp", "lock", "cxtlocks", "lockspans", "pairs", "pairing", "pcg",
                  "done", "run"}
  BY StepCases, TreeFrame, ForkJoinFrame, MHPFrame, LockFrame, LaterFrame
  DEF LaterTypes, vars, progVars
<1>2. CASE PairStep /\ UNCHANGED pcg
  <2>1. /\ it' \in Sites({"access"}) \cup {NoSite} /\ ahead' \subseteq Sites({"access"})
        /\ pairs' \subseteq Sites({"access"}) \X Sites({"access"})
    <3>1. ASSUME NEW left, left \subseteq Sites({"access"}), Advance(left)
          PROVE  it' \in Sites({"access"}) \cup {NoSite} /\ ahead' \subseteq Sites({"access"})
      BY <3>1 DEF Advance
    <3>2. CASE StartPairs \/ SkipLocal
      BY <3>1, <3>2 DEF StartPairs, SkipLocal, LaterTypes
    <3>3. CASE PairUp
      <4>1. it' \in Sites({"access"}) \cup {NoSite} /\ ahead' \subseteq Sites({"access"})
        BY <3>1, <3>3 DEF PairUp, LaterTypes
      <4>2. pairs' \subseteq pairs \cup ({it'} \X (IF it' = NoSite THEN {} ELSE {it'} \cup ahead'))
        BY <3>3 DEF PairUp
      <4> QED  BY <4>1, <4>2 DEF LaterTypes
    <3>4. CASE FinishPairs
      BY <3>4 DEF FinishPairs, pairVars, LaterTypes
    <3> QED  BY <1>2, <3>2, <3>3, <3>4 DEF PairStep
  <2> QED  BY <1>0, <1>1, <1>2, <2>1 DEF LaterTypes, FixedNext
<1>3. CASE InferFromCallGraph /\ UNCHANGED lockVars /\ UNCHANGED pairVars
  <2>1. pcg'.spawners = Spawners /\ pcg'.spawnees = Spawnees /\ pcg'.followers = Followers
    BY <1>3 DEF InferFromCallGraph
  <2>2. it' = it /\ ahead' = ahead /\ pairs' = pairs
    BY <1>3 DEF pairVars
  <2> QED  BY <1>0, <1>1, <2>1, <2>2, PCGFacts DEF LaterTypes, FixedNext
<1>4. CASE UNCHANGED <<pairVars, pcg>>
  <2>1. it' = it /\ ahead' = ahead /\ pairs' = pairs /\ pcg' = pcg
    BY <1>4 DEF pairVars
  <2> QED  BY <1>0, <1>1, <2>1 DEF LaterTypes, FixedNext
<1>5. CASE Run \/ Execute \/ UNCHANGED vars
  <2>1. UNCHANGED analysisVars
    BY <1>5 DEF Run, Execute, ExecAccess, ExecJump, ExecLoop, ExecCall, ExecRet, ExecFork, ExecJoin,
                ExecLock, ExecUnlock, Executing, vars
  <2> QED  BY <1>4, <2>1 DEF analysisVars
<1>6. CASE Analysis
  BY <1>2, <1>3, <1>4, <1>6 DEF Analysis
<1> QED  BY <1>5, <1>6 DEF Next

TypeInv == WholeInv /\ LockInv /\ TreeTypes /\ LaterTypes

LEMMA TypeInvImplies == ASSUME TypeInv PROVE TypeOK
<1> USE DEF TypeInv, WholeInv
<1>1. /\ \A w \in Walked : w[1] \in Seq(CallSites) /\ w[2] \in Funs
      /\ \A w \in Contexts : w[1] \in Seq(CallSites) /\ w[2] \in Funs /\ w = <<w[1], w[2]>>
  BY WalkedFacts DEF Contexts, Pairs
<1>2. Tids = 1..Len(nodes) /\ Len(nodes) \in Nat
  BY ThreadsAreFinite
<1>3. candidateFuncSet \subseteq Funs
  BY CandidateFacts DEF isCandidateFun
<1>4. joinSiteToLoopMap \in [Sites({"join"}) -> Sites({"loop"}) \cup {NoSite}]
  <2>1. \A j \in Sites({"join"}) : getLoop(j) # NoSite => getLoop(j) \in Sites({"loop"})
    BY LoopFacts DEF ProgInv, Sites
  <2> QED  BY <2>1 DEF ProgInv, JoinLoops
<1>5. nodes \in Seq(NodeType)
  <2>1. nodes \in [1..Len(nodes) -> {nodes[t] : t \in DOMAIN nodes}]
    BY <1>2 DEF NodeInv, NodesAreASequence
  <2>2. nodes \in [1..Len(nodes) -> NodeType]
    BY <1>2, <2>1 DEF TreeTypes, Tids
  <2> QED  BY <1>2, <2>2, SeqDef
<1>6. /\ edges \subseteq Tids \X Tids /\ ToSet(ctpList) \subseteq visitedCTPs
      /\ pending \subseteq CallSites
  BY DEF NodeInv, WalkInv
<1>7. cur \in CTPType \cup {Idle} /\ visitedCTPs \subseteq CTPType /\ multiforked \subseteq Tids
  BY DEF TreeTypes
<1>8. root \in Tids \cup {0} /\ mhpRoot \in Tids \cup {0}
  BY <1>2 DEF FlagInv, InterleavingInv
<1>9. DOMAIN flags \subseteq Seq(CallSites) \X Stmts
  <2> SUFFICES ASSUME NEW cs \in DOMAIN flags PROVE cs \in Seq(CallSites) \X Stmts
    OBVIOUS
  <2>1. cs = <<cs[1], cs[2]>> /\ cs[2] \in Stmts /\ <<cs[1], FunOf(cs[2])>> \in Walked
    BY DEF FlagInv, WalkTargets, OnWalk
  <2>2. cs[1] \in Seq(CallSites)
    BY <1>1, <2>1
  <2> QED  BY <2>1, <2>2
<1>10. DOMAIN interleaving \subseteq Tids \X Seq(CallSites) \X Stmts
  <2> SUFFICES ASSUME NEW cts \in DOMAIN interleaving PROVE cts \in Tids \X Seq(CallSites) \X Stmts
    OBVIOUS
  <2>1. /\ cts = <<cts[1], cts[2], cts[3]>> /\ cts[1] \in Tids /\ cts[3] \in Stmts
        /\ <<cts[2], FunOf(cts[3])>> \in Walked
    BY DEF InterleavingInv, Rows, ThreadTargets, OnThread
  <2>2. cts[2] \in Seq(CallSites)
    BY <1>1, <2>1
  <2> QED  BY <2>1, <2>2
<1>11. visitedCLPs \subseteq Seq(CallSites) \X Funs
  BY <1>1 DEF LockInv, LockTypes
<1>12. ToSet(lockStmtList) \cup DOMAIN cxtStmtToCxtLockSet \subseteq Seq(CallSites) \X Stmts
  <2> SUFFICES ASSUME NEW cs \in ToSet(lockStmtList) \cup DOMAIN cxtStmtToCxtLockSet
               PROVE  cs \in Seq(CallSites) \X Stmts
    OBVIOUS
  <2>1. cs = <<cs[1], cs[2]>> /\ cs[2] \in Stmts /\ <<cs[1], FunOf(cs[2])>> \in Contexts
    BY DEF LockInv, LockTypes, InContexts
  <2>2. cs[1] \in Seq(CallSites)
    BY <1>1, <2>1
  <2> QED  BY <2>1, <2>2
<1>13. \A i \in DOMAIN threads :
          /\ threads[i].parent \in 0..(i - 1)
          /\ \A d \in DOMAIN threads[i].stack : threads[i].stack[d].at \in Stmts
  BY DEF RunInv, IsThread, IsStack, IsFrame
<1>14. /\ \A c \in DOMAIN handles : handles[c] \in {0} \cup DOMAIN threads
       /\ \A mutex \in DOMAIN owners : owners[mutex] \in DOMAIN threads
  BY DEF RunInv
<1>15. /\ \A cs \in DOMAIN flags : flags[cs] \in {"alive", "dead"}
       /\ ToSet(cxtStmtList) \subseteq DOMAIN flags
       /\ directJoin \subseteq (Seq(CallSites) \X Sites({"join"})) \X Tids
       /\ symmetricJoin \subseteq Seq(CallSites) \X Sites({"join"})
       /\ HBPair \cup HPPair \cup fullJoin \cup partialJoin \subseteq Tids \X Tids
  BY DEF FlagInv
<1>16. /\ \A cts \in DOMAIN interleaving : interleaving[cts] \subseteq Tids
       /\ ToSet(ctsList) \subseteq DOMAIN interleaving
  BY DEF InterleavingInv, Rows
<1>17. /\ lockcandidateFuncSet \subseteq Funs
       /\ instCILocksMap \cup instTocondCILocksMap \subseteq Stmts \X Sites({"lock"})
       /\ cxtLockset \subseteq Seq(CallSites) \X Sites({"lock"})
       /\ ToSet(clpList) \subseteq visitedCLPs
       /\ \A cs \in DOMAIN cxtStmtToCxtLockSet : cxtStmtToCxtLockSet[cs] \subseteq cxtLockset
  BY DEF LockInv, LockTypes
<1>18. prog \in DOMAIN Programs /\ inRecurJoinSites \subseteq Sites({"join"}) /\ LaterTypes
  BY DEF ProgInv, TreeTypes
<1> USE DEF CallSites, CTPType, NodeType, LaterTypes
<1> QED
  BY <1>3, <1>4, <1>5, <1>6, <1>7, <1>8, <1>9, <1>10, <1>11, <1>12, <1>13, <1>14, <1>15, <1>16,
     <1>17, <1>18 DEF TypeOK

\* The variables of all analyses and of a run have their types, for every program:
\* node ids name nodes of the tree, contexts are strings of call sites, what is on a
\* worklist is in the set or map the worklist is of.
THEOREM TypeCorrect == Spec => []TypeOK
<1>1. Init => TypeInv
  BY ProgInvInit, WalkInvInit, FlagInvInit, InterleavingInvInit, RunInvInit, LockInvInit,
     TreeTypesInit, LaterTypesInit DEF TypeInv, WholeInv
<1>2. TypeInv /\ [Next]_vars => TypeInv'
  BY ProgInvStep, WalkInvStep, FlagInvStep, InterleavingInvStep, RunInvStep, LockInvStep,
     TreeTypesStep, LaterTypesStep DEF TypeInv, WholeInv
<1> QED  BY <1>1, <1>2, TypeInvImplies, PTL DEF Spec
=============================================================================
