---------------------------- MODULE DCIRTLProofs -----------------------------
(***************************************************************************)
(* For any number of threads, calls and suspected pairs: the alias checker *)
(* collects only pairs it has met (PairsSound), and loses none of those    *)
(* whose two accesses have been dealt with (PairsComplete), except where a *)
(* scan stopped at an empty slot before one that held the other access;    *)
(* and none at all if threads are created one after the other.             *)
(*                                                                         *)
(* The argument for completeness is that of two flags: each thread first   *)
(* records its access and then reads what the others recorded, so of two   *)
(* threads the later one meets the earlier one's record.  WillMeet says    *)
(* where, inside its check, a thread still carries that obligation.        *)
(***************************************************************************)
EXTENDS DCIRTL, TLAPS

USE DEF Checking, Locations, Ids

\* Every call is broken into a sequence of accesses by its own instruction.
LEMMA AccessesTyped ==
  ASSUME NEW c \in CallType PROVE Accesses(c) \in Seq(AccessType)
<1>1. /\ c.dst \in Nat /\ c.src \in Nat /\ c.size \in Nat /\ c.ksize \in 0..3
      /\ c.instID \in Insts /\ c.fn \in CallNames
  BY DEF CallType
<1>2. Turns(c.size, 4) \in Nat /\ Turns(c.size, 8) \in Nat
  BY <1>1 DEF Turns
<1> DEFINE m == Turns(c.size, 4)
           n == Turns(c.size, 8)
<1>3. ASSUME NEW j \in 0 .. m + n - 1
      PROVE  Offset(c, j) \in Nat /\ UnitSize(c, j) \in 0..3
  BY <1>2 DEF Offset, UnitSize, InFours
<1>4. Copied(c) \in Seq(AccessType)
  <2>1. ASSUME NEW j \in 1 .. 2 * (m + n) PROVE (j - 1) \div 2 \in 0 .. m + n - 1
    BY <1>2
  <2>2. ASSUME NEW j \in 1 .. 2 * (m + n) PROVE Copied(c)[j] \in AccessType
    <3>1. /\ Offset(c, (j - 1) \div 2) \in Nat
          /\ UnitSize(c, (j - 1) \div 2) \in 0..3
      BY <2>1, <1>3
    <3> QED
      BY <3>1, <1>1 DEF Copied, Access, AccessType
  <2>3. Copied(c) \in [1 .. 2 * (m + n) -> AccessType]
    BY <2>2 DEF Copied
  <2>4. 2 * (m + n) \in Nat
    BY <1>2
  <2> QED
    BY <2>3, <2>4
<1>5. Filled(c) \in Seq(AccessType)
  <2>1. ASSUME NEW j \in 1 .. m + n PROVE Filled(c)[j] \in AccessType
    <3>1. Offset(c, j - 1) \in Nat
      BY <1>2, <1>3
    <3> QED
      BY <3>1, <1>1 DEF Filled, Access, AccessType
  <2>2. Filled(c) \in [1 .. m + n -> AccessType] /\ m + n \in Nat
    BY <2>1, <1>2 DEF Filled
  <2> QED
    BY <2>2
<1>6. CASE c.fn \notin {"memcpy", "memset"}
  <2>1. Access(c.fn, c.dst, c.ksize, c.instID) \in AccessType
    BY <1>1, <1>6 DEF Access, AccessType, CallNames
  <2> QED
    BY <2>1, <1>6 DEF Accesses
<1> QED
  BY <1>4, <1>5, <1>6 DEF Accesses

\* The access a thread is at is well-formed.
LEMMA CurrentTyped ==
  ASSUME TypeOK, NEW t \in Ids PROVE Current(t) \in AccessType /\ Current(t).inst \in Insts
<1>1. call[t] \in CallType /\ pos[t] \in 1 .. Len(Accesses(call[t]))
  BY DEF TypeOK, Inside
<1>2. Accesses(call[t]) \in Seq(AccessType)
  BY <1>1, AccessesTyped
<1>3. Current(t) \in AccessType
  BY <1>1, <1>2 DEF Current
<1> QED
  BY <1>3 DEF AccessType

\* The initial call is a read, that is one access.
LEMMA InitTyped == Init => TypeOK
<1> SUFFICES ASSUME Init PROVE TypeOK
  OBVIOUS
<1>0. MAX_THREAD_NUM \in Nat \ {0} /\ 0 \in Ids /\ MaxCalls \in [Ids -> Nat] /\ Insts # {}
  BY DCIAssumption
<1>1. (CHOOSE i \in Insts : TRUE) \in Insts
  BY <1>0
<1>2. NoCall \in CallType /\ Accesses(NoCall) = <<Access("read", 0, 0, NoCall.instID)>>
  BY <1>1 DEF NoCall, CallType, CallNames, Accesses
<1>3. call \in [Ids -> CallType] /\ pos \in [Ids -> Nat]
      /\ \A t \in Ids : Inside(pos[t], call[t])
  <2>1. Inside(1, NoCall)
    BY <1>2 DEF Inside
  <2>2. call = [i \in Ids |-> NoCall] /\ pos = [i \in Ids |-> 1]
    BY DEF Init
  <2> QED
    BY <2>1, <2>2, <1>2
<1>4. /\ calls \in [Ids -> Nat] /\ (\A t \in Ids : calls[t] <= MaxCalls[t])
      /\ idx \in [Ids -> 0..MAX_THREAD_NUM]
      /\ it \in [Ids -> Insts] /\ temp \in [Ids -> SUBSET Insts]
      /\ instToGroup \in [Insts -> SUBSET Insts]
  <2>1. (\A t \in Ids : 0 <= MaxCalls[t]) /\ 0 \in 0..MAX_THREAD_NUM
    BY <1>0
  <2> QED
    BY <2>1, <1>1 DEF Init, Group
<1>5. /\ pc \in [Ids -> Locations] /\ total_thread \in 1..MAX_THREAD_NUM
      /\ newborn \subseteq Ids /\ parent \in [Ids -> Ids] /\ slots \subseteq Ids
      /\ tid \in [Ids -> {"UINT32_MAX", "tid"}]
      /\ mem \in [Ids -> SUBSET AccessType]
      /\ pairs \subseteq SUBSET Insts /\ passed \subseteq Ids \X AccessType \X Ids \X AccessType
  BY <1>0 DEF Init
<1> QED
  BY <1>3, <1>4, <1>5 DEF TypeOK

\* Every step keeps the types; the position stays inside the call's accesses.
LEMMA StepTyped == TypeOK /\ [Next]_vars => TypeOK'
<1> SUFFICES ASSUME TypeOK, [Next]_vars PROVE TypeOK'
  OBVIOUS
<1>0. /\ MAX_THREAD_NUM \in Nat \ {0} /\ MaxCalls \in [Ids -> Nat]
      /\ \A t \in Ids : ProgramCalls[t] \subseteq CallType
  BY DCIAssumption
<1>00. \A t \in Ids : Current(t) \in AccessType /\ Current(t).inst \in Insts
  BY CurrentTyped
<1> USE DEF TypeOK, Go, creation
<1>1. ASSUME NEW t \in Ids, Creation(t) PROVE TypeOK'
  <2>1. CASE PthreadCreate(t) \/ PublishTid(t) \/ ReturnFromCreate(t)
    BY <2>1 DEF PthreadCreate, PublishTid, ReturnFromCreate
  <2>2. CASE TakeId(t)
    <3>1. total_thread + 1 \in 1..MAX_THREAD_NUM
      BY <2>2, <1>0 DEF TakeId
    <3> HIDE DEF Ids
    <3> QED
      BY <2>2, <3>1 DEF TakeId
  <2>3. CASE SyncWithParent(t) \/ AllocateSlot(t)
    BY <2>3 DEF SyncWithParent, AllocateSlot
  <2> QED
    BY <1>1, <2>1, <2>2, <2>3 DEF Creation
<1>2. ASSUME NEW t \in Ids, NEW c \in ProgramCalls[t], BeginCall(t, c) PROVE TypeOK'
  <2>1. c \in CallType /\ Accesses(c) \in Seq(AccessType) /\ Accesses(c) # <<>>
    BY <1>0, <1>2, AccessesTyped DEF BeginCall
  <2>2. Inside(1, c)
    BY <2>1 DEF Inside
  <2>3. calls' \in [Ids -> Nat] /\ \A u \in Ids : calls'[u] <= MaxCalls[u]
    <3>0. calls[t] \in Nat /\ calls[t] < MaxCalls[t] /\ MaxCalls[t] \in Nat
      BY <1>0, <1>2 DEF BeginCall
    <3> HIDE DEF TypeOK
    <3>1. calls[t] + 1 \in Nat /\ calls[t] + 1 <= MaxCalls[t]
      BY <3>0
    <3> USE DEF TypeOK
    <3> HIDE DEF Ids
    <3> QED
      BY <1>2, <3>1 DEF BeginCall
  <2>4. \A u \in Ids : Inside(pos'[u], call'[u])
    BY <1>2, <2>2 DEF BeginCall
  <2> QED
    BY <1>2, <2>1, <2>3, <2>4 DEF BeginCall
<1>3. ASSUME NEW t \in Ids, Record(t) PROVE TypeOK'
  BY <1>3, <1>00 DEF Record
<1>4. ASSUME NEW t \in Ids, NothingToFind(t) \/ PairsAdded(t) PROVE TypeOK'
  <2>1. pos[t] < Len(Accesses(call[t])) => Inside(pos[t] + 1, call[t])
    BY AccessesTyped DEF Inside
  <2>2. /\ pc' \in [Ids -> Locations] /\ pos' \in [Ids -> Nat]
        /\ \A u \in Ids : Inside(pos'[u], call[u])
    <3>1. CASE pos[t] < Len(Accesses(call[t]))
      <4>1. /\ pos' = [pos EXCEPT ![t] = @ + 1]
            /\ pc' \in [Ids -> Locations]
            /\ UNCHANGED call
        BY <1>4, <3>1 DEF NothingToFind, PairsAdded, NextAccess
      <4>2. pos[t] + 1 \in Nat /\ Inside(pos[t] + 1, call[t])
        BY <2>1, <3>1
      <4> HIDE DEF Ids
      <4> QED
        BY <4>1, <4>2
    <3>2. CASE ~(pos[t] < Len(Accesses(call[t])))
      BY <1>4, <3>2 DEF NothingToFind, PairsAdded, NextAccess
    <3> QED
      BY <3>1, <3>2
  <2> QED
    BY <1>4, <2>2 DEF NothingToFind, PairsAdded
<1>5. ASSUME NEW t \in Ids, Scan(t) PROVE TypeOK'
  <2>1. CASE StartScan(t) \/ ScanSelf(t) \/ ScanEnd(t)
    <3>1. CASE StartScan(t)
      <4>1. 0 \in 0..MAX_THREAD_NUM
        BY <1>0
      <4> HIDE DEF Ids
      <4> QED
        BY <3>1, <4>1 DEF StartScan
    <3>2. CASE ScanSelf(t)
      <4>1. t + 1 \in 0..MAX_THREAD_NUM
        BY <1>0
      <4> HIDE DEF Ids
      <4> QED
        BY <3>2, <4>1 DEF ScanSelf
    <3>3. CASE ScanEnd(t)
      BY <3>3 DEF ScanEnd
    <3> QED
      BY <2>1, <3>1, <3>2, <3>3
  <2>2. CASE ScanSlot(t)
    <3>1. idx[t] \in Ids /\ \A m \in mem[idx[t]] : m.inst \in Insts
      BY <2>2 DEF ScanSlot, AccessType
    <3> HIDE DEF TypeOK
    <3>2. idx[t] + 1 \in 0..MAX_THREAD_NUM
      BY <1>0, <3>1
    <3> USE DEF TypeOK
    <3>3. temp' \in [Ids -> SUBSET Insts]
      BY <2>2, <3>1 DEF ScanSlot
    <3> HIDE DEF Ids
    <3> QED
      BY <2>2, <3>2, <3>3 DEF ScanSlot
  <2>3. CASE ScanBreak(t)
    <3>1. idx' \in [Ids -> 0..MAX_THREAD_NUM]
      <4>1. t \in 0..MAX_THREAD_NUM /\ MAX_THREAD_NUM \in 0..MAX_THREAD_NUM
        BY <1>0
      <4> HIDE DEF Ids
      <4> QED
        BY <2>3, <4>1 DEF ScanBreak
    <3>2. passed' \subseteq Ids \X AccessType \X Ids \X AccessType
      <4> DEFINE last == IF idx[t] < t THEN t ELSE MAX_THREAD_NUM
                 D == {i \in slots : idx[t] < i /\ i < last}
                 N == UNION {{<<t, Current(t), u, b>> : b \in mem[u]} : u \in D}
      <4>1. passed' = passed \cup N
        BY <2>3 DEF ScanBreak
      <4>2. D \subseteq Ids /\ \A u \in D : mem[u] \subseteq AccessType
        OBVIOUS
      <4> HIDE DEF D, Ids
      <4>3. N \subseteq Ids \X AccessType \X Ids \X AccessType
        BY <1>00, <4>2
      <4> HIDE DEF N
      <4> QED
        BY <4>1, <4>3
    <3> QED
      BY <2>3, <3>1, <3>2 DEF ScanBreak
  <2> QED
    BY <1>5, <2>1, <2>2, <2>3 DEF Scan
<1>6. ASSUME NEW t \in Ids, Mask(t) \/ AddPair(t) \/ ResetIG(t) PROVE TypeOK'
  <2>1. Current(t).inst \in Insts
    BY CurrentTyped
  <2>2. CASE Mask(t)
    BY <2>2 DEF Mask
  <2>3. CASE AddPair(t)
    <3>1. PICK b \in temp[t] :
             /\ it' = [it EXCEPT ![t] = b]
             /\ pairs' = pairs \cup {{Current(t).inst, b}}
      BY <2>3 DEF AddPair
    <3>2. {Current(t).inst, b} \subseteq Insts
      BY <2>1
    <3> QED
      BY <2>3, <3>1, <3>2 DEF AddPair
  <2>4. CASE ResetIG(t)
    BY <2>1, <2>4 DEF ResetIG
  <2> QED
    BY <1>6, <2>2, <2>3, <2>4
<1>7. CASE UNCHANGED vars
  BY <1>7 DEF vars
<1> QED
  BY <1>1, <1>2, <1>3, <1>4, <1>5, <1>6, <1>7 DEF Next, Collect

\* The checker's state has its types in every reachable state.
THEOREM TypeCorrect == Spec => []TypeOK
BY InitTyped, StepTyped, PTL DEF Spec

------------------------------------------------------------------------------
(***************************************************************************)
(* What a thread holds while it executes an access.                        *)
(***************************************************************************)
Collecting == {"scan", "mask", "add", "reset"}

\* The thread's slot exists, and the access being checked has been recorded.
Recorded ==
    /\ \A t \in Ids :
         pc[t] \in {"idle", "create", "handshake", "record"} \cup Checking => t \in slots
    /\ \A t \in Ids : pc[t] \in Checking => Current(t) \in mem[t]
    /\ \A t \in Ids : mem[t] # {} => t \in slots

\* temp holds partners that another thread has recorded a matching access of.
TempSound ==
    \A t \in Ids : pc[t] \in Collecting =>
        \A b \in temp[t] : \E u \in Ids : u # t /\
            \E m \in mem[u] : Matches(Current(t), m) /\ m.inst = b

\* A group only ever loses partners, and only after the pair was added.
Groups ==
    /\ \A a \in Insts : instToGroup[a] \subseteq Group(a)
    /\ \A a \in Insts : \A b \in Group(a) : b \in instToGroup[a] \/ {a, b} \in pairs
    /\ \A t \in Ids : pc[t] \in {"add", "reset"} => temp[t] \subseteq Group(Current(t).inst)
    /\ \A t \in Ids : pc[t] = "reset" => {Current(t).inst, it[t]} \in pairs

\* Thread t, dealing with its access a, is still going to meet b of thread u, or
\* has met it and not collected it yet.
WillMeet(t, a, u, b) ==
    /\ pc[t] \in Checking
    /\ Current(t) = a
    /\ \/ pc[t] = "isempty"
       \/ pc[t] = "scan" /\ idx[t] <= u
       \/ pc[t] \in Collecting /\ b.inst \in temp[t]

Dealt(t, a, u, b) ==
    \/ {a.inst, b.inst} \in pairs
    \/ <<t, a, u, b>> \in passed
    \/ <<u, b, t, a>> \in passed
    \/ WillMeet(t, a, u, b)
    \/ WillMeet(u, b, t, a)

Complete ==
    \A t, u \in Ids : t # u =>
        \A a \in mem[t], b \in mem[u] :
            Matches(a, b) /\ {a.inst, b.inst} \in RCPairs => Dealt(t, a, u, b)

CheckInv == Recorded /\ TempSound /\ Groups /\ PairsSound /\ Complete

\* Matching does not depend on who is asked first.
LEMMA MatchesSymmetric ==
  ASSUME NEW a, NEW b PROVE Matches(a, b) <=> Matches(b, a)
BY DEF Matches

\* Nothing has been recorded, every suspected partner is still in its group.
LEMMA InitCheckInv == Init => CheckInv
<1> SUFFICES ASSUME Init PROVE CheckInv
  OBVIOUS
<1>1. Recorded
  BY DEF Init, Recorded
<1>2. TempSound /\ PairsSound /\ Complete
  BY DEF Init, TempSound, Collecting, PairsSound, Complete
<1>3. Groups
  BY DEF Init, Groups
<1> QED
  BY <1>1, <1>2, <1>3 DEF CheckInv

\* Threads that are not in a check neither owe nor hold anything: what creation
\* and the start of a call change is invisible to the invariant.
LEMMA QuietStep ==
  ASSUME TypeOK, CheckInv, NEW t \in Ids,
         Creation(t) \/ \E c \in ProgramCalls[t] : BeginCall(t, c)
  PROVE  CheckInv'
<1> USE DEF TypeOK, CheckInv, Go, creation, Creation
<1>1. /\ UNCHANGED <<mem, instToGroup, pairs, idx, temp, it, passed>>
      /\ slots \subseteq slots'
  BY DEF PthreadCreate, PublishTid, ReturnFromCreate, TakeId, SyncWithParent,
         AllocateSlot, BeginCall
<1>2. \A u \in Ids : pc[u] \in Checking <=> pc'[u] \in Checking
  BY DEF PthreadCreate, PublishTid, ReturnFromCreate, TakeId, SyncWithParent,
         AllocateSlot, BeginCall
<1>3. \A u \in Ids : pc[u] \in Checking => pc'[u] = pc[u] /\ Current(u)' = Current(u)
  BY DEF PthreadCreate, PublishTid, ReturnFromCreate, TakeId, SyncWithParent,
         AllocateSlot, BeginCall, Current
<1>4. Recorded'
  <2>1. \A u \in Ids :
          pc'[u] \in {"idle", "create", "handshake", "record"} \cup Checking => u \in slots'
    BY DEF PthreadCreate, PublishTid, ReturnFromCreate, TakeId, SyncWithParent,
           AllocateSlot, BeginCall, Recorded
  <2> QED
    BY <1>1, <1>2, <1>3, <2>1 DEF Recorded
<1> HIDE DEF TypeOK, Creation
<1>5. TempSound'
  BY <1>1, <1>2, <1>3 DEF TempSound, Collecting
<1>6. Groups'
  BY <1>1, <1>2, <1>3 DEF Groups
<1>7. PairsSound'
  BY <1>1 DEF PairsSound
<1>8. Complete'
  <2>1. ASSUME NEW v, NEW u, NEW a, NEW b, v \in Ids, WillMeet(v, a, u, b)
        PROVE  WillMeet(v, a, u, b)'
    BY <1>1, <1>2, <1>3, <2>1 DEF WillMeet
  <2> QED
    BY <1>1, <2>1 DEF Complete, Dealt
<1> QED
  BY <1>4, <1>5, <1>6, <1>7, <1>8

\* A step that records nothing new keeps Complete if whoever gives up meeting a
\* partner has collected the pair or has passed over the other thread.
LEMMA CompleteFrame ==
  ASSUME Complete, UNCHANGED mem, pairs \subseteq pairs', passed \subseteq passed',
         \A v, u \in Ids : v # u =>
            \A a \in mem[v], b \in mem[u] :
               Matches(a, b) /\ {a.inst, b.inst} \in RCPairs /\ WillMeet(v, a, u, b)
                  => \/ WillMeet(v, a, u, b)'
                     \/ {a.inst, b.inst} \in pairs'
                     \/ <<v, a, u, b>> \in passed'
  PROVE  Complete'
<1> HIDE DEF Ids
<1> SUFFICES ASSUME NEW v \in Ids, NEW u \in Ids, v # u,
                    NEW a \in mem[v], NEW b \in mem[u],
                    Matches(a, b), {a.inst, b.inst} \in RCPairs
             PROVE  Dealt(v, a, u, b)'
  BY DEF Complete
<1>1. Dealt(v, a, u, b)
  BY DEF Complete
<1>2. WillMeet(v, a, u, b) => Dealt(v, a, u, b)'
  BY DEF Dealt
<1>3. WillMeet(u, b, v, a) => Dealt(v, a, u, b)'
  <2>1. Matches(b, a) /\ {b.inst, a.inst} = {a.inst, b.inst}
    BY MatchesSymmetric
  <2> QED
    BY <2>1 DEF Dealt
<1> QED
  BY <1>1, <1>2, <1>3 DEF Dealt

\* Recording an access creates the obligation to check it.
LEMMA RecordStep ==
  ASSUME TypeOK, CheckInv, NEW t \in Ids, Record(t) PROVE CheckInv'
<1> USE DEF CheckInv
<1>1. /\ pc[t] = "record" /\ pc' = [pc EXCEPT ![t] = "isempty"]
      /\ mem' = [mem EXCEPT ![t] = @ \cup {Current(t)}]
      /\ UNCHANGED <<slots, instToGroup, pairs, idx, temp, it, passed>>
      /\ \A u \in Ids : Current(u)' = Current(u)
  BY DEF Record, Go, creation, Current
<1>2. pc \in [Ids -> Locations] /\ mem \in [Ids -> SUBSET AccessType]
  BY DEF TypeOK
<1>3. \A u \in Ids : mem[u] \subseteq mem'[u]
  BY <1>1, <1>2
<1> HIDE DEF Ids
<1>4. Recorded'
  BY <1>1, <1>2 DEF Recorded
<1>5. TempSound'
  <2> SUFFICES ASSUME NEW v \in Ids, pc'[v] \in Collecting, NEW b \in temp[v]
               PROVE  \E u \in Ids : u # v /\
                        \E m \in mem'[u] : Matches(Current(v), m) /\ m.inst = b
    BY <1>1 DEF TempSound
  <2>1. pc[v] \in Collecting
    BY <1>1, <1>2 DEF Collecting
  <2> QED
    BY <2>1, <1>3 DEF TempSound
<1>6. Groups'
  BY <1>1, <1>2 DEF Groups
<1>7. PairsSound'
  BY <1>1, <1>3 DEF PairsSound
<1>8. Complete'
  <2> SUFFICES ASSUME NEW v \in Ids, NEW u \in Ids, v # u,
                      NEW a \in mem'[v], NEW b \in mem'[u],
                      Matches(a, b), {a.inst, b.inst} \in RCPairs
               PROVE  Dealt(v, a, u, b)'
    BY DEF Complete
  <2>1. CASE v = t /\ a = Current(t)
    BY <1>1, <1>2, <2>1 DEF Dealt, WillMeet
  <2>2. CASE u = t /\ b = Current(t)
    BY <1>1, <1>2, <2>2 DEF Dealt, WillMeet
  <2>3. CASE a \in mem[v] /\ b \in mem[u]
    <3>1. Dealt(v, a, u, b)
      BY <2>3 DEF Complete
    <3> QED
      BY <3>1, <1>1, <1>2 DEF Dealt, WillMeet
  <2> QED
    BY <1>1, <1>2, <2>1, <2>2, <2>3
<1> QED
  BY <1>4, <1>5, <1>6, <1>7, <1>8

\* An access is left behind when its group is empty or all of temp is added: in
\* either case nothing is owed for it any more.
LEMMA DoneStep ==
  ASSUME TypeOK, CheckInv, NEW t \in Ids, NothingToFind(t) \/ PairsAdded(t)
  PROVE  CheckInv'
<1> USE DEF CheckInv
<1>1. /\ pc[t] \in {"isempty", "add"}
      /\ \/ pc' = [pc EXCEPT ![t] = "record"]
         \/ pc' = [pc EXCEPT ![t] = "idle"]
      /\ UNCHANGED <<mem, slots, instToGroup, pairs, idx, temp, it, passed>>
      /\ pc[t] = "isempty" => instToGroup[Current(t).inst] = {}
      /\ pc[t] = "add" => temp[t] = {}
      /\ \A u \in Ids \ {t} : Current(u)' = Current(u)
  BY DEF NothingToFind, PairsAdded, NextAccess, Go, creation, Current, TypeOK
<1>2. pc \in [Ids -> Locations]
  BY DEF TypeOK
<1> HIDE DEF Ids
<1>3. pc'[t] \in {"record", "idle"} /\ \A u \in Ids \ {t} : pc'[u] = pc[u]
  BY <1>1, <1>2
<1>4. Recorded'
  BY <1>1, <1>3 DEF Recorded
<1>5. TempSound'
  BY <1>1, <1>3 DEF TempSound, Collecting
<1>6. Groups'
  BY <1>1, <1>3 DEF Groups
<1>7. PairsSound'
  BY <1>1 DEF PairsSound
<1>8. Complete'
  <2>1. ASSUME NEW v \in Ids, NEW u \in Ids, v # u,
               NEW a \in mem[v], NEW b \in mem[u], {a.inst, b.inst} \in RCPairs,
               WillMeet(v, a, u, b)
        PROVE  WillMeet(v, a, u, b)' \/ {a.inst, b.inst} \in pairs
    <3>1. CASE v # t
      BY <1>1, <1>3, <2>1, <3>1 DEF WillMeet
    <3>2. CASE v = t
      <4>0. a.inst \in Insts /\ b.inst \in Insts
        BY DEF TypeOK, AccessType
      <4>1. b.inst \in Group(a.inst)
        BY <2>1, <4>0 DEF Group
      <4>2. pc[t] = "isempty"
        BY <1>1, <2>1, <3>2 DEF WillMeet
      <4>3. instToGroup[a.inst] = {}
        BY <1>1, <2>1, <3>2, <4>2 DEF WillMeet
      <4> QED
        BY <4>0, <4>1, <4>3 DEF Groups
    <3> QED
      BY <3>1, <3>2
  <2> QED
    BY <1>1, <2>1, CompleteFrame
<1> QED
  BY <1>4, <1>5, <1>6, <1>7, <1>8

\* The scan starts before every slot and passes a slot only when it has taken
\* what is recorded there, or finds that it is not in use yet.
LEMMA ScanStep ==
  ASSUME TypeOK, CheckInv, NEW t \in Ids, Scan(t) PROVE CheckInv'
<1> USE DEF CheckInv
<1>1. /\ UNCHANGED <<mem, slots, instToGroup, pairs, it>>
      /\ \A u \in Ids : Current(u)' = Current(u)
      /\ pc[t] \in {"isempty", "scan"} /\ pc'[t] \in {"scan", "mask"}
      /\ \A u \in Ids \ {t} : pc'[u] = pc[u] /\ temp'[u] = temp[u] /\ idx'[u] = idx[u]
      /\ passed \subseteq passed'
  <2> USE DEF Go, creation, Current, TypeOK
  <2>1. CASE StartScan(t)
    BY <2>1 DEF StartScan
  <2>2. CASE ScanSlot(t)
    BY <2>2 DEF ScanSlot
  <2>3. CASE ScanSelf(t)
    BY <2>3 DEF ScanSelf
  <2>4. CASE ScanBreak(t)
    BY <2>4 DEF ScanBreak
  <2>5. CASE ScanEnd(t)
    BY <2>5 DEF ScanEnd
  <2> QED
    BY <2>1, <2>2, <2>3, <2>4, <2>5 DEF Scan
<1>2. temp \in [Ids -> SUBSET Insts] /\ idx \in [Ids -> 0..MAX_THREAD_NUM]
  BY DEF TypeOK
<1>3. ASSUME NEW b \in temp'[t]
      PROVE  \/ pc[t] = "scan" /\ b \in temp[t]
             \/ \E u \in Ids : u # t /\ \E m \in mem[u] : Matches(Current(t), m) /\ m.inst = b
  <2> HIDE DEF Ids
  <2>1. CASE StartScan(t)
    BY <1>2, <1>3, <2>1 DEF StartScan
  <2>2. CASE ScanSlot(t)
    <3>1. idx[t] \in Ids /\ idx[t] # t /\ pc[t] = "scan"
      BY <2>2 DEF ScanSlot, TypeOK
    <3>2. temp'[t] = temp[t] \cup {m.inst : m \in {n \in mem[idx[t]] : Matches(Current(t), n)}}
      BY <1>2, <2>2 DEF ScanSlot
    <3> QED
      BY <1>3, <3>1, <3>2
  <2>3. CASE ScanSelf(t) \/ ScanBreak(t) \/ ScanEnd(t)
    BY <1>3, <2>3 DEF ScanSelf, ScanBreak, ScanEnd, Go
  <2> QED
    BY <2>1, <2>2, <2>3 DEF Scan
<1>4. Recorded'
  BY <1>1 DEF Recorded
<1>5. TempSound'
  <2> SUFFICES ASSUME NEW v \in Ids, pc'[v] \in Collecting, NEW b \in temp'[v]
               PROVE  \E u \in Ids : u # v /\
                        \E m \in mem[u] : Matches(Current(v), m) /\ m.inst = b
    BY <1>1 DEF TempSound
  <2> HIDE DEF Ids
  <2>1. CASE v # t
    BY <1>1, <2>1 DEF TempSound
  <2>2. CASE v = t
    BY <1>3, <2>2 DEF TempSound, Collecting
  <2> QED
    BY <2>1, <2>2
<1>6. Groups'
  BY <1>1 DEF Groups
<1>7. PairsSound'
  BY <1>1 DEF PairsSound
<1>8. Complete'
  <2>1. ASSUME NEW u \in Ids, u # t, NEW a \in mem[t], NEW b \in mem[u],
               Matches(a, b), WillMeet(t, a, u, b)
        PROVE  WillMeet(t, a, u, b)' \/ <<t, a, u, b>> \in passed'
    <3>1. Current(t) = a /\ pc[t] \in {"isempty", "scan"} /\ u \in slots
      BY <1>1, <2>1 DEF WillMeet, Recorded
    <3>2. MAX_THREAD_NUM \in Nat /\ u < MAX_THREAD_NUM /\ 0 <= u
      BY DCIAssumption
    <3>3. CASE StartScan(t)
      <4>1. idx'[t] = 0 /\ pc'[t] = "scan"
        BY <1>2, <3>3 DEF StartScan, Go, TypeOK
      <4> QED
        BY <1>1, <3>1, <3>2, <4>1 DEF WillMeet
    <3>4. CASE ScanSlot(t)
      <4>1. /\ pc'[t] = "scan" /\ pc[t] = "scan" /\ idx'[t] = idx[t] + 1
            /\ temp'[t] = temp[t] \cup {m.inst : m \in {n \in mem[idx[t]] : Matches(a, n)}}
        BY <1>2, <3>1, <3>4 DEF ScanSlot
      <4>2. CASE u = idx[t] \/ b.inst \in temp[t]
        <5>1. b.inst \in temp'[t]
          BY <2>1, <4>1, <4>2
        <5> QED
          BY <1>1, <3>1, <4>1, <5>1 DEF WillMeet, Collecting
      <4>3. CASE u # idx[t] /\ idx[t] <= u
        <5>1. idx'[t] <= u
          BY <1>2, <4>1, <4>3
        <5> QED
          BY <1>1, <3>1, <4>1, <5>1 DEF WillMeet
      <4> QED
        BY <2>1, <4>1, <4>2, <4>3 DEF WillMeet
    <3>5. CASE ScanSelf(t)
      <4>1. /\ pc'[t] = "scan" /\ pc[t] = "scan" /\ idx[t] = t /\ idx'[t] = t + 1
            /\ temp' = temp
        BY <1>2, <3>5 DEF ScanSelf
      <4>2. idx[t] <= u => idx'[t] <= u
        BY <2>1, <4>1
      <4> QED
        BY <1>1, <2>1, <3>1, <4>1, <4>2 DEF WillMeet, Collecting
    <3>6. CASE ScanBreak(t)
      <4>1. /\ pc'[t] = "scan" /\ pc[t] = "scan" /\ idx[t] \in Ids /\ idx[t] \notin slots
            /\ idx'[t] = IF idx[t] < t THEN t ELSE MAX_THREAD_NUM
            /\ \A i \in slots : \A m \in mem[i] :
                 idx[t] < i /\ i < idx'[t] => <<t, a, i, m>> \in passed'
            /\ temp' = temp
        BY <1>2, <3>1, <3>6 DEF ScanBreak
      <4>2. CASE b.inst \in temp[t]
        BY <1>1, <3>1, <4>1, <4>2 DEF WillMeet, Collecting
      <4>3. CASE idx[t] <= u
        <5>1. idx[t] < u
          BY <3>1, <4>1, <4>3
        <5>2. CASE u < idx'[t]
          BY <3>1, <4>1, <5>1, <5>2
        <5>3. CASE ~(u < idx'[t])
          <6>1. idx'[t] <= u
            BY <2>1, <3>2, <4>1, <5>3
          <6> QED
            BY <1>1, <3>1, <4>1, <6>1 DEF WillMeet
        <5> QED
          BY <5>2, <5>3
      <4> QED
        BY <2>1, <4>1, <4>2, <4>3 DEF WillMeet
    <3>7. CASE ScanEnd(t)
      <4>1. pc'[t] = "mask" /\ pc[t] = "scan" /\ idx[t] = MAX_THREAD_NUM /\ temp' = temp
        BY <3>7 DEF ScanEnd, Go, TypeOK
      <4>2. b.inst \in temp[t]
        BY <2>1, <3>2, <4>1 DEF WillMeet
      <4> QED
        BY <1>1, <3>1, <4>1, <4>2 DEF WillMeet, Collecting
    <3> QED
      BY <3>3, <3>4, <3>5, <3>6, <3>7 DEF Scan
  <2>2. ASSUME NEW v \in Ids, NEW u \in Ids, v # t, NEW a, NEW b, WillMeet(v, a, u, b)
        PROVE  WillMeet(v, a, u, b)'
    BY <1>1, <2>2 DEF WillMeet
  <2> QED
    BY <1>1, <2>1, <2>2, CompleteFrame
<1> QED
  BY <1>4, <1>5, <1>6, <1>7, <1>8

\* The mask drops only partners that are not suspected or already collected.
LEMMA MaskStep ==
  ASSUME TypeOK, CheckInv, NEW t \in Ids, Mask(t) PROVE CheckInv'
<1> USE DEF CheckInv
<1> HIDE DEF Ids
<1>1. /\ UNCHANGED <<mem, slots, instToGroup, pairs, idx, it, passed>>
      /\ \A u \in Ids : Current(u)' = Current(u)
      /\ pc[t] = "mask" /\ pc'[t] = "add"
      /\ temp'[t] = temp[t] \cap instToGroup[Current(t).inst]
      /\ \A u \in Ids \ {t} : pc'[u] = pc[u] /\ temp'[u] = temp[u]
  BY DEF Mask, Go, creation, Current, TypeOK
<1>2. Current(t).inst \in Insts
  BY CurrentTyped
<1>3. \A u \in Ids : temp'[u] \subseteq temp[u]
  BY <1>1
<1>4. Recorded'
  BY <1>1 DEF Recorded
<1>5. TempSound'
  BY <1>1, <1>3 DEF TempSound, Collecting
<1>6. Groups'
  BY <1>1, <1>2 DEF Groups
<1>7. PairsSound'
  BY <1>1 DEF PairsSound
<1>8. Complete'
  <2>1. ASSUME NEW v \in Ids, NEW u \in Ids, v # u,
               NEW a \in mem[v], NEW b \in mem[u], {a.inst, b.inst} \in RCPairs,
               WillMeet(v, a, u, b)
        PROVE  WillMeet(v, a, u, b)' \/ {a.inst, b.inst} \in pairs
    <3>1. CASE v # t
      BY <1>1, <2>1, <3>1 DEF WillMeet
    <3>2. CASE v = t
      <4>0. a.inst \in Insts /\ b.inst \in Insts
        BY DEF TypeOK, AccessType
      <4>1. b.inst \in Group(a.inst)
        BY <2>1, <4>0 DEF Group
      <4>2. Current(t) = a /\ b.inst \in temp[t]
        BY <1>1, <2>1, <3>2 DEF WillMeet
      <4>3. CASE b.inst \in instToGroup[a.inst]
        BY <1>1, <3>2, <4>2, <4>3 DEF WillMeet, Collecting
      <4>4. CASE b.inst \notin instToGroup[a.inst]
        BY <4>0, <4>1, <4>4 DEF Groups
      <4> QED
        BY <4>3, <4>4
    <3> QED
      BY <3>1, <3>2
  <2> QED
    BY <1>1, <2>1, CompleteFrame
<1> QED
  BY <1>4, <1>5, <1>6, <1>7, <1>8

\* A pair is added for a partner in temp, hence suspected and met.
LEMMA AddPairStep ==
  ASSUME TypeOK, CheckInv, NEW t \in Ids, AddPair(t) PROVE CheckInv'
<1> USE DEF CheckInv
<1> HIDE DEF Ids
<1>1. /\ UNCHANGED <<mem, slots, instToGroup, idx, temp, passed>>
      /\ \A u \in Ids : Current(u)' = Current(u)
      /\ pc[t] = "add" /\ pc'[t] = "reset"
      /\ \A u \in Ids \ {t} : pc'[u] = pc[u] /\ it'[u] = it[u]
      /\ it'[t] \in temp[t] /\ pairs' = pairs \cup {{Current(t).inst, it'[t]}}
  BY DEF AddPair, Go, creation, Current, TypeOK
<1>2. Current(t).inst \in Insts /\ it'[t] \in Group(Current(t).inst)
  BY <1>1, CurrentTyped DEF Groups
<1>3. Recorded'
  BY <1>1 DEF Recorded
<1>4. TempSound'
  BY <1>1 DEF TempSound, Collecting
<1>5. Groups'
  BY <1>1, <1>2 DEF Groups
<1>6. PairsSound'
  <2>1. {Current(t).inst, it'[t]} \in RCPairs
    BY <1>2 DEF Group
  <2>2. PICK u \in Ids : u # t /\ \E m \in mem[u] : Matches(Current(t), m) /\ m.inst = it'[t]
    BY <1>1 DEF TempSound, Collecting
  <2>3. Current(t) \in mem[t]
    BY <1>1 DEF Recorded, Checking
  <2>4. PICK m \in mem[u] : Matches(Current(t), m) /\ m.inst = it'[t]
    BY <2>2
  <2> DEFINE Met(p) == \E v, w \in Ids : v # w /\
                         \E a \in mem[v], b \in mem[w] : Matches(a, b) /\ p = {a.inst, b.inst}
  <2>5. Met({Current(t).inst, it'[t]})
    BY <2>2, <2>3, <2>4
  <2>6. \A p \in pairs : p \in RCPairs /\ Met(p)
    BY DEF PairsSound
  <2> HIDE DEF Met
  <2>7. \A p \in pairs' : p \in RCPairs /\ Met(p)
    BY <1>1, <2>1, <2>5, <2>6
  <2> QED
    BY <1>1, <2>7 DEF PairsSound, Met
<1>7. Complete'
  <2>1. ASSUME NEW v \in Ids, NEW u \in Ids, NEW a, NEW b, WillMeet(v, a, u, b)
        PROVE  WillMeet(v, a, u, b)'
    BY <1>1, <2>1 DEF WillMeet, Collecting
  <2> QED
    BY <1>1, <2>1, CompleteFrame
<1> QED
  BY <1>3, <1>4, <1>5, <1>6, <1>7

\* The group and temp forget a partner whose pair is already collected.
LEMMA ResetIGStep ==
  ASSUME TypeOK, CheckInv, NEW t \in Ids, ResetIG(t) PROVE CheckInv'
<1> USE DEF CheckInv
<1> HIDE DEF Ids
<1>1. /\ UNCHANGED <<mem, slots, pairs, idx, it, passed>>
      /\ \A u \in Ids : Current(u)' = Current(u)
      /\ pc[t] = "reset" /\ pc'[t] = "add"
      /\ \A u \in Ids \ {t} : pc'[u] = pc[u] /\ temp'[u] = temp[u]
      /\ temp'[t] = temp[t] \ {it[t]}
      /\ instToGroup' = [instToGroup EXCEPT ![Current(t).inst] = @ \ {it[t]}]
  BY DEF ResetIG, Go, creation, Current, TypeOK
<1>2. Current(t).inst \in Insts /\ instToGroup \in [Insts -> SUBSET Insts]
  BY CurrentTyped DEF TypeOK
<1>3. {Current(t).inst, it[t]} \in pairs
  BY <1>1 DEF Groups
<1>4. Recorded'
  BY <1>1 DEF Recorded
<1>5. TempSound'
  <2>1. \A u \in Ids : temp'[u] \subseteq temp[u] /\ (pc'[u] \in Collecting => pc[u] \in Collecting)
    BY <1>1 DEF Collecting
  <2> QED
    BY <1>1, <2>1 DEF TempSound
<1>6. Groups'
  BY <1>1, <1>2, <1>3 DEF Groups
<1>7. PairsSound'
  BY <1>1 DEF PairsSound
<1>8. Complete'
  <2>1. ASSUME NEW v \in Ids, NEW u \in Ids, NEW a, NEW b, WillMeet(v, a, u, b)
        PROVE  WillMeet(v, a, u, b)' \/ {a.inst, b.inst} \in pairs
    <3>1. CASE v # t
      BY <1>1, <2>1, <3>1 DEF WillMeet
    <3>2. CASE v = t
      BY <1>1, <1>3, <2>1, <3>2 DEF WillMeet, Collecting
    <3> QED
      BY <3>1, <3>2
  <2> QED
    BY <1>1, <2>1, CompleteFrame
<1> QED
  BY <1>4, <1>5, <1>6, <1>7, <1>8

\* The invariant of the checks holds in every reachable state.
LEMMA CheckInvHolds == Spec => [](TypeOK /\ CheckInv)
<1>1. TypeOK /\ CheckInv /\ [Next]_vars => CheckInv'
  <2> SUFFICES ASSUME TypeOK, CheckInv, [Next]_vars PROVE CheckInv'
    OBVIOUS
  <2>1. CASE UNCHANGED vars
    BY <2>1 DEF vars, CheckInv, Recorded, TempSound, Groups, PairsSound, Complete, Dealt,
       WillMeet, Current
  <2>2. CASE Next
    BY <2>2, QuietStep, RecordStep, DoneStep, ScanStep, MaskStep, AddPairStep, ResetIGStep
    DEF Next, Collect
  <2> QED
    BY <2>1, <2>2
<1> QED
  BY <1>1, InitTyped, StepTyped, InitCheckInv, PTL DEF Spec

\* dciinfo[get_counter()] is never NULL where an access uses it.
THEOREM SlotsAllocated == Spec => []OwnSlotAllocated
<1>1. CheckInv => OwnSlotAllocated
  BY DEF CheckInv, Recorded, OwnSlotAllocated
<1> QED
  BY <1>1, CheckInvHolds, PTL

\* Each line of DCI.pairs is a line of RC.pairs, and two threads have accessed
\* one recorded address through its instructions, one of them writing.
THEOREM CollectedPairsAreMet == Spec => []PairsSound
<1>1. CheckInv => PairsSound
  BY DEF CheckInv
<1> QED
  BY <1>1, CheckInvHolds, PTL

\* Once two matching accesses have been dealt with their pair is collected, for
\* every interleaving of recording, scanning, masking, adding and resetting,
\* unless the scan for one of them gave up at an empty slot before the slot in which
\* the other one was recorded.
THEOREM MetPairsAreCollected == Spec => []PairsComplete
<1>1. CheckInv => PairsComplete
  BY DEF CheckInv, Complete, Dealt, WillMeet, PairsComplete, Settled
<1> QED
  BY <1>1, CheckInvHolds, PTL

------------------------------------------------------------------------------
(***************************************************************************)
(* What memory intrinsics record.                                          *)
(***************************************************************************)
\* The accesses of an intrinsic that a thread has dealt with are recorded, and when
\* it has returned that is all of them.
IntrinsicsRecorded ==
    \A t \in Ids : call[t].fn \in {"memcpy", "memset"} =>
        /\ \A p \in 1 .. Len(Accesses(call[t])) :
             p < pos[t] \/ (p = pos[t] /\ pc[t] # "record") => Accesses(call[t])[p] \in mem[t]
        /\ pc[t] \notin {"record"} \cup Checking => pos[t] = Len(Accesses(call[t]))

LEMMA IntrinsicsStep ==
  ASSUME TypeOK, IntrinsicsRecorded, [Next]_vars PROVE IntrinsicsRecorded'
<1> USE DEF IntrinsicsRecorded, Go, creation
<1>1. /\ pc \in [Ids -> Locations] /\ mem \in [Ids -> SUBSET AccessType]
      /\ pos \in [Ids -> Nat] /\ call \in [Ids -> CallType]
      /\ \A t \in Ids : Inside(pos[t], call[t])
  BY DEF TypeOK
<1> HIDE DEF Ids
<1>2. \A t \in Ids : Len(Accesses(call[t])) \in Nat
  BY <1>1, AccessesTyped
\* Steps outside of the accesses, and those inside of a check.
<1>3. ASSUME UNCHANGED <<mem, call, pos>>,
             \A t \in Ids : pc'[t] = "record" <=> pc[t] = "record",
             \A t \in Ids : pc'[t] \in Checking <=> pc[t] \in Checking
      PROVE  IntrinsicsRecorded'
  BY <1>1, <1>3
<1>4. ASSUME NEW t \in Ids, Creation(t) PROVE IntrinsicsRecorded'
  <2>1. UNCHANGED <<mem, call, pos>> /\ total_thread \in 1 .. MAX_THREAD_NUM
    BY <1>4 DEF Creation, PthreadCreate, PublishTid, ReturnFromCreate, TakeId,
                SyncWithParent, AllocateSlot, TypeOK
  <2>2. PICK u \in Ids, from, to \in {"none", "sync", "alloc", "idle", "create", "handshake"} :
          pc[u] = from /\ pc' = [pc EXCEPT ![u] = to]
    BY <1>4 DEF Creation, PthreadCreate, PublishTid, ReturnFromCreate, TakeId,
                SyncWithParent, AllocateSlot
  <2> QED
    BY <1>1, <1>3, <2>1, <2>2
<1>5. ASSUME NEW t \in Ids, NEW c \in ProgramCalls[t], BeginCall(t, c) PROVE IntrinsicsRecorded'
  <2>1. /\ pc' = [pc EXCEPT ![t] = "record"] /\ call' = [call EXCEPT ![t] = c]
        /\ pos' = [pos EXCEPT ![t] = 1] /\ mem' = mem
    BY <1>5 DEF BeginCall
  <2> QED
    BY <1>1, <2>1
<1>6. ASSUME NEW t \in Ids, Record(t) PROVE IntrinsicsRecorded'
  <2>1. /\ pc[t] = "record" /\ pc' = [pc EXCEPT ![t] = "isempty"]
        /\ mem' = [mem EXCEPT ![t] = @ \cup {Accesses(call[t])[pos[t]]}]
        /\ UNCHANGED <<call, pos>>
    BY <1>6 DEF Record, Current
  <2> QED
    BY <1>1, <2>1
<1>7. ASSUME NEW t \in Ids, NEW from, from \in {"isempty", "add"}, NextAccess(t, from),
             UNCHANGED <<mem, call>>
      PROVE  IntrinsicsRecorded'
  <2> DEFINE n == Len(Accesses(call[t]))
  <2>1. n \in Nat /\ pos[t] \in 1 .. n /\ pc[t] \in {"isempty", "add"}
    BY <1>1, <1>2, <1>7 DEF NextAccess, Inside
  <2>2. CASE pos[t] < n
    <3>1. pc' = [pc EXCEPT ![t] = "record"] /\ pos' = [pos EXCEPT ![t] = @ + 1]
      BY <1>7, <2>2 DEF NextAccess
    <3>2. \A p \in 1 .. n : p < pos[t] + 1 => p < pos[t] \/ p = pos[t]
      BY <2>1
    <3> QED
      BY <1>1, <1>7, <2>1, <3>1, <3>2
  <2>3. CASE ~(pos[t] < n)
    <3>1. pc' = [pc EXCEPT ![t] = "idle"] /\ pos' = pos /\ pos[t] = n
      BY <1>7, <2>1, <2>3 DEF NextAccess
    <3> QED
      BY <1>1, <1>7, <2>1, <3>1
  <2> QED
    BY <2>2, <2>3
<1>8. ASSUME NEW t \in Ids, Scan(t) \/ Mask(t) \/ AddPair(t) \/ ResetIG(t)
      PROVE  IntrinsicsRecorded'
  BY <1>1, <1>3, <1>8 DEF Scan, StartScan, ScanSlot, ScanSelf, ScanBreak, ScanEnd, Mask,
                          AddPair, ResetIG
<1>9. CASE UNCHANGED vars
  BY <1>3, <1>9 DEF vars
<1> QED
  BY <1>4, <1>5, <1>6, <1>7, <1>8, <1>9 DEF Next, Collect, NothingToFind, PairsAdded

\* The first loop of a copy writes every fourth byte, the second every eighth.
LEMMA CopyCovers ==
  ASSUME NEW c \in CallType, NEW k \in {2, 3}, NEW off \in 0 .. c.size - 1, off % 2^k = 0
  PROVE  \E j \in 1 .. Len(Copied(c)) : Copied(c)[j] = Access("write", c.dst + off, k, c.instID)
<1> DEFINE m == Turns(c.size, 4)
           l == Turns(c.size, 8)
<1>1. c.size \in Nat /\ c.dst \in Nat /\ off \in Nat
  BY DEF CallType
<1>2. m \in Nat /\ l \in Nat
  BY <1>1 DEF Turns
<1>3. Len(Copied(c)) = 2 * (m + l)
  <2>1. 2 * (m + l) \in Nat
    BY <1>2
  <2> QED
    BY <2>1 DEF Copied
<1>4. \E n \in 0 .. m + l - 1 : Offset(c, n) = off /\ UnitSize(c, n) = k
  <2>1. CASE k = 2
    <3>1. off % 4 = 0
      BY <2>1
    <3>2. off \div 4 \in 0 .. m - 1 /\ 4 * (off \div 4) = off
      BY <1>1, <3>1 DEF Turns
    <3>3. off \div 4 \in 0 .. m + l - 1
      BY <1>2, <3>2
    <3> WITNESS off \div 4 \in 0 .. m + l - 1
    <3> QED
      BY <1>2, <2>1, <3>2 DEF Offset, UnitSize, InFours
  <2>2. CASE k = 3
    <3>1. off % 8 = 0
      BY <2>2
    <3>2. off \div 8 \in 0 .. l - 1 /\ 8 * (off \div 8) = off
      BY <1>1, <3>1 DEF Turns
    <3>3. m + off \div 8 \in 0 .. m + l - 1
      BY <1>2, <3>2
    <3> WITNESS m + off \div 8 \in 0 .. m + l - 1
    <3> QED
      BY <1>2, <2>2, <3>2 DEF Offset, UnitSize, InFours
  <2> QED
    BY <2>1, <2>2
<1>5. PICK n \in 0 .. m + l - 1 : Offset(c, n) = off /\ UnitSize(c, n) = k
  BY <1>4
<1> HIDE DEF m, l
<1>6. /\ 2 * n + 2 \in 1 .. 2 * (m + l)
      /\ (2 * n + 2 - 1) \div 2 = n /\ (2 * n + 2) % 2 # 1
  BY <1>2
<1>7. Copied(c)[2 * n + 2] = Access("write", c.dst + off, k, c.instID)
  BY <1>5, <1>6 DEF Copied, m, l
<1> QED
  BY <1>3, <1>6, <1>7

\* Every copy that has returned has recorded the memory it wrote in units of both
\* sizes, in any interleaving (__dci_memcpy and __dci_memmove; the second loop of
\* __dci_memset, DCIInterface.cpp:106, records the wrong size, so that the program
\* has to do without it).
THEOREM CopiesAreRecorded ==
  ASSUME \A t \in Ids : \A c \in ProgramCalls[t] : c.fn # "memset"
  PROVE  Spec => []IntrinsicUnits
<1> DEFINE Inv == IntrinsicsRecorded /\ \A t \in Ids : call[t].fn # "memset"
<1>1. Init => Inv
  BY DEF Init, NoCall, IntrinsicsRecorded
<1>2. TypeOK /\ Inv /\ [Next]_vars => Inv'
  <2> SUFFICES ASSUME TypeOK, Inv, [Next]_vars PROVE Inv'
    OBVIOUS
  <2>1. IntrinsicsRecorded'
    BY IntrinsicsStep
  <2>2. \A t \in Ids : call'[t].fn # "memset"
    <3>1. call' = call \/ \E t \in Ids : \E c \in ProgramCalls[t] : call' = [call EXCEPT ![t] = c]
      BY DEF vars, Next, Creation, PthreadCreate, PublishTid, ReturnFromCreate, TakeId,
             SyncWithParent, AllocateSlot, BeginCall, Record, NothingToFind, Scan, StartScan,
             ScanSlot, ScanSelf, ScanBreak, ScanEnd, Collect, Mask, AddPair, ResetIG, PairsAdded
    <3>2. ASSUME NEW u \in Ids, NEW c \in ProgramCalls[u], call' = [call EXCEPT ![u] = c]
          PROVE  \A t \in Ids : call'[t].fn # "memset"
      <4>1. c.fn # "memset" /\ call \in [Ids -> CallType]
        BY DEF TypeOK
      <4> HIDE DEF Ids
      <4> QED
        BY <3>2, <4>1
    <3> QED
      BY <3>1, <3>2
  <2> QED
    BY <2>1, <2>2
<1>3. TypeOK /\ Inv => IntrinsicUnits
  <2> SUFFICES ASSUME TypeOK, Inv,
                      NEW t \in Ids, pc[t] = "idle", call[t].fn \in {"memcpy", "memset"},
                      NEW k \in {2, 3}, NEW off \in 0 .. call[t].size - 1, off % 2^k = 0
               PROVE  Access("write", call[t].dst + off, k, call[t].instID) \in mem[t]
    BY DEF IntrinsicUnits
  <2>1. call[t] \in CallType /\ Accesses(call[t]) = Copied(call[t])
    BY DEF TypeOK, Accesses
  <2>2. PICK j \in 1 .. Len(Copied(call[t])) :
          Copied(call[t])[j] = Access("write", call[t].dst + off, k, call[t].instID)
    BY <2>1, CopyCovers
  <2>3. pos[t] = Len(Accesses(call[t])) /\ Len(Accesses(call[t])) \in Nat
    BY <2>1, AccessesTyped DEF IntrinsicsRecorded
  <2>4. j < pos[t] \/ j = pos[t]
    BY <2>1, <2>3
  <2>5. Accesses(call[t])[j] \in mem[t]
    <3> HIDE DEF Ids
    <3>1. pc[t] # "record" /\ j \in 1 .. Len(Accesses(call[t]))
      BY <2>1
    <3> QED
      BY <2>4, <3>1 DEF IntrinsicsRecorded
  <2> QED
    BY <2>1, <2>2, <2>5
<1> HIDE DEF Inv
<1> QED
  BY <1>1, <1>2, <1>3, TypeCorrect, PTL DEF Spec

\* A slot is in use once its thread has got past its creation.
SlotsFilled ==
    \A t \in Ids :
        /\ t \in slots <=> t < total_thread /\ pc[t] \notin {"sync", "alloc"}
        /\ t >= total_thread => pc[t] = "none"

\* Only the thread created last may be without its slot.
LastInCreation == \A t \in Ids : pc[t] \in {"sync", "alloc"} => t = total_thread - 1

\* Steps outside of creation move threads between locations in which they have slots.
LEMMA FilledStep ==
  ASSUME TypeOK, SlotsFilled, [Next]_vars PROVE SlotsFilled'
<1> USE DEF SlotsFilled, Go, creation
<1>0. /\ pc \in [Ids -> Locations] /\ total_thread \in 1..MAX_THREAD_NUM
      /\ MAX_THREAD_NUM \in Nat
  BY DCIAssumption DEF TypeOK
<1> HIDE DEF Ids
<1>1. ASSUME UNCHANGED <<slots, total_thread>>,
             \A t \in Ids : pc'[t] = "none" <=> pc[t] = "none",
             \A t \in Ids : pc'[t] \in {"sync", "alloc"} <=> pc[t] \in {"sync", "alloc"}
      PROVE  SlotsFilled'
  BY <1>1
<1>2. ASSUME NEW t \in Ids, Creation(t) PROVE SlotsFilled'
  <2>1. CASE TakeId(t)
    <3>1. /\ total_thread' = total_thread + 1 /\ slots' = slots /\ total_thread \in Ids
          /\ pc' = [pc EXCEPT ![total_thread] = "sync"]
      BY <2>1 DEF TakeId
    <3> QED
      BY <1>0, <3>1 DEF Ids
  <2>2. CASE AllocateSlot(t)
    <3>1. /\ total_thread' = total_thread /\ slots' = slots \cup {t} /\ pc[t] = "alloc"
          /\ pc' = [pc EXCEPT ![t] = "idle"]
      BY <2>2 DEF AllocateSlot
    <3>2. t < total_thread
      BY <1>0, <3>1 DEF Ids
    <3> QED
      BY <1>0, <3>1, <3>2
  <2>3. CASE PthreadCreate(t) \/ PublishTid(t) \/ ReturnFromCreate(t) \/ SyncWithParent(t)
    BY <1>0, <1>1, <2>3 DEF PthreadCreate, PublishTid, ReturnFromCreate, SyncWithParent
  <2> QED
    BY <1>2, <2>1, <2>2, <2>3 DEF Creation
<1>3. ASSUME NEW t \in Ids, NEW c, BeginCall(t, c) PROVE SlotsFilled'
  BY <1>0, <1>1, <1>3 DEF BeginCall
<1>4. ASSUME NEW t \in Ids, Record(t) \/ NothingToFind(t) PROVE SlotsFilled'
  BY <1>0, <1>1, <1>4 DEF Record, NothingToFind, NextAccess
<1>5. ASSUME NEW t \in Ids, Scan(t) \/ Collect(t) PROVE SlotsFilled'
  <2>1. CASE StartScan(t) \/ ScanEnd(t)
    BY <1>0, <1>1, <2>1 DEF StartScan, ScanEnd
  <2>2. CASE ScanSlot(t) \/ ScanSelf(t) \/ ScanBreak(t)
    BY <1>1, <2>2 DEF ScanSlot, ScanSelf, ScanBreak
  <2>3. CASE Mask(t) \/ AddPair(t) \/ ResetIG(t)
    BY <1>0, <1>1, <2>3 DEF Mask, AddPair, ResetIG
  <2>4. CASE PairsAdded(t)
    BY <1>0, <1>1, <2>4 DEF PairsAdded, NextAccess
  <2> QED
    BY <1>5, <2>1, <2>2, <2>3, <2>4 DEF Scan, Collect
<1>6. CASE UNCHANGED vars
  BY <1>1, <1>6 DEF vars
<1> QED
  BY <1>2, <1>3, <1>4, <1>5, <1>6 DEF Next

\* A thread that takes its id is the last one, and the only one in creation.
LEMMA LastStep ==
  ASSUME TypeOK, SlotsFilled, LastInCreation, OrderlyCreation', [Next]_vars
  PROVE  LastInCreation'
<1> USE DEF LastInCreation, Go, creation
<1>0. /\ pc \in [Ids -> Locations] /\ total_thread \in 1..MAX_THREAD_NUM
      /\ MAX_THREAD_NUM \in Nat
  BY DCIAssumption DEF TypeOK
<1>1. CASE \E t \in Ids : TakeId(t)
  <2>1. /\ total_thread' = total_thread + 1 /\ total_thread \in Ids
        /\ pc'[total_thread] = "sync"
    BY <1>0, <1>1 DEF TakeId
  <2>2. \A t \in Ids : pc'[t] \in {"sync", "alloc"} => t = total_thread
    BY <2>1 DEF OrderlyCreation
  <2> QED
    BY <1>0, <2>1, <2>2
<1>2. CASE ~ \E t \in Ids : TakeId(t)
  <2>1. total_thread' = total_thread
    BY <1>2 DEF vars, Next, Creation, PthreadCreate, PublishTid, ReturnFromCreate,
           SyncWithParent, AllocateSlot, BeginCall, Record, NothingToFind, Scan, StartScan,
           ScanSlot, ScanSelf, ScanBreak, ScanEnd, Collect, Mask, AddPair, ResetIG, PairsAdded
  <2>2. \A t \in Ids : pc'[t] \in {"sync", "alloc"} => pc[t] \in {"sync", "alloc"}
    <3> HIDE DEF Ids
    <3> QED
      BY <1>0, <1>2 DEF vars, Next, Creation, PthreadCreate, PublishTid, ReturnFromCreate,
           SyncWithParent, AllocateSlot, BeginCall, Record, NothingToFind, Scan, StartScan,
           ScanSlot, ScanSelf, ScanBreak, ScanEnd, Collect, Mask, AddPair, ResetIG, PairsAdded,
           NextAccess
  <2> QED
    BY <2>1, <2>2
<1> QED
  BY <1>1, <1>2

\* Slots are then in use in the order of their ids, and a scan that comes to an empty
\* one has no more before it.
LEMMA NothingPassed ==
  ASSUME TypeOK, SlotsFilled, LastInCreation, passed = {}, [Next]_vars PROVE passed' = {}
<1>1. ASSUME NEW t \in Ids, ScanBreak(t) PROVE passed' = {}
  <2> DEFINE last == IF idx[t] < t THEN t ELSE MAX_THREAD_NUM
             D == {i \in slots : idx[t] < i /\ i < last}
  <2>1. idx[t] \in Ids /\ idx[t] \notin slots
    BY <1>1 DEF ScanBreak
  <2>2. \A i \in slots : ~(idx[t] < i)
    <3> SUFFICES ASSUME NEW i \in slots, idx[t] < i PROVE FALSE
      OBVIOUS
    <3>1. i \in Ids /\ i < total_thread /\ total_thread \in Nat
      BY DEF TypeOK, SlotsFilled
    <3>2. idx[t] < total_thread /\ idx[t] # total_thread - 1
      BY <2>1, <3>1
    <3> QED
      BY <2>1, <3>2 DEF SlotsFilled, LastInCreation
  <2>3. D = {}
    BY <2>2
  <2>4. passed' = passed \cup UNION {{<<t, Current(t), u, b>> : b \in mem[u]} : u \in D}
    BY <1>1 DEF ScanBreak
  <2> HIDE DEF D
  <2> QED
    BY <2>3, <2>4
<1>2. passed' = passed \/ \E t \in Ids : ScanBreak(t)
  BY DEF vars, creation, Next, Creation, PthreadCreate, PublishTid, ReturnFromCreate, TakeId,
         SyncWithParent, AllocateSlot, BeginCall, Record, NothingToFind, Scan, StartScan,
         ScanSlot, ScanSelf, ScanEnd, Collect, Mask, AddPair, ResetIG, PairsAdded
<1> QED
  BY <1>1, <1>2

\* For any number of threads: in a run in which no thread takes its id
\* (DCIInterceptors.cpp:66) before the one created last has its slot (:75), no suspected
\* pair that was met is lost, whatever else the threads do at the same time.  That the
\* creating thread waits for the handshake (:102) is not enough: the slot comes after it.
THEOREM OrderlyCreationLosesNothing == Spec /\ []OrderlyCreation => []EveryAliasFound
<1> DEFINE Inv == SlotsFilled /\ LastInCreation /\ passed = {}
<1>1. Init => Inv
  <2> SUFFICES ASSUME Init PROVE Inv
    OBVIOUS
  <2>1. /\ pc = [i \in Ids |-> IF i = 0 THEN "idle" ELSE "none"] /\ total_thread = 1
        /\ slots = {0} /\ passed = {}
    BY DEF Init
  <2>2. \A t \in Ids : t < 1 <=> t = 0
    BY DCIAssumption
  <2> QED
    BY <2>1, <2>2 DEF SlotsFilled, LastInCreation
<1>2. TypeOK /\ Inv /\ OrderlyCreation' /\ [Next]_vars => Inv'
  BY FilledStep, LastStep, NothingPassed
<1>3. PairsComplete /\ Inv => EveryAliasFound
  BY DEF PairsComplete, EveryAliasFound
<1> HIDE DEF Inv
<1> QED
  BY <1>1, <1>2, <1>3, TypeCorrect, MetPairsAreCollected, PTL DEF Spec

==============================================================================
