------------------------------- MODULE DCIRTL --------------------------------
(***************************************************************************)
(* The dynamic alias checker linked into the program under test            *)
(* (lib/RC/DCIRTL).  It confirms at run time the pairs of instructions the *)
(* static analysis suspects (RC.pairs): each access is recorded in the     *)
(* DCIMem of its thread, then compared with what the other threads have    *)
(* recorded for the same address, and the pairs met are collected.         *)
(*                                                                         *)
(* A thread is its index in dciinfo.  Every critical section of            *)
(* mtx_dciinfo, mtx_instToGroup and mtx_pairs is one step, and so is the   *)
(* unlocked test of a slot together with the critical section it leads to: *)
(* a slot never becomes NULL again.                                        *)
(***************************************************************************)
EXTENDS Integers, Sequences, FiniteSets

CONSTANTS
    MAX_THREAD_NUM, \* slots of dciinfo; the program must not create more threads
    Insts,          \* instruction ids
    RCPairs,        \* the lines of RC.pairs, as sets of one or two ids
    ProgramCalls,   \* calls of the __dci_ functions each thread may make
    MaxCalls        \* bound: calls of each thread

Ids == 0 .. MAX_THREAD_NUM - 1

CallNames == {"read", "write", "memcpy", "memset"}

\* A call: of a read or write of 2^ksize bytes at dst, or of a memory intrinsic
\* over size bytes (memmove is as memcpy).
CallType == [fn : CallNames, dst : Nat, src : Nat, size : Nat, ksize : 0..3, instID : Insts]

ASSUME DCIAssumption ==
    /\ MAX_THREAD_NUM \in Nat \ {0}
    /\ Insts \subseteq Nat /\ Insts # {}
    /\ RCPairs \subseteq {{a, b} : a, b \in Insts}
    /\ ProgramCalls \in [Ids -> SUBSET CallType]
    /\ MaxCalls \in [Ids -> Nat]

VARIABLES
    pc,             \* where each thread is
    total_thread,   \* the id the next thread takes
    newborn,        \* creators whose child has not taken its id yet
    parent,         \* creator of each thread
    tid,            \* ThreadCreateInfo::tid, in the frame of the creating thread
    slots,          \* indices of dciinfo that are not NULL
    mem,            \* what each DCIMem has recorded
    instToGroup,    \* partners still to be met, by instruction
    pairs,          \* DCIInfo::pairs
    call, pos,      \* the call a thread executes and the access of it it is at
    calls,          \* calls made so far, for MaxCalls
    idx, temp, it,  \* locals of checkReadPair() and checkWritePair()
    passed          \* history: <<t, a, u, b>> if the scan of t for its access a ended at an
                    \* empty slot before it came to u, which had recorded b

vars == <<pc, total_thread, newborn, parent, tid, slots, mem, instToGroup,
          pairs, call, pos, calls, idx, temp, it, passed>>

creation == <<total_thread, newborn, parent, tid, slots>>

Checking  == {"isempty", "scan", "mask", "add", "reset"}
Locations == {"none", "sync", "alloc", "idle", "create", "handshake", "record"} \cup Checking

------------------------------------------------------------------------------
(***************************************************************************)
(* The accesses a call is broken into (DCIInterface.cpp).                  *)
(***************************************************************************)
Access(kind, addr, ksize, inst) ==
    [kind |-> kind, addr |-> addr, ksize |-> ksize, inst |-> inst]

AccessType == [kind : {"read", "write"}, addr : Nat, ksize : 0..3, inst : Insts]

\* Turns of for (i = 0; i < size; i = i + unit).
Turns(size, unit) == (size + unit - 1) \div unit

\* Mutant of UnitSize: every turn records 4 bytes.
UnitSizeFour(c, n) == 2

\* Offset and unit size of the n-th turn (from 0) of the two loops.
InFours(c, n)  == n < Turns(c.size, 4)
Offset(c, n)   == IF InFours(c, n) THEN 4 * n ELSE 8 * (n - Turns(c.size, 4))
UnitSize(c, n) == IF InFours(c, n) THEN 2 ELSE 3

Copied(c) ==
    [j \in 1 .. 2 * (Turns(c.size, 4) + Turns(c.size, 8)) |->
        LET n == (j - 1) \div 2
        IN  IF j % 2 = 1
              THEN Access("read", c.src + Offset(c, n), UnitSize(c, n), c.instID)
              ELSE Access("write", c.dst + Offset(c, n), UnitSize(c, n), c.instID)]

\* The second loop of __dci_memset records 4-byte accesses, too.
Filled(c) ==
    [j \in 1 .. Turns(c.size, 4) + Turns(c.size, 8) |->
        Access("write", c.dst + Offset(c, j - 1), 2, c.instID)]

Accesses(c) ==
    IF c.fn = "memcpy" THEN Copied(c)
    ELSE IF c.fn = "memset" THEN Filled(c)
    ELSE <<Access(c.fn, c.dst, c.ksize, c.instID)>>

\* The key of read2inst and write2inst.
getAbsAddr(a) == a.ksize * 2^14 + (a.addr % 2^14)

\* What checkReadPair() and checkWritePair() look for in another thread.
Matches(a, b) ==
    /\ getAbsAddr(a) = getAbsAddr(b)
    /\ a.kind = "write" \/ b.kind = "write"

\* instToGroup as InitializePairInfo() fills it.
Group(a) == {b \in Insts : {a, b} \in RCPairs}

------------------------------------------------------------------------------
NoCall == [fn |-> "read", dst |-> 0, src |-> 0, size |-> 0, ksize |-> 0,
           instID |-> CHOOSE i \in Insts : TRUE]

\* __dci_init(): the main thread takes id 0 and its slot.
Init ==
    /\ pc = [i \in Ids |-> IF i = 0 THEN "idle" ELSE "none"]
    /\ total_thread = 1
    /\ newborn = {}
    /\ parent = [i \in Ids |-> 0]
    /\ tid = [i \in Ids |-> "UINT32_MAX"]
    /\ slots = {0}
    /\ mem = [i \in Ids |-> {}]
    /\ instToGroup = [a \in Insts |-> Group(a)]
    /\ pairs = {}
    /\ call = [i \in Ids |-> NoCall]
    /\ pos = [i \in Ids |-> 1]
    /\ calls = [i \in Ids |-> 0]
    /\ idx = [i \in Ids |-> 0]
    /\ temp = [i \in Ids |-> {}]
    /\ it = [i \in Ids |-> CHOOSE b \in Insts : TRUE]
    /\ passed = {}

Go(t, from, to) ==
    /\ pc[t] = from
    /\ pc' = [pc EXCEPT ![t] = to]

(***************************************************************************)
(* Thread creation.  The child takes its id before the handshake and its   *)
(* slot after it, so the creator may go on while the slot is still NULL.   *)
(***************************************************************************)
PthreadCreate(t) ==
    /\ total_thread + Cardinality(newborn) < MAX_THREAD_NUM
    /\ Go(t, "idle", "create")
    /\ newborn' = newborn \cup {t}
    /\ tid' = [tid EXCEPT ![t] = "UINT32_MAX"]
    /\ UNCHANGED <<total_thread, parent, slots, mem, instToGroup, pairs, call,
                   pos, calls, idx, temp, it, passed>>

PublishTid(t) ==
    /\ Go(t, "create", "handshake")
    /\ tid' = [tid EXCEPT ![t] = "tid"]
    /\ UNCHANGED <<total_thread, newborn, parent, slots, mem, instToGroup,
                   pairs, call, pos, calls, idx, temp, it, passed>>

ReturnFromCreate(t) ==
    /\ tid[t] = "UINT32_MAX"
    /\ Go(t, "handshake", "idle")
    /\ UNCHANGED <<creation, mem, instToGroup, pairs, call, pos, calls, idx, temp, it, passed>>

\* The child of t executes atomic_fetch_add(&total_thread, 1).
TakeId(t) ==
    /\ t \in newborn
    /\ total_thread \in Ids
    /\ Go(total_thread, "none", "sync")
    /\ newborn' = newborn \ {t}
    /\ parent' = [parent EXCEPT ![total_thread] = t]
    /\ total_thread' = total_thread + 1
    /\ UNCHANGED <<tid, slots, mem, instToGroup, pairs, call, pos, calls, idx, temp, it,
                   passed>>

\* Mutant of SyncWithParent: the thread starts without its slot.
SyncWithoutSlot(t) ==
    /\ tid[parent[t]] # "UINT32_MAX"
    /\ Go(t, "sync", "idle")
    /\ tid' = [tid EXCEPT ![parent[t]] = "UINT32_MAX"]
    /\ UNCHANGED <<total_thread, newborn, parent, slots, mem, instToGroup,
                   pairs, call, pos, calls, idx, temp, it, passed>>

SyncWithParent(t) ==
    /\ tid[parent[t]] # "UINT32_MAX"
    /\ Go(t, "sync", "alloc")
    /\ tid' = [tid EXCEPT ![parent[t]] = "UINT32_MAX"]
    /\ UNCHANGED <<total_thread, newborn, parent, slots, mem, instToGroup,
                   pairs, call, pos, calls, idx, temp, it, passed>>

AllocateSlot(t) ==
    /\ Go(t, "alloc", "idle")
    /\ slots' = slots \cup {t}
    /\ UNCHANGED <<total_thread, newborn, parent, tid, mem, instToGroup, pairs,
                   call, pos, calls, idx, temp, it, passed>>

------------------------------------------------------------------------------
(***************************************************************************)
(* An access: record it, then look for partners.                           *)
(***************************************************************************)
Current(t) == Accesses(call[t])[pos[t]]

\* Nothing to do for an intrinsic of size 0.
BeginCall(t, c) ==
    /\ calls[t] < MaxCalls[t]
    /\ Accesses(c) # <<>>
    /\ Go(t, "idle", "record")
    /\ call' = [call EXCEPT ![t] = c]
    /\ pos' = [pos EXCEPT ![t] = 1]
    /\ calls' = [calls EXCEPT ![t] = @ + 1]
    /\ UNCHANGED <<creation, mem, instToGroup, pairs, idx, temp, it, passed>>

\* addReadInst() or addWriteInst() under mtx_dciinfo[t].
Record(t) ==
    /\ Go(t, "record", "isempty")
    /\ mem' = [mem EXCEPT ![t] = @ \cup {Current(t)}]
    /\ UNCHANGED <<creation, instToGroup, pairs, call, pos, calls, idx, temp, it, passed>>

\* Mutant of NextAccess: one access too many.
NextAccessTooFar(t, from) ==
    IF pos[t] <= Len(Accesses(call[t]))
      THEN /\ Go(t, from, "record")
           /\ pos' = [pos EXCEPT ![t] = @ + 1]
      ELSE /\ Go(t, from, "idle")
           /\ UNCHANGED pos

\* The access is dealt with; the call goes on with its next one.
NextAccess(t, from) ==
    IF pos[t] < Len(Accesses(call[t]))
      THEN /\ Go(t, from, "record")
           /\ pos' = [pos EXCEPT ![t] = @ + 1]
      ELSE /\ Go(t, from, "idle")
           /\ UNCHANGED pos

NothingToFind(t) ==
    /\ pc[t] = "isempty"
    /\ instToGroup[Current(t).inst] = {}
    /\ NextAccess(t, "isempty")
    /\ UNCHANGED <<creation, mem, instToGroup, pairs, call, calls, idx, temp, it, passed>>

StartScan(t) ==
    /\ Go(t, "isempty", "scan")
    /\ instToGroup[Current(t).inst] # {}
    /\ idx' = [idx EXCEPT ![t] = 0]
    /\ temp' = [temp EXCEPT ![t] = {}]
    /\ UNCHANGED <<creation, mem, instToGroup, pairs, call, pos, calls, it, passed>>

\* Mutant of ScanSlot: reads meet reads.
ScanSlotAnyKind(t) ==
    /\ pc[t] = "scan"
    /\ idx[t] \in slots \ {t}
    /\ temp' = [temp EXCEPT ![t] =
                  @ \cup {b.inst : b \in {m \in mem[idx[t]] :
                                           getAbsAddr(Current(t)) = getAbsAddr(m)}}]
    /\ idx' = [idx EXCEPT ![t] = @ + 1]
    /\ UNCHANGED <<pc, creation, mem, instToGroup, pairs, call, pos, calls, it, passed>>

\* One turn of either loop, under mtx_dciinfo[idx[t]].
ScanSlot(t) ==
    /\ pc[t] = "scan"
    /\ idx[t] \in slots \ {t}
    /\ temp' = [temp EXCEPT ![t] =
                  @ \cup {b.inst : b \in {m \in mem[idx[t]] : Matches(Current(t), m)}}]
    /\ idx' = [idx EXCEPT ![t] = @ + 1]
    /\ UNCHANGED <<pc, creation, mem, instToGroup, pairs, call, pos, calls, it, passed>>

\* Mutant of ScanSelf: there is no second loop.
ScanSelfEnds(t) ==
    /\ pc[t] = "scan"
    /\ idx[t] = t
    /\ idx' = [idx EXCEPT ![t] = MAX_THREAD_NUM]
    /\ UNCHANGED <<pc, creation, mem, instToGroup, pairs, call, pos, calls, temp, it, passed>>

\* The first loop ends at t, the second starts after it.
ScanSelf(t) ==
    /\ pc[t] = "scan"
    /\ idx[t] = t
    /\ idx' = [idx EXCEPT ![t] = @ + 1]
    /\ UNCHANGED <<pc, creation, mem, instToGroup, pairs, call, pos, calls, temp, it, passed>>

\* if (dciinfo[i] == NULL) break: the rest of the loop is given up.
ScanBreak(t) ==
    LET last == IF idx[t] < t THEN t ELSE MAX_THREAD_NUM IN
    /\ pc[t] = "scan"
    /\ idx[t] \in Ids \ (slots \cup {t})
    /\ idx' = [idx EXCEPT ![t] = last]
    /\ passed' = passed \cup UNION {{<<t, Current(t), u, b>> : b \in mem[u]} :
                                       u \in {i \in slots : idx[t] < i /\ i < last}}
    /\ UNCHANGED <<pc, creation, mem, instToGroup, pairs, call, pos, calls, temp, it>>

ScanEnd(t) ==
    /\ idx[t] = MAX_THREAD_NUM
    /\ Go(t, "scan", "mask")
    /\ UNCHANGED <<creation, mem, instToGroup, pairs, call, pos, calls, idx, temp, it, passed>>

\* temp &= instToGroup[id], under mtx_instToGroup.
Mask(t) ==
    /\ Go(t, "mask", "add")
    /\ temp' = [temp EXCEPT ![t] = @ \cap instToGroup[Current(t).inst]]
    /\ UNCHANGED <<creation, mem, instToGroup, pairs, call, pos, calls, idx, it, passed>>

\* The order in which the iterator visits temp is left open.
AddPair(t) ==
    /\ Go(t, "add", "reset")
    /\ \E b \in temp[t] :
         /\ it' = [it EXCEPT ![t] = b]
         /\ pairs' = pairs \cup {{Current(t).inst, b}}
    /\ UNCHANGED <<creation, mem, instToGroup, call, pos, calls, idx, temp, passed>>

\* Only id's group forgets the partner, not the partner's group.
ResetIG(t) ==
    /\ Go(t, "reset", "add")
    /\ instToGroup' = [instToGroup EXCEPT ![Current(t).inst] = @ \ {it[t]}]
    /\ temp' = [temp EXCEPT ![t] = @ \ {it[t]}]
    /\ UNCHANGED <<creation, mem, pairs, call, pos, calls, idx, it, passed>>

PairsAdded(t) ==
    /\ temp[t] = {}
    /\ NextAccess(t, "add")
    /\ UNCHANGED <<creation, mem, instToGroup, pairs, call, calls, idx, temp, it, passed>>

------------------------------------------------------------------------------
Creation(t) ==
    \/ PthreadCreate(t) \/ PublishTid(t) \/ ReturnFromCreate(t)
    \/ TakeId(t) \/ SyncWithParent(t) \/ AllocateSlot(t)

Scan(t) == StartScan(t) \/ ScanSlot(t) \/ ScanSelf(t) \/ ScanBreak(t) \/ ScanEnd(t)

Collect(t) == Mask(t) \/ AddPair(t) \/ ResetIG(t) \/ PairsAdded(t)

Next ==
    \E t \in Ids :
        \/ Creation(t)
        \/ \E c \in ProgramCalls[t] : BeginCall(t, c)
        \/ Record(t) \/ NothingToFind(t)
        \/ Scan(t) \/ Collect(t)

Spec == Init /\ [][Next]_vars

------------------------------------------------------------------------------
(***************************************************************************)
(* Properties                                                              *)
(***************************************************************************)
\* The accesses of a call are numbered from 1.
Inside(p, c) == p \in 1 .. Len(Accesses(c))

TypeOK ==
    /\ pc \in [Ids -> Locations]
    /\ total_thread \in 1..MAX_THREAD_NUM
    /\ newborn \subseteq Ids
    /\ parent \in [Ids -> Ids]
    /\ tid \in [Ids -> {"UINT32_MAX", "tid"}]
    /\ slots \subseteq Ids
    /\ mem \in [Ids -> SUBSET AccessType]
    /\ instToGroup \in [Insts -> SUBSET Insts]
    /\ pairs \subseteq SUBSET Insts
    /\ call \in [Ids -> CallType]
    /\ pos \in [Ids -> Nat]
    /\ \A t \in Ids : Inside(pos[t], call[t])
    /\ calls \in [Ids -> Nat]
    /\ \A t \in Ids : calls[t] <= MaxCalls[t]
    /\ idx \in [Ids -> 0..MAX_THREAD_NUM]
    /\ temp \in [Ids -> SUBSET Insts]
    /\ it \in [Ids -> Insts]
    /\ passed \subseteq Ids \X AccessType \X Ids \X AccessType

\* A DCIMem is only used by a thread whose slot has been allocated: dciinfo is
\* dereferenced without a test for the thread's own slot.
OwnSlotAllocated ==
    \A t \in Ids : pc[t] \in {"record"} \cup Checking => t \in slots

\* Every collected pair was suspected by the static analysis and was met: two
\* different threads have accessed one (hashed) address through it, one writing.
PairsSound ==
    \A p \in pairs :
        p \in RCPairs /\ \E t, u \in Ids : t # u /\
            \E a \in mem[t], b \in mem[u] : Matches(a, b) /\ p = {a.inst, b.inst}

Settled(t, a) == pc[t] \in Checking => Current(t) # a

\* No suspected pair that was met is lost, in whatever order the two threads
\* record, scan and update the shared groups: once both accesses are dealt with
\* the pair is collected.  The exception is a pair of which one access was on
\* record, in a slot in use, when the scan for the other one gave up at the empty
\* slot of a thread still being created (DCIRTL.h:338 and :346).
PairsComplete ==
    \A t, u \in Ids : t # u =>
        \A a \in mem[t], b \in mem[u] :
            Matches(a, b) /\ {a.inst, b.inst} \in RCPairs /\ Settled(t, a) /\ Settled(u, b)
                => \/ {a.inst, b.inst} \in pairs
                   \/ <<t, a, u, b>> \in passed \/ <<u, b, t, a>> \in passed

\* No thread takes its id before the one created last has its slot.
OrderlyCreation ==
    \A t, u \in Ids : {pc[t], pc[u]} \subseteq {"sync", "alloc"} => t = u

\* PairsComplete without the exception: true of the runs whose creations are
\* orderly (OrderlyCreationLosesNothing), false of others.
EveryAliasFound ==
    \A t, u \in Ids : t # u =>
        \A a \in mem[t], b \in mem[u] :
            Matches(a, b) /\ {a.inst, b.inst} \in RCPairs /\ Settled(t, a) /\ Settled(u, b)
                => {a.inst, b.inst} \in pairs

\* Completed intrinsics have recorded the memory they write in units of 4 bytes
\* and in units of 8 bytes, so that plain accesses of both sizes can meet them.
IntrinsicUnits ==
    \A t \in Ids : pc[t] = "idle" /\ call[t].fn \in {"memcpy", "memset"} =>
        \A k \in {2, 3}, off \in 0 .. call[t].size - 1 :
            off % 2^k = 0 =>
                Access("write", call[t].dst + off, k, call[t].instID) \in mem[t]

==============================================================================
