------------------------------ MODULE MCDCIRTL -------------------------------
(* A small program for the alias checker.                                   *)
EXTENDS DCIRTL

Word(fn, addr, k, inst) ==
    [fn |-> fn, dst |-> addr, src |-> 0, size |-> 0, ksize |-> k, instID |-> inst]

\* A write and a read of one word, by different instructions.
Store == Word("write", 8, 2, 1)
Load  == Word("read", 8, 2, 2)

\* A read that only shares the 14 recorded address bits with them.
FarLoad == Word("read", 8 + 2^14, 2, 1)

\* A copy of 8 bytes, and the 8-byte read that meets it.
Copy     == [fn |-> "memcpy", dst |-> 8, src |-> 32, size |-> 8, ksize |-> 0, instID |-> 1]
LongLoad == Word("read", 8, 3, 2)

\* What main and the threads that take the ids 1 and 2 do; main does it twice.
Calls ==
    [t \in Ids |->
        CASE t = 0 -> {Store, Load}
          [] t = 1 -> {Load, Copy}
          [] OTHER -> {Store, FarLoad, LongLoad}]
CallsEach == [t \in Ids |-> IF t = 0 THEN 2 ELSE 1]

Suspects == {{1, 2}, {1}}
==============================================================================
