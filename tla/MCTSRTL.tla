------------------------------- MODULE MCTSRTL -------------------------------
(* Small programs for the scheduling detector.                              *)
EXTENDS TSRTL

\* A write, an overlapping read by another instruction, the second write of
\* which is the same instruction, and a read-and-write elsewhere.
W1  == [waddr |-> 1, wsize |-> 2, raddr |-> 0, rsize |-> 0, instID |-> 1, self |-> FALSE]
R2  == [waddr |-> 0, wsize |-> 0, raddr |-> 2, rsize |-> 1, instID |-> 2, self |-> FALSE]
C3  == [waddr |-> 3, wsize |-> 1, raddr |-> 1, rsize |-> 1, instID |-> 3, self |-> FALSE]
S1  == [waddr |-> 1, wsize |-> 2, raddr |-> 0, rsize |-> 0, instID |-> 1, self |-> TRUE]

WriteReadCopy == {W1, R2, C3}
WriteRead     == {W1, R2}
SelfOnly      == {S1}
==============================================================================
