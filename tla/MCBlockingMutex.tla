--------------------------- MODULE MCBlockingMutex ---------------------------
(* Four threads: a holder, a sleeper, and two that arrive in between.       *)
EXTENDS BlockingMutex
==============================================================================
