------------------------------- MODULE MCFutexMutex -------------------------------
(* FutexMutex for TLC: three threads, so that two can be asleep while a third   *)
(* holds the lock, and a thread can barge in between a wake-up and its swap.    *)
EXTENDS FutexMutex
=============================================================================
