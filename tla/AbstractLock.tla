------------------------------- MODULE AbstractLock -------------------------------
(* What sys::sync::Mutex promises its callers: the guard of a mutex is held by  *)
(* at most one thread at a time (the SAFETY comments on MutexGuard::deref), and *)
(* only the thread that holds it gives it back (the guard is not Send).         *)
CONSTANT Threads

VARIABLE holders    \* the threads that own a MutexGuard

Init == holders = {}

Acquire(t) == holders = {} /\ holders' = {t}

Release(t) == holders = {t} /\ holders' = {}

Next == \E t \in Threads : Acquire(t) \/ Release(t)

Spec == Init /\ [][Next]_holders
=============================================================================
