-------------------------------- MODULE FutexMutex --------------------------------
(* The engine's three-state futex mutex (hegel-c/src/sys/sync.rs) over the      *)
(* platform's park/unpark pair (hegel-c/src/sys/unix.rs).  Every atomic         *)
(* operation on the lock word, the kernel's compare-and-sleep and the wake call *)
(* are steps of their own, so the steps of the threads interleave as they do on *)
(* real hardware.                                                               *)
EXTENDS Naturals

CONSTANT Threads

UNLOCKED  == 0      \* nobody holds the lock
LOCKED    == 1      \* held, and unlocking need not wake anyone
CONTENDED == 2      \* held, and unlocking must wake a waiter

(* Where a thread stands:
     "out"    it neither holds nor wants the lock
     "swap"   in lock_contended, about to swap(CONTENDED)
     "park"   the swap did not find UNLOCKED: about to enter park
     "asleep" sleeping inside park
     "held"   owns the MutexGuard
     "unpark" the swap of unlock found CONTENDED: about to call unpark        *)
PCs == {"out", "swap", "park", "asleep", "held", "unpark"}

VARIABLES
    word,       \* Mutex::state
    pc          \* pc[t] \in PCs

vars == <<word, pc>>

Init ==
    /\ word = UNLOCKED
    /\ pc = [t \in Threads |-> "out"]

-----------------------------------------------------------------------------
(* Faulty variants of the steps below; each breaks one of the properties.       *)

\* Takes the lock without comparing the word.
LockFastBlind(t) ==
    /\ pc[t] = "out"
    /\ word' = LOCKED
    /\ pc' = [pc EXCEPT ![t] = "held"]

\* Forgets the other sleepers when a woken thread obtains the lock.
ContendedForgets(t) ==
    /\ pc[t] = "swap"
    /\ word' = IF word = UNLOCKED THEN LOCKED ELSE CONTENDED
    /\ pc' = [pc EXCEPT ![t] = IF word = UNLOCKED THEN "held" ELSE "park"]

\* Takes LOCKED for "about to be free".
ContendedMisreads(t) ==
    /\ pc[t] = "swap"
    /\ word' = CONTENDED
    /\ pc' = [pc EXCEPT ![t] = IF word # CONTENDED THEN "held" ELSE "park"]

\* Never calls unpark.
UnlockSilent(t) ==
    /\ pc[t] = "held"
    /\ word' = UNLOCKED
    /\ pc' = [pc EXCEPT ![t] = "out"]

-----------------------------------------------------------------------------
\* lock(): the compare_exchange(UNLOCKED, LOCKED) of the fast path succeeds.
LockFast(t) ==
    /\ pc[t] = "out"
    /\ word = UNLOCKED
    /\ word' = LOCKED
    /\ pc' = [pc EXCEPT ![t] = "held"]

\* lock(): the compare_exchange fails and the thread enters lock_contended.
LockSlow(t) ==
    /\ pc[t] = "out"
    /\ word # UNLOCKED
    /\ pc' = [pc EXCEPT ![t] = "swap"]
    /\ UNCHANGED word

\* try_lock(): one compare_exchange; a failure returns None and changes nothing.
TryLock(t) ==
    /\ pc[t] = "out"
    /\ IF word = UNLOCKED
       THEN word' = LOCKED /\ pc' = [pc EXCEPT ![t] = "held"]
       ELSE UNCHANGED vars

\* lock_contended(): the swap of the loop condition.
ContendedSwap(t) ==
    /\ pc[t] = "swap"
    /\ word' = CONTENDED
    /\ pc' = [pc EXCEPT ![t] = IF word = UNLOCKED THEN "held" ELSE "park"]

\* park(): the kernel sleeps only while the word still is CONTENDED, and checks
\* that atomically with the enqueueing; otherwise the call returns at once.
Park(t) ==
    /\ pc[t] = "park"
    /\ pc' = [pc EXCEPT ![t] = IF word = CONTENDED THEN "asleep" ELSE "swap"]
    /\ UNCHANGED word

\* park() returns although nobody called unpark (a signal, or the platforms
\* whose park is a mere sched_yield).
SpuriousReturn(t) ==
    /\ pc[t] = "asleep"
    /\ pc' = [pc EXCEPT ![t] = "swap"]
    /\ UNCHANGED word

\* unlock(), from the guard's drop: the swap that releases the lock.
UnlockSwap(t) ==
    /\ pc[t] = "held"
    /\ word' = UNLOCKED
    /\ pc' = [pc EXCEPT ![t] = IF word = CONTENDED THEN "unpark" ELSE "out"]

\* unlock(): unpark wakes one thread asleep on the word, if there is one.
Unpark(t) ==
    /\ pc[t] = "unpark"
    /\ IF \E p \in Threads : pc[p] = "asleep"
       THEN \E p \in Threads :
              /\ pc[p] = "asleep"
              /\ pc' = [pc EXCEPT ![t] = "out", ![p] = "swap"]
       ELSE pc' = [pc EXCEPT ![t] = "out"]
    /\ UNCHANGED word

Next ==
    \E t \in Threads :
        \/ LockFast(t)
        \/ LockSlow(t)
        \/ TryLock(t)
        \/ ContendedSwap(t)
        \/ Park(t)
        \/ SpuriousReturn(t)
        \/ UnlockSwap(t)
        \/ Unpark(t)

(* A thread inside lock or unlock keeps running, and the guard is eventually    *)
(* dropped.  Nothing obliges a thread to ask for the lock, and no spurious      *)
(* return is ever promised.                                                     *)
Fairness ==
    \A t \in Threads :
        /\ WF_vars(ContendedSwap(t))
        /\ WF_vars(Park(t))
        /\ WF_vars(UnlockSwap(t))
        /\ WF_vars(Unpark(t))

Spec == Init /\ [][Next]_vars

FairSpec == Spec /\ Fairness

-----------------------------------------------------------------------------
TypeOK ==
    /\ word \in {UNLOCKED, LOCKED, CONTENDED}
    /\ pc \in [Threads -> PCs]

Waiting(t) == pc[t] \in {"swap", "park", "asleep"}

\* At most one thread owns a guard, and while one does the word is not UNLOCKED
\* (so neither compare_exchange can hand out a second guard).
MutualExclusion ==
    /\ \A s, t \in Threads : pc[s] = "held" /\ pc[t] = "held" => s = t
    /\ (word = UNLOCKED) <=> (\A t \in Threads : pc[t] # "held")

\* A thread asleep in park is never stranded: the word still says CONTENDED, so
\* the holder's unlock will call unpark, or some other thread is already past
\* the point where it must call unpark or go back to the swap.
NoLostWakeup ==
    (\E t \in Threads : pc[t] = "asleep")
        => \/ word = CONTENDED
           \/ \E t \in Threads : pc[t] \in {"swap", "park", "unpark"}

\* The lock is never left free with everybody asleep: whenever a thread waits
\* for the lock, some thread obtains it.
SomeoneGetsIn ==
    (\E t \in Threads : Waiting(t)) ~> (\E t \in Threads : pc[t] = "held")

\* The guard an observer sees: the set of threads that hold it.
Abstract == INSTANCE AbstractLock WITH
                holders <- {t \in Threads : pc[t] = "held"}

\* The futex lock implements the abstract lock: every step hands the guard to
\* one thread while nobody holds it, takes it back from its holder, or leaves
\* the holders alone.
ImplementsLock == Abstract!Spec
=============================================================================
