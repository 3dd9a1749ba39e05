SPECIFICATION FairSpec
CONSTANT Threads = {t1, t2, t3}
INVARIANT MutualExclusion
INVARIANT NoLostWakeup
PROPERTY ImplementsLock
PROPERTY SomeoneGetsIn
