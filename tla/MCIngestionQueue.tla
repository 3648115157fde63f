-------------------------- MODULE MCIngestionQueue --------------------------
EXTENDS IngestionQueue, TLC

CONSTANTS d1, d2, c1, c2, w1, w2, s1, s2

NoWorkers == {}
OneWorker == {w1}
TwoWorkers == {w1, w2}
TwoSlots == {s1, s2}

\* One worker process with a pool of two threads.
PoolOwner == s1 :> w1 @@ s2 :> w1
\* Two worker processes with one thread each.
RivalOwner == s1 :> w1 @@ s2 :> w2
\* No polling worker: two background tasks of the API process.
TaskOwner == s1 :> Background @@ s2 :> Background
=============================================================================
