------------------------------ MODULE RateLimit ------------------------------
(***************************************************************************)
(* The fixed-window quota of one identity and scope (core/rate_limit.py),  *)
(* which the middleware asks for before every request: a Redis counter of  *)
(* all processes, and behind it a counter in the memory of each process.   *)
(*                                                                         *)
(* The middleware calls check on the event loop, so a process is in one    *)
(* check at a time; it may be stopped between any two steps of it.  The    *)
(* clocks of the processes agree and do not run backwards, and Redis keeps *)
(* a key until it expires.                                                 *)
(***************************************************************************)
EXTENDS Integers, FiniteSets

CONSTANTS
    Servers,     \* the processes; one that starts again is another
    Limit,       \* requests allowed in a window
    MaxWindow,   \* bound: windows that pass
    MaxHits      \* bound: requests of the identity

ASSUME RateLimitAssumption ==
    /\ IsFiniteSet(Servers) /\ "redis" \notin Servers
    /\ {Limit, MaxWindow, MaxHits} \subseteq Nat \ {0}

VARIABLES
    window,    \* the current window
    hits,      \* requests so far
    check,     \* process -> its place in check and the window of the clock it read
    primary,   \* process -> does it still use Redis?
    shared,    \* window -> the Redis counter, 0 when there is no key
    lasting,   \* windows whose Redis counter has no expiry
    buckets,   \* process -> window -> the counter in memory, 0 when there is none
    admitted   \* window -> backend -> requests let through

limitVars == <<window, hits, check, primary, shared, lasting, buckets, admitted>>

Windows == 1 .. MaxWindow
Backends == Servers \cup {"redis"}

RateLimitInit ==
    /\ window = 1
    /\ hits = 0
    /\ check = [s \in Servers |-> [step |-> "idle", at |-> 1]]
    /\ primary \in [Servers -> BOOLEAN]
    /\ shared = [w \in Windows |-> 0]
    /\ lasting = {}
    /\ buckets = [s \in Servers |-> [w \in Windows |-> 0]]
    /\ admitted = [w \in Windows |-> [b \in Backends |-> 0]]

NextWindow ==
    /\ window < MaxWindow
    /\ window' = window + 1
    /\ UNCHANGED <<hits, check, primary, shared, lasting, buckets, admitted>>

\* The clock, and whether Redis is still asked.
ReadClock(s) ==
    /\ check[s].step = "idle"
    /\ hits < MaxHits
    /\ hits' = hits + 1
    /\ check' = [check EXCEPT ![s] = [at |-> window,
                   step |-> IF primary[s] THEN "asking" ELSE "fallback"]]
    /\ UNCHANGED <<window, primary, shared, lasting, buckets, admitted>>

Allowed(count) == count <= Limit

Decided(s, backend, count) ==
    /\ check' = [check EXCEPT ![s].step = "idle"]
    /\ admitted' = IF Allowed(count)
                   THEN [admitted EXCEPT ![check[s].at][backend] = @ + 1] ELSE admitted

\* INCR, which makes a key that is not there, without an expiry.
Incremented(w) ==
    /\ shared' = [shared EXCEPT ![w] = @ + 1]
    /\ lasting' = IF shared[w] = 0 THEN lasting \cup {w} ELSE lasting

\* INCR; the first count of a key is followed by EXPIRE.
CountShared(s) ==
    LET w == check[s].at
    IN
    /\ check[s].step = "asking"
    /\ Incremented(w)
    /\ IF shared[w] = 0
       THEN check' = [check EXCEPT ![s].step = "counted"] /\ UNCHANGED admitted
       ELSE Decided(s, "redis", shared[w] + 1)
    /\ UNCHANGED <<window, hits, primary, buckets>>

SetExpiry(s) ==
    /\ check[s].step = "counted"
    /\ lasting' = lasting \ {check[s].at}
    /\ Decided(s, "redis", 1)
    /\ UNCHANGED <<window, hits, primary, shared, buckets>>

\* Mutant: the whole seconds left of the window are not rounded up.
MayExpire_Truncated(w) == window >= w

\* EXPIRE(retry_after + 1): the key outlives its window.
MayExpire(w) == window > w

ExpireKey(w) ==
    /\ shared[w] > 0 /\ w \notin lasting
    /\ MayExpire(w)
    /\ shared' = [shared EXCEPT ![w] = 0]
    /\ UNCHANGED <<window, hits, check, primary, lasting, buckets, admitted>>

\* Redis raises, before or after it did what it was asked: the process never asks it
\* again, and this request is counted in memory as well.
DisablePrimary(s) ==
    /\ \/ check[s].step \in {"asking", "counted"} /\ UNCHANGED <<shared, lasting>>
       \/ check[s].step = "asking" /\ Incremented(check[s].at)
       \/ check[s].step = "counted" /\ lasting' = lasting \ {check[s].at} /\ UNCHANGED shared
    /\ primary' = [primary EXCEPT ![s] = FALSE]
    /\ check' = [check EXCEPT ![s].step = "fallback"]
    /\ UNCHANGED <<window, hits, buckets, admitted>>

\* The buckets of the window and of the one before it stay.
Kept(w) == {v \in Windows : v >= w - 1}

CountInMemory(s) ==
    LET w == check[s].at
    IN
    /\ check[s].step = "fallback"
    /\ buckets' = [buckets EXCEPT ![s] = [v \in Windows |->
          IF v = w THEN @[w] + 1 ELSE IF v \in Kept(w) THEN @[v] ELSE 0]]
    /\ Decided(s, s, buckets[s][w] + 1)
    /\ UNCHANGED <<window, hits, primary, shared, lasting>>

RateLimitNext ==
    \/ NextWindow
    \/ \E s \in Servers : \/ ReadClock(s) \/ CountShared(s) \/ SetExpiry(s)
                          \/ DisablePrimary(s) \/ CountInMemory(s)
    \/ \E w \in Windows : ExpireKey(w)

RateLimitSpec == RateLimitInit /\ [][RateLimitNext]_limitVars

----------------------------------------------------------------------------
(* Properties                                                              *)

\* While a window lasts, Redis lets through at most the limit for all processes
\* together, failures in the middle of a count included.  A process that read the
\* clock in time and counts when the key is gone starts a new key and is let
\* through: that happens at most once per process.  What a process counts in memory
\* never goes over the limit (FallbackRateLimiter).
QuotaKept ==
    \A w \in Windows :
        /\ window <= w => admitted[w]["redis"] <= Limit
        /\ admitted[w]["redis"] <= Limit + Cardinality(Servers)
        /\ \A s \in Servers : admitted[w][s] <= Limit
=============================================================================
