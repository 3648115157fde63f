------------------------------ MODULE ModelGate ------------------------------
(***************************************************************************)
(* The gates every model call passes (core/model_resilience.py): a slot of *)
(* the workspace-wide Redis set, held under a lease, then a permit of the  *)
(* semaphore of the process, then the request with its retries.            *)
(*                                                                         *)
(* The clocks of the processes agree: a purge of one process finds expired *)
(* what another would.  A lease may end while its call is at work:         *)
(* _distributed_lease_seconds allows for every retry, but not for the wait *)
(* for the permit, nor for an answer that arrives in pieces, each within   *)
(* the timeout.                                                            *)
(***************************************************************************)
EXTENDS Integers, FiniteSets

CONSTANTS
    Calls,          \* model calls
    HomeOf,         \* call -> the process that makes it
    Streamed,       \* calls that stream: they take the permit only
    MaxConcurrency, \* model_max_concurrency, of Redis and of each process
    RetryAttempts,  \* model_retry_attempts
    RedisMayFail,   \* does Redis ever raise?
    MaxDeaths       \* bound: processes that die

Homes == {HomeOf[c] : c \in Calls}

ASSUME ModelGateAssumption ==
    /\ Streamed \subseteq Calls
    /\ MaxConcurrency \in Nat \ {0} /\ RetryAttempts \in Nat /\ MaxDeaths \in Nat
    /\ RedisMayFail \in BOOLEAN

VARIABLES
    call,    \* call -> where it is
    tries,   \* call -> requests made
    slots,   \* the tokens in the Redis set
    ended,   \* the tokens whose lease has ended
    outlived, \* history: the calls whose lease ended before they were over
    deaths   \* processes that have died

gateVars == <<call, tries, slots, ended, outlived, deaths>>

ModelGateInit ==
    /\ call = [c \in Calls |-> "new"]
    /\ tries = [c \in Calls |-> 0]
    /\ slots = {} /\ ended = {} /\ outlived = {}
    /\ deaths = 0

Moves(c, where) == call' = [call EXCEPT ![c] = where]

----------------------------------------------------------------------------
(* distributed_model_call_slot.                                            *)

\* Mutant: the limit itself is let in.
SlotFree_AtLimit(purged) == Cardinality(purged) <= MaxConcurrency

SlotFree(purged) == Cardinality(purged) < MaxConcurrency

\* The script purges what has expired, counts and adds in one step; a call polls it
\* until its deadline.
TakeSlot(c) ==
    LET purged == slots \ ended
    IN
    /\ call[c] = "new"
    /\ c \notin Streamed
    /\ SlotFree(purged)
    /\ slots' = purged \cup {c}
    /\ ended' = ended \cap slots'
    /\ Moves(c, "granted")
    /\ UNCHANGED <<tries, outlived, deaths>>

\* Polling purges too.
PollSlot(c) ==
    /\ call[c] = "new"
    /\ c \notin Streamed
    /\ ~SlotFree(slots \ ended)
    /\ slots \cap ended # {}
    /\ slots' = slots \ ended
    /\ ended' = {}
    /\ UNCHANGED <<call, tries, outlived, deaths>>

\* The deadline passes: ModelUnavailableError, and the caller degrades.
GiveUp(c) ==
    /\ call[c] \in {"new", "granted", "ungated"}
    /\ Moves(c, "over")
    /\ slots' = slots \ {c}
    /\ ended' = ended \ {c}
    /\ UNCHANGED <<tries, outlived, deaths>>

\* Redis raises: the call goes on with the gate of its process alone.
GoUngated(c) ==
    /\ call[c] = "new"
    /\ RedisMayFail \/ c \in Streamed
    /\ Moves(c, "ungated")
    /\ UNCHANGED <<tries, slots, ended, outlived, deaths>>

----------------------------------------------------------------------------
(* model_call_slot, and call_with_model_resilience.                        *)

Working == {c \in Calls : call[c] \in {"working", "working ungated"}}
WorkingIn(home) == {c \in Working : HomeOf[c] = home}

\* The BoundedSemaphore of the process.
StartWork(c) ==
    /\ call[c] \in {"granted", "ungated"}
    /\ Cardinality(WorkingIn(HomeOf[c])) < MaxConcurrency
    /\ Moves(c, IF call[c] = "granted" THEN "working" ELSE "working ungated")
    /\ tries' = [tries EXCEPT ![c] = 1]
    /\ UNCHANGED <<slots, ended, outlived, deaths>>

\* A timeout, a transport error, 408, 409, 429 or 5xx; the gates stay held.
Retry(c) ==
    /\ c \in Working \ Streamed
    /\ tries[c] <= RetryAttempts
    /\ tries' = [tries EXCEPT ![c] = @ + 1]
    /\ UNCHANGED <<call, slots, ended, outlived, deaths>>

\* The answer, or an error that is not retried or the last one; both gates open.
FinishCall(c) ==
    /\ c \in Working
    /\ Moves(c, "over")
    /\ slots' = slots \ {c}
    /\ ended' = ended \ {c}
    /\ UNCHANGED <<tries, outlived, deaths>>

\* zrem fails: the lease gives the slot back.
LoseRelease(c) ==
    /\ RedisMayFail
    /\ call[c] = "working"
    /\ Moves(c, "over")
    /\ UNCHANGED <<tries, slots, ended, outlived, deaths>>

----------------------------------------------------------------------------
(* Deaths and leases.                                                      *)

\* The process takes its calls and its semaphore with it, and leaves its slots.
DieWorking(home) ==
    /\ deaths < MaxDeaths
    /\ deaths' = deaths + 1
    /\ call' = [c \in Calls |-> IF HomeOf[c] = home /\ call[c] # "new" THEN "over" ELSE call[c]]
    /\ UNCHANGED <<tries, slots, ended, outlived>>

\* Mutant: the token is set without an expiry.
EndLease_NoLease(c) == c \in ended /\ UNCHANGED gateVars

EndLease(c) ==
    /\ c \in slots \ ended
    /\ ended' = ended \cup {c}
    /\ outlived' = IF call[c] = "over" THEN outlived ELSE outlived \cup {c}
    /\ UNCHANGED <<call, tries, slots, deaths>>

CallStep(c) == TakeSlot(c) \/ PollSlot(c) \/ GiveUp(c) \/ StartWork(c) \/ FinishCall(c)

ModelGateNext ==
    \/ \E c \in Calls : CallStep(c) \/ GoUngated(c) \/ Retry(c) \/ LoseRelease(c) \/ EndLease(c)
    \/ \E home \in Homes : DieWorking(home)

\* Time passes: leases end.
ModelGateFairness ==
    \A c \in Calls : WF_gateVars(CallStep(c)) /\ WF_gateVars(EndLease(c))

ModelGateSpec == ModelGateInit /\ [][ModelGateNext]_gateVars /\ ModelGateFairness

----------------------------------------------------------------------------
(* Properties                                                              *)

\* Over all processes, retries and deaths, no more calls than model_max_concurrency
\* work at once on slots of Redis, those whose lease ended too early not counted; and
\* all that work in one process, these, those without a slot (Redis down, streaming)
\* and those that outlived their lease, are no more either.
SlotsBounded ==
    /\ Cardinality({c \in Calls : call[c] = "working"} \ outlived) <= MaxConcurrency
    /\ \A home \in Homes : Cardinality(WorkingIn(home)) <= MaxConcurrency

\* No slot is taken for ever: whatever a process dies of, its slot is released or
\* its lease ends (RedisModelConcurrencyGate).
SlotsComeBack == \A c \in Calls : c \in slots ~> c \notin slots \/ c \in ended
=============================================================================
