---------------------------- MODULE JobLifecycle ----------------------------
(***************************************************************************)
(* What the ingestion queue promises for each job, whatever workers, slots *)
(* and transactions implement it: a job is held by at most one owner at a  *)
(* time, an attempt is counted once, it goes back to the queue only while  *)
(* attempts are left, and it ends in success or, with every attempt used,  *)
(* in dead_letter (docstring of workers/polling.py).                       *)
(***************************************************************************)
EXTENDS Naturals

CONSTANTS Jobs, Owners, NoOwner, MaxAttempts

VARIABLES stage, owner, tries

vars == <<stage, owner, tries>>

Init ==
    /\ stage = [j \in Jobs |-> "absent"]
    /\ owner = [j \in Jobs |-> NoOwner]
    /\ tries = [j \in Jobs |-> 0]

Submit(j) ==
    /\ stage[j] = "absent"
    /\ stage' = [stage EXCEPT ![j] = "waiting"]
    /\ UNCHANGED <<owner, tries>>

Take(j, w) ==
    /\ stage[j] = "waiting"
    /\ tries[j] < MaxAttempts
    /\ stage' = [stage EXCEPT ![j] = "taken"]
    /\ owner' = [owner EXCEPT ![j] = w]
    /\ UNCHANGED tries

Begin(j) ==
    /\ stage[j] = "taken"
    /\ stage' = [stage EXCEPT ![j] = "running"]
    /\ tries' = [tries EXCEPT ![j] = @ + 1]
    /\ UNCHANGED owner

\* A failed attempt, or owners that died before or during one: a reclaim takes
\* back every lease it finds expired in one transaction.
Return(js) ==
    /\ \A j \in js : stage[j] \in {"taken", "running"}
    /\ stage' = [j \in Jobs |->
         IF j \notin js THEN stage[j]
         ELSE IF tries[j] < MaxAttempts THEN "waiting" ELSE "dead_letter"]
    /\ owner' = [j \in Jobs |-> IF j \in js THEN NoOwner ELSE owner[j]]
    /\ UNCHANGED tries

Succeed(j) ==
    /\ stage[j] = "running"
    /\ stage' = [stage EXCEPT ![j] = "succeeded"]
    /\ owner' = [owner EXCEPT ![j] = NoOwner]
    /\ UNCHANGED tries

Next ==
    \/ \E j \in Jobs :
         \/ Submit(j) \/ Begin(j) \/ Succeed(j)
         \/ \E w \in Owners : Take(j, w)
    \/ \E js \in SUBSET Jobs : Return(js)

Spec == Init /\ [][Next]_vars

=============================================================================
