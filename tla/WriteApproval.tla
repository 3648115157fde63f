---------------------------- MODULE WriteApproval ----------------------------
(***************************************************************************)
(* What the approval of agent writes promises: a proposal is decided once, *)
(* by approval, rejection or expiry, and its write to the knowledge base   *)
(* is carried out exactly when it is approved, once (docs/04-data-model.md *)
(* on change_proposals: the state leaves pending in one direction).        *)
(***************************************************************************)
EXTENDS Naturals

CONSTANT Proposals

VARIABLES state, writes

vars == <<state, writes>>

Init ==
    /\ state = [p \in Proposals |-> "none"]
    /\ writes = [p \in Proposals |-> 0]

Propose(p) ==
    /\ state[p] = "none"
    /\ state' = [state EXCEPT ![p] = "pending"]
    /\ UNCHANGED writes

Approve(p) ==
    /\ state[p] = "pending"
    /\ state' = [state EXCEPT ![p] = "approved"]
    /\ writes' = [writes EXCEPT ![p] = @ + 1]

Dismiss(p, outcome) ==
    /\ state[p] = "pending"
    /\ state' = [state EXCEPT ![p] = outcome]
    /\ UNCHANGED writes

Next ==
    \E p \in Proposals :
        \/ Propose(p)
        \/ Approve(p)
        \/ \E outcome \in {"rejected", "expired"} : Dismiss(p, outcome)

Spec == Init /\ [][Next]_vars

=============================================================================
