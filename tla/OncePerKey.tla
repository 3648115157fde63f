----------------------------- MODULE OncePerKey -----------------------------
(***************************************************************************)
(* What an Idempotency-Key promises (docs/03-api-specification.md, section *)
(* 1): while the service remembers a key, at most one request with it has  *)
(* its write applied, and every other request with the same body that is   *)
(* answered is answered with that one's response.  A key is forgotten only *)
(* once it is old.                                                         *)
(***************************************************************************)
CONSTANTS Keys, Requests, NoRequest

VARIABLES
    body,     \* key and payload of each request
    memory,   \* the request whose write each key remembers
    old,      \* may the key be forgotten?
    applied,  \* the requests whose write is in the database
    answer    \* the request whose response each request was answered with

vars == <<body, memory, old, applied, answer>>

Init ==
    /\ memory = [k \in Keys |-> NoRequest]
    /\ old = [k \in Keys |-> FALSE]
    /\ applied = {}
    /\ answer = [r \in Requests |-> NoRequest]

Apply(r) ==
    /\ r \notin applied
    /\ memory[body[r].key] = NoRequest
    /\ memory' = [memory EXCEPT ![body[r].key] = r]
    /\ applied' = applied \cup {r}
    /\ UNCHANGED <<old, answer>>

Answer(r, q) ==
    /\ answer[r] = NoRequest
    /\ q \in applied
    /\ body[q] = body[r]
    /\ q = r \/ memory[body[r].key] = q
    /\ answer' = [answer EXCEPT ![r] = q]
    /\ UNCHANGED <<memory, old, applied>>

\* Keys grow old one at a time, are forgotten several at a time, and one that is
\* reserved again is young again.
Age(k) ==
    /\ old' = [old EXCEPT ![k] = TRUE]
    /\ UNCHANGED <<memory, applied, answer>>

Forget(ks) ==
    /\ \A k \in ks : old[k] \/ memory[k] = NoRequest
    /\ memory' = [k \in Keys |-> IF k \in ks THEN NoRequest ELSE memory[k]]
    /\ old' = [k \in Keys |-> IF k \in ks THEN FALSE ELSE old[k]]
    /\ UNCHANGED <<applied, answer>>

Next ==
    /\ UNCHANGED body
    /\ \/ \E r \in Requests : Apply(r) \/ \E q \in Requests : Answer(r, q)
       \/ \E k \in Keys : Age(k)
       \/ \E ks \in SUBSET Keys : Forget(ks)

Spec == Init /\ [][Next]_vars

=============================================================================
