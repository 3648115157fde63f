----------------------------- MODULE Idempotency -----------------------------
(***************************************************************************)
(* Idempotency-Key handling of the write routes: the rows of               *)
(* idempotency_records and the requests that reserve, complete and release *)
(* them (IdempotencyService, api/idempotency.py and the routes).           *)
(*                                                                         *)
(* A request is one HTTP request; a client's retry is another request with *)
(* the same key and payload.  A request creates at most one record, which  *)
(* is known by the request that created it.  The model is of one           *)
(* workspace; a key stands for an operation scope and a key together.      *)
(***************************************************************************)
EXTENDS Naturals

CONSTANTS
    Keys,          \* Idempotency-Key values
    Payloads,      \* request bodies, by their hash
    Requests,      \* HTTP requests that carry a key
    NoRequest,     \* no record; no answer
    NoPayload,     \* the request_hash of no record
    OutliveTTL     \* may a request take longer than ttl_seconds?

ASSUME IdempotencyConstants ==
    /\ NoRequest \notin Requests
    /\ NoPayload \notin Payloads
    /\ OutliveTTL \in BOOLEAN

VARIABLES
    record,   \* the idempotency_records row of each key
    body,     \* the key and the payload of each request
    stage,    \* what each request is doing
    deleted,  \* the expired rows the transaction of each request deletes
    applied,  \* requests whose domain write is committed
    answer    \* the request whose response each request was answered with

vars == <<record, body, stage, deleted, applied, answer>>

Body == [key : Keys, payload : Payloads]

RecordState == {"none", "processing", "completed"}
Record == [state : RecordState, owner : Requests \cup {NoRequest},
           payload : Payloads \cup {NoPayload}, expired : BOOLEAN]
Row(state, owner, payload, expired) ==
    [state |-> state, owner |-> owner, payload |-> payload, expired |-> expired]
NoRecord == Row("none", NoRequest, NoPayload, FALSE)

Stage == {"new", "reserving", "clashed", "executing", "completing", "responding",
          "failing", "answered", "refused", "failed", "lost"}

Key(r) == body[r].key

Init ==
    /\ body \in [Requests -> Body]
    /\ record = [k \in Keys |-> NoRecord]
    /\ stage = [r \in Requests |-> "new"]
    /\ deleted = [r \in Requests |-> {}]
    /\ applied = {}
    /\ answer = [r \in Requests |-> NoRequest]

To(r, s) == stage' = [stage EXCEPT ![r] = s]

\* A row is locked from the DELETE of one transaction until its commit.
Locked(r, k) == \E q \in Requests \ {r} : k \in deleted[q]

----------------------------------------------------------------------------
\* start: reserving the key.

Present(k) == record[k].state # "none"
Expired(k) == Present(k) /\ record[k].expired

\* _existing_context replays a completed record of the same request body.
Replayable(row, payload) == row.payload = payload /\ row.state = "completed"

\* ... and otherwise raises IdempotencyConflictError or -InProgressError.
Existing(r) ==
    LET row == record[Key(r)]
    IN
    IF Replayable(row, body[r].payload)
    THEN /\ answer' = [answer EXCEPT ![r] = row.owner]
         /\ To(r, "answered")
    ELSE /\ UNCHANGED answer
         /\ To(r, "refused")

\* The rows the DELETE of start finds expired, whatever their key is.
Purged == {k \in Keys : Expired(k)}

\* DELETE of the expired rows and SELECT of the key, in one transaction; a request
\* that finds a record is over and its DELETE is rolled back.
StartRead(r) ==
    /\ stage[r] = "new"
    /\ \A k \in Purged : ~Locked(r, k)
    /\ IF Present(Key(r)) /\ Key(r) \notin Purged
       THEN Existing(r) /\ UNCHANGED deleted
       ELSE /\ To(r, "reserving")
            /\ deleted' = [deleted EXCEPT ![r] = Purged]
            /\ UNCHANGED answer
    /\ UNCHANGED <<record, body, applied>>

\* The constraint on workspace, scope and key.
Taken(r) == Present(Key(r)) /\ Key(r) \notin deleted[r]

\* The INSERT is committed together with the DELETE ...
Reserve(r) ==
    /\ stage[r] = "reserving"
    /\ ~Locked(r, Key(r))
    /\ ~Taken(r)
    /\ record' = [k \in Keys |->
         IF k = Key(r) THEN Row("processing", r, body[r].payload, FALSE)
         ELSE IF k \in deleted[r] THEN NoRecord ELSE record[k]]
    /\ deleted' = [deleted EXCEPT ![r] = {}]
    /\ To(r, "executing")
    /\ UNCHANGED <<body, applied, answer>>

\* ... or fails and is rolled back with it.
ReserveClash(r) ==
    /\ stage[r] = "reserving"
    /\ ~Locked(r, Key(r))
    /\ Taken(r)
    /\ deleted' = [deleted EXCEPT ![r] = {}]
    /\ To(r, "clashed")
    /\ UNCHANGED <<record, body, applied, answer>>

\* After IntegrityError the record is read again; it may be gone by now.
Reread(r) ==
    /\ stage[r] = "clashed"
    /\ IF Present(Key(r)) THEN Existing(r)
       ELSE To(r, "failed") /\ UNCHANGED answer
    /\ UNCHANGED <<record, body, deleted, applied>>

----------------------------------------------------------------------------
\* The route: the domain write, complete, the commit and the response.

Owns(r) == record[Key(r)].owner = r

\* Mutant: the service commits its write before the snapshot is stored.
CommittedEarly_Always(r) == {r}

\* commit=context is None: with a key the service leaves the commit to the route.
CommittedEarly(r) == {}

\* complete finds its record by id, still processing.
Completable(r) == Owns(r) /\ record[Key(r)].state = "processing"

\* The domain service has written into the session.
Execute(r) ==
    /\ stage[r] = "executing"
    /\ To(r, IF Completable(r) THEN "completing" ELSE "failing")
    /\ applied' = applied \cup CommittedEarly(r)
    /\ UNCHANGED <<record, body, deleted, answer>>

\* The UPDATE finds the row it read, or the session raises StaleDataError and
\* nothing of the transaction is kept.

Complete(r) ==
    /\ stage[r] = "completing"
    /\ ~Locked(r, Key(r))
    /\ IF Owns(r)
       THEN /\ record' = [record EXCEPT ![Key(r)] =
                 Row("completed", r, @.payload, @.expired)]
            /\ applied' = applied \cup {r}
            /\ To(r, "responding")
       ELSE UNCHANGED <<record, applied>> /\ To(r, "failing")
    /\ UNCHANGED <<body, deleted, answer>>

\* dispatch_ingestion_job where the route has it, and the response.
Respond(r) ==
    /\ stage[r] = "responding"
    /\ answer' = [answer EXCEPT ![r] = r]
    /\ To(r, "answered")
    /\ UNCHANGED <<record, body, deleted, applied>>

\* The domain service or the dispatch raises.
Raise(r) ==
    /\ stage[r] \in {"executing", "completing", "responding"}
    /\ To(r, "failing")
    /\ UNCHANGED <<record, body, deleted, applied, answer>>

\* Mutant: release deletes a record that is completed as well.
Released_Any(r) == Owns(r)

\* release deletes the record of the request while it is processing.
Released(r) == Owns(r) /\ record[Key(r)].state = "processing"

Release(r) ==
    /\ stage[r] = "failing"
    /\ ~Locked(r, Key(r))
    /\ record' = [record EXCEPT ![Key(r)] = IF Released(r) THEN NoRecord ELSE @]
    /\ To(r, "failed")
    /\ UNCHANGED <<body, deleted, applied, answer>>

----------------------------------------------------------------------------
Active(r) == stage[r] \notin {"new", "answered", "refused", "failed", "lost"}

\* The process, the connection or the rollback inside release is lost.
Crash(r) ==
    /\ Active(r)
    /\ To(r, "lost")
    /\ deleted' = [deleted EXCEPT ![r] = {}]
    /\ UNCHANGED <<record, body, applied, answer>>

\* ttl_seconds after the reservation.
Expire(k) ==
    /\ Present(k)
    /\ ~record[k].expired
    /\ OutliveTTL \/ ~Active(record[k].owner)
    /\ record' = [record EXCEPT ![k] = Row(@.state, @.owner, @.payload, TRUE)]
    /\ UNCHANGED <<body, stage, deleted, applied, answer>>

Handle(r) ==
    \/ StartRead(r) \/ Reserve(r) \/ ReserveClash(r) \/ Reread(r)
    \/ Execute(r) \/ Complete(r) \/ Respond(r) \/ Raise(r) \/ Release(r)

Next ==
    \/ \E r \in Requests : Handle(r) \/ Crash(r)
    \/ \E k \in Keys : Expire(k)

Spec == Init /\ [][Next]_vars

----------------------------------------------------------------------------
(* Properties                                                              *)

\* Records, requests and answers have their shapes.
TypeOK ==
    /\ record \in [Keys -> Record]
    /\ body \in [Requests -> Body]
    /\ stage \in [Requests -> Stage]
    /\ deleted \in [Requests -> SUBSET Keys]
    /\ applied \in SUBSET Requests
    /\ answer \in [Requests -> Requests \cup {NoRequest}]

\* A record belongs to a request with its key and body, which is past reserving it.
RecordsAreOwned ==
    \A k \in Keys :
        /\ Present(k) =>
             /\ record[k].owner \in Requests
             /\ body[record[k].owner] = [key |-> k, payload |-> record[k].payload]
        /\ ~Present(k) => record[k].owner = NoRequest

\* The snapshot and the write are committed together: a completed record means an
\* applied write, and as long as a record is processing nothing is applied
\* (complete_idempotent_request commits both, commit=context is None).
CompletedIffApplied ==
    \A k \in Keys : Present(k) =>
        (record[k].state = "completed" <=> record[k].owner \in applied)

\* A processing record has a request that will complete or release it, unless that
\* request died: no failure leaves the key blocked (docstring of release).
NoOrphanedReservation ==
    \A k \in Keys : record[k].state = "processing" =>
        stage[record[k].owner] \in {"executing", "completing", "failing", "lost"}

\* A request is answered with the response of an applied write of the same body.
AnswersAreApplied ==
    \A r \in Requests : answer[r] # NoRequest =>
        answer[r] \in applied /\ body[answer[r]] = body[r]

\* A request whose write is applied is never told that it was refused.
RefusedIsNotApplied ==
    \A r \in Requests : stage[r] \in {"new", "reserving", "clashed", "executing",
                                      "completing", "refused"} => r \notin applied

\* A purge deletes only what has expired, and the transactions that purge never
\* wait for each other in a circle: at most one of them holds row locks.
DeletionsAreExpired ==
    /\ \A r \in Requests : \A k \in deleted[r] : Expired(k) /\ stage[r] = "reserving"
    /\ \A r, q \in Requests : deleted[r] # {} /\ deleted[q] # {} => r = q

\* Who has no answer yet, and who may not have one.
Unanswered ==
    \A r \in Requests : answer[r] # NoRequest <=> stage[r] = "answered"

\* The write of a request that responds is in the database.
RespondingIsApplied ==
    \A r \in Requests : stage[r] = "responding" => r \in applied

\* A request owns a record only after it has reserved the key.
OwnersHaveReserved ==
    \A k \in Keys : Present(k) =>
        stage[record[k].owner] \notin {"new", "reserving", "clashed", "refused"}

\* All of the above: the inductive invariant.
IdempotencyInv ==
    /\ TypeOK /\ RecordsAreOwned /\ CompletedIffApplied /\ NoOrphanedReservation
    /\ AnswersAreApplied /\ RefusedIsNotApplied /\ DeletionsAreExpired
    /\ Unanswered /\ RespondingIsApplied /\ OwnersHaveReserved

\* A key remembers the write of its completed record, and may be forgotten once the
\* record has expired.
Promise == INSTANCE OncePerKey WITH
    memory <- [k \in Keys |-> IF record[k].state = "completed" THEN record[k].owner
                              ELSE NoRequest],
    old <- [k \in Keys |-> record[k].expired]

\* Each key behaves as OncePerKey promises: between two forgettings one write is
\* applied, and every answer is the response of an applied write of the same body.
ImplementsPromise == Promise!Spec

=============================================================================
