-------------------------- MODULE IdempotencyProofs --------------------------
(***************************************************************************)
(* IdempotencyInv is inductive, and Idempotency implements OncePerKey, for *)
(* any number of keys, payloads and requests, whether or not a request may *)
(* outlive the record it has reserved.                                     *)
(***************************************************************************)
EXTENDS Idempotency, TLAPS

\* The fields of a record, and of no record.
LEMMA RowFields ==
  ASSUME NEW s, NEW o, NEW p, NEW e
  PROVE  /\ Row(s, o, p, e).state = s
         /\ Row(s, o, p, e).owner = o
         /\ Row(s, o, p, e).payload = p
         /\ Row(s, o, p, e).expired = e
BY DEF Row

\* A record built from values of its columns' types is a record.
LEMMA RowType ==
  ASSUME NEW s \in RecordState, NEW o \in Requests \cup {NoRequest},
         NEW p \in Payloads \cup {NoPayload}, NEW e \in BOOLEAN
  PROVE  Row(s, o, p, e) \in Record
BY DEF Row, Record

\* The absent record.
LEMMA NoRecordFields ==
  /\ NoRecord \in Record
  /\ NoRecord.state = "none"
  /\ NoRecord.owner = NoRequest
  /\ NoRecord.expired = FALSE
BY DEF NoRecord, Row, Record, RecordState

\* A request has a key and a payload.
LEMMA BodyFields ==
  ASSUME TypeOK, NEW r \in Requests
  PROVE  /\ Key(r) \in Keys
         /\ body[r].payload \in Payloads
         /\ body[r] = [key |-> Key(r), payload |-> body[r].payload]
BY DEF TypeOK, Body, Key

\* The columns of a record.
LEMMA RecordFields ==
  ASSUME TypeOK, NEW k \in Keys
  PROVE  /\ record[k].state \in RecordState
         /\ record[k].owner \in Requests \cup {NoRequest}
         /\ record[k].payload \in Payloads \cup {NoPayload}
         /\ record[k].expired \in BOOLEAN
BY DEF TypeOK, Record

\* Before the first request there is no record, no write and no answer.
LEMMA InitialInv == Init => IdempotencyInv
BY NoRecordFields
   DEF Init, IdempotencyInv, TypeOK, RecordsAreOwned, CompletedIffApplied,
   NoOrphanedReservation, AnswersAreApplied, RefusedIsNotApplied,
   DeletionsAreExpired, Unanswered, RespondingIsApplied, OwnersHaveReserved,
   Present, Expired, Stage, RecordState

\* The record of another key belongs to another request.
LEMMA OwnersDiffer ==
  ASSUME TypeOK, RecordsAreOwned, NEW r \in Requests, NEW k \in Keys \ {Key(r)}, Present(k)
  PROVE  record[k].owner \in Requests \ {r}
<1>1. record[k].owner \in Requests
  BY DEF RecordsAreOwned
<1>2. body[record[k].owner] = [key |-> k, payload |-> record[k].payload]
  BY DEF RecordsAreOwned
<1>. QED
  BY <1>1, <1>2 DEF Key

\* A request that meets a record is refused, or is answered with the response of
\* an applied write of the same body.
LEMMA ExistingOutcome ==
  ASSUME IdempotencyInv, NEW r \in Requests, Present(Key(r)), Existing(r)
  PROVE  \/ /\ answer' = answer
            /\ stage' = [stage EXCEPT ![r] = "refused"]
         \/ \E q \in applied : /\ body[q] = body[r]
                               /\ q = record[Key(r)].owner
                               /\ record[Key(r)].state = "completed"
                               /\ answer' = [answer EXCEPT ![r] = q]
                               /\ stage' = [stage EXCEPT ![r] = "answered"]
<1>1. /\ Key(r) \in Keys
      /\ body[r] = [key |-> Key(r), payload |-> body[r].payload]
  BY BodyFields DEF IdempotencyInv
<1>2. CASE Replayable(record[Key(r)], body[r].payload)
  <2>1. /\ record[Key(r)].state = "completed"
        /\ record[Key(r)].payload = body[r].payload
    BY <1>2 DEF Replayable
  <2>2. /\ record[Key(r)].owner \in applied
        /\ body[record[Key(r)].owner] = body[r]
    BY <1>1, <2>1 DEF IdempotencyInv, CompletedIffApplied, RecordsAreOwned
  <2>3. /\ answer' = [answer EXCEPT ![r] = record[Key(r)].owner]
        /\ stage' = [stage EXCEPT ![r] = "answered"]
    BY <1>2 DEF Existing, To
  <2>. QED
    BY <2>1, <2>2, <2>3
<1>3. CASE ~Replayable(record[Key(r)], body[r].payload)
  BY <1>3 DEF Existing, To
<1>. QED
  BY <1>2, <1>3

\* Being answered or refused at a record leaves the invariant as it is.
LEMMA ExistingStep ==
  ASSUME IdempotencyInv, NEW r \in Requests, Present(Key(r)), Existing(r),
         stage[r] \in {"new", "clashed"}, UNCHANGED <<record, body, deleted, applied>>
  PROVE  IdempotencyInv'
<1> USE DEF IdempotencyInv
<1>1. CASE answer' = answer /\ stage' = [stage EXCEPT ![r] = "refused"]
  <2>1. TypeOK'
    BY <1>1, IdempotencyConstants DEF TypeOK, Stage
  <2>2. RecordsAreOwned'
    BY <1>1, IdempotencyConstants DEF RecordsAreOwned, TypeOK, Present
  <2>3. CompletedIffApplied'
    BY <1>1, IdempotencyConstants
       DEF CompletedIffApplied, RecordsAreOwned, OwnersHaveReserved, TypeOK, Present
  <2>4. NoOrphanedReservation'
    BY <1>1, IdempotencyConstants
       DEF NoOrphanedReservation, RecordsAreOwned, OwnersHaveReserved, TypeOK,
           Present
  <2>5. AnswersAreApplied'
    BY <1>1, IdempotencyConstants DEF AnswersAreApplied, TypeOK
  <2>6. RefusedIsNotApplied'
    BY <1>1, IdempotencyConstants DEF RefusedIsNotApplied, TypeOK
  <2>7. DeletionsAreExpired'
    BY <1>1, IdempotencyConstants DEF DeletionsAreExpired, TypeOK, Expired, Present
  <2>8. Unanswered'
    BY <1>1, IdempotencyConstants DEF Unanswered, TypeOK
  <2>9. RespondingIsApplied'
    BY <1>1, IdempotencyConstants DEF RespondingIsApplied, TypeOK
  <2>10. OwnersHaveReserved'
    BY <1>1, IdempotencyConstants
       DEF OwnersHaveReserved, RecordsAreOwned, TypeOK, Present
  <2>. QED
    BY <2>1, <2>2, <2>3, <2>4, <2>5, <2>6, <2>7, <2>8, <2>9, <2>10
<1>2. ASSUME NEW q \in applied, body[q] = body[r],
             answer' = [answer EXCEPT ![r] = q],
             stage' = [stage EXCEPT ![r] = "answered"]
      PROVE  IdempotencyInv'
  <2>1. TypeOK'
    BY <1>2, IdempotencyConstants DEF TypeOK, Stage
  <2>2. RecordsAreOwned'
    BY <1>2, IdempotencyConstants DEF RecordsAreOwned, TypeOK, Present
  <2>3. CompletedIffApplied'
    BY <1>2, IdempotencyConstants
       DEF CompletedIffApplied, RecordsAreOwned, OwnersHaveReserved, TypeOK, Present
  <2>4. NoOrphanedReservation'
    BY <1>2, IdempotencyConstants
       DEF NoOrphanedReservation, RecordsAreOwned, OwnersHaveReserved, TypeOK,
           Present
  <2>5. AnswersAreApplied'
    BY <1>2, IdempotencyConstants DEF AnswersAreApplied, TypeOK
  <2>6. RefusedIsNotApplied'
    BY <1>2, IdempotencyConstants DEF RefusedIsNotApplied, TypeOK
  <2>7. DeletionsAreExpired'
    BY <1>2, IdempotencyConstants DEF DeletionsAreExpired, TypeOK, Expired, Present
  <2>8. Unanswered'
    BY <1>2, IdempotencyConstants DEF Unanswered, TypeOK
  <2>9. RespondingIsApplied'
    BY <1>2, IdempotencyConstants DEF RespondingIsApplied, TypeOK
  <2>10. OwnersHaveReserved'
    BY <1>2, IdempotencyConstants
       DEF OwnersHaveReserved, RecordsAreOwned, TypeOK, Present
  <2>. QED
    BY <2>1, <2>2, <2>3, <2>4, <2>5, <2>6, <2>7, <2>8, <2>9, <2>10
<1>. QED
  BY <1>1, <1>2, ExistingOutcome

\* A request that starts reads the records and leaves them as they are; its purge
\* finds only expired rows, and only when nobody else holds one of them.
LEMMA StartReadStep ==
  ASSUME IdempotencyInv, NEW r \in Requests, StartRead(r)
  PROVE  IdempotencyInv'
<1> USE DEF IdempotencyInv
<1>1. CASE Present(Key(r)) /\ Key(r) \notin Purged
  BY <1>1, ExistingStep DEF StartRead
<1>2. CASE ~(Present(Key(r)) /\ Key(r) \notin Purged)
  <2>1. /\ stage[r] = "new"
        /\ stage' = [stage EXCEPT ![r] = "reserving"]
        /\ deleted' = [deleted EXCEPT ![r] = Purged]
        /\ UNCHANGED <<record, body, applied, answer>>
    BY <1>2 DEF StartRead, To
  <2>2. /\ Purged = {k \in Keys : Expired(k)}
        /\ \A k \in Purged : ~Locked(r, k)
    BY DEF Purged, StartRead
  <2>3. Purged # {} => \A q \in Requests \ {r} : deleted[q] = {}
    <3> SUFFICES ASSUME NEW q \in Requests \ {r}, NEW k \in deleted[q]
                 PROVE  FALSE
      BY DEF TypeOK
    <3>. QED
      BY <2>2 DEF DeletionsAreExpired, TypeOK, Locked
  <2>4. TypeOK'
    BY <2>1, <2>2 DEF TypeOK, Stage
  <2>5. RecordsAreOwned'
    BY <2>1 DEF RecordsAreOwned, TypeOK, Present
  <2>6. CompletedIffApplied'
    BY <2>1
       DEF CompletedIffApplied, RecordsAreOwned, OwnersHaveReserved, TypeOK, Present
  <2>7. NoOrphanedReservation'
    BY <2>1
       DEF NoOrphanedReservation, RecordsAreOwned, OwnersHaveReserved, TypeOK,
           Present
  <2>8. AnswersAreApplied'
    BY <2>1 DEF AnswersAreApplied, TypeOK
  <2>9. RefusedIsNotApplied'
    BY <2>1 DEF RefusedIsNotApplied, TypeOK
  <2>10. DeletionsAreExpired'
    BY <2>1, <2>2, <2>3 DEF DeletionsAreExpired, TypeOK, Expired, Present
  <2>11. Unanswered'
    BY <2>1 DEF Unanswered, TypeOK
  <2>12. RespondingIsApplied'
    BY <2>1 DEF RespondingIsApplied, TypeOK
  <2>13. OwnersHaveReserved'
    BY <2>1 DEF OwnersHaveReserved, RecordsAreOwned, TypeOK, Present
  <2>. QED
    BY <2>4, <2>5, <2>6, <2>7, <2>8, <2>9, <2>10, <2>11, <2>12, <2>13
<1>. QED
  BY <1>1, <1>2

\* A failed INSERT is rolled back with the DELETE of its transaction.
LEMMA ReserveClashStep ==
  ASSUME IdempotencyInv, NEW r \in Requests, ReserveClash(r)
  PROVE  IdempotencyInv'
<1> USE DEF IdempotencyInv
<1>1. TypeOK'
  BY IdempotencyConstants DEF TypeOK, Stage, ReserveClash, To
<1>2. RecordsAreOwned'
  BY IdempotencyConstants DEF RecordsAreOwned, TypeOK, Present, ReserveClash, To
<1>3. CompletedIffApplied'
  BY IdempotencyConstants
     DEF CompletedIffApplied, RecordsAreOwned, OwnersHaveReserved, TypeOK, Present,
         ReserveClash, To
<1>4. NoOrphanedReservation'
  BY IdempotencyConstants
     DEF NoOrphanedReservation, RecordsAreOwned, OwnersHaveReserved, TypeOK,
         Present, ReserveClash, To
<1>5. AnswersAreApplied'
  BY IdempotencyConstants DEF AnswersAreApplied, TypeOK, ReserveClash, To
<1>6. RefusedIsNotApplied'
  BY IdempotencyConstants DEF RefusedIsNotApplied, TypeOK, ReserveClash, To
<1>7. DeletionsAreExpired'
  BY IdempotencyConstants
     DEF DeletionsAreExpired, TypeOK, Expired, Present, ReserveClash, To
<1>8. Unanswered'
  BY IdempotencyConstants DEF Unanswered, TypeOK, ReserveClash, To
<1>9. RespondingIsApplied'
  BY IdempotencyConstants DEF RespondingIsApplied, TypeOK, ReserveClash, To
<1>10. OwnersHaveReserved'
  BY IdempotencyConstants
     DEF OwnersHaveReserved, RecordsAreOwned, TypeOK, Present, ReserveClash, To
<1> QED
  BY <1>1, <1>2, <1>3, <1>4, <1>5, <1>6, <1>7, <1>8, <1>9, <1>10

\* Nothing of the domain write is committed before the snapshot.
LEMMA ExecuteStep ==
  ASSUME IdempotencyInv, NEW r \in Requests, Execute(r)
  PROVE  IdempotencyInv'
<1> USE DEF IdempotencyInv
<1>1. TypeOK'
  BY IdempotencyConstants DEF TypeOK, Stage, Execute, CommittedEarly, To
<1>2. RecordsAreOwned'
  BY IdempotencyConstants
     DEF RecordsAreOwned, TypeOK, Present, Execute, CommittedEarly, To
<1>3. CompletedIffApplied'
  BY IdempotencyConstants
     DEF CompletedIffApplied, RecordsAreOwned, OwnersHaveReserved, TypeOK, Present,
         Execute, CommittedEarly, To
<1>4. NoOrphanedReservation'
  BY IdempotencyConstants
     DEF NoOrphanedReservation, RecordsAreOwned, OwnersHaveReserved, TypeOK,
         Present, Completable, Owns, Execute, CommittedEarly, To
<1>5. AnswersAreApplied'
  BY IdempotencyConstants DEF AnswersAreApplied, TypeOK, Execute, CommittedEarly, To
<1>6. RefusedIsNotApplied'
  BY IdempotencyConstants
     DEF RefusedIsNotApplied, TypeOK, Execute, CommittedEarly, To
<1>7. DeletionsAreExpired'
  BY IdempotencyConstants
     DEF DeletionsAreExpired, TypeOK, Expired, Present, Execute, CommittedEarly, To
<1>8. Unanswered'
  BY IdempotencyConstants DEF Unanswered, TypeOK, Execute, CommittedEarly, To
<1>9. RespondingIsApplied'
  BY IdempotencyConstants
     DEF RespondingIsApplied, TypeOK, Execute, CommittedEarly, To
<1>10. OwnersHaveReserved'
  BY IdempotencyConstants
     DEF OwnersHaveReserved, RecordsAreOwned, TypeOK, Present, Execute,
         CommittedEarly, To
<1> QED
  BY <1>1, <1>2, <1>3, <1>4, <1>5, <1>6, <1>7, <1>8, <1>9, <1>10

\* The request that responds has committed its write.
LEMMA RespondStep ==
  ASSUME IdempotencyInv, NEW r \in Requests, Respond(r)
  PROVE  IdempotencyInv'
<1> USE DEF IdempotencyInv
<1>1. TypeOK'
  BY IdempotencyConstants DEF TypeOK, Stage, Respond, To
<1>2. RecordsAreOwned'
  BY IdempotencyConstants DEF RecordsAreOwned, TypeOK, Present, Respond, To
<1>3. CompletedIffApplied'
  BY IdempotencyConstants
     DEF CompletedIffApplied, RecordsAreOwned, OwnersHaveReserved, TypeOK, Present,
         Respond, To
<1>4. NoOrphanedReservation'
  BY IdempotencyConstants
     DEF NoOrphanedReservation, RecordsAreOwned, OwnersHaveReserved, TypeOK,
         Present, Respond, To
<1>5. AnswersAreApplied'
  BY IdempotencyConstants
     DEF AnswersAreApplied, TypeOK, RespondingIsApplied, Respond, To
<1>6. RefusedIsNotApplied'
  BY IdempotencyConstants DEF RefusedIsNotApplied, TypeOK, Respond, To
<1>7. DeletionsAreExpired'
  BY IdempotencyConstants
     DEF DeletionsAreExpired, TypeOK, Expired, Present, Respond, To
<1>8. Unanswered'
  BY IdempotencyConstants DEF Unanswered, TypeOK, Respond, To
<1>9. RespondingIsApplied'
  BY IdempotencyConstants DEF RespondingIsApplied, TypeOK, Respond, To
<1>10. OwnersHaveReserved'
  BY IdempotencyConstants
     DEF OwnersHaveReserved, RecordsAreOwned, TypeOK, Present, Respond, To
<1> QED
  BY <1>1, <1>2, <1>3, <1>4, <1>5, <1>6, <1>7, <1>8, <1>9, <1>10

\* An exception leaves the rows to release.
LEMMA RaiseStep ==
  ASSUME IdempotencyInv, NEW r \in Requests, Raise(r)
  PROVE  IdempotencyInv'
<1> USE DEF IdempotencyInv
<1>1. TypeOK'
  BY IdempotencyConstants DEF TypeOK, Stage, Raise, To
<1>2. RecordsAreOwned'
  BY IdempotencyConstants DEF RecordsAreOwned, TypeOK, Present, Raise, To
<1>3. CompletedIffApplied'
  BY IdempotencyConstants
     DEF CompletedIffApplied, RecordsAreOwned, OwnersHaveReserved, TypeOK, Present,
         Raise, To
<1>4. NoOrphanedReservation'
  BY IdempotencyConstants
     DEF NoOrphanedReservation, RecordsAreOwned, OwnersHaveReserved, TypeOK,
         Present, Raise, To
<1>5. AnswersAreApplied'
  BY IdempotencyConstants DEF AnswersAreApplied, TypeOK, Raise, To
<1>6. RefusedIsNotApplied'
  BY IdempotencyConstants DEF RefusedIsNotApplied, TypeOK, Raise, To
<1>7. DeletionsAreExpired'
  BY IdempotencyConstants
     DEF DeletionsAreExpired, TypeOK, Expired, Present, Raise, To
<1>8. Unanswered'
  BY IdempotencyConstants DEF Unanswered, TypeOK, Raise, To
<1>9. RespondingIsApplied'
  BY IdempotencyConstants DEF RespondingIsApplied, TypeOK, Raise, To
<1>10. OwnersHaveReserved'
  BY IdempotencyConstants
     DEF OwnersHaveReserved, RecordsAreOwned, TypeOK, Present, Raise, To
<1> QED
  BY <1>1, <1>2, <1>3, <1>4, <1>5, <1>6, <1>7, <1>8, <1>9, <1>10

\* A request that is lost leaves its record as it is.
LEMMA CrashStep ==
  ASSUME IdempotencyInv, NEW r \in Requests, Crash(r)
  PROVE  IdempotencyInv'
<1> USE DEF IdempotencyInv
<1>1. TypeOK'
  BY IdempotencyConstants DEF TypeOK, Stage, Crash, Active, To
<1>2. RecordsAreOwned'
  BY IdempotencyConstants DEF RecordsAreOwned, TypeOK, Present, Crash, Active, To
<1>3. CompletedIffApplied'
  BY IdempotencyConstants
     DEF CompletedIffApplied, RecordsAreOwned, OwnersHaveReserved, TypeOK, Present,
         Crash, Active, To
<1>4. NoOrphanedReservation'
  BY IdempotencyConstants
     DEF NoOrphanedReservation, RecordsAreOwned, OwnersHaveReserved, TypeOK,
         Present, Crash, Active, To
<1>5. AnswersAreApplied'
  BY IdempotencyConstants DEF AnswersAreApplied, TypeOK, Crash, Active, To
<1>6. RefusedIsNotApplied'
  BY IdempotencyConstants DEF RefusedIsNotApplied, TypeOK, Crash, Active, To
<1>7. DeletionsAreExpired'
  BY IdempotencyConstants
     DEF DeletionsAreExpired, TypeOK, Expired, Present, Crash, Active, To
<1>8. Unanswered'
  BY IdempotencyConstants DEF Unanswered, TypeOK, Crash, Active, To
<1>9. RespondingIsApplied'
  BY IdempotencyConstants DEF RespondingIsApplied, TypeOK, Crash, Active, To
<1>10. OwnersHaveReserved'
  BY IdempotencyConstants
     DEF OwnersHaveReserved, RecordsAreOwned, TypeOK, Present, Crash, Active, To
<1> QED
  BY <1>1, <1>2, <1>3, <1>4, <1>5, <1>6, <1>7, <1>8, <1>9, <1>10

\* The second look after a failed INSERT.
LEMMA RereadStep ==
  ASSUME IdempotencyInv, NEW r \in Requests, Reread(r)
  PROVE  IdempotencyInv'
<1> USE DEF IdempotencyInv
<1>1. CASE Present(Key(r))
  BY <1>1, ExistingStep DEF Reread
<1>2. CASE ~Present(Key(r))
  <2>1. /\ stage[r] = "clashed"
        /\ stage' = [stage EXCEPT ![r] = "failed"]
        /\ UNCHANGED <<record, body, deleted, applied, answer>>
    BY <1>2 DEF Reread, To
  <2>2. TypeOK'
    BY <2>1 DEF TypeOK, Stage
  <2>3. RecordsAreOwned'
    BY <2>1 DEF RecordsAreOwned, TypeOK, Present
  <2>4. CompletedIffApplied'
    BY <2>1
       DEF CompletedIffApplied, RecordsAreOwned, OwnersHaveReserved, TypeOK, Present
  <2>5. NoOrphanedReservation'
    BY <2>1
       DEF NoOrphanedReservation, RecordsAreOwned, OwnersHaveReserved, TypeOK,
           Present
  <2>6. AnswersAreApplied'
    BY <2>1 DEF AnswersAreApplied, TypeOK
  <2>7. RefusedIsNotApplied'
    BY <2>1 DEF RefusedIsNotApplied, TypeOK
  <2>8. DeletionsAreExpired'
    BY <2>1 DEF DeletionsAreExpired, TypeOK, Expired, Present
  <2>9. Unanswered'
    BY <2>1 DEF Unanswered, TypeOK
  <2>10. RespondingIsApplied'
    BY <2>1 DEF RespondingIsApplied, TypeOK
  <2>11. OwnersHaveReserved'
    BY <2>1 DEF OwnersHaveReserved, RecordsAreOwned, TypeOK, Present
  <2>. QED
    BY <2>2, <2>3, <2>4, <2>5, <2>6, <2>7, <2>8, <2>9, <2>10, <2>11
<1>. QED
  BY <1>1, <1>2

\* The request that reserves a key owns the record it inserts, and only records
\* that had expired are gone.
LEMMA ReserveStep ==
  ASSUME IdempotencyInv, NEW r \in Requests, Reserve(r)
  PROVE  IdempotencyInv'
<1> DEFINE K == Key(r)
<1> USE DEF IdempotencyInv
<1>1. /\ K \in Keys
      /\ body[r].payload \in Payloads
      /\ body[r] = [key |-> K, payload |-> body[r].payload]
  BY BodyFields
<1>2. /\ record' \in [Keys -> Record]
      /\ record'[K].state = "processing"
      /\ record'[K].owner = r
      /\ record'[K].payload = body[r].payload
      /\ record'[K].expired = FALSE
  <2> DEFINE new == Row("processing", r, body[r].payload, FALSE)
  <2>1. /\ new \in Record
        /\ new.state = "processing" /\ new.owner = r
        /\ new.payload = body[r].payload /\ new.expired = FALSE
    <3>1. new \in Record
      BY <1>1, RowType DEF RecordState
    <3>. QED
      BY <3>1 DEF Row
  <2> HIDE DEF new
  <2>2. record' = [k \in Keys |-> IF k = K THEN new
                      ELSE IF k \in deleted[r] THEN NoRecord ELSE record[k]]
    BY DEF Reserve, new
  <2>. QED
    BY <1>1, <2>1, <2>2, NoRecordFields DEF TypeOK
<1>3. \A k \in Keys \ {K} : record'[k] = record[k] \/ record'[k] = NoRecord
  BY <1>1 DEF Reserve
<1>4. /\ stage[r] = "reserving"
      /\ stage' = [stage EXCEPT ![r] = "executing"]
      /\ deleted' = [deleted EXCEPT ![r] = {}]
      /\ UNCHANGED <<body, applied, answer>>
  BY DEF Reserve, To
<1>5. TypeOK'
  BY <1>2, <1>4 DEF TypeOK, Stage
<1>6. RecordsAreOwned'
  BY <1>1, <1>2, <1>3, <1>4, NoRecordFields DEF RecordsAreOwned, Present
<1>7. r \notin applied
  BY <1>4 DEF RefusedIsNotApplied
<1>8. CompletedIffApplied'
  BY <1>2, <1>3, <1>4, <1>7, NoRecordFields DEF CompletedIffApplied, Present
<1>9. NoOrphanedReservation'
  <2> SUFFICES ASSUME NEW k \in Keys, (record[k].state)' = "processing"
               PROVE  (stage[record[k].owner] \in
                         {"executing", "completing", "failing", "lost"})'
    BY DEF NoOrphanedReservation
  <2>1. CASE k = K
    BY <2>1, <1>2, <1>4 DEF TypeOK
  <2>2. CASE k # K
    <3>1. record'[k] = record[k] /\ record[k].state = "processing"
      BY <2>2, <1>3, NoRecordFields
    <3>2. record[k].owner \in Requests \ {r}
      BY <3>1, <1>4 DEF RecordsAreOwned, OwnersHaveReserved, Present
    <3>. QED
      BY <3>1, <3>2, <1>4 DEF NoOrphanedReservation, TypeOK
  <2>. QED
    BY <2>1, <2>2
<1>10. AnswersAreApplied'
  BY <1>4 DEF AnswersAreApplied
<1>11. RefusedIsNotApplied'
  BY <1>4, <1>7 DEF RefusedIsNotApplied, TypeOK
<1>12. DeletionsAreExpired'
  <2> SUFFICES ASSUME NEW q \in Requests, deleted'[q] # {}
               PROVE  /\ \A k \in deleted[q] : k \in Keys /\ k # K
                      /\ q # r /\ deleted'[q] = deleted[q] /\ deleted[r] = {}
    <3>1. \A q \in Requests : \A k \in deleted[q] : Expired(k) /\ stage[q] = "reserving"
      BY DEF DeletionsAreExpired
    <3>2. \A k \in Keys \ {K} : deleted[r] = {} => record'[k] = record[k]
      BY DEF Reserve
    <3>. QED
      BY <3>1, <3>2, <1>4 DEF DeletionsAreExpired, TypeOK, Expired, Present
  <2>1. q # r /\ deleted'[q] = deleted[q]
    BY <1>4 DEF TypeOK
  <2>2. deleted[r] = {}
    BY <2>1 DEF DeletionsAreExpired
  <2>3. K \notin deleted[q]
    BY <2>1 DEF Reserve, Locked
  <2>. QED
    BY <2>1, <2>2, <2>3 DEF TypeOK
<1>13. Unanswered'
  BY <1>4 DEF Unanswered, TypeOK
<1>14. RespondingIsApplied'
  BY <1>4 DEF RespondingIsApplied, TypeOK
<1>15. OwnersHaveReserved'
  <2> SUFFICES ASSUME NEW k \in Keys, Present(k)'
               PROVE  (stage[record[k].owner] \notin
                         {"new", "reserving", "clashed", "refused"})'
    BY DEF OwnersHaveReserved
  <2>1. CASE k = K
    BY <2>1, <1>2, <1>4 DEF TypeOK
  <2>2. CASE k # K
    <3>1. record'[k] = record[k] /\ Present(k)
      BY <2>2, <1>3, NoRecordFields DEF Present
    <3>2. record[k].owner \in Requests \ {r}
      BY <3>1, <1>4 DEF RecordsAreOwned, OwnersHaveReserved
    <3>. QED
      BY <3>1, <3>2, <1>4 DEF OwnersHaveReserved, TypeOK
  <2>. QED
    BY <2>1, <2>2
<1> QED
  BY <1>5, <1>6, <1>8, <1>9, <1>10, <1>11, <1>12, <1>13, <1>14, <1>15

\* The snapshot is stored together with the write, in the record the request still
\* owns, or neither is.
LEMMA CompleteStep ==
  ASSUME IdempotencyInv, NEW r \in Requests, Complete(r)
  PROVE  IdempotencyInv'
<1> DEFINE K == Key(r)
<1> USE DEF IdempotencyInv
<1>1. CASE ~Owns(r)
  <2>1. /\ stage[r] = "completing"
        /\ stage' = [stage EXCEPT ![r] = "failing"]
        /\ UNCHANGED <<record, body, deleted, applied, answer>>
    BY <1>1 DEF Complete, To
  <2>2. TypeOK'
    BY <2>1 DEF TypeOK, Stage
  <2>3. RecordsAreOwned'
    BY <2>1 DEF RecordsAreOwned, TypeOK, Present
  <2>4. CompletedIffApplied'
    BY <2>1
       DEF CompletedIffApplied, RecordsAreOwned, OwnersHaveReserved, TypeOK, Present
  <2>5. NoOrphanedReservation'
    BY <2>1
       DEF NoOrphanedReservation, RecordsAreOwned, OwnersHaveReserved, TypeOK,
           Present
  <2>6. AnswersAreApplied'
    BY <2>1 DEF AnswersAreApplied, TypeOK
  <2>7. RefusedIsNotApplied'
    BY <2>1 DEF RefusedIsNotApplied, TypeOK
  <2>8. DeletionsAreExpired'
    BY <2>1 DEF DeletionsAreExpired, TypeOK, Expired, Present
  <2>9. Unanswered'
    BY <2>1 DEF Unanswered, TypeOK
  <2>10. RespondingIsApplied'
    BY <2>1 DEF RespondingIsApplied, TypeOK
  <2>11. OwnersHaveReserved'
    BY <2>1 DEF OwnersHaveReserved, RecordsAreOwned, TypeOK, Present
  <2>. QED
    BY <2>2, <2>3, <2>4, <2>5, <2>6, <2>7, <2>8, <2>9, <2>10, <2>11
<1>2. CASE Owns(r)
  <2>1. K \in Keys /\ body[r].payload \in Payloads
    BY BodyFields
  <2>2. /\ record[K].owner = r /\ Present(K)
        /\ record[K].payload \in Payloads \cup {NoPayload}
        /\ record[K].expired \in BOOLEAN
    BY <1>2, <2>1, RecordFields, IdempotencyConstants DEF Owns, RecordsAreOwned
  <2>3. /\ record'[K].state = "completed" /\ record'[K].owner = r
        /\ record'[K].payload = record[K].payload
        /\ record'[K].expired = record[K].expired
        /\ record' \in [Keys -> Record]
        /\ \A k \in Keys \ {K} : record'[k] = record[k]
    <3> DEFINE new == Row("completed", r, record[K].payload, record[K].expired)
    <3>1. /\ new \in Record
          /\ new.state = "completed" /\ new.owner = r
          /\ new.payload = record[K].payload /\ new.expired = record[K].expired
      BY <2>2, RowFields, RowType DEF RecordState
    <3>2. record' = [record EXCEPT ![K] = new]
      BY <1>2 DEF Complete
    <3> HIDE DEF new
    <3>. QED
      BY <2>1, <3>1, <3>2 DEF TypeOK
  <2>4. /\ stage[r] = "completing"
        /\ stage' = [stage EXCEPT ![r] = "responding"]
        /\ applied' = applied \cup {r}
        /\ UNCHANGED <<body, deleted, answer>>
    BY <1>2 DEF Complete, To
  <2>5. \A k \in Keys \ {K} : Present(k) => record[k].owner \in Requests \ {r}
    BY OwnersDiffer
  <2>6. TypeOK'
    BY <2>2, <2>3, <2>4 DEF TypeOK, Stage
  <2>7. RecordsAreOwned'
    BY <2>2, <2>3, <2>4, <2>1 DEF RecordsAreOwned, TypeOK, Present
  <2>8. CompletedIffApplied'
    BY <2>2, <2>3, <2>4, <2>5
       DEF CompletedIffApplied, RecordsAreOwned, OwnersHaveReserved, TypeOK, Present
  <2>9. NoOrphanedReservation'
    BY <2>2, <2>3, <2>4, <2>5
       DEF NoOrphanedReservation, RecordsAreOwned, OwnersHaveReserved, TypeOK,
           Present
  <2>10. AnswersAreApplied'
    BY <2>2, <2>3, <2>4 DEF AnswersAreApplied, TypeOK
  <2>11. RefusedIsNotApplied'
    BY <2>2, <2>3, <2>4 DEF RefusedIsNotApplied, TypeOK
  <2>12. DeletionsAreExpired'
    BY <2>2, <2>3, <2>4, <2>1
       DEF DeletionsAreExpired, TypeOK, Expired, Present, Complete, Locked
  <2>13. Unanswered'
    BY <2>2, <2>3, <2>4 DEF Unanswered, TypeOK
  <2>14. RespondingIsApplied'
    BY <2>2, <2>3, <2>4 DEF RespondingIsApplied, TypeOK
  <2>15. OwnersHaveReserved'
    BY <2>2, <2>3, <2>4, <2>5
       DEF OwnersHaveReserved, RecordsAreOwned, TypeOK, Present
  <2>. QED
    BY <2>6, <2>7, <2>8, <2>9, <2>10, <2>11, <2>12, <2>13, <2>14, <2>15
<1>. QED
  BY <1>1, <1>2

\* Release takes away the record of a request that failed, as long as it is its own
\* and still processing.
LEMMA ReleaseStep ==
  ASSUME IdempotencyInv, NEW r \in Requests, Release(r)
  PROVE  IdempotencyInv'
<1> DEFINE K == Key(r)
<1> USE DEF IdempotencyInv
<1>1. /\ stage[r] = "failing"
      /\ stage' = [stage EXCEPT ![r] = "failed"]
      /\ UNCHANGED <<body, deleted, applied, answer>>
  BY DEF Release, To
<1>2. K \in Keys
  BY BodyFields
<1>3. /\ record' \in [Keys -> Record]
      /\ \A k \in Keys \ {K} : record'[k] = record[k]
      /\ record'[K] = IF Released(r) THEN NoRecord ELSE record[K]
  BY <1>2, NoRecordFields DEF Release, TypeOK
<1>4. \A k \in Keys : Present(k)' => record'[k] = record[k] /\ Present(k)
  BY <1>2, <1>3, NoRecordFields DEF Present
<1>5. \A k \in Keys : record'[k].state = "processing" => record[k].owner \in Requests \ {r}
  <2> SUFFICES ASSUME NEW k \in Keys, record'[k].state = "processing"
               PROVE  record[k].owner \in Requests \ {r}
    OBVIOUS
  <2>1. record'[k] = record[k] /\ Present(k)
    BY <1>4 DEF Present
  <2>2. CASE k # K
    BY <2>1, <2>2, OwnersDiffer
  <2>3. CASE k = K
    BY <2>1, <2>3, <1>3, NoRecordFields DEF Released, Owns, RecordsAreOwned
  <2>. QED
    BY <2>2, <2>3
<1>6. TypeOK'
  BY <1>1, <1>2, <1>3, <1>4 DEF TypeOK, Stage
<1>7. RecordsAreOwned'
  BY <1>1, <1>2, <1>3, <1>4, NoRecordFields DEF RecordsAreOwned, TypeOK, Present
<1>8. CompletedIffApplied'
  BY <1>1, <1>2, <1>3, <1>4
     DEF CompletedIffApplied, RecordsAreOwned, OwnersHaveReserved, TypeOK, Present
<1>9. NoOrphanedReservation'
  BY <1>1, <1>2, <1>3, <1>4, <1>5
     DEF NoOrphanedReservation, RecordsAreOwned, OwnersHaveReserved, TypeOK, Present
<1>10. AnswersAreApplied'
  BY <1>1, <1>2, <1>3, <1>4 DEF AnswersAreApplied, TypeOK
<1>11. RefusedIsNotApplied'
  BY <1>1, <1>2, <1>3, <1>4 DEF RefusedIsNotApplied, TypeOK
<1>12. DeletionsAreExpired'
  BY <1>1, <1>2, <1>3, <1>4
     DEF DeletionsAreExpired, TypeOK, Expired, Present, Release, Locked
<1>13. Unanswered'
  BY <1>1, <1>2, <1>3, <1>4 DEF Unanswered, TypeOK
<1>14. RespondingIsApplied'
  BY <1>1, <1>2, <1>3, <1>4 DEF RespondingIsApplied, TypeOK
<1>15. OwnersHaveReserved'
  BY <1>1, <1>2, <1>3, <1>4 DEF OwnersHaveReserved, RecordsAreOwned, TypeOK, Present
<1>. QED
  BY <1>6, <1>7, <1>8, <1>9, <1>10, <1>11, <1>12, <1>13, <1>14, <1>15

\* A record grows old; nothing else changes.
LEMMA ExpireStep ==
  ASSUME IdempotencyInv, NEW K \in Keys, Expire(K)
  PROVE  IdempotencyInv'
<1> USE DEF IdempotencyInv
<1>1. /\ record' \in [Keys -> Record]
      /\ \A k \in Keys : /\ record'[k].state = record[k].state
                         /\ record'[k].owner = record[k].owner
                         /\ record'[k].payload = record[k].payload
                         /\ record[k].expired => record'[k].expired
  <2> DEFINE new == Row(record[K].state, record[K].owner, record[K].payload, TRUE)
  <2>1. /\ new \in Record
        /\ new.state = record[K].state /\ new.owner = record[K].owner
        /\ new.payload = record[K].payload /\ new.expired
    <3>1. new \in Record
      BY RecordFields, RowType
    <3>. QED
      BY <3>1 DEF Row
  <2>2. record' = [record EXCEPT ![K] = new]
    BY DEF Expire
  <2> HIDE DEF new
  <2>. QED
    BY <2>1, <2>2 DEF TypeOK
<1>2. UNCHANGED <<body, stage, deleted, applied, answer>>
  BY DEF Expire
<1>3. TypeOK'
  BY <1>1, <1>2 DEF TypeOK, Stage
<1>4. RecordsAreOwned'
  BY <1>1, <1>2 DEF RecordsAreOwned, TypeOK, Present
<1>5. CompletedIffApplied'
  BY <1>1, <1>2
     DEF CompletedIffApplied, RecordsAreOwned, OwnersHaveReserved, TypeOK, Present
<1>6. NoOrphanedReservation'
  BY <1>1, <1>2
     DEF NoOrphanedReservation, RecordsAreOwned, OwnersHaveReserved, TypeOK, Present
<1>7. AnswersAreApplied'
  BY <1>1, <1>2 DEF AnswersAreApplied, TypeOK
<1>8. RefusedIsNotApplied'
  BY <1>1, <1>2 DEF RefusedIsNotApplied, TypeOK
<1>9. DeletionsAreExpired'
  BY <1>1, <1>2 DEF DeletionsAreExpired, TypeOK, Expired, Present
<1>10. Unanswered'
  BY <1>1, <1>2 DEF Unanswered, TypeOK
<1>11. RespondingIsApplied'
  BY <1>1, <1>2 DEF RespondingIsApplied, TypeOK
<1>12. OwnersHaveReserved'
  BY <1>1, <1>2 DEF OwnersHaveReserved, RecordsAreOwned, TypeOK, Present
<1>. QED
  BY <1>3, <1>4, <1>5, <1>6, <1>7, <1>8, <1>9, <1>10, <1>11, <1>12

\* Each action preserves the invariant.
LEMMA StepInv == IdempotencyInv /\ [Next]_vars => IdempotencyInv'
<1> SUFFICES ASSUME IdempotencyInv, [Next]_vars
             PROVE  IdempotencyInv'
  OBVIOUS
<1>1. ASSUME NEW r \in Requests, Handle(r)
      PROVE  IdempotencyInv'
  BY <1>1, StartReadStep, ReserveStep, ReserveClashStep, RereadStep, ExecuteStep,
     CompleteStep, RespondStep, RaiseStep, ReleaseStep DEF Handle
<1>2. CASE UNCHANGED vars
  BY <1>2 DEF vars, IdempotencyInv, TypeOK, RecordsAreOwned, CompletedIffApplied,
     NoOrphanedReservation, AnswersAreApplied, RefusedIsNotApplied, DeletionsAreExpired,
     Unanswered, RespondingIsApplied, OwnersHaveReserved, Present, Expired
<1>. QED
  BY <1>1, <1>2, CrashStep, ExpireStep DEF Next

\* Idempotency keys hold what complete and release are written for: a completed
\* record is an applied write, a record in progress has a request at work on it or
\* one that died, answers are those of applied writes, and purges do not deadlock.
THEOREM KeysInvariant == Spec => []IdempotencyInv
BY InitialInv, StepInv, PTL DEF Spec

----------------------------------------------------------------------------
(* The refinement of OncePerKey.                                           *)

\* What the refinement mapping makes of a record: the request a key remembers, and
\* whether it may be forgotten.
Remembered(row) == IF row.state = "completed" THEN row.owner ELSE NoRequest

\* Steps that leave the records alone leave the memory alone.
LEMMA QuietStep ==
  ASSUME UNCHANGED <<record, body, applied, answer>>
  PROVE  UNCHANGED Promise!vars
BY DEF Promise!vars

\* Being answered at a record is an Answer step.
LEMMA ExistingRefines ==
  ASSUME IdempotencyInv, NEW r \in Requests, Present(Key(r)), Existing(r),
         stage[r] \in {"new", "clashed"}, UNCHANGED <<record, body, applied>>
  PROVE  [Promise!Next]_(Promise!vars)
<1>1. CASE answer' = answer
  BY <1>1, QuietStep
<1>2. ASSUME NEW q \in applied, body[q] = body[r], q = record[Key(r)].owner,
             record[Key(r)].state = "completed",
             answer' = [answer EXCEPT ![r] = q]
      PROVE  Promise!Next
  <2>1. q \in Requests /\ Key(r) \in Keys
    BY BodyFields DEF IdempotencyInv, TypeOK
  <2>2. answer[r] = NoRequest
    BY DEF IdempotencyInv, Unanswered
  <2>3. Promise!Answer(r, q)
    BY <1>2, <2>1, <2>2 DEF Promise!Answer, Key
  <2>. QED
    BY <2>1, <2>3 DEF Promise!Next
<1>. QED
  BY <1>1, <1>2, ExistingOutcome

\* Reserving a key forgets the keys whose records had expired.
LEMMA ReserveRefines ==
  ASSUME IdempotencyInv, NEW r \in Requests, Reserve(r)
  PROVE  Promise!Next
<1> DEFINE K == Key(r)
           new == Row("processing", r, body[r].payload, FALSE)
<1>1. K \in Keys /\ deleted[r] \in SUBSET Keys
  BY BodyFields DEF IdempotencyInv, TypeOK
<1>. PICK ks \in SUBSET Keys : ks = deleted[r] \cup {K}
  BY <1>1
<1>2. \A k \in deleted[r] : record[k].expired
  BY DEF IdempotencyInv, DeletionsAreExpired, Expired
<1>3. K \notin deleted[r] => record[K].state = "none"
  BY DEF Reserve, Taken, Present
<1>4. new.state = "processing" /\ new.expired = FALSE
  BY DEF Row
<1>5. record' = [k \in Keys |-> IF k = K THEN new
                  ELSE IF k \in deleted[r] THEN NoRecord ELSE record[k]]
  BY DEF Reserve
<1> HIDE DEF new
<1>6. Promise!Forget(ks)
  <2>1. \A k \in ks : record[k].expired \/ Remembered(record[k]) = NoRequest
    BY <1>2, <1>3 DEF Remembered
  <2>2. \A k \in Keys : Remembered(record'[k]) =
          IF k \in ks THEN NoRequest ELSE Remembered(record[k])
    BY <1>4, <1>5, NoRecordFields DEF Remembered
  <2>3. \A k \in Keys : record'[k].expired =
          IF k \in ks THEN FALSE ELSE record[k].expired
    BY <1>4, <1>5, NoRecordFields
  <2>4. UNCHANGED <<applied, answer>>
    BY DEF Reserve
  <2>. QED
    BY <2>1, <2>2, <2>3, <2>4 DEF Promise!Forget, Remembered
<1>7. UNCHANGED body
  BY DEF Reserve
<1>. QED
  BY <1>6, <1>7 DEF Promise!Next

\* The commit of a write is an Apply step: its key remembered nothing.
LEMMA CompleteRefines ==
  ASSUME IdempotencyInv, NEW r \in Requests, Complete(r)
  PROVE  [Promise!Next]_(Promise!vars)
<1> DEFINE K == Key(r)
<1>1. CASE ~Owns(r)
  BY <1>1, QuietStep DEF Complete
<1>2. CASE Owns(r)
  <2>1. K \in Keys /\ record \in [Keys -> Record]
    BY BodyFields DEF IdempotencyInv, TypeOK
  <2>2. r \notin applied
    BY DEF Complete, IdempotencyInv, RefusedIsNotApplied
  <2>3. record[K].owner = r /\ record[K].state # "completed"
    BY <1>2, <2>1, <2>2, IdempotencyConstants
       DEF Owns, IdempotencyInv, CompletedIffApplied, RecordsAreOwned, Present
  <2> DEFINE new == Row("completed", r, record[K].payload, record[K].expired)
  <2>4. new.state = "completed" /\ new.owner = r /\ new.expired = record[K].expired
    BY DEF Row
  <2>5. /\ record' = [record EXCEPT ![K] = new]
        /\ applied' = applied \cup {r}
        /\ UNCHANGED <<body, answer>>
    BY <1>2 DEF Complete
  <2> HIDE DEF new
  <2>6. \A k \in Keys : Remembered(record'[k]) =
          IF k = K THEN r ELSE Remembered(record[k])
    BY <2>1, <2>4, <2>5 DEF Remembered
  <2>7. \A k \in Keys : record'[k].expired = record[k].expired
    BY <2>1, <2>4, <2>5
  <2>8. Promise!Apply(r)
    BY <2>1, <2>2, <2>3, <2>5, <2>6, <2>7 DEF Promise!Apply, Remembered, Key
  <2>. QED
    BY <2>5, <2>8 DEF Promise!Next
<1>. QED
  BY <1>1, <1>2

\* Releasing a key forgets nothing: its record was still processing.
LEMMA ReleaseRefines ==
  ASSUME IdempotencyInv, NEW r \in Requests, Release(r)
  PROVE  [Promise!Next]_(Promise!vars)
<1>1. Key(r) \in Keys /\ record \in [Keys -> Record]
  BY BodyFields DEF IdempotencyInv, TypeOK
<1>. PICK K \in Keys : K = Key(r)
  BY <1>1
<1>2. UNCHANGED <<body, applied, answer>>
  BY DEF Release
<1>3. CASE ~Released(r)
  <2>1. UNCHANGED record
    BY <1>1, <1>3 DEF Release
  <2>. QED
    BY <1>2, <2>1, QuietStep
<1>4. CASE Released(r)
  <2>1. record' = [record EXCEPT ![K] = NoRecord]
    BY <1>4 DEF Release
  <2>2. record[K].state = "processing"
    BY <1>4 DEF Released
  <2>3. \A k \in Keys : Remembered(record'[k]) =
          IF k \in {K} THEN NoRequest ELSE Remembered(record[k])
    BY <1>1, <2>1, <2>2, NoRecordFields DEF Remembered
  <2>4. \A k \in Keys : record'[k].expired =
          IF k \in {K} THEN FALSE ELSE record[k].expired
    BY <1>1, <2>1, NoRecordFields
  <2>5. Promise!Forget({K})
    BY <1>2, <2>2, <2>3, <2>4 DEF Promise!Forget, Remembered
  <2>. QED
    BY <1>2, <2>5 DEF Promise!Next
<1>. QED
  BY <1>3, <1>4

\* The response of the request whose write is applied is an Answer step.
LEMMA RespondRefines ==
  ASSUME IdempotencyInv, NEW r \in Requests, Respond(r)
  PROVE  Promise!Next
<1>1. r \in applied /\ answer[r] = NoRequest
  BY DEF Respond, IdempotencyInv, RespondingIsApplied, Unanswered
<1>2. UNCHANGED <<record, body, applied>> /\ answer' = [answer EXCEPT ![r] = r]
  BY DEF Respond
<1>3. Promise!Answer(r, r)
  BY <1>1, <1>2 DEF Promise!Answer
<1>. QED
  BY <1>2, <1>3 DEF Promise!Next

\* The end of the retention time is an Age step.
LEMMA ExpireRefines ==
  ASSUME IdempotencyInv, NEW K \in Keys, Expire(K)
  PROVE  Promise!Next
<1> DEFINE new == Row(record[K].state, record[K].owner, record[K].payload, TRUE)
<1>1. /\ new.state = record[K].state /\ new.owner = record[K].owner
      /\ new.expired = TRUE
  BY DEF Row
<1>2. /\ record' = [record EXCEPT ![K] = new]
      /\ UNCHANGED <<body, applied, answer>>
  BY DEF Expire
<1> HIDE DEF new
<1>3. record \in [Keys -> Record]
  BY DEF IdempotencyInv, TypeOK
<1>4. \A k \in Keys : Remembered(record'[k]) = Remembered(record[k])
  BY <1>1, <1>2, <1>3 DEF Remembered
<1>5. \A k \in Keys : record'[k].expired = IF k = K THEN TRUE ELSE record[k].expired
  BY <1>1, <1>2, <1>3
<1>6. Promise!Age(K)
  BY <1>2, <1>4, <1>5 DEF Promise!Age, Remembered
<1>. QED
  BY <1>2, <1>6 DEF Promise!Next

\* A key remembers at most one applied write until it is old, and every answer is
\* the response of such a write: Idempotency implements OncePerKey.
THEOREM PromiseRefinement == Spec => ImplementsPromise
<1>1. Init => Promise!Init
  BY NoRecordFields DEF Init, Promise!Init
<1>2. IdempotencyInv /\ [Next]_vars => [Promise!Next]_(Promise!vars)
  <2> SUFFICES ASSUME IdempotencyInv, [Next]_vars
               PROVE  [Promise!Next]_(Promise!vars)
    OBVIOUS
  <2>1. CASE UNCHANGED vars
    BY <2>1, QuietStep DEF vars
  <2>2. ASSUME NEW r \in Requests, StartRead(r) \/ Reread(r)
        PROVE  [Promise!Next]_(Promise!vars)
    <3>1. UNCHANGED <<record, body, applied>> /\ stage[r] \in {"new", "clashed"}
      BY <2>2 DEF StartRead, Reread
    <3>2. CASE UNCHANGED answer
      BY <3>1, <3>2, QuietStep
    <3>3. CASE ~UNCHANGED answer
      <4>1. Present(Key(r)) /\ Existing(r)
        BY <2>2, <3>3 DEF StartRead, Reread
      <4>. QED
        BY <3>1, <4>1, ExistingRefines
    <3>. QED
      BY <3>2, <3>3
  <2>3. ASSUME NEW r \in Requests, ReserveClash(r) \/ Execute(r) \/ Raise(r) \/ Crash(r)
        PROVE  UNCHANGED Promise!vars
    <3>1. UNCHANGED <<record, body, applied, answer>>
      BY <2>3 DEF ReserveClash, Execute, CommittedEarly, Raise, Crash
    <3>. QED
      BY <3>1, QuietStep
  <2>4. ASSUME NEW r \in Requests, Handle(r)
        PROVE  [Promise!Next]_(Promise!vars)
    BY <2>2, <2>3, <2>4, ReserveRefines, CompleteRefines, ReleaseRefines,
       RespondRefines
       DEF Handle
  <2>. QED
    BY <2>1, <2>3, <2>4, ExpireRefines DEF Next
<1>. QED
  BY <1>1, <1>2, KeysInvariant, PTL DEF Spec, ImplementsPromise, Promise!Spec

=============================================================================
