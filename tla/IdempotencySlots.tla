--------------------------- MODULE IdempotencySlots ---------------------------
(***************************************************************************)
(* The idempotency_records table and the statements the service runs on    *)
(* it (dependencies/idempotency.py, scheduler/sweep.py).  Both ingestion   *)
(* routes, POST /complaints and POST /batches, claim a row here before     *)
(* they do any work and complete it in the transaction that commits the    *)
(* work.                                                                   *)
(*                                                                         *)
(* A row is found by (institution, Idempotency-Key); such a pair is one    *)
(* member of Keys.  `owner' is the request whose INSERT made the row (the  *)
(* row's record_id), `response' the request whose answer it stores.        *)
(* `expired' says that expires_at lies further back than the sweep's       *)
(* grace.                                                                  *)
(***************************************************************************)
CONSTANTS Requests,     \* request handlers, each one HTTP request
          Keys,         \* (institution_id, idempotency_key) pairs
          Bodies,       \* raw request bodies, told apart by their SHA-256
          Nobody,       \* marks an absent request
          NoBody        \* marks an absent body

ASSUME NobodyAssumption == Nobody \notin Requests /\ NoBody \notin Bodies

Slot == [state    : {"absent", "processing", "complete"},
         body     : Bodies \cup {NoBody},
         owner    : Requests \cup {Nobody},
         response : Requests \cup {Nobody},
         expired  : BOOLEAN]

NoRow == [state |-> "absent", body |-> NoBody, owner |-> Nobody,
          response |-> Nobody, expired |-> FALSE]

\* The placeholder that claim_idempotency_slot INSERTs in its own transaction.
Placeholder(r, b) == [state |-> "processing", body |-> b, owner |-> r,
                      response |-> Nobody, expired |-> FALSE]

\* Mutant: a processing row may be taken over.
InsertableUnlessComplete(row) == row.state # "complete"

\* The unique index on (institution_id, idempotency_key) lets the INSERT in.
Insertable(row) == row.state = "absent"

\* Mutant: the body hash is not compared.
ReadOutcomeAnyBody(row, b) ==
  CASE row.state = "absent"     -> "in_flight"
    [] row.state = "complete"   -> "replayed"
    [] row.state = "processing" -> "wait"

\* What one SELECT of the conflict path concludes from the row it finds, in
\* the order of its tests.  expires_at is not consulted.
ReadOutcome(row, b) ==
  CASE row.state = "absent"   -> "in_flight"
    [] row.state # "absent" /\ row.body # b        -> "key_reused"
    [] row.state = "complete" /\ row.body = b      -> "replayed"
    [] row.state = "processing" /\ row.body = b    -> "wait"

\* Mutant: the response is stored and the state forgotten.
CompletedButProcessing(row, r) ==
  IF row.state = "absent" THEN row ELSE [row EXCEPT !.response = r]

\* The UPDATE of mark_complete: it names the key only, and changes nothing
\* when the row is gone.
Completed(row, r) ==
  IF row.state = "absent" THEN row
  ELSE [row EXCEPT !.state = "complete", !.response = r]

\* The rows the sweep's DELETE selects.  Processing rows are spared.
Sweepable(row) == row.expired /\ row.state = "complete"
=============================================================================
