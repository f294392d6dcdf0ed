--------------------------- MODULE WebhookDelivery ----------------------------
(***************************************************************************)
(* The outbound webhook of one batch event (webhook/delivery.py,           *)
(* deliver_webhook_for_batch) as arq drives it.                            *)
(*                                                                         *)
(* process_batch enqueues one job per run, so a batch that was run twice   *)
(* has two jobs for the same (batch_id, event_type).  arq gives a job a    *)
(* new try after Retry or after the worker died under it, and gives up     *)
(* without calling the function when the try exceeds                       *)
(* WorkerSettings.max_tries.  A plain exception ends a job.                *)
(***************************************************************************)
EXTENDS Naturals, Sequences, FiniteSets

CONSTANTS Jobs,          \* arq jobs for one (batch_id, event_type)
          NoJob,
          MaxTries,      \* WorkerSettings.max_tries: 5
          MaxAttempts,   \* _MAX_ATTEMPTS: 6
          MaxFaults      \* bound: crashes, database errors, missing configs

ASSUME WebhookAssumption ==
  /\ NoJob \notin Jobs
  /\ MaxTries \in Nat \ {0} /\ MaxAttempts \in Nat \ {0} /\ MaxFaults \in Nat

VARIABLES pc,        \* where each job stands
          try,       \* arq's job_try
          row,       \* index of the delivery row a job works on, 0 for none
          outcome,   \* of the last attempt
          seen,      \* attempt_history length read by _record_attempt
          rows,      \* the webhook_deliveries table, oldest first
          received,  \* the receiver has processed the event
          faults     \* faults spent

vars == <<pc, try, row, outcome, seen, rows, received, faults>>

Running == {"loaded", "absent", "ready", "sent", "recording", "recorded"}
Steps == {"queued", "done", "dropped"} \cup Running

\* history counts the entries of attempt_history.  tried, lost, users and
\* settledBy are history variables: the attempts made for the row, those whose
\* record a fault prevented, the jobs that worked on the row and the one that
\* gave it its terminal status.
NewRow == [status |-> "pending", attempts |-> 0, history |-> 0,
           tried |-> 0, lost |-> 0, users |-> {}, settledBy |-> NoJob]

Settled(i) == rows[i].status # "pending"

\* Any of the jobs may have been enqueued; the others count as dropped.
Init ==
  /\ pc \in [Jobs -> {"queued", "dropped"}]
  /\ try = [j \in Jobs |-> 0]
  /\ row = [j \in Jobs |-> 0]
  /\ outcome = [j \in Jobs |-> "none"]
  /\ seen = [j \in Jobs |-> 0]
  /\ rows = <<>>
  /\ received = FALSE
  /\ faults = 0

GoTo(j, s) == pc' = [pc EXCEPT ![j] = s]

\* The job has tries left.
MayRun(j) == try[j] < MaxTries

\* arq calls the function; it loads batch, config and secret.
Begin(j) ==
  /\ pc[j] = "queued" /\ MayRun(j)
  /\ try' = [try EXCEPT ![j] = @ + 1]
  /\ GoTo(j, "loaded")
  /\ UNCHANGED <<row, outcome, seen, rows, received, faults>>

\* arq: max retries exceeded.  The function is not called and no row changes.
GiveUp(j) ==
  /\ pc[j] = "queued" /\ ~MayRun(j)
  /\ GoTo(j, "dropped")
  /\ UNCHANGED <<try, row, outcome, seen, rows, received, faults>>

\* The config is missing or disabled, or there is no secret: return.
NoConfig(j) ==
  /\ pc[j] = "loaded"
  /\ faults < MaxFaults /\ faults' = faults + 1
  /\ GoTo(j, "done")
  /\ UNCHANGED <<try, row, outcome, seen, rows, received>>

\* The rows of this event that are still pending.
PendingRows == {i \in DOMAIN rows : ~Settled(i)}
Newest(s) == CHOOSE i \in s : \A k \in s : k <= i

\* _find_pending_delivery: the newest pending row of this event.
Find(j) ==
  /\ pc[j] = "loaded"
  /\ IF PendingRows = {}
     THEN GoTo(j, "absent") /\ UNCHANGED <<row, rows>>
     ELSE /\ GoTo(j, "ready")
          /\ row' = [row EXCEPT ![j] = Newest(PendingRows)]
          /\ rows' = [rows EXCEPT ![Newest(PendingRows)].users = @ \cup {j}]
  /\ UNCHANGED <<try, outcome, seen, received, faults>>

\* _ensure_delivery_row: a new row, in a later transaction than the search.
Create(j) ==
  /\ pc[j] = "absent"
  /\ rows' = Append(rows, [NewRow EXCEPT !.users = {j}])
  /\ row' = [row EXCEPT ![j] = Len(rows) + 1]
  /\ GoTo(j, "ready")
  /\ UNCHANGED <<try, outcome, seen, received, faults>>

\* validate_callback_url refuses: nothing is sent.
RejectUrl(j) ==
  /\ pc[j] = "ready"
  /\ outcome' = [outcome EXCEPT ![j] = "url_rejected"]
  /\ rows' = [rows EXCEPT ![row[j]].tried = @ + 1]
  /\ GoTo(j, "sent")
  /\ UNCHANGED <<try, row, seen, received, faults>>

\* The POST.  A 2xx was received; a timeout or an error may have been.
Post(j) ==
  /\ pc[j] = "ready"
  /\ \E o \in {"delivered", "failed"} :
       /\ outcome' = [outcome EXCEPT ![j] = o]
       /\ IF o = "delivered" THEN received' = TRUE
          ELSE received' \in {received, TRUE}
  /\ rows' = [rows EXCEPT ![row[j]].tried = @ + 1]
  /\ GoTo(j, "sent")
  /\ UNCHANGED <<try, row, seen, faults>>

\* Mutant: the history starts afresh at every try.
RecordReadNothing(j) ==
  /\ pc[j] = "sent"
  /\ seen' = [seen EXCEPT ![j] = 0]
  /\ GoTo(j, "recording")
  /\ UNCHANGED <<try, row, outcome, rows, received, faults>>

\* _record_attempt reads the row, appends to its copy of the history ...
RecordRead(j) ==
  /\ pc[j] = "sent"
  /\ seen' = [seen EXCEPT ![j] = rows[row[j]].history]
  /\ GoTo(j, "recording")
  /\ UNCHANGED <<try, row, outcome, rows, received, faults>>

\* The status an attempt gives its row.
StatusAfter(j) ==
  IF outcome[j] = "delivered" THEN "delivered"
  ELSE IF outcome[j] = "url_rejected" \/ try[j] >= MaxAttempts THEN "delivery_failed"
  ELSE "pending"

Written(j) == [rows[row[j]] EXCEPT !.status = StatusAfter(j), !.attempts = try[j],
                 !.history = seen[j] + 1,
                 !.settledBy = IF StatusAfter(j) = "pending" THEN NoJob ELSE j]

\* Mutant: Retry is raised whatever the outcome.
RecordThenRetry(j) ==
  /\ pc[j] = "recording"
  /\ rows' = [rows EXCEPT ![row[j]] = Written(j)]
  /\ GoTo(j, "queued")
  /\ UNCHANGED <<try, row, outcome, seen, received, faults>>

\* ... and writes it back.  A failed attempt below the limit then raises Retry.
RecordWrite(j) ==
  /\ pc[j] = "recording"
  /\ rows' = [rows EXCEPT ![row[j]] = Written(j)]
  /\ GoTo(j, IF StatusAfter(j) = "pending" THEN "queued" ELSE "recorded")
  /\ UNCHANGED <<try, row, outcome, seen, received, faults>>

\* The function returns and arq removes the job.
Finish(j) ==
  /\ pc[j] = "recorded"
  /\ GoTo(j, "done")
  /\ UNCHANGED <<try, row, outcome, seen, rows, received, faults>>

\* A POST that was made and will not be recorded.
LoseAttempt(j) ==
  rows' = IF pc[j] \in {"sent", "recording"}
          THEN [rows EXCEPT ![row[j]].lost = @ + 1] ELSE rows

\* The worker dies or is stopped: arq calls the job again, as its next try.
\* A database error raises a plain exception: arq ends the job.
Fault(j) ==
  /\ pc[j] \in Running
  /\ faults < MaxFaults /\ faults' = faults + 1
  /\ LoseAttempt(j)
  /\ \E s \in {"queued", "done"} : GoTo(j, s)
  /\ UNCHANGED <<try, row, outcome, seen, received>>

Work(j) == \/ Begin(j) \/ GiveUp(j) \/ Find(j) \/ Create(j) \/ RejectUrl(j) \/ Post(j)
           \/ RecordRead(j) \/ RecordWrite(j) \/ Finish(j)

Terminated == (\A j \in Jobs : pc[j] \in {"done", "dropped"}) /\ UNCHANGED vars

Next == (\E j \in Jobs : Work(j) \/ NoConfig(j) \/ Fault(j)) \/ Terminated

Spec == Init /\ [][Next]_vars

\* The worker runs what is queued; nothing obliges the receiver to answer.
FairSpec == Spec /\ \A j \in Jobs : WF_vars(Work(j))

-----------------------------------------------------------------------------
(* Properties.                                                             *)

\* Type invariant; attempt numbers stay within arq's limit.
TypeOK ==
  /\ pc \in [Jobs -> Steps]
  /\ try \in [Jobs -> 0..MaxTries]
  /\ row \in [Jobs -> 0..Len(rows)]
  /\ outcome \in [Jobs -> {"none", "delivered", "failed", "url_rejected"}]
  /\ seen \in [Jobs -> Nat]
  /\ \A i \in DOMAIN rows : rows[i] \in
       [status : {"pending", "delivered", "delivery_failed"}, attempts : 0..MaxTries,
        history : Nat, tried : Nat, lost : Nat, users : SUBSET Jobs,
        settledBy : Jobs \cup {NoJob}]
  /\ received \in BOOLEAN
  /\ faults \in 0..MaxFaults

DeliveredWasReceived ==
  \A i \in DOMAIN rows : rows[i].status = "delivered" => received

AttemptHistoryComplete ==
  \A i \in DOMAIN rows : \A j \in Jobs : rows[i].users = {j} =>
    rows[i].tried = rows[i].history + rows[i].lost
      + (IF row[j] = i /\ pc[j] \in {"sent", "recording"} THEN 1 ELSE 0)

\* A row says `delivered' only of an event the institution has received, and
\* its attempt_history, which the dead-letter event promises in full, has an
\* entry for every attempt on the row except the one under way and those a
\* crash or a database error cut off, as long as one job works on the row.
RowsTellWhatHappened == DeliveredWasReceived /\ AttemptHistoryComplete

\* The job that settled a row never writes it again.
SettledRowsKeptByTheirJob ==
  [][\A i \in DOMAIN rows : \A j \in Jobs :
       Settled(i) /\ rows[i].settledBy = j /\ rows'[i] # rows[i]
         => pc'[j] = pc[j]]_vars

\* Once a job has recorded a delivery it does not send the event again, unless
\* it was killed between the record and its return.
NoRepeatWithoutFault ==
  [][\A j \in Jobs : \A i \in DOMAIN rows :
       rows[i].status = "delivered" /\ rows[i].settledBy = j
         /\ pc[j] = "ready" /\ pc'[j] = "sent" => faults > 0]_vars

\* A job that has settled a row is done with it, in the table and on the wire: a
\* settled row can only be changed, and even be reopened, by another job that
\* had found it before, and only a crash makes a job repeat what it delivered.
JobsStayWithTheirRows == SettledRowsKeptByTheirJob /\ NoRepeatWithoutFault

\* webhook/delivery.py:66 says `job_try=6 fails -> DEAD LETTER (no further
\* retry)', so every delivery row ends as delivered or delivery_failed.  FALSE:
\* WorkerSettings.max_tries is 5, arq never makes the sixth call, and the row
\* of an institution that does not answer stays pending for ever.
EveryRowSettles ==
  \A i \in 1..MaxTries :
    (i \in DOMAIN rows /\ ~Settled(i)) ~> (i \in DOMAIN rows /\ Settled(i))
=============================================================================
