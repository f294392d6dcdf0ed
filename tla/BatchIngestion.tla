---------------------------- MODULE BatchIngestion ----------------------------
(***************************************************************************)
(* The batch tier: POST /v1/batches (routes/batches.py, create_batch,      *)
(* after its idempotency claim), the arq job process_batch                 *)
(* (workers/batch_worker.py) and the pruning of stored CSV files           *)
(* (scheduler/prune_batches.py).                                           *)
(*                                                                         *)
(* A batch is submitted once; it may be run by several arq jobs, because   *)
(* an operator re-enqueues it.  arq runs jobs of one worker concurrently.  *)
(* A job's rows are inserted in one transaction under a savepoint each:    *)
(* until it commits, `acc' holds the ids it has inserted, and an insert of *)
(* the same id elsewhere waits.                                            *)
(***************************************************************************)
EXTENDS Naturals, Sequences, FiniteSets

CONSTANTS Batches,
          Jobs,          \* process_batch jobs
          BatchOf,       \* the batch a job is for
          Ids,           \* complaint_id values
          Invalid,       \* a row the Anexo 1-A model refuses
          RowsOf,        \* the rows of a batch's CSV, in file order
          Nobody,        \* marks a complaint_id not in the table
          MaxTries,      \* WorkerSettings.max_tries: 5
          MaxFaults      \* bound: crashes, errors and pruned files

ASSUME BatchAssumption ==
  /\ BatchOf \in [Jobs -> Batches]
  /\ Invalid \notin Ids
  /\ RowsOf \in [Batches -> Seq(Ids \cup {Invalid})]
  /\ Nobody \notin Jobs
  /\ MaxTries \in Nat \ {0} /\ MaxFaults \in Nat

VARIABLES api,         \* where create_batch stands, per batch
          sent,        \* batches whose enqueue_job call succeeded
          files,       \* batches whose CSV is on disk
          batch,       \* the batches table; status "none" until committed
          pc, try,     \* where each job stands, and arq's job_try
          next,        \* index of the job's next row
          acc, rej,    \* ids inserted by the open transaction; rows rejected
          complaints,  \* complaint_id |-> job that stored it
          agents,      \* ids handed to the agent chain
          event,       \* webhook job each job enqueued
          overlapped,  \* history: batches two jobs ran at the same time
          cut,         \* history: what cut a job short after its commit had landed
          faults       \* faults spent

vars == <<api, sent, files, batch, pc, try, next, acc, rej, complaints, agents,
          event, overlapped, cut, faults>>
table == <<complaints, agents, event>>
intake == <<api, sent, files>>

Terminal == {"complete", "failed"}
Running == {"checked", "started", "rows", "failing", "committed"}
NewBatch == [status |-> "none", accepted |-> 0, rejected |-> 0]
B(w) == BatchOf[w]

Init ==
  /\ api = [b \in Batches |-> "idle"]
  /\ sent = {} /\ files = {}
  /\ batch = [b \in Batches |-> NewBatch]
  /\ pc = [w \in Jobs |-> "absent"]
  /\ try = [w \in Jobs |-> 0]
  /\ next = [w \in Jobs |-> 1]
  /\ acc = [w \in Jobs |-> {}]
  /\ rej = [w \in Jobs |-> 0]
  /\ complaints = [c \in Ids |-> Nobody]
  /\ agents = {}
  /\ event = [w \in Jobs |-> "none"]
  /\ overlapped = {}
  /\ cut = [w \in Jobs |-> {}]
  /\ faults = 0

GoTo(w, s) == pc' = [pc EXCEPT ![w] = s]
Spend == faults < MaxFaults /\ faults' = faults + 1
Local == <<next, acc, rej>>

\* A job's transaction and local variables are gone, or new.
Fresh(w) ==
  /\ next' = [next EXCEPT ![w] = 1]
  /\ acc' = [acc EXCEPT ![w] = {}]
  /\ rej' = [rej EXCEPT ![w] = 0]

-----------------------------------------------------------------------------
(* create_batch.                                                           *)

\* The CSV is written and the batch row inserted; enqueue_job is called inside the
\* transaction, before its commit.
Enqueue(b) ==
  /\ api[b] = "idle"
  /\ api' = [api EXCEPT ![b] = "enqueued"]
  /\ files' = files \cup {b}
  /\ sent' = sent \cup {b}
  /\ \E w \in Jobs : B(w) = b /\ pc[w] = "absent" /\ GoTo(w, "queued")
  /\ UNCHANGED <<batch, try, Local, table, overlapped, cut, faults>>

\* Redis refuses, or answers too late: the error is logged and ignored.
EnqueueFails(b) ==
  /\ api[b] = "idle" /\ Spend
  /\ api' = [api EXCEPT ![b] = "enqueued"]
  /\ files' = files \cup {b}
  /\ \/ UNCHANGED pc
     \/ \E w \in Jobs : B(w) = b /\ pc[w] = "absent" /\ GoTo(w, "queued")
  /\ UNCHANGED <<sent, batch, try, Local, table, overlapped, cut>>

Accept(b) ==
  /\ api[b] = "enqueued"
  /\ api' = [api EXCEPT ![b] = "accepted"]
  /\ batch' = [batch EXCEPT ![b].status = "pending"]
  /\ UNCHANGED <<sent, files, pc, try, Local, table, overlapped, cut, faults>>

\* The request dies before its commit, and file and job stay behind; or after it,
\* and the batch is there though the client was told of an error.
CreateFails(b) ==
  /\ api[b] = "enqueued" /\ Spend
  /\ api' = [api EXCEPT ![b] = "failed"]
  /\ UNCHANGED batch \/ batch' = [batch EXCEPT ![b].status = "pending"]
  /\ UNCHANGED <<sent, files, pc, try, Local, table, overlapped, cut>>

\* An operator enqueues another job for a batch the table shows.
Reenqueue(w) ==
  /\ batch[B(w)].status # "none" /\ pc[w] = "absent"
  /\ GoTo(w, "queued")
  /\ UNCHANGED <<intake, batch, try, Local, table, overlapped, cut, faults>>

\* The file has reached its retention age, run or not.
Prune(b) ==
  /\ b \in files /\ Spend
  /\ files' = files \ {b}
  /\ UNCHANGED <<api, sent, batch, pc, try, Local, table, overlapped, cut>>

-----------------------------------------------------------------------------
(* process_batch.                                                          *)

\* Another job of the same batch is between its first and its last statement.
Overlaps(w) == \E v \in Jobs \ {w} : B(v) = B(w) /\ pc[v] \in Running

\* Mutant: a terminal batch is processed again.
RedrivenAlways(b) == batch[b].status # "none"

\* Phase 1 goes on from pending or processing only.
MayStart(b) == batch[b].status \in {"pending", "processing"}

TriesLeft(w) == try[w] < MaxTries

Begin(w) ==
  /\ pc[w] = "queued" /\ TriesLeft(w)
  /\ try' = [try EXCEPT ![w] = @ + 1]
  /\ IF MayStart(B(w))
     THEN /\ GoTo(w, "checked")
          /\ overlapped' = IF Overlaps(w) THEN overlapped \cup {B(w)} ELSE overlapped
     ELSE GoTo(w, "done") /\ UNCHANGED overlapped
  /\ UNCHANGED <<intake, batch, Local, table, cut, faults>>

\* The status was read without a lock.
SetProcessing(w) ==
  /\ pc[w] = "checked"
  /\ batch' = [batch EXCEPT ![B(w)].status = "processing"]
  /\ GoTo(w, "started")
  /\ UNCHANGED <<intake, try, Local, table, overlapped, cut, faults>>

\* arq: max retries exceeded, the function is not called.
GiveUp(w) ==
  /\ pc[w] = "queued" /\ ~TriesLeft(w)
  /\ GoTo(w, "done")
  /\ UNCHANGED <<intake, batch, try, Local, table, overlapped, cut, faults>>

\* Read the CSV and open the transaction, or find the CSV gone.
OpenFile(w) ==
  /\ pc[w] = "started"
  /\ GoTo(w, IF B(w) \in files THEN "rows" ELSE "failing")
  /\ Fresh(w)
  /\ UNCHANGED <<intake, batch, try, table, overlapped, cut, faults>>

HasRow(w) == pc[w] = "rows" /\ next[w] <= Len(RowsOf[B(w)])
Row(w) == RowsOf[B(w)][next[w]]

\* complaint_id is in another job's open transaction: the INSERT waits.
WaitsFor(w, v) == v # w /\ HasRow(w) /\ pc[v] = "rows" /\ Row(w) \in acc[v]

InsertRow(w) ==
  /\ HasRow(w) /\ \A v \in Jobs : ~WaitsFor(w, v)
  /\ Row(w) \in Ids \ acc[w] /\ complaints[Row(w)] = Nobody
  /\ acc' = [acc EXCEPT ![w] = @ \cup {Row(w)}]
  /\ next' = [next EXCEPT ![w] = @ + 1]
  /\ UNCHANGED <<intake, batch, pc, try, rej, table, overlapped, cut, faults>>

\* The row fails validation, or its id is taken and the savepoint rolls back.
RejectRow(w) ==
  /\ HasRow(w) /\ \A v \in Jobs : ~WaitsFor(w, v)
  /\ Row(w) \in Ids => Row(w) \in acc[w] \/ complaints[Row(w)] # Nobody
  /\ rej' = [rej EXCEPT ![w] = @ + 1]
  /\ next' = [next EXCEPT ![w] = @ + 1]
  /\ UNCHANGED <<intake, batch, pc, try, acc, table, overlapped, cut, faults>>

\* The except clauses of process_batch.  On the last try, and for exceptions other
\* than OperationalError, the batch is failed.  An OperationalError on an early try
\* is raised again; the comments expect a new try, but arq ends a job whose
\* function raised anything but its own Retry.
Except(w) ==
  \/ GoTo(w, "failing")
  \/ TriesLeft(w) /\ GoTo(w, "done")

\* Mutant: two transactions that wait for each other go on waiting.
DeadlockUndetected(w) ==
  /\ \E v \in Jobs : WaitsFor(w, v) /\ WaitsFor(v, w)
  /\ UNCHANGED vars

\* Two open transactions wait for each other: PostgreSQL aborts one of them.
Deadlock(w) ==
  /\ \E v \in Jobs : WaitsFor(w, v) /\ WaitsFor(v, w)
  /\ Except(w)
  /\ Fresh(w)
  /\ UNCHANGED <<intake, batch, try, table, overlapped, cut, faults>>

\* Mutant: rows commit without the counts.
CommitRowsOnly(w) ==
  /\ pc[w] = "rows" /\ ~HasRow(w)
  /\ complaints' = [c \in Ids |-> IF c \in acc[w] THEN w ELSE complaints[c]]
  /\ GoTo(w, "failing")
  /\ Fresh(w)
  /\ UNCHANGED <<intake, batch, try, agents, event, overlapped, cut, faults>>

\* Rows, rejections, counts and the terminal status commit together.  The job has
\* yet to learn of it: an acknowledgement that is lost is an Error at "committed".
CommitRows(w) ==
  /\ pc[w] = "rows" /\ ~HasRow(w)
  /\ complaints' = [c \in Ids |-> IF c \in acc[w] THEN w ELSE complaints[c]]
  /\ batch' = [batch EXCEPT ![B(w)] =
       [status |-> "complete", accepted |-> Cardinality(acc[w]), rejected |-> rej[w]]]
  /\ GoTo(w, "committed")
  /\ UNCHANGED <<intake, try, Local, agents, event, overlapped, cut, faults>>

\* After the commit the accepted ids go to the agent chain one by one ...
DispatchAgents(w) ==
  /\ pc[w] = "committed"
  /\ \E c \in acc[w] \ agents : agents' = agents \cup {c}
  /\ UNCHANGED <<intake, batch, pc, try, Local, complaints, event, overlapped, cut, faults>>

EventFor(w) == IF rej[w] = 0 THEN "batch.complete" ELSE "batch.complete_with_errors"

\* Mutant: the webhook does not wait for the agents.
EnqueueWebhookAtOnce(w) ==
  /\ pc[w] = "committed"
  /\ event' = [event EXCEPT ![w] = EventFor(w)]
  /\ GoTo(w, "done")
  /\ Fresh(w)
  /\ UNCHANGED <<intake, batch, try, complaints, agents, overlapped, cut, faults>>

\* ... and the webhook is enqueued last.  An enqueue error is ignored.
EnqueueWebhook(w) ==
  /\ pc[w] = "committed" /\ acc[w] \subseteq agents
  /\ \/ event' = [event EXCEPT ![w] = EventFor(w)] /\ UNCHANGED faults
     \/ UNCHANGED event /\ Spend
  /\ GoTo(w, "done")
  /\ Fresh(w)
  /\ UNCHANGED <<intake, batch, try, complaints, agents, overlapped, cut>>

\* _mark_failed: a transaction of its own, which does not look at the status.
MarkFailed(w) ==
  /\ pc[w] = "failing"
  /\ batch' = [batch EXCEPT ![B(w)].status = "failed"]
  /\ GoTo(w, "done")
  /\ UNCHANGED <<intake, try, Local, table, overlapped, cut, faults>>

\* A job whose commit had landed does not get to its end.
CutShort(w, cause) ==
  cut' = IF pc[w] = "committed" THEN [cut EXCEPT ![w] = @ \cup {cause}] ELSE cut

\* A statement or the file system fails, within or outside the try block, which
\* takes in the COMMIT and what follows it: an error that is raised there, or the
\* loss of the COMMIT's acknowledgement, reaches the same except clauses.
Error(w) ==
  /\ Spend
  /\ \/ pc[w] \in {"started", "rows", "committed"} /\ Except(w)
     \/ pc[w] \in {"checked", "started", "failing"} /\ GoTo(w, "done")
  /\ Fresh(w) /\ CutShort(w, "error")
  /\ UNCHANGED <<intake, batch, try, table, overlapped>>

\* The open transaction is rolled back.  A worker died or was stopped: arq runs the
\* job again.  The job ran out of time: arq cancels it, no except clause sees that.
Crash(w) ==
  /\ pc[w] \in Running /\ Spend
  /\ \E s \in {"queued", "done"} : GoTo(w, s)
  /\ Fresh(w) /\ CutShort(w, "crash")
  /\ UNCHANGED <<intake, batch, try, table, overlapped>>

Work(w) ==
  \/ Begin(w) \/ SetProcessing(w) \/ GiveUp(w) \/ OpenFile(w) \/ InsertRow(w) \/ RejectRow(w)
  \/ Deadlock(w) \/ CommitRows(w) \/ DispatchAgents(w) \/ EnqueueWebhook(w) \/ MarkFailed(w)

\* Every submission has been answered and no job is left.
Terminated ==
  /\ \A b \in Batches : api[b] \in {"accepted", "failed"}
  /\ \A w \in Jobs : pc[w] \in {"absent", "done"}
  /\ UNCHANGED vars

Next ==
  \/ \E b \in Batches : Enqueue(b) \/ EnqueueFails(b) \/ Accept(b) \/ CreateFails(b)
                         \/ Prune(b)
  \/ \E w \in Jobs : Work(w) \/ Reenqueue(w) \/ Error(w) \/ Crash(w)
  \/ Terminated

Spec == Init /\ [][Next]_vars

\* The API and the worker finish what they have started.  No client submits,
\* no operator re-enqueues and no file is pruned under any obligation.
FairSpec ==
  /\ Spec
  /\ \A b \in Batches : WF_vars(Accept(b))
  /\ \A w \in Jobs : WF_vars(Work(w))

-----------------------------------------------------------------------------
(* Properties.                                                             *)

\* Type invariant.
TypeOK ==
  /\ api \in [Batches -> {"idle", "enqueued", "accepted", "failed"}]
  /\ sent \subseteq Batches /\ files \subseteq Batches /\ overlapped \subseteq Batches
  /\ \A b \in Batches :
       /\ batch[b].status \in {"none", "pending", "processing"} \cup Terminal
       /\ {batch[b].accepted, batch[b].rejected} \subseteq 0..Len(RowsOf[b])
  /\ pc \in [Jobs -> {"absent", "queued", "done"} \cup Running]
  /\ try \in [Jobs -> 0..MaxTries]
  /\ \A w \in Jobs : next[w] \in 1..(Len(RowsOf[B(w)]) + 1)
  /\ \A w \in Jobs : rej[w] \in 0..Len(RowsOf[B(w)])
  /\ acc \in [Jobs -> SUBSET Ids]
  /\ complaints \in [Ids -> Jobs \cup {Nobody}]
  /\ agents \subseteq Ids
  /\ event \in [Jobs -> {"none", "batch.complete", "batch.complete_with_errors"}]
  /\ cut \in [Jobs -> SUBSET {"error", "crash"}]
  /\ faults \in 0..MaxFaults

StoredFrom(b) == {c \in Ids : complaints[c] \in Jobs /\ B(complaints[c]) = b}

\* A job of the batch met an error after its commit had landed.
Doubted(b) == \E w \in Jobs : B(w) = b /\ "error" \in cut[w]

\* A batch is all or nothing: as long as no two jobs ran it at the same time,
\* it has rows in the complaints table only when it says complete, whatever
\* crashed and however often it was run.  The one exception is a batch whose job
\* met an error after its commit: it may say failed, and its rows are stored.
AllOrNothing ==
  \A b \in Batches \ overlapped : StoredFrom(b) # {} =>
    batch[b].status = "complete" \/ (batch[b].status = "failed" /\ Doubted(b))

\* The counts the status endpoint reports are those of the table, whatever the
\* status, and once the rows have been committed they account for every row of the
\* file: they tell a failed batch that stored nothing from one that did.
CountsMatchTable ==
  \A b \in Batches \ overlapped :
    /\ batch[b].accepted = Cardinality(StoredFrom(b))
    /\ batch[b].status = "complete" \/ Doubted(b)
         => batch[b].accepted + batch[b].rejected = Len(RowsOf[b])

\* `Once terminal, the row does not change' (batch_worker.py): true unless two
\* jobs ran the batch at the same time, or its job met an error after its commit:
\* then complete may become failed, and the counts stay.  A job started later, by
\* an operator or after a crash, never touches it.
TerminalBatchKept ==
  [][\A b \in Batches \ overlapped' : batch[b].status \in Terminal =>
       \/ batch'[b] = batch[b]
       \/ Doubted(b) /\ batch'[b] = [batch[b] EXCEPT !.status = "failed"]]_vars

\* The webhook announces what the table holds: a complete batch, with errors
\* exactly when it has rejected rows.
EventTellsTruth ==
  \A w \in Jobs : event[w] # "none" /\ B(w) \notin overlapped =>
    /\ batch[B(w)].status = "complete"
    /\ event[w] = "batch.complete" <=> batch[B(w)].rejected = 0

\* A batch, its rows and its webhook tell one story, whatever crashed and however
\* often it was run, as long as no two jobs ran it at the same time.
BatchTellsOneStory == AllOrNothing /\ CountsMatchTable /\ EventTellsTruth

\* Every job ends: neither a row that waits for another batch's transaction nor
\* two batches that wait for each other hold a worker for ever.
EveryRunEnds == \A w \in Jobs : pc[w] = "queued" ~> pc[w] = "done"

\* Every complaint a batch stores reaches the agent chain, whatever else fails,
\* unless the job that stored it was itself cut short after its commit; no later
\* run of the batch makes up for that.
StoredRowsReachAgents ==
  \A c \in Ids :
    complaints[c] # Nobody ~> c \in agents \/ \E w \in Jobs : complaints[c] = w /\ cut[w] # {}

\* routes/batches.py:223-225 says that a batch is `pending' indefinitely when
\* Redis was unreachable; so a batch whose enqueue_job succeeded is run to a
\* terminal status.  FALSE: the job is enqueued before the batch row commits, a
\* worker that is quick finds no row, and its job is over.
SentBatchIsRun ==
  \A b \in Batches :
    api[b] = "accepted" /\ b \in sent ~> batch[b].status \in Terminal
=============================================================================
