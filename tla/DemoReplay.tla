------------------------------- MODULE DemoReplay -------------------------------
(***************************************************************************)
(* The recorded demonstration: scripts/demo_replay.py puts one batch per   *)
(* institution in front of the worker and looks for the webhook of each in *)
(* the log of scripts/webhook-listener.py.  The script, the worker's jobs, *)
(* the deliveries and the listener run side by side.  A batch is named by  *)
(* the place on the command line of the institution it is for.             *)
(***************************************************************************)
EXTENDS Naturals, Sequences, FiniteSets

CONSTANTS Order,        \* the institutions, as named on the command line
          Setups,       \* [corpus, secrets, same]: the institutions with a CSV
                        \* in the corpus, those whose outbound secret the
                        \* listener holds, and those for which it is the
                        \* secret the service signs with
          MaxDeliveries \* bound: webhooks sent for one batch

\* --institutions takes one name or more.
ASSUME ReplayAssumption ==
  /\ Order \in Seq({Order[i] : i \in DOMAIN Order}) /\ Len(Order) # 0
  /\ MaxDeliveries \in Nat

VARIABLES setup,        \* fixed in ReplayInit
          stage,        \* where the script stands
          at,           \* the institution it is at, as a place in Order
          ready,        \* the listener has written its ready file
          files,        \* CSVs in the worker's storage
          batch,        \* the batches table
          job,          \* the worker's job of each batch
          sent,         \* webhooks sent so far
          flight,       \* webhooks on their way
          passes,       \* PASS lines in the listener's log
          results,      \* what the script has collected
          exit

replay == <<setup, stage, at, ready, files, batch, job, sent, flight, passes, results, exit>>

Batches == 1..Len(Order)
This == Order[at]
InDatabase == {"complete", "failed"}

ReplayInit ==
  /\ setup \in Setups
  /\ stage = "wait" /\ at = 1 /\ ready = FALSE /\ files = {}
  /\ batch = [i \in Batches |-> "none"] /\ job = [i \in Batches |-> "none"]
  /\ sent = [i \in Batches |-> 0] /\ flight = {} /\ passes = {}
  /\ results = <<>> /\ exit = "none"

-----------------------------------------------------------------------------
(* The script.                                                             *)

NextInstitution ==
  IF at = Len(Order) THEN stage' = "sum" /\ UNCHANGED at
  ELSE stage' = "institution" /\ at' = at + 1

Stop(code) == stage' = "ended" /\ exit' = code

\* _wait_for_listener_ready: the file is there, or the wait is over.
ListenerSeen ==
  /\ stage = "wait" /\ ready
  /\ stage' = "institution"
  /\ UNCHANGED <<setup, at, ready, files, batch, job, sent, flight, passes, results, exit>>

ListenerMissing ==
  /\ stage = "wait" /\ ~ready /\ Stop("no listener")
  /\ UNCHANGED <<setup, at, ready, files, batch, job, sent, flight, passes, results>>

SkipInstitution ==
  /\ stage = "institution" /\ This \notin setup.corpus
  /\ NextInstitution
  /\ UNCHANGED <<setup, ready, files, batch, job, sent, flight, passes, results, exit>>

CopyCsv ==
  /\ stage = "institution" /\ This \in setup.corpus
  /\ files' = files \cup {at} /\ stage' = "insert"
  /\ UNCHANGED <<setup, at, ready, batch, job, sent, flight, passes, results, exit>>

InsertBatch ==
  /\ stage = "insert"
  /\ batch' = [batch EXCEPT ![at] = "pending"] /\ stage' = "enqueue"
  /\ UNCHANGED <<setup, at, ready, files, job, sent, flight, passes, results, exit>>

Enqueue ==
  /\ stage = "enqueue"
  /\ job' = [job EXCEPT ![at] = "queued"] /\ stage' = "poll"
  /\ UNCHANGED <<setup, at, ready, files, batch, sent, flight, passes, results, exit>>

PollEnds(status) == status \in InDatabase

Polled ==
  /\ stage = "poll" /\ PollEnds(batch[at])
  /\ results' = Append(results, [of |-> at, status |-> batch[at], pass |-> FALSE])
  /\ stage' = "tail"
  /\ UNCHANGED <<setup, at, ready, files, batch, job, sent, flight, passes, exit>>

PollTimesOut ==
  /\ stage = "poll" /\ batch[at] \notin InDatabase /\ Stop("timed out")
  /\ UNCHANGED <<setup, at, ready, files, batch, job, sent, flight, passes, results>>

\* The PASS line is found, or thirty seconds are over.
TailEnds(found) ==
  /\ stage = "tail" /\ found = (at \in passes)
  /\ results' = [results EXCEPT ![Len(results)].pass = found]
  /\ stage' = "unlink"
  /\ UNCHANGED <<setup, at, ready, files, batch, job, sent, flight, passes, exit>>

Unlink ==
  /\ stage = "unlink"
  /\ files' = files \ {at}
  /\ NextInstitution
  /\ UNCHANGED <<setup, ready, batch, job, sent, flight, passes, results, exit>>

Completed(rs) == Cardinality({k \in DOMAIN rs : rs[k].status = "complete"})
Passed(rs) == Cardinality({k \in DOMAIN rs : rs[k].pass})

\* Mutant: measured against the batches that were attempted.
AllAttempted(rs) == Completed(rs) = Len(rs) /\ Passed(rs) = Len(rs)

AllInstitutions(rs) == Completed(rs) = Len(Order) /\ Passed(rs) = Len(Order)

SumUp ==
  /\ stage = "sum"
  /\ Stop(IF AllInstitutions(results) THEN "0" ELSE "4")
  /\ UNCHANGED <<setup, at, ready, files, batch, job, sent, flight, passes, results>>

-----------------------------------------------------------------------------
(* The worker, which is delivering too, and the listener.                  *)

BeginJob(i) ==
  /\ job[i] = "queued"
  /\ batch' = [batch EXCEPT ![i] = "processing"] /\ job' = [job EXCEPT ![i] = "begun"]
  /\ UNCHANGED <<setup, stage, at, ready, files, sent, flight, passes, results, exit>>

\* A missing file fails the batch; one that is there may.
EndJob(i, status) ==
  /\ job[i] = "begun" /\ (i \notin files => status = "failed")
  /\ batch' = [batch EXCEPT ![i] = status] /\ job' = [job EXCEPT ![i] = "ended"]
  /\ UNCHANGED <<setup, stage, at, ready, files, sent, flight, passes, results, exit>>

SendWebhook(i) ==
  /\ job[i] = "ended" /\ i \notin flight /\ i \notin passes
  /\ sent[i] < MaxDeliveries
  /\ sent' = [sent EXCEPT ![i] = @ + 1] /\ flight' = flight \cup {i}
  /\ UNCHANGED <<setup, stage, at, ready, files, batch, job, passes, results, exit>>

LoseWebhook(i) ==
  /\ i \in flight /\ flight' = flight \ {i}
  /\ UNCHANGED <<setup, stage, at, ready, files, batch, job, sent, passes, results, exit>>

\* With no secrets at all the listener does not start.
ListenerStarts ==
  /\ ~ready /\ setup.secrets # {} /\ ready' = TRUE
  /\ UNCHANGED <<setup, stage, at, files, batch, job, sent, flight, passes, results, exit>>

Verifies(i) == Order[i] \in setup.secrets \cap setup.same

\* handle: the signature is checked under the secret of the institution that
\* the body names, and the log says PASS or FAIL.
Listen(i) ==
  /\ ready /\ i \in flight
  /\ flight' = flight \ {i}
  /\ passes' = IF Verifies(i) THEN passes \cup {i} ELSE passes
  /\ UNCHANGED <<setup, stage, at, ready, files, batch, job, sent, results, exit>>

ReplayNext ==
  \/ ListenerSeen \/ ListenerMissing \/ SkipInstitution \/ CopyCsv \/ InsertBatch
  \/ Enqueue \/ Polled \/ PollTimesOut \/ Unlink \/ SumUp \/ ListenerStarts
  \/ \E found \in BOOLEAN : TailEnds(found)
  \/ \E i \in Batches :
       \/ BeginJob(i) \/ SendWebhook(i) \/ LoseWebhook(i) \/ Listen(i)
       \/ \E status \in InDatabase : EndJob(i, status)

ReplaySpec == ReplayInit /\ [][ReplayNext]_replay
-----------------------------------------------------------------------------
\* A recording that ends with 0 shows what it is meant to show: every
\* institution named has a complete batch whose webhook the listener verified
\* under the secret the service signs with.  And no job that has begun loses
\* its CSV to the script's clean-up.
ReplayIsEarned ==
  /\ exit = "0" =>
       \A i \in Batches : batch[i] = "complete" /\ i \in passes /\ Order[i] \in setup.same
  /\ \A i \in Batches : job[i] \in {"queued", "begun"} => i \in files
=============================================================================
