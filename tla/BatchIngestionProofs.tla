-------------------------- MODULE BatchIngestionProofs --------------------------
(***************************************************************************)
(* Theorems about BatchIngestion, for any batches, files, jobs, tries and  *)
(* faults: a batch is all or nothing, its counts are those of the table,   *)
(* its webhook announces what the table holds, and a terminal batch does   *)
(* not change, as long as no two jobs ran it at the same time; only an     *)
(* error after its commit can turn a complete batch into a failed one.     *)
(***************************************************************************)
EXTENDS BatchIngestion, FiniteSetTheorems, TLAPS

-----------------------------------------------------------------------------
(* The inductive invariant.                                                *)

Statuses == {"none", "pending", "processing", "complete", "failed"}

Types ==
  /\ TypeOK
  /\ batch \in [Batches -> [status : Statuses, accepted : Nat, rejected : Nat]]
  /\ next \in [Jobs -> Nat] /\ rej \in [Jobs -> Nat]

Uncommitted == {"checked", "started", "rows", "failing"}

OneAtATime ==
  \A w, v \in Jobs : w # v /\ B(w) = B(v) /\ pc[w] \in Running /\ pc[v] \in Running
    => B(w) \in overlapped

\* A batch is in the table once its request has committed, and is run only then.
ShownOnceAccepted ==
  \A b \in Batches : api[b] \in {"idle", "enqueued"} => batch[b].status = "none"
ShownBeforeRun == \A w \in Jobs : pc[w] \in Running => batch[B(w)].status # "none"

\* A job is about to fail the batch it has itself completed.
Late(w) == pc[w] = "failing" /\ "error" \in cut[w] /\ batch[B(w)].status = "complete"

\* Until a job commits, its batch is one that a job may start.
OpenUntilCommit ==
  \A w \in Jobs : pc[w] \in Uncommitted /\ B(w) \notin overlapped => MayStart(B(w)) \/ Late(w)

\* No job runs a batch whose webhook has been enqueued.
EventIsLast ==
  \A v, w \in Jobs : event[v] # "none" /\ B(v) = B(w) /\ B(v) \notin overlapped
    => pc[w] \notin Running

\* The ids an open transaction has inserted are in no table and no other one.
InsertsAreNew ==
  \A w \in Jobs : pc[w] = "rows" => \A c \in acc[w] :
    complaints[c] = Nobody /\ \A v \in Jobs \ {w} : pc[v] = "rows" => c \notin acc[v]

RowsAccountedFor ==
  \A w \in Jobs : pc[w] = "rows" =>
    IsFiniteSet(acc[w]) /\ next[w] = Cardinality(acc[w]) + rej[w] + 1

CommittedAsCounted ==
  \A w \in Jobs : pc[w] = "committed" /\ B(w) \notin overlapped =>
    batch[B(w)].status = "complete" /\ batch[B(w)].rejected = rej[w]

Jobwise ==
  OneAtATime /\ ShownBeforeRun /\ OpenUntilCommit /\ CommittedAsCounted /\ EventIsLast
Rowwise == InsertsAreNew /\ RowsAccountedFor

BatchInv == Types /\ ShownOnceAccepted /\ Jobwise /\ Rowwise /\ BatchTellsOneStory

-----------------------------------------------------------------------------
(* Types.                                                                  *)

\* A job's batch is one of the batches, and its file a sequence of rows.
LEMMA BatchOfJob ==
  ASSUME NEW w \in Jobs
  PROVE  B(w) \in Batches /\ RowsOf[B(w)] \in Seq(Ids \cup {Invalid})
         /\ Len(RowsOf[B(w)]) \in Nat
<1>1. B(w) \in Batches
  BY BatchAssumption DEF B
<1> QED
  BY <1>1, BatchAssumption

\* The local variables of a job that starts or ends are within their types.
LEMMA FreshTypes ==
  ASSUME Types, NEW w \in Jobs, Fresh(w)
  PROVE  /\ next' \in [Jobs -> Nat] /\ rej' \in [Jobs -> Nat] /\ acc' \in [Jobs -> SUBSET Ids]
         /\ \A v \in Jobs : next'[v] \in 1..(Len(RowsOf[B(v)]) + 1)
         /\ \A v \in Jobs : rej'[v] \in 0..Len(RowsOf[B(v)])
         /\ acc'[w] = {} /\ next'[w] = 1 /\ rej'[w] = 0
         /\ \A v \in Jobs \ {w} : acc'[v] = acc[v] /\ next'[v] = next[v] /\ rej'[v] = rej[v]
<1>1. /\ next' = [next EXCEPT ![w] = 1] /\ acc' = [acc EXCEPT ![w] = {}]
      /\ rej' = [rej EXCEPT ![w] = 0]
  BY DEF Fresh
<1>2. /\ next \in [Jobs -> Nat] /\ rej \in [Jobs -> Nat] /\ acc \in [Jobs -> SUBSET Ids]
      /\ \A v \in Jobs : next[v] \in 1..(Len(RowsOf[B(v)]) + 1)
      /\ \A v \in Jobs : rej[v] \in 0..Len(RowsOf[B(v)])
  BY DEF Types, TypeOK
<1>3. 1 \in 1..(Len(RowsOf[B(w)]) + 1) /\ 0 \in 0..Len(RowsOf[B(w)])
  BY BatchOfJob
<1> QED
  BY <1>1, <1>2, <1>3

\* A row is inserted only if it is nobody's: it becomes the job's.
LEMMA InsertTypes ==
  ASSUME Types, Rowwise, NEW w \in Jobs, InsertRow(w)
  PROVE  Types' /\ Rowwise' /\ pc[w] = "rows"
<1>0. Types /\ InsertsAreNew /\ RowsAccountedFor
  BY DEF Rowwise
<1>1. /\ pc[w] = "rows" /\ next[w] <= Len(RowsOf[B(w)])
      /\ Row(w) \in Ids /\ Row(w) \notin acc[w] /\ complaints[Row(w)] = Nobody
      /\ \A v \in Jobs \ {w} : pc[v] = "rows" => Row(w) \notin acc[v]
      /\ acc' = [acc EXCEPT ![w] = acc[w] \cup {Row(w)}]
      /\ next' = [next EXCEPT ![w] = next[w] + 1]
      /\ pc' = pc /\ rej' = rej /\ complaints' = complaints /\ batch' = batch
      /\ UNCHANGED <<api, sent, files, try, agents, event, overlapped, cut, faults>>
  BY DEF InsertRow, HasRow, WaitsFor, intake, table
<1> DEFINE c == Row(w)
<1> HIDE DEF c
<1>2. c = Row(w)
  BY DEF c
<1>3. /\ acc'[w] = acc[w] \cup {c} /\ next'[w] = next[w] + 1
      /\ \A v \in Jobs \ {w} : acc'[v] = acc[v] /\ next'[v] = next[v]
  BY <1>0, <1>1, <1>2 DEF Types, TypeOK
<1>4. Types'
  <2>1. next' \in [Jobs -> Nat] /\ acc' \in [Jobs -> SUBSET Ids]
    BY <1>0, <1>1, <1>2 DEF Types, TypeOK
  <2>2. \A v \in Jobs : next'[v] \in 1..(Len(RowsOf[B(v)]) + 1)
    <3> SUFFICES ASSUME NEW v \in Jobs PROVE next'[v] \in 1..(Len(RowsOf[B(v)]) + 1)
      OBVIOUS
    <3>1. next[v] \in 1..(Len(RowsOf[B(v)]) + 1) /\ Len(RowsOf[B(v)]) \in Nat
      BY <1>0, BatchOfJob DEF Types, TypeOK
    <3> QED
      BY <1>1, <1>3, <3>1
  <2> QED
    BY <1>0, <1>1, <2>1, <2>2 DEF Types, TypeOK
<1>5. InsertsAreNew'
  BY <1>0, <1>1, <1>2, <1>3 DEF InsertsAreNew
<1>6. RowsAccountedFor'
  <2> SUFFICES ASSUME NEW v \in Jobs, pc[v] = "rows"
               PROVE  IsFiniteSet(acc'[v]) /\ next'[v] = Cardinality(acc'[v]) + rej[v] + 1
    BY <1>1 DEF RowsAccountedFor
  <2>1. IsFiniteSet(acc[v]) /\ next[v] = Cardinality(acc[v]) + rej[v] + 1
        /\ Cardinality(acc[v]) \in Nat /\ rej[v] \in Nat
    BY <1>0, FS_CardinalityType DEF RowsAccountedFor, Types
  <2>2. CASE v = w
    <3>1. /\ IsFiniteSet(acc[v] \cup {c})
          /\ Cardinality(acc[v] \cup {c}) = Cardinality(acc[v]) + 1
      BY <1>1, <1>2, <2>1, <2>2, FS_AddElement
    <3>2. acc'[v] = acc[v] \cup {c} /\ next'[v] = next[v] + 1
      BY <1>3, <2>2
    <3>3. next'[v] = (Cardinality(acc[v]) + 1) + rej[v] + 1
      BY <2>1, <3>2
    <3> QED
      BY <3>1, <3>2, <3>3
  <2>3. CASE v # w
    BY <1>3, <2>1, <2>3
  <2> QED
    BY <2>2, <2>3
<1> QED
  BY <1>1, <1>4, <1>5, <1>6 DEF Rowwise

\* A row that is rejected is counted.
LEMMA RejectTypes ==
  ASSUME Types, Rowwise, NEW w \in Jobs, RejectRow(w)
  PROVE  Types' /\ Rowwise' /\ pc[w] = "rows"
<1>0. Types /\ InsertsAreNew /\ RowsAccountedFor
  BY DEF Rowwise
<1>1. /\ pc[w] = "rows" /\ next[w] <= Len(RowsOf[B(w)])
      /\ rej' = [rej EXCEPT ![w] = rej[w] + 1]
      /\ next' = [next EXCEPT ![w] = next[w] + 1]
      /\ pc' = pc /\ acc' = acc /\ complaints' = complaints /\ batch' = batch
      /\ UNCHANGED <<api, sent, files, try, agents, event, overlapped, cut, faults>>
  BY DEF RejectRow, HasRow, intake, table
<1>2. /\ rej'[w] = rej[w] + 1 /\ next'[w] = next[w] + 1
      /\ \A v \in Jobs \ {w} : rej'[v] = rej[v] /\ next'[v] = next[v]
  BY <1>0, <1>1 DEF Types
<1>3. \A v \in Jobs : pc[v] = "rows" =>
        /\ IsFiniteSet(acc[v]) /\ next[v] = Cardinality(acc[v]) + rej[v] + 1
        /\ Cardinality(acc[v]) \in Nat /\ rej[v] \in Nat
  BY <1>0, FS_CardinalityType DEF RowsAccountedFor, Types
<1>4. Types'
  <2>1. next' \in [Jobs -> Nat] /\ rej' \in [Jobs -> Nat]
    BY <1>0, <1>1 DEF Types
  <2>2. \A v \in Jobs : /\ next'[v] \in 1..(Len(RowsOf[B(v)]) + 1)
                        /\ rej'[v] \in 0..Len(RowsOf[B(v)])
    <3> SUFFICES ASSUME NEW v \in Jobs
                 PROVE  /\ next'[v] \in 1..(Len(RowsOf[B(v)]) + 1)
                        /\ rej'[v] \in 0..Len(RowsOf[B(v)])
      OBVIOUS
    <3>1. /\ next[v] \in 1..(Len(RowsOf[B(v)]) + 1) /\ rej[v] \in 0..Len(RowsOf[B(v)])
          /\ Len(RowsOf[B(v)]) \in Nat
      BY <1>0, BatchOfJob DEF Types, TypeOK
    <3>2. CASE v = w
      <4>1. rej[v] + 1 <= next[v] /\ next[v] <= Len(RowsOf[B(v)])
        BY <1>1, <1>3, <3>1, <3>2
      <4> QED
        BY <1>2, <3>1, <3>2, <4>1
    <3>3. CASE v # w
      BY <1>2, <3>1, <3>3
    <3> QED
      BY <3>2, <3>3
  <2> QED
    BY <1>0, <1>1, <2>1, <2>2 DEF Types, TypeOK
<1>5. InsertsAreNew'
  BY <1>0, <1>1 DEF InsertsAreNew
<1>6. RowsAccountedFor'
  <2> SUFFICES ASSUME NEW v \in Jobs, pc[v] = "rows"
               PROVE  IsFiniteSet(acc[v]) /\ next'[v] = Cardinality(acc[v]) + rej'[v] + 1
    BY <1>1 DEF RowsAccountedFor
  <2>1. CASE v = w
    BY <1>2, <1>3, <2>1
  <2>2. CASE v # w
    BY <1>2, <1>3, <2>2
  <2> QED
    BY <2>1, <2>2
<1> QED
  BY <1>1, <1>4, <1>5, <1>6 DEF Rowwise

-----------------------------------------------------------------------------
(* Steps that commit nothing.                                              *)

\* A step that touches no batch, stored row, event or place of a job keeps what
\* the invariant says of them.
LEMMA QuietStep ==
  ASSUME BatchInv, Types', Rowwise', ShownOnceAccepted', pc' = pc, batch' = batch,
         complaints' = complaints, event' = event, overlapped' = overlapped, cut' = cut,
         \A w \in Jobs : pc[w] = "committed" => rej'[w] = rej[w]
  PROVE  BatchInv'
<1>1. Jobwise /\ BatchTellsOneStory
  BY DEF BatchInv
<1>2. Jobwise'
  BY <1>1 DEF Jobwise, OneAtATime, ShownBeforeRun, OpenUntilCommit, CommittedAsCounted,
              EventIsLast, MayStart, Late
<1>3. BatchTellsOneStory'
  <2>1. \A b \in Batches : StoredFrom(b)' = StoredFrom(b) /\ Doubted(b)' = Doubted(b)
    BY DEF StoredFrom, Doubted
  <2> QED
    BY <1>1, <2>1 DEF BatchTellsOneStory, AllOrNothing, CountsMatchTable, EventTellsTruth
<1> QED
  BY <1>2, <1>3 DEF BatchInv

\* A job that goes to a place where it has no more rights than before, with its
\* transaction rolled back or untouched, keeps the invariant; so does one that is cut
\* short after its commit, and may be about to fail what it has completed.
LEMMA MoveStep ==
  ASSUME BatchInv, Types', ShownOnceAccepted', NEW w \in Jobs, NEW s,
         pc' = [pc EXCEPT ![w] = s],
         batch' = batch, complaints' = complaints, event' = event, overlapped' = overlapped,
         Fresh(w) \/ (next' = next /\ acc' = acc /\ rej' = rej),
         \/ cut' = cut
         \/ pc[w] = "committed" /\ \E cause : cut' = [cut EXCEPT ![w] = @ \cup {cause}],
         s \in Uncommitted => \/ pc[w] \in Uncommitted \ {"failing"}
                              \/ pc[w] = "committed" /\ s = "failing" /\ "error" \in cut'[w],
         s = "rows" => Fresh(w),
         s # "committed"
  PROVE  BatchInv'
<1>1. /\ Types /\ OneAtATime /\ ShownBeforeRun /\ OpenUntilCommit
      /\ CommittedAsCounted /\ EventIsLast /\ InsertsAreNew /\ RowsAccountedFor
      /\ AllOrNothing /\ CountsMatchTable /\ EventTellsTruth
  BY DEF BatchInv, Jobwise, Rowwise, BatchTellsOneStory
<1>2. pc'[w] = s /\ \A v \in Jobs \ {w} : pc'[v] = pc[v]
  BY <1>1 DEF Types, TypeOK
<1>3. /\ \A v \in Jobs \ {w} : acc'[v] = acc[v] /\ next'[v] = next[v] /\ rej'[v] = rej[v]
      /\ s = "rows" => acc'[w] = {} /\ next'[w] = 1 /\ rej'[w] = 0
  BY <1>1, FreshTypes
<1>4. s \in Running => pc[w] \in Running /\ s \in Uncommitted
  BY DEF Running, Uncommitted
<1>5. OneAtATime' /\ ShownBeforeRun' /\ EventIsLast'
  BY <1>1, <1>2, <1>4 DEF OneAtATime, ShownBeforeRun, EventIsLast
<1>6. /\ \A v \in Jobs \ {w} : cut'[v] = cut[v]
      /\ \A v \in Jobs : cut[v] \subseteq cut'[v]
      /\ pc[w] # "committed" => cut' = cut
  <2>1. cut \in [Jobs -> SUBSET {"error", "crash"}]
    BY <1>1 DEF Types, TypeOK
  <2>2. CASE cut' = cut
    BY <2>2
  <2>3. ASSUME NEW cause, pc[w] = "committed", cut' = [cut EXCEPT ![w] = cut[w] \cup {cause}]
        PROVE  /\ \A v \in Jobs \ {w} : cut'[v] = cut[v]
               /\ \A v \in Jobs : cut[v] \subseteq cut'[v]
    BY <2>1, <2>3
  <2> QED
    BY <2>2, <2>3
<1>7. CommittedAsCounted'
  BY <1>1, <1>2, <1>3 DEF CommittedAsCounted
<1>8. OpenUntilCommit'
  <2> SUFFICES ASSUME NEW v \in Jobs, pc'[v] \in Uncommitted, B(v) \notin overlapped
               PROVE  MayStart(B(v)) \/ (pc'[v] = "failing" /\ "error" \in cut'[v]
                                         /\ batch[B(v)].status = "complete")
    BY DEF OpenUntilCommit, MayStart, Late
  <2>1. CASE v # w
    BY <1>1, <1>2, <1>6, <2>1 DEF OpenUntilCommit, Late
  <2>2. CASE v = w
    BY <1>1, <1>2, <2>2 DEF OpenUntilCommit, Late, CommittedAsCounted
  <2> QED
    BY <2>1, <2>2
<1>9. InsertsAreNew'
  <2> SUFFICES ASSUME NEW v \in Jobs, pc'[v] = "rows", NEW c \in acc'[v]
               PROVE  complaints[c] = Nobody /\ \A u \in Jobs \ {v} : pc'[u] = "rows" => c \notin acc'[u]
    BY DEF InsertsAreNew
  <2>1. v # w /\ pc[v] = "rows" /\ c \in acc[v]
    BY <1>2, <1>3
  <2>2. \A u \in Jobs \ {v} : pc'[u] = "rows" => c \notin acc'[u]
    BY <1>1, <1>2, <1>3, <2>1 DEF InsertsAreNew
  <2> QED
    BY <1>1, <2>1, <2>2 DEF InsertsAreNew
<1>10. RowsAccountedFor'
  <2>1. IsFiniteSet({}) /\ Cardinality({}) = 0
    BY FS_EmptySet
  <2> QED
    BY <1>1, <1>2, <1>3, <2>1 DEF RowsAccountedFor
<1>11. \A b \in Batches : /\ Doubted(b) => Doubted(b)'
                          /\ Doubted(b)' => Doubted(b) \/ (b = B(w) /\ pc[w] = "committed")
  BY <1>6 DEF Doubted
<1>12. AllOrNothing'
  BY <1>1, <1>11 DEF AllOrNothing, StoredFrom
<1>13. CountsMatchTable'
  BY <1>1, <1>11 DEF CountsMatchTable, CommittedAsCounted, StoredFrom
<1>14. EventTellsTruth'
  BY <1>1 DEF EventTellsTruth
<1> QED
  BY <1>5, <1>7, <1>8, <1>9, <1>10, <1>12, <1>13, <1>14
     DEF BatchInv, Jobwise, Rowwise, BatchTellsOneStory

-----------------------------------------------------------------------------
(* Steps that write the batch.                                             *)

\* create_batch commits the row of a batch that no job has run, and may fail after it.
LEMMA AcceptStep ==
  ASSUME BatchInv, NEW b \in Batches, Accept(b) \/ CreateFails(b), batch' # batch
  PROVE  BatchInv'
<1>1. /\ Types /\ ShownOnceAccepted /\ OneAtATime /\ ShownBeforeRun /\ OpenUntilCommit
      /\ CommittedAsCounted /\ EventIsLast /\ InsertsAreNew /\ RowsAccountedFor
      /\ AllOrNothing /\ CountsMatchTable /\ EventTellsTruth
  BY DEF BatchInv, Jobwise, Rowwise, BatchTellsOneStory
<1>2. PICK a \in {"accepted", "failed"} :
        /\ api[b] = "enqueued" /\ api' = [api EXCEPT ![b] = a]
        /\ batch' = [batch EXCEPT ![b].status = "pending"]
        /\ sent' = sent /\ files' = files /\ pc' = pc /\ try' = try /\ next' = next /\ acc' = acc
        /\ rej' = rej /\ complaints' = complaints /\ agents' = agents /\ event' = event
        /\ overlapped' = overlapped /\ cut' = cut
        /\ faults' = faults \/ (faults < MaxFaults /\ faults' = faults + 1)
  BY DEF Accept, CreateFails, Spend, Local, table
<1>3. /\ batch[b].status = "none"
      /\ batch'[b].status = "pending" /\ batch'[b].accepted = batch[b].accepted
      /\ batch'[b].rejected = batch[b].rejected
      /\ \A d \in Batches \ {b} : batch'[d] = batch[d]
      /\ api'[b] = a /\ \A d \in Batches \ {b} : api'[d] = api[d]
  BY <1>1, <1>2 DEF Types, TypeOK, ShownOnceAccepted
<1>4. \A w \in Jobs : B(w) = b => pc[w] \notin Running
  BY <1>1, <1>3 DEF ShownBeforeRun
<1>5. \A w \in Jobs : B(w) \in Batches
  BY BatchOfJob
<1>6. Types'
  <2>1. batch' \in [Batches -> [status : Statuses, accepted : Nat, rejected : Nat]]
    BY <1>1, <1>2 DEF Types, Statuses
  <2>2. api' \in [Batches -> {"idle", "enqueued", "accepted", "failed"}]
    BY <1>1, <1>2 DEF Types, TypeOK
  <2>3. \A d \in Batches : /\ batch'[d].status \in {"none", "pending", "processing"} \cup Terminal
                           /\ {batch'[d].accepted, batch'[d].rejected} \subseteq 0..Len(RowsOf[d])
    <3>1. \A d \in Batches : {batch[d].accepted, batch[d].rejected} \subseteq 0..Len(RowsOf[d])
      BY <1>1 DEF Types, TypeOK
    <3>2. \A d \in Batches : batch'[d].accepted = batch[d].accepted /\ batch'[d].rejected = batch[d].rejected
      BY <1>3
    <3>3. \A d \in Batches : batch'[d].status \in Statuses
      BY <2>1
    <3> QED
      BY <3>1, <3>2, <3>3 DEF Statuses, Terminal
  <2>4. faults' \in 0..MaxFaults
    BY <1>1, <1>2, BatchAssumption DEF Types, TypeOK
  <2> QED
    BY <1>1, <1>2, <2>1, <2>2, <2>3, <2>4 DEF Types, TypeOK
<1>7. ShownOnceAccepted'
  BY <1>1, <1>3 DEF ShownOnceAccepted
<1>8. OneAtATime' /\ EventIsLast' /\ InsertsAreNew' /\ RowsAccountedFor'
  BY <1>1, <1>2 DEF OneAtATime, EventIsLast, InsertsAreNew, RowsAccountedFor
<1>9. ShownBeforeRun' /\ OpenUntilCommit'
  <2>1. \A w \in Jobs : pc[w] \in Running => batch'[B(w)] = batch[B(w)]
    BY <1>3, <1>4, <1>5
  <2>2. \A w \in Jobs : pc[w] \in Uncommitted => pc[w] \in Running
    BY DEF Uncommitted, Running
  <2> QED
    BY <1>1, <1>2, <2>1, <2>2 DEF ShownBeforeRun, OpenUntilCommit, MayStart, Late
<1>10. CommittedAsCounted'
  BY <1>1, <1>2, <1>3, <1>5 DEF CommittedAsCounted
<1>11. AllOrNothing'
  BY <1>1, <1>2, <1>3 DEF AllOrNothing, StoredFrom, Doubted
<1>12. CountsMatchTable'
  <2>1. \A d \in Batches : /\ StoredFrom(d)' = StoredFrom(d) /\ Doubted(d)' = Doubted(d)
                           /\ batch'[d].status = "complete" => batch[d].status = "complete"
                           /\ batch'[d].accepted = batch[d].accepted
                           /\ batch'[d].rejected = batch[d].rejected
    BY <1>2, <1>3 DEF StoredFrom, Doubted
  <2> QED
    BY <1>1, <1>2, <2>1 DEF CountsMatchTable
<1>13. EventTellsTruth'
  BY <1>1, <1>2, <1>3, <1>5 DEF EventTellsTruth
<1> QED
  BY <1>6, <1>7, <1>8, <1>9, <1>10, <1>11, <1>12, <1>13
     DEF BatchInv, Jobwise, Rowwise, BatchTellsOneStory

\* Phase 1 and _mark_failed write the status of a batch that is still open, unless two
\* jobs ran it at the same time or the job has completed it before the error.
LEMMA StatusStep ==
  ASSUME BatchInv, NEW w \in Jobs, SetProcessing(w) \/ MarkFailed(w)
  PROVE  BatchInv' /\ (B(w) \notin overlapped => MayStart(B(w)) \/ (Late(w) /\ MarkFailed(w)))
<1>1. /\ Types /\ ShownOnceAccepted /\ OneAtATime /\ ShownBeforeRun /\ OpenUntilCommit
      /\ CommittedAsCounted /\ EventIsLast /\ InsertsAreNew /\ RowsAccountedFor
      /\ AllOrNothing /\ CountsMatchTable /\ EventTellsTruth
  BY DEF BatchInv, Jobwise, Rowwise, BatchTellsOneStory
<1>2. PICK s \in {"started", "done"}, new \in {"processing", "failed"} :
        /\ pc' = [pc EXCEPT ![w] = s] /\ batch' = [batch EXCEPT ![B(w)].status = new]
        /\ s = "started" => new = "processing"
        /\ pc[w] = "failing" => new = "failed" /\ MarkFailed(w)
  BY DEF SetProcessing, MarkFailed, GoTo
<1>3. /\ pc[w] \in Uncommitted /\ pc[w] \in Running
      /\ api' = api /\ sent' = sent /\ files' = files /\ try' = try /\ next' = next /\ acc' = acc
      /\ rej' = rej /\ complaints' = complaints /\ agents' = agents /\ event' = event
      /\ overlapped' = overlapped /\ cut' = cut /\ faults' = faults
  BY DEF SetProcessing, MarkFailed, intake, Local, table, Uncommitted, Running
<1> DEFINE b == B(w)
<1>4. b \in Batches /\ \A v \in Jobs : B(v) \in Batches
  BY BatchOfJob
<1>5. /\ batch'[b].status = new /\ batch'[b].accepted = batch[b].accepted
      /\ batch'[b].rejected = batch[b].rejected
      /\ \A d \in Batches \ {b} : batch'[d] = batch[d]
      /\ pc'[w] = s /\ \A v \in Jobs \ {w} : pc'[v] = pc[v]
  BY <1>1, <1>2, <1>4 DEF Types, TypeOK
<1>6. /\ b \notin overlapped => MayStart(b) \/ Late(w)
      /\ Late(w) => new = "failed" /\ MarkFailed(w) /\ Doubted(b)
      /\ batch[b].status # "none" /\ api[b] \notin {"idle", "enqueued"}
  BY <1>1, <1>2, <1>3, <1>4
     DEF OpenUntilCommit, ShownBeforeRun, ShownOnceAccepted, Late, Doubted
<1>7. \A v \in Jobs \ {w} : B(v) = b /\ b \notin overlapped => pc[v] \notin Running
  BY <1>1, <1>3 DEF OneAtATime
<1>8. \A v \in Jobs : pc[v] \in Uncommitted \cup {"committed"} <=> pc[v] \in Running
  BY DEF Uncommitted, Running
<1>9. s = "started" => s \in Running /\ s \in Uncommitted
  BY DEF Uncommitted, Running
<1>10. s = "done" => s \notin Running /\ s \notin Uncommitted
  BY DEF Uncommitted, Running
<1> HIDE DEF b
<1>11. Types'
  <2>1. batch' \in [Batches -> [status : Statuses, accepted : Nat, rejected : Nat]]
    BY <1>1, <1>2 DEF Types, Statuses
  <2>2. pc' \in [Jobs -> {"absent", "queued", "done"} \cup Running]
    BY <1>1, <1>2 DEF Types, TypeOK, Running
  <2>3. \A d \in Batches : /\ batch'[d].status \in {"none", "pending", "processing"} \cup Terminal
                           /\ {batch'[d].accepted, batch'[d].rejected} \subseteq 0..Len(RowsOf[d])
    <3>1. \A d \in Batches : {batch[d].accepted, batch[d].rejected} \subseteq 0..Len(RowsOf[d])
      BY <1>1 DEF Types, TypeOK
    <3>2. \A d \in Batches : batch'[d].accepted = batch[d].accepted /\ batch'[d].rejected = batch[d].rejected
      BY <1>5
    <3>3. \A d \in Batches : batch'[d].status \in Statuses
      BY <2>1
    <3> QED
      BY <3>1, <3>2, <3>3 DEF Statuses, Terminal
  <2> QED
    BY <1>1, <1>3, <2>1, <2>2, <2>3 DEF Types, TypeOK
<1>12. ShownOnceAccepted'
  BY <1>1, <1>3, <1>5, <1>6 DEF ShownOnceAccepted
<1>13. OneAtATime' /\ EventIsLast'
  BY <1>1, <1>3, <1>5, <1>9, <1>10, <1>2 DEF OneAtATime, EventIsLast
<1>14. ShownBeforeRun'
  <2> SUFFICES ASSUME NEW v \in Jobs, pc'[v] \in Running PROVE batch'[B(v)].status # "none"
    BY DEF ShownBeforeRun
  <2>1. pc[v] \in Running
    BY <1>3, <1>5
  <2> QED
    BY <1>1, <1>4, <1>5, <1>2, <2>1 DEF ShownBeforeRun
<1>15. OpenUntilCommit'
  <2> SUFFICES ASSUME NEW v \in Jobs, pc'[v] \in Uncommitted, B(v) \notin overlapped
               PROVE  MayStart(B(v))' \/ Late(v)'
    BY <1>3 DEF OpenUntilCommit
  <2>1. CASE v = w
    BY <1>2, <1>5, <1>10, <2>1 DEF b, MayStart
  <2>2. CASE v # w
    <3>1. pc[v] \in Uncommitted /\ B(v) # b
      BY <1>5, <1>7, <1>8, <2>2
    <3> QED
      BY <1>1, <1>3, <1>4, <1>5, <2>2, <3>1 DEF OpenUntilCommit, MayStart, Late
  <2> QED
    BY <2>1, <2>2
<1>16. CommittedAsCounted'
  <2> SUFFICES ASSUME NEW v \in Jobs, pc'[v] = "committed", B(v) \notin overlapped
               PROVE  batch'[B(v)].status = "complete" /\ batch'[B(v)].rejected = rej[v]
    BY <1>3 DEF CommittedAsCounted
  <2>1. v # w /\ pc[v] = "committed"
    BY <1>2, <1>5
  <2>2. B(v) # b
    BY <1>7, <1>8, <2>1
  <2> QED
    BY <1>1, <1>4, <1>5, <2>1, <2>2 DEF CommittedAsCounted
<1>17. InsertsAreNew' /\ RowsAccountedFor'
  <2>1. \A v \in Jobs : pc'[v] = "rows" => pc[v] = "rows"
    BY <1>2, <1>5
  <2> QED
    BY <1>1, <1>3, <2>1 DEF InsertsAreNew, RowsAccountedFor
<1>18. AllOrNothing'
  <2> SUFFICES ASSUME NEW d \in Batches \ overlapped, StoredFrom(d) # {}
               PROVE  batch'[d].status = "complete" \/ (batch'[d].status = "failed" /\ Doubted(d))
    BY <1>3 DEF AllOrNothing, StoredFrom, Doubted
  <2>1. CASE d # b
    BY <1>1, <1>5, <2>1 DEF AllOrNothing
  <2>2. CASE d = b
    <3>1. ~MayStart(b)
      BY <1>1, <2>2 DEF AllOrNothing, MayStart
    <3> QED
      BY <1>5, <1>6, <2>2, <3>1
  <2> QED
    BY <2>1, <2>2
<1>19. CountsMatchTable'
  <2>1. \A d \in Batches : /\ StoredFrom(d)' = StoredFrom(d) /\ Doubted(d)' = Doubted(d)
                           /\ batch'[d].status = "complete" => batch[d].status = "complete"
                           /\ batch'[d].accepted = batch[d].accepted
                           /\ batch'[d].rejected = batch[d].rejected
    BY <1>2, <1>3, <1>5 DEF StoredFrom, Doubted
  <2> QED
    BY <1>1, <1>3, <2>1 DEF CountsMatchTable
<1>20. EventTellsTruth'
  <2> SUFFICES ASSUME NEW v \in Jobs, event[v] # "none", B(v) \notin overlapped
               PROVE  /\ batch'[B(v)].status = "complete"
                      /\ event[v] = "batch.complete" <=> batch'[B(v)].rejected = 0
    BY <1>3 DEF EventTellsTruth
  <2>1. B(v) # b
    BY <1>1, <1>3 DEF EventIsLast, b
  <2> QED
    BY <1>1, <1>4, <1>5, <2>1 DEF EventTellsTruth
<1> QED
  BY <1>6, <1>11, <1>12, <1>13, <1>14, <1>15, <1>16, <1>17, <1>18, <1>19, <1>20
     DEF BatchInv, Jobwise, Rowwise, BatchTellsOneStory, b

\* The commit stores the job's ids, its counts and the terminal status.
LEMMA CommitStep ==
  ASSUME BatchInv, NEW w \in Jobs, CommitRows(w)
  PROVE  BatchInv' /\ (B(w) \notin overlapped => MayStart(B(w)))
<1>1. /\ Types /\ ShownOnceAccepted /\ OneAtATime /\ ShownBeforeRun /\ OpenUntilCommit
      /\ CommittedAsCounted /\ EventIsLast /\ InsertsAreNew /\ RowsAccountedFor
      /\ AllOrNothing /\ CountsMatchTable /\ EventTellsTruth
  BY DEF BatchInv, Jobwise, Rowwise, BatchTellsOneStory
<1> DEFINE b == B(w)
           n == Cardinality(acc[w])
<1>2. /\ pc[w] = "rows" /\ ~ (next[w] <= Len(RowsOf[b]))
      /\ complaints' = [c \in Ids |-> IF c \in acc[w] THEN w ELSE complaints[c]]
      /\ batch' = [batch EXCEPT ![b] = [status |-> "complete", accepted |-> n, rejected |-> rej[w]]]
      /\ pc' = [pc EXCEPT ![w] = "committed"]
      /\ api' = api /\ sent' = sent /\ files' = files /\ try' = try /\ next' = next /\ acc' = acc
      /\ rej' = rej /\ agents' = agents /\ event' = event
      /\ overlapped' = overlapped /\ cut' = cut /\ faults' = faults
  BY DEF CommitRows, HasRow, intake, Local, GoTo
<1>3. b \in Batches /\ (\A v \in Jobs : B(v) \in Batches) /\ Len(RowsOf[b]) \in Nat
  BY BatchOfJob
<1>4. /\ acc[w] \subseteq Ids /\ IsFiniteSet(acc[w]) /\ n \in Nat /\ rej[w] \in Nat
      /\ n + rej[w] = Len(RowsOf[b])
  <2>1. /\ acc[w] \subseteq Ids /\ next[w] \in 1..(Len(RowsOf[b]) + 1) /\ rej[w] \in Nat
    BY <1>1 DEF Types, TypeOK
  <2>2. IsFiniteSet(acc[w]) /\ next[w] = n + rej[w] + 1 /\ n \in Nat
    BY <1>1, <1>2, FS_CardinalityType DEF RowsAccountedFor
  <2> HIDE DEF b, n
  <2> QED
    BY <1>2, <1>3, <2>1, <2>2
<1> HIDE DEF n
<1>5. /\ batch'[b].status = "complete" /\ batch'[b].accepted = n
      /\ batch'[b].rejected = rej[w]
      /\ \A d \in Batches \ {b} : batch'[d] = batch[d]
      /\ pc'[w] = "committed" /\ \A v \in Jobs \ {w} : pc'[v] = pc[v]
  BY <1>1, <1>2, <1>3 DEF Types, TypeOK
<1>6. /\ b \notin overlapped => MayStart(b) /\ batch[b].status # "complete"
      /\ batch[b].status # "none" /\ api[b] \notin {"idle", "enqueued"}
      /\ pc[w] \in Running
  BY <1>1, <1>2, <1>3 DEF OpenUntilCommit, ShownBeforeRun, ShownOnceAccepted, MayStart, Running,
     Uncommitted, Late
<1>7. \A v \in Jobs \ {w} : B(v) = b /\ b \notin overlapped => pc[v] \notin Running
  BY <1>1, <1>6 DEF OneAtATime
<1>8. \A v \in Jobs : pc[v] \in Uncommitted \cup {"committed"} <=> pc[v] \in Running
  BY DEF Uncommitted, Running
<1>9. /\ \A c \in acc[w] : complaints[c] = Nobody /\ complaints'[c] = w
      /\ \A c \in Ids \ acc[w] : complaints'[c] = complaints[c]
  BY <1>1, <1>2, <1>4 DEF InsertsAreNew
<1>10. /\ \A d \in Batches \ {b} : StoredFrom(d)' = StoredFrom(d)
       /\ StoredFrom(b) = {} => StoredFrom(b)' = acc[w]
  <2> SUFFICES ASSUME NEW c \in Ids
               PROVE  /\ \A d \in Batches \ {b} :
                             (complaints'[c] \in Jobs /\ B(complaints'[c]) = d)
                               <=> (complaints[c] \in Jobs /\ B(complaints[c]) = d)
                      /\ StoredFrom(b) = {} =>
                           ((complaints'[c] \in Jobs /\ B(complaints'[c]) = b) <=> c \in acc[w])
    BY <1>4 DEF StoredFrom
  <2>1. CASE c \in acc[w]
    BY <1>9, <2>1, BatchAssumption
  <2>2. CASE c \notin acc[w]
    BY <1>9, <2>2 DEF StoredFrom
  <2> QED
    BY <2>1, <2>2
<1> HIDE DEF b
<1>11. Types'
  <2>1. batch' \in [Batches -> [status : Statuses, accepted : Nat, rejected : Nat]]
    BY <1>1, <1>2, <1>3, <1>4 DEF Types, Statuses
  <2>2. pc' \in [Jobs -> {"absent", "queued", "done"} \cup Running]
    BY <1>1, <1>2 DEF Types, TypeOK, Running
  <2>3. \A d \in Batches : /\ batch'[d].status \in {"none", "pending", "processing"} \cup Terminal
                           /\ {batch'[d].accepted, batch'[d].rejected} \subseteq 0..Len(RowsOf[d])
    <3>1. \A d \in Batches : {batch[d].accepted, batch[d].rejected} \subseteq 0..Len(RowsOf[d])
      BY <1>1 DEF Types, TypeOK
    <3>2. n \in 0..Len(RowsOf[b]) /\ rej[w] \in 0..Len(RowsOf[b])
      BY <1>3, <1>4
    <3>3. \A d \in Batches : batch'[d].status \in Statuses
      BY <2>1
    <3> QED
      BY <1>5, <3>1, <3>2, <3>3 DEF Statuses, Terminal
  <2>4. complaints' \in [Ids -> Jobs \cup {Nobody}]
    BY <1>1, <1>2 DEF Types, TypeOK
  <2> QED
    BY <1>1, <1>2, <2>1, <2>2, <2>3, <2>4 DEF Types, TypeOK
<1>12. ShownOnceAccepted'
  BY <1>1, <1>2, <1>5, <1>6 DEF ShownOnceAccepted
<1>13. OneAtATime' /\ EventIsLast'
  BY <1>1, <1>2, <1>5, <1>6 DEF OneAtATime, EventIsLast
<1>14. ShownBeforeRun'
  <2> SUFFICES ASSUME NEW v \in Jobs, pc'[v] \in Running PROVE batch'[B(v)].status # "none"
    BY DEF ShownBeforeRun
  <2>1. pc[v] \in Running
    BY <1>5, <1>6
  <2> QED
    BY <1>1, <1>3, <1>5, <2>1 DEF ShownBeforeRun
<1>15. OpenUntilCommit'
  <2> SUFFICES ASSUME NEW v \in Jobs, pc'[v] \in Uncommitted, B(v) \notin overlapped
               PROVE  MayStart(B(v))' \/ Late(v)'
    BY <1>2 DEF OpenUntilCommit
  <2>1. v # w
    BY <1>5 DEF Uncommitted
  <2>2. pc[v] \in Uncommitted /\ B(v) # b
    BY <1>5, <1>7, <1>8, <2>1
  <2> QED
    BY <1>1, <1>2, <1>3, <1>5, <2>1, <2>2 DEF OpenUntilCommit, MayStart, Late
<1>16. CommittedAsCounted'
  <2> SUFFICES ASSUME NEW v \in Jobs, pc'[v] = "committed", B(v) \notin overlapped
               PROVE  batch'[B(v)].status = "complete" /\ batch'[B(v)].rejected = rej[v]
    BY <1>2 DEF CommittedAsCounted
  <2>1. CASE v = w
    BY <1>5, <2>1 DEF b
  <2>2. CASE v # w
    <3>1. pc[v] = "committed" /\ B(v) # b
      BY <1>5, <1>7, <1>8, <2>2
    <3> QED
      BY <1>1, <1>3, <1>5, <3>1 DEF CommittedAsCounted
  <2> QED
    BY <2>1, <2>2
<1>17. InsertsAreNew'
  <2> SUFFICES ASSUME NEW v \in Jobs, pc'[v] = "rows", NEW c \in acc[v]
               PROVE  /\ complaints'[c] = Nobody
                      /\ \A u \in Jobs \ {v} : pc'[u] = "rows" => c \notin acc[u]
    BY <1>2 DEF InsertsAreNew
  <2>1. v # w /\ pc[v] = "rows"
    BY <1>5
  <2>2. c \notin acc[w] /\ c \in Ids /\ complaints[c] = Nobody
    BY <1>1, <1>2, <2>1 DEF InsertsAreNew, Types, TypeOK
  <2>3. \A u \in Jobs \ {v} : pc'[u] = "rows" => c \notin acc[u]
    BY <1>1, <1>5, <2>1 DEF InsertsAreNew
  <2> QED
    BY <1>9, <2>2, <2>3
<1>18. RowsAccountedFor'
  <2>1. \A v \in Jobs : pc'[v] = "rows" => pc[v] = "rows"
    BY <1>5
  <2> QED
    BY <1>1, <1>2, <2>1 DEF RowsAccountedFor
<1>19. AllOrNothing'
  <2> SUFFICES ASSUME NEW d \in Batches \ overlapped, StoredFrom(d)' # {}
               PROVE  batch'[d].status = "complete" \/ (batch'[d].status = "failed" /\ Doubted(d))
    BY <1>2 DEF AllOrNothing, Doubted
  <2>1. CASE d = b
    BY <1>5, <2>1
  <2>2. CASE d # b
    BY <1>1, <1>5, <1>10, <2>2 DEF AllOrNothing
  <2> QED
    BY <2>1, <2>2
<1>20. CountsMatchTable'
  <2> SUFFICES ASSUME NEW d \in Batches \ overlapped
               PROVE  /\ batch'[d].accepted = Cardinality(StoredFrom(d)')
                      /\ batch'[d].status = "complete" \/ Doubted(d)
                           => batch'[d].accepted + batch'[d].rejected = Len(RowsOf[d])
    BY <1>2 DEF CountsMatchTable, Doubted
  <2>1. CASE d = b
    <3>1. StoredFrom(d) = {}
      BY <1>1, <1>3, <1>6, <2>1 DEF AllOrNothing, MayStart
    <3>2. StoredFrom(d)' = acc[w]
      BY <1>10, <2>1, <3>1
    <3> QED
      BY <1>4, <1>5, <2>1, <3>2 DEF n
  <2>2. CASE d # b
    BY <1>1, <1>5, <1>10, <2>2 DEF CountsMatchTable
  <2> QED
    BY <2>1, <2>2
<1>21. EventTellsTruth'
  <2> SUFFICES ASSUME NEW v \in Jobs, event[v] # "none", B(v) \notin overlapped
               PROVE  /\ batch'[B(v)].status = "complete"
                      /\ event[v] = "batch.complete" <=> batch'[B(v)].rejected = 0
    BY <1>2 DEF EventTellsTruth
  <2>1. B(v) # b
    BY <1>1, <1>6 DEF EventTellsTruth, MayStart
  <2> QED
    BY <1>1, <1>3, <1>5, <2>1 DEF EventTellsTruth
<1> QED
  BY <1>6, <1>11, <1>12, <1>13, <1>14, <1>15, <1>16, <1>17, <1>18, <1>19, <1>20, <1>21
     DEF BatchInv, Jobwise, Rowwise, BatchTellsOneStory, b

\* A job that starts a batch another job is running marks it; one that finds it
\* terminal is over.
LEMMA BeginStep ==
  ASSUME BatchInv, NEW w \in Jobs, Begin(w)
  PROVE  BatchInv'
<1>1. /\ Types /\ ShownOnceAccepted /\ OneAtATime /\ ShownBeforeRun /\ OpenUntilCommit
      /\ CommittedAsCounted /\ EventIsLast /\ InsertsAreNew /\ RowsAccountedFor
      /\ AllOrNothing /\ CountsMatchTable /\ EventTellsTruth
  BY DEF BatchInv, Jobwise, Rowwise, BatchTellsOneStory
<1>2. /\ pc[w] = "queued" /\ try[w] < MaxTries /\ try' = [try EXCEPT ![w] = @ + 1]
      /\ api' = api /\ sent' = sent /\ files' = files /\ batch' = batch /\ next' = next
      /\ acc' = acc /\ rej' = rej /\ complaints' = complaints /\ agents' = agents
      /\ event' = event /\ cut' = cut /\ faults' = faults
  BY DEF Begin, TriesLeft, intake, Local, table
<1>3. try' \in [Jobs -> 0..MaxTries]
  BY <1>1, <1>2, BatchAssumption DEF Types, TypeOK
<1>4. CASE ~MayStart(B(w))
  <2>1. pc' = [pc EXCEPT ![w] = "done"] /\ overlapped' = overlapped
    BY <1>4 DEF Begin, GoTo
  <2>2. pc' \in [Jobs -> {"absent", "queued", "done"} \cup Running]
    BY <1>1, <2>1 DEF Types, TypeOK
  <2>3. Types'
    BY <1>1, <1>2, <1>3, <2>1, <2>2 DEF Types, TypeOK
  <2>4. ShownOnceAccepted'
    BY <1>1, <1>2 DEF ShownOnceAccepted
  <2> QED
    BY <1>2, <2>1, <2>3, <2>4, MoveStep DEF Uncommitted
<1>5. CASE MayStart(B(w))
  <2>1. /\ pc' = [pc EXCEPT ![w] = "checked"]
        /\ overlapped' = IF Overlaps(w) THEN overlapped \cup {B(w)} ELSE overlapped
    BY <1>5 DEF Begin, GoTo
  <2>2. /\ pc'[w] = "checked" /\ \A v \in Jobs \ {w} : pc'[v] = pc[v]
        /\ overlapped \subseteq overlapped' /\ overlapped' \subseteq Batches
    BY <1>1, <2>1, BatchOfJob DEF Types, TypeOK
  <2>3. Types'
    <3>1. pc' \in [Jobs -> {"absent", "queued", "done"} \cup Running]
      BY <1>1, <2>1 DEF Types, TypeOK, Running
    <3> QED
      BY <1>1, <1>2, <1>3, <2>2, <3>1 DEF Types, TypeOK
  <2>4. OneAtATime'
    <3>1. \A v \in Jobs \ {w} : B(v) = B(w) /\ pc[v] \in Running => B(w) \in overlapped'
      BY <2>1 DEF Overlaps
    <3> QED
      BY <1>1, <2>2, <3>1 DEF OneAtATime
  <2>5. ShownBeforeRun' /\ ShownOnceAccepted'
    BY <1>1, <1>2, <1>5, <2>2 DEF ShownBeforeRun, ShownOnceAccepted, MayStart
  <2>6. OpenUntilCommit'
    BY <1>1, <1>2, <1>5, <2>2 DEF OpenUntilCommit, MayStart, Late
  <2>7. CommittedAsCounted'
    BY <1>1, <1>2, <2>2 DEF CommittedAsCounted
  <2>8. Rowwise'
    BY <1>1, <1>2, <2>2 DEF Rowwise, InsertsAreNew, RowsAccountedFor
  <2>9. AllOrNothing' /\ CountsMatchTable'
    BY <1>1, <1>2, <2>2 DEF AllOrNothing, CountsMatchTable, StoredFrom, Doubted
  <2>10. EventTellsTruth'
    BY <1>1, <1>2, <2>2 DEF EventTellsTruth
  <2>11. EventIsLast'
    <3> SUFFICES ASSUME NEW v \in Jobs, NEW u \in Jobs, event[v] # "none", B(v) = B(u),
                        B(v) \notin overlapped', pc'[u] \in Running
                 PROVE  FALSE
      BY <1>2 DEF EventIsLast
    <3>1. CASE u = w
      BY <1>1, <1>5, <2>2, <3>1 DEF EventTellsTruth, MayStart
    <3>2. CASE u # w
      BY <1>1, <2>2, <3>2 DEF EventIsLast
    <3> QED
      BY <3>1, <3>2
  <2> QED
    BY <2>3, <2>4, <2>5, <2>6, <2>7, <2>8, <2>9, <2>10, <2>11
       DEF BatchInv, Jobwise, BatchTellsOneStory
<1> QED
  BY <1>4, <1>5

\* The webhook is of the batch as the job committed it.
LEMMA AnnounceStep ==
  ASSUME BatchInv, NEW w \in Jobs, EnqueueWebhook(w)
  PROVE  BatchInv'
<1>1. /\ Types /\ ShownOnceAccepted /\ OneAtATime /\ ShownBeforeRun /\ OpenUntilCommit
      /\ CommittedAsCounted /\ EventIsLast /\ InsertsAreNew /\ RowsAccountedFor
      /\ AllOrNothing /\ CountsMatchTable /\ EventTellsTruth
  BY DEF BatchInv, Jobwise, Rowwise, BatchTellsOneStory
<1>2. /\ pc[w] = "committed" /\ pc' = [pc EXCEPT ![w] = "done"] /\ Fresh(w)
      /\ api' = api /\ sent' = sent /\ files' = files /\ batch' = batch /\ try' = try
      /\ complaints' = complaints /\ agents' = agents /\ overlapped' = overlapped /\ cut' = cut
      /\ faults' = faults \/ (faults < MaxFaults /\ faults' = faults + 1)
      /\ event' = event \/ event' = [event EXCEPT ![w] = EventFor(w)]
  BY DEF EnqueueWebhook, Spend, intake, GoTo
<1>3. /\ next' \in [Jobs -> Nat] /\ rej' \in [Jobs -> Nat] /\ acc' \in [Jobs -> SUBSET Ids]
      /\ \A v \in Jobs : next'[v] \in 1..(Len(RowsOf[B(v)]) + 1)
      /\ \A v \in Jobs : rej'[v] \in 0..Len(RowsOf[B(v)])
      /\ \A v \in Jobs \ {w} : acc'[v] = acc[v] /\ next'[v] = next[v] /\ rej'[v] = rej[v]
  BY <1>1, <1>2, FreshTypes
<1>4. pc'[w] = "done" /\ \A v \in Jobs \ {w} : pc'[v] = pc[v]
  BY <1>1, <1>2 DEF Types, TypeOK
<1>5. Types'
  <2>1. faults' \in 0..MaxFaults
    BY <1>1, <1>2, BatchAssumption DEF Types, TypeOK
  <2>2. pc' \in [Jobs -> {"absent", "queued", "done"} \cup Running]
    BY <1>1, <1>2 DEF Types, TypeOK
  <2>3. event' \in [Jobs -> {"none", "batch.complete", "batch.complete_with_errors"}]
    BY <1>1, <1>2 DEF Types, TypeOK, EventFor
  <2> QED
    BY <1>1, <1>2, <1>3, <2>1, <2>2, <2>3 DEF Types, TypeOK
<1>6. OneAtATime' /\ ShownBeforeRun'
  <2>1. \A v \in Jobs : pc'[v] \in Running => pc[v] \in Running
    BY <1>4 DEF Running
  <2> QED
    BY <1>1, <1>2, <2>1 DEF OneAtATime, ShownBeforeRun
<1>7. OpenUntilCommit' /\ ShownOnceAccepted'
  <2>1. \A v \in Jobs : pc'[v] \in Uncommitted => pc[v] \in Uncommitted
    BY <1>4 DEF Uncommitted
  <2> QED
    BY <1>1, <1>2, <1>4, <2>1 DEF OpenUntilCommit, ShownOnceAccepted, MayStart, Late
<1>8. CommittedAsCounted' /\ Rowwise'
  BY <1>1, <1>2, <1>3, <1>4 DEF CommittedAsCounted, Rowwise, InsertsAreNew, RowsAccountedFor
<1>9. AllOrNothing' /\ CountsMatchTable'
  BY <1>1, <1>2 DEF AllOrNothing, CountsMatchTable, StoredFrom, Doubted
<1>10. EventTellsTruth'
  <2> SUFFICES ASSUME NEW v \in Jobs, event'[v] # "none", B(v) \notin overlapped
               PROVE  /\ batch[B(v)].status = "complete"
                      /\ event'[v] = "batch.complete" <=> batch[B(v)].rejected = 0
    BY <1>2 DEF EventTellsTruth
  <2>1. CASE event'[v] = event[v]
    BY <1>1, <2>1 DEF EventTellsTruth
  <2>2. CASE event'[v] # event[v]
    <3>1. v = w /\ event'[w] = EventFor(w)
      BY <1>1, <1>2, <2>2 DEF Types, TypeOK
    <3> QED
      BY <1>1, <1>2, <3>1 DEF CommittedAsCounted, EventFor
  <2> QED
    BY <2>1, <2>2
<1>11. EventIsLast'
  <2> SUFFICES ASSUME NEW v \in Jobs, NEW u \in Jobs, event'[v] # "none", B(v) = B(u),
                      B(v) \notin overlapped, pc'[u] \in Running
               PROVE  FALSE
    BY <1>2 DEF EventIsLast
  <2>1. u # w /\ pc[u] \in Running /\ pc[w] \in Running
    BY <1>2, <1>4 DEF Running
  <2>2. CASE v = w
    BY <1>1, <2>1, <2>2 DEF OneAtATime
  <2>3. CASE v # w
    <3>1. event'[v] = event[v]
      BY <1>1, <1>2, <2>3 DEF Types, TypeOK
    <3> QED
      BY <1>1, <2>1, <3>1 DEF EventIsLast
  <2> QED
    BY <2>2, <2>3
<1> QED
  BY <1>5, <1>6, <1>7, <1>8, <1>9, <1>10, <1>11 DEF BatchInv, Jobwise, BatchTellsOneStory

\* The request's other steps, and an operator's: at most a job is queued.
LEMMA RequestStep ==
  ASSUME BatchInv,
         \/ \E b \in Batches : Enqueue(b) \/ EnqueueFails(b) \/ CreateFails(b) \/ Prune(b)
         \/ \E w \in Jobs : Reenqueue(w),
         batch' = batch
  PROVE  BatchInv'
<1>1. Types /\ ShownOnceAccepted /\ Rowwise
  BY DEF BatchInv
<1>2. /\ batch' = batch /\ try' = try /\ next' = next /\ acc' = acc /\ rej' = rej
      /\ complaints' = complaints /\ agents' = agents /\ event' = event /\ overlapped' = overlapped
      /\ cut' = cut
  BY DEF Enqueue, EnqueueFails, CreateFails, Prune, Reenqueue, Local, table
<1>3. /\ sent' \subseteq Batches /\ files' \subseteq Batches
  BY <1>1 DEF Enqueue, EnqueueFails, CreateFails, Prune, Reenqueue, intake, Types, TypeOK
<1>4. faults' \in 0..MaxFaults
  <2>1. faults' = faults \/ (faults < MaxFaults /\ faults' = faults + 1)
    BY DEF Enqueue, EnqueueFails, CreateFails, Prune, Reenqueue, Spend
  <2> QED
    BY <1>1, <2>1, BatchAssumption DEF Types, TypeOK
<1>5. /\ api' \in [Batches -> {"idle", "enqueued", "accepted", "failed"}]
      /\ \A d \in Batches : api'[d] \in {"idle", "enqueued"} => api[d] \in {"idle", "enqueued"}
  <2>1. \/ api' = api
        \/ \E b \in Batches : /\ api[b] \in {"idle", "enqueued"}
                              /\ \E a \in {"enqueued", "failed"} : api' = [api EXCEPT ![b] = a]
    BY DEF Enqueue, EnqueueFails, CreateFails, Prune, Reenqueue, intake
  <2> QED
    BY <1>1, <2>1 DEF Types, TypeOK
<1>6. ShownOnceAccepted'
  BY <1>1, <1>2, <1>5 DEF ShownOnceAccepted
<1>7. pc' = pc \/ \E w \in Jobs : pc' = [pc EXCEPT ![w] = "queued"]
  BY DEF Enqueue, EnqueueFails, CreateFails, Prune, Reenqueue, GoTo
<1>8. pc' \in [Jobs -> {"absent", "queued", "done"} \cup Running]
  BY <1>1, <1>7 DEF Types, TypeOK
<1>9. Types'
  BY <1>1, <1>2, <1>3, <1>4, <1>5, <1>8 DEF Types, TypeOK
<1>10. CASE pc' = pc
  <2>1. Rowwise'
    BY <1>1, <1>2, <1>10 DEF Rowwise, InsertsAreNew, RowsAccountedFor
  <2> QED
    BY <1>2, <1>6, <1>9, <1>10, <2>1, QuietStep
<1>11. ASSUME NEW w \in Jobs, pc' = [pc EXCEPT ![w] = "queued"] PROVE BatchInv'
  BY <1>2, <1>6, <1>9, <1>11, MoveStep DEF Uncommitted
<1> QED
  BY <1>7, <1>10, <1>11

\* The other steps of a job: it reads a row, hands an id to the agents, or goes to
\* the next statement, to an except clause, to the queue or to its end.
LEMMA JobStep ==
  ASSUME BatchInv, NEW w \in Jobs,
         \/ GiveUp(w) \/ OpenFile(w) \/ InsertRow(w) \/ RejectRow(w) \/ Deadlock(w)
         \/ DispatchAgents(w) \/ Error(w) \/ Crash(w)
  PROVE  BatchInv'
<1>1. Types /\ ShownOnceAccepted /\ Rowwise
  BY DEF BatchInv
<1>2. ShownOnceAccepted' /\ batch' = batch /\ complaints' = complaints /\ event' = event
      /\ overlapped' = overlapped /\ api' = api /\ sent' = sent /\ files' = files /\ try' = try
  <2>1. /\ batch' = batch /\ complaints' = complaints /\ event' = event /\ try' = try
        /\ overlapped' = overlapped /\ api' = api /\ sent' = sent /\ files' = files
    BY DEF GiveUp, OpenFile, InsertRow, RejectRow, Deadlock, DispatchAgents, Error, Crash,
           intake, table
  <2> QED
    BY <1>1, <2>1 DEF ShownOnceAccepted
<1>3. CASE InsertRow(w) \/ RejectRow(w)
  <2>1. pc' = pc /\ \A v \in Jobs : pc[v] = "committed" => rej'[v] = rej[v]
    BY <1>1, <1>3 DEF InsertRow, RejectRow, HasRow, Types
  <2>2. cut' = cut
    BY <1>3 DEF InsertRow, RejectRow
  <2> QED
    BY <1>1, <1>2, <1>3, <2>1, <2>2, InsertTypes, RejectTypes, QuietStep
<1>4. CASE DispatchAgents(w)
  <2>1. /\ agents' \subseteq Ids /\ pc' = pc /\ next' = next /\ acc' = acc /\ rej' = rej
        /\ cut' = cut /\ faults' = faults
    BY <1>1, <1>4 DEF DispatchAgents, Local, Types, TypeOK
  <2>2. Types' /\ Rowwise'
    BY <1>1, <1>2, <2>1 DEF Types, TypeOK, Rowwise, InsertsAreNew, RowsAccountedFor
  <2> QED
    BY <1>2, <2>1, <2>2, QuietStep
<1>5. CASE GiveUp(w) \/ OpenFile(w) \/ Deadlock(w) \/ Error(w) \/ Crash(w)
  <2>1. PICK s \in {"queued", "done", "rows", "failing"} :
          /\ pc' = [pc EXCEPT ![w] = s]
          /\ s \in Uncommitted => \/ pc[w] \in Uncommitted \ {"failing"}
                                  \/ pc[w] = "committed" /\ s = "failing" /\ Error(w)
          /\ s = "rows" => OpenFile(w)
    <3>1. CASE GiveUp(w) \/ Crash(w)
      BY <3>1 DEF GiveUp, Crash, GoTo, Uncommitted
    <3>2. CASE Error(w)
      BY <3>2 DEF Error, Except, GoTo, Uncommitted
    <3>3. CASE OpenFile(w) \/ Deadlock(w)
      <4>1. pc[w] \in {"started", "rows"}
        BY <3>3 DEF OpenFile, Deadlock, WaitsFor, HasRow
      <4> QED
        BY <3>3, <4>1 DEF OpenFile, Deadlock, Except, GoTo, Uncommitted
    <3> QED
      BY <1>5, <3>1, <3>2, <3>3
  <2>7. \/ cut' = cut
        \/ /\ pc[w] = "committed"
           /\ \E cause \in {"error", "crash"} : cut' = [cut EXCEPT ![w] = @ \cup {cause}]
    BY <1>5 DEF GiveUp, OpenFile, Deadlock, Error, Crash, CutShort
  <2>8. /\ cut' \in [Jobs -> SUBSET {"error", "crash"}]
        /\ pc[w] = "committed" /\ Error(w) => "error" \in cut'[w]
    <3>1. cut \in [Jobs -> SUBSET {"error", "crash"}]
      BY <1>1 DEF Types, TypeOK
    <3>2. cut' \in [Jobs -> SUBSET {"error", "crash"}]
      BY <2>7, <3>1
    <3>3. pc[w] = "committed" /\ Error(w) => cut' = [cut EXCEPT ![w] = @ \cup {"error"}]
      BY DEF Error, CutShort
    <3> QED
      BY <3>1, <3>2, <3>3
  <2>2. /\ GiveUp(w) \/ Fresh(w)
        /\ GiveUp(w) => next' = next /\ acc' = acc /\ rej' = rej
        /\ agents' = agents
    BY <1>5 DEF GiveUp, OpenFile, Deadlock, Error, Crash, Local, table
  <2>3. faults' \in 0..MaxFaults
    <3>1. faults' = faults \/ (faults < MaxFaults /\ faults' = faults + 1)
      BY <1>5 DEF GiveUp, OpenFile, Deadlock, Error, Crash, Spend
    <3> QED
      BY <1>1, <3>1, BatchAssumption DEF Types, TypeOK
  <2>4. pc' \in [Jobs -> {"absent", "queued", "done"} \cup Running]
    BY <1>1, <2>1 DEF Types, TypeOK, Running
  <2>5. Types'
    <3>1. CASE GiveUp(w)
      BY <1>1, <1>2, <2>2, <2>3, <2>4, <2>8, <3>1 DEF Types, TypeOK
    <3>2. CASE Fresh(w)
      BY <1>1, <1>2, <2>2, <2>3, <2>4, <2>8, <3>2, FreshTypes DEF Types, TypeOK
    <3> QED
      BY <2>2, <3>1, <3>2
  <2>6. s = "rows" => Fresh(w)
    BY <2>1 DEF OpenFile
  <2> QED
    BY <1>2, <2>1, <2>2, <2>5, <2>6, <2>7, <2>8, MoveStep
<1> QED
  BY <1>3, <1>4, <1>5

-----------------------------------------------------------------------------
(* The theorems.                                                           *)

\* No job is queued and nothing stored when the service starts.
LEMMA BatchInit == Init => BatchInv
<1> SUFFICES ASSUME Init PROVE BatchInv
  OBVIOUS
<1>1. /\ api = [b \in Batches |-> "idle"] /\ sent = {} /\ files = {}
      /\ batch = [b \in Batches |-> NewBatch] /\ pc = [w \in Jobs |-> "absent"]
      /\ try = [w \in Jobs |-> 0] /\ next = [w \in Jobs |-> 1] /\ acc = [w \in Jobs |-> {}]
      /\ rej = [w \in Jobs |-> 0] /\ complaints = [c \in Ids |-> Nobody] /\ agents = {}
      /\ event = [w \in Jobs |-> "none"] /\ overlapped = {}
      /\ cut = [w \in Jobs |-> {}] /\ faults = 0
  BY DEF Init
<1>2. Types
  <2>1. batch \in [Batches -> [status : Statuses, accepted : Nat, rejected : Nat]]
    BY <1>1 DEF NewBatch, Statuses
  <2>2. \A b \in Batches : /\ batch[b].status = "none" /\ 0 \in 0..Len(RowsOf[b])
                           /\ batch[b].accepted = 0 /\ batch[b].rejected = 0
    BY <1>1, BatchAssumption DEF NewBatch
  <2>3. \A w \in Jobs : 1 \in 1..(Len(RowsOf[B(w)]) + 1) /\ 0 \in 0..Len(RowsOf[B(w)])
    BY BatchOfJob
  <2> QED
    BY <1>1, <2>1, <2>2, <2>3, BatchAssumption DEF Types, TypeOK, Running
<1>3. ShownOnceAccepted /\ Jobwise /\ Rowwise
  BY <1>1 DEF ShownOnceAccepted, Jobwise, Rowwise, OneAtATime, ShownBeforeRun, OpenUntilCommit,
              CommittedAsCounted, EventIsLast, InsertsAreNew, RowsAccountedFor, NewBatch, Running,
              Uncommitted
<1>4. \A b \in Batches : StoredFrom(b) = {} /\ batch[b].status = "none"
  BY <1>1, BatchAssumption DEF StoredFrom, NewBatch
<1>5. BatchTellsOneStory
  <2>1. \A b \in Batches : batch[b].accepted = Cardinality(StoredFrom(b)) /\ ~Doubted(b)
    BY <1>1, <1>4, FS_EmptySet DEF NewBatch, Doubted
  <2> QED
    BY <1>1, <1>4, <2>1 DEF BatchTellsOneStory, AllOrNothing, CountsMatchTable, EventTellsTruth
<1> QED
  BY <1>2, <1>3, <1>5 DEF BatchInv

\* Every step of every request, job and operator keeps the invariant.
LEMMA BatchStep ==
  ASSUME BatchInv, [Next]_vars
  PROVE  BatchInv'
<1>1. CASE UNCHANGED vars
  <2>1. /\ api' = api /\ sent' = sent /\ files' = files /\ batch' = batch /\ pc' = pc
        /\ try' = try /\ next' = next /\ acc' = acc /\ rej' = rej /\ complaints' = complaints
        /\ agents' = agents /\ event' = event /\ overlapped' = overlapped
        /\ cut' = cut /\ faults' = faults
    BY <1>1 DEF vars
  <2>2. Types' /\ ShownOnceAccepted'
    BY <2>1 DEF BatchInv, Types, TypeOK, ShownOnceAccepted
  <2>3. Rowwise'
    BY <2>1 DEF BatchInv, Rowwise, InsertsAreNew, RowsAccountedFor
  <2> QED
    BY <2>1, <2>2, <2>3, QuietStep
<1>2. ASSUME NEW w \in Jobs, Work(w) \/ Reenqueue(w) \/ Error(w) \/ Crash(w) PROVE BatchInv'
  BY <1>2, BeginStep, StatusStep, CommitStep, AnnounceStep, RequestStep, JobStep
     DEF Work, Reenqueue
<1>3. ASSUME NEW b \in Batches,
             Enqueue(b) \/ EnqueueFails(b) \/ Accept(b) \/ CreateFails(b) \/ Prune(b)
      PROVE  BatchInv'
  <2>1. Accept(b) => batch' # batch
    <3>1. Accept(b) => batch[b].status = "none" /\ batch' = [batch EXCEPT ![b].status = "pending"]
      BY DEF BatchInv, Accept, ShownOnceAccepted
    <3> QED
      BY <3>1 DEF BatchInv, Types
  <2>2. CASE Accept(b) \/ (CreateFails(b) /\ batch' # batch)
    BY <2>1, <2>2, AcceptStep
  <2>3. CASE ~Accept(b) /\ ~(CreateFails(b) /\ batch' # batch)
    <3>1. batch' = batch
      BY <1>3, <2>3 DEF Enqueue, EnqueueFails, Prune
    <3> QED
      BY <1>3, <2>3, <3>1, RequestStep
  <2> QED
    BY <2>2, <2>3
<1> QED
  BY <1>1, <1>2, <1>3 DEF Next, Terminated

\* The inductive invariant of the batch tier.
THEOREM BatchInvariance == Spec => []BatchInv
BY BatchInit, BatchStep, PTL DEF Spec

\* A batch, its rows, its counts and its webhook tell one story, unless two jobs
\* ran it at the same time; a batch says failed with its rows stored only after an
\* error its job met once its commit had landed, and then its counts still tell.
THEOREM OneBatchOneStory == Spec => []BatchTellsOneStory
BY BatchInvariance, PTL DEF BatchInv

\* The status and the counts of a batch are written only while it is open, except
\* that a job may fail the batch it has completed.
LEMMA TerminalKept ==
  ASSUME BatchInv, [Next]_vars, NEW b \in Batches \ overlapped', batch[b].status \in Terminal
  PROVE  \/ batch'[b] = batch[b]
         \/ Doubted(b) /\ batch'[b] = [batch[b] EXCEPT !.status = "failed"]
<1>1. Types /\ ShownOnceAccepted
  BY DEF BatchInv
<1>2. ~MayStart(b) /\ batch[b].status # "none"
  BY DEF Terminal, MayStart
<1>3. CASE batch' = batch
  BY <1>3
<1>4. ASSUME NEW d \in Batches, Accept(d) \/ CreateFails(d), batch' # batch
      PROVE  batch'[b] = batch[b]
  <2>1. batch[d].status = "none" /\ batch' = [batch EXCEPT ![d].status = "pending"]
    BY <1>1, <1>4 DEF Accept, CreateFails, ShownOnceAccepted
  <2> QED
    BY <1>1, <1>2, <2>1 DEF Types
<1>5. ASSUME NEW w \in Jobs, SetProcessing(w) \/ MarkFailed(w) \/ CommitRows(w)
      PROVE  \/ batch'[b] = batch[b]
             \/ Doubted(b) /\ batch'[b] = [batch[b] EXCEPT !.status = "failed"]
  <2>1. /\ b \notin overlapped
        /\ B(w) \notin overlapped => MayStart(B(w)) \/ (Late(w) /\ MarkFailed(w))
    BY <1>5, StatusStep, CommitStep DEF SetProcessing, MarkFailed, CommitRows
  <2>2. CASE b # B(w)
    <3>1. \E e : batch' = [batch EXCEPT ![B(w)] = e]
      BY <1>5 DEF SetProcessing, MarkFailed, CommitRows
    <3> QED
      BY <1>1, <2>2, <3>1 DEF Types
  <2>3. CASE b = B(w)
    <3>1. Doubted(b) /\ batch' = [batch EXCEPT ![b].status = "failed"]
      BY <1>2, <2>1, <2>3 DEF Late, Doubted, MarkFailed
    <3> QED
      BY <1>1, <3>1 DEF Types
  <2> QED
    BY <2>2, <2>3
<1> QED
  BY <1>3, <1>4, <1>5 DEF Next, Terminated, vars, Work, Begin, GiveUp, OpenFile, InsertRow,
     RejectRow, Deadlock, DispatchAgents, EnqueueWebhook, Reenqueue, Error, Crash, Enqueue,
     EnqueueFails, Prune

\* `Once terminal, the row does not change', unless two jobs ran the batch at the
\* same time or its job met an error after its commit: then complete may become
\* failed, and nothing else changes.
THEOREM TerminalIsFinal == Spec => TerminalBatchKept
<1>1. ASSUME BatchInv, [Next]_vars
      PROVE  [\A b \in Batches \ overlapped' : batch[b].status \in Terminal =>
                \/ batch'[b] = batch[b]
                \/ Doubted(b) /\ batch'[b] = [batch[b] EXCEPT !.status = "failed"]]_vars
  BY <1>1, TerminalKept
<1> QED
  BY <1>1, BatchInvariance, PTL DEF Spec, TerminalBatchKept

=============================================================================
