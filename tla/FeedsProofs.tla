------------------------------ MODULE FeedsProofs ------------------------------
(***************************************************************************)
(* Theorems about what passes between the institutions and the platform.   *)
(* WebhookDelivery, for any number of jobs, tries, attempts and faults: a  *)
(* row says `delivered' only of an event that was received, its attempt    *)
(* history is complete, and a job that has settled a row is through with   *)
(* it.  InstitutionFeeds, for any feeds and rows: a run stores a row once  *)
(* and reports what is so.  DemoReplay, for any command line: a recording  *)
(* that ends with 0 is earned.                                             *)
(***************************************************************************)
EXTENDS WebhookDelivery, InstitutionFeeds, DemoReplay, SequenceTheorems, FiniteSetTheorems, WellFoundedInduction,
        TLAPS

-----------------------------------------------------------------------------
(* The inductive invariant.                                                *)

Row == [status : {"pending", "delivered", "delivery_failed"}, attempts : 0..MaxTries,
        history : Nat, tried : Nat, lost : Nat, users : SUBSET Jobs,
        settledBy : Jobs \cup {NoJob}]

Types == TypeOK /\ rows \in Seq(Row)

UnderWay(j) == pc[j] \in {"sent", "recording"}
Writing(j) == pc[j] \in {"ready", "sent", "recording"}

\* A job that works on a row is known to the row.
WorkersHaveRows ==
  \A j \in Jobs : Writing(j) \/ pc[j] = "recorded" =>
    row[j] \in DOMAIN rows /\ j \in rows[row[j]].users

RowsHaveUsers == \A i \in DOMAIN rows : rows[i].users # {}

DeliveriesArrived == \A j \in Jobs : UnderWay(j) /\ outcome[j] = "delivered" => received

\* What _record_attempt has read is the row's history, if nobody else writes it.
ReadIsCurrent ==
  \A i \in DOMAIN rows : \A j \in Jobs :
    rows[i].users = {j} /\ row[j] = i /\ pc[j] = "recording" => seen[j] = rows[i].history

\* A job that settled a row is past every statement that writes it ...
SettlersAreThrough ==
  \A i \in DOMAIN rows : \A j \in Jobs :
    Settled(i) /\ rows[i].settledBy = j /\ row[j] = i => ~Writing(j)

\* ... and, unless something failed, past every statement that sends.
DeliverersAreThrough ==
  \A i \in DOMAIN rows : \A j \in Jobs :
    rows[i].status = "delivered" /\ rows[i].settledBy = j /\ faults = 0
      => pc[j] \in {"recorded", "done"}

DeliveryInv ==
  /\ Types /\ WorkersHaveRows /\ RowsHaveUsers /\ DeliveriesArrived /\ ReadIsCurrent
  /\ SettlersAreThrough /\ DeliverersAreThrough /\ RowsTellWhatHappened

\* Every row of the table has the fields of a row.
LEMMA RowFields ==
  ASSUME rows \in Seq(Row), NEW i \in DOMAIN rows
  PROVE  /\ rows[i] \in Row /\ i \in 1..Len(rows)
         /\ rows[i].history \in Nat /\ rows[i].tried \in Nat /\ rows[i].lost \in Nat
         /\ rows[i].users \in SUBSET Jobs
<1>1. rows[i] \in Row /\ i \in 1..Len(rows)
  OBVIOUS
<1> QED
  BY <1>1 DEF Row

-----------------------------------------------------------------------------
(* Steps that leave the table alone.                                       *)

\* A job that only moves on, to a place where it may do no more than before,
\* keeps the invariant.
LEMMA MoveStep ==
  ASSUME DeliveryInv, NEW j \in Jobs, NEW s \in Steps, pc' = [pc EXCEPT ![j] = s],
         rows' = rows, row' = row, outcome' = outcome, received' = received,
         try' \in [Jobs -> 0..MaxTries],
         faults' \in 0..MaxFaults, faults <= faults',
         s \in {"ready", "sent", "recording"} => Writing(j),
         s = "recorded" => pc[j] = "recorded",
         s \in {"sent", "recording"} <=> UnderWay(j),
         faults' = 0 /\ pc[j] \in {"recorded", "done"} => s \in {"recorded", "done"},
         IF s = "recording"
         THEN seen' = [seen EXCEPT ![j] = rows[row[j]].history]
         ELSE seen' = seen
  PROVE  DeliveryInv'
<1>0. /\ Types /\ WorkersHaveRows /\ RowsHaveUsers /\ DeliveriesArrived /\ ReadIsCurrent
      /\ SettlersAreThrough /\ DeliverersAreThrough /\ RowsTellWhatHappened
  BY DEF DeliveryInv
<1>1. /\ pc'[j] = s /\ \A k \in Jobs \ {j} : pc'[k] = pc[k] /\ seen'[k] = seen[k]
      /\ s = "recording" => seen'[j] = rows[row[j]].history
  BY <1>0 DEF Types, TypeOK
<1>2. Types'
  <2>1. s = "recording" => row[j] \in DOMAIN rows
    BY <1>0 DEF WorkersHaveRows, UnderWay, Writing
  <2>2. s = "recording" => rows[row[j]].history \in Nat
    BY <1>0, <2>1, RowFields DEF Types
  <2> QED
    BY <1>0, <2>2 DEF Types, TypeOK
<1>3. WorkersHaveRows'
  BY <1>0, <1>1 DEF WorkersHaveRows, Writing
<1>4. RowsHaveUsers'
  BY <1>0 DEF RowsHaveUsers
<1>5. DeliveriesArrived'
  BY <1>0, <1>1 DEF DeliveriesArrived, UnderWay
<1>6. ReadIsCurrent'
  BY <1>0, <1>1 DEF ReadIsCurrent
<1>7. SettlersAreThrough'
  BY <1>0, <1>1 DEF SettlersAreThrough, Writing, Settled
<1>8. DeliverersAreThrough'
  <2>1. faults' = 0 => faults = 0
    BY <1>0 DEF Types, TypeOK
  <2> QED
    BY <1>0, <1>1, <2>1 DEF DeliverersAreThrough
<1>9. RowsTellWhatHappened'
  <2>1. \A k \in Jobs : pc'[k] \in {"sent", "recording"} <=> pc[k] \in {"sent", "recording"}
    BY <1>1 DEF UnderWay
  <2>2. AttemptHistoryComplete'
    BY <1>0, <2>1 DEF RowsTellWhatHappened, AttemptHistoryComplete
  <2> QED
    BY <1>0, <2>2 DEF RowsTellWhatHappened, DeliveredWasReceived
<1> QED
  BY <1>2, <1>3, <1>4, <1>5, <1>6, <1>7, <1>8, <1>9 DEF DeliveryInv

-----------------------------------------------------------------------------
(* Steps that change one row.                                              *)

\* A table of which one row changes keeps its type and its other rows.
LEMMA OneRow ==
  ASSUME rows \in Seq(Row), NEW i \in DOMAIN rows, NEW e \in Row,
         rows' = [rows EXCEPT ![i] = e]
  PROVE  /\ rows' \in Seq(Row) /\ DOMAIN rows' = DOMAIN rows /\ Len(rows') = Len(rows)
         /\ rows'[i] = e /\ \A k \in DOMAIN rows \ {i} : rows'[k] = rows[k]
<1>1. rows' \in Seq(Row) /\ Len(rows') = Len(rows)
      /\ \A k \in 1..Len(rows) : rows'[k] = IF k = i THEN e ELSE rows[k]
  BY ExceptSeq
<1>2. DOMAIN rows = 1..Len(rows) /\ DOMAIN rows' = 1..Len(rows')
  BY <1>1
<1> QED
  BY <1>1, <1>2

\* An attempt, sent or refused by the URL check, is counted.
LEMMA AttemptStep ==
  ASSUME DeliveryInv, NEW j \in Jobs, RejectUrl(j) \/ Post(j)
  PROVE  DeliveryInv'
<1>0. /\ Types /\ WorkersHaveRows /\ RowsHaveUsers /\ DeliveriesArrived /\ ReadIsCurrent
      /\ SettlersAreThrough /\ DeliverersAreThrough /\ RowsTellWhatHappened
  BY DEF DeliveryInv
<1> DEFINE i == row[j]
           e == [rows[i] EXCEPT !.tried = @ + 1]
<1>1. /\ pc[j] = "ready" /\ pc' = [pc EXCEPT ![j] = "sent"]
      /\ rows' = [rows EXCEPT ![i] = e]
      /\ try' = try /\ row' = row /\ seen' = seen /\ faults' = faults
  BY DEF RejectUrl, Post, GoTo
<1>2. /\ outcome' \in [Jobs -> {"none", "delivered", "failed", "url_rejected"}]
      /\ \A k \in Jobs \ {j} : outcome'[k] = outcome[k]
      /\ received' \in BOOLEAN /\ (received => received')
      /\ outcome'[j] = "delivered" => received'
  <2>1. CASE RejectUrl(j)
    BY <1>0, <2>1 DEF RejectUrl, Types, TypeOK
  <2>2. CASE Post(j)
    BY <1>0, <2>2 DEF Post, Types, TypeOK
  <2> QED
    BY <2>1, <2>2
<1>3. i \in DOMAIN rows /\ j \in rows[i].users /\ rows[i] \in Row
  BY <1>0, <1>1 DEF WorkersHaveRows, Writing, Types
<1>4. /\ e \in Row /\ e.status = rows[i].status /\ e.history = rows[i].history
      /\ e.lost = rows[i].lost /\ e.users = rows[i].users /\ e.settledBy = rows[i].settledBy
      /\ e.tried = rows[i].tried + 1
  BY <1>3 DEF Row
<1> HIDE DEF e
<1>5. /\ rows' \in Seq(Row) /\ DOMAIN rows' = DOMAIN rows /\ Len(rows') = Len(rows)
      /\ rows'[i] = e /\ \A k \in DOMAIN rows \ {i} : rows'[k] = rows[k]
  BY <1>0, <1>1, <1>3, <1>4, OneRow DEF Types
<1>6. pc'[j] = "sent" /\ \A k \in Jobs \ {j} : pc'[k] = pc[k]
  BY <1>0, <1>1 DEF Types, TypeOK
<1>7. \A k \in DOMAIN rows : /\ rows'[k].users = rows[k].users
                             /\ rows'[k].status = rows[k].status
                             /\ rows'[k].settledBy = rows[k].settledBy
                             /\ rows'[k].history = rows[k].history
                             /\ rows'[k].lost = rows[k].lost
  BY <1>4, <1>5
<1>8. Types'
  <2>1. pc' \in [Jobs -> Steps]
    BY <1>0, <1>1 DEF Types, TypeOK, Steps, Running
  <2>2. \A k \in DOMAIN rows' : rows'[k] \in Row
    BY <1>5
  <2> QED
    BY <1>0, <1>1, <1>2, <1>5, <2>1, <2>2 DEF Types, TypeOK, Row
<1>9. WorkersHaveRows'
  BY <1>0, <1>1, <1>3, <1>5, <1>6, <1>7 DEF WorkersHaveRows, Writing
<1>10. RowsHaveUsers'
  BY <1>0, <1>5, <1>7 DEF RowsHaveUsers
<1>11. DeliveriesArrived'
  BY <1>0, <1>2, <1>6 DEF DeliveriesArrived, UnderWay
<1>12. ReadIsCurrent'
  BY <1>0, <1>1, <1>5, <1>6, <1>7 DEF ReadIsCurrent
<1>13. SettlersAreThrough'
  BY <1>0, <1>1, <1>5, <1>6, <1>7 DEF SettlersAreThrough, Settled, Writing
<1>14. DeliverersAreThrough'
  BY <1>0, <1>1, <1>5, <1>6, <1>7 DEF DeliverersAreThrough
<1>15. DeliveredWasReceived'
  BY <1>0, <1>2, <1>5, <1>7 DEF RowsTellWhatHappened, DeliveredWasReceived
<1>16. AttemptHistoryComplete'
  <2> SUFFICES ASSUME NEW k \in DOMAIN rows, NEW q \in Jobs, rows[k].users = {q}
               PROVE  rows'[k].tried = rows[k].history + rows[k].lost
                        + (IF row[q] = k /\ UnderWay(q)' THEN 1 ELSE 0)
    BY <1>1, <1>5, <1>7 DEF AttemptHistoryComplete, UnderWay
  <2>1. rows[k].tried = rows[k].history + rows[k].lost
                          + (IF row[q] = k /\ UnderWay(q) THEN 1 ELSE 0)
    BY <1>0 DEF RowsTellWhatHappened, AttemptHistoryComplete, UnderWay
  <2>2. /\ rows[k].tried \in Nat /\ rows[k].history \in Nat /\ rows[k].lost \in Nat
    BY <1>0, RowFields DEF Types
  <2>3. CASE k = i
    BY <1>1, <1>3, <1>4, <1>5, <1>6, <2>1, <2>2, <2>3 DEF UnderWay
  <2>4. CASE k # i
    BY <1>1, <1>5, <1>6, <2>1, <2>2, <2>4 DEF UnderWay
  <2> QED
    BY <2>3, <2>4
<1> QED
  BY <1>8, <1>9, <1>10, <1>11, <1>12, <1>13, <1>14, <1>15, <1>16
     DEF DeliveryInv, RowsTellWhatHappened

\* An attempt that a fault cuts off before its record is counted as lost.
LEMMA LostStep ==
  ASSUME DeliveryInv, NEW j \in Jobs, Fault(j), UnderWay(j)
  PROVE  DeliveryInv'
<1>0. /\ Types /\ WorkersHaveRows /\ RowsHaveUsers /\ DeliveriesArrived /\ ReadIsCurrent
      /\ SettlersAreThrough /\ DeliverersAreThrough /\ RowsTellWhatHappened
  BY DEF DeliveryInv
<1> DEFINE i == row[j]
           e == [rows[i] EXCEPT !.lost = @ + 1]
<1>1. PICK s \in {"queued", "done"} : pc' = [pc EXCEPT ![j] = s]
  BY DEF Fault, GoTo
<1>2. /\ rows' = [rows EXCEPT ![i] = e] /\ try' = try /\ row' = row /\ seen' = seen
      /\ outcome' = outcome /\ received' = received
      /\ faults < MaxFaults /\ faults' = faults + 1
  BY DEF Fault, LoseAttempt, UnderWay
<1>3. i \in DOMAIN rows /\ j \in rows[i].users /\ rows[i] \in Row
  BY <1>0, RowFields DEF WorkersHaveRows, Writing, UnderWay, Types
<1>4. /\ e \in Row /\ e.status = rows[i].status /\ e.history = rows[i].history
      /\ e.tried = rows[i].tried /\ e.users = rows[i].users /\ e.settledBy = rows[i].settledBy
      /\ e.lost = rows[i].lost + 1
  BY <1>3 DEF Row
<1> HIDE DEF e
<1>5. /\ rows' \in Seq(Row) /\ DOMAIN rows' = DOMAIN rows /\ Len(rows') = Len(rows)
      /\ rows'[i] = e /\ \A k \in DOMAIN rows \ {i} : rows'[k] = rows[k]
  BY <1>0, <1>2, <1>3, <1>4, OneRow DEF Types
<1>6. pc'[j] = s /\ \A k \in Jobs \ {j} : pc'[k] = pc[k]
  BY <1>0, <1>1 DEF Types, TypeOK
<1>7. \A k \in DOMAIN rows : /\ rows'[k].users = rows[k].users
                             /\ rows'[k].status = rows[k].status
                             /\ rows'[k].settledBy = rows[k].settledBy
                             /\ rows'[k].history = rows[k].history
                             /\ rows'[k].tried = rows[k].tried
  BY <1>4, <1>5
<1>8. Types' /\ faults' > 0
  <2>1. pc' \in [Jobs -> Steps]
    BY <1>0, <1>1 DEF Types, TypeOK, Steps
  <2>2. \A k \in DOMAIN rows' : rows'[k] \in Row
    BY <1>5
  <2>3. faults' \in 0..MaxFaults /\ faults' > 0
    BY <1>0, <1>2, WebhookAssumption DEF Types, TypeOK
  <2> QED
    BY <1>0, <1>2, <1>5, <2>1, <2>2, <2>3 DEF Types, TypeOK, Row
<1>9. WorkersHaveRows'
  BY <1>0, <1>1, <1>2, <1>5, <1>6, <1>7 DEF WorkersHaveRows, Writing
<1>10. RowsHaveUsers'
  BY <1>0, <1>5, <1>7 DEF RowsHaveUsers
<1>11. DeliveriesArrived'
  BY <1>0, <1>1, <1>2, <1>6 DEF DeliveriesArrived, UnderWay
<1>12. ReadIsCurrent'
  BY <1>0, <1>1, <1>2, <1>5, <1>6, <1>7 DEF ReadIsCurrent
<1>13. SettlersAreThrough'
  BY <1>0, <1>1, <1>2, <1>5, <1>6, <1>7 DEF SettlersAreThrough, Settled, Writing
<1>14. DeliverersAreThrough'
  BY <1>8 DEF DeliverersAreThrough, Types, TypeOK
<1>15. DeliveredWasReceived'
  BY <1>0, <1>2, <1>5, <1>7 DEF RowsTellWhatHappened, DeliveredWasReceived
<1>16. AttemptHistoryComplete'
  <2> SUFFICES ASSUME NEW k \in DOMAIN rows, NEW q \in Jobs, rows[k].users = {q}
               PROVE  rows[k].tried = rows[k].history + rows'[k].lost
                        + (IF row[q] = k /\ UnderWay(q)' THEN 1 ELSE 0)
    BY <1>2, <1>5, <1>7 DEF AttemptHistoryComplete, UnderWay
  <2>1. rows[k].tried = rows[k].history + rows[k].lost
                          + (IF row[q] = k /\ UnderWay(q) THEN 1 ELSE 0)
    BY <1>0 DEF RowsTellWhatHappened, AttemptHistoryComplete, UnderWay
  <2>2. /\ rows[k].tried \in Nat /\ rows[k].history \in Nat /\ rows[k].lost \in Nat
    BY <1>0, RowFields DEF Types
  <2>3. CASE k = i
    BY <1>1, <1>3, <1>4, <1>5, <1>6, <2>1, <2>2, <2>3 DEF UnderWay
  <2>4. CASE k # i
    BY <1>1, <1>5, <1>6, <2>1, <2>2, <2>4 DEF UnderWay
  <2> QED
    BY <2>3, <2>4
<1> QED
  BY <1>8, <1>9, <1>10, <1>11, <1>12, <1>13, <1>14, <1>15, <1>16
     DEF DeliveryInv, RowsTellWhatHappened

\* The record of an attempt gives the row its status and an entry in its history.
LEMMA RecordStep ==
  ASSUME DeliveryInv, NEW j \in Jobs, RecordWrite(j)
  PROVE  DeliveryInv'
<1>0. /\ Types /\ WorkersHaveRows /\ RowsHaveUsers /\ DeliveriesArrived /\ ReadIsCurrent
      /\ SettlersAreThrough /\ DeliverersAreThrough /\ RowsTellWhatHappened
  BY DEF DeliveryInv
<1> DEFINE i == row[j]
           e == Written(j)
           s == IF StatusAfter(j) = "pending" THEN "queued" ELSE "recorded"
<1>1. /\ pc[j] = "recording" /\ pc' = [pc EXCEPT ![j] = s]
      /\ rows' = [rows EXCEPT ![i] = e] /\ try' = try /\ row' = row /\ seen' = seen
      /\ outcome' = outcome /\ received' = received /\ faults' = faults
  BY DEF RecordWrite, GoTo
<1>2. /\ i \in DOMAIN rows /\ j \in rows[i].users /\ rows[i] \in Row
      /\ rows[i].users \in SUBSET Jobs
  BY <1>0, <1>1, RowFields DEF WorkersHaveRows, Writing, Types
<1>3. /\ StatusAfter(j) \in {"pending", "delivered", "delivery_failed"}
      /\ StatusAfter(j) = "delivered" => outcome[j] = "delivered"
  BY DEF StatusAfter
<1>4. /\ e \in Row /\ e.status = StatusAfter(j) /\ e.history = seen[j] + 1
      /\ e.tried = rows[i].tried /\ e.lost = rows[i].lost /\ e.users = rows[i].users
      /\ e.settledBy = IF StatusAfter(j) = "pending" THEN NoJob ELSE j
  <2>1. try[j] \in 0..MaxTries /\ seen[j] + 1 \in Nat
    BY <1>0 DEF Types, TypeOK
  <2> HIDE DEF i
  <2>2. e = [rows[i] EXCEPT !.status = StatusAfter(j), !.attempts = try[j],
               !.history = seen[j] + 1,
               !.settledBy = IF StatusAfter(j) = "pending" THEN NoJob ELSE j]
    BY DEF Written, i
  <2> HIDE DEF e
  <2> QED
    BY <1>2, <1>3, <2>1, <2>2 DEF Row
<1>5. s \in {"queued", "recorded"} /\ (e.status = "pending" <=> s = "queued")
  BY <1>4
<1> HIDE DEF e, s
<1>6. /\ rows' \in Seq(Row) /\ DOMAIN rows' = DOMAIN rows /\ Len(rows') = Len(rows)
      /\ rows'[i] = e /\ \A k \in DOMAIN rows \ {i} : rows'[k] = rows[k]
  BY <1>0, <1>1, <1>2, <1>4, OneRow DEF Types
<1>7. pc'[j] = s /\ \A k \in Jobs \ {j} : pc'[k] = pc[k]
  BY <1>0, <1>1 DEF Types, TypeOK
<1>8. \A k \in DOMAIN rows : /\ rows'[k].users = rows[k].users
                             /\ rows'[k].tried = rows[k].tried
                             /\ rows'[k].lost = rows[k].lost
  BY <1>4, <1>6
<1>9. Types'
  <2>1. pc' \in [Jobs -> Steps]
    BY <1>0, <1>1, <1>5 DEF Types, TypeOK, Steps, Running
  <2>2. \A k \in DOMAIN rows' : rows'[k] \in Row
    BY <1>6
  <2> QED
    BY <1>0, <1>1, <1>6, <2>1, <2>2 DEF Types, TypeOK, Row
<1>10. WorkersHaveRows'
  BY <1>0, <1>1, <1>2, <1>5, <1>6, <1>7, <1>8 DEF WorkersHaveRows, Writing
<1>11. RowsHaveUsers'
  BY <1>0, <1>6, <1>8 DEF RowsHaveUsers
<1>12. DeliveriesArrived'
  BY <1>0, <1>1, <1>5, <1>7 DEF DeliveriesArrived, UnderWay
<1>13. ReadIsCurrent'
  BY <1>0, <1>1, <1>2, <1>5, <1>6, <1>7, <1>8 DEF ReadIsCurrent
<1>14. SettlersAreThrough'
  BY <1>0, <1>1, <1>4, <1>5, <1>6, <1>7, WebhookAssumption
     DEF SettlersAreThrough, Settled, Writing
<1>15. DeliverersAreThrough'
  BY <1>0, <1>1, <1>4, <1>5, <1>6, <1>7 DEF DeliverersAreThrough
<1>16. DeliveredWasReceived'
  BY <1>0, <1>1, <1>3, <1>4, <1>6
     DEF RowsTellWhatHappened, DeliveredWasReceived, DeliveriesArrived, UnderWay
<1>17. AttemptHistoryComplete'
  <2> SUFFICES ASSUME NEW k \in DOMAIN rows, NEW q \in Jobs, rows[k].users = {q}
               PROVE  rows[k].tried = rows'[k].history + rows[k].lost
                        + (IF row[q] = k /\ UnderWay(q)' THEN 1 ELSE 0)
    BY <1>1, <1>6, <1>8 DEF AttemptHistoryComplete, UnderWay
  <2>1. rows[k].tried = rows[k].history + rows[k].lost
                          + (IF row[q] = k /\ UnderWay(q) THEN 1 ELSE 0)
    BY <1>0 DEF RowsTellWhatHappened, AttemptHistoryComplete, UnderWay
  <2>2. /\ rows[k].tried \in Nat /\ rows[k].history \in Nat /\ rows[k].lost \in Nat
    BY <1>0, RowFields DEF Types
  <2>3. CASE k = i
    <3>1. q = j /\ seen[j] = rows[k].history
      BY <1>0, <1>1, <1>2, <2>3 DEF ReadIsCurrent
    <3> QED
      BY <1>1, <1>4, <1>5, <1>6, <1>7, <2>1, <2>2, <2>3, <3>1 DEF UnderWay
  <2>4. CASE k # i
    BY <1>1, <1>5, <1>6, <1>7, <2>1, <2>2, <2>4 DEF UnderWay
  <2> QED
    BY <2>3, <2>4
<1> QED
  BY <1>9, <1>10, <1>11, <1>12, <1>13, <1>14, <1>15, <1>16, <1>17
     DEF DeliveryInv, RowsTellWhatHappened

\* The newest of some rows is one of them.
LEMMA NewestIsOne ==
  ASSUME NEW n \in Nat, NEW s \in SUBSET (1..n), s # {}
  PROVE  Newest(s) \in s
<1> DEFINE below == {n - i : i \in s}
<1>1. below \subseteq Nat /\ below # {}
  <2>1. \A i \in s : i \in 1..n /\ n - i \in Nat
    OBVIOUS
  <2> QED
    BY <2>1
<1>2. PICK m \in below : \A k \in below : ~ (<<k, m>> \in OpToRel(<, Nat))
  BY <1>1, NatLessThanWellFounded, WFMin
<1>3. PICK i \in s : m = n - i
  OBVIOUS
<1>4. \A k \in s : k <= i
  <2> SUFFICES ASSUME NEW k \in s PROVE k <= i
    OBVIOUS
  <2>1. ~ (<<n - k, m>> \in OpToRel(<, Nat)) /\ n - k \in Nat /\ m \in Nat
    BY <1>1, <1>2
  <2>2. ~ (n - k < m)
    BY <2>1 DEF OpToRel
  <2> QED
    BY <1>3, <2>2
<1> QED
  BY <1>3, <1>4 DEF Newest

\* A job takes up the newest pending row.
LEMMA FindStep ==
  ASSUME DeliveryInv, NEW j \in Jobs, Find(j), PendingRows # {}
  PROVE  DeliveryInv'
<1>0. /\ Types /\ WorkersHaveRows /\ RowsHaveUsers /\ DeliveriesArrived /\ ReadIsCurrent
      /\ SettlersAreThrough /\ DeliverersAreThrough /\ RowsTellWhatHappened
  BY DEF DeliveryInv
<1> DEFINE i == Newest(PendingRows)
           e == [rows[i] EXCEPT !.users = @ \cup {j}]
<1>1. /\ pc[j] = "loaded" /\ pc' = [pc EXCEPT ![j] = "ready"]
      /\ row' = [row EXCEPT ![j] = i] /\ rows' = [rows EXCEPT ![i] = e] /\ try' = try
      /\ seen' = seen /\ outcome' = outcome /\ received' = received /\ faults' = faults
  BY DEF Find, GoTo
<1>2. i \in PendingRows
  <2>1. PendingRows \in SUBSET (1..Len(rows)) /\ Len(rows) \in Nat
    BY <1>0 DEF PendingRows, Types
  <2> QED
    BY <2>1, NewestIsOne
<1> HIDE DEF i
<1>3. i \in DOMAIN rows /\ rows[i].status = "pending"
  BY <1>2 DEF PendingRows, Settled
<1>4. /\ rows[i] \in Row /\ rows[i].users \in SUBSET Jobs /\ i \in 1..Len(rows)
      /\ rows[i].users # {}
  BY <1>0, <1>3, RowFields DEF Types, RowsHaveUsers
<1>5. /\ e \in Row /\ e.status = rows[i].status /\ e.history = rows[i].history
      /\ e.tried = rows[i].tried /\ e.lost = rows[i].lost /\ e.settledBy = rows[i].settledBy
      /\ e.users = rows[i].users \cup {j}
  BY <1>4 DEF Row
<1> HIDE DEF e
<1>6. /\ rows' \in Seq(Row) /\ DOMAIN rows' = DOMAIN rows /\ Len(rows') = Len(rows)
      /\ rows'[i] = e /\ \A k \in DOMAIN rows \ {i} : rows'[k] = rows[k]
  BY <1>0, <1>1, <1>3, <1>5, OneRow DEF Types
<1>7. /\ pc'[j] = "ready" /\ row'[j] = i
      /\ \A k \in Jobs \ {j} : pc'[k] = pc[k] /\ row'[k] = row[k]
  BY <1>0, <1>1 DEF Types, TypeOK
<1>8. \A k \in DOMAIN rows : /\ rows'[k].status = rows[k].status
                             /\ rows'[k].settledBy = rows[k].settledBy
                             /\ rows'[k].history = rows[k].history
                             /\ rows'[k].lost = rows[k].lost
                             /\ rows'[k].tried = rows[k].tried
                             /\ rows[k].users \subseteq rows'[k].users
                             /\ rows[k].users # {}
  BY <1>0, <1>5, <1>6 DEF RowsHaveUsers
<1>9. Types'
  <2>1. pc' \in [Jobs -> Steps]
    BY <1>0, <1>1 DEF Types, TypeOK, Steps, Running
  <2>2. row' \in [Jobs -> 0..Len(rows)]
    BY <1>0, <1>1, <1>4 DEF Types, TypeOK
  <2>3. \A k \in DOMAIN rows' : rows'[k] \in Row
    BY <1>6
  <2> QED
    BY <1>0, <1>1, <1>6, <2>1, <2>2, <2>3 DEF Types, TypeOK, Row
<1>10. WorkersHaveRows'
  BY <1>0, <1>3, <1>5, <1>6, <1>7, <1>8 DEF WorkersHaveRows, Writing
<1>11. RowsHaveUsers'
  BY <1>6, <1>8 DEF RowsHaveUsers
<1>12. DeliveriesArrived'
  BY <1>0, <1>1, <1>7 DEF DeliveriesArrived, UnderWay
<1>13. ReadIsCurrent'
  <2> SUFFICES ASSUME NEW k \in DOMAIN rows, NEW q \in Jobs, rows'[k].users = {q},
                      row'[q] = k, pc'[q] = "recording"
               PROVE  seen[q] = rows[k].history
    BY <1>1, <1>6, <1>8 DEF ReadIsCurrent
  <2>1. q # j /\ row[q] = k /\ pc[q] = "recording" /\ rows[k].users = {q}
    BY <1>7, <1>8
  <2> QED
    BY <1>0, <2>1 DEF ReadIsCurrent
<1>14. SettlersAreThrough'
  BY <1>0, <1>3, <1>6, <1>7, <1>8 DEF SettlersAreThrough, Settled, Writing
<1>15. DeliverersAreThrough'
  BY <1>0, <1>1, <1>6, <1>7, <1>8 DEF DeliverersAreThrough
<1>16. DeliveredWasReceived'
  BY <1>0, <1>1, <1>6, <1>8 DEF RowsTellWhatHappened, DeliveredWasReceived
<1>17. AttemptHistoryComplete'
  <2> SUFFICES ASSUME NEW k \in DOMAIN rows, NEW q \in Jobs, rows'[k].users = {q}
               PROVE  rows[k].tried = rows[k].history + rows[k].lost
                        + (IF row'[q] = k /\ UnderWay(q)' THEN 1 ELSE 0)
    BY <1>6, <1>8 DEF AttemptHistoryComplete, UnderWay
  <2>1. rows[k].users = {q}
    BY <1>8
  <2>2. rows[k].tried = rows[k].history + rows[k].lost
                          + (IF row[q] = k /\ UnderWay(q) THEN 1 ELSE 0)
    BY <1>0, <2>1 DEF RowsTellWhatHappened, AttemptHistoryComplete, UnderWay
  <2>3. (row'[q] = k /\ UnderWay(q)') <=> (row[q] = k /\ UnderWay(q))
    BY <1>1, <1>7 DEF UnderWay
  <2> QED
    BY <2>2, <2>3
<1> QED
  BY <1>9, <1>10, <1>11, <1>12, <1>13, <1>14, <1>15, <1>16, <1>17
     DEF DeliveryInv, RowsTellWhatHappened

\* A job that found no pending row adds one.
LEMMA CreateStep ==
  ASSUME DeliveryInv, NEW j \in Jobs, Create(j)
  PROVE  DeliveryInv'
<1>0. /\ Types /\ WorkersHaveRows /\ RowsHaveUsers /\ DeliveriesArrived /\ ReadIsCurrent
      /\ SettlersAreThrough /\ DeliverersAreThrough /\ RowsTellWhatHappened
  BY DEF DeliveryInv
<1> DEFINE n == Len(rows) + 1
           e == [NewRow EXCEPT !.users = {j}]
<1>1. /\ pc[j] = "absent" /\ pc' = [pc EXCEPT ![j] = "ready"]
      /\ row' = [row EXCEPT ![j] = n] /\ rows' = Append(rows, e) /\ try' = try
      /\ seen' = seen /\ outcome' = outcome /\ received' = received /\ faults' = faults
  BY DEF Create, GoTo
<1>2. /\ e \in Row /\ e.status = "pending" /\ e.history = 0 /\ e.tried = 0 /\ e.lost = 0
      /\ e.users = {j} /\ e.settledBy = NoJob
  BY WebhookAssumption DEF NewRow, Row
<1>3. n \in Nat /\ n \notin DOMAIN rows
  BY <1>0 DEF Types
<1>4. /\ rows' \in Seq(Row) /\ Len(rows') = n /\ DOMAIN rows' = DOMAIN rows \cup {n}
      /\ rows'[n] = e /\ \A k \in DOMAIN rows : rows'[k] = rows[k]
  <2> HIDE DEF e
  <2> QED
    BY <1>0, <1>1, <1>2 DEF Types
<1> HIDE DEF e, n
<1>5. /\ pc'[j] = "ready" /\ row'[j] = n
      /\ \A k \in Jobs \ {j} : pc'[k] = pc[k] /\ row'[k] = row[k]
  BY <1>0, <1>1 DEF Types, TypeOK
<1>6. Types'
  <2>1. pc' \in [Jobs -> Steps]
    BY <1>0, <1>1 DEF Types, TypeOK, Steps, Running
  <2>2. row' \in [Jobs -> 0..n]
    <3>1. Len(rows) \in Nat /\ n = Len(rows) + 1
      BY <1>0 DEF Types, n
    <3> QED
      BY <1>0, <1>1, <3>1 DEF Types, TypeOK
  <2>3. \A k \in DOMAIN rows' : rows'[k] \in Row
    BY <1>4
  <2> QED
    BY <1>0, <1>1, <1>4, <2>1, <2>2, <2>3 DEF Types, TypeOK, Row
<1>7. WorkersHaveRows'
  BY <1>0, <1>2, <1>4, <1>5 DEF WorkersHaveRows, Writing
<1>8. RowsHaveUsers'
  BY <1>0, <1>2, <1>4 DEF RowsHaveUsers
<1>9. DeliveriesArrived'
  BY <1>0, <1>1, <1>5 DEF DeliveriesArrived, UnderWay
<1>10. ReadIsCurrent'
  <2> SUFFICES ASSUME NEW k \in DOMAIN rows \cup {n}, NEW q \in Jobs, rows'[k].users = {q},
                      row'[q] = k, pc'[q] = "recording"
               PROVE  seen'[q] = rows'[k].history
    BY <1>4 DEF ReadIsCurrent
  <2>1. q # j /\ row[q] = k /\ pc[q] = "recording"
    BY <1>5
  <2>2. k \in DOMAIN rows
    BY <1>0, <2>1 DEF WorkersHaveRows, Writing
  <2> QED
    BY <1>0, <1>1, <1>4, <2>1, <2>2 DEF ReadIsCurrent
<1>11. SettlersAreThrough'
  BY <1>0, <1>2, <1>3, <1>4, <1>5 DEF SettlersAreThrough, Settled, Writing
<1>12. DeliverersAreThrough'
  BY <1>0, <1>1, <1>2, <1>4, <1>5 DEF DeliverersAreThrough
<1>13. DeliveredWasReceived'
  BY <1>0, <1>1, <1>2, <1>4 DEF RowsTellWhatHappened, DeliveredWasReceived
<1>14. AttemptHistoryComplete'
  <2> SUFFICES ASSUME NEW k \in DOMAIN rows \cup {n}, NEW q \in Jobs, rows'[k].users = {q}
               PROVE  rows'[k].tried = rows'[k].history + rows'[k].lost
                        + (IF row'[q] = k /\ pc'[q] \in {"sent", "recording"} THEN 1 ELSE 0)
    BY <1>4 DEF AttemptHistoryComplete
  <2>1. CASE k = n
    <3>1. rows'[k].users = {j} /\ rows'[k].tried = 0 /\ rows'[k].history = 0 /\ rows'[k].lost = 0
      BY <1>2, <1>4, <2>1
    <3>2. q = j
      BY <3>1
    <3> QED
      BY <1>5, <3>1, <3>2
  <2>2. CASE k # n
    <3>1. k \in DOMAIN rows /\ rows'[k] = rows[k]
      BY <1>4, <2>2
    <3>2. rows[k].tried = rows[k].history + rows[k].lost
                            + (IF row[q] = k /\ UnderWay(q) THEN 1 ELSE 0)
      BY <1>0, <3>1 DEF RowsTellWhatHappened, AttemptHistoryComplete, UnderWay
    <3>3. (row'[q] = k /\ pc'[q] \in {"sent", "recording"}) <=> (row[q] = k /\ UnderWay(q))
      BY <1>1, <1>5, <2>2 DEF UnderWay
    <3> QED
      BY <3>1, <3>2, <3>3
  <2> QED
    BY <2>1, <2>2
<1> QED
  BY <1>6, <1>7, <1>8, <1>9, <1>10, <1>11, <1>12, <1>13, <1>14
     DEF DeliveryInv, RowsTellWhatHappened

-----------------------------------------------------------------------------
(* The theorems.                                                           *)

\* Every step of every job keeps the invariant.
LEMMA DeliveryStep ==
  ASSUME DeliveryInv, [Next]_vars
  PROVE  DeliveryInv'
<1>0. /\ pc \in [Jobs -> Steps] /\ try \in [Jobs -> 0..MaxTries] /\ faults \in 0..MaxFaults
  BY DEF DeliveryInv, Types, TypeOK
<1>a. {"queued", "done", "dropped", "loaded", "absent", "recording"} \subseteq Steps
      /\ faults <= faults
  BY <1>0, WebhookAssumption DEF Steps, Running
<1>1. ASSUME NEW j \in Jobs, Begin(j) PROVE DeliveryInv'
  <2>1. /\ pc[j] = "queued" /\ pc' = [pc EXCEPT ![j] = "loaded"]
        /\ try[j] < MaxTries /\ try' = [try EXCEPT ![j] = @ + 1]
        /\ rows' = rows /\ row' = row /\ outcome' = outcome /\ received' = received
        /\ faults' = faults /\ seen' = seen
    BY <1>1 DEF Begin, MayRun, GoTo
  <2>2. try' \in [Jobs -> 0..MaxTries]
    BY <1>0, <2>1, WebhookAssumption
  <2> QED
    BY <1>0, <2>1, <2>2, <1>a, MoveStep DEF Writing, UnderWay
<1>2. ASSUME NEW j \in Jobs, GiveUp(j) \/ Finish(j) \/ RecordRead(j) PROVE DeliveryInv'
  <2>1. /\ rows' = rows /\ row' = row /\ outcome' = outcome /\ received' = received
        /\ faults' = faults /\ try' = try
    BY <1>2 DEF GiveUp, Finish, RecordRead
  <2>2. CASE GiveUp(j)
    <3>1. pc[j] = "queued" /\ pc' = [pc EXCEPT ![j] = "dropped"] /\ seen' = seen
      BY <2>2 DEF GiveUp, GoTo
    <3> QED
      BY <1>0, <2>1, <3>1, <1>a, MoveStep DEF Writing, UnderWay
  <2>3. CASE Finish(j)
    <3>1. pc[j] = "recorded" /\ pc' = [pc EXCEPT ![j] = "done"] /\ seen' = seen
      BY <2>3 DEF Finish, GoTo
    <3> QED
      BY <1>0, <2>1, <3>1, <1>a, MoveStep DEF Writing, UnderWay
  <2>4. CASE RecordRead(j)
    <3>1. /\ pc[j] = "sent" /\ pc' = [pc EXCEPT ![j] = "recording"]
          /\ seen' = [seen EXCEPT ![j] = rows[row[j]].history]
      BY <2>4 DEF RecordRead, GoTo
    <3> QED
      BY <1>0, <2>1, <3>1, <1>a, MoveStep DEF Writing, UnderWay
  <2> QED
    BY <1>2, <2>2, <2>3, <2>4
<1>3. ASSUME NEW j \in Jobs, NoConfig(j) PROVE DeliveryInv'
  <2>1. /\ pc[j] = "loaded" /\ pc' = [pc EXCEPT ![j] = "done"]
        /\ faults < MaxFaults /\ faults' = faults + 1
        /\ rows' = rows /\ row' = row /\ outcome' = outcome /\ received' = received
        /\ try' = try /\ seen' = seen
    BY <1>3 DEF NoConfig, GoTo
  <2>2. faults' \in 0..MaxFaults /\ faults <= faults'
    BY <1>0, <2>1, WebhookAssumption
  <2> QED
    BY <1>0, <2>1, <2>2, <1>a, MoveStep DEF Writing, UnderWay
<1>4. ASSUME NEW j \in Jobs, Find(j) PROVE DeliveryInv'
  <2>1. CASE PendingRows # {}
    BY <1>4, <2>1, FindStep
  <2>2. CASE PendingRows = {}
    <3>1. /\ pc[j] = "loaded" /\ pc' = [pc EXCEPT ![j] = "absent"]
          /\ rows' = rows /\ row' = row /\ outcome' = outcome /\ received' = received
          /\ try' = try /\ seen' = seen /\ faults' = faults
      BY <1>4, <2>2 DEF Find, GoTo
    <3> QED
      BY <1>0, <3>1, <1>a, MoveStep DEF Writing, UnderWay
  <2> QED
    BY <2>1, <2>2
<1>5. ASSUME NEW j \in Jobs, Fault(j) PROVE DeliveryInv'
  <2>1. CASE UnderWay(j)
    BY <1>5, <2>1, LostStep
  <2>2. CASE ~UnderWay(j)
    <3>1. PICK s \in {"queued", "done"} : pc' = [pc EXCEPT ![j] = s]
      BY <1>5 DEF Fault, GoTo
    <3>2. /\ rows' = rows /\ row' = row /\ outcome' = outcome /\ received' = received
          /\ try' = try /\ seen' = seen /\ faults < MaxFaults /\ faults' = faults + 1
      BY <1>5, <2>2 DEF Fault, LoseAttempt, UnderWay
    <3>3. faults' \in 0..MaxFaults /\ faults <= faults' /\ faults' # 0
      BY <1>0, <3>2, WebhookAssumption
    <3>4. s \in Steps /\ s \notin {"ready", "sent", "recording", "recorded"}
      BY DEF Steps
    <3> HIDE DEF Steps
    <3> QED
      BY <1>0, <2>2, <3>1, <3>2, <3>3, <3>4, MoveStep
  <2> QED
    BY <2>1, <2>2
<1>6. CASE UNCHANGED vars
  <2>1. /\ pc' = pc /\ try' = try /\ row' = row /\ outcome' = outcome /\ seen' = seen
        /\ rows' = rows /\ received' = received /\ faults' = faults
    BY <1>6 DEF vars
  <2> QED
    BY <2>1 DEF DeliveryInv, Types, TypeOK, WorkersHaveRows, RowsHaveUsers, DeliveriesArrived,
                ReadIsCurrent, SettlersAreThrough, DeliverersAreThrough, RowsTellWhatHappened,
                DeliveredWasReceived, AttemptHistoryComplete, UnderWay, Writing, Settled
<1> QED
  BY <1>1, <1>2, <1>3, <1>4, <1>5, <1>6, CreateStep, AttemptStep, RecordStep
     DEF Next, Work, Terminated

\* The invariant holds of the jobs as process_batch enqueued them.
LEMMA DeliveryInit == Init => DeliveryInv
<1> SUFFICES ASSUME Init PROVE DeliveryInv
  OBVIOUS
<1>1. rows = <<>> /\ DOMAIN rows = {} /\ Len(rows) = 0
  BY DEF Init
<1>2. Types
  <2>1. pc \in [Jobs -> Steps]
    BY DEF Init, Steps
  <2>2. /\ try = [j \in Jobs |-> 0] /\ row = [j \in Jobs |-> 0] /\ seen = [j \in Jobs |-> 0]
        /\ outcome = [j \in Jobs |-> "none"] /\ received = FALSE /\ faults = 0
    BY DEF Init
  <2>3. rows \in Seq(Row) /\ 0 \in 0..MaxTries /\ 0 \in 0..MaxFaults /\ 0 \in 0..Len(rows)
    BY <1>1, WebhookAssumption
  <2> QED
    BY <1>1, <2>1, <2>2, <2>3 DEF Types, TypeOK
<1>3. WorkersHaveRows /\ DeliveriesArrived
  BY DEF Init, WorkersHaveRows, DeliveriesArrived, Writing, UnderWay
<1> QED
  BY <1>1, <1>2, <1>3 DEF DeliveryInv, RowsHaveUsers, ReadIsCurrent, SettlersAreThrough,
     DeliverersAreThrough, RowsTellWhatHappened, DeliveredWasReceived, AttemptHistoryComplete

\* The inductive invariant of the outbound webhook.
THEOREM DeliveryInvariance == Spec => []DeliveryInv
BY DeliveryInit, DeliveryStep, PTL DEF Spec

\* A row says `delivered' only of an event that was received, and its attempt
\* history is complete as long as one job works on it.
THEOREM RowsTell == Spec => []RowsTellWhatHappened
BY DeliveryInvariance, PTL DEF DeliveryInv

\* A settled row is not written again by the job that settled it.
LEMMA SettledRowKept ==
  ASSUME DeliveryInv, [Next]_vars, NEW i \in DOMAIN rows, NEW j \in Jobs,
         Settled(i), rows[i].settledBy = j, rows'[i] # rows[i]
  PROVE  pc'[j] = pc[j]
<1>0. Types /\ SettlersAreThrough
  BY DEF DeliveryInv
<1>1. PICK k \in Jobs : Work(k) \/ NoConfig(k) \/ Fault(k)
  BY DEF Next, Terminated, vars
<1>2. CASE Writing(k) /\ \E e : rows' = [rows EXCEPT ![row[k]] = e]
  <2>1. row[k] = i
    BY <1>0, <1>2 DEF Types
  <2>2. k # j
    BY <1>0, <1>2, <2>1 DEF SettlersAreThrough
  <2>3. \E s : pc' = [pc EXCEPT ![k] = s]
    BY <1>1 DEF Work, NoConfig, Fault, Begin, GiveUp, Find, Create, RejectUrl, Post,
                RecordRead, RecordWrite, Finish, GoTo
  <2> QED
    BY <1>0, <2>2, <2>3 DEF Types, TypeOK
<1>3. CASE Find(k)
  <2>1. PendingRows # {} /\ \E e : rows' = [rows EXCEPT ![Newest(PendingRows)] = e]
    BY <1>3 DEF Find
  <2>2. Newest(PendingRows) \in PendingRows
    <3>1. PendingRows \in SUBSET (1..Len(rows)) /\ Len(rows) \in Nat
      BY <1>0 DEF PendingRows, Types
    <3> QED
      BY <2>1, <3>1, NewestIsOne
  <2>3. i # Newest(PendingRows)
    BY <2>2 DEF PendingRows
  <2> QED
    BY <1>0, <2>1, <2>3 DEF Types
<1>4. CASE Create(k)
  BY <1>0, <1>4 DEF Create, Types
<1>5. CASE rows' = rows
  BY <1>5
<1> QED
  BY <1>1, <1>2, <1>3, <1>4, <1>5 DEF Work, NoConfig, Fault, Begin, GiveUp, RejectUrl, Post,
     RecordRead, RecordWrite, Finish, LoseAttempt, Writing

\* A job that settled a row writes it no more, and a job that recorded a delivery
\* sends the event no more unless something failed.
THEOREM SettlersLeave == Spec => JobsStayWithTheirRows
<1>1. ASSUME DeliveryInv, [Next]_vars
      PROVE  [\A i \in DOMAIN rows : \A j \in Jobs :
                Settled(i) /\ rows[i].settledBy = j /\ rows'[i] # rows[i]
                  => pc'[j] = pc[j]]_vars
  BY <1>1, SettledRowKept
<1>2. ASSUME DeliveryInv
      PROVE  [\A j \in Jobs : \A i \in DOMAIN rows :
                rows[i].status = "delivered" /\ rows[i].settledBy = j
                  /\ pc[j] = "ready" /\ pc'[j] = "sent" => faults > 0]_vars
  <2>1. faults \in Nat /\ DeliverersAreThrough
    BY <1>2, WebhookAssumption DEF DeliveryInv, Types, TypeOK
  <2> QED
    BY <2>1 DEF DeliverersAreThrough
<1> QED
  BY <1>1, <1>2, DeliveryInvariance, PTL
     DEF Spec, JobsStayWithTheirRows, SettledRowsKeptByTheirJob, NoRepeatWithoutFault

-----------------------------------------------------------------------------
(* InstitutionFeeds: the inductive invariant.                              *)

FeedTypes ==
  /\ phase \in [Feeds -> Phases]
  /\ current \in [Feeds -> Nat] /\ attempt \in [Feeds -> 1..2]
  /\ \A f \in Feeds : current[f] \in 1..Rows[f]
  /\ DOMAIN report = Feeds /\ \A f \in Feeds : report[f] \in [1..Rows[f] -> Reports]
  /\ wire \subseteq Sends /\ accepted \subseteq Sends
  /\ answer \in [Sends -> Sends \cup {Unanswered, Refused, Lost}]
  /\ reason \in [Sends -> {"none", "token", "replayed", "other", "broken"}]

\* The feed has not come to this send.
Unmade(s) ==
  \/ s[2] > current[s[1]]
  \/ s[2] = current[s[1]] /\ s[3] > attempt[s[1]]
  \/ /\ s[2] = current[s[1]] /\ s[3] = attempt[s[1]]
     /\ phase[s[1]] \in {"start", "refresh", "post"}

UnmadeUnknown ==
  \A s \in Sends : Unmade(s) =>
    s \notin wire /\ s \notin accepted /\ answer[s] = Unanswered

\* What the API has answered: a send on the wire awaits its answer, a refused one
\* is not stored, a receipt is of a stored send with the same row, and whatever
\* was let in has left its signature in the replay cache.
Broken(s) == answer[s] = Lost /\ reason[s] = "broken"
WireUnanswered == \A s \in wire : answer[s] = Unanswered /\ s \notin accepted
RefusedNotStored ==
  \A s \in Sends : /\ answer[s] = Refused => s \notin accepted
                   /\ reason[s] # "none" => answer[s] = Refused \/ Broken(s)
ReceiptsTrue ==
  \A s \in Sends : Receipted(s) => answer[s] \in accepted /\ BodyOf(answer[s]) = BodyOf(s)
LetInCached ==
  \A s \in Sends : s \in accepted \/ Receipted(s) => Signature(s) \in cached

\* A second send follows a refusal, or the receipt of the first one.
SecondEarned(f, r) ==
  \/ Kind[f] \in {"nrt", "sandbox"} /\ answer[<<f, r, 1>>] = Refused
  \/ Kind[f] \in {"retry", "replay"} /\ answer[<<f, r, 1>>] \in Sends
SecondsEarned ==
  /\ \A f \in Feeds : attempt[f] = 2 => SecondEarned(f, current[f])
  /\ \A s \in wire \cup accepted : s[3] = 2 => SecondEarned(s[1], s[2])

KeysOnce == \A s, q \in accepted : KeyOf(s) = KeyOf(q) => s = q

CachedWereSent ==
  \A s \in Sends : Kind[s[1]] # "replay" /\ Signature(s) \in cached =>
    s \notin wire /\ ~Unmade(s)

\* The loop reports its rows in order, and is through with a row that failed.
ReportedInOrder ==
  \A f \in Feeds : phase[f] # "done" =>
    \A r \in 1..Rows[f] : r >= current[f] => report[f][r] = "unsent"
FailedIsOver ==
  \A f \in Loops : \A r \in 1..Rows[f] : report[f][r] = "failed" =>
    \A s \in wire : BodyOf(s) # <<f, r>>

\* What changes when the loop of a feed goes on, and what when the API works.
LoopInv == FeedTypes /\ UnmadeUnknown /\ SecondsEarned /\ CachedWereSent /\ ReportedInOrder
           /\ FailedIsOver /\ ReportIsTrue
ApiInv == WireUnanswered /\ RefusedNotStored /\ ReceiptsTrue /\ LetInCached /\ KeysOnce
          /\ RowStoredOnce /\ RetryIsNoReplay

FeedsInv == LoopInv /\ ApiInv

\* A send is a feed, a row of it and an attempt.
LEMMA SendShape ==
  /\ \A s \in Sends : s[1] \in Feeds /\ s[2] \in 1..Rows[s[1]] /\ s[3] \in 1..2
                      /\ s[2] \in Nat /\ s = <<s[1], s[2], s[3]>>
  /\ \A f \in Feeds : \A r \in 1..Rows[f] : \A a \in 1..2 : <<f, r, a>> \in Sends
<1>1. ASSUME NEW s \in Sends
      PROVE  s[1] \in Feeds /\ s[2] \in 1..Rows[s[1]] /\ s[3] \in 1..2 /\ s = <<s[1], s[2], s[3]>>
  <2>1. PICK f \in Feeds : s \in {f} \X (1..Rows[f]) \X (1..2)
    BY DEF Sends
  <2> QED
    BY <2>1
<1>2. ASSUME NEW f \in Feeds, NEW r \in 1..Rows[f], NEW a \in 1..2
      PROVE  <<f, r, a>> \in Sends
  BY DEF Sends
<1>3. \A s \in Sends : s[2] \in Nat
  BY <1>1
<1> QED
  BY <1>1, <1>2, <1>3

\* The send a feed is at is a send.
LEMMA CurrentIsSend ==
  ASSUME FeedTypes, NEW f \in Feeds
  PROVE  /\ Current(f) \in Sends /\ Current(f) = <<f, current[f], attempt[f]>>
         /\ Current(f)[1] = f /\ Current(f)[2] = current[f] /\ Current(f)[3] = attempt[f]
         /\ BodyOf(Current(f)) = <<f, current[f]>> /\ <<f, current[f], 1>> \in Sends
<1>1. current[f] \in 1..Rows[f] /\ attempt[f] \in 1..2 /\ 1 \in 1..2
  BY DEF FeedTypes
<1>2. <<f, current[f], attempt[f]>> \in Sends /\ <<f, current[f], 1>> \in Sends
  BY <1>1, SendShape
<1> QED
  BY <1>2 DEF Current, BodyOf

-----------------------------------------------------------------------------
(* InstitutionFeeds: the loop of a feed.                                   *)

\* What the API has done is not disturbed by the loop of a feed.
LEMMA LoopLeavesApi ==
  ASSUME ApiInv, wire' = wire, cached' = cached, reason' = reason, accepted' = accepted,
         answer' = answer
  PROVE  ApiInv'
<1>1. WireUnanswered' /\ RefusedNotStored' /\ ReceiptsTrue' /\ LetInCached'
  BY DEF ApiInv, WireUnanswered, RefusedNotStored, Broken, ReceiptsTrue, LetInCached, Receipted
<1>2. KeysOnce' /\ RowStoredOnce' /\ RetryIsNoReplay'
  BY DEF ApiInv, KeysOnce, RowStoredOnce, RetryIsNoReplay
<1> QED
  BY <1>1, <1>2 DEF ApiInv

\* The loop notes what became of a row, and what it notes is so.
LEMMA NoteStep ==
  ASSUME FeedsInv, NEW f \in Feeds, NEW v \in {"ok", "failed", "error"}, Note(f, v),
         phase[f] \in {"start", "refresh", "wait"},
         v = "ok" => \E s \in accepted : BodyOf(s) = <<f, current[f]>>,
         v = "failed" /\ f \in Loops =>
           \A s \in Sends : BodyOf(s) = <<f, current[f]>> =>
             (s \in accepted => reason[s] = "broken") /\ s \notin wire,
         wire' = wire, cached' = cached, reason' = reason, accepted' = accepted, answer' = answer
  PROVE  FeedsInv'
<1>1. /\ FeedTypes /\ UnmadeUnknown /\ SecondsEarned /\ CachedWereSent /\ ReportedInOrder
      /\ FailedIsOver /\ ReportIsTrue /\ ApiInv
  BY DEF FeedsInv, LoopInv
<1> DEFINE r == current[f]
<1>2. r \in 1..Rows[f] /\ Rows[f] \in Nat /\ r \in Nat
  BY <1>1, FeedsAssumption DEF FeedTypes
<1>3. /\ report' = [report EXCEPT ![f][r] = v]
      /\ report'[f] = [report[f] EXCEPT ![r] = v] /\ report'[f][r] = v
      /\ \A k \in 1..Rows[f] \ {r} : report'[f][k] = report[f][k]
      /\ DOMAIN report' = Feeds /\ \A g \in Feeds \ {f} : report'[g] = report[g]
      /\ report'[f] \in [1..Rows[f] -> Reports]
  BY <1>1, <1>2 DEF Note, FeedTypes, Reports
<1>a. \A g \in Feeds : \A k \in 1..Rows[g] : g # f \/ k # r => report'[g][k] = report[g][k]
  BY <1>3
<1>4. /\ \A g \in Feeds \ {f} : phase'[g] = phase[g] /\ current'[g] = current[g] /\ attempt'[g] = attempt[g]
      /\ \/ r = Rows[f] /\ phase'[f] = "done" /\ current'[f] = r /\ attempt'[f] = attempt[f]
         \/ /\ r # Rows[f] /\ phase'[f] \in {"start", "post"} /\ current'[f] = r + 1
            /\ attempt'[f] = 1
      /\ phase' \in [Feeds -> Phases] /\ current' \in [Feeds -> Nat] /\ attempt' \in [Feeds -> 1..2]
  <2>0. phase \in [Feeds -> Phases] /\ current \in [Feeds -> Nat] /\ attempt \in [Feeds -> 1..2]
    BY <1>1 DEF FeedTypes
  <2>1. CASE r = Rows[f]
    <3>1. phase' = [phase EXCEPT ![f] = "done"] /\ current' = current /\ attempt' = attempt
      BY <2>1 DEF Note
    <3> QED
      BY <2>0, <2>1, <3>1 DEF Phases
  <2>2. CASE r # Rows[f]
    <3>1. PICK p \in {"start", "post"} :
            /\ phase' = [phase EXCEPT ![f] = p] /\ current' = [current EXCEPT ![f] = r + 1]
            /\ attempt' = [attempt EXCEPT ![f] = 1]
      BY <2>2 DEF Note
    <3> QED
      BY <1>2, <2>0, <2>2, <3>1 DEF Phases
  <2> QED
    BY <2>1, <2>2
<1>5. FeedTypes'
  <2>1. \A g \in Feeds : current'[g] \in 1..Rows[g]
    <3>1. current'[f] \in 1..Rows[f]
      BY <1>2, <1>4
    <3> QED
      BY <1>1, <1>4, <3>1 DEF FeedTypes
  <2>2. \A g \in Feeds : report'[g] \in [1..Rows[g] -> Reports]
    BY <1>1, <1>3 DEF FeedTypes
  <2> QED
    BY <1>1, <1>3, <1>4, <2>1, <2>2 DEF FeedTypes
<1>6. \A s \in Sends : Unmade(s)' => Unmade(s)
  BY <1>1, <1>2, <1>4, SendShape DEF Unmade, FeedTypes
<1>7. UnmadeUnknown' /\ CachedWereSent'
  BY <1>1, <1>6 DEF UnmadeUnknown, CachedWereSent
<1>8. SecondsEarned'
  <2>1. \A g \in Feeds : attempt'[g] = 2 => attempt[g] = 2 /\ current'[g] = current[g]
    BY <1>4
  <2> QED
    BY <1>1, <2>1 DEF SecondsEarned, SecondEarned
<1>9. ReportedInOrder'
  <2> SUFFICES ASSUME NEW g \in Feeds, phase'[g] # "done", NEW k \in 1..Rows[g], k >= current'[g]
               PROVE  report'[g][k] = "unsent"
    BY DEF ReportedInOrder
  <2>1. CASE g = f
    <3>1. current'[f] = r + 1 /\ k \in Nat
      BY <1>2, <1>4, <2>1
    <3>2. k # r /\ k >= r
      BY <1>2, <2>1, <3>1
    <3>3. report[f][k] = "unsent"
      BY <1>1, <2>1, <3>2 DEF ReportedInOrder
    <3> QED
      BY <1>a, <2>1, <3>2, <3>3
  <2>2. CASE g # f
    <3>1. phase[g] # "done" /\ k >= current[g]
      BY <1>4, <2>2
    <3> QED
      BY <1>1, <1>a, <2>2, <3>1 DEF ReportedInOrder
  <2> QED
    BY <2>1, <2>2
<1>10. FailedIsOver'
  <2> SUFFICES ASSUME NEW g \in Loops, NEW k \in 1..Rows[g], report'[g][k] = "failed",
                      NEW s \in wire
               PROVE  BodyOf(s) # <<g, k>>
    BY DEF FailedIsOver
  <2>1. CASE g = f /\ k = r
    BY <1>1, <1>3, <2>1 DEF FeedTypes
  <2>2. CASE ~ (g = f /\ k = r)
    <3>1. g \in Feeds /\ report[g][k] = "failed"
      BY <1>a, <2>2 DEF Loops
    <3> QED
      BY <1>1, <3>1 DEF FailedIsOver
  <2> QED
    BY <2>1, <2>2
<1>11. ReportIsTrue'
  <2> SUFFICES ASSUME NEW g \in Feeds, NEW k \in 1..Rows[g]
               PROVE  /\ report'[g][k] = "ok" => \E s \in accepted : BodyOf(s) = <<g, k>>
                      /\ report'[g][k] = "failed" /\ g \in Loops =>
                           \A s \in accepted : BodyOf(s) = <<g, k>> => reason[s] = "broken"
    BY DEF ReportIsTrue
  <2>1. CASE g = f /\ k = r
    BY <1>1, <1>3, <2>1 DEF FeedTypes
  <2>2. CASE ~ (g = f /\ k = r)
    <3>1. report'[g][k] = report[g][k]
      BY <1>a, <2>2
    <3> QED
      BY <1>1, <3>1 DEF ReportIsTrue
  <2> QED
    BY <2>1, <2>2
<1>12. ApiInv'
  BY <1>1, LoopLeavesApi
<1> QED
  BY <1>5, <1>7, <1>8, <1>9, <1>10, <1>11, <1>12 DEF FeedsInv, LoopInv

\* The loop ends, or has its token, or goes for a second attempt that is earned.
LEMMA LoopStep ==
  ASSUME FeedsInv, NEW f \in Feeds, NEW p \in Phases, phase' = [phase EXCEPT ![f] = p],
         phase[f] \in {"start", "refresh", "wait"}, p # "done",
         current' = current, report' = report,
         \/ attempt' = attempt /\ (p = "post" => phase[f] # "wait")
              /\ p \notin {"start", "refresh"}
         \/ attempt[f] = 1 /\ attempt' = [attempt EXCEPT ![f] = 2] /\ SecondEarned(f, current[f]),
         wire' = wire, cached' = cached, reason' = reason, accepted' = accepted, answer' = answer
  PROVE  FeedsInv'
<1>1. /\ FeedTypes /\ UnmadeUnknown /\ SecondsEarned /\ CachedWereSent /\ ReportedInOrder
      /\ FailedIsOver /\ ReportIsTrue /\ ApiInv
  BY DEF FeedsInv, LoopInv
<1>2. /\ phase'[f] = p /\ \A g \in Feeds \ {f} : phase'[g] = phase[g] /\ attempt'[g] = attempt[g]
      /\ attempt'[f] = attempt[f] \/ attempt'[f] = 2
      /\ phase' \in [Feeds -> Phases] /\ attempt' \in [Feeds -> 1..2]
  BY <1>1 DEF FeedTypes
<1>3. FeedTypes'
  BY <1>1, <1>2 DEF FeedTypes
<1>4. \A s \in Sends : Unmade(s)' => Unmade(s)
  <2> SUFFICES ASSUME NEW s \in Sends, Unmade(s)' PROVE Unmade(s)
    OBVIOUS
  <2>1. s[1] \in Feeds /\ s[2] \in Nat /\ s[3] \in 1..2 /\ attempt[s[1]] \in 1..2
    BY <1>1, SendShape DEF FeedTypes
  <2>2. CASE s[1] # f
    BY <1>2, <2>1, <2>2 DEF Unmade
  <2>3. CASE s[1] = f /\ attempt' = attempt
    BY <1>2, <2>1, <2>3 DEF Unmade
  <2>4. CASE s[1] = f /\ attempt[f] = 1 /\ attempt' = [attempt EXCEPT ![f] = 2]
    <3>1. attempt'[f] = 2
      BY <1>1, <2>1, <2>4 DEF FeedTypes
    <3> QED
      BY <2>1, <2>4, <3>1 DEF Unmade
  <2> QED
    BY <2>2, <2>3, <2>4
<1>5. UnmadeUnknown' /\ CachedWereSent'
  BY <1>1, <1>4 DEF UnmadeUnknown, CachedWereSent
<1>6. SecondsEarned'
  <2>1. \A g \in Feeds : attempt'[g] = 2 => SecondEarned(g, current[g])
    BY <1>1, <1>2 DEF SecondsEarned
  <2> QED
    BY <1>1, <2>1 DEF SecondsEarned, SecondEarned
<1>7. ReportedInOrder'
  BY <1>1, <1>2 DEF ReportedInOrder
<1>8. FailedIsOver' /\ ReportIsTrue'
  BY <1>1 DEF FailedIsOver, ReportIsTrue
<1> QED
  BY <1>1, <1>3, <1>5, <1>6, <1>7, <1>8, LoopLeavesApi DEF FeedsInv, LoopInv

\* The row goes out for the first time under this attempt.
LEMMA PostStep ==
  ASSUME FeedsInv, NEW f \in Feeds, PostRow(f)
  PROVE  FeedsInv'
<1>1. /\ FeedTypes /\ UnmadeUnknown /\ SecondsEarned /\ CachedWereSent /\ ReportedInOrder
      /\ FailedIsOver /\ ReportIsTrue /\ WireUnanswered /\ RefusedNotStored /\ ReceiptsTrue
      /\ LetInCached /\ KeysOnce /\ RowStoredOnce /\ RetryIsNoReplay
  BY DEF FeedsInv, LoopInv, ApiInv
<1> DEFINE c == Current(f)
<1>2. /\ phase[f] = "post" /\ phase' = [phase EXCEPT ![f] = "wait"] /\ wire' = wire \cup {c}
      /\ current' = current /\ attempt' = attempt /\ report' = report /\ cached' = cached
      /\ reason' = reason /\ accepted' = accepted /\ answer' = answer
  BY DEF PostRow
<1>3. /\ c \in Sends /\ c = <<f, current[f], attempt[f]>> /\ BodyOf(c) = <<f, current[f]>>
      /\ c[1] = f /\ c[2] = current[f] /\ c[3] = attempt[f]
  BY <1>1, CurrentIsSend
<1>4. Unmade(c)
  BY <1>2, <1>3 DEF Unmade
<1> HIDE DEF c
<1>5. phase'[f] = "wait" /\ \A g \in Feeds \ {f} : phase'[g] = phase[g]
  BY <1>1, <1>2 DEF FeedTypes
<1>6. ASSUME NEW s \in Sends, Unmade(s)' PROVE Unmade(s) /\ s # c
  <2>1. s[1] \in Feeds /\ s[2] \in Nat /\ s[3] \in 1..2
    BY SendShape
  <2>2. CASE s[1] # f
    BY <1>2, <1>3, <1>5, <1>6, <2>1, <2>2 DEF Unmade
  <2>3. CASE s[1] = f
    <3>0. phase'[s[1]] = "wait" /\ current'[s[1]] = current[f] /\ attempt'[s[1]] = attempt[f]
      BY <1>2, <1>5, <2>3
    <3>a. \/ s[2] > current'[s[1]]
          \/ s[2] = current'[s[1]] /\ s[3] > attempt'[s[1]]
          \/ phase'[s[1]] \in {"start", "refresh", "post"}
      BY <1>6 DEF Unmade
    <3>1. s[2] > current[f] \/ (s[2] = current[f] /\ s[3] > attempt[f])
      BY <3>0, <3>a
    <3>2. current[f] \in Nat /\ attempt[f] \in 1..2
      BY <1>1 DEF FeedTypes
    <3> QED
      BY <1>3, <2>1, <2>3, <3>1, <3>2 DEF Unmade
  <2> QED
    BY <2>2, <2>3
<1>7. FeedTypes'
  <2>1. phase' \in [Feeds -> Phases]
    BY <1>1, <1>2 DEF FeedTypes, Phases
  <2> QED
    BY <1>1, <1>2, <1>3, <2>1 DEF FeedTypes
<1>8. UnmadeUnknown'
  BY <1>1, <1>2, <1>6 DEF UnmadeUnknown
<1>9. SecondsEarned'
  <2>1. c[3] = 2 => SecondEarned(c[1], c[2])
    BY <1>1, <1>3 DEF SecondsEarned
  <2>2. \A s \in wire' \cup accepted' : s[3] = 2 => SecondEarned(s[1], s[2])
    BY <1>1, <1>2, <2>1 DEF SecondsEarned
  <2> QED
    BY <1>1, <1>2, <2>2 DEF SecondsEarned, SecondEarned
<1>10. CachedWereSent'
  <2> SUFFICES ASSUME NEW s \in Sends, Kind[s[1]] # "replay", Signature(s) \in cached
               PROVE  s \notin wire' /\ ~Unmade(s)'
    BY <1>2 DEF CachedWereSent
  <2>1. s \notin wire /\ ~Unmade(s)
    BY <1>1 DEF CachedWereSent
  <2> QED
    BY <1>2, <1>4, <1>6, <2>1
<1>11. ReportedInOrder'
  BY <1>1, <1>2, <1>5 DEF ReportedInOrder
<1>12. FailedIsOver'
  <2> SUFFICES ASSUME NEW g \in Loops, NEW k \in 1..Rows[g], report[g][k] = "failed",
                      NEW s \in wire'
               PROVE  BodyOf(s) # <<g, k>>
    BY <1>2 DEF FailedIsOver
  <2>1. CASE s \in wire
    BY <1>1, <2>1 DEF FailedIsOver
  <2>2. CASE s = c
    <3>1. current[f] \in 1..Rows[f] /\ current[f] \in Nat
      BY <1>1 DEF FeedTypes
    <3>2. current[f] >= current[f] /\ phase[f] # "done"
      BY <1>2, <3>1
    <3>3. report[f][current[f]] = "unsent"
      BY <1>1, <3>1, <3>2 DEF ReportedInOrder
    <3> QED
      BY <1>3, <2>2, <3>3
  <2> QED
    BY <1>2, <2>1, <2>2
<1>13. ReportIsTrue'
  BY <1>1, <1>2 DEF ReportIsTrue
<1>14. WireUnanswered'
  BY <1>1, <1>2, <1>3, <1>4 DEF WireUnanswered, UnmadeUnknown
<1>15. RefusedNotStored' /\ ReceiptsTrue' /\ LetInCached'
  BY <1>1, <1>2 DEF RefusedNotStored, Broken, ReceiptsTrue, LetInCached, Receipted
<1>16. KeysOnce' /\ RowStoredOnce' /\ RetryIsNoReplay'
  BY <1>1, <1>2 DEF KeysOnce, RowStoredOnce, RetryIsNoReplay
<1> QED
  BY <1>7, <1>8, <1>9, <1>10, <1>11, <1>12, <1>13, <1>14, <1>15, <1>16
     DEF FeedsInv, LoopInv, ApiInv

-----------------------------------------------------------------------------
(* InstitutionFeeds: the API.                                              *)

\* Unless it is an exact replay, a send shares its signature with no other.
LEMMA SignaturesDiffer ==
  ASSUME NEW s \in Sends, NEW q \in Sends, Kind[s[1]] # "replay", Signature(q) = Signature(s)
  PROVE  q = s
<1>1. BodyOf(q) = BodyOf(s) /\ StampOf(q) = StampOf(s)
  BY DEF Signature
<1>2. q[1] = s[1]
  BY <1>1 DEF BodyOf
<1> QED
  BY <1>1, <1>2 DEF StampOf

\* The API answers a send for the first and only time.
LEMMA AnswerStep ==
  ASSUME FeedsInv, NEW s \in Sends, s \in wire \cup accepted, answer[s] = Unanswered, NEW a,
         answer' = [answer EXCEPT ![s] = a],
         a \in {Refused, Lost} \/ (a \in accepted /\ BodyOf(a) = BodyOf(s)),
         a = Refused => s \notin accepted,
         wire' = wire \ {s}, accepted' = accepted,
         \/ reason' = reason
         \/ a = Lost /\ reason' = [reason EXCEPT ![s] = "broken"]
         \/ a = Refused /\ \E why \in {"token", "replayed", "other"} :
              reason' = [reason EXCEPT ![s] = why] /\ (why = "replayed" => Kind[s[1]] # "retry"),
         cached' = cached \/ cached' = cached \cup {Signature(s)},
         a \in Sends => Signature(s) \in cached',
         phase' = phase, current' = current, attempt' = attempt, report' = report
  PROVE  FeedsInv'
<1>1. /\ FeedTypes /\ UnmadeUnknown /\ SecondsEarned /\ CachedWereSent /\ ReportedInOrder
      /\ FailedIsOver /\ ReportIsTrue /\ WireUnanswered /\ RefusedNotStored /\ ReceiptsTrue
      /\ LetInCached /\ KeysOnce /\ RowStoredOnce /\ RetryIsNoReplay
  BY DEF FeedsInv, LoopInv, ApiInv
<1>2. /\ answer'[s] = a /\ \A q \in Sends \ {s} : answer'[q] = answer[q]
      /\ a \in Sends \cup {Refused, Lost}
      /\ answer' \in [Sends -> Sends \cup {Unanswered, Refused, Lost}]
  BY <1>1 DEF FeedTypes
<1>3. /\ Unanswered \notin Sends /\ Refused \notin Sends /\ Lost \notin Sends
      /\ Unanswered # Refused /\ Unanswered # Lost /\ Refused # Lost
  BY FeedsAssumption
<1>4. ~Unmade(s)
  BY <1>1 DEF UnmadeUnknown
<1>5. \A q \in Sends : Unmade(q)' <=> Unmade(q)
  BY DEF Unmade
<1>6. /\ reason' \in [Sends -> {"none", "token", "replayed", "other", "broken"}]
      /\ \A q \in Sends \ {s} : reason'[q] = reason[q]
      /\ reason'[s] = reason[s] \/ a = Refused \/ (a = Lost /\ reason'[s] = "broken")
      /\ Kind[s[1]] = "retry" => reason'[s] # "replayed"
  <2>1. CASE reason' = reason
    BY <1>1, <2>1 DEF FeedTypes, RetryIsNoReplay
  <2>2. CASE a = Lost /\ reason' = [reason EXCEPT ![s] = "broken"]
    BY <1>1, <2>2 DEF FeedTypes
  <2>3. CASE reason' # reason /\ a = Refused
    <3>1. PICK why \in {"token", "replayed", "other"} :
            /\ reason' = [reason EXCEPT ![s] = why] /\ (why = "replayed" => Kind[s[1]] # "retry")
            /\ a = Refused
      BY <1>3, <2>3
    <3> QED
      BY <1>1, <3>1 DEF FeedTypes
  <2> QED
    BY <2>1, <2>2, <2>3
<1>7. FeedTypes'
  BY <1>1, <1>2, <1>6 DEF FeedTypes
<1>8. UnmadeUnknown'
  BY <1>1, <1>2, <1>4, <1>5 DEF UnmadeUnknown
<1>9. SecondsEarned'
  <2>1. ASSUME NEW f \in Feeds, NEW r \in 1..Rows[f], SecondEarned(f, r)
        PROVE  SecondEarned(f, r)'
    <3>0. answer[<<f, r, 1>>] # Unanswered
      BY <1>3, <2>1 DEF SecondEarned
    <3>a. 1 \in 1..2 /\ <<f, r, 1>> \in Sends
      <4>1. 1 \in 1..2
        OBVIOUS
      <4> QED
        BY <4>1, SendShape
    <3>b. ASSUME <<f, r, 1>> = s PROVE FALSE
      BY <3>0, <3>b
    <3>1. <<f, r, 1>> \in Sends /\ <<f, r, 1>> # s
      BY <3>a, <3>b
    <3> QED
      BY <1>2, <2>1, <3>1 DEF SecondEarned
  <2>2. \A f \in Feeds : attempt[f] = 2 => SecondEarned(f, current[f])'
    BY <1>1, <2>1 DEF SecondsEarned, FeedTypes
  <2>3. \A q \in wire \cup accepted : q[3] = 2 => SecondEarned(q[1], q[2])'
    <3> SUFFICES ASSUME NEW q \in wire \cup accepted, q[3] = 2 PROVE SecondEarned(q[1], q[2])'
      OBVIOUS
    <3>1. q[1] \in Feeds /\ q[2] \in 1..Rows[q[1]] /\ SecondEarned(q[1], q[2])
      BY <1>1, SendShape DEF SecondsEarned, FeedTypes
    <3> QED
      BY <2>1, <3>1
  <2> QED
    BY <2>2, <2>3 DEF SecondsEarned, SecondEarned
<1>10. CachedWereSent'
  <2> SUFFICES ASSUME NEW q \in Sends, Kind[q[1]] # "replay", Signature(q) \in cached'
               PROVE  q \notin wire' /\ ~Unmade(q)'
    BY DEF CachedWereSent
  <2>1. CASE Signature(q) \in cached
    BY <1>1, <1>5, <2>1 DEF CachedWereSent
  <2>2. CASE Signature(q) = Signature(s)
    <3>1. q = s
      BY <2>2, SignaturesDiffer
    <3> QED
      BY <1>4, <1>5, <3>1
  <2> QED
    BY <2>1, <2>2
<1>a. reason[s] = "none"
  BY <1>1, <1>3 DEF RefusedNotStored, Broken
<1>11. ReportedInOrder' /\ FailedIsOver'
  BY <1>1 DEF ReportedInOrder, FailedIsOver
<1>b. ReportIsTrue'
  <2> SUFFICES ASSUME NEW g \in Feeds, NEW k \in 1..Rows[g]
               PROVE  /\ report[g][k] = "ok" => \E q \in accepted : BodyOf(q) = <<g, k>>
                      /\ report[g][k] = "failed" /\ g \in Loops =>
                           \A q \in accepted : BodyOf(q) = <<g, k>> => reason'[q] = "broken"
    BY DEF ReportIsTrue
  <2>1. \A q \in accepted : reason[q] = "broken" => reason'[q] = "broken"
    BY <1>1, <1>6, <1>a DEF FeedTypes
  <2> QED
    BY <1>1, <2>1 DEF ReportIsTrue
<1>12. WireUnanswered'
  BY <1>1, <1>2 DEF WireUnanswered, FeedTypes
<1>13. RefusedNotStored'
  BY <1>1, <1>2, <1>3, <1>6, <1>a DEF RefusedNotStored, Broken
<1>14. ReceiptsTrue'
  BY <1>1, <1>2, <1>3 DEF ReceiptsTrue, Receipted
<1>15. LetInCached'
  BY <1>1, <1>2 DEF LetInCached, Receipted
<1>16. KeysOnce' /\ RowStoredOnce'
  BY <1>1 DEF KeysOnce, RowStoredOnce
<1>17. RetryIsNoReplay'
  BY <1>1, <1>6 DEF RetryIsNoReplay
<1> QED
  BY <1>b, <1>7, <1>8, <1>9, <1>10, <1>11, <1>12, <1>13, <1>14, <1>15, <1>16, <1>17
     DEF FeedsInv, LoopInv, ApiInv

\* A complaint is stored: nothing of this row was, under any key.
LEMMA StoreStep ==
  ASSUME FeedsInv, NEW s \in Sends, Serve(s), Store(s)
  PROVE  FeedsInv'
<1>1. /\ FeedTypes /\ UnmadeUnknown /\ SecondsEarned /\ CachedWereSent /\ ReportedInOrder
      /\ FailedIsOver /\ ReportIsTrue /\ WireUnanswered /\ RefusedNotStored /\ ReceiptsTrue
      /\ LetInCached /\ KeysOnce /\ RowStoredOnce /\ RetryIsNoReplay
  BY DEF FeedsInv, LoopInv, ApiInv
<1>2. /\ s \in wire /\ Signature(s) \notin cached /\ cached' = cached \cup {Signature(s)}
      /\ s \notin accepted /\ answer[s] = Unanswered /\ accepted' = accepted \cup {s}
      /\ wire' = wire \ {s} /\ reason' = reason /\ answer' = answer
      /\ phase' = phase /\ current' = current /\ attempt' = attempt /\ report' = report
  BY DEF Serve, Store, Admitted, Seen, Intake!Accept
<1>3. \A q \in accepted : KeyOf(q) # KeyOf(s)
  <2>1. Intake!Remembered(KeyOf(s)) = {}
    BY DEF Store, Intake!Accept
  <2> QED
    BY <1>1, <2>1 DEF Intake!Remembered, FeedTypes
<1>a. \A q \in Sends : answer[q] = Refused => q \notin accepted
  BY <1>1 DEF RefusedNotStored
<1>4. Unanswered \notin Sends /\ Unanswered # Refused
  BY FeedsAssumption
<1>5. ~Unmade(s) /\ \A q \in Sends : Unmade(q)' <=> Unmade(q)
  BY <1>1, <1>2 DEF UnmadeUnknown, Unmade
<1>6. FeedTypes'
  BY <1>1, <1>2 DEF FeedTypes
<1>7. UnmadeUnknown'
  BY <1>1, <1>2, <1>5 DEF UnmadeUnknown
<1>8. SecondsEarned'
  <2>1. \A q \in wire' \cup accepted' : q \in wire \cup accepted
    BY <1>2
  <2> QED
    BY <1>1, <1>2, <2>1 DEF SecondsEarned, SecondEarned
<1>9. CachedWereSent'
  <2> SUFFICES ASSUME NEW q \in Sends, Kind[q[1]] # "replay", Signature(q) \in cached'
               PROVE  q \notin wire' /\ ~Unmade(q)'
    BY DEF CachedWereSent
  <2>1. CASE Signature(q) \in cached
    BY <1>1, <1>2, <1>5, <2>1 DEF CachedWereSent
  <2>2. CASE Signature(q) = Signature(s)
    <3>1. q = s
      BY <2>2, SignaturesDiffer
    <3> QED
      BY <1>2, <1>5, <3>1
  <2> QED
    BY <1>2, <2>1, <2>2
<1>10. ReportedInOrder' /\ FailedIsOver'
  BY <1>1, <1>2 DEF ReportedInOrder, FailedIsOver
<1>11. ReportIsTrue'
  <2> SUFFICES ASSUME NEW g \in Feeds, NEW k \in 1..Rows[g]
               PROVE  /\ report[g][k] = "ok" => \E q \in accepted' : BodyOf(q) = <<g, k>>
                      /\ report[g][k] = "failed" /\ g \in Loops =>
                           \A q \in accepted' : BodyOf(q) = <<g, k>> => reason[q] = "broken"
    BY <1>2 DEF ReportIsTrue
  <2>1. report[g][k] = "failed" /\ g \in Loops => BodyOf(s) # <<g, k>>
    BY <1>1, <1>2 DEF FailedIsOver
  <2> QED
    BY <1>1, <1>2, <2>1 DEF ReportIsTrue
<1>12. WireUnanswered' /\ RefusedNotStored' /\ ReceiptsTrue' /\ LetInCached'
  BY <1>1, <1>2, <1>4 DEF WireUnanswered, RefusedNotStored, Broken, ReceiptsTrue, LetInCached, Receipted
<1>13. KeysOnce'
  BY <1>1, <1>2, <1>3 DEF KeysOnce
<1>14. Kind[s[1]] = "replay" => s[3] # 2
  <2> SUFFICES ASSUME Kind[s[1]] = "replay", s[3] = 2 PROVE FALSE
    OBVIOUS
  <2> DEFINE first == <<s[1], s[2], 1>>
  <2>1. first \in Sends /\ answer[first] \in Sends
    BY <1>1, <1>2, SendShape DEF SecondsEarned, SecondEarned
  <2>2. Signature(first) = Signature(s)
    BY DEF Signature, StampOf, BodyOf
  <2> QED
    BY <1>1, <1>2, <2>1, <2>2 DEF LetInCached, Receipted
<1>15. RowStoredOnce'
  <2>1. ASSUME NEW q \in accepted, BodyOf(q) = BodyOf(s) PROVE FALSE
    <3>1. /\ q \in Sends /\ q[1] = s[1] /\ q[2] = s[2] /\ q # s /\ q[3] \in 1..2 /\ s[3] \in 1..2
          /\ q = <<q[1], q[2], q[3]>> /\ s = <<s[1], s[2], s[3]>> /\ s[1] \in Feeds
      BY <1>1, <1>2, <2>1, SendShape DEF FeedTypes, BodyOf
    <3>2. (s[3] = 2 /\ q[3] = 1) \/ (s[3] = 1 /\ q[3] = 2)
      BY <3>1
    <3>3. Kind[s[1]] # "retry"
      BY <1>3, <2>1, <3>1 DEF KeyOf
    <3>4. CASE s[3] = 2 /\ q[3] = 1
      <4>1. q = <<s[1], s[2], 1>>
        BY <3>1, <3>4
      <4>2. answer[q] = Refused
        BY <1>1, <1>2, <1>14, <3>3, <3>4, <4>1 DEF SecondsEarned, SecondEarned
      <4>3. q \in Sends /\ q \in accepted
        BY <1>1, <2>1 DEF FeedTypes
      <4> QED
        BY <1>a, <4>2, <4>3
    <3>5. CASE s[3] = 1 /\ q[3] = 2
      <4>1. s = <<q[1], q[2], 1>>
        BY <3>1, <3>5
      <4>2. answer[s] = Refused \/ answer[s] \in Sends
        BY <1>1, <2>1, <3>5, <4>1 DEF SecondsEarned, SecondEarned
      <4> QED
        BY <1>2, <1>4, <4>2
    <3> QED
      BY <3>2, <3>4, <3>5
  <2> QED
    BY <1>1, <1>2, <2>1 DEF RowStoredOnce
<1>16. RetryIsNoReplay'
  BY <1>1, <1>2, <1>14 DEF RetryIsNoReplay
<1> QED
  BY <1>6, <1>7, <1>8, <1>9, <1>10, <1>11, <1>12, <1>13, <1>15, <1>16
     DEF FeedsInv, LoopInv, ApiInv

\* Every answer of the API is the send's first.
LEMMA ServeStep ==
  ASSUME FeedsInv, NEW s \in Sends, Serve(s)
  PROVE  FeedsInv'
<1>1. /\ FeedTypes /\ CachedWereSent /\ WireUnanswered /\ LetInCached
  BY DEF FeedsInv, LoopInv, ApiInv
<1>2. phase' = phase /\ current' = current /\ attempt' = attempt /\ report' = report
  BY DEF Serve
<1>3. Refused \notin Sends /\ Lost \notin Sends /\ Refused # Lost
  BY FeedsAssumption
<1>4. CASE TokenInvalid(s) \/ Replayed(s) \/ TurnedDown(s)
  <2>1. /\ s \in wire /\ s \notin accepted /\ answer[s] = Unanswered
        /\ answer' = [answer EXCEPT ![s] = Refused] /\ wire' = wire \ {s} /\ accepted' = accepted
        /\ cached' = cached \/ cached' = cached \cup {Signature(s)}
    BY <1>4 DEF TokenInvalid, Replayed, TurnedDown, Turn, Admitted, Intake!Refuse
  <2>2. \E why \in {"token", "replayed", "other"} :
          reason' = [reason EXCEPT ![s] = why] /\ (why = "replayed" => Kind[s[1]] # "retry")
    <3>1. Signature(s) \in cached => Kind[s[1]] # "retry"
      BY <1>1, <2>1 DEF CachedWereSent
    <3> QED
      BY <1>4, <3>1 DEF TokenInvalid, Replayed, TurnedDown, Turn, Seen
  <2> QED
    BY <1>2, <1>3, <2>1, <2>2, AnswerStep
<1>5. CASE ShowFirst(s)
  <2>1. /\ s \in wire /\ answer[s] = Unanswered /\ cached' = cached \cup {Signature(s)}
        /\ accepted' = accepted /\ wire' = wire \ {s} /\ reason' = reason
    BY <1>5 DEF ShowFirst, Admitted, Intake!Replay
  <2>2. PICK q \in accepted : BodyOf(q) = BodyOf(s) /\ answer' = [answer EXCEPT ![s] = q]
    BY <1>1, <1>5 DEF ShowFirst, Intake!Replay, Intake!Remembered, FeedTypes
  <2>3. q # Refused
    BY <1>1, <1>3 DEF FeedTypes
  <2> QED
    BY <1>2, <2>1, <2>2, <2>3, AnswerStep
<1>6. CASE Receipt(s)
  <2>1. /\ s \in accepted /\ answer[s] = Unanswered /\ answer' = [answer EXCEPT ![s] = s]
        /\ accepted' = accepted /\ wire' = wire /\ reason' = reason /\ cached' = cached
    BY <1>6 DEF Receipt, Intake!Confirm
  <2>2. wire' = wire \ {s} /\ s # Refused /\ Signature(s) \in cached
    BY <1>1, <1>3, <2>1 DEF WireUnanswered, LetInCached
  <2> QED
    BY <1>2, <2>1, <2>2, AnswerStep
<1>7. CASE Vanish(s)
  <2>1. /\ s \in wire \cup accepted /\ answer[s] = Unanswered
        /\ answer' = [answer EXCEPT ![s] = Lost]
        /\ accepted' = accepted /\ wire' = wire \ {s} /\ reason' = reason /\ cached' = cached
    BY <1>7 DEF Vanish, Intake!Lose
  <2> QED
    BY <1>2, <1>3, <2>1, AnswerStep
<1>8. CASE Break(s)
  <2>1. /\ s \in accepted /\ answer[s] = Unanswered /\ answer' = [answer EXCEPT ![s] = Lost]
        /\ reason' = [reason EXCEPT ![s] = "broken"]
        /\ accepted' = accepted /\ wire' = wire /\ cached' = cached
    BY <1>8 DEF Break, Intake!Lose
  <2>2. wire' = wire \ {s}
    BY <1>1, <2>1 DEF WireUnanswered
  <2> QED
    BY <1>2, <1>3, <2>1, <2>2, AnswerStep
<1> QED
  BY <1>4, <1>5, <1>6, <1>7, <1>8, StoreStep DEF Serve

\* What the loop makes of an answer is what the answer says.
LEMMA HearStep ==
  ASSUME FeedsInv, NEW f \in Feeds, Hear(f)
  PROVE  FeedsInv'
<1>1. /\ FeedTypes /\ UnmadeUnknown /\ SecondsEarned /\ WireUnanswered /\ RefusedNotStored
      /\ ReceiptsTrue
  BY DEF FeedsInv, LoopInv, ApiInv
<1> DEFINE s == Current(f)
           first == <<f, current[f], 1>>
<1>2. /\ phase[f] = "wait" /\ Arrives(s) /\ React(f, s)
      /\ wire' = wire /\ cached' = cached /\ reason' = reason /\ accepted' = accepted
      /\ answer' = answer
  BY DEF Hear, api
<1>3. /\ s \in Sends /\ s = <<f, current[f], attempt[f]>> /\ BodyOf(s) = <<f, current[f]>>
      /\ first \in Sends /\ BodyOf(first) = <<f, current[f]>> /\ attempt[f] \in 1..2
  BY <1>1, CurrentIsSend DEF BodyOf, FeedTypes
<1>4. Receipted(s) \/ answer[s] = Refused \/ Broken(s)
  BY <1>1, <1>2, <1>3 DEF FeedTypes, Receipted, Arrives, RefusedNotStored
<1>0. Refused # Unanswered /\ Lost # Unanswered
  BY FeedsAssumption
<1> HIDE DEF s
<1>5. CASE /\ Kind[f] \in {"nrt", "sandbox"} /\ attempt[f] = 1 /\ Unauthorised(s)
           /\ SecondAttempt(f, "refresh")
  <2>1. SecondEarned(f, current[f])
    BY <1>3, <1>5 DEF SecondEarned, Unauthorised
  <2>2. /\ phase' = [phase EXCEPT ![f] = "refresh"] /\ attempt' = [attempt EXCEPT ![f] = 2]
        /\ current' = current /\ report' = report /\ "refresh" \in Phases
    BY <1>5 DEF SecondAttempt, Phases
  <2> QED
    BY <1>2, <1>5, <2>1, <2>2, LoopStep
<1>6. CASE /\ Kind[f] \in {"retry", "replay"} /\ attempt[f] = 1 /\ Receipted(s)
           /\ SecondAttempt(f, "post")
  <2>1. SecondEarned(f, current[f])
    BY <1>3, <1>6 DEF SecondEarned, Receipted
  <2>2. /\ phase' = [phase EXCEPT ![f] = "post"] /\ attempt' = [attempt EXCEPT ![f] = 2]
        /\ current' = current /\ report' = report /\ "post" \in Phases
    BY <1>6 DEF SecondAttempt, Phases
  <2> QED
    BY <1>2, <1>6, <2>1, <2>2, LoopStep
<1>7. CASE /\ Kind[f] = "retry" /\ attempt[f] = 2
           /\ Note(f, IF answer[s] = first THEN "ok" ELSE "failed")
  <2>1. answer[s] = first => \E q \in accepted : BodyOf(q) = <<f, current[f]>>
    BY <1>1, <1>3 DEF ReceiptsTrue, Receipted
  <2>2. f \notin Loops
    BY <1>7 DEF Loops
  <2> QED
    BY <1>2, <1>7, <2>1, <2>2, NoteStep
<1>8. CASE /\ Kind[f] = "replay" /\ attempt[f] = 2
           /\ Note(f, IF reason[s] = "replayed" THEN "ok" ELSE "failed")
  <2>1. \E q \in accepted : BodyOf(q) = <<f, current[f]>>
    <3>1. answer[first] \in Sends
      BY <1>1, <1>8 DEF SecondsEarned, SecondEarned
    <3> QED
      BY <1>1, <1>3, <3>1 DEF ReceiptsTrue, Receipted
  <2>2. f \notin Loops
    BY <1>8 DEF Loops
  <2> QED
    BY <1>2, <1>8, <2>1, <2>2, NoteStep
<1>9. CASE /\ Note(f, IF Receipted(s) THEN "ok" ELSE "failed")
           /\ f \in Loops => ~ (Kind[f] \in {"nrt", "sandbox"} /\ attempt[f] = 1 /\ Unauthorised(s))
  <2>1. Receipted(s) => \E q \in accepted : BodyOf(q) = <<f, current[f]>>
    BY <1>1, <1>3 DEF ReceiptsTrue
  <2>2. ASSUME ~Receipted(s), f \in Loops, NEW q \in Sends, BodyOf(q) = <<f, current[f]>>
        PROVE  (q \in accepted => reason[q] = "broken") /\ q \notin wire
    <3>1. /\ q[1] = f /\ q[2] = current[f] /\ q[3] \in 1..2 /\ q = <<q[1], q[2], q[3]>>
      BY <2>2, SendShape DEF BodyOf
    <3>2. CASE answer[q] = Refused \/ Broken(q)
      BY <1>0, <1>1, <3>2 DEF RefusedNotStored, Broken, WireUnanswered
    <3>3. CASE q[3] = attempt[f]
      BY <1>3, <1>4, <2>2, <3>1, <3>2, <3>3
    <3>4. CASE q[3] < attempt[f]
      <4>1. attempt[f] = 2 /\ q = first
        BY <1>3, <3>1, <3>4
      <4>2. Kind[f] \notin {"retry", "replay"}
        BY <2>2 DEF Loops
      <4> QED
        BY <1>1, <3>2, <4>1, <4>2 DEF SecondsEarned, SecondEarned
    <3>5. CASE q[3] > attempt[f]
      BY <1>1, <3>1, <3>5 DEF UnmadeUnknown, Unmade
    <3> QED
      BY <1>3, <3>1, <3>3, <3>4, <3>5
  <2> QED
    BY <1>2, <1>9, <2>1, <2>2, NoteStep
<1> QED
  BY <1>2, <1>5, <1>6, <1>7, <1>8, <1>9 DEF React

\* A feed's other steps: it fetches a token, posts, or gives a row up.
LEMMA FeedStep ==
  ASSUME FeedsInv, NEW f \in Feeds, Feed(f)
  PROVE  FeedsInv'
<1>1. Feed(f) /\ ~PostRow(f) => /\ wire' = wire /\ cached' = cached /\ reason' = reason
                               /\ accepted' = accepted /\ answer' = answer
  BY DEF Feed, TokenGranted, TokenRefused, TokenRaises, Hear, GiveUpRow, api
<1>2. {"post", "turned_away", "died"} \subseteq Phases
  BY DEF Phases
<1>3. CASE TokenGranted(f)
  <2>1. /\ phase[f] \in {"start", "refresh"} /\ phase' = [phase EXCEPT ![f] = "post"]
        /\ attempt' = attempt /\ current' = current /\ report' = report
    BY <1>3 DEF TokenGranted, Fetching
  <2>2. ~PostRow(f)
    BY <2>1 DEF PostRow
  <2> QED
    BY <1>1, <1>2, <2>1, <2>2, LoopStep
<1>4. CASE TokenRefused(f) \/ TokenRaises(f) \/ GiveUpRow(f)
  <2>1. /\ phase[f] \in {"start", "refresh", "wait"} /\ ~PostRow(f)
        /\ Note(f, "error") \/ \E how \in {"turned_away", "died"} : End(f, how)
    BY <1>4 DEF TokenRefused, TokenRaises, GiveUpRow, Fetching, OnException, PostRow
  <2>2. CASE Note(f, "error")
    BY <1>1, <2>1, <2>2, NoteStep
  <2>3. ASSUME NEW how \in {"turned_away", "died"}, End(f, how) PROVE FeedsInv'
    BY <1>1, <1>2, <2>1, <2>3, LoopStep DEF End
  <2> QED
    BY <2>1, <2>2, <2>3
<1> QED
  BY <1>3, <1>4, PostStep, HearStep DEF Feed

\* No feed has begun, or it is about to, and nothing was sent.
LEMMA FeedsBegin == FeedsInit => FeedsInv
<1> SUFFICES ASSUME FeedsInit PROVE FeedsInv
  OBVIOUS
<1>1. PICK together \in Started :
        phase = [f \in Feeds |-> IF f \in together THEN "start" ELSE "off"]
  BY DEF FeedsInit
<1>2. /\ current = [f \in Feeds |-> 1] /\ attempt = [f \in Feeds |-> 1]
      /\ report = [f \in Feeds |-> [r \in 1..Rows[f] |-> "unsent"]]
      /\ wire = {} /\ cached = {} /\ reason = [s \in Sends |-> "none"]
      /\ accepted = {} /\ answer = [s \in Sends |-> Unanswered]
  BY DEF FeedsInit
<1>3. FeedTypes
  <2>1. \A f \in Feeds : 1 \in 1..Rows[f]
    BY FeedsAssumption
  <2> QED
    BY <1>1, <1>2, <2>1 DEF FeedTypes, Phases, Reports
<1>4. \A s \in Sends : answer[s] = Unanswered /\ ~Receipted(s) /\ answer[s] # Refused
  BY <1>2, FeedsAssumption DEF Receipted
<1>5. UnmadeUnknown /\ SecondsEarned /\ CachedWereSent
  BY <1>2 DEF UnmadeUnknown, SecondsEarned, CachedWereSent
<1>6. ReportedInOrder /\ FailedIsOver /\ ReportIsTrue
  <2>1. \A f \in Feeds : \A r \in 1..Rows[f] : report[f][r] = "unsent"
    BY <1>2
  <2> QED
    BY <1>2, <2>1 DEF ReportedInOrder, FailedIsOver, ReportIsTrue, Loops
<1>7. ApiInv
  BY <1>2, <1>4 DEF ApiInv, WireUnanswered, RefusedNotStored, ReceiptsTrue, LetInCached, KeysOnce,
                    RowStoredOnce, RetryIsNoReplay
<1> QED
  BY <1>3, <1>5, <1>6, <1>7 DEF FeedsInv, LoopInv

\* Every step of every feed and of the API keeps the invariant.
LEMMA FeedsStep ==
  ASSUME FeedsInv, [FeedsNext]_feedVars
  PROVE  FeedsInv'
<1>1. ASSUME phase' = phase, current' = current, attempt' = attempt, report' = report,
             wire' = wire, cached' = cached, reason' = reason, accepted' = accepted,
             answer' = answer
      PROVE  FeedsInv'
  <2>1. FeedTypes' /\ UnmadeUnknown' /\ CachedWereSent'
    BY <1>1 DEF FeedsInv, LoopInv, FeedTypes, UnmadeUnknown, CachedWereSent, Unmade
  <2>2. SecondsEarned' /\ ReportedInOrder' /\ FailedIsOver' /\ ReportIsTrue'
    BY <1>1 DEF FeedsInv, LoopInv, SecondsEarned, SecondEarned, ReportedInOrder, FailedIsOver,
                ReportIsTrue
  <2> QED
    BY <1>1, <2>1, <2>2, LoopLeavesApi DEF FeedsInv, LoopInv
<1>2. ASSUME NEW f \in Feeds, Expire(f) PROVE FeedsInv'
  BY <1>1, <1>2 DEF Expire, api
<1>3. CASE UNCHANGED feedVars
  BY <1>1, <1>3 DEF feedVars, api
<1> QED
  BY <1>2, <1>3, FeedStep, ServeStep DEF FeedsNext

\* A row is stored at most once by a run, what is printed of it is so, and a retry
\* is told from a replay.
THEOREM SentOnce == FeedsSpec => []SentOnceAndSaidSo
<1>1. FeedsInv => SentOnceAndSaidSo
  BY DEF FeedsInv, LoopInv, ApiInv, SentOnceAndSaidSo
<1> QED
  BY <1>1, FeedsBegin, FeedsStep, PTL DEF FeedsSpec

-----------------------------------------------------------------------------
(* DemoReplay: what a recording that ends with 0 rests on.                 *)

Statuses == {"none", "pending", "processing", "complete", "failed"}
Stages == {"wait", "institution", "insert", "enqueue", "poll", "tail", "unlink", "sum", "ended"}
Result == [of : Batches, status : InDatabase, pass : BOOLEAN]

\* The batch the script is at has not been looked at yet.
Before(st) == st \in {"wait", "institution", "insert", "enqueue", "poll"}

ReplayTypes ==
  /\ stage \in Stages /\ at \in Batches /\ files \subseteq Batches /\ passes \subseteq Batches
  /\ batch \in [Batches -> Statuses] /\ job \in [Batches -> {"none", "queued", "begun", "ended"}]
  /\ results \in Seq(Result)

\* A batch the script has not enqueued has no job, and one whose CSV has been
\* copied keeps it until its job is over.
NoJobBefore ==
  \A b \in Batches :
    b > at \/ (b = at /\ stage \in {"wait", "institution", "insert", "enqueue"}) => job[b] = "none"
CopiedFirst == stage \in {"insert", "enqueue"} => at \in files
CsvKept == \A b \in Batches : job[b] \in {"queued", "begun"} => b \in files
OverWhenLookedAt == stage \in {"tail", "unlink"} => job[at] = "ended"

\* A terminal batch is final.
TerminalIsOver == \A b \in Batches : batch[b] \in InDatabase => job[b] = "ended"

\* The listener passes what its secret verifies.
PassesVerified == \A b \in passes : Verifies(b)

\* What was collected is of batches looked at, and still so ...
ResultsTrue ==
  \A k \in DOMAIN results :
    /\ results[k].of < at \/ (results[k].of = at /\ ~Before(stage))
    /\ batch[results[k].of] = results[k].status
    /\ results[k].pass => results[k].of \in passes

\* ... the last one of the batch at hand ...
LastIsThis == stage = "tail" => results # <<>> /\ results[Len(results)].of = at

\* ... and of every batch, if there are as many as there have been batches.
OnePerBatch == Len(results) = at \/ (Before(stage) /\ Len(results) + 1 = at)
NoneSkipped ==
  /\ Len(results) <= at /\ (Before(stage) => Len(results) < at)
  /\ OnePerBatch => \A k \in DOMAIN results : results[k].of = k

LastWhenSummed == stage = "sum" => at = Len(Order)

ZeroIsEarned == exit = "0" => \A b \in Batches : batch[b] = "complete" /\ b \in passes

ReplayInv ==
  /\ ReplayTypes /\ NoJobBefore /\ CopiedFirst /\ CsvKept /\ OverWhenLookedAt
  /\ TerminalIsOver /\ PassesVerified /\ ResultsTrue /\ LastIsThis /\ NoneSkipped
  /\ LastWhenSummed /\ ZeroIsEarned

\* The command line names one institution or more.
LEMMA SomeBatch == Len(Order) \in Nat /\ Len(Order) >= 1 /\ Batches = 1..Len(Order)
  BY ReplayAssumption DEF Batches

\* Before the first step nothing is collected and no job exists.
LEMMA ReplayBegins == ReplayInit => ReplayInv
<1> SUFFICES ASSUME ReplayInit PROVE ReplayInv
  OBVIOUS
<1>1. /\ stage = "wait" /\ at = 1 /\ files = {} /\ passes = {} /\ results = <<>> /\ exit = "none"
      /\ batch = [i \in Batches |-> "none"] /\ job = [i \in Batches |-> "none"]
  BY DEF ReplayInit
<1>2. ReplayTypes
  <2>1. 1 \in Batches /\ <<>> \in Seq(Result)
    BY SomeBatch
  <2> QED
    BY <1>1, <2>1 DEF ReplayTypes, Stages, Statuses
<1>3. DOMAIN results = {} /\ Len(results) = 0
  BY <1>1
<1>4. NoneSkipped /\ ResultsTrue
  BY <1>1, <1>3 DEF NoneSkipped, ResultsTrue, Before
<1> QED
  BY <1>1, <1>2, <1>4 DEF ReplayInv, NoJobBefore, CopiedFirst, CsvKept, OverWhenLookedAt, TerminalIsOver,
     InDatabase, PassesVerified, LastIsThis, LastWhenSummed, ZeroIsEarned

\* Every result collected has the fields of a result.
LEMMA ResultFields ==
  ASSUME results \in Seq(Result), NEW k \in DOMAIN results
  PROVE  /\ results[k].of \in Batches /\ results[k].of \in Nat
         /\ results[k].status \in InDatabase /\ k \in 1..Len(results)
<1>1. results[k] \in Result /\ k \in 1..Len(results)
  OBVIOUS
<1> QED
  BY <1>1, SomeBatch DEF Result

\* The script finds the listener or gives up; the listener starts.
LEMMA ListenerWaitKeeps ==
  ASSUME ReplayInv, ListenerSeen \/ ListenerMissing \/ ListenerStarts
  PROVE  ReplayInv'
<1>1. /\ at' = at /\ files' = files /\ batch' = batch /\ job' = job /\ passes' = passes
      /\ results' = results /\ setup' = setup
      /\ stage' = stage \/ (stage = "wait" /\ stage' \in {"institution", "ended"})
      /\ exit' = exit \/ exit' = "no listener"
  BY DEF ListenerSeen, ListenerMissing, ListenerStarts, Stop
<1>2. ReplayTypes'
  BY <1>1 DEF ReplayInv, ReplayTypes, Stages
<1>3. NoJobBefore' /\ CopiedFirst' /\ CsvKept' /\ OverWhenLookedAt' /\ LastIsThis' /\ LastWhenSummed'
  BY <1>1 DEF ReplayInv, NoJobBefore, CopiedFirst, CsvKept, OverWhenLookedAt, LastIsThis, LastWhenSummed
<1>4. TerminalIsOver' /\ PassesVerified' /\ ZeroIsEarned'
  BY <1>1 DEF ReplayInv, TerminalIsOver, PassesVerified, Verifies, ZeroIsEarned
<1>5. ResultsTrue' /\ NoneSkipped'
  <2>1. Before(stage) \/ stage' = stage
    BY <1>1 DEF Before
  <2>2. Len(results) \in Nat /\ at \in Nat
    BY SomeBatch DEF ReplayInv, ReplayTypes
  <2>3. ResultsTrue'
    <3> SUFFICES ASSUME NEW k \in DOMAIN results
                 PROVE  /\ results[k].of < at \/ (results[k].of = at /\ ~Before(stage'))
                        /\ batch[results[k].of] = results[k].status
                        /\ results[k].pass => results[k].of \in passes
      BY <1>1 DEF ResultsTrue
    <3> QED
      BY <2>1 DEF ReplayInv, ResultsTrue
  <2>4. NoneSkipped'
    BY <1>1, <2>2 DEF ReplayInv, NoneSkipped, OnePerBatch, Before
  <2> QED
    BY <2>3, <2>4
<1> QED
  BY <1>2, <1>3, <1>4, <1>5 DEF ReplayInv

\* The next place: what has been looked at stays so, and the place is one more.
LEMMA NextPlace ==
  ASSUME ReplayInv, NextInstitution, results' = results, batch' = batch, job' = job,
         passes' = passes, setup' = setup, exit' = exit,
         files' \subseteq Batches,
         \A b \in Batches : job[b] \in {"queued", "begun"} => b \in files',
         ~Before(stage) \/ stage = "institution",
         stage \in {"institution", "unlink"}
  PROVE  ReplayInv'
<1>1. \/ at = Len(Order) /\ stage' = "sum" /\ at' = at
      \/ at # Len(Order) /\ stage' = "institution" /\ at' = at + 1
  BY DEF NextInstitution
<1>2. at \in Nat /\ at' \in Nat /\ at' \in Batches /\ Len(results) \in Nat
  BY <1>1, SomeBatch DEF ReplayInv, ReplayTypes
<1>3. ReplayTypes'
  BY <1>1, <1>2 DEF ReplayInv, ReplayTypes, Stages
<1>4. NoJobBefore' /\ CopiedFirst' /\ CsvKept' /\ OverWhenLookedAt' /\ LastIsThis' /\ LastWhenSummed'
  BY <1>1, <1>2, SomeBatch
  DEF ReplayInv, NoJobBefore, CopiedFirst, CsvKept, OverWhenLookedAt, LastIsThis, LastWhenSummed
<1>5. TerminalIsOver' /\ PassesVerified' /\ ZeroIsEarned'
  BY <1>1 DEF ReplayInv, TerminalIsOver, PassesVerified, Verifies, ZeroIsEarned
<1>6. ResultsTrue'
  <2> SUFFICES ASSUME NEW k \in DOMAIN results
               PROVE  /\ results[k].of < at' \/ (results[k].of = at' /\ ~Before(stage'))
                      /\ batch[results[k].of] = results[k].status
                      /\ results[k].pass => results[k].of \in passes
    BY DEF ResultsTrue
  <2>1. results[k].of \in Nat
    BY ResultFields DEF ReplayInv, ReplayTypes
  <2>2. results[k].of < at \/ (results[k].of = at /\ ~Before(stage))
    BY DEF ReplayInv, ResultsTrue
  <2>3. results[k].of < at' \/ (results[k].of = at' /\ ~Before(stage'))
    BY <1>1, <1>2, <2>1, <2>2 DEF Before
  <2> QED
    BY <2>3 DEF ReplayInv, ResultsTrue
<1>7. NoneSkipped'
  BY <1>1, <1>2 DEF ReplayInv, NoneSkipped, OnePerBatch, Before
<1> QED
  BY <1>3, <1>4, <1>5, <1>6, <1>7 DEF ReplayInv

\* An institution without a CSV is passed over.
LEMMA SkipKeeps ==
  ASSUME ReplayInv, SkipInstitution
  PROVE  ReplayInv'
  BY NextPlace DEF SkipInstitution, Before, ReplayInv, ReplayTypes, CsvKept

\* The CSV is removed once its job is over.
LEMMA UnlinkKeeps ==
  ASSUME ReplayInv, Unlink
  PROVE  ReplayInv'
<1>1. \A b \in Batches : job[b] \in {"queued", "begun"} => b \in files'
  BY DEF Unlink, ReplayInv, CsvKept, OverWhenLookedAt
<1> QED
  BY <1>1, NextPlace DEF Unlink, Before, ReplayInv, ReplayTypes

\* The CSV is copied before there is a job for it.
LEMMA CopyKeeps ==
  ASSUME ReplayInv, CopyCsv
  PROVE  ReplayInv'
  BY SomeBatch DEF ReplayInv, CopyCsv, Before, Stages, Verifies,
        ReplayTypes, NoJobBefore, CopiedFirst, CsvKept, OverWhenLookedAt,
        TerminalIsOver, PassesVerified, ResultsTrue, LastIsThis, NoneSkipped, OnePerBatch, LastWhenSummed, ZeroIsEarned

\* A row inserted is of a batch nothing was collected of.
LEMMA InsertKeeps ==
  ASSUME ReplayInv, InsertBatch
  PROVE  ReplayInv'
  BY SomeBatch DEF ReplayInv, InsertBatch, Before, Stages, Verifies, Statuses, InDatabase,
        ReplayTypes, NoJobBefore, CopiedFirst, CsvKept, OverWhenLookedAt,
        TerminalIsOver, PassesVerified, ResultsTrue, LastIsThis, NoneSkipped, OnePerBatch, LastWhenSummed, ZeroIsEarned

\* A job enqueued has its CSV.
LEMMA EnqueueKeeps ==
  ASSUME ReplayInv, Enqueue
  PROVE  ReplayInv'
  BY SomeBatch DEF ReplayInv, Enqueue, Before, Stages, Verifies, Statuses, InDatabase,
        ReplayTypes, NoJobBefore, CopiedFirst, CsvKept, OverWhenLookedAt,
        TerminalIsOver, PassesVerified, ResultsTrue, LastIsThis, NoneSkipped, OnePerBatch, LastWhenSummed, ZeroIsEarned

\* What the batch ended with is collected, first without the webhook.
LEMMA PolledKeeps ==
  ASSUME ReplayInv, Polled
  PROVE  ReplayInv'
<1> DEFINE new == [of |-> at, status |-> batch[at], pass |-> FALSE]
<1>1. /\ stage = "poll" /\ stage' = "tail" /\ batch[at] \in InDatabase /\ results' = Append(results, new)
      /\ at' = at /\ files' = files /\ batch' = batch /\ job' = job /\ passes' = passes
      /\ setup' = setup /\ exit' = exit
  BY DEF Polled, PollEnds
<1>2. at \in Nat /\ at \in Batches /\ results \in Seq(Result) /\ Len(results) \in Nat
  BY SomeBatch DEF ReplayInv, ReplayTypes
<1>3. new \in Result
  BY <1>1, <1>2 DEF Result
<1>4. /\ results' \in Seq(Result) /\ Len(results') = Len(results) + 1
      /\ \A k \in DOMAIN results : results'[k] = results[k] /\ k \in 1..Len(results)
      /\ \A k \in DOMAIN results' : k \in DOMAIN results \/ k = Len(results')
      /\ results'[Len(results')] = new
  BY <1>1, <1>2, <1>3
<1> HIDE DEF new
<1>5. ReplayTypes' /\ NoJobBefore' /\ CopiedFirst' /\ CsvKept' /\ LastWhenSummed'
  BY <1>1, <1>4 DEF ReplayInv, ReplayTypes, Stages, NoJobBefore, CopiedFirst, CsvKept, LastWhenSummed
<1>6. OverWhenLookedAt' /\ TerminalIsOver' /\ PassesVerified' /\ ZeroIsEarned'
  BY <1>1, <1>2 DEF ReplayInv, OverWhenLookedAt, TerminalIsOver, PassesVerified, Verifies, ZeroIsEarned
<1>7. new.of = at /\ new.status = batch[at] /\ ~new.pass
  BY DEF new
<1>8. ResultsTrue'
  <2> SUFFICES ASSUME NEW k \in DOMAIN results'
               PROVE  /\ results'[k].of < at \/ results'[k].of = at
                      /\ batch[results'[k].of] = results'[k].status
                      /\ results'[k].pass => results'[k].of \in passes
    BY <1>1 DEF ResultsTrue, Before
  <2>1. CASE k \in DOMAIN results
    BY <2>1, <1>4 DEF ReplayInv, ResultsTrue
  <2>2. CASE k = Len(results')
    BY <2>2, <1>4, <1>7
  <2> QED
    BY <2>1, <2>2, <1>4
<1>9. LastIsThis'
  BY <1>1, <1>2, <1>4, <1>7 DEF LastIsThis
<1>10. NoneSkipped'
  <2>1. Len(results) < at /\ Before(stage) /\ ~Before(stage')
    BY <1>1 DEF ReplayInv, NoneSkipped, Before
  <2>2. Len(results') <= at
    BY <2>1, <1>2, <1>4
  <2>3. ASSUME Len(results') = at, NEW k \in DOMAIN results' PROVE results'[k].of = k
    <3>1. OnePerBatch
      BY <2>3, <2>1, <1>2, <1>4 DEF OnePerBatch
    <3>2. CASE k \in DOMAIN results
      BY <3>1, <3>2, <1>4 DEF ReplayInv, NoneSkipped
    <3>3. CASE k = Len(results')
      BY <2>3, <3>3, <1>4, <1>7
    <3> QED
      BY <3>2, <3>3, <1>4
  <2> QED
    BY <1>1, <2>1, <2>2, <2>3 DEF NoneSkipped, OnePerBatch
<1> QED
  BY <1>5, <1>6, <1>8, <1>9, <1>10 DEF ReplayInv

\* The last result, which is of the batch at hand, is told of the PASS line.
LEMMA TailKeeps ==
  ASSUME ReplayInv, NEW found \in BOOLEAN, TailEnds(found)
  PROVE  ReplayInv'
<1> DEFINE last == Len(results)
<1>1. /\ stage = "tail" /\ stage' = "unlink" /\ (found <=> at \in passes)
      /\ results' = [results EXCEPT ![last].pass = found]
      /\ at' = at /\ files' = files /\ batch' = batch /\ job' = job /\ passes' = passes
      /\ setup' = setup /\ exit' = exit
  BY DEF TailEnds
<1>2. at \in Nat /\ at \in Batches /\ results \in Seq(Result) /\ Len(results) \in Nat
  BY SomeBatch DEF ReplayInv, ReplayTypes
<1>3. results # <<>> /\ results[last].of = at
  BY <1>1 DEF ReplayInv, LastIsThis
<1>4. last \in DOMAIN results /\ results[last] \in Result
  BY <1>2, <1>3
<1>5. /\ results' \in Seq(Result) /\ Len(results') = Len(results) /\ DOMAIN results' = DOMAIN results
      /\ \A k \in DOMAIN results :
            /\ results'[k].of = results[k].of /\ results'[k].status = results[k].status
            /\ k # last => results'[k].pass = results[k].pass
      /\ results'[last].pass = found
  <2> DEFINE told == [results[last] EXCEPT !.pass = found]
  <2>1. results' = [results EXCEPT ![last] = told]
    BY <1>1
  <2>2. \A k \in 1..Len(results) : results[k] \in Result
    BY <1>2
  <2>3. told \in Result
    BY <1>4 DEF Result
  <2>4. told.of = results[last].of /\ told.status = results[last].status /\ told.pass = found
    BY <1>4 DEF Result
  <2> HIDE DEF told
  <2> QED
    BY <2>1, <2>2, <2>3, <2>4, <1>2, <1>4
<1> HIDE DEF last
<1>6. ReplayTypes' /\ NoJobBefore' /\ CopiedFirst' /\ CsvKept' /\ LastWhenSummed' /\ LastIsThis'
  BY <1>1, <1>5 DEF ReplayInv, ReplayTypes, Stages, NoJobBefore, CopiedFirst, CsvKept, LastWhenSummed,
                    LastIsThis
<1>7. OverWhenLookedAt' /\ TerminalIsOver' /\ PassesVerified' /\ ZeroIsEarned'
  BY <1>1, <1>2 DEF ReplayInv, OverWhenLookedAt, TerminalIsOver, PassesVerified, Verifies, ZeroIsEarned
<1>8. ResultsTrue'
  <2> SUFFICES ASSUME NEW k \in DOMAIN results
               PROVE  /\ results'[k].of < at \/ results'[k].of = at
                      /\ batch[results'[k].of] = results'[k].status
                      /\ results'[k].pass => results'[k].of \in passes
    BY <1>1, <1>5 DEF ResultsTrue, Before
  <2>1. CASE k # last
    BY <2>1, <1>5 DEF ReplayInv, ResultsTrue
  <2>2. CASE k = last
    BY <2>2, <1>1, <1>3, <1>5 DEF ReplayInv, ResultsTrue
  <2> QED
    BY <2>1, <2>2
<1>9. NoneSkipped'
  BY <1>1, <1>5 DEF ReplayInv, NoneSkipped, OnePerBatch, Before
<1> QED
  BY <1>6, <1>7, <1>8, <1>9 DEF ReplayInv

\* The wait for the batch is over before the batch is: the script stops.
LEMMA TimeoutKeeps ==
  ASSUME ReplayInv, PollTimesOut
  PROVE  ReplayInv'
<1>1. /\ stage = "poll" /\ stage' = "ended" /\ exit' = "timed out"
      /\ at' = at /\ files' = files /\ batch' = batch /\ job' = job /\ passes' = passes
      /\ setup' = setup /\ results' = results
  BY DEF PollTimesOut, Stop
<1>2. at \in Nat /\ Len(results) \in Nat
  BY SomeBatch DEF ReplayInv, ReplayTypes
<1>4. NoneSkipped'
  BY <1>1, <1>2 DEF ReplayInv, NoneSkipped, OnePerBatch, Before
<1> QED
  BY <1>1, <1>4 DEF ReplayInv, Stages, Before, Verifies, ReplayTypes, NoJobBefore, CopiedFirst, CsvKept,
     OverWhenLookedAt, TerminalIsOver, PassesVerified, ResultsTrue, LastIsThis, LastWhenSummed, ZeroIsEarned

\* As many complete results with a PASS as institutions: no institution was skipped.
LEMMA AllInstitutionsMeansAll ==
  ASSUME ReplayInv, stage = "sum", AllInstitutions(results)
  PROVE  \A b \in Batches : batch[b] = "complete" /\ b \in passes
<1> DEFINE done == {k \in DOMAIN results : results[k].status = "complete"}
           passed == {k \in DOMAIN results : results[k].pass}
           n == Len(results)
<1>1. at = Len(Order) /\ at \in Nat /\ n \in Nat /\ DOMAIN results = 1..n /\ n <= at
  BY SomeBatch DEF ReplayInv, ReplayTypes, LastWhenSummed, NoneSkipped
<1>2. Cardinality(done) = at /\ Cardinality(passed) = at
  <2>1. Cardinality(done) = Completed(results) /\ Cardinality(passed) = Passed(results)
    BY DEF Completed, Passed
  <2> QED
    BY <2>1, <1>1 DEF AllInstitutions
<1>0. done \subseteq 1..n /\ passed \subseteq 1..n
  BY <1>1
<1> HIDE DEF done, passed
<1>3. IsFiniteSet(1..n) /\ Cardinality(1..n) = n
  <2>1. n \in Int /\ 1 \in Int
    BY <1>1
  <2>2. IsFiniteSet(1..n) /\ Cardinality(1..n) = (IF 1 > n THEN 0 ELSE n - 1 + 1)
    BY <2>1, FS_Interval
  <2>3. CASE n = 0
    BY <2>2, <2>3
  <2>4. CASE n # 0
    <3>1. ~(1 > n) /\ n - 1 + 1 = n
      BY <2>4, <1>1
    <3> QED
      BY <2>2, <3>1
  <2> QED
    BY <2>3, <2>4
<1>4. /\ Cardinality(done) <= n /\ (Cardinality(done) = n => done = 1..n)
      /\ Cardinality(passed) <= n /\ (Cardinality(passed) = n => passed = 1..n)
  <2>1. ASSUME NEW T \in SUBSET (1..n) PROVE Cardinality(T) <= n /\ (Cardinality(T) = n => T = 1..n)
    <3>1. Cardinality(T) <= Cardinality(1..n) /\ (Cardinality(1..n) = Cardinality(T) => 1..n = T)
      BY <1>3, FS_Subset
    <3> QED
      BY <3>1, <1>3
  <2> QED
    BY <1>0, <2>1
<1>5. n = at /\ done = 1..n /\ passed = 1..n
  <2>1. n = at
    <3>1. at <= n
      BY <1>2, <1>4
    <3>2. n <= at /\ n \in Nat /\ at \in Nat
      BY <1>1
    <3> HIDE DEF n
    <3> QED
      BY <3>1, <3>2
  <2> QED
    BY <1>2, <1>4, <2>1
<1>6. \A k \in 1..n : results[k].status = "complete" /\ results[k].pass
  BY <1>5 DEF done, passed
<1>7. \A k \in 1..n : results[k].of = k
  BY <1>1, <1>5 DEF ReplayInv, NoneSkipped, OnePerBatch
<1>8. \A k \in 1..n : batch[k] = "complete" /\ k \in passes
  BY <1>1, <1>6, <1>7 DEF ReplayInv, ResultsTrue
<1> QED
  BY <1>1, <1>5, <1>8, SomeBatch

\* The script's sum is earned.
LEMMA SumKeeps ==
  ASSUME ReplayInv, SumUp
  PROVE  ReplayInv'
<1>1. /\ stage = "sum" /\ stage' = "ended" /\ exit' = (IF AllInstitutions(results) THEN "0" ELSE "4")
      /\ at' = at /\ files' = files /\ batch' = batch /\ job' = job /\ passes' = passes
      /\ setup' = setup /\ results' = results
  BY DEF SumUp, Stop
<1>2. ZeroIsEarned'
  BY <1>1, AllInstitutionsMeansAll DEF ZeroIsEarned
<1>4. NoneSkipped'
  BY <1>1 DEF ReplayInv, NoneSkipped, OnePerBatch, Before
<1> QED
  BY <1>1, <1>2, <1>4 DEF ReplayInv, Stages, Before, Verifies, ReplayTypes, NoJobBefore, CopiedFirst,
     CsvKept, OverWhenLookedAt, TerminalIsOver, PassesVerified, ResultsTrue, LastIsThis, LastWhenSummed

\* The worker ends only batches whose jobs have begun.
LEMMA WorkerKeeps ==
  ASSUME ReplayInv, NEW i \in Batches,
         BeginJob(i) \/ \E status \in InDatabase : EndJob(i, status)
  PROVE  ReplayInv'
<1>1. PICK st \in {"processing", "complete", "failed"}, jb \in {"begun", "ended"} :
        /\ batch' = [batch EXCEPT ![i] = st] /\ job' = [job EXCEPT ![i] = jb]
        /\ job[i] \in {"queued", "begun"} /\ (st \in InDatabase => jb = "ended")
  BY DEF BeginJob, EndJob, InDatabase
<1>2. /\ stage' = stage /\ at' = at /\ files' = files /\ passes' = passes
      /\ setup' = setup /\ results' = results /\ exit' = exit
  BY DEF BeginJob, EndJob
<1>3. ReplayTypes'
  BY <1>1, <1>2 DEF ReplayInv, ReplayTypes, Statuses
<1>4. /\ \A b \in Batches : b # i => batch'[b] = batch[b] /\ job'[b] = job[b]
      /\ batch'[i] = st /\ job'[i] = jb
  BY <1>1 DEF ReplayInv, ReplayTypes
<1>5. NoJobBefore' /\ CopiedFirst' /\ CsvKept' /\ OverWhenLookedAt' /\ TerminalIsOver'
  BY <1>1, <1>2, <1>4
  DEF ReplayInv, ReplayTypes, NoJobBefore, CopiedFirst, CsvKept, OverWhenLookedAt, TerminalIsOver
<1>6. batch[i] \notin InDatabase
  BY <1>1 DEF ReplayInv, TerminalIsOver
<1>7. ResultsTrue'
  <2> SUFFICES ASSUME NEW k \in DOMAIN results PROVE batch'[results[k].of] = batch[results[k].of]
    BY <1>2 DEF ReplayInv, ResultsTrue
  <2>1. results[k].of \in Batches /\ batch[results[k].of] \in InDatabase
    BY ResultFields DEF ReplayInv, ReplayTypes, ResultsTrue
  <2> QED
    BY <2>1, <1>4, <1>6
<1>8. ZeroIsEarned'
  BY <1>2, <1>4, <1>6 DEF ReplayInv, ZeroIsEarned, InDatabase
<1>9. PassesVerified' /\ LastIsThis' /\ LastWhenSummed' /\ NoneSkipped'
  BY <1>2 DEF ReplayInv, PassesVerified, Verifies, LastIsThis, LastWhenSummed, NoneSkipped, OnePerBatch
<1> QED
  BY <1>3, <1>5, <1>7, <1>8, <1>9 DEF ReplayInv

\* The listener passes only what it verifies, and takes nothing back.
LEMMA WebhooksKeep ==
  ASSUME ReplayInv, NEW i \in Batches, SendWebhook(i) \/ LoseWebhook(i) \/ Listen(i)
  PROVE  ReplayInv'
<1>1. /\ stage' = stage /\ at' = at /\ files' = files /\ batch' = batch /\ job' = job
      /\ setup' = setup /\ results' = results /\ exit' = exit
      /\ passes' = passes \/ (Verifies(i) /\ passes' = passes \cup {i})
  BY DEF SendWebhook, LoseWebhook, Listen
<1> QED
  BY <1>1 DEF ReplayInv, Before, Verifies, ReplayTypes, NoJobBefore, CopiedFirst, CsvKept, OnePerBatch,
     OverWhenLookedAt, TerminalIsOver, PassesVerified, ResultsTrue, LastIsThis, LastWhenSummed,
     ZeroIsEarned, NoneSkipped

\* Every step of the script, the worker and the listener keeps the invariant.
LEMMA ReplayStep ==
  ASSUME ReplayInv, [ReplayNext]_replay
  PROVE  ReplayInv'
<1>1. CASE UNCHANGED replay
  BY <1>1 DEF replay, ReplayInv, Before, Verifies, ReplayTypes, NoJobBefore, CopiedFirst, CsvKept, OnePerBatch,
     OverWhenLookedAt, TerminalIsOver, PassesVerified, ResultsTrue, LastIsThis, LastWhenSummed,
     ZeroIsEarned, NoneSkipped
<1> QED
  BY <1>1, ListenerWaitKeeps, SkipKeeps, UnlinkKeeps, CopyKeeps, InsertKeeps, EnqueueKeeps, PolledKeeps,
     TailKeeps, TimeoutKeeps, SumKeeps, WorkerKeeps, WebhooksKeep DEF ReplayNext

\* A recording that ends with 0 shows a complete batch and a verified webhook for
\* every institution of the command line, however many and however often named.
THEOREM RecordingEarned == ReplaySpec => []ReplayIsEarned
<1>1. ReplayInv => ReplayIsEarned
  BY DEF ReplayInv, ReplayIsEarned, ZeroIsEarned, CsvKept, PassesVerified, Verifies
<1> QED
  BY <1>1, ReplayBegins, ReplayStep, PTL DEF ReplaySpec

=============================================================================
