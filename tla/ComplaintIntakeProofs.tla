------------------------ MODULE ComplaintIntakeProofs -------------------------
(***************************************************************************)
(* Theorems about ComplaintIntake, for every set of requests, keys, bodies *)
(* and complaint ids.  The safety properties follow from one inductive     *)
(* invariant, IInv, which says who may own which row of the idempotency    *)
(* table and which row of the complaints table at every program point.     *)
(***************************************************************************)
EXTENDS ComplaintIntake, TLAPS

\* A row was made by a claim of its owner: same key, same body, past the claim.
OwnerMadeRow ==
  \A k \in Keys : slot[k].state # "absent" =>
    LET o == slot[k].owner
    IN  /\ o \in Requests /\ key[o] = k /\ body[o] = slot[k].body
        /\ pc[o] \in Owning \cup Stored \cup {"done"}

\* Between claim and commit the row is in processing and belongs to the handler.
OwnerHoldsRow ==
  \A r \in Requests : pc[r] \in Owning =>
    slot[key[r]].state = "processing" /\ slot[key[r]].owner = r

\* An uncommitted complaint has its id for itself.
FlushedHasId ==
  \A r \in Requests : pc[r] = "flushed" =>
    /\ complaints[Complaint(r)] = Nobody
    /\ \A q \in Requests : pc[q] = "flushed" /\ Complaint(q) = Complaint(r) => q = r

\* Who can be found in the complaints table.
StoredHasCommitted ==
  \A r \in Requests :
    /\ pc[r] \in Stored => IsStored(r)
    /\ IsStored(r) => pc[r] \in Stored \cup {"done"}
    /\ r \in swept => IsStored(r)

IdsMatch ==
  \A c \in Complaints : complaints[c] # Nobody =>
    complaints[c] \in Requests /\ Complaint(complaints[c]) = c

IInv ==
  /\ TypeOK /\ OwnerMadeRow /\ OwnerHoldsRow /\ FlushedHasId
  /\ StoredHasCommitted /\ IdsMatch /\ RowAndComplaintAgree

-----------------------------------------------------------------------------
(* Type correctness.                                                       *)

\* The operators on rows stay inside the row type.
LEMMA RowOperators ==
  ASSUME NEW r \in Requests, NEW b \in Bodies, NEW row \in Slot
  PROVE  /\ NoRow \in Slot
         /\ Placeholder(r, b) \in Slot
         /\ Completed(row, r) \in Slot
         /\ [row EXCEPT !.expired = TRUE] \in Slot
         /\ ReadOutcome(row, b) \in Answers \cup {"wait"}
BY DEF NoRow, Slot, Placeholder, Completed, ReadOutcome, Answers

\* The types hold of a service that has just started.
LEMMA TypeInit == Init => TypeOK
BY IntakeAssumption DEF Init, TypeOK, Steps, Answers, NoRow, Slot

\* No step of a request, a worker or the sweeper leaves the types.
LEMMA TypeStep == IInv /\ [Next]_vars => TypeOK'
<1> SUFFICES ASSUME IInv, [Next]_vars PROVE TypeOK'
  OBVIOUS
<1> USE IntakeAssumption DEF TypeOK, IInv
<1>1. ASSUME NEW r \in Requests, Arrive(r) PROVE TypeOK'
  BY <1>1 DEF Arrive, Finish, Steps, Answers
<1>2. ASSUME NEW r \in Requests, Claim(r) PROVE TypeOK'
  BY <1>2, RowOperators DEF Claim, Steps
<1>3. ASSUME NEW r \in Requests, ClaimConflict(r) PROVE TypeOK'
  BY <1>3 DEF ClaimConflict, Steps
<1>4. ASSUME NEW r \in Requests, ReadSlot(r) PROVE TypeOK'
  <2>1. ReadOutcome(slot[key[r]], body[r]) \in Answers
    BY <1>4, RowOperators DEF ReadSlot
  <2>2. slot[key[r]].response \in Requests \cup {Nobody}
    BY DEF Slot
  <2> QED
    BY <1>4, <2>1, <2>2 DEF ReadSlot, Finish, Steps
<1>5. ASSUME NEW r \in Requests, ReadAgain(r) PROVE TypeOK'
  BY <1>5 DEF ReadAgain, MayReadAgain, Finish, Steps, Answers
<1>6. ASSUME NEW r \in Requests, Flush(r) PROVE TypeOK'
  BY <1>6 DEF Flush, Steps
<1>7. ASSUME NEW r \in Requests, FlushDuplicate(r) PROVE TypeOK'
  BY <1>7 DEF FlushDuplicate, Finish, Steps, Answers
<1>8. ASSUME NEW r \in Requests, Commit(r) PROVE TypeOK'
  <2>1. Completed(slot[key[r]], r) \in Slot
    BY RowOperators
  <2> QED
    BY <1>8, <2>1 DEF Commit, Steps, Complaint
<1>9. ASSUME NEW r \in Requests, Respond(r) PROVE TypeOK'
  BY <1>9 DEF Respond, Steps, Answers
<1>10. ASSUME NEW r \in Requests, Dispatch(r) PROVE TypeOK'
  BY <1>10 DEF Dispatch, Steps
<1>11. ASSUME NEW r \in Requests, Fail(r) PROVE TypeOK'
  BY <1>11 DEF Fail, Steps, Answers
<1>12. ASSUME NEW k \in Keys, Expire(k) PROVE TypeOK'
  BY <1>12 DEF Expire, Slot
<1>13. ASSUME Sweep PROVE TypeOK'
  <2>1. NoRow \in Slot
    BY DEF NoRow, Slot
  <2>2. \A k \in Keys : Sweepable(slot[k]) => slot[k].owner \in Requests
    BY DEF Sweepable, OwnerMadeRow
  <2> QED
    BY <1>13, <2>1, <2>2 DEF Sweep
<1>14. CASE UNCHANGED vars
  BY <1>14 DEF vars
<1> QED
  BY <1>1, <1>2, <1>3, <1>4, <1>5, <1>6, <1>7, <1>8, <1>9, <1>10, <1>11,
     <1>12, <1>13, <1>14 DEF Next, Handle, Terminated

-----------------------------------------------------------------------------
(* The inductive invariant.                                                *)

\* The inductive invariant holds of a service that has just started.
LEMMA InvInit == Init => IInv
<1> SUFFICES ASSUME Init PROVE IInv
  OBVIOUS
<1>1. TypeOK
  BY TypeInit
<1>2. OwnerMadeRow /\ OwnerHoldsRow /\ FlushedHasId
  BY DEF Init, OwnerMadeRow, OwnerHoldsRow, FlushedHasId, NoRow, Owning
<1>3. StoredHasCommitted /\ IdsMatch /\ RowAndComplaintAgree
  BY <1>1, IntakeAssumption, NobodyAssumption
     DEF Init, TypeOK, StoredHasCommitted, IdsMatch, RowAndComplaintAgree,
         RowSpeaksOfComplaint, ComplaintHasRow, IsStored, Complaint, NoRow, Stored
<1> QED
  BY <1>1, <1>2, <1>3 DEF IInv

\* Every step keeps the inductive invariant.
LEMMA InvStep == IInv /\ [Next]_vars => IInv'
<1> SUFFICES ASSUME IInv, [Next]_vars PROVE IInv'
  OBVIOUS
<1>0. TypeOK /\ TypeOK'
  BY TypeStep DEF IInv
<1> USE <1>0, IntakeAssumption, NobodyAssumption
    DEF IInv, TypeOK, OwnerMadeRow, OwnerHoldsRow, FlushedHasId,
        StoredHasCommitted, IdsMatch, RowAndComplaintAgree,
        RowSpeaksOfComplaint, ComplaintHasRow, IsStored, Complaint, Owning, Stored
<1>1. ASSUME NEW r \in Requests, Arrive(r) PROVE IInv'
  BY <1>1 DEF Arrive, Finish
<1>2. ASSUME NEW r \in Requests, Claim(r) PROVE IInv'
  <2>1. /\ slot[key[r]].state = "absent" /\ pc[r] = "arrived"
        /\ slot' = [slot EXCEPT ![key[r]] = Placeholder(r, body[r])]
        /\ pc' = [pc EXCEPT ![r] = "claimed"]
        /\ UNCHANGED <<key, body, complaints, swept>>
    BY <1>2 DEF Claim, Insertable
  <2>2. \A k \in Keys : slot'[k] = IF k = key[r] THEN Placeholder(r, body[r]) ELSE slot[k]
    BY <2>1
  <2>3. /\ Placeholder(r, body[r]).state = "processing"
        /\ Placeholder(r, body[r]).owner = r
        /\ Placeholder(r, body[r]).body = body[r]
    BY DEF Placeholder
  <2>4. OwnerMadeRow' /\ OwnerHoldsRow'
    BY <2>1, <2>2, <2>3
  <2>5. FlushedHasId' /\ StoredHasCommitted' /\ IdsMatch'
    BY <2>1
  <2>6. RowAndComplaintAgree'
    <3>1. ASSUME NEW k \in Keys PROVE RowSpeaksOfComplaint(k)'
      <4>1. CASE k = key[r]
        BY <4>1, <2>2, <2>3
      <4>2. CASE k # key[r]
        BY <4>2, <2>1, <2>2
      <4> QED
        BY <4>1, <4>2
    <3>2. ASSUME NEW q \in Requests PROVE ComplaintHasRow(q)'
      BY <2>1, <2>2, <2>3
    <3> QED
      BY <3>1, <3>2
  <2> QED
    BY <2>4, <2>5, <2>6
<1>3. ASSUME NEW r \in Requests, ClaimConflict(r) PROVE IInv'
  BY <1>3 DEF ClaimConflict
<1>4. ASSUME NEW r \in Requests, ReadSlot(r) PROVE IInv'
  BY <1>4 DEF ReadSlot, Finish
<1>5. ASSUME NEW r \in Requests, ReadAgain(r) PROVE IInv'
  BY <1>5 DEF ReadAgain, Finish
<1>6. ASSUME NEW r \in Requests, Flush(r) PROVE IInv'
  BY <1>6 DEF Flush, Blocked
<1>7. ASSUME NEW r \in Requests, FlushDuplicate(r) PROVE IInv'
  BY <1>7 DEF FlushDuplicate, Finish
<1>8. ASSUME NEW r \in Requests, Commit(r) PROVE IInv'
  <2>1. /\ pc[r] = "flushed" /\ pc' = [pc EXCEPT ![r] = "committed"]
        /\ complaints' = [complaints EXCEPT ![ComplaintOf[body[r]]] = r]
        /\ UNCHANGED <<key, body, swept>>
    BY <1>8 DEF Commit
  <2>2. /\ slot'[key[r]] = [slot[key[r]] EXCEPT !.state = "complete", !.response = r]
        /\ \A k \in Keys \ {key[r]} : slot'[k] = slot[k]
    BY <1>8 DEF Commit, Completed
  <2>3. /\ slot'[key[r]].state = "complete" /\ slot'[key[r]].response = r
        /\ slot'[key[r]].owner = r /\ slot'[key[r]].body = body[r]
    BY <2>1, <2>2 DEF Slot
  <2>4. OwnerMadeRow'
    <3> SUFFICES ASSUME NEW k \in Keys, slot'[k].state # "absent"
                 PROVE  LET o == slot'[k].owner
                        IN  /\ o \in Requests /\ key[o] = k /\ body[o] = slot'[k].body
                            /\ pc'[o] \in Owning \cup Stored \cup {"done"}
      BY <2>1
    <3>1. CASE k = key[r]
      BY <3>1, <2>1, <2>3
    <3>2. CASE k # key[r]
      BY <3>2, <2>1, <2>2
    <3> QED
      BY <3>1, <3>2
  <2>5. OwnerHoldsRow'
    BY <2>1, <2>2, <2>3
  <2>6. FlushedHasId' /\ StoredHasCommitted' /\ IdsMatch'
    BY <2>1
  <2>7. RowAndComplaintAgree'
    <3>1. ASSUME NEW k \in Keys PROVE RowSpeaksOfComplaint(k)'
      <4>1. CASE k = key[r]
        BY <4>1, <2>1, <2>3
      <4>2. CASE k # key[r]
        BY <4>2, <2>1, <2>2
      <4> QED
        BY <4>1, <4>2
    <3>2. ASSUME NEW q \in Requests PROVE ComplaintHasRow(q)'
      <4>1. CASE q = r
        BY <4>1, <2>1, <2>3
      <4>2. CASE q # r
        BY <4>2, <2>1, <2>2
      <4> QED
        BY <4>1, <4>2
    <3> QED
      BY <3>1, <3>2
  <2> QED
    BY <2>4, <2>5, <2>6, <2>7
<1>9. ASSUME NEW r \in Requests, Respond(r) PROVE IInv'
  BY <1>9 DEF Respond
<1>10. ASSUME NEW r \in Requests, Dispatch(r) PROVE IInv'
  BY <1>10 DEF Dispatch
<1>11. ASSUME NEW r \in Requests, Fail(r) PROVE IInv'
  BY <1>11 DEF Fail, Running
<1>12. ASSUME NEW k \in Keys, Expire(k) PROVE IInv'
  <2>1. /\ \A j \in Keys : /\ slot'[j].state = slot[j].state
                           /\ slot'[j].owner = slot[j].owner
                           /\ slot'[j].body = slot[j].body
                           /\ slot'[j].response = slot[j].response
    BY <1>12 DEF Expire, Slot
  <2>2. UNCHANGED <<key, body, pc, complaints, swept>>
    BY <1>12 DEF Expire
  <2>3. OwnerMadeRow'
    <3> SUFFICES ASSUME NEW j \in Keys, slot'[j].state # "absent"
                 PROVE  LET o == slot'[j].owner
                        IN  /\ o \in Requests /\ key[o] = j /\ body[o] = slot'[j].body
                            /\ pc[o] \in Owning \cup Stored \cup {"done"}
      BY <2>2
    <3>1. /\ slot'[j].state = slot[j].state /\ slot'[j].owner = slot[j].owner
          /\ slot'[j].body = slot[j].body
      BY <2>1
    <3>2. /\ slot[j].owner \in Requests /\ key[slot[j].owner] = j
          /\ body[slot[j].owner] = slot[j].body
          /\ pc[slot[j].owner] \in Owning \cup Stored \cup {"done"}
      BY <3>1
    <3> QED
      BY <3>1, <3>2
  <2>4. OwnerHoldsRow' /\ FlushedHasId' /\ StoredHasCommitted' /\ IdsMatch'
    BY <2>1, <2>2
  <2>5. RowAndComplaintAgree'
    <3>1. ASSUME NEW j \in Keys PROVE RowSpeaksOfComplaint(j)'
      BY <2>1, <2>2
    <3>2. ASSUME NEW q \in Requests PROVE ComplaintHasRow(q)'
      BY <2>1, <2>2
    <3> QED
      BY <3>1, <3>2
  <2> QED
    BY <2>3, <2>4, <2>5
<1>13. ASSUME Sweep PROVE IInv'
  <2> DEFINE gone == {k \in Keys : Sweepable(slot[k])}
  <2>1. /\ \A k \in Keys : slot'[k] = IF k \in gone THEN NoRow ELSE slot[k]
        /\ swept' = swept \cup {slot[k].owner : k \in gone}
        /\ UNCHANGED <<key, body, pc, complaints>>
    BY <1>13 DEF Sweep
  <2>2. /\ NoRow.state = "absent"
        /\ \A k \in gone : slot[k].state = "complete"
    BY DEF NoRow, Sweepable
  <2> HIDE DEF gone
  <2>3. OwnerMadeRow' /\ OwnerHoldsRow' /\ FlushedHasId' /\ IdsMatch'
    BY <2>1, <2>2
  <2>4. StoredHasCommitted'
    BY <2>1, <2>2 DEF gone
  <2>5. RowAndComplaintAgree'
    BY <2>1, <2>2 DEF gone
  <2> QED
    BY <2>3, <2>4, <2>5
<1>14. CASE UNCHANGED vars
  BY <1>14 DEF vars
<1> QED
  BY <1>1, <1>2, <1>3, <1>4, <1>5, <1>6, <1>7, <1>8, <1>9, <1>10, <1>11,
     <1>12, <1>13, <1>14 DEF Next, Handle, Terminated

-----------------------------------------------------------------------------
(* The theorems.                                                           *)

\* Every reachable state satisfies the inductive invariant.
THEOREM Invariance == Spec => []IInv
<1>1. Init => IInv
  BY InvInit
<1>2. IInv /\ [Next]_vars => IInv'
  BY InvStep
<1> QED
  BY <1>1, <1>2, PTL DEF Spec

\* Type correctness of create_complaint's state.
THEOREM TypeCorrect == Spec => []TypeOK
<1>1. IInv => TypeOK
  BY DEF IInv
<1> QED
  BY <1>1, Invariance, PTL

\* The claim is a mutual exclusion: a row has one owner, so two handlers that
\* both hold the row of their key are the same handler.
THEOREM MutualExclusion == Spec => []OneOwner
<1>1. IInv => OneOwner
  BY DEF IInv, OwnerHoldsRow, OneOwner
<1> QED
  BY <1>1, Invariance, PTL

\* The idempotency row and the complaint commit together.
THEOREM AtomicAcceptance == Spec => []RowAndComplaintAgree
<1>1. IInv => RowAndComplaintAgree
  BY DEF IInv
<1> QED
  BY <1>1, Invariance, PTL

\* A key admits one complaint until its row is swept: two complaints stored
\* under one key would both own its one row.
THEOREM AtMostOncePerKey == Spec => []OneAcceptancePerKey
<1>1. IInv => OneAcceptancePerKey
  BY DEF IInv, RowAndComplaintAgree, ComplaintHasRow, OneAcceptancePerKey
<1> QED
  BY <1>1, Invariance, PTL

-----------------------------------------------------------------------------
(* What the clients are told.                                              *)

\* A handler has answered exactly when it is past its last statement.
AnsweredAtEnd ==
  \A r \in Requests :
    /\ pc[r] \notin {"responded", "dispatched", "done"} => answer[r] = "none"
    /\ pc[r] \in {"responded", "dispatched"} => answer[r] = "created" /\ shown[r] = r

OutcomeInv == AnsweredAtEnd /\ AnswersAreTrue /\ OrphanOnlyAfterError

\* A complaint that is in the table stays there, under the same request.
LEMMA StoredStays ==
  IInv /\ [Next]_vars =>
    /\ UNCHANGED <<key, body>>
    /\ \A r \in Requests : IsStored(r) => IsStored(r)'
    /\ \A r \in Requests : ~IsStored(r) /\ IsStored(r)' => pc[r] = "flushed"
<1> SUFFICES ASSUME IInv, [Next]_vars
             PROVE  /\ UNCHANGED <<key, body>>
                    /\ \A r \in Requests : IsStored(r) => IsStored(r)'
                    /\ \A r \in Requests :
                         ~IsStored(r) /\ IsStored(r)' => pc[r] = "flushed"
  OBVIOUS
<1> USE IntakeAssumption, NobodyAssumption DEF IInv, TypeOK, IsStored, Complaint
<1>1. ASSUME NEW q \in Requests, Commit(q)
      PROVE  /\ UNCHANGED <<key, body>>
             /\ \A r \in Requests : IsStored(r) => IsStored(r)'
             /\ \A r \in Requests : ~IsStored(r) /\ IsStored(r)' => pc[r] = "flushed"
  BY <1>1 DEF Commit, FlushedHasId
<1>2. CASE UNCHANGED <<key, body, complaints>>
  BY <1>2
<1>3. (\E q \in Requests : Commit(q)) \/ UNCHANGED <<key, body, complaints>>
  BY DEF Next, Handle, Terminated, vars, Arrive, Claim, ClaimConflict, ReadSlot,
         ReadAgain, Flush, FlushDuplicate, Respond, Dispatch, Fail, Expire, Sweep
<1> QED
  BY <1>1, <1>2, <1>3

\* Nobody has been answered before the first step.
LEMMA OutcomeInit == Init => OutcomeInv
BY DEF Init, OutcomeInv, AnsweredAtEnd, AnswersAreTrue, OrphanOnlyAfterError, NoRow

\* Every step keeps what the answers say of the slots.
LEMMA OutcomeStep == IInv /\ OutcomeInv /\ [Next]_vars => OutcomeInv'
<1> SUFFICES ASSUME IInv, OutcomeInv, [Next]_vars PROVE OutcomeInv'
  OBVIOUS
<1>0. /\ UNCHANGED <<key, body>>
      /\ \A r \in Requests : IsStored(r) => IsStored(r)'
      /\ \A r \in Requests : ~IsStored(r) /\ IsStored(r)' => pc[r] = "flushed"
  BY StoredStays
<1> USE <1>0, IntakeAssumption, NobodyAssumption
    DEF IInv, TypeOK, OwnerMadeRow, OwnerHoldsRow, StoredHasCommitted, IdsMatch,
        OutcomeInv, AnsweredAtEnd, AnswersAreTrue, OrphanOnlyAfterError,
        Owning, Stored, Complaint
<1>1. ASSUME NEW r \in Requests, Arrive(r) PROVE OutcomeInv'
  BY <1>1 DEF Arrive, Finish
<1>2. ASSUME NEW r \in Requests, Claim(r) PROVE OutcomeInv'
  BY <1>2 DEF Claim, Insertable, Placeholder
<1>3. ASSUME NEW r \in Requests, ClaimConflict(r) PROVE OutcomeInv'
  BY <1>3 DEF ClaimConflict
<1>4. ASSUME NEW r \in Requests, ReadSlot(r) PROVE OutcomeInv'
  <2> DEFINE row == slot[key[r]]
             outcome == ReadOutcome(row, body[r])
  <2>1. /\ pc[r] = "waiting" /\ outcome # "wait"
        /\ pc' = [pc EXCEPT ![r] = "done"]
        /\ answer' = [answer EXCEPT ![r] = outcome]
        /\ shown' = IF outcome = "replayed"
                    THEN [shown EXCEPT ![r] = row.response] ELSE shown
        /\ UNCHANGED <<slot, complaints>>
    BY <1>4 DEF ReadSlot, Finish
  <2>2. outcome \in {"in_flight", "key_reused", "replayed"}
    BY <2>1, row \in Slot DEF ReadOutcome, Slot
  <2>3. row.state # "absent" =>
          /\ row.owner \in Requests \ {r}
          /\ key[row.owner] = key[r] /\ body[row.owner] = row.body
    BY <2>1
  <2>4. outcome = "key_reused" => row.state # "absent" /\ row.body # body[r]
    BY row \in Slot DEF ReadOutcome, Slot
  <2>5. outcome = "replayed" =>
          /\ row.state = "complete" /\ row.body = body[r]
          /\ row.response = row.owner /\ IsStored(row.owner)
    BY row \in Slot DEF ReadOutcome, Slot, RowAndComplaintAgree, RowSpeaksOfComplaint
  <2>6. ~IsStored(r) /\ ~IsStored(r)'
    BY <2>1
  <2> HIDE DEF row, outcome
  <2>7. AnsweredAtEnd'
    BY <2>1
  <2>8. AnswersAreTrue'
    <3> SUFFICES ASSUME NEW q \in Requests
                 PROVE  (/\ answer[q] = "created" => shown[q] = q /\ IsStored(q)
                         /\ answer[q] = "replayed" =>
                              /\ shown[q] \in Requests \ {q} /\ IsStored(shown[q])
                              /\ key[shown[q]] = key[q] /\ body[shown[q]] = body[q]
                         /\ answer[q] \notin {"none", "created", "failed"} => ~IsStored(q)
                         /\ answer[q] = "duplicate" =>
                              \E o \in Requests \ {q} :
                                Complaint(o) = Complaint(q) /\ IsStored(o)
                         /\ answer[q] = "key_reused" =>
                              \E o \in Requests : key[o] = key[q] /\ body[o] # body[q])'
      OBVIOUS
    <3>1. CASE q = r
      BY <3>1, <2>1, <2>2, <2>3, <2>4, <2>5, <2>6
    <3>2. CASE q # r
      BY <3>2, <2>1 DEF IsStored
    <3> QED
      BY <3>1, <3>2
  <2>9. OrphanOnlyAfterError'
    BY <2>1
  <2> QED
    BY <2>7, <2>8, <2>9
<1>5. ASSUME NEW r \in Requests, ReadAgain(r) PROVE OutcomeInv'
  BY <1>5 DEF ReadAgain, Finish
<1>6. ASSUME NEW r \in Requests, Flush(r) PROVE OutcomeInv'
  BY <1>6 DEF Flush, Blocked
<1>7. ASSUME NEW r \in Requests, FlushDuplicate(r) PROVE OutcomeInv'
  <2>1. /\ pc[r] = "claimed" /\ pc' = [pc EXCEPT ![r] = "done"]
        /\ answer' = [answer EXCEPT ![r] = "duplicate"]
        /\ UNCHANGED <<shown, slot, complaints>>
    BY <1>7 DEF FlushDuplicate, Finish
  <2>2. PICK q \in Requests \ {r} : Complaint(q) = Complaint(r) /\ IsStored(q)
    BY <1>7 DEF FlushDuplicate, IsStored
  <2>3. ~IsStored(r)'
    BY <2>1
  <2>4. AnsweredAtEnd' /\ OrphanOnlyAfterError'
    BY <2>1
  <2>5. AnswersAreTrue'
    BY <2>1, <2>2, <2>3 DEF IsStored
  <2> QED
    BY <2>4, <2>5
<1>8. ASSUME NEW r \in Requests, Commit(r) PROVE OutcomeInv'
  BY <1>8 DEF Commit, Completed
<1>9. ASSUME NEW r \in Requests, Respond(r) PROVE OutcomeInv'
  BY <1>9 DEF Respond
<1>10. ASSUME NEW r \in Requests, Dispatch(r) PROVE OutcomeInv'
  BY <1>10 DEF Dispatch
<1>11. ASSUME NEW r \in Requests, Fail(r) PROVE OutcomeInv'
  BY <1>11 DEF Fail, Running
<1>12. ASSUME NEW k \in Keys, Expire(k) PROVE OutcomeInv'
  BY <1>12 DEF Expire, Slot
<1>13. ASSUME Sweep PROVE OutcomeInv'
  BY <1>13 DEF Sweep, NoRow
<1>14. CASE UNCHANGED vars
  BY <1>14 DEF vars
<1> QED
  BY <1>1, <1>2, <1>3, <1>4, <1>5, <1>6, <1>7, <1>8, <1>9, <1>10, <1>11,
     <1>12, <1>13, <1>14 DEF Next, Handle, Terminated

\* The client is told the truth, and an accepted complaint is never lost again.
THEOREM TruthfulAnswers == Spec => []AnswersAreTrue
<1>1. Init => IInv /\ OutcomeInv
  BY InvInit, OutcomeInit
<1>2. (IInv /\ OutcomeInv) /\ [Next]_vars => (IInv /\ OutcomeInv)'
  BY InvStep, OutcomeStep
<1>3. IInv /\ OutcomeInv => AnswersAreTrue
  BY DEF OutcomeInv
<1> QED
  BY <1>1, <1>2, <1>3, PTL DEF Spec

\* Only a duplicate complaint_id or a failure abandons a processing row.
THEOREM OrphansExplained == Spec => []OrphanOnlyAfterError
<1>1. Init => IInv /\ OutcomeInv
  BY InvInit, OutcomeInit
<1>2. (IInv /\ OutcomeInv) /\ [Next]_vars => (IInv /\ OutcomeInv)'
  BY InvStep, OutcomeStep
<1>3. IInv /\ OutcomeInv => OrphanOnlyAfterError
  BY DEF OutcomeInv
<1> QED
  BY <1>1, <1>2, <1>3, PTL DEF Spec

\* A complaint is handed to the agent chain at most once, after its commit.
THEOREM AgentsStartAtMostOnce == Spec => []AgentsStartOnce
<1>1. IInv => AgentsStartOnce
  BY DEF IInv, StoredHasCommitted, Stored, IsStored, AgentsStartOnce
<1> QED
  BY <1>1, Invariance, PTL

\* A stored response is immutable, and a claimed row outlives its handler.
THEOREM ResponsesImmutable == Spec => RowsOnlyMoveForward
<1>1. IInv /\ [Next]_vars => [RowsMoveForward]_vars
  <2> SUFFICES ASSUME IInv, Next PROVE RowsMoveForward
    BY DEF vars
  <2> USE DEF IInv, TypeOK, Slot, RowsMoveForward
  <2>1. ASSUME NEW r \in Requests, Claim(r) PROVE RowsMoveForward
    BY <2>1 DEF Claim, Insertable
  <2>2. ASSUME NEW r \in Requests, Commit(r) PROVE RowsMoveForward
    BY <2>2 DEF Commit, Completed, OwnerHoldsRow, Owning
  <2>3. ASSUME NEW k \in Keys, Expire(k) PROVE RowsMoveForward
    BY <2>3 DEF Expire
  <2>4. CASE Sweep
    BY <2>4 DEF Sweep, Sweepable
  <2>5. CASE UNCHANGED slot
    BY <2>5
  <2>6. \/ \E r \in Requests : Claim(r) \/ Commit(r)
        \/ \E k \in Keys : Expire(k)
        \/ Sweep
        \/ UNCHANGED slot
    BY DEF Next, Handle, Terminated, vars, Arrive, ClaimConflict, ReadSlot, ReadAgain,
           Flush, FlushDuplicate, Respond, Dispatch, Fail
  <2> QED
    BY <2>1, <2>2, <2>3, <2>4, <2>5, <2>6
<1> QED
  BY <1>1, Invariance, PTL DEF Spec, RowsOnlyMoveForward

-----------------------------------------------------------------------------
(* The conjunctions that the runs check.                                   *)

\* At most one owner and one acceptance of a key.
THEOREM KeyUsedOnce == Spec => []AtMostOnce
  BY MutualExclusion, AtMostOncePerKey, PTL DEF AtMostOnce

\* Every row is true.
THEOREM TruthfulRows == Spec => []RowsAreTrue
  BY AtomicAcceptance, OrphansExplained, PTL DEF RowsAreTrue

-----------------------------------------------------------------------------
(* The refinement of AtMostOnceIntake.                                     *)

\* A row of the table belongs to a request the sweep has not passed over.
RowsRemembered == \A k \in Keys : slot[k].state # "absent" => slot[k].owner \notin swept

RefineInv == IInv /\ OutcomeInv /\ RowsRemembered

\* Only a claim gives a row a new owner, which has stored nothing yet; the
\* sweep deletes the rows whose owners it adds.
LEMMA RememberedStep == IInv /\ RowsRemembered /\ [Next]_vars => RowsRemembered'
<1> SUFFICES ASSUME IInv, RowsRemembered, [Next]_vars PROVE RowsRemembered'
  OBVIOUS
<1> USE DEF IInv, TypeOK, RowsRemembered
<1>1. ASSUME NEW r \in Requests, Claim(r) PROVE RowsRemembered'
  BY <1>1 DEF Claim, Placeholder, StoredHasCommitted, Stored
<1>2. ASSUME NEW r \in Requests, Commit(r) PROVE RowsRemembered'
  BY <1>2 DEF Commit, Completed, OwnerHoldsRow, Owning, Slot
<1>3. ASSUME NEW k \in Keys, Expire(k) PROVE RowsRemembered'
  BY <1>3 DEF Expire, Slot
<1>4. CASE Sweep
  BY <1>4 DEF Sweep, NoRow, OwnerMadeRow, Sweepable
<1>5. CASE UNCHANGED <<slot, swept>>
  BY <1>5
<1>6. \/ \E r \in Requests : Claim(r) \/ Commit(r)
      \/ \E k \in Keys : Expire(k)
      \/ Sweep
      \/ UNCHANGED <<slot, swept>>
  BY DEF Next, Handle, Terminated, vars, Arrive, ClaimConflict, ReadSlot, ReadAgain,
         Flush, FlushDuplicate, Respond, Dispatch, Fail
<1> QED
  BY <1>1, <1>2, <1>3, <1>4, <1>5, <1>6

\* RefineInv holds in every reachable state.
LEMMA RefineInvariance == Spec => []RefineInv
<1>1. Init => RefineInv
  BY InvInit, OutcomeInit DEF RefineInv, RowsRemembered, Init, NoRow
<1>2. RefineInv /\ [Next]_vars => RefineInv'
  BY InvStep, OutcomeStep, RememberedStep DEF RefineInv
<1> QED
  BY <1>1, <1>2, PTL DEF Spec

\* The intake starts with nothing accepted and nobody answered.
LEMMA PromiseInit == Init => Abstract!Fresh
BY IntakeAssumption, NobodyAssumption
   DEF Init, Abstract!Fresh, Told, IsStored, Complaint

\* A step that leaves alone what the intake promises is a stutter there.
LEMMA PromiseStutter ==
  UNCHANGED <<key, body, answer, shown, complaints, swept>> => UNCHANGED Abstract!promise
BY DEF Abstract!promise, Told, IsStored, Complaint

\* A handler that stops with a refusal has stored nothing.
LEMMA RefusalRefuses ==
  ASSUME RefineInv, NEW r \in Requests,
         answer[r] = "none", pc[r] \notin Stored \cup {"done"},
         NEW a \in Answers \ {"none", "failed", "created", "replayed"},
         answer' = [answer EXCEPT ![r] = a],
         UNCHANGED <<key, body, shown, complaints, swept>>
  PROVE  Abstract!Refuse(r)
<1> USE DEF RefineInv, IInv, TypeOK
<1>1. ~IsStored(r) /\ Told(r) = "unanswered"
  BY DEF StoredHasCommitted, Told
<1>2. \A q \in Requests : Told(q)' = IF q = r THEN "refused" ELSE Told(q)
  BY DEF Told, Answers
<1>3. UNCHANGED [q \in Requests |-> Complaint(q)] /\ UNCHANGED {q \in Requests : IsStored(q)}
  BY DEF IsStored, Complaint
<1> QED
  BY <1>1, <1>2, <1>3 DEF Abstract!Refuse

\* Only ReadSlot, Commit, Respond and the sweep do more than refuse or lose.
LEMMA PromiseStep ==
  RefineInv /\ RefineInv' /\ [Next]_vars => [Abstract!PromiseNext]_(Abstract!promise)
<1> SUFFICES ASSUME RefineInv, RefineInv', [Next]_vars
             PROVE  Abstract!PromiseNext \/ UNCHANGED Abstract!promise
  OBVIOUS
<1> USE DEF RefineInv, IInv, TypeOK
<1>a. ASSUME NEW r \in Requests, Abstract!Refuse(r) PROVE Abstract!PromiseNext
  BY <1>a DEF Abstract!PromiseNext
<1>1. ASSUME NEW r \in Requests, Arrive(r)
      PROVE  Abstract!PromiseNext \/ UNCHANGED Abstract!promise
  <2>1. CASE UNCHANGED answer
    BY <1>1, <2>1, PromiseStutter DEF Arrive
  <2>2. CASE \E a \in {"not_found", "paused"} : Finish(r, a)
    BY <1>1, <2>2, <1>a, RefusalRefuses
       DEF Arrive, Finish, Answers, OutcomeInv, AnsweredAtEnd, Stored
  <2> QED
    BY <1>1, <2>1, <2>2 DEF Arrive
<1>2. ASSUME NEW r \in Requests,
             Claim(r) \/ ClaimConflict(r) \/ Flush(r) \/ Dispatch(r)
      PROVE  UNCHANGED Abstract!promise
  BY <1>2, PromiseStutter DEF Claim, ClaimConflict, Flush, Dispatch
<1>3. ASSUME NEW r \in Requests, ReadSlot(r) PROVE Abstract!PromiseNext
  <2> DEFINE row == slot[key[r]]
             outcome == ReadOutcome(row, body[r])
  <2>1. /\ pc[r] = "waiting" /\ answer[r] = "none" /\ ~IsStored(r)
        /\ answer' = [answer EXCEPT ![r] = outcome]
        /\ shown' = IF outcome = "replayed"
                    THEN [shown EXCEPT ![r] = row.response] ELSE shown
        /\ UNCHANGED <<key, body, complaints, swept>>
    BY <1>3 DEF ReadSlot, Finish, OutcomeInv, AnsweredAtEnd, StoredHasCommitted, Stored
  <2>2. outcome \in {"in_flight", "key_reused", "replayed"}
    BY <1>3, row \in Slot DEF ReadSlot, ReadOutcome, Slot
  <2>3. outcome = "replayed" =>
          LET o == row.response
          IN  /\ o \in Requests /\ IsStored(o) /\ o \notin swept
              /\ key[o] = key[r] /\ body[o] = body[r]
    BY row \in Slot DEF ReadOutcome, Slot, RowAndComplaintAgree, RowSpeaksOfComplaint,
                        RowsRemembered
  <2> HIDE DEF row, outcome
  <2>4. CASE outcome \in {"in_flight", "key_reused"}
    BY <2>1, <2>4, <1>a, RefusalRefuses DEF Answers, Stored
  <2>5. CASE outcome = "replayed"
    <3>1. \A q \in Requests : Told(q)' = IF q = r THEN row.response ELSE Told(q)
      BY <2>1, <2>5 DEF Told
    <3>2. /\ UNCHANGED [q \in Requests |-> Complaint(q)]
          /\ UNCHANGED {q \in Requests : IsStored(q)}
      BY <2>1 DEF IsStored, Complaint
    <3>3. Told(r) = "unanswered"
      BY <2>1 DEF Told
    <3>4. Abstract!Replay(r)
      <4> DEFINE o == row.response
      <4>1. [q \in Requests |-> Told(q)]' = [[q \in Requests |-> Told(q)] EXCEPT ![r] = o]
        BY <3>1
      <4>2. /\ o \in Abstract!Remembered(key[r]) /\ body[o] = body[r]
            /\ r \notin {q \in Requests : IsStored(q)}
            /\ [q \in Requests |-> Told(q)][r] = "unanswered"
        BY <2>1, <2>3, <2>5, <3>3 DEF Abstract!Remembered
      <4> HIDE DEF o
      <4> QED
        BY <2>1, <3>2, <4>1, <4>2 DEF Abstract!Replay
    <3> QED
      BY <3>4 DEF Abstract!PromiseNext
  <2> QED
    BY <2>2, <2>4, <2>5
<1>4. ASSUME NEW r \in Requests, ReadAgain(r)
      PROVE  Abstract!PromiseNext \/ UNCHANGED Abstract!promise
  <2>1. CASE UNCHANGED answer
    BY <1>4, <2>1, PromiseStutter DEF ReadAgain
  <2>2. CASE Finish(r, "in_flight")
    BY <1>4, <2>2, <1>a, RefusalRefuses
       DEF ReadAgain, Finish, Answers, OutcomeInv, AnsweredAtEnd, Stored
  <2> QED
    BY <1>4, <2>1, <2>2 DEF ReadAgain
<1>5. ASSUME NEW r \in Requests, FlushDuplicate(r) PROVE Abstract!PromiseNext
  BY <1>5, <1>a, RefusalRefuses
     DEF FlushDuplicate, Finish, Answers, OutcomeInv, AnsweredAtEnd, Stored
<1>6. ASSUME NEW r \in Requests, Commit(r) PROVE Abstract!PromiseNext
  <2>1. /\ pc[r] = "flushed" /\ answer[r] = "none"
        /\ complaints[Complaint(r)] = Nobody
        /\ slot[key[r]].state = "processing"
    BY <1>6 DEF Commit, OutcomeInv, AnsweredAtEnd, FlushedHasId, OwnerHoldsRow, Owning
  <2>2. /\ complaints' = [complaints EXCEPT ![Complaint(r)] = r]
        /\ UNCHANGED <<key, body, answer, shown, swept>>
    BY <1>6 DEF Commit
  <2>3. Complaint(r) \in Complaints
    BY IntakeAssumption DEF Complaint
  <2>4. {q \in Requests : IsStored(q)}' = {q \in Requests : IsStored(q)} \cup {r}
    BY <2>1, <2>2, <2>3, IntakeAssumption, NobodyAssumption DEF IsStored, Complaint
  <2>5. /\ ~IsStored(r)
        /\ \A q \in Requests : IsStored(q) => Complaint(q) # Complaint(r)
        /\ \A q \in Requests : IsStored(q) /\ q \notin swept => key[q] # key[r]
    BY <2>1, NobodyAssumption DEF IsStored, RowAndComplaintAgree, ComplaintHasRow
  <2>6. /\ UNCHANGED [q \in Requests |-> Complaint(q)]
        /\ UNCHANGED [q \in Requests |-> Told(q)]
    BY <2>2 DEF Complaint, Told
  <2>7. Told(r) = "unanswered"
    BY <2>1 DEF Told
  <2>8. Abstract!Accept(r)
    BY <2>2, <2>4, <2>5, <2>6, <2>7 DEF Abstract!Accept, Abstract!Remembered
  <2> QED
    BY <2>6, <2>8 DEF Abstract!PromiseNext
<1>7. ASSUME NEW r \in Requests, Respond(r) PROVE Abstract!PromiseNext
  <2>1. /\ answer[r] = "none" /\ IsStored(r)
        /\ answer' = [answer EXCEPT ![r] = "created"]
        /\ shown' = [shown EXCEPT ![r] = r]
        /\ UNCHANGED <<key, body, complaints, swept>>
    BY <1>7 DEF Respond, OutcomeInv, AnsweredAtEnd, StoredHasCommitted, Stored
  <2>2. \A q \in Requests : Told(q)' = IF q = r THEN r ELSE Told(q)
    BY <2>1 DEF Told
  <2>3. /\ UNCHANGED [q \in Requests |-> Complaint(q)]
        /\ UNCHANGED {q \in Requests : IsStored(q)}
    BY <2>1 DEF IsStored, Complaint
  <2>4. Told(r) = "unanswered"
    BY <2>1 DEF Told
  <2>5. Abstract!Confirm(r)
    BY <2>1, <2>2, <2>3, <2>4 DEF Abstract!Confirm
  <2> QED
    BY <2>5 DEF Abstract!PromiseNext
<1>8. ASSUME NEW r \in Requests, Fail(r)
      PROVE  Abstract!PromiseNext \/ UNCHANGED Abstract!promise
  <2>1. CASE answer[r] # "none"
    <3>1. UNCHANGED <<key, body, answer, shown, complaints, swept>>
      BY <1>8, <2>1 DEF Fail
    <3> QED
      BY <3>1, PromiseStutter
  <2>2. CASE answer[r] = "none"
    <3>1. /\ answer' = [answer EXCEPT ![r] = "failed"]
          /\ UNCHANGED <<key, body, shown, complaints, swept>>
      BY <1>8, <2>2 DEF Fail
    <3>2. \A q \in Requests : Told(q)' = IF q = r THEN "lost" ELSE Told(q)
      BY <3>1 DEF Told
    <3>3. /\ UNCHANGED [q \in Requests |-> Complaint(q)]
          /\ UNCHANGED {q \in Requests : IsStored(q)}
      BY <3>1 DEF IsStored, Complaint
    <3>4. Told(r) = "unanswered"
      BY <2>2 DEF Told
    <3>5. Abstract!Lose(r)
      BY <3>1, <3>2, <3>3, <3>4 DEF Abstract!Lose
    <3> QED
      BY <3>5 DEF Abstract!PromiseNext
  <2> QED
    BY <2>1, <2>2
<1>9. ASSUME NEW k \in Keys, Expire(k) PROVE UNCHANGED Abstract!promise
  BY <1>9, PromiseStutter DEF Expire
<1>10. ASSUME Sweep PROVE Abstract!PromiseNext
  <2> DEFINE gone == {slot[k].owner : k \in {j \in Keys : Sweepable(slot[j])}}
  <2>1. /\ swept' = swept \cup gone
        /\ UNCHANGED <<key, body, answer, shown, complaints>>
    BY <1>10 DEF Sweep
  <2>2. gone \in SUBSET {r \in Requests : IsStored(r)}
    BY DEF Sweepable, RowAndComplaintAgree, RowSpeaksOfComplaint
  <2> HIDE DEF gone
  <2>3. /\ UNCHANGED [q \in Requests |-> Complaint(q)]
        /\ UNCHANGED [q \in Requests |-> Told(q)]
        /\ UNCHANGED {q \in Requests : IsStored(q)}
    BY <2>1 DEF Complaint, Told, IsStored
  <2>4. Abstract!Forget
    BY <2>1, <2>2, <2>3 DEF Abstract!Forget
  <2> QED
    BY <2>4 DEF Abstract!PromiseNext
<1>11. CASE UNCHANGED vars
  BY <1>11, PromiseStutter DEF vars
<1> QED
  BY <1>1, <1>2, <1>3, <1>4, <1>5, <1>6, <1>7, <1>8, <1>9, <1>10, <1>11
     DEF Next, Handle, Terminated

\* The handlers, the two tables and the sweep implement AtMostOnceIntake: under
\* the refinement mapping every step is a step of the promise or a stutter.
THEOREM PromiseKept == Spec => KeepsPromise
<1>1. Init => Abstract!Fresh
  BY PromiseInit
<1>2. RefineInv /\ RefineInv' /\ [Next]_vars => [Abstract!PromiseNext]_(Abstract!promise)
  BY PromiseStep
<1> QED
  BY <1>1, <1>2, RefineInvariance, PTL DEF Spec, KeepsPromise, Abstract!Promise
=============================================================================
