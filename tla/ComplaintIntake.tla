--------------------------- MODULE ComplaintIntake ----------------------------
(***************************************************************************)
(* POST /v1/complaints (routes/complaints.py, create_complaint) with the   *)
(* idempotency claim, the complaints primary key, the sweep of expired     *)
(* idempotency rows and the background hand-over to the agent chain.       *)
(*                                                                         *)
(* One action is one database round trip of one handler: PostgreSQL runs   *)
(* at READ COMMITTED, so any number of other handlers may step in between. *)
(* What each client sends is chosen in Init: a retry is a second request   *)
(* with the same key and body.  A request can fail at every point, because *)
(* the database refused a statement, the client went away or the process   *)
(* died; its open transaction is then rolled back.                         *)
(***************************************************************************)
EXTENDS IdempotencySlots, Naturals, FiniteSets

CONSTANTS Institutions,
          Complaints,        \* complaint_id values
          InstitutionOf,     \* the caller a key's row belongs to
          BodyInstitution,   \* the institution_id inside a body
          ComplaintOf,       \* the complaint_id inside a body
          MaxRetries,        \* re-reads after the first SELECT (3 in the code)
          MaxFailures        \* bound: requests that may fail half way

ASSUME IntakeAssumption ==
  /\ InstitutionOf \in [Keys -> Institutions]
  /\ BodyInstitution \in [Bodies -> Institutions]
  /\ ComplaintOf \in [Bodies -> Complaints]
  /\ MaxRetries \in Nat
  /\ MaxFailures \in Nat

VARIABLES key, body,     \* what each request carries; fixed in Init
          pc,            \* where each handler stands
          tries,         \* re-reads made so far
          answer,        \* the outcome the client saw
          shown,         \* whose response body it was shown
          slot,          \* the idempotency_records table
          complaints,    \* complaint_id |-> request that stored it
          swept          \* history: owners of the rows the sweep deleted

vars == <<key, body, pc, tries, answer, shown, slot, complaints, swept>>

Steps == {"idle", "arrived", "waiting", "claimed", "flushed", "committed",
          "responded", "dispatched", "done"}
Answers == {"none", "not_found", "paused", "in_flight", "key_reused",
            "replayed", "duplicate", "created", "failed"}

\* A handler that owns its slot and has not committed yet.
Owning == {"claimed", "flushed"}
\* A handler whose complaint is in the table.
Stored == {"committed", "responded", "dispatched"}
\* A handler a failure can still take away.
Running == {"arrived", "waiting"} \cup Owning \cup {"committed", "responded"}

Complaint(r) == ComplaintOf[body[r]]

Init ==
  /\ key \in [Requests -> Keys]
  /\ body \in [Requests -> Bodies]
  /\ pc = [r \in Requests |-> "idle"]
  /\ tries = [r \in Requests |-> 0]
  /\ answer = [r \in Requests |-> "none"]
  /\ shown = [r \in Requests |-> Nobody]
  /\ slot = [k \in Keys |-> NoRow]
  /\ complaints = [c \in Complaints |-> Nobody]
  /\ swept = {}

\* The handler stops with answer a.
Finish(r, a) ==
  /\ pc' = [pc EXCEPT ![r] = "done"]
  /\ answer' = [answer EXCEPT ![r] = a]

-----------------------------------------------------------------------------
(* The handler, from the tenant check to the 201.                          *)

\* Tenant binding and the circuit breaker come before the claim.  Operators
\* write fi_circuit_breakers from outside the service at any time, so the one
\* read of it may find either state.
Arrive(r) ==
  /\ pc[r] = "idle"
  /\ IF BodyInstitution[body[r]] # InstitutionOf[key[r]]
     THEN Finish(r, "not_found")
     ELSE \/ Finish(r, "paused")
          \/ pc' = [pc EXCEPT ![r] = "arrived"] /\ UNCHANGED answer
  /\ UNCHANGED <<key, body, tries, shown, slot, complaints, swept>>

Claim(r) ==
  /\ pc[r] = "arrived"
  /\ Insertable(slot[key[r]])
  /\ slot' = [slot EXCEPT ![key[r]] = Placeholder(r, body[r])]
  /\ pc' = [pc EXCEPT ![r] = "claimed"]
  /\ UNCHANGED <<key, body, tries, answer, shown, complaints, swept>>

\* The INSERT hits the unique index; the handler falls through to the reads.
ClaimConflict(r) ==
  /\ pc[r] = "arrived"
  /\ ~Insertable(slot[key[r]])
  /\ pc' = [pc EXCEPT ![r] = "waiting"]
  /\ UNCHANGED <<key, body, tries, answer, shown, slot, complaints, swept>>

\* Mutant: a replay runs the background task again.
ReplayDispatches(r) ==
  LET row     == slot[key[r]]
      outcome == ReadOutcome(row, body[r])
  IN  /\ pc[r] = "waiting"
      /\ outcome # "wait"
      /\ pc' = [pc EXCEPT ![r] = IF outcome = "replayed" THEN "responded" ELSE "done"]
      /\ answer' = [answer EXCEPT ![r] = outcome]
      /\ shown' = IF outcome = "replayed"
                  THEN [shown EXCEPT ![r] = row.response] ELSE shown
      /\ UNCHANGED <<key, body, tries, slot, complaints, swept>>

\* One SELECT of the conflict path ends the wait: an error or a replay.
ReadSlot(r) ==
  LET row     == slot[key[r]]
      outcome == ReadOutcome(row, body[r])
  IN  /\ pc[r] = "waiting"
      /\ outcome # "wait"
      /\ Finish(r, outcome)
      /\ shown' = IF outcome = "replayed"
                  THEN [shown EXCEPT ![r] = row.response] ELSE shown
      /\ UNCHANGED <<key, body, tries, slot, complaints, swept>>

\* The loop `for attempt in range(max_retries + 1)' has a turn left.
MayReadAgain(r) == tries[r] < MaxRetries

\* Mutant: wait until the row leaves processing, with no limit.
ReadForever(r) ==
  /\ pc[r] = "waiting"
  /\ ReadOutcome(slot[key[r]], body[r]) = "wait"
  /\ UNCHANGED vars

\* The row is still processing: sleep and read again, or give up.
ReadAgain(r) ==
  /\ pc[r] = "waiting"
  /\ ReadOutcome(slot[key[r]], body[r]) = "wait"
  /\ IF MayReadAgain(r)
     THEN tries' = [tries EXCEPT ![r] = @ + 1] /\ UNCHANGED <<pc, answer>>
     ELSE Finish(r, "in_flight") /\ UNCHANGED tries
  /\ UNCHANGED <<key, body, shown, slot, complaints, swept>>

\* Another transaction holds an uncommitted row with this primary key: the
\* INSERT waits for it.
Blocked(r) == \E q \in Requests \ {r} :
                pc[q] = "flushed" /\ Complaint(q) = Complaint(r)

Flush(r) ==
  /\ pc[r] = "claimed"
  /\ ~Blocked(r)
  /\ complaints[Complaint(r)] = Nobody
  /\ pc' = [pc EXCEPT ![r] = "flushed"]
  /\ UNCHANGED <<key, body, tries, answer, shown, slot, complaints, swept>>

\* complaints_pkey refuses the row.  The slot stays as the claim left it.
FlushDuplicate(r) ==
  /\ pc[r] = "claimed"
  /\ complaints[Complaint(r)] # Nobody
  /\ Finish(r, "duplicate")
  /\ UNCHANGED <<key, body, tries, shown, slot, complaints, swept>>

\* mark_complete and the complaint become visible in one commit.
Commit(r) ==
  /\ pc[r] = "flushed"
  /\ slot' = [slot EXCEPT ![key[r]] = Completed(@, r)]
  /\ complaints' = [complaints EXCEPT ![Complaint(r)] = r]
  /\ pc' = [pc EXCEPT ![r] = "committed"]
  /\ UNCHANGED <<key, body, tries, answer, shown, swept>>

Respond(r) ==
  /\ pc[r] = "committed"
  /\ pc' = [pc EXCEPT ![r] = "responded"]
  /\ answer' = [answer EXCEPT ![r] = "created"]
  /\ shown' = [shown EXCEPT ![r] = r]
  /\ UNCHANGED <<key, body, tries, slot, complaints, swept>>

\* The background task runs once the 201 is on the wire.
Dispatch(r) ==
  /\ pc[r] = "responded"
  /\ pc' = [pc EXCEPT ![r] = "dispatched"]
  /\ UNCHANGED <<key, body, tries, answer, shown, slot, complaints, swept>>

\* A statement fails, the client disconnects or the process dies.  Includes
\* the foreign-key and the unmapped integrity error of the flush.  Nothing
\* releases the slot.
Fail(r) ==
  /\ pc[r] \in Running
  /\ Cardinality({q \in Requests : answer[q] = "failed"}) < MaxFailures
  /\ pc' = [pc EXCEPT ![r] = "done"]
  /\ answer' = [answer EXCEPT ![r] = IF @ = "none" THEN "failed" ELSE @]
  /\ UNCHANGED <<key, body, tries, shown, slot, complaints, swept>>

-----------------------------------------------------------------------------
(* The world around the handlers.                                          *)

Expire(k) ==
  /\ slot[k].state # "absent" /\ ~slot[k].expired
  /\ slot' = [slot EXCEPT ![k].expired = TRUE]
  /\ UNCHANGED <<key, body, pc, tries, answer, shown, complaints, swept>>

\* sweep_expired_idempotency_records: one DELETE over the whole table.
Sweep ==
  LET gone == {k \in Keys : Sweepable(slot[k])}
  IN  /\ gone # {}
      /\ slot' = [k \in Keys |-> IF k \in gone THEN NoRow ELSE slot[k]]
      /\ swept' = swept \cup {slot[k].owner : k \in gone}
      /\ UNCHANGED <<key, body, pc, tries, answer, shown, complaints>>

Handle(r) ==
  \/ Claim(r) \/ ClaimConflict(r) \/ ReadSlot(r) \/ ReadAgain(r)
  \/ Flush(r) \/ FlushDuplicate(r) \/ Commit(r) \/ Respond(r) \/ Dispatch(r)

\* Every client has been served; only here may the system stop.
Terminated ==
  /\ \A r \in Requests : pc[r] \in {"dispatched", "done"}
  /\ UNCHANGED vars

Next ==
  \/ \E r \in Requests : Arrive(r) \/ Handle(r) \/ Fail(r)
  \/ \E k \in Keys : Expire(k)
  \/ Sweep
  \/ Terminated

Spec == Init /\ [][Next]_vars

\* The event loop and the database run every handler that has started to its
\* end; nothing obliges clients, operators, the clock or the sweep.
FairSpec == Spec /\ \A r \in Requests : WF_vars(Handle(r))
-----------------------------------------------------------------------------
(* Properties.                                                             *)

\* Type invariant of the handlers, the two tables.
TypeOK ==
  /\ key \in [Requests -> Keys]
  /\ body \in [Requests -> Bodies]
  /\ pc \in [Requests -> Steps]
  /\ tries \in [Requests -> 0..MaxRetries]
  /\ answer \in [Requests -> Answers]
  /\ shown \in [Requests -> Requests \cup {Nobody}]
  /\ slot \in [Keys -> Slot]
  /\ complaints \in [Complaints -> Requests \cup {Nobody}]
  /\ swept \in SUBSET Requests

IsStored(r) == complaints[Complaint(r)] = r

\* Two handlers never work under the same (institution, key) at once: the
\* unique index makes the claim a mutual exclusion, and neither the sweep nor
\* an expiry may take a claimed row away from the handler that works on it.
OneOwner ==
  \A r, q \in Requests :
    r # q /\ {pc[r], pc[q]} \subseteq Owning => key[r] # key[q]

\* At most one request per key creates a complaint for as long as the row of
\* the first one has not been swept: a retry under the same key cannot store
\* a second complaint, whatever was interleaved, and whichever step failed.
OneAcceptancePerKey ==
  \A r, q \in Requests :
    r # q /\ IsStored(r) /\ IsStored(q) /\ key[r] = key[q]
      => {r, q} \cap swept # {}

\* A key stands for one piece of work at any time, and for one complaint as long
\* as it is remembered.
AtMostOnce == OneOwner /\ OneAcceptancePerKey

RowSpeaksOfComplaint(k) ==
  slot[k].state = "complete" =>
    LET o == slot[k].owner
    IN  o \in Requests /\ key[o] = k /\ body[o] = slot[k].body
        /\ slot[k].response = o /\ IsStored(o)

ComplaintHasRow(r) ==
  IsStored(r) /\ r \notin swept =>
    slot[key[r]].state = "complete" /\ slot[key[r]].owner = r

\* The complaint and its completed row commit together: a complete row speaks
\* of a stored complaint, and a stored complaint has its complete row until
\* the sweep removes it.
RowAndComplaintAgree ==
  /\ \A k \in Keys : RowSpeaksOfComplaint(k)
  /\ \A r \in Requests : ComplaintHasRow(r)

\* What the client is told is so, and stays so: a 201 or a replay shows the
\* stored complaint of a request with this key and this body; every answer
\* other than a 201 and a lost connection means that this request stored
\* nothing; a duplicate or a reused key has another request to blame.
AnswersAreTrue ==
  \A r \in Requests :
    /\ answer[r] = "created" => shown[r] = r /\ IsStored(r)
    /\ answer[r] = "replayed" =>
         /\ shown[r] \in Requests \ {r} /\ IsStored(shown[r])
         /\ key[shown[r]] = key[r] /\ body[shown[r]] = body[r]
    /\ answer[r] \notin {"none", "created", "failed"} => ~IsStored(r)
    /\ answer[r] = "duplicate" =>
         \E q \in Requests \ {r} : Complaint(q) = Complaint(r) /\ IsStored(q)
    /\ answer[r] = "key_reused" =>
         \E q \in Requests : key[q] = key[r] /\ body[q] # body[r]

\* A row is left in `processing' with no handler to finish it only by a
\* duplicate complaint_id or a failure: a request turned away before the claim
\* (tenant, breaker) or inside it (in flight, reused key) leaves no trace.
OrphanOnlyAfterError ==
  \A k \in Keys : slot[k].state = "processing" =>
    \/ pc[slot[k].owner] \in Owning
    \/ answer[slot[k].owner] \in {"duplicate", "failed"}

\* What a row of the table says is so: a complete one of its complaint, and a
\* processing one of a request that is under way or ended in an error.
RowsAreTrue == RowAndComplaintAgree /\ OrphanOnlyAfterError

\* The agent chain starts at most once for a complaint, and only for one that
\* is committed: a replay never starts it again.
AgentsStartOnce ==
  \A r, q \in Requests :
    pc[r] = "dispatched" =>
      IsStored(r) /\ (pc[q] = "dispatched" /\ Complaint(q) = Complaint(r) => q = r)

RowsMoveForward ==
  \A k \in Keys :
    /\ slot[k].state = "complete" =>
         \/ slot'[k] = NoRow
         \/ [slot'[k] EXCEPT !.expired = slot[k].expired] = slot[k]
    /\ slot[k].state = "processing" =>
         slot'[k].state # "absent" /\ slot'[k].owner = slot[k].owner

\* A stored response is never replaced: a complete row keeps its content until
\* the sweep deletes it, and a processing row is never deleted.
RowsOnlyMoveForward == [][RowsMoveForward]_vars

\* Every request that got past the breaker is answered or lost: no handler
\* waits for ever on the key or on another handler's uncommitted complaint.
EveryRequestAnswered ==
  \A r \in Requests : pc[r] = "arrived" ~> answer[r] # "none"

\* The abstract intake that the handlers implement.
Told(r) ==
  CASE answer[r] = "none"   -> "unanswered"
    [] answer[r] = "failed" -> "lost"
    [] answer[r] \in {"created", "replayed"} -> shown[r]
    [] OTHER -> "refused"

Abstract ==
  INSTANCE AtMostOnceIntake WITH
    complaint <- [r \in Requests |-> Complaint(r)],
    Unanswered <- "unanswered", Refused <- "refused", Lost <- "lost",
    accepted <- {r \in Requests : IsStored(r)},
    forgotten <- swept,
    answer <- [r \in Requests |-> Told(r)]

\* The handlers, the table and the sweep implement the promise of the intake:
\* every step of a handler is a step of AtMostOnceIntake or changes nothing
\* there, whatever the interleaving and wherever a request fails.
KeepsPromise == Abstract!Promise

\* api/openapi/error-catalog.md:53 tells the client that got
\* IDEMPOTENCY_KEY_IN_FLIGHT to retry after a second: `the original request will
\* have completed by then'.  So a processing row must not stay one.  FALSE: when
\* the original is refused as a DuplicateComplaintId its row is left behind, and
\* the key answers in_flight for ever.
ProcessingEnds ==
  \A k \in Keys : slot[k].state = "processing" ~> slot[k].state # "processing"
=============================================================================
