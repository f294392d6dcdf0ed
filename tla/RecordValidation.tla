---------------------------- MODULE RecordValidation ----------------------------
(***************************************************************************)
(* DIValeVale at work (divalevale/agent.py): Tier 1 records validated      *)
(* before Triage (ingestion/pipeline.py), the requests to the institution  *)
(* to enrich what is insufficient, their webhooks                          *)
(* (webhooks/validation_delivery.py), and Tier 2 batches.                  *)
(*                                                                         *)
(* Each session is one database transaction of a caller: it validates,     *)
(* calls the institution's endpoint while the transaction is open, and     *)
(* commits or is rolled back.  The callers are outside src, as are the     *)
(* institution's endpoint, the circuit breaker's operators and the model.  *)
(***************************************************************************)
EXTENDS ValidationRules

CONSTANTS Sessions,     \* the callers' transactions
          Complaints,   \* complaint ids
          Records,      \* the records an institution may send
          Batches,      \* batch ids
          RowsOf,       \* [Batches -> sequences of records]
          MaxAttempts,  \* sends of one webhook
          MaxWork       \* bound: validations that begin

ASSUME ValidationAssumption ==
  /\ {MaxAttempts, MaxWork} \subseteq Nat
  /\ Records \subseteq Record /\ RowsOf \in [Batches -> Seq(Record)]

VARIABLES work,       \* what each session is at, and what it has not committed
          requests,   \* enrichment_requests of each complaint
          batches,    \* validation_batches: the state of each
          mail,       \* webhooks the institution received
          configured, \* its webhook is enabled and has a secret
          paused,     \* its circuit breaker
          settled,    \* history: complaints whose last commit was a resubmission
          raced,      \* history: complaints two sessions were at together
          begun

vars == <<work, requests, batches, mail, configured, paused, settled, raced, begun>>

Idle == [pc |-> "idle"]

Init ==
  /\ work = [s \in Sessions |-> Idle]
  /\ requests = [c \in Complaints |-> {}]
  /\ batches = [b \in Batches |-> "none"]
  /\ mail = {}
  /\ configured \in BOOLEAN /\ paused \in BOOLEAN
  /\ settled = {} /\ raced = {} /\ begun = 0

-----------------------------------------------------------------------------
(* Validation *)

\* A record as it was sent, as Triage sees it, and the model's part in it.
Handed(r, answer) == [sent |-> r, seen |-> Settled(r, answer), answer |-> answer]

Begin(s, kind, subject, asks, hands) ==
  /\ work[s].pc = "idle" /\ begun < MaxWork /\ begun' = begun + 1
  /\ work' = [work EXCEPT ![s] =
       [pc |-> IF asks /\ configured THEN "sending" ELSE "sent",
        kind |-> kind, subject |-> subject, number |-> begun, asks |-> asks,
        hands |-> hands, attempts |-> 0, delivery |-> "DELIVERY_FAILED", reads |-> {}]]
  /\ raced' = IF \E t \in Sessions : work[t].pc # "idle" /\ work[t].subject = subject
                THEN raced \union {subject} ELSE raced
  /\ UNCHANGED <<requests, batches, mail, configured, paused, settled>>

\* validate_tier1_record, of a first record (run_tier1_ingestion) or of an
\* enriched one (fulfill_enrichment).
Validate(s, kind, c) ==
  \E r \in Records, answer \in ModelAnswers :
    LET routing == Tier1Routing(Tier1Verdict(r, answer)) IN
    /\ kind = "submit" => ~paused
    /\ Ambiguous(r) \/ answer = "malformed"
    /\ Begin(s, kind, c, routing = "FLAGGED_FOR_ENRICHMENT",
             IF routing = "PROCEEDED_TO_TRIAGE" THEN {Handed(r, answer)} ELSE {})

\* validate_tier2_batch.  The model answers alike for all rows of a batch.
ValidateBatch(s, b) ==
  \E answer \in ModelAnswers :
    LET rows == RowsOf[b] IN
    Begin(s, "batch", b, Quarantined(rows),
          {Handed(rows[i], answer) : i \in Eligible(rows, [j \in DOMAIN rows |-> answer])})

\* One send of _deliver.  Anything but a 2xx answer is tried again at once.
Send(s) ==
  /\ work[s].pc = "sending"
  /\ \E received, answered \in BOOLEAN :
       /\ answered => received
       /\ mail' = IF received
                    THEN mail \union {[kind |-> work[s].kind, subject |-> work[s].subject]}
                    ELSE mail
       /\ work' = [work EXCEPT
            ![s].attempts = @ + 1,
            ![s].delivery = IF answered THEN "DELIVERED" ELSE @,
            ![s].pc = IF answered \/ work[s].attempts + 1 = MaxAttempts THEN "sent" ELSE @]
  /\ UNCHANGED <<requests, batches, configured, paused, settled, raced, begun>>

-----------------------------------------------------------------------------
(* What the transaction leaves *)

\* The request a session has flushed, numbered for its validation.
Own(s) ==
  IF work[s].asks
    THEN {[number |-> work[s].number, state |-> "PENDING", delivery |-> work[s].delivery]}
    ELSE {}

PendingOf(qs) == {q.number : q \in {p \in qs : p.state = "PENDING"}}

\* fulfill_enrichment reads the complaint's PENDING requests, its own included.
ReadNow(s) == PendingOf(requests[work[s].subject] \union Own(s))

ReadPending(s) ==
  /\ work[s].pc = "sent" /\ work[s].kind = "fulfil"
  /\ work' = [work EXCEPT ![s].reads = ReadNow(s), ![s].pc = "read"]
  /\ UNCHANGED <<requests, batches, mail, configured, paused, settled, raced, begun>>

\* A resubmission that goes to Triage fulfils the requests; any other
\* escalates them.
Outcome(s) == IF work[s].hands # {} THEN "FULFILLED" ELSE "ESCALATED"

\* Rows are updated by key, whatever another session made of them since.
Requests(s) ==
  {IF q.number \in work[s].reads THEN [q EXCEPT !.state = Outcome(s)] ELSE q :
     q \in requests[work[s].subject] \union Own(s)}

CommitRecord(s) ==
  /\ \/ work[s].pc = "read"
     \/ work[s].pc = "sent" /\ work[s].kind = "submit"
  /\ requests' = [requests EXCEPT ![work[s].subject] = Requests(s)]
  /\ settled' = IF work[s].kind = "fulfil" THEN settled \union {work[s].subject}
                ELSE IF work[s].asks THEN settled \ {work[s].subject} ELSE settled
  /\ work' = [work EXCEPT ![s] = Idle]
  /\ UNCHANGED <<batches, mail, configured, paused, raced, begun>>

\* A batch sent again under its id replaces what was decided before.
CommitBatch(s) ==
  /\ work[s].pc = "sent" /\ work[s].kind = "batch"
  /\ batches' = [batches EXCEPT ![work[s].subject] =
                   IF work[s].asks THEN "QUARANTINED" ELSE "ACCEPTED"]
  /\ work' = [work EXCEPT ![s] = Idle]
  /\ UNCHANGED <<requests, mail, configured, paused, settled, raced, begun>>

\* The caller's transaction fails, or its process dies; webhooks stay sent.
Rollback(s) ==
  /\ work[s].pc # "idle"
  /\ work' = [work EXCEPT ![s] = Idle]
  /\ UNCHANGED <<requests, batches, mail, configured, paused, settled, raced, begun>>

\* An operator trips or resets the breaker.
Break ==
  /\ paused' = ~paused
  /\ UNCHANGED <<work, requests, batches, mail, configured, settled, raced, begun>>

Next ==
  \/ \E s \in Sessions :
       \/ \E c \in Complaints, kind \in {"submit", "fulfil"} : Validate(s, kind, c)
       \/ \E b \in Batches : ValidateBatch(s, b)
       \/ Send(s) \/ ReadPending(s) \/ CommitRecord(s) \/ CommitBatch(s) \/ Rollback(s)
  \/ Break

Spec == Init /\ [][Next]_vars

-----------------------------------------------------------------------------
(* Properties *)

\* A record Triage may use: well-formed, and whole.
Usable(r) ==
  /\ r.institution /\ r.id /\ r.motivo # "unknown"
  /\ r.age \in -CapturedMaxAhead .. CapturedMaxAge
  /\ r.text = "long"
  /\ r.motivo = "money" => r.amount # "none"
  /\ r.amount # "none" => r.currency = "known"

\* What Pass 2 may add: an amount that the narrative mentions once, or that
\* the model picked with confidence, in place of one that was missing.
FairlyRecovered(h) ==
  /\ h.seen.amount # h.sent.amount =>
       /\ h.sent.amount = "none"
       /\ h.sent.amounts = 1 \/ h.answer \in {"amount", "amount and currency"}
  /\ [h.seen EXCEPT !.amount = h.sent.amount, !.currency = h.sent.currency,
                    !.date = h.sent.date] = h.sent

TriagedIsUsable ==
  \A s \in Sessions : work[s].pc # "idle" =>
    \A h \in work[s].hands : Usable(h.seen) /\ FairlyRecovered(h)

NothingPendingAfterResubmission ==
  \A c \in settled \ raced : \A q \in requests[c] : q.state # "PENDING"

\* ingestion/pipeline.py: "Triage only ever sees VALID or RECOVERABLE-then-
\* recovered records": what a session hands to Triage, a record or the rows
\* of a batch, is usable as it is and was not made up, whatever the model
\* answers.  And a complaint the institution has resubmitted waits for nothing
\* more: every request about it is fulfilled or escalated, unless two sessions
\* worked on the complaint at once, when neither reads the request that the
\* other is to commit.
ValidationIsEarned == TriagedIsUsable /\ NothingPendingAfterResubmission

\* fulfill_enrichment: "If still not VALID after this one cycle, escalate (no
\* auto second request)".  The validation it calls asks again.
NoSecondRequest ==
  \A m, n \in mail : m.kind = "submit" /\ n.kind = "fulfil" => m.subject # n.subject

=============================================================================
