------------------------------- MODULE Approvals -------------------------------
(***************************************************************************)
(* The approval queue of one complaint: an analyst sends a finding to the  *)
(* queue (routes/findings.py, send_to_approvals), the head of supervision  *)
(* decides it (routes/approvals.py: approve, approve_with_edits, reject,   *)
(* send_back).                                                             *)
(*                                                                         *)
(* A request reads first and without a lock, and writes what it has        *)
(* decided from that.  Its UPDATE of a row takes the row's lock until it   *)
(* commits; another UPDATE waits and then writes over it, because nothing  *)
(* compares the row with what was read.                                    *)
(***************************************************************************)
EXTENDS Naturals, Sequences, FiniteSets

CONSTANTS Requests,
          Decides,     \* those that decide; the others send the finding
          NoRequest,
          MaxFaults    \* bound: database errors and crashes

ASSUME ApprovalsAssumption ==
  Decides \subseteq Requests /\ NoRequest \notin Requests /\ MaxFaults \in Nat

VARIABLES pc,         \* where each request stands
          action,     \* decision_action a request asks for
          target,     \* pending_approvals.id a request is about, 0 for none
          answer,     \* what the client got
          rows,       \* pending_approvals, by id
          effects,    \* committed decisions: request |-> rows it wrote
          announced,  \* requests whose SSE event went out
          raced,      \* history: rows two open requests had read as pending
          sendRace,   \* history: two open sends had found no pending row
          faults

vars == <<pc, action, target, answer, rows, effects, announced, raced, sendRace, faults>>

Actions == {"approve", "approve-with-edits", "reject", "send-back-to-analyst"}
Sends == Requests \ Decides
Observed == {"approve", "approve-with-edits"}
Explained == Actions \ {"approve"}
StatusOf == [a \in Actions |-> CASE a \in Observed -> "approved"
                                 [] a = "reject" -> "rejected"
                                 [] OTHER -> "sent_back"]

\* rationale names the request whose text is in decision_rationale.
NewRow == [status |-> "pending", action |-> "none", rationale |-> NoRequest]

\* What a committed decision adds to supervisory_observations, agent_feedback and
\* audit_events.
Observations(r) == IF action[r] \in Observed THEN {"observation"} ELSE {}
Feedback(r) == IF action[r] \in {"approve-with-edits", "reject"} THEN {"feedback"} ELSE {}

Init ==
  /\ pc = [r \in Requests |-> "idle"]
  /\ action = [r \in Requests |-> "none"]
  /\ target = [r \in Requests |-> 0]
  /\ answer = [r \in Requests |-> "none"]
  /\ rows = <<>>
  /\ effects = [r \in Requests |-> {}]
  /\ announced = {}
  /\ raced = {}
  /\ sendRace = FALSE
  /\ faults = 0

GoTo(r, s) == pc' = [pc EXCEPT ![r] = s]
Answer(r, a) == answer' = [answer EXCEPT ![r] = a]
Open(r) == pc[r] \in {"read", "flushed"}
Pending == {i \in DOMAIN rows : rows[i].status = "pending"}
history == <<raced, sendRace>>
tables == <<rows, effects>>

-----------------------------------------------------------------------------
(* send_to_approvals.                                                      *)

\* The rows a second send may be answered with.
Existing == Pending

Newest(s) == CHOOSE i \in s : \A k \in s : k <= i

\* A pending row answers the request; without one it goes on to insert.
SendRead(r) ==
  /\ pc[r] = "idle" /\ r \in Sends
  /\ IF Existing # {}
     THEN /\ target' = [target EXCEPT ![r] = Newest(Existing)]
          /\ Answer(r, "existing")
          /\ GoTo(r, "done")
          /\ UNCHANGED history
     ELSE /\ GoTo(r, "read")
          /\ sendRace' = (sendRace \/ \E q \in Sends : Open(q))
          /\ UNCHANGED <<target, answer, raced>>
  /\ UNCHANGED <<action, tables, announced, faults>>

NextId == Len(rows) + 1

\* The row and its audit event commit together.  Ids follow the commits.
SendCommit(r) ==
  /\ pc[r] = "read" /\ r \in Sends
  /\ rows' = Append(rows, NewRow)
  /\ target' = [target EXCEPT ![r] = NextId]
  /\ effects' = [effects EXCEPT ![r] = {"audit"}]
  /\ GoTo(r, "committed")
  /\ UNCHANGED <<action, answer, announced, history, faults>>

-----------------------------------------------------------------------------
(* The four decisions.                                                     *)

\* Mutant: the row's status is not looked at.
StillOpen(i) == TRUE

Undecided(i) == rows[i].status = "pending"

\* Mutant: any decision replays.
AnyDecision(i, a) == TRUE

\* The row was decided the way the request asks for.
Replays(i, a) == rows[i].action = a

\* _load_pending and _idempotent_replay: go on, replay the decision or refuse.
DecideRead(r, a, i) ==
  /\ pc[r] = "idle" /\ r \in Decides /\ i \in DOMAIN rows
  /\ action' = [action EXCEPT ![r] = a]
  /\ target' = [target EXCEPT ![r] = i]
  /\ IF Undecided(i)
     THEN /\ GoTo(r, "read")
          /\ raced' = IF \E q \in Decides : target[q] = i /\ Open(q)
                      THEN raced \cup {i} ELSE raced
          /\ UNCHANGED answer
     ELSE /\ GoTo(r, "done")
          /\ Answer(r, IF Replays(i, a) THEN "replayed" ELSE "conflict")
          /\ UNCHANGED raced
  /\ UNCHANGED <<tables, announced, sendRace, faults>>

\* The flush: the UPDATE takes the row's lock, waiting for another to let go.
Flush(r) ==
  /\ pc[r] = "read" /\ r \in Decides
  /\ \A q \in Decides : target[q] = target[r] => pc[q] # "flushed"
  /\ GoTo(r, "flushed")
  /\ UNCHANGED <<action, target, answer, tables, announced, history, faults>>

\* The columns a decision sets: approve leaves decision_rationale as it is.
Decided(row, r) ==
  [row EXCEPT !.status = StatusOf[action[r]], !.action = action[r],
              !.rationale = IF action[r] \in Explained THEN r ELSE @]

\* The row, the observation, the feedback and the audit event commit together.
DecideCommit(r) ==
  /\ pc[r] = "flushed"
  /\ rows' = [rows EXCEPT ![target[r]] = Decided(@, r)]
  /\ effects' = [effects EXCEPT ![r] = Observations(r) \cup Feedback(r) \cup {"audit"}]
  /\ GoTo(r, "committed")
  /\ UNCHANGED <<action, target, answer, announced, history, faults>>

\* Mutant: the event is not published.
AnswerOnly(r) ==
  /\ pc[r] = "committed"
  /\ Answer(r, IF r \in Sends THEN "sent" ELSE "decided")
  /\ GoTo(r, "done")
  /\ UNCHANGED <<action, target, tables, announced, history, faults>>

\* The event is published after the commit and before the answer.
Publish(r) ==
  /\ pc[r] = "committed"
  /\ announced' = announced \cup {r}
  /\ Answer(r, IF r \in Sends THEN "sent" ELSE "decided")
  /\ GoTo(r, "done")
  /\ UNCHANGED <<action, target, tables, history, faults>>

-----------------------------------------------------------------------------

\* A statement fails or the process dies; an open transaction is rolled back.
Fail(r) ==
  /\ pc[r] \in {"read", "flushed", "committed"}
  /\ faults < MaxFaults /\ faults' = faults + 1
  /\ Answer(r, "error")
  /\ GoTo(r, "done")
  /\ UNCHANGED <<action, target, tables, announced, history>>

Work(r) == SendCommit(r) \/ Flush(r) \/ DecideCommit(r) \/ Publish(r)

Arrive(r) == SendRead(r) \/ \E a \in Actions, i \in DOMAIN rows : DecideRead(r, a, i)

\* Every request that can be made has been answered.
Terminated ==
  /\ \A r \in Requests : pc[r] = "done" \/ (r \in Decides /\ pc[r] = "idle" /\ rows = <<>>)
  /\ UNCHANGED vars

Next == (\E r \in Requests : Arrive(r) \/ Work(r) \/ Fail(r)) \/ Terminated

Spec == Init /\ [][Next]_vars

\* A request that has begun is worked on; nobody has to make one.
FairSpec == Spec /\ \A r \in Requests : WF_vars(Work(r))

-----------------------------------------------------------------------------
(* Properties.                                                             *)

\* Type invariant.
TypeOK ==
  /\ pc \in [Requests -> {"idle", "read", "flushed", "committed", "done"}]
  /\ action \in [Requests -> Actions \cup {"none"}]
  /\ target \in [Requests -> 0..Len(rows)]
  /\ answer \in [Requests -> {"none", "existing", "sent", "decided", "replayed",
                               "conflict", "error"}]
  /\ \A i \in DOMAIN rows : rows[i] \in
       [status : {"pending", "approved", "rejected", "sent_back"},
        action : Actions \cup {"none"}, rationale : Requests \cup {NoRequest}]
  /\ effects \in [Requests -> SUBSET {"audit", "observation", "feedback"}]
  /\ announced \subseteq Requests
  /\ raced \subseteq DOMAIN rows
  /\ sendRace \in BOOLEAN
  /\ faults \in 0..MaxFaults

Committed(i) == {r \in Decides : target[r] = i /\ effects[r] # {}}

\* A row tells the one decision that was taken on it, with that decision's
\* rationale, observation, feedback and audit event, however often it was decided
\* and whatever failed, unless two decisions had both read it as pending.
OneDecisionUnlessRaced ==
  \A i \in DOMAIN rows \ raced :
    \/ Committed(i) = {} /\ rows[i] = NewRow
    \/ \E r \in Decides :
         /\ Committed(i) = {r}
         /\ rows[i] = [status |-> StatusOf[action[r]], action |-> action[r],
                       rationale |-> IF action[r] \in Explained THEN r ELSE NoRequest]
         /\ "observation" \in effects[r] <=> rows[i].status = "approved"
         /\ "feedback" \in effects[r] <=> action[r] \in {"approve-with-edits", "reject"}

\* A complaint has one pending row at most, unless two sends had both found none.
OnePendingUnlessRaced == sendRace \/ Cardinality(Pending) <= 1

\* Without a race, a finding waits at most once and is decided once.
OneStoryUnlessRaced == OneDecisionUnlessRaced /\ OnePendingUnlessRaced

\* What a client is told has happened: a 201 of a decision that is committed, a
\* replay or a 409 only of a row that another request has really decided that
\* way or another, an existing row only of one that was sent; and an SSE event
\* never runs ahead of its commit.  This holds even when requests race.
AnswersAreTrue ==
  /\ \A r \in announced : effects[r] # {}
  /\ \A r \in Requests :
       /\ answer[r] \in {"sent", "decided"} => effects[r] # {}
       /\ answer[r] = "replayed" =>
            \E q \in Committed(target[r]) : q # r /\ action[q] = action[r]
       /\ answer[r] = "conflict" =>
            \E q \in Committed(target[r]) : q # r /\ action[q] # action[r]
       /\ answer[r] = "existing" =>
            \E q \in Sends : q # r /\ target[q] = target[r] /\ effects[q] # {}

\* A committed send or decision is announced on the approvals stream, whatever
\* fails for others: unless it fails itself between its commit and its event, and
\* then its client has an error and no decision to show.
EveryDecisionAnnounced ==
  \A r \in Requests : effects[r] # {} ~> r \in announced \/ answer[r] = "error"

\* routes/approvals.py:14-15 says that a double-click does not create a second
\* row.  FALSE: two requests that read the row before either commits both insert
\* an observation.
NoSecondObservation ==
  \A i \in DOMAIN rows : Cardinality({r \in Committed(i) : "observation" \in effects[r]}) <= 1
=============================================================================
