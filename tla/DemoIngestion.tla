---------------------------- MODULE DemoIngestion -----------------------------
(***************************************************************************)
(* The three ways a complaint meets the agent chain.                       *)
(*                                                                         *)
(* A submission of the sandbox route or of the internal demo endpoint runs *)
(* run_demo_ingestion (demo_ingestion/orchestrator.py): raw row, complaint,*)
(* ingestion run and audit chain, agents and SSE event, in one transaction *)
(* that its caller commits.  A Tier 1 or Tier 2 complaint gets a dispatch  *)
(* (agents/dispatch.py) after its own commit.  The script                  *)
(* run_agent_pipeline_on_new.py takes what has no agent_runs row.          *)
(*                                                                         *)
(* How one Idempotency-Key is claimed by several requests is the subject   *)
(* of IdempotencySlots; here each submission has a key of its own.         *)
(***************************************************************************)
EXTENDS AgentPipeline

CONSTANTS Submissions, Sandboxed, \* Sandboxed: those of the route with a slot
          Dispatches, Backfill,   \* the script's session
          Ids,                    \* what _generate_complaint_id can draw
          Tier1,                  \* the complaint of each dispatch
          Existing,               \* complaints of before, with their agent_runs
          NoId,
          MaxTries,               \* 5 in _insert_complaint_with_retry
          MaxScans                \* bound: runs of the script

\* A stored complaint is dispatched once (AgentsStartOnce of ComplaintIntake).
ASSUME IngestionAssumption ==
  /\ Callers = Submissions \union Dispatches \union {Backfill}
  /\ Submissions \intersect Dispatches = {} /\ Backfill \notin Submissions \union Dispatches
  /\ Sandboxed \subseteq Submissions
  /\ \A d \in Dispatches : Tier1[d] \notin Ids \union {NoId}
  /\ \A d, e \in Dispatches : Tier1[d] = Tier1[e] => d = e
  /\ Existing \subseteq Ids
  /\ MaxTries \in Nat \ {0} /\ MaxScans \in Nat

VARIABLES pc,         \* where each caller is
          complaint,  \* the complaint it works on
          tries,      \* attempts of its insert loop
          raw,        \* the raw_complaints row in its transaction
          slot,       \* its idempotency row
          stored,     \* committed: complaints
          rawOf,      \* committed: complaints with a raw row linked to them
          runs,       \* committed: agent_runs rows
          events,     \* submissions and ids published as complaint.received
          todo,       \* what the script has selected and not yet taken
          scans,
          raced       \* history: selected while its dispatch was to come

ingestVars == <<pc, complaint, tries, raw, slot, stored, rawOf, runs, events,
                todo, scans, raced>>
vars == <<agentVars, ingestVars>>
database == <<stored, rawOf, runs>>
script == <<todo, scans, raced>>

Tier1Ids == {Tier1[d] : d \in Dispatches}
Over == {"done", "failed", "crashed"}

Init ==
  /\ AgentInit
  /\ pc = [a \in Callers |-> "new"]
  /\ complaint = [a \in Callers |-> IF a \in Dispatches THEN Tier1[a] ELSE NoId]
  /\ tries = [s \in Submissions |-> 0]
  /\ raw = [s \in Submissions |-> "none"]
  /\ slot = [s \in Submissions |-> "none"]
  /\ stored = Tier1Ids \union Existing /\ rawOf = Existing /\ events = {}
  /\ runs = {[complaint |-> i, by |-> NoId,
              run |-> [stage |-> "triage", status |-> "success", earned |-> TRUE]] : i \in Existing}
  /\ todo = {} /\ scans = 0 /\ raced = {}

Goto(a, l) == pc' = [pc EXCEPT ![a] = l]

\* What a caller's commit adds, its transaction's own rows apart.
RunsOf(a) == {[complaint |-> complaint[a], by |-> a, run |-> r] : r \in rows[a]}

\* The transaction is gone: rolled back, or lost with the process.
Forget(a) == rows' = [rows EXCEPT ![a] = {}]
Rest(a) ==
  /\ step' = [step EXCEPT ![a] = "idle"]
  /\ stage' = [stage EXCEPT ![a] = "none"]
  /\ aborted' = [aborted EXCEPT ![a] = FALSE]
  /\ EndLoop(a)

-----------------------------------------------------------------------------
(* A submission *)

ClaimSlot(s) ==
  /\ pc[s] = "new" /\ s \in Submissions
  /\ slot' = [slot EXCEPT ![s] = IF s \in Sandboxed THEN "processing" ELSE @]
  /\ Goto(s, "raw")
  /\ UNCHANGED <<agentVars, complaint, tries, raw, events, database, script>>

InsertRaw(s) ==
  /\ pc[s] = "raw"
  /\ raw' = [raw EXCEPT ![s] = "unlinked"]
  /\ Goto(s, "insert")
  /\ UNCHANGED <<agentVars, complaint, tries, slot, events, database, script>>

\* Another transaction holds the id: the INSERT waits for it.
Held(i) == \E s \in Submissions : pc[s] \notin Over /\ complaint[s] = i

InsertComplaint(s) ==
  \E i \in Ids :
    /\ pc[s] = "insert" /\ i \notin stored /\ ~Held(i)
    /\ complaint' = [complaint EXCEPT ![s] = i]
    /\ Goto(s, "record")
    /\ UNCHANGED <<agentVars, tries, raw, slot, events, database, script>>

\* The flush raises: session.rollback() takes the flushed raw row with it, and
\* a RuntimeError ends the fifth try.
InsertCollides(s) ==
  /\ pc[s] = "insert" /\ Ids \intersect stored # {}
  /\ raw' = [raw EXCEPT ![s] = "lost"]
  /\ tries' = [tries EXCEPT ![s] = @ + 1]
  /\ Goto(s, IF tries[s] + 1 = MaxTries THEN "failed" ELSE "insert")
  /\ UNCHANGED <<agentVars, complaint, slot, events, database, script>>

\* Mutant: the raw row keeps canonical_complaint_id = None.
NotLinked(r) == r

\* raw_row.canonical_complaint_id = ...: of a row the session no longer has,
\* the assignment reaches nothing.
Linked(r) == IF r = "unlinked" THEN "linked" ELSE r

\* Link, data-quality reports, the ingestion's own agent_runs row, audit chain.
WriteRecord(s) ==
  /\ pc[s] = "record"
  /\ raw' = [raw EXCEPT ![s] = Linked(@)]
  /\ \E status \in {"success", "partial"} :
       rows' = [rows EXCEPT ![s] =
         {[stage |-> "ingestion", status |-> status, earned |-> TRUE]}]
  /\ stage' = [stage EXCEPT ![s] = "triage"]
  /\ step' = [step EXCEPT ![s] = "start"]
  /\ Goto(s, "agents")
  /\ UNCHANGED <<provider, loopVars, aborted, faults, complaint, tries, slot,
                 events, database, script>>

\* Mutant: no sweep.
NotSwept(a) == rows[a]

\* _finalise_orphan_agent_runs.
Swept(a) ==
  {IF r.status = "in_progress" THEN [r EXCEPT !.status = "failed"] ELSE r : r \in rows[a]}

\* The chain is over; on an exception the sweep closes what it left open.
AfterAgents(s) ==
  /\ pc[s] = "agents" /\ s \in Submissions
  /\ \/ step[s] = "ended" /\ UNCHANGED rows
     \/ step[s] = "raised" /\ ~aborted[s] /\ rows' = [rows EXCEPT ![s] = Swept(s)]
  /\ Rest(s) /\ Goto(s, "publish")
  /\ UNCHANGED <<provider, faults, complaint, tries, raw, slot, events, database,
                 script>>

\* In an aborted transaction the sweep's SELECT raises: nothing is kept.
SweepRaises(s) ==
  /\ pc[s] = "agents" /\ s \in Submissions
  /\ step[s] = "raised" /\ aborted[s]
  /\ Forget(s) /\ Rest(s) /\ Goto(s, "failed")
  /\ UNCHANGED <<provider, faults, complaint, tries, raw, slot, events, database,
                 script>>

PublishReady == "publish"

\* publish() comes before the caller's commit.
Publish(s) ==
  /\ pc[s] = PublishReady /\ s \in Submissions
  /\ events' = events \union {<<s, complaint[s]>>}
  /\ Goto(s, IF pc[s] = "publish" THEN "complete" ELSE pc[s])
  /\ UNCHANGED <<agentVars, complaint, tries, raw, slot, database, script>>

\* mark_complete and the commit, of one transaction.
CommitSubmission(s) ==
  /\ pc[s] = "complete"
  /\ stored' = stored \union {complaint[s]}
  /\ rawOf' = IF raw[s] = "linked" THEN rawOf \union {complaint[s]} ELSE rawOf
  /\ runs' = runs \union RunsOf(s)
  /\ slot' = [slot EXCEPT ![s] = IF s \in Sandboxed THEN "completed" ELSE @]
  /\ Forget(s) /\ Goto(s, "done")
  /\ UNCHANGED <<provider, stage, step, loopVars, aborted, faults, complaint,
                 tries, raw, events, script>>

-----------------------------------------------------------------------------
(* A dispatch, and the script *)

\* run_agents_for_complaint: DIValeVale records its verdict and lets every
\* complaint through, but refuses a cloud provider and needs one it can build.
BeginDispatch(d) ==
  /\ pc[d] = "new" /\ d \in Dispatches
  /\ IF provider \in {"cloud", "unusable"}
       THEN Goto(d, "failed") /\ UNCHANGED <<stage, step>>
       ELSE Goto(d, "agents") /\ EnterChain(d)
  /\ UNCHANGED <<provider, loopVars, rows, aborted, faults, complaint, tries,
                 raw, slot, events, database, script>>

\* Mutant: the query forgets "no agent_runs row yet".
NoRunSeen(c) == FALSE

HasRun(c) == \E r \in runs : r.complaint = c

\* The script's one SELECT, in a session of its own, once it has a provider.
Select ==
  /\ provider # "unusable"
  /\ pc[Backfill] \in {"new"} \union Over /\ scans < MaxScans
  /\ scans' = scans + 1
  /\ todo' = {c \in stored : ~HasRun(c)}
  /\ raced' = raced \union {Tier1[d] : d \in {e \in Dispatches : pc[e] \notin Over}}
  /\ Goto(Backfill, "take")
  /\ UNCHANGED <<agentVars, complaint, tries, raw, slot, events, database>>

Take ==
  /\ pc[Backfill] = "take" /\ todo # {}
  /\ \E c \in todo :
       /\ complaint' = [complaint EXCEPT ![Backfill] = c]
       /\ todo' = todo \ {c}
  /\ EnterChain(Backfill) /\ Goto(Backfill, "agents")
  /\ UNCHANGED <<provider, loopVars, rows, aborted, faults, tries, raw, slot, events,
                 database, scans, raced>>

EndScan ==
  /\ pc[Backfill] = "take" /\ todo = {}
  /\ Goto(Backfill, "done")
  /\ UNCHANGED <<agentVars, complaint, tries, raw, slot, events, database, script>>

\* The chain of a dispatch or of the script ended: commit, or roll all back.
EndChain(a) ==
  /\ pc[a] = "agents" /\ a \notin Submissions
  /\ \/ step[a] = "ended" /\ runs' = runs \union RunsOf(a)
        /\ Goto(a, IF a = Backfill THEN "take" ELSE "done")
     \/ step[a] = "raised" /\ UNCHANGED runs
        /\ Goto(a, IF a = Backfill THEN "take" ELSE "failed")
  /\ Forget(a) /\ Rest(a)
  /\ UNCHANGED <<provider, faults, complaint, tries, raw, slot, stored, rawOf,
                 events, script>>

-----------------------------------------------------------------------------

\* The caller dies, is cancelled, or its commit fails: its transaction is lost.
Crash(a) ==
  /\ pc[a] \notin {"new"} \union Over /\ Fault
  /\ Forget(a) /\ Rest(a) /\ Goto(a, "crashed")
  /\ UNCHANGED <<provider, complaint, tries, raw, slot, events, database, script>>

Chain(a) == pc[a] = "agents" /\ AgentStep(a) /\ UNCHANGED ingestVars

Submit(s) ==
  \/ ClaimSlot(s) \/ InsertRaw(s) \/ InsertComplaint(s) \/ InsertCollides(s)
  \/ WriteRecord(s) \/ AfterAgents(s) \/ SweepRaises(s) \/ Publish(s)
  \/ CommitSubmission(s)

Next ==
  \/ \E s \in Submissions : Submit(s)
  \/ \E d \in Dispatches : BeginDispatch(d)
  \/ Select \/ Take \/ EndScan
  \/ \E a \in Callers : Chain(a) \/ EndChain(a) \/ Crash(a)

Spec == Init /\ [][Next]_vars

-----------------------------------------------------------------------------
(* Properties *)

TypeOK ==
  /\ pc \in [Callers -> {"new", "raw", "insert", "record", "agents", "publish",
                        "complete", "take"} \union Over]
  /\ complaint \in [Callers -> Ids \union Tier1Ids \union {NoId}]
  /\ stage \in [Callers -> StageNames \union {"none"}]
  /\ slot \in [Submissions -> {"none", "processing", "completed"}]
  /\ stored \subseteq Ids \union Tier1Ids /\ rawOf \subseteq stored

\* No agent_runs row is left in progress for a reader to see: whatever raised
\* in the chain, the row was closed by its agent, swept, or never committed
\* (demo_ingestion/orchestrator.py:817, "never leaks an orphaned row").
RunsEndTerminal == \A r \in runs : r.run.status \in Terminal

\* An agent's row says "success" only if every tool it called succeeded and,
\* when the model was replayed, it heard the script to its end or an agent of
\* another complaint started the script over.  The correlator never looks.
SuccessIsEarned ==
  \A r \in runs :
    r.run.status = "success" /\ r.run.stage # "correlator" => r.run.earned

\* The rows that supervisors count tell how their agents ended.
RunsTellTheirEnd == RunsEndTerminal /\ SuccessIsEarned

\* A complaint, the raw submission it came from, its ingestion run and the
\* receipt under its Idempotency-Key appear together, except that a submission
\* whose insert was retried has lost its raw row.
StoredTogether ==
  \A s \in Submissions :
    /\ s \in Sandboxed => (pc[s] = "done" <=> slot[s] = "completed")
    /\ pc[s] = "done" =>
         /\ complaint[s] \in stored
         /\ \E r \in runs : r.by = s /\ r.run.stage = "ingestion"
         /\ complaint[s] \in rawOf \/ tries[s] > 0

\* A published complaint.received tells of a stored complaint, of one whose
\* commit is the next step, or of one whose process or commit then failed; no
\* failure of the agents comes between the event and the commit.
EventsAreTrue ==
  \A s \in Submissions : \A i \in Ids :
    <<s, i>> \in events => (i \in stored) \/ (pc[s] \in {"complete", "crashed"})

\* What a submission leaves and announces is whole.
StoredAndAnnounced == StoredTogether /\ EventsAreTrue

\* A complaint goes through the chain once.  The exception is one the script
\* selected while its dispatch was still to come or still uncommitted.
ChainOnceUnlessRaced ==
  \A r, q \in runs :
    r.complaint = q.complaint /\ r.complaint \notin raced => r.by = q.by

=============================================================================
