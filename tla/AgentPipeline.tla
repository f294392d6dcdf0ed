---------------------------- MODULE AgentPipeline -----------------------------
(***************************************************************************)
(* The agent chain of one complaint: triage, investigation, synthesis and  *)
(* the cross-source correlator (agents/orchestrator.py), each of which     *)
(* opens an agent_runs row, talks to a model in a bounded loop             *)
(* (runtime/loop.py) and closes the row (persistence.py), all in the       *)
(* transaction of the caller.                                              *)
(*                                                                         *)
(* A chain is named by its caller.  Callers of one process share one model *)
(* provider (providers/__init__.py); a replay provider keeps a position in *)
(* the script of each agent and complaint, and each agent that starts      *)
(* clears the positions of all.  What tools compute is left out except for *)
(* the confidence of classify_complaint, which decides the route.          *)
(***************************************************************************)
EXTENDS Naturals, FiniteSets

CONSTANTS Callers,       \* the transactions that run a chain
          Process,       \* the process each caller runs in, and its provider
          MaxIterations, \* run_loop's bound; the investigation agent has one more
          MaxFaults      \* bound: faults of model, tools, database, process

\* A loop is longer than the recorded scripts (ToolTurns): MAX_ITERATIONS_DEFAULT
\* is 5.
ASSUME PipelineAssumption ==
  /\ MaxIterations \in Nat /\ MaxIterations >= 2
  /\ MaxFaults \in Nat

VARIABLES provider,  \* the model provider the deployment configures
          stage,     \* the agent each chain is at
          step,      \* and where in it
          turn,      \* iterations of its loop
          cursor,    \* position in the replay script of its current agent
          answered,  \* its loop ended with the script's last turn
          clean,     \* all tool records of its current agent are successes
          confident, \* classify_complaint returned a confidence of 0.60 or more
          rows,      \* the agent_runs rows in its transaction
          aborted,   \* a statement of its transaction has failed
          restarted, \* history: another agent cleared its position
          faults

agentVars == <<provider, stage, step, turn, cursor, answered, clean, confident,
               rows, aborted, restarted, faults>>
loopVars == <<turn, cursor, answered, clean, confident, restarted>>

Stages == <<"triage", "investigation", "synthesis", "correlator">>
StageNames == {Stages[i] : i \in 1..4}
Terminal == {"success", "partial", "failed"}

\* Turns of the recorded scripts that call tools; one turn of text follows.
ToolTurns(s) == IF s = "investigation" THEN 2 ELSE 1
Bound(s) == MaxIterations + (IF s = "investigation" THEN 1 ELSE 0)

\* The correlator makes a ReplayProvider of its own, whatever is configured.
Replays(a) == stage[a] = "correlator" \/ provider = "replay"
Shares(a) == stage[a] # "correlator" /\ provider = "replay"

AgentInit ==
  /\ provider \in {"replay", "on_prem", "cloud", "unusable"}
  /\ stage = [a \in Callers |-> "none"]
  /\ step = [a \in Callers |-> "idle"]
  /\ turn = [a \in Callers |-> 0] /\ cursor = [a \in Callers |-> 0]
  /\ answered = [a \in Callers |-> FALSE] /\ clean = [a \in Callers |-> TRUE]
  /\ confident = [a \in Callers |-> FALSE]
  /\ rows = [a \in Callers |-> {}]
  /\ aborted = [a \in Callers |-> FALSE]
  /\ restarted = [a \in Callers |-> FALSE]
  /\ faults = 0

Fault == faults < MaxFaults /\ faults' = faults + 1

\* An agent_runs row.  earned is history: every tool succeeded, and a replayed
\* model was heard to the end of its script or was started over by another.
Row(a, status) ==
  [stage |-> stage[a], status |-> status,
   earned |-> clean[a] /\ (Replays(a) => answered[a] \/ restarted[a])]

\* The locals of an agent's loop are gone with its frame.
EndLoop(a) ==
  /\ turn' = [turn EXCEPT ![a] = 0] /\ cursor' = [cursor EXCEPT ![a] = 0]
  /\ answered' = [answered EXCEPT ![a] = FALSE] /\ clean' = [clean EXCEPT ![a] = TRUE]
  /\ confident' = [confident EXCEPT ![a] = FALSE]
  /\ restarted' = [restarted EXCEPT ![a] = FALSE]

\* run_agent_pipeline begins with triage.
EnterChain(a) ==
  /\ stage' = [stage EXCEPT ![a] = "triage"]
  /\ step' = [step EXCEPT ![a] = "start"]

-----------------------------------------------------------------------------
(* One agent *)

\* provider.reset() of the shared ReplayProvider: every position is cleared.
Positions(a) ==
  IF Shares(a)
    THEN [b \in Callers |->
            IF Process[b] = Process[a] /\ stage[b] # "correlator" THEN 0 ELSE cursor[b]]
    ELSE [cursor EXCEPT ![a] = 0]

\* get_provider raises: an unknown name, "mock" outside the tests, a cloud
\* without legal approval, credentials or a readable CA bundle.  No row is open.
NoProvider(a) ==
  /\ step[a] = "start" /\ provider = "unusable"
  /\ step' = [step EXCEPT ![a] = "raised"]
  /\ UNCHANGED <<provider, stage, loopVars, rows, aborted, faults>>

\* start_agent_run: the row with status in_progress and its audit event.
StartAgent(a) ==
  /\ step[a] = "start" /\ ~aborted[a] /\ provider # "unusable"
  /\ cursor' = Positions(a)
  /\ restarted' = [b \in Callers |-> restarted[b] \/ Positions(a)[b] # cursor[b]]
  /\ rows' = [rows EXCEPT ![a] = @ \union {Row(a, "in_progress")}]
  /\ step' = [step EXCEPT ![a] = "loop"]
  /\ UNCHANGED <<provider, stage, turn, answered, clean, confident, aborted, faults>>

\* execute_tool, for the tools of one turn, which run at once on the session of
\* the chain.  A failed tool is a record, not an exception; one whose SQL failed
\* also leaves the transaction aborted, and then no tool succeeds.
ToolsRun(a) ==
  \/ /\ clean' = [clean EXCEPT ![a] = @ /\ ~aborted[a]]
     /\ \E sure \in BOOLEAN :
          confident' = [confident EXCEPT ![a] =
            IF stage[a] = "triage" /\ ~aborted[a] THEN @ \/ sure ELSE @]
     /\ UNCHANGED <<aborted, faults>>
  \/ /\ Fault
     /\ clean' = [clean EXCEPT ![a] = FALSE]
     /\ \E sql \in BOOLEAN : aborted' = [aborted EXCEPT ![a] = @ \/ sql]
     /\ UNCHANGED confident

\* A turn that calls tools.
ToolTurn(a) ==
  /\ step[a] = "loop" /\ turn[a] < Bound(stage[a])
  /\ Replays(a) => cursor[a] < ToolTurns(stage[a])
  /\ cursor' = [cursor EXCEPT ![a] = IF Replays(a) THEN @ + 1 ELSE @]
  /\ turn' = [turn EXCEPT ![a] = @ + 1]
  /\ ToolsRun(a)
  /\ step' = [step EXCEPT ![a] = IF turn[a] + 1 = Bound(stage[a]) THEN "finish" ELSE @]
  /\ UNCHANGED <<provider, stage, answered, rows, restarted>>

\* A turn without tool calls ends the loop.  An exhausted script gives "".
TextTurn(a) ==
  /\ step[a] = "loop" /\ turn[a] < Bound(stage[a])
  /\ Replays(a) => cursor[a] >= ToolTurns(stage[a])
  /\ cursor' = [cursor EXCEPT ![a] = IF Replays(a) THEN @ + 1 ELSE @]
  /\ turn' = [turn EXCEPT ![a] = @ + 1]
  /\ answered' = [answered EXCEPT ![a] = Replays(a) => cursor[a] = ToolTurns(stage[a])]
  /\ step' = [step EXCEPT ![a] = "finish"]
  /\ UNCHANGED <<provider, stage, clean, confident, rows, aborted, restarted, faults>>

Closed(a, status) ==
  {r \in rows[a] : r.stage # stage[a]} \union {Row(a, status)}

\* ProviderUnavailableError of a model that is not a script.  Of the cloud: it
\* cannot be reached, refuses the credential, answers with a status, or goes on
\* refusing the parameters (module CloudDialect); of vLLM: any HTTP error.
CloudFails(a) == ~Replays(a) /\ provider = "cloud"
OnPremFails(a) == ~Replays(a) /\ provider = "on_prem"

\* The agent closes its row as failed and raises; in an aborted transaction that
\* UPDATE raises instead.
ProviderFails(a) ==
  /\ step[a] = "loop" /\ (CloudFails(a) \/ OnPremFails(a)) /\ Fault
  /\ rows' = [rows EXCEPT ![a] = IF aborted[a] THEN @ ELSE Closed(a, "failed")]
  /\ step' = [step EXCEPT ![a] = "raised"]
  /\ EndLoop(a) /\ UNCHANGED <<provider, stage, aborted>>

\* float(correlation_strength) of a fixture that holds no number: outside the
\* agent's try, so the row stays in progress.
Misread(a) ==
  /\ step[a] = "finish" /\ stage[a] = "correlator" /\ Fault
  /\ step' = [step EXCEPT ![a] = "raised"]
  /\ EndLoop(a) /\ UNCHANGED <<provider, stage, rows, aborted>>

\* The correlator closes its row as a success whatever its tools returned.
FinalStatus(a) ==
  IF clean[a] \/ stage[a] = "correlator" THEN "success" ELSE "partial"

\* _route_from, for a complaint with fewer data-quality errors than decide
\* by themselves; the numbers are those of module TriageRules.
NextAgent(a) ==
  CASE stage[a] = "triage" -> IF confident[a] THEN "investigation" ELSE "none"
    [] stage[a] = "investigation" -> "synthesis"
    [] stage[a] = "synthesis" -> "correlator"
    [] stage[a] = "correlator" -> "none"

\* finish_agent_run, and the orchestrator's step to the next agent.
FinishAgent(a) ==
  /\ step[a] = "finish" /\ ~aborted[a]
  /\ rows' = [rows EXCEPT ![a] = Closed(a, FinalStatus(a))]
  /\ stage' = [stage EXCEPT ![a] = NextAgent(a)]
  /\ step' = [step EXCEPT ![a] = IF NextAgent(a) = "none" THEN "ended" ELSE "start"]
  /\ EndLoop(a) /\ UNCHANGED <<provider, aborted, faults>>

\* Any statement of an aborted transaction raises.
StatementRaises(a) ==
  /\ step[a] \in {"start", "finish"} /\ aborted[a]
  /\ step' = [step EXCEPT ![a] = "raised"]
  /\ EndLoop(a) /\ UNCHANGED <<provider, stage, rows, aborted, faults>>

AgentStep(a) ==
  \/ NoProvider(a) \/ StartAgent(a) \/ ToolTurn(a) \/ TextTurn(a) \/ ProviderFails(a)
  \/ Misread(a) \/ FinishAgent(a) \/ StatementRaises(a)

=============================================================================
