------------------------------- MODULE DemoSeeds -------------------------------
(***************************************************************************)
(* The scripts that put a fixed story in place of what the agents wrote:   *)
(* seed_golden_complaint.py for the newest sandbox complaint, journey_     *)
(* submit.py for the one it has just submitted, seed_demo_narrative.py for *)
(* three complaints that are named to it.                                  *)
(*                                                                         *)
(* A script deletes and inserts agent_runs rows in one READ COMMITTED      *)
(* transaction.  Its DELETE takes the rows that were committed when the    *)
(* statement began; it waits for another that holds one of them, and does  *)
(* not see what that one inserts.  An agent_runs row is [of, agent, by];   *)
(* by names the script, or "chain".                                        *)
(***************************************************************************)
EXTENDS Naturals, FiniteSets

CONSTANTS Seeders,    \* runs of the scripts
          KindOf,     \* "golden", "journey" or "narrative"
          Complaints, \* what the sandbox will store, in this order: numbers
          Named       \* a sequence of three of them, for seed_demo_narrative.py

ASSUME SeedsAssumption ==
  /\ \A s \in Seeders : KindOf[s] \in {"golden", "journey", "narrative"}
  /\ Complaints \subseteq Nat /\ "chain" \notin Seeders
  /\ \A i \in 1..3 : Named[i] \in Complaints

VARIABLES received,   \* complaints that are committed
          agent_runs, \* committed rows
          at,         \* where each script stands
          chosen,     \* the complaints it is about
          doomed,     \* the rows its DELETE has seen
          deleted,    \* and has deleted, in its open transaction
          golden,     \* golden-complaint.json: a complaint, or none
          crossed     \* history: complaints two scripts worked on at a time

seedVars == <<received, agent_runs, at, chosen, doomed, deleted, golden, crossed>>

Trio == {"triage", "investigation", "synthesis"}

SeedsInit ==
  /\ received = {} /\ agent_runs = {}
  /\ at = [s \in Seeders |-> "new"]
  /\ chosen = [s \in Seeders |-> {}]
  /\ doomed = [s \in Seeders |-> {}] /\ deleted = [s \in Seeders |-> {}]
  /\ golden = {} /\ crossed = {}

Written(c, agents, by) == {[of |-> c, agent |-> g, by |-> by] : g \in agents}
AtWork(s) == at[s] \in {"chosen", "deleting", "inserted"}

\* The sandbox commits a complaint with what its chain wrote: all of the trio,
\* or the triage alone.
Receive(c) ==
  /\ c \notin received /\ \A d \in Complaints : d < c => d \in received
  /\ received' = received \union {c}
  /\ \E wrote \in {{"triage"}, Trio \union {"cross-source-correlator"}} :
       agent_runs' = agent_runs \union Written(c, wrote \union {"live-ingestion-orchestrator"}, "chain")
  /\ UNCHANGED <<at, chosen, doomed, deleted, golden, crossed>>

-----------------------------------------------------------------------------

\* Complaints the orchestrator has a run for, newest first.
Candidates == {r.of : r \in {q \in agent_runs : q.agent = "live-ingestion-orchestrator"}}

\* What a script is about: one that finds nothing ends, and one that is given an
\* unknown complaint fails.
Choices(s) ==
  CASE KindOf[s] = "golden" -> {{c} : c \in {d \in Candidates : \A e \in Candidates : e <= d}}
    [] KindOf[s] = "journey" -> {{c} : c \in received}
    [] OTHER -> {ids \in {{Named[i] : i \in 1..3}} : ids \subseteq received}

Choose(s) ==
  /\ at[s] = "new"
  /\ \E ids \in Choices(s) :
       /\ chosen' = [chosen EXCEPT ![s] = ids]
       /\ crossed' = crossed \union UNION {ids \intersect chosen[q] : q \in {p \in Seeders : AtWork(p)}}
  /\ at' = [at EXCEPT ![s] = "chosen"]
  /\ UNCHANGED <<received, agent_runs, doomed, deleted, golden>>

\* Mutant: the synthesis is not in the list of agents.
DeletedLess(s) == IF KindOf[s] = "narrative" THEN {r.agent : r \in agent_runs} ELSE Trio \ {"synthesis"}

\* The agents whose rows the DELETE names: all of them for the narrative.
DeletedAgents(s) == IF KindOf[s] = "narrative" THEN {r.agent : r \in agent_runs} ELSE Trio

BeginDelete(s) ==
  /\ at[s] = "chosen"
  /\ doomed' = [doomed EXCEPT ![s] =
       {r \in agent_runs : r.of \in chosen[s] /\ r.agent \in DeletedAgents(s)}]
  /\ at' = [at EXCEPT ![s] = "deleting"]
  /\ UNCHANGED <<received, agent_runs, chosen, deleted, golden, crossed>>

\* The rows are free, or gone; the INSERTs follow.
DeleteInsert(s) ==
  /\ at[s] = "deleting"
  /\ \A q \in Seeders \ {s} : at[q] = "inserted" => doomed[s] \intersect deleted[q] = {}
  /\ deleted' = [deleted EXCEPT ![s] = doomed[s] \intersect agent_runs]
  /\ at' = [at EXCEPT ![s] = "inserted"]
  /\ UNCHANGED <<received, agent_runs, chosen, doomed, golden, crossed>>

\* build_demo_runs, or the three successes of the other scripts.
Story(s) ==
  IF KindOf[s] = "narrative"
    THEN Written(Named[1], {"classifier", "narrative-drafter", "cross-source-correlator"}, s)
           \union Written(Named[2], {"classifier, BERT late", "classifier, XGBoost away"}, s)
           \union Written(Named[3], {"classifier, anonymizer down"}, s)
    ELSE UNION {Written(c, Trio, s) : c \in chosen[s]}

Commit(s) ==
  /\ at[s] = "inserted"
  /\ agent_runs' = (agent_runs \ deleted[s]) \union Story(s)
  /\ at' = [at EXCEPT ![s] = "committed"]
  /\ UNCHANGED <<received, chosen, doomed, deleted, golden, crossed>>

\* The file the journey page reads is written after the commit.
WriteFile(s) ==
  /\ at[s] = "committed" /\ KindOf[s] = "golden"
  /\ golden' = chosen[s]
  /\ at' = [at EXCEPT ![s] = "done"]
  /\ UNCHANGED <<received, agent_runs, chosen, doomed, deleted, crossed>>

\* An error, or the journey page's fifteen seconds are over: what is not
\* committed is rolled back.
Dies(s) ==
  /\ at[s] \in {"chosen", "deleting", "inserted", "committed"}
  /\ at' = [at EXCEPT ![s] = "dead"]
  /\ UNCHANGED <<received, agent_runs, chosen, doomed, deleted, golden, crossed>>

SeedsNext ==
  \/ \E c \in Complaints : Receive(c)
  \/ \E s \in Seeders : \/ Choose(s) \/ BeginDelete(s) \/ DeleteInsert(s)
                        \/ Commit(s) \/ WriteFile(s) \/ Dies(s)

SeedsSpec == SeedsInit /\ [][SeedsNext]_seedVars

-----------------------------------------------------------------------------
(* Property.                                                               *)

\* A complaint's triage, investigation and synthesis are one story, told once and
\* by one author, and a script's story is told to its end; the file names a
\* complaint that some run of the script has told its story of.  The exception is
\* a complaint that two scripts worked on at the same time: neither deletes what
\* the other inserts.
OneStory ==
  /\ \A r, q \in agent_runs :
       r.of = q.of /\ {r.agent, q.agent} \subseteq Trio /\ r.of \notin crossed => r.by = q.by
  /\ \A r \in agent_runs :
       r.by \in Seeders /\ r.agent \in Trio /\ r.of \notin crossed =>
         Written(r.of, Trio, r.by) \subseteq agent_runs
  /\ \A c \in golden : \E s \in Seeders :
       KindOf[s] = "golden" /\ c \in chosen[s] /\ at[s] \in {"committed", "done", "dead"}
=============================================================================
