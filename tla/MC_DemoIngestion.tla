--------------------------- MODULE MC_DemoIngestion ---------------------------
\* A sandbox submission and a dispatch in the API process, the script in a
\* process of its own; or the scripts that seed a story; or runs of the social
\* ingestion; or three completions of a deployment whose dialect is learned; or
\* two runs of the enrichment beside status changes.
EXTENDS DemoIngestion, DemoSeeds, SocialSignals, CloudDialect, Enrichment, TLC

MCProcess == [a \in Callers |-> IF a = Backfill THEN "host" ELSE "api"]
MCCallers == Submissions \union Dispatches \union {Backfill}
MCTier1 == [d \in Dispatches |-> "t1"]

MCKindOf == [g1 |-> "golden", j1 |-> "journey", n1 |-> "narrative"]
MCNamed == <<1, 2, 3>>

Plain(w) == [text |-> w, handle |-> FALSE]
Handle(w) == [text |-> w, handle |-> TRUE]
MCPosts == {[id |-> "p1", day |-> 0, words |-> {Handle("bancodemo"), Plain("phishing")}],
            [id |-> "p2", day |-> 1, words |-> {Plain("banco demo"), Handle("someone")}],
            [id |-> "p3", day |-> 2, words |-> {Plain("estafa"), Handle("coopacdemo"), Plain("banco demo")}]}
MCAdapters == [k1 |-> <<"fixture">>, k2 |-> <<"fixture">>, k3 |-> <<"fixture", "twitter">>]
MCAliasOf == [bancodemo |-> "SBS-001234", coopacdemo |-> "SBS-005678"]
               @@ ("banco demo" :> "SBS-001234")
MCFraudTerms == [phishing |-> "PHISHING_KEYWORD", estafa |-> "SCAM_KEYWORD"]

MCCorpus == {[id |-> 1, source |-> "batch", received |-> 1], [id |-> 2, source |-> "sandbox", received |-> 2]}
Told(status, estado, tipo, fecha) ==
  [status |-> status, estado |-> estado, tipo |-> tipo, fecha |-> fecha]
MCReported ==
  [batch   |-> {Told("pendiente", "none", "none", 0), Told("anulado", "none", "none", 0)},
   sandbox |-> {Told("pendiente", "en_proceso", "none", 0), Told("atendido", "atendido", "favor_usuario", 2)}]
MCSourceOf == [e1 |-> "any", e2 |-> "batch"]

VARIABLE topic

allVars == <<vars, seedVars, socialVars, dialectVars, enrichVars, topic>>

\* What the scripts leave in the tables.
ScriptsLeaveOneStory == OneStory /\ RowsAsEnriched

AllInit ==
  /\ Init /\ SeedsInit /\ SocialInit /\ DialectInit /\ EnrichInit
  /\ topic \in {"chains", "seeds", "social", "dialect", "enrich"}
  /\ topic = "chains" \/ provider = "replay"
  /\ topic = "dialect" \/ (fields = {} /\ tempered)
  /\ topic = "enrich" \/ \A c \in Corpus : draw[c] = [resolves |-> TRUE, lag |-> 1, outcome |-> "favor_entidad"]
AllNext ==
  \/ topic = "chains" /\ Next /\ UNCHANGED <<seedVars, socialVars, dialectVars, enrichVars, topic>>
  \/ topic = "seeds" /\ SeedsNext /\ UNCHANGED <<vars, socialVars, dialectVars, enrichVars, topic>>
  \/ topic = "social" /\ SocialNext /\ UNCHANGED <<vars, seedVars, dialectVars, enrichVars, topic>>
  \/ topic = "dialect" /\ DialectNext /\ UNCHANGED <<vars, seedVars, socialVars, enrichVars, topic>>
  \/ topic = "enrich" /\ EnrichNext /\ UNCHANGED <<vars, seedVars, socialVars, dialectVars, topic>>
AllSpec == AllInit /\ [][AllNext]_allVars
=============================================================================
