-------------------------------- MODULE MC_Feeds --------------------------------
\* What passes between the institutions and the platform, one topic at a time:
\* every kind of feed on its own and two feeds at a time; the two jobs that
\* deliver one batch event; or the recorded demonstration.
EXTENDS InstitutionFeeds, DemoReplay, WebhookDelivery

CONSTANTS j1, j2
MCJobs == {j1, j2}

MCKind == [f \in Kinds |-> f]
MCRows == [f \in Kinds |-> IF f \in {"once", "retry", "replay"} THEN 1 ELSE 2]
MCStarted == {{f} : f \in Kinds} \cup {{"nrt", "replay"}, {}}
MCOrder == <<"i1", "i2">>
Both == {"i1", "i2"}
MCSetups ==
  {[corpus |-> Both, secrets |-> Both, same |-> Both],
   [corpus |-> {"i1"}, secrets |-> Both, same |-> Both],
   [corpus |-> Both, secrets |-> Both, same |-> {"i1"}],
   [corpus |-> Both, secrets |-> {}, same |-> {}]}

VARIABLE topic

allVars == <<feedVars, replay, vars, topic>>

AllInit ==
  /\ FeedsInit /\ ReplayInit /\ Init
  /\ topic \in {"feeds", "webhook", "demo"}
  /\ topic = "feeds" \/ \A f \in Feeds : phase[f] = "off"
  /\ topic = "webhook" \/ \A j \in Jobs : pc[j] = "dropped"
  /\ topic = "demo" \/ setup = [corpus |-> Both, secrets |-> Both, same |-> Both]
AllNext ==
  \/ topic = "feeds" /\ FeedsNext /\ UNCHANGED <<replay, vars, topic>>
  \/ topic = "demo" /\ ReplayNext /\ UNCHANGED <<feedVars, vars, topic>>
  \/ topic = "webhook" /\ Next /\ UNCHANGED <<feedVars, replay, topic>>

\* A feed's client always returns, by an answer or by its timeout.  Feeds end,
\* so that it is enough that one of them goes on.
AllSpec ==
  /\ AllInit /\ [][AllNext]_allVars
  /\ WF_feedVars(topic = "feeds" /\ (\E f \in Feeds : Feed(f)) /\ UNCHANGED <<replay, vars, topic>>)
=============================================================================
