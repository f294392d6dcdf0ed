----------------------------- MODULE SocialSignals -----------------------------
(***************************************************************************)
(* Social ingestion (ingestion/social/runner.py): a run of the job asks    *)
(* each adapter for the posts of the last 72 hours and stores a signal for *)
(* every post that has none, in one transaction for all adapters.  Runs    *)
(* may overlap; the unique index of (source, source_post_id) makes the     *)
(* INSERT of a post that another run has inserted wait for that run.       *)
(*                                                                         *)
(* A post's text is the set of its words that matter: each is [text,       *)
(* handle].  Nothing in the repository schedules the job.                  *)
(***************************************************************************)
EXTENDS Naturals, FiniteSets, Sequences

CONSTANTS Posts,      \* what is posted: [id, day, words]
          Jobs,       \* runs of social_ingestion_job
          Adapters,   \* SBS_SOCIAL_ADAPTERS of each run's worker: a sequence
          AliasOf,    \* fi_brand_aliases: alias_normalized |-> institution
          FraudTerms, \* _FRAUD_KEYWORDS: needle |-> code
          LastDay,    \* bound
          Lookback    \* _LOOKBACK, in days

\* A post's id names one post.
ASSUME SocialAssumption ==
  /\ \A p, q \in Posts : p.id = q.id => p = q
  /\ LastDay \in Nat /\ Lookback \in Nat

VARIABLES today,
          signals,   \* committed social_signals
          place,     \* where each run stands
          asked,     \* how many adapters it has asked
          fetched,   \* posts its adapter gave and it has not looked at
          missing,   \* the post it has found no signal of
          inserted,  \* its uncommitted signals
          due        \* history: all it was given

socialVars == <<today, signals, place, asked, fetched, missing, inserted, due>>

SocialInit ==
  /\ today = 0 /\ signals = {}
  /\ place = [j \in Jobs |-> "next"] /\ asked = [j \in Jobs |-> 0]
  /\ fetched = [j \in Jobs |-> {}] /\ missing = [j \in Jobs |-> {}]
  /\ inserted = [j \in Jobs |-> {}] /\ due = [j \in Jobs |-> {}]

NextDay ==
  /\ today < LastDay /\ today' = today + 1
  /\ UNCHANGED <<signals, place, asked, fetched, missing, inserted, due>>

-----------------------------------------------------------------------------
(* One signal.                                                             *)

\* anonymize_post_text: no handle is left; what redact() does is module Redaction.
Anonymized(p) == {w \in p.words : ~w.handle}

\* Mutant: the institutions are looked for in the text that is stored.
InstitutionsStored(p) == {AliasOf[w.text] : w \in {v \in Anonymized(p) : v.text \in DOMAIN AliasOf}}

\* resolve_institution_codes, of the text as it was posted: an alias may be a
\* handle; tokens lose their "@" before they are looked up.
Institutions(p) == {AliasOf[w.text] : w \in {v \in p.words : v.text \in DOMAIN AliasOf}}

\* classify_fraud_indicators
Indicators(p) == {FraudTerms[w.text] : w \in {v \in p.words : v.text \in DOMAIN FraudTerms}}

\* A row has its own signal_id; the run that inserted it stands for it.
Signal(j, p) == [by |-> j, post |-> p.id, words |-> Anonymized(p),
                 institutions |-> Institutions(p), indicators |-> Indicators(p)]

-----------------------------------------------------------------------------
(* A run of the job.                                                       *)

To(j, l) == place' = [place EXCEPT ![j] = l]
RollsBack(j) == To(j, "failed") /\ inserted' = [inserted EXCEPT ![j] = {}]

AtAdapter(j) == place[j] = "next" /\ asked[j] < Len(Adapters[j])

\* FixtureSocialAdapter: those posted since today - Lookback.
Given == {p \in Posts : p.day <= today /\ p.day + Lookback >= today}

Fetch(j) ==
  /\ AtAdapter(j) /\ Adapters[j][asked[j] + 1] = "fixture"
  /\ asked' = [asked EXCEPT ![j] = @ + 1]
  /\ fetched' = [fetched EXCEPT ![j] = Given] /\ due' = [due EXCEPT ![j] = @ \union Given]
  /\ To(j, "taking")
  /\ UNCHANGED <<today, signals, missing, inserted>>

\* TwitterAdapter and MetaAdapter raise NotImplementedError, with a key or without.
StubRaises(j) ==
  /\ AtAdapter(j) /\ Adapters[j][asked[j] + 1] # "fixture"
  /\ RollsBack(j)
  /\ UNCHANGED <<today, signals, asked, fetched, missing, due>>

\* The SELECT of _persist_signal; the session flushes before it.
Look(j) ==
  /\ place[j] = "taking"
  /\ \E p \in fetched[j] :
       /\ fetched' = [fetched EXCEPT ![j] = @ \ {p}]
       /\ IF \E s \in signals \union inserted[j] : s.post = p.id
            THEN UNCHANGED <<place, missing>>
            ELSE missing' = [missing EXCEPT ![j] = {p}] /\ To(j, "inserting")
  /\ UNCHANGED <<today, signals, asked, inserted, due>>

Holds(k, p) == \E s \in inserted[k] : s.post = p.id
WaitsFor(j, k) == place[j] = "inserting" /\ j # k /\ \E p \in missing[j] : Holds(k, p)

\* A post committed since the SELECT violates the index.
Insert(j) ==
  /\ place[j] = "inserting" /\ \A k \in Jobs : ~WaitsFor(j, k)
  /\ missing' = [missing EXCEPT ![j] = {}]
  /\ IF \E p \in missing[j], s \in signals : s.post = p.id
       THEN RollsBack(j)
       ELSE /\ inserted' = [inserted EXCEPT ![j] = @ \union {Signal(j, p) : p \in missing[j]}]
            /\ To(j, "taking")
  /\ UNCHANGED <<today, signals, asked, fetched, due>>

\* Two runs that wait for each other: PostgreSQL aborts one.
Aborted(j) ==
  /\ \E k \in Jobs : WaitsFor(j, k) /\ WaitsFor(k, j)
  /\ RollsBack(j)
  /\ UNCHANGED <<today, signals, asked, fetched, missing, due>>

EndAdapter(j) ==
  /\ place[j] = "taking" /\ fetched[j] = {}
  /\ To(j, "next")
  /\ UNCHANGED <<today, signals, asked, fetched, missing, inserted, due>>

CommitSignals(j) ==
  /\ place[j] = "next" /\ asked[j] = Len(Adapters[j])
  /\ signals' = signals \union inserted[j]
  /\ inserted' = [inserted EXCEPT ![j] = {}]
  /\ To(j, "done")
  /\ UNCHANGED <<today, asked, fetched, missing, due>>

SocialNext ==
  \/ NextDay
  \/ \E j \in Jobs : \/ Fetch(j) \/ StubRaises(j) \/ Look(j) \/ Insert(j) \/ Aborted(j)
                     \/ EndAdapter(j) \/ CommitSignals(j)

SocialSpec == SocialInit /\ [][SocialNext]_socialVars
-----------------------------------------------------------------------------
(* Property.                                                               *)

\* After a run that committed, every post of its 72 hours has a signal and only
\* one, whatever other runs did to the same posts at the same time; the signal
\* names every institution the post names, by a handle too, though no handle is
\* stored.
EveryPostOneSignal ==
  \A j \in Jobs : place[j] = "done" =>
    \A p \in due[j] :
      LET of == {s \in signals : s.post = p.id} IN
      /\ Cardinality(of) = 1
      /\ \A s \in of :
           /\ \A w \in s.words : ~w.handle
           /\ \A a \in DOMAIN AliasOf : (\E w \in p.words : w.text = a) => AliasOf[a] \in s.institutions
=============================================================================
