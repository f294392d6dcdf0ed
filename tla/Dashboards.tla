------------------------------- MODULE Dashboards -------------------------------
(***************************************************************************)
(* The pages that put figures side by side: the cockpit snapshot (cockpit/ *)
(* builder.py), its taxonomy tile (routes/cockpit.py), the approvals queue *)
(* (approvals/builder.py) and the trend and the patterns of the aggregates *)
(* (routes/aggregates.py).                                                 *)
(*                                                                         *)
(* A page is a sequence of SELECTs in a READ COMMITTED transaction: each   *)
(* sees what is committed when it begins, so that complaints, agent chains *)
(* and decisions committed in between are in the later figures only.       *)
(*                                                                         *)
(* A complaint is [id, institution, motivo, at, status, tipo, terms,       *)
(* mapped]: at is its received_at; terms are its taxonomy-unknown-term     *)
(* audit rows and mapped says that it has a taxonomy-normalized one, that  *)
(* its transaction commits with it.  Months are days here, and the trend's *)
(* products and channels are figures like its motives.                     *)
(***************************************************************************)
EXTENDS PeerRisk

CONSTANTS Arrivals,        \* the complaints that may be received
          Tier1, Tier2,    \* the ids of the institutions of the two panels
          DayLength,       \* 24 hours
          LongWindow,      \* the 28 days of the Tier 2 panel
          RECENT_LIMIT,    \* cards of a panel
          TopLimit,        \* institutions of the cockpit's ranking
          AnomalyLimit,    \* correlator runs read for the anomalies
          QueueLimit,      \* approvals read for the queue
          NoResult,        \* of a statement that has not been answered
          LastTime,        \* bound
          MaxCommits       \* bound: transactions that commit

ASSUME DashboardsAssumption ==
  /\ {DayLength, LongWindow, LastTime, MaxCommits} \subseteq Nat /\ DayLength > 0
  /\ {RECENT_LIMIT, TopLimit, AnomalyLimit, QueueLimit} \subseteq Nat \ {0}
  /\ \A c \in Arrivals : c.at \in Int /\ c.terms \in Nat
  \* An institution is a row of its table, whose tier is none of the cohorts' labels.
  /\ \A c, d \in Arrivals : c.institution.id = d.institution.id => c.institution = d.institution
  /\ \A c \in Arrivals : c.institution.tier \notin Range(TIER_FROM_CLASSIFICATION)

VARIABLES clock, commits,
          complaints,        \* committed
          runs,              \* of the agents: [of, agent, at, flag]
          pending_approvals, \* [of, status, decided, twice]: twice is history, a second
                             \* decision that overwrote the first
          deciding,          \* decisions that are stamped and not committed
          page,              \* which is being made
          answered,              \* how many of its statements have been answered
          shows,              \* what they gave
          began, asOf        \* the page's own clock, at its start and as it counts

dashboardVars ==
  <<clock, commits, complaints, runs, pending_approvals, deciding, page, answered, shows,
    began, asOf>>
reader == <<page, answered, shows, began, asOf>>

DayOf(t) == t \div DayLength
Lesser(m, n) == IF m < n THEN m ELSE n

\* Mutant: the tiles are counted before the panels.
TilesFirst == <<"count_24h", "top_24h", "active", "triaged", "investigated", "anomalies",
                "tier1_count", "tier1_recent", "tier1_terms", "tier2_count", "tier2_recent", "tier2_terms">>

\* build_cockpit_snapshot: the panels, the KPIs, the agents' tiles, the anomalies.
CockpitReads == <<"tier1_count", "tier1_recent", "tier1_terms", "tier2_count", "tier2_recent", "tier2_terms",
                  "count_24h", "top_24h", "active", "triaged", "investigated", "anomalies">>

\* The statements of each page, in the order of the code.
Statements ==
  [cockpit |-> CockpitReads,
   tile    |-> <<"normalizations", "affected">>,
   queue   |-> <<"items", "pending", "approved", "rejected">>,
   trend   |-> <<"total", "by_motivo", "by_month", "by_outcome", "period">>]

\* The page is not made yet.
Making == answered < Len(Statements[page])

-----------------------------------------------------------------------------
(* What is committed while the page is made.  Tables that it does not read *)
(* are left alone.                                                         *)

Writes == /\ commits < MaxCommits /\ Making /\ commits' = commits + 1
          /\ UNCHANGED <<clock, reader>>

Ingest(c) ==
  /\ page # "queue" /\ c \notin complaints /\ c.at <= clock
  /\ complaints' = complaints \union {c}
  /\ Writes /\ UNCHANGED <<runs, pending_approvals, deciding>>

\* A chain's transaction, which dates its rows before it commits: triage, what it
\* routes to, and the correlator.
FinishChain(c) ==
  /\ page = "cockpit" /\ c \in complaints /\ \A r \in runs : r.of # c.id
  /\ \E routed, flag \in BOOLEAN, t \in 0..clock :
       runs' = runs \union {[of |-> c.id, agent |-> g, at |-> t, flag |-> flag] :
                 g \in {"triage", "cross-source-correlator"}
                         \union (IF routed THEN {"investigation"} ELSE {})}
  /\ Writes /\ UNCHANGED <<complaints, pending_approvals, deciding>>

Request(c) ==
  /\ page = "queue" /\ \A a \in pending_approvals : a.of # c.id
  /\ pending_approvals' = pending_approvals \union
       {[of |-> c.id, status |-> "pending", decided |-> 0, twice |-> FALSE]}
  /\ Writes /\ UNCHANGED <<complaints, runs, deciding>>

Outcome == {"approved", "rejected", "sent_back"}

\* A handler finds the approval pending, without a lock, and takes `now', ...
Decide(a) ==
  /\ page = "queue" /\ Making /\ commits + Cardinality(deciding) < MaxCommits
  /\ a.status = "pending"
  /\ \E s \in Outcome : deciding' = deciding \union {[of |-> a.of, status |-> s, at |-> clock]}
  /\ UNCHANGED <<clock, commits, complaints, runs, pending_approvals, reader>>

\* ... which the row gets when the transaction commits, after the observation, the
\* audit row and whatever else has been committed meanwhile.  A handler that fails
\* never does.
CommitDecision(d) ==
  /\ \E a \in pending_approvals : a.of = d.of /\
       pending_approvals' = (pending_approvals \ {a})
         \union {[a EXCEPT !.status = d.status, !.decided = d.at, !.twice = a.status # "pending"]}
  /\ deciding' = deciding \ {d}
  /\ Writes /\ UNCHANGED <<complaints, runs>>

TimePasses ==
  /\ clock < LastTime /\ Making /\ clock' = clock + 1
  /\ UNCHANGED <<commits, complaints, runs, pending_approvals, deciding, reader>>

-----------------------------------------------------------------------------
(* What a statement gives *)

After(start) == {c \in complaints : c.at >= start}
From(institution) == {c \in complaints : c.institution.id = institution}

\* ORDER BY received_at DESC LIMIT: rows of one instant come in any order.
Recent(institution, limit) ==
  LET rows == From(institution) IN
  {best \in SUBSET rows :
     /\ Cardinality(best) = Lesser(limit, Cardinality(rows))
     /\ \A c \in best, d \in rows \ best : d.at <= c.at}

\* The unknown terms of the cards, three at most of each.
TermsOf(cards) == {[id |-> c.id, terms |-> IF c.terms > 3 THEN 3 ELSE c.terms] : c \in cards}

\* Counts of rows by the value of one column, and the ranking of the institutions.
GroupBy(column) ==
  [k \in Range(column) |-> Cardinality({c \in DOMAIN column : column[c] = k})]
Leading(counts, limit) ==
  {best \in SUBSET DOMAIN counts :
     /\ Cardinality(best) = Lesser(limit, Cardinality(DOMAIN counts))
     /\ \A k \in best, j \in DOMAIN counts \ best : counts[j] <= counts[k]}
TopOf(counts, limit) == {Restrict(counts, best) : best \in Leading(counts, limit)}

Agents(agent) == {r \in runs : r.agent = agent}
Correlated == Agents("cross-source-correlator")

\* The newest correlator runs, and only then those with the flag.
Anomalies ==
  {r \in {q \in Correlated : Cardinality({p \in Correlated : p.at > q.at}) < AnomalyLimit} : r.flag}

\* What is counted of a complaint.
Measures == {"complaints", "pending", "resolved", "favor_user", "favor_bank", "favor_partial"}

CountsIn(c, measure) ==
  \/ measure = "complaints"
  \/ measure = "pending"       /\ c.status = "pendiente"
  \/ measure = "resolved"      /\ c.tipo # "none"
  \/ measure = "favor_user"    /\ c.tipo = "favor_usuario"
  \/ measure = "favor_bank"    /\ c.tipo = "favor_entidad"
  \/ measure = "favor_partial" /\ c.tipo = "solucion_parcial"
Measured(rows, measure) == Cardinality({c \in rows : CountsIn(c, measure)})

\* Per month that has complaints, how they were resolved, or not yet.
Outcomes ==
  [day \in {DayOf(c.at) : c \in complaints} |->
     [f \in {"favor_user", "favor_bank", "favor_partial", "pending"} |->
        Measured({c \in complaints : DayOf(c.at) = day}, f)]]

Approvals(status) == {a \in pending_approvals : a.status = status}
DecidedOn(day, status) == {a \in Approvals(status) : a.decided >= DayLength * day}

\* A statement's possible results, for a page whose clock is `now'.  Every row of
\* the tile is of today.
Results(statement, now) ==
  CASE statement = "tier1_count"  -> {Cardinality(From(Tier1) \intersect After(now - DayLength))}
    [] statement = "tier1_recent" -> Recent(Tier1, RECENT_LIMIT)
    [] statement = "tier1_terms"  -> {TermsOf(shows["tier1_recent"])}
    [] statement = "tier2_count"  -> {Cardinality(From(Tier2) \intersect After(now - LongWindow))}
    [] statement = "tier2_recent" -> Recent(Tier2, RECENT_LIMIT)
    [] statement = "tier2_terms"  -> {TermsOf(shows["tier2_recent"])}
    [] statement = "count_24h"    -> {Cardinality(After(now - DayLength))}
    [] statement = "top_24h"      -> TopOf(GroupBy([c \in After(now - DayLength) |-> c.institution.id]), TopLimit)
    [] statement = "active"       -> {Cardinality(Correlated)}
    [] statement = "triaged"      -> {Cardinality({r \in Agents("triage") : r.at >= now - DayLength})}
    [] statement = "investigated" -> {Cardinality({r \in Agents("investigation") : r.at >= now - DayLength})}
    [] statement = "anomalies"    -> {Anomalies}
    [] statement = "normalizations" ->
         {Cardinality({c \in complaints : c.mapped})}
    [] statement = "affected" ->
         {Cardinality({c.institution.id : c \in {d \in complaints : d.mapped}})}
    [] statement = "items"    -> {i \in SUBSET Approvals("pending") :
         Cardinality(i) = Lesser(QueueLimit, Cardinality(Approvals("pending")))}
    [] statement = "pending"  -> {Cardinality(Approvals("pending"))}
    [] statement = "approved" -> {Cardinality(DecidedOn(DayOf(now), "approved"))}
    [] statement = "rejected" -> {Cardinality(DecidedOn(DayOf(now), "rejected"))}
    [] statement = "total"     -> {Cardinality(complaints)}
    [] statement = "by_motivo" -> {GroupBy([c \in complaints |-> c.motivo])}
    [] statement = "by_month"  -> {GroupBy([c \in complaints |-> DayOf(c.at)])}
    [] statement = "by_outcome" -> {Outcomes}
    [] statement = "period" -> {{DayOf(c.at) : c \in {d \in complaints :
         (\A e \in complaints : e.at <= d.at) \/ (\A e \in complaints : d.at <= e.at)}}}

\* `now' is taken as the page begins, and again for the KPIs of the queue.
Read ==
  LET begins    == answered = 0
      now       == IF begins \/ (page = "queue" /\ answered = 1) THEN clock ELSE asOf
      statement == Statements[page][answered + 1] IN
  /\ Making
  /\ began' = IF begins THEN clock ELSE began
  /\ asOf' = now
  /\ \E result \in Results(statement, now) : shows' = [shows EXCEPT ![statement] = result]
  /\ answered' = answered + 1
  /\ UNCHANGED <<clock, commits, complaints, runs, pending_approvals, deciding, page>>

DashboardsInit ==
  /\ clock = 0 /\ commits = 0
  /\ complaints = {} /\ runs = {} /\ pending_approvals = {} /\ deciding = {}
  /\ page \in DOMAIN Statements /\ answered = 0
  /\ shows = [statement \in Range(Statements[page]) |-> NoResult]
  /\ began = 0 /\ asOf = 0

DashboardsNext ==
  \/ \E c \in Arrivals : Ingest(c) \/ FinishChain(c) \/ Request(c)
  \/ \E a \in pending_approvals : Decide(a)
  \/ \E d \in deciding : CommitDecision(d)
  \/ TimePasses
  \/ Read

DashboardsSpec == DashboardsInit /\ [][DashboardsNext]_dashboardVars

-----------------------------------------------------------------------------
(* The patterns: one statement, and a roll-up that depends on the scope.   *)

\* GROUP BY institution, motive (and submotives and topic, that are like it).
Base ==
  {[institution |-> c.institution, motivo |-> c.motivo,
    figures |-> [f \in Measures |->
      Measured({d \in complaints : d.institution = c.institution /\ d.motivo = c.motivo}, f)]] :
     c \in complaints}

\* _cohort_for: the cohort, or a label that is made up where there is none.
CohortLabel(i) ==
  IF Assignable(i) THEN Cohort(i) ELSE <<IF i.head = "" THEN "OTHER" ELSE i.head, i.tier>>

Key(scope, row) ==
  CASE scope = "entity" -> <<row.institution.id, row.motivo>>
    [] scope = "group"  -> <<CohortLabel(row.institution), row.motivo>>
    [] scope = "all"    -> <<row.motivo>>

\* The buckets of a scope.
Folded(scope, k) == {row \in Base : Key(scope, row) = k}
Patterns(scope) ==
  [k \in {Key(scope, row) : row \in Base} |->
     [f \in Measures |-> Sum([row \in Folded(scope, k) |-> row.figures[f]])]]

-----------------------------------------------------------------------------
(* Property.                                                               *)

Done(p) == page = p /\ ~Making

\* A cockpit's tiles never fall short of its panels: the day's complaints count
\* those of the Tier 1 panel, whose institution is in the ranking or has no more
\* than those that are; a panel has the cards its count announces, and a card
\* flagged for unknown terms says which; the list has the anomalies the tile
\* counts, if each of them is one.
CockpitAddsUp ==
  Done("cockpit") =>
    /\ shows["tier1_count"] <= shows["count_24h"]
    /\ LET top == shows["top_24h"] IN
       IF Tier1 \in DOMAIN top
         THEN shows["tier1_count"] <= top[Tier1]
         ELSE \/ shows["tier1_count"] = 0
              \/ /\ Cardinality(DOMAIN top) = TopLimit
                 /\ \A i \in DOMAIN top : shows["tier1_count"] <= top[i]
    /\ Lesser(RECENT_LIMIT, shows["tier1_count"]) <= Cardinality(shows["tier1_recent"])
    /\ Lesser(RECENT_LIMIT, shows["tier2_count"]) <= Cardinality(shows["tier2_recent"])
    /\ \A c \in shows["tier1_recent"] : c.terms > 0 =>
         \E t \in shows["tier1_terms"] : t.id = c.id /\ t.terms \in 1..3
    /\ (\A r \in Correlated : r.flag) =>
         Lesser(AnomalyLimit, shows["active"]) <= Cardinality(shows["anomalies"])

\* None of the KPIs counts a decision that sends back, one that was stamped before
\* the day they are of, whenever it committed, or, for all they know, one of two that
\* overlapped.
CountedByNone(a) ==
  \/ a.status = "sent_back" \/ a.twice
  \/ a.status # "pending" /\ a.decided < DayLength * DayOf(asOf)

\* Each approval in a queue's list is counted by one of its KPIs, unless it has been
\* decided in one of these ways.
QueueAddsUp ==
  Done("queue") =>
    Cardinality({a \in shows["items"] : \A b \in pending_approvals : b.of = a.of => ~CountedByNone(b)})
      <= shows["pending"] + shows["approved"] + shows["rejected"]

\* A trend's distributions hold every complaint of its total, its outcomes have
\* every month of theirs, and so has its period.
TrendAddsUp ==
  Done("trend") =>
    /\ shows["total"] <= Sum(shows["by_motivo"]) /\ Sum(shows["by_motivo"]) <= Sum(shows["by_month"])
    /\ \A month \in DOMAIN shows["by_month"] :
         /\ month \in DOMAIN shows["by_outcome"]
         /\ \E first, last \in shows["period"] : first <= month /\ month <= last

\* A tile with normalizations names an institution.
TileAddsUp == Done("tile") /\ shows["normalizations"] > 0 => shows["affected"] > 0

\* The three scopes count the same complaints: every bucket of a cohort is what
\* its peers' complaints of that motive come to, and no bucket favours more
\* than it resolves.
ScopesAgree ==
  \A scope \in {"entity", "group", "all"} :
    LET rows == Patterns(scope) IN
    /\ Sum([k \in DOMAIN rows |-> rows[k]["complaints"]]) = Cardinality(complaints)
    /\ \A k \in DOMAIN rows :
         /\ rows[k]["favor_user"] + rows[k]["favor_bank"] + rows[k]["favor_partial"] <= rows[k]["resolved"]
         /\ scope = "group" => \A c \in complaints : Assignable(c.institution) /\ Key(scope, c) = k =>
              \A f \in Measures : rows[k][f] =
                Measured({d \in complaints : d.motivo = c.motivo /\ d.institution.id \in
                            Peers({e.institution : e \in complaints}, c.institution)}, f)

\* All pages.
PagesAddUp == CockpitAddsUp /\ QueueAddsUp /\ TrendAddsUp /\ TileAddsUp /\ ScopesAgree
=============================================================================
