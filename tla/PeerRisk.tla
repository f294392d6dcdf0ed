-------------------------------- MODULE PeerRisk --------------------------------
(***************************************************************************)
(* Where an institution stands among its peers (peer_risk/cohorts.py,      *)
(* percentiles.py) and the daily series its forecast is made from          *)
(* (forecast.py), for the complaints of one motive.                        *)
(*                                                                         *)
(* An institution is a record [id, head, tier]: the first word of its name *)
(* and its tier classification.  A complaint is [institution, age], its    *)
(* age in hours.  Fractions are compared by cross-multiplication: the      *)
(* code's rounding, to two and three decimals, moves no comparison for     *)
(* counts as small as those of the runs.  The smoothing of the forecast is *)
(* left out.                                                               *)
(***************************************************************************)
EXTENDS Integers, FiniteSets, FiniteSetsExt, Sequences

HoursPerDay == 24

-----------------------------------------------------------------------------
(* Cohorts *)

SEGMENT_PREFIX == [banco |-> "BANCO", financiera |-> "FINANCIERA", cmac |-> "CMAC",
                   caja |-> "CMAC", coopac |-> "COOPAC", cooperativa |-> "COOPAC"]
TIER_FROM_CLASSIFICATION == [large |-> "TIER_1", mid |-> "TIER_2", small |-> "TIER_3"]

\* assign_cohort raises for a record without a name or with an unknown tier.
Assignable(i) == i.head # "" /\ i.tier \in DOMAIN TIER_FROM_CLASSIFICATION

Segment(head) ==
  IF head \in DOMAIN SEGMENT_PREFIX THEN SEGMENT_PREFIX[head] ELSE "OTHER"

Cohort(i) == <<Segment(i.head), TIER_FROM_CLASSIFICATION[i.tier]>>

IsDemoSeeded(cohort) == cohort \in {<<"BANCO", "TIER_1">>, <<"COOPAC", "TIER_2">>}

\* _cohort_peers, and the institution itself.
Peers(institutions, i) ==
  {j.id : j \in {k \in institutions : Assignable(k) /\ Cohort(k) = Cohort(i)}} \union {i.id}

-----------------------------------------------------------------------------
(* The position of one institution *)

\* Complaints are rows: a bag, given as a sequence.
CountOf(complaints, id, from, to) ==
  Cardinality({k \in DOMAIN complaints :
    /\ complaints[k].institution = id
    /\ complaints[k].age >= from /\ complaints[k].age < to})

\* _bucket_counts, over windowDays
Counts(complaints, peers, windowDays) ==
  [id \in peers |-> CountOf(complaints, id, 0, windowDays * HoursPerDay)]

\* A sum of counts: what they count, numbered within its key.
Sum(counts) == Cardinality(UNION {{k} \X (1..counts[k]) : k \in DOMAIN counts})

\* _percentile_of reaches `percent': half of the equal counts, its own among
\* them, lie below.  With fewer than five peers no count reaches 90.
PercentileAtLeast(counts, id, percent) ==
  LET below == Cardinality({j \in DOMAIN counts : counts[j] < counts[id]})
      equal == Cardinality({j \in DOMAIN counts : counts[j] = counts[id]})
  IN  50 * (2 * below + equal) >= percent * Cardinality(DOMAIN counts)

\* n and n squared times the deviation and the variance of numpy.
Deviation(counts, id) == Cardinality(DOMAIN counts) * counts[id] - Sum(counts)
Variance(counts) ==
  Cardinality(DOMAIN counts) * Sum([id \in DOMAIN counts |-> counts[id] * counts[id]])
    - Sum(counts) * Sum(counts)

\* Mutant: an institution far below its peers deviates as well.
FarAway(counts, id, z) ==
  Variance(counts) > 0 /\ Deviation(counts, id) * Deviation(counts, id) >= z * z * Variance(counts)

\* _z_score reaches z; there is none when all counts are equal.
ZScoreAtLeast(counts, id, z) ==
  /\ Variance(counts) > 0 /\ Deviation(counts, id) >= 0
  /\ Deviation(counts, id) * Deviation(counts, id) >= z * z * Variance(counts)

\* compute_peer_percentile
IsOutlier(complaints, peers, id, windowDays) ==
  LET counts == Counts(complaints, peers, windowDays)
  IN  PercentileAtLeast(counts, id, 90) \/ ZScoreAtLeast(counts, id, 2)

\* The k-th smallest of some counts.
Ranked(counts, k) ==
  Min({counts[id] : id \in {j \in DOMAIN counts :
         Cardinality({h \in DOMAIN counts : counts[h] <= counts[j]}) >= k}})

\* np.percentile(counts, 90) < v, by linear interpolation: the point lies
\* 9 * (n - 1) / 10 steps into the sorted counts.
AboveP90(counts, v) ==
  LET n    == Cardinality(DOMAIN counts)
      low  == (9 * (n - 1)) \div 10
      rest == (9 * (n - 1)) % 10
      next == IF low + 2 <= n THEN Ranked(counts, low + 2) ELSE Ranked(counts, n)
  IN  10 * v > (10 - rest) * Ranked(counts, low + 1) + rest * next

\* _sustained_days_above_p90: days on which it exceeds the other peers.
SustainedDays(complaints, peers, id, days) ==
  LET count(j, day) == CountOf(complaints, j, day * HoursPerDay, (day + 1) * HoursPerDay)
      others == peers \ {id}
  IN  Cardinality({day \in 0..(days - 1) :
        /\ others # {} /\ count(id, day) > 0
        /\ AboveP90([j \in others |-> count(j, day)], count(id, day))})

\* _daily_counts: the oldest day first.
DailyCounts(complaints, id, days) ==
  [k \in 1..days |-> CountOf(complaints, id, (days - k) * HoursPerDay,
                             (days - k + 1) * HoursPerDay)]

\* forecast_series projects a series only for the seeded cohorts, and only
\* one that is not all zeros.
Forecast(complaints, i, days) ==
  IF IsDemoSeeded(Cohort(i)) /\ CountOf(complaints, i.id, 0, days * HoursPerDay) > 0
    THEN DailyCounts(complaints, i.id, days) ELSE <<>>

-----------------------------------------------------------------------------
(* Property *)

\* One more complaint about an institution never takes it off the outliers
\* nor shortens its days above the cohort, and the days of its forecast sum
\* to the complaints of the window: percentile, z-score and daily p90 agree
\* on which way is worse.
MoreComplaintsNeverBetter(institutions, i, complaints, windowDays, days) ==
  LET peers == Peers(institutions, i) IN
  \A age \in 0..(days * HoursPerDay - 1) :
    LET more == Append(complaints, [institution |-> i.id, age |-> age]) IN
    /\ IsOutlier(complaints, peers, i.id, windowDays) =>
         IsOutlier(more, peers, i.id, windowDays)
    /\ SustainedDays(complaints, peers, i.id, days) <= SustainedDays(more, peers, i.id, days)
    /\ Forecast(more, i, days) # <<>> =>
         Sum(Forecast(more, i, days))
           = 1 + CountOf(complaints, i.id, 0, days * HoursPerDay)

=============================================================================
