----------------------------- MODULE SupervisorViews -----------------------------
(***************************************************************************)
(* What a supervisor is shown of the stored complaints and agent runs: the *)
(* findings list and its drill-down (findings/builder.py, routes/findings. *)
(* py, routes/_internal_auth.py).                                          *)
(*                                                                         *)
(* A complaint is [id, institution, age], a run [of, agent, status, says]. *)
(* Runs are given by start.  What a run's final_output says is NoOutput    *)
(* for none, Nothing for an output without the entry asked for, or a       *)
(* value: for triage and classifier a label, that stands for its           *)
(* confidence too.  Severity and source filter like the institution does.  *)
(***************************************************************************)
EXTENDS Naturals, FiniteSets, Sequences, SequencesExt

CONSTANTS ListLimit,               \* rows read for the list
          SUPERVISOR_INSTITUTIONS

NoOutput == "no output"
Nothing == "nothing"
NoFilter == "no filter"

\* confidence_range: the band of a label; a label without one passes any filter.
Band == [sure |-> "high", likely |-> "medium", unsure |-> "low"]

\* default_filters_for_role; ages are in days.
DefaultFilters(roles) ==
  [institution |-> NoFilter, classification |-> NoFilter,
   band   |-> IF "analyst" \in roles THEN "high" ELSE NoFilter,
   maxAge |-> IF roles \intersect {"analyst", "supervisor"} # {} THEN 1 ELSE 7]

\* The rows a caller's roles let it see, in list and drill-down alike.
Sees(roles, complaint) ==
  roles \intersect {"analyst", "head"} # {} \/ complaint.institution \in SUPERVISOR_INSTITUTIONS

-----------------------------------------------------------------------------
(* The list *)

\* The newest run of a complaint that is wanted, as a sequence of at most one.
Newest(runs, complaint, wanted) ==
  LET found == {k \in DOMAIN runs : runs[k].of = complaint.id /\ runs[k] \in wanted}
  IN  IF found = {} THEN <<>> ELSE <<runs[Max(found)]>>

\* _load_latest_classifier_outputs: the newest classifier run or successful
\* triage, whatever it says.
ListLabel(runs, complaint) ==
  LET run == Newest(runs, complaint, {r \in Range(runs) :
               r.agent = "classifier" \/ (r.agent = "triage" /\ r.status = "success")})
  IN  IF run = <<>> \/ run[1].says = NoOutput THEN Nothing ELSE run[1].says

Drafted(runs, complaint) ==
  \E k \in DOMAIN runs :
    /\ runs[k].of = complaint.id /\ runs[k].status = "success"
    /\ \/ runs[k].agent = "narrative-drafter"
       \/ runs[k].agent = "investigation" /\ runs[k].says \notin {NoOutput, Nothing}

\* The query: the newest rows first, and no more than the limit of them.
Selected(complaints, roles, filters) ==
  LET rows == {c \in complaints :
        /\ Sees(roles, c) /\ c.age <= filters.maxAge
        /\ filters.institution \in {NoFilter, c.institution}}
  IN  {c \in rows : Cardinality({d \in rows : d.age < c.age}) < ListLimit}

\* build_findings_list.  Label and band are looked at after the limit.
Listed(complaints, runs, roles, filters) ==
  {c \in Selected(complaints, roles, filters) :
     LET label == ListLabel(runs, c) IN
     /\ filters.classification \in {NoFilter, label}
     /\ filters.band # NoFilter /\ label # Nothing => Band[label] = filters.band}

-----------------------------------------------------------------------------
(* The drill-down *)

\* Mutant: the runs are gone through from the oldest.
OldestLabel(runs, complaint) ==
  LET run == Newest(Reverse(runs), complaint, {r \in Range(runs) :
               \/ r.agent = "triage" /\ r.says \notin {NoOutput, Nothing}
               \/ r.agent = "classifier" /\ r.says # NoOutput})
  IN  IF run = <<>> THEN Nothing ELSE run[1].says

\* _extract_classification: triage with a label, or a classifier with output.
DetailLabel(runs, complaint) ==
  LET run == Newest(runs, complaint, {r \in Range(runs) :
               \/ r.agent = "triage" /\ r.says \notin {NoOutput, Nothing}
               \/ r.agent = "classifier" /\ r.says # NoOutput})
  IN  IF run = <<>> THEN Nothing ELSE run[1].says

\* _extract_narrative_draft: an investigation with a draft before a drafter.
DetailDraft(runs, complaint) ==
  LET own == Newest(runs, complaint, {r \in Range(runs) :
               r.agent = "investigation" /\ r.says \notin {NoOutput, Nothing}})
      old == Newest(runs, complaint, {r \in Range(runs) :
               r.agent = "narrative-drafter" /\ r.says # NoOutput})
  IN  IF own # <<>> THEN own[1].says ELSE IF old # <<>> THEN old[1].says ELSE Nothing

\* build_finding_detail: nothing for a complaint the caller may not see.
Opens(roles, complaint) == Sees(roles, complaint)

\* _extract_executive_summary
Summary(runs, complaint) ==
  LET run == Newest(runs, complaint, {r \in Range(runs) :
               r.agent = "synthesis" /\ r.says \notin {NoOutput, Nothing}})
  IN  IF run = <<>> THEN Nothing ELSE run[1].says

-----------------------------------------------------------------------------
(* Property *)

\* What an agent that succeeded leaves: its output, with the entry in it.
Whole(runs) ==
  \A k \in DOMAIN runs :
    /\ runs[k].agent \in {"classifier", "narrative-drafter"} =>
         runs[k].says \notin {NoOutput, Nothing}
    /\ runs[k].agent = "triage" =>
         runs[k].status = "success" /\ runs[k].says \notin {NoOutput, Nothing}

\* A finding in the list opens for the same reader, with the label that the
\* list shows and, if the list says an agent drafted its narrative, with that
\* draft: two passes over the runs, in opposite orders and by rules of their
\* own, find the same run.  A triage that did not succeed as a whole is left
\* out: the drill-down shows its label and the list does not.
ListAgreesWithDetail(complaints, runs, roles, filters) ==
  \A c \in Listed(complaints, runs, roles, filters) :
    /\ Opens(roles, c)
    /\ Whole(runs) =>
         /\ ListLabel(runs, c) = DetailLabel(runs, c)
         /\ Drafted(runs, c) => DetailDraft(runs, c) # Nothing

=============================================================================
