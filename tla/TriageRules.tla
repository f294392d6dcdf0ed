------------------------------ MODULE TriageRules ------------------------------
(***************************************************************************)
(* What the triage agent decides about a stored complaint (agents/triage.  *)
(* py) from the output of its three tools (tools/classify.py, queries.py). *)
(* Confidences are percentages.  A tool that failed leaves no output.      *)
(***************************************************************************)
EXTENDS DataQuality, FiniteSets

\* RULES_TABLE: canonical pairs first, then the vocabulary of the seeded rows.
CANONICAL_RULES ==
  <<"tarjeta_credito", "cobro_indebido">>         :> 82 @@
  <<"tarjeta_credito", "operacion_no_reconocida">> :> 79 @@
  <<"tarjeta_debito", "operacion_no_reconocida">>  :> 79 @@
  <<"tarjeta_debito", "cobro_indebido">>           :> 76 @@
  <<"depositos", "cobro_indebido">>                :> 78 @@
  <<"depositos", "operacion_no_reconocida">>       :> 75 @@
  <<"coopac", "cobro_indebido">>                   :> 74 @@
  <<"creditos", "informacion_incorrecta">>         :> 74 @@
  <<"creditos", "incumplimiento_contrato">>        :> 71

LEGACY_RULES ==
  <<"credit-card", "undisclosed-fee">>   :> 87 @@
  <<"credit-card", "comisiones">>        :> 82 @@
  <<"credit-card", "cargo-no-informado">> :> 85 @@
  <<"savings-account", "comisiones">>    :> 78 @@
  <<"loan", "tasa-interes">>             :> 74 @@
  <<"mobile-app", "fraude">>             :> 69

RULES_TABLE == CANONICAL_RULES @@ LEGACY_RULES
DEFAULT_CONFIDENCE == 55

\* classify_complaint, on the stored columns.  Motives the dictionary folds,
\* cobro_indebido among them, miss the table: its codes are not in it.
Classified(product, motive) ==
  IF <<product, motive>> \in DOMAIN RULES_TABLE
    THEN RULES_TABLE[<<product, motive>>] ELSE DEFAULT_CONFIDENCE

\* query_dq_results reads the `errors' of both reports; the Annex 1-A report
\* has no key of that name, so only the legacy errors are returned.
QueryDqResults(s) == Cardinality(Errors(s))

\* query_taxonomy_normalizations reads the ingestion's agent_runs row: the
\* unknown terms are not in it, only the flag.
QueryTaxonomy(s) == [normalized |-> Cardinality(Normalizations(s)), unknown |-> 0]

\* _extract_*: the defaults stand in for a tool that failed.
Confidence(s, heard) ==
  IF "classify_complaint" \in heard
    THEN Classified(Column(s, "product"), Column(s, "motive")) ELSE DEFAULT_CONFIDENCE

DqErrors(s, heard) == IF "query_dq_results" \in heard THEN QueryDqResults(s) ELSE 0

Priority(confidence, dqErrors) ==
  IF confidence >= 80 \/ dqErrors >= 3 THEN "high"
  ELSE IF confidence >= 60 THEN "medium" ELSE "low"

\* With at most three legacy errors `reject' is never reached.
Route(priority, dqErrors) ==
  IF dqErrors >= 5 THEN "reject"
  ELSE IF priority \in {"high", "medium"} THEN "investigation" ELSE "info-only"

Tools == {"query_dq_results", "query_taxonomy_normalizations", "classify_complaint"}

RouteTo(s, heard) ==
  Route(Priority(Confidence(s, heard), DqErrors(s, heard)), DqErrors(s, heard))

-----------------------------------------------------------------------------
(* Property *)

\* The terms of a code of a field, and s with another one for the code it has.
Terms(f, code) == FIELD_DICTIONARIES[f][code] \union {code}
Reworded(s) ==
  UNION {{[s EXCEPT ![f] = term] : term \in Terms(f, Code(f, s[f]))} :
           f \in {g \in DOMAIN Default : Recognised(g, s[g])}}

\* The words an institution chose do not matter: a submission and the same
\* one with another term for the same code are stored in the same coded
\* columns, have the same errors and go the same way, whichever tools of
\* triage failed.  (Their warnings may differ: the legacy checks and rule 013
\* look at the submitted terms.)
SynonymsAreOne(s) ==
  \A t \in Reworded(s) :
    /\ \A f \in DOMAIN Default : Column(s, f) = Column(t, f)
    /\ Errors(s) = Errors(t) /\ AnnexErrors(s) = AnnexErrors(t)
    /\ \A heard \in SUBSET Tools : RouteTo(s, heard) = RouteTo(t, heard)

=============================================================================
