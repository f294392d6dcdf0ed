------------------------------ MODULE DataQuality ------------------------------
(***************************************************************************)
(* What the demo and sandbox ingestion make of one submission: the legacy  *)
(* data-quality checks (data_quality/checks.py), the Annex 1-A rules       *)
(* (data_quality/annex_1a_rules.py), the coded columns of the complaint    *)
(* (_insert_complaint_with_retry) and the receipt's status.                *)
(*                                                                         *)
(* A submission is a function from its fields to terms (see Taxonomy).     *)
(* The format of a term is the name of the term: "8 digits" is a document  *)
(* number of eight digits.  Dates are numbers written as terms; a term of  *)
(* LongTerms does not fit a column of 32 characters.                       *)
(***************************************************************************)
EXTENDS Taxonomy, Naturals

CONSTANTS LongTerms,   \* terms longer than varchar(32)
          Onboarded    \* institution ids in the registry

Day == [day1 |-> 1, day2 |-> 2]
IsDate(t) == t \in DOMAIN Day

-----------------------------------------------------------------------------
(* The Annex 1-A rules: each maps a rule to "the submission breaks it" *)

TipoDocumento == {"dni", "ce", "ruc", "pasaporte", "ptp", "otro"}
AnexoA == {"1", "2", "3", "4", "5", "6", "7", "8", "9", "10", "11", "12", "13", "99"}
Moneda == {"pen", "usd", "eur", "clp", "cop", "brl"}
EstadoReclamo == {"pendiente", "atendido", "anulado"}

\* A number in the format of its kind of document; blanks and hyphens are
\* taken out first.  Kinds without a format accept any.
NumberFits(kind, number) ==
  CASE kind = "dni" -> number = "8 digits"
    [] kind = "ruc" -> number = "11 digits"
    [] kind \in {"ce", "pasaporte"} -> number \in {"8 digits", "11 digits", "8-12 alphanumerics"}
    [] OTHER -> TRUE

DocumentRules(s) ==
  [R007 |-> s.tid_cli = Blank,
   R008 |-> s.tid_cli \notin TipoDocumento \union {Blank},
   R009 |-> s.nro_cli = Blank \/ ~NumberFits(s.tid_cli, s.nro_cli),
   R010 |-> s.cod_cli = Blank]

\* Mutant: a date is looked at only when there is one.
ArrivalRulesLenient(s) ==
  [R011 |-> s.received_at # Blank /\ ~IsDate(s.received_at),
   R012 |-> s.channel_in = Blank,
   R013 |-> s.channel_in \notin AnexoA \union {Blank},
   R014 |-> s.canal_respuesta \notin AnexoA \union {Blank}]

\* The dictionaries know no code of Anexo A, and Anexo A no term of theirs.
ArrivalRules(s) ==
  [R011 |-> ~IsDate(s.received_at),
   R012 |-> s.channel_in = Blank,
   R013 |-> s.channel_in \notin AnexoA \union {Blank},
   R014 |-> s.canal_respuesta \notin AnexoA \union {Blank}]

DetailRules(s) ==
  [R015 |-> s.ubigeo \notin {Blank, "4 digits", "6 digits"},
   R016 |-> s.submotive = Blank,
   R017 |-> s.amount_claimed \notin {Blank, "amount"},
   R018 |-> s.moneda \notin Moneda \union {Blank}]

StateRules(s) ==
  [R019 |-> s.status = Blank,
   R020 |-> s.status \notin EstadoReclamo \union {Blank},
   R021 |-> s.status = "atendido" /\ s.fecha_resolucion = Blank,
   R022 |-> s.status = "atendido"
              /\ s.resolucion_reclamo \notin {"favor_usuario", "favor_empresa"},
   R023 |-> /\ IsDate(s.received_at) /\ IsDate(s.fecha_resolucion)
            /\ Day[s.fecha_resolucion] < Day[s.received_at]]

InsuranceRules(s) ==
  [R024 |-> s.bancaseguros = "si" /\ s.producto_bancaseguros = Blank,
   R025 |-> s.bancaseguros = "si" /\ s.motivo_bancaseguros = Blank,
   R026 |-> s.bancaseguros = "si" /\ s.submotivo_bancaseguros = Blank,
   R027 |-> s.institution_id \notin Onboarded]

\* run_annex_1a_checks.  No rule raises on what the request model admits.
Broken(rules) == {r \in DOMAIN rules : rules[r]}
AnnexResults(s) ==
  Broken(DocumentRules(s)) \union Broken(ArrivalRules(s)) \union Broken(DetailRules(s))
    \union Broken(StateRules(s)) \union Broken(InsuranceRules(s))

AnnexErrorRules == {"R007", "R009", "R011", "R012", "R019", "R020", "R021", "R022",
                    "R023", "R024", "R025"}
AnnexErrors(s) == AnnexResults(s) \intersect AnnexErrorRules
AnnexWarnings(s) == AnnexResults(s) \ AnnexErrorRules

-----------------------------------------------------------------------------
(* The legacy checks, on the submitted terms and the redacted narrative *)

KnownProducts == {"depositos", "creditos", "tarjeta_credito", "tarjeta_debito",
                  "seguros", "afp_pensiones", "coopac", "otro"}
KnownMotivos == {"cobro_indebido", "operacion_no_reconocida", "demora_atencion",
                 "informacion_incorrecta", "incumplimiento_contrato",
                 "calidad_servicio", "publicidad_enganosa", "otro"}
KnownChannels == {"agencia", "cajero", "app_movil", "web", "pos",
                  "agente_corresponsal", "otro"}

\* The request model requires a narrative; redaction leaves no text empty.
Errors(s) ==
  {f \in {"institution_complaint_id", "product", "motive"} : s[f] = Blank}

\* A narrative is named for what it holds: "short", "plain", "wallet", "amount".
Warnings(s) ==
  {f \in {"product"} : s[f] \notin KnownProducts \union {Blank}}
    \union {f \in {"motive"} : s[f] \notin KnownMotivos \union {Blank}}
    \union {f \in {"channel_operation"} : s[f] \notin KnownChannels}
    \union {f \in {"narrative"} : s[f] = "short"}
    \union (IF s.narrative = "wallet" /\ s.channel_operation \in {Blank, "otro", "app_movil"}
              THEN {"wallet clue"} ELSE {})

\* extracted_fields: the first amount pattern that matches.
ExtractedAmount(s) == s.narrative = "amount" /\ s.amount_claimed = Blank

-----------------------------------------------------------------------------
(* What is stored, and what is answered *)

Default ==
  [product |-> "tarjeta_credito", motive |-> "cobro_indebido",
   channel_in |-> "app_movil", channel_operation |-> "app_movil"]

\* Mutant: the raw term is tried before the code.
RawFirst(s, f) ==
  IF s[f] # Blank /\ s[f] \notin LongTerms THEN s[f]
  ELSE IF Recognised(f, s[f]) THEN Code(f, s[f]) ELSE Default[f]

\* _normalized: the code, or the raw term if it fits, or the default.
Column(s, f) ==
  IF Recognised(f, s[f]) THEN Code(f, s[f])
  ELSE IF s[f] # Blank /\ s[f] \notin LongTerms THEN s[f] ELSE Default[f]

\* estado_reclamo, a raw term in lower case.  resolution_status takes the raw term whatever its length,
\* in a column of 16 characters: a longer one fails the INSERT.
EstadoColumn(s) ==
  IF Recognised("status", s.status) THEN Code("status", s.status)
  ELSE IF s.status \in LongTerms THEN Blank ELSE s.status

Insertable(s) == s.status \notin LongTerms

\* _parse_received_date: today for one that cannot be read.
ReceivedDate(s) == IF IsDate(s.received_at) THEN s.received_at ELSE "today"

\* _parse_optional_date.  No rule reports a resolution date that cannot be
\* read: R021 asks that it is there, R023 that it is not too early.
ResolutionDate(s) == IF IsDate(s.fecha_resolucion) THEN s.fecha_resolucion ELSE Blank

ResolutionStatus(s) == IF s.status = Blank THEN "pendiente" ELSE s.status

HasErrors(s) == Errors(s) # {} \/ AnnexErrors(s) # {}
HasWarnings(s) == Warnings(s) # {} \/ AnnexWarnings(s) # {}

\* The status of the ingestion's own agent_runs row.
RunStatus(s) == IF HasErrors(s) THEN "partial" ELSE "success"

\* The sandbox receipt.  A rejected submission is answered 201 and stored too.
Receipt(s) ==
  IF HasErrors(s) THEN "rejected"
  ELSE IF HasWarnings(s) THEN "accepted_with_warnings" ELSE "accepted"

-----------------------------------------------------------------------------
(* Property *)

\* A value that stands in for one that was missing or could not be stored is
\* never silent: the taxonomy flag, a legacy issue or an Annex 1-A rule
\* reports the field.  A resolution date that cannot be read is not stored
\* at all, and nothing reports it.
DefaultsAreVisible(s) ==
  /\ \A f \in DOMAIN Default :
       (~Recognised(f, s[f]) /\ Column(s, f) # s[f]) =>
         \/ f \in UnknownTerms(s) \union Errors(s) \union Warnings(s)
         \/ f = "channel_in" /\ "R012" \in AnnexErrors(s)
  /\ ReceivedDate(s) # s.received_at => "R011" \in AnnexErrors(s)
  /\ ResolutionStatus(s) # s.status => "R019" \in AnnexErrors(s)

=============================================================================
