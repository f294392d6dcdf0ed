-------------------------------- MODULE MC_Rules --------------------------------
\* The rules, each over the cases of its own: a submission, a text with its
\* detections, a cohort with its complaints, the runs behind a finding, a sheet.
\* Before the first validation begins cases may be examined, one at a time;
\* validation goes on as RecordValidation says.  Or the rules are those of the
\* perimeter, and signed requests pass it as RequestPerimeter says.
EXTENDS RecordValidation, TriageRules, Redaction, PeerRisk, SupervisorViews, AnnexRows,
        RequestPerimeter

VARIABLE case

-----------------------------------------------------------------------------
\* Validation: records that differ from a whole one in what a rule or a
\* recovery looks at, and batches at the threshold of the quarantine.
Symmetry == Permutations(Sessions)

WholeRecord == [institution |-> TRUE, id |-> TRUE, age |-> 1, motivo |-> "money",
          text |-> "long", amounts |-> 0, zero |-> FALSE, textDate |-> "none",
          amount |-> "sent", currency |-> "known", date |-> TRUE]
Lacking == [WholeRecord EXCEPT !.amount = "none", !.currency = "none"]
Foreign == [WholeRecord EXCEPT !.currency = "other"]

MCRecords ==
  {WholeRecord, Foreign,
   [Lacking EXCEPT !.amounts = 0],
   [Lacking EXCEPT !.amounts = 1],
   [Lacking EXCEPT !.amounts = 1, !.zero = TRUE],
   [Lacking EXCEPT !.amounts = 2],
   [Lacking EXCEPT !.amounts = 2, !.currency = "known"],
   [WholeRecord EXCEPT !.text = "short", !.date = FALSE, !.textDate = "glued"],
   [WholeRecord EXCEPT !.text = "short", !.date = FALSE, !.textDate = "clear"],
   [WholeRecord EXCEPT !.motivo = "unknown", !.amount = "none"]}

Four == <<WholeRecord, WholeRecord, WholeRecord, WholeRecord>>
MCRowsOf == [fifth |-> Append(Four, [WholeRecord EXCEPT !.text = "none"]),
             sixth |-> Four \o <<[Lacking EXCEPT !.amounts = 2], [WholeRecord EXCEPT !.text = "none"]>>]
MCBatches == DOMAIN MCRowsOf
-----------------------------------------------------------------------------
\* Submissions: a clean one with up to two fields changed.
Clean ==
  [institution_complaint_id |-> "id", institution_id |-> "SBS-001234",
   product |-> "tarjeta-de-credito", motive |-> "cobros-indebidos", submotive |-> "sub",
   channel_in |-> "1", channel_operation |-> "app-movil", canal_respuesta |-> "2",
   received_at |-> "day1", fecha_resolucion |-> "day2", status |-> "atendido",
   resolucion_reclamo |-> "favor_usuario", tipo_resolucion |-> "favor_usuario",
   tid_cli |-> "dni", nro_cli |-> "8 digits", cod_cli |-> "client",
   ubigeo |-> "6 digits", amount_claimed |-> "amount", moneda |-> "pen",
   bancaseguros |-> "no", producto_bancaseguros |-> Blank, motivo_bancaseguros |-> Blank,
   submotivo_bancaseguros |-> Blank, narrative |-> "plain"]

Changes ==
  [institution_complaint_id |-> {Blank}, institution_id |-> {"stranger"},
   product |-> {Blank, "tarjeta_credito", "cuenta-de-ahorros", "depositos", "unheard of", "long"},
   motive |-> {Blank, "cobro_indebido", "operacion_no_reconocida",
               "operaciones-no-reconocidas", "unheard of", "long"},
   channel_in |-> {Blank, "app-movil", "whatsapp", "unheard of", "long"},
   channel_operation |-> {Blank, "cajero", "cajero-automatico", "unheard of", "long"},
   submotive |-> {Blank}, canal_respuesta |-> {"unheard of"},
   received_at |-> {Blank, "day2", "never"}, fecha_resolucion |-> {Blank, "day1", "never"},
   status |-> {Blank, "pendiente", "en-proceso", "anulado", "long"},
   resolucion_reclamo |-> {Blank, "favor_entidad"}, tid_cli |-> {Blank, "ruc", "otro"},
   nro_cli |-> {Blank, "4 digits"}, cod_cli |-> {Blank}, ubigeo |-> {Blank, "8 digits"},
   amount_claimed |-> {Blank, "words"}, moneda |-> {"unheard of"}, bancaseguros |-> {"si"},
   narrative |-> {"short", "wallet", "amount"}]

Submissions ==
  LET changed(s, f) == {[s EXCEPT ![f] = v] : v \in Changes[f]}
      once == UNION {changed(Clean, f) : f \in DOMAIN Changes}
  IN  {Clean} \union once
        \union UNION {UNION {changed(s, f) : f \in DOMAIN Changes} : s \in once}

\* Texts of four characters with up to three detections.
TextLength == 4
Soles == {{}, {[from |-> 2, to |-> 4]}}
Detections ==
  {[kind |-> k, from |-> s.from, to |-> s.to] :
     k \in {"pii_name", "pii_email", "pii_id", "pii_account"}, s \in Span(TextLength)}
DetectionSets ==
  {ds \in {{}} \union {{a, b, c} : a, b, c \in Detections} :
     \E soles \in Soles : Detectable(ds, soles)}

\* A cohort of six and institutions out of it; two days in a window of two.
Cohorts ==
  {[id |-> k, head |-> IF k = 3 THEN "caja" ELSE "cmac", tier |-> "mid"] : k \in 1..6}
    \union {[id |-> 7, head |-> "banco", tier |-> "mid"], [id |-> 8, head |-> "", tier |-> "mid"],
            [id |-> 9, head |-> "cmac", tier |-> "huge"]}
Seeded == {[id |-> k, head |-> "banco", tier |-> "large"] : k \in 1..6}

\* How many complaints of the first and of the second day each peer has: of
\* three places for each, a place that is not taken is of institution 0, which
\* is of no cohort.
Loads == {<<0, 0>>, <<1, 0>>, <<0, 2>>, <<1, 2>>}
Complained(loads) ==
  [n \in 1..(3 * Len(loads)) |->
     LET k == ((n - 1) \div 3) + 1
         p == (n - 1) % 3
     IN  [institution |-> IF IF p = 0 THEN loads[k][1] = 1 ELSE p <= loads[k][2] THEN k ELSE 0,
          age |-> IF p = 0 THEN 23 ELSE 24]]
Distributions ==
  {<<mine, a, a, a, b, b>> : mine, a, b \in Loads}

\* Findings: two complaints, and up to three runs about them.
Findings == {[id |-> 1, institution |-> "ours", age |-> 0], [id |-> 2, institution |-> "other", age |-> 1],
             [id |-> 3, institution |-> "ours", age |-> 2]}
Runs ==
  {[of |-> 1, agent |-> g, status |-> st, says |-> w] :
     g \in {"triage", "investigation"}, st \in {"success", "partial"}, w \in {Nothing, "sure"}}
    \union {[of |-> c, agent |-> g, status |-> "success", says |-> w] :
              c \in {1, 2}, g \in {"classifier", "narrative-drafter"}, w \in {"sure", "likely"}}
    \union {[of |-> 1, agent |-> "triage", status |-> "failed", says |-> NoOutput]}
Readers == {{}, {"analyst"}, {"supervisor"}, {"head"}}
Filters(roles) ==
  {DefaultFilters(roles),
   [institution |-> "other", classification |-> NoFilter, band |-> NoFilter, maxAge |-> 7],
   [institution |-> NoFilter, classification |-> "likely", band |-> NoFilter, maxAge |-> 7]}

\* Sheets of two rows that differ from a whole one in a cell.
WholeRow ==
  [cod_rec |-> [digits |-> <<3, 0, 1, 2>>, type |-> "text"], letters |-> TRUE,
   nro_cli |-> [digits |-> <<4, 2>>, type |-> "text"], cod_cli |-> 8,
   tid_cli |-> "dni", tid_length |-> 3, fec_ing |-> "iso",
   prd_sbs |-> "seguros", mot_sbs |-> "cobros_indebidos", cnl_ing |-> "agencia",
   cnl_ope |-> "pos", est_rec |-> "en_proceso", tip_res |-> 0,
   ubi_rec |-> [digits |-> <<0, 4, 0, 1>>, type |-> "text"],
   det_rec |-> [length |-> 40, control |-> FALSE]]
Numbered(digits, type) == [digits |-> digits, type |-> type]
RowCells ==
  [cod_rec |-> {Numbered(<<>>, "text"), Numbered(<<1, 2>>, "int"), Numbered(<<1, 2>>, "float"),
                Numbered(<<9, 9, 1, 2, 3, 4, 5, 6, 7, 8, 9, 0>>, "text"),
                Numbered(<<8, 8, 1, 2, 3, 4, 5, 6, 7, 8, 9, 0>>, "int"), Numbered(Zeros(30), "text")},
   nro_cli |-> {Numbered(<<>>, "text"), Numbered(<<7>>, "float")},
   tid_cli |-> {"", "ruc", "libreta electoral"}, tid_length |-> {0, 17, 40},
   fec_ing |-> {"", "words"}, prd_sbs |-> {"", "prestamo"} \cup DOMAIN ProductTerms,
   mot_sbs |-> {"", "fraude"} \cup DOMAIN MotivoTerms,
   cnl_ing |-> {"", "redes"} \cup DOMAIN ChannelTerms,
   cnl_ope |-> {"", "telefono"} \cup DOMAIN MethodTerms,
   est_rec |-> {"", "cerrado"} \cup DOMAIN StatusTerms,
   ubi_rec |-> {Numbered(d, t) : d \in {<<>>, <<0, 0>>, <<1, 5>>, <<0, 1, 0, 1>>, <<1, 5, 0, 1, 0, 1>>},
                                 t \in {"text", "int", "float"}},
   det_rec |-> {[length |-> n, control |-> c] : n \in {0, 1, 10, 8000, 8001}, c \in BOOLEAN}]
Sheets ==
  LET other == UNION {{[WholeRow EXCEPT ![f] = v] : v \in RowCells[f]} : f \in DOMAIN RowCells}
      coded == {[r EXCEPT !.cod_rec = v] : r \in {WholeRow, [WholeRow EXCEPT !.letters = FALSE]},
                                           v \in RowCells.cod_rec}
  IN  {<<a, b>> : a \in coded, b \in coded \cup other}

\* The perimeter: two requests, the first sent twice, to processes whose clocks
\* differ; the sender's clock is ahead, so that a signature is first too early,
\* then timely, then too old; a bucket of one token, refilled in two units.
MCRequestOf == [first |-> "p1", again |-> "p1", other |-> "p2"]
MCOffset == [first |-> 0, again |-> -1, other |-> 0]

AtPerimeter == case = <<"perimeter">>

Examine ==
  /\ begun = 0 /\ configured /\ ~paused /\ case = <<"none">> /\ UNCHANGED vars
  /\ \/ \E s \in Submissions : case' = <<"submission", s>>
     \/ \E ds \in DetectionSets : case' = <<"text", ds>>
     \/ \E loads \in Distributions : case' = <<"cohort", loads>>
     \/ \E runs \in SeqOf(Runs, 3) : case' = <<"finding", runs>>
     \/ \E sheet \in Sheets : case' = <<"sheet", sheet>>

PutAway == case \notin {<<"none">>, <<"perimeter">>} /\ case' = <<"none">> /\ UNCHANGED vars

rulesVars == <<vars, perimeterVars, case>>

RulesInit ==
  /\ Init /\ PerimeterInit
  /\ case \in {<<"none">>, <<"perimeter">>} /\ (AtPerimeter => configured /\ ~paused)
RulesNext ==
  \/ (Examine \/ PutAway) /\ UNCHANGED perimeterVars
  \/ case = <<"none">> /\ Next /\ UNCHANGED <<perimeterVars, case>>
  \/ AtPerimeter /\ PerimeterNext /\ UNCHANGED <<vars, case>>
  \/ AtPerimeter /\ now = MaxTime /\ UNCHANGED rulesVars
RulesSpec == RulesInit /\ [][RulesNext]_rulesVars

-----------------------------------------------------------------------------
(* The properties of the rules, on the case that is examined *)

\* TriageRules: terms of one code are stored, judged and routed alike; and
\* DataQuality: what is stored in place of a value is reported.
SubmissionsReadOpenly ==
  case[1] = "submission" => SynonymsAreOne(case[2]) /\ DefaultsAreVisible(case[2])

\* Redaction: detections are redacted or give way to a kept one.
TextIsRedacted == case[1] = "text" => RedactionCovers(TextLength, case[2])

\* PeerRisk: one more complaint never makes an institution look better.
WorseLooksWorse ==
  case[1] = "cohort" =>
    /\ \A i \in {j \in Cohorts : Assignable(j)} :
         MoreComplaintsNeverBetter(Cohorts, i, Complained(case[2]), 1, 2)
    /\ MoreComplaintsNeverBetter(Seeded, [id |-> 1, head |-> "banco", tier |-> "large"],
                                 Complained(case[2]), 2, 2)

\* SupervisorViews: what the list shows, the drill-down shows.
FindingsAgree ==
  case[1] = "finding" =>
    \A roles \in Readers : \A filters \in Filters(roles) :
      ListAgreesWithDetail(Findings, case[2], roles, filters)

\* AnnexRows: what the sample loader makes of a sheet fits the schemas.
SheetsFit == case[1] = "sheet" => LoadersFitSchemas(case[2])
===============================================================================
