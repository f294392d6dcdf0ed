-------------------------------- MODULE AnnexRows --------------------------------
(***************************************************************************)
(* From a row of the SBS sample workbook to what is sent: the granular     *)
(* body of scripts/demo_load_sbs_sample.py, its batch row, the body of     *)
(* scripts/ingest_sample_dataset.py, and what the two schemas take.        *)
(*                                                                         *)
(* A row's code and ubigeo are cells [digits, type]; other free cells are  *)
(* their length, 0 when empty; coded cells are the term they hold; the     *)
(* narrative is [length, control], counted after line breaks and runs of   *)
(* blanks have become one blank.                                           *)
(***************************************************************************)
EXTENDS Integers, Sequences, SequencesExt, FiniteSets, Functions, FiniteSetsExt

\* Cells of coded columns, and what the batch loader makes of each term.
DocTypes == [dni |-> "DNI", ce |-> "CE", pasaporte |-> "PASAPORTE", ruc |-> "RUC"]
ChannelTerms ==
  [pagina_web |-> "WEB", telefono |-> "TELEFONO", app_movil |-> "APP_MOVIL",
   agencia |-> "AGENCIA", domicilio |-> "AGENCIA", correo |-> "CORREO"]
MethodTerms ==
  [pagina_web |-> "WEB", app_movil |-> "APP_MOVIL", cajero |-> "CAJERO",
   agencia |-> "AGENCIA", domicilio |-> "AGENCIA", pos |-> "POS",
   agente_corresponsal |-> "AGENTE_CORRESPONSAL"]
ProductTerms ==
  [credito_hipotecario |-> "CREDITOS", tarjeta_de_credito |-> "TARJETA_CREDITO",
   cuenta_con_tarjeta_de_debito |-> "TARJETA_DEBITO", cuenta_a_plazo |-> "DEPOSITOS",
   seguros |-> "SEGUROS", afp |-> "AFP_PENSIONES", coopac |-> "COOPAC"]
MotivoTerms ==
  [operaciones_no_reconocidas |-> "OPERACION_NO_RECONOCIDA", cobros_indebidos |-> "COBRO_INDEBIDO",
   inadecuada_informacion |-> "INFORMACION_INCORRECTA",
   incumplimiento_de_clausulas |-> "INCUMPLIMIENTO_CONTRATO",
   disconformidad_por_no_atencion |-> "DEMORA_ATENCION",
   calidad_de_servicio |-> "CALIDAD_SERVICIO", publicidad_enganosa |-> "PUBLICIDAD_ENGANOSA"]
StatusTerms ==
  [atendido |-> "atendido", pendiente |-> "pendiente", anulado |-> "anulado",
   en_proceso |-> "pendiente"]

\* Mutant: a term the table does not know goes out as it is.
LookupOrRaw(term, table, default) == IF term \in DOMAIN table THEN table[term] ELSE term

Lookup(term, table, default) == IF term \in DOMAIN table THEN table[term] ELSE default

-----------------------------------------------------------------------------
(* Cells.                                                                  *)

\* _str writes a float with its decimal, and a number has no leading zeros.
DigitsOf(cell) ==
  LET kept == {i \in DOMAIN cell.digits : \E j \in 1..i : cell.digits[j] # 0}
      number == IF kept = {} THEN <<0>> ELSE SubSeq(cell.digits, Min(kept), Len(cell.digits))
  IN  CASE cell.type = "text"  -> cell.digits
        [] cell.type = "int"   -> number
        [] cell.type = "float" -> number \o <<0>>

LengthOf(cell) == Len(DigitsOf(cell)) + (IF cell.type = "float" THEN 1 ELSE 0)

Zeros(n) == [i \in 1..n |-> 0]
LastOf(s, n) == SubSeq(s, Max({1, Len(s) - n + 1}), Len(s))
Padded(s, n) == Zeros(Max({0, n - Len(s)})) \o s

\* Dates in three formats; the sample loader sends other text as it is.
Dated(day) == day \in {"iso", "day first", "month first"}

-----------------------------------------------------------------------------
(* The batch row.                                                          *)

\* A code without digits is numbered by the row's place.
ComplaintId(code, ordinal) ==
  Padded(LastOf(IF DigitsOf(code) = <<>> THEN Padded(<<ordinal>>, 6) ELSE DigitsOf(code), 10), 6)

AgeBuckets == <<"UNDER_25", "25_34", "35_44", "45_54", "55_64", "OVER_64">>
AgeRange(document) ==
  IF DigitsOf(document) = <<>> THEN "UNKNOWN"
  ELSE AgeBuckets[(Last(DigitsOf(document)) % 6) + 1]

Lima == <<1, 5, 0, 1, 0, 0>>
Ubigeo(cell) ==
  IF Len(DigitsOf(cell)) \in {2, 4, 6}
  THEN DigitsOf(cell) \o Zeros(6 - Len(DigitsOf(cell))) ELSE Lima

\* Line breaks become blanks; a short text gets a sentence of 26 characters.
Description(text) ==
  [length |-> CASE text.length = 0 -> 53
                [] text.length \in 1..9 -> text.length + 27
                [] OTHER -> Min({text.length, 8000}),
   control |-> text.control]

BatchRow(row, ordinal) ==
  [complaint_id |-> ComplaintId(row.cod_rec, ordinal),
   received_date |-> IF Dated(row.fec_ing) THEN "given" ELSE "today",
   complainant_doc_type |-> Lookup(row.tid_cli, DocTypes, "OTRO"),
   product_category |-> Lookup(row.prd_sbs, ProductTerms, "OTRO"),
   channel |-> Lookup(row.cnl_ing, ChannelTerms, "OTRO"),
   motivo_code |-> Lookup(row.mot_sbs, MotivoTerms, "OTRO"),
   description_text |-> Description(row.det_rec),
   complainant_age_range |-> AgeRange(row.nro_cli),
   complainant_district |-> Ubigeo(row.ubi_rec),
   submission_method |-> Lookup(row.cnl_ope, MethodTerms, "OTRO"),
   resolution_status |-> Lookup(row.est_rec, StatusTerms, "pendiente")]

HasCode(row) == LengthOf(row.cod_rec) > 0 \/ row.letters

\* run_small: rows without a code are skipped, and still counted.
Csv(sheet) ==
  [k \in 1..Cardinality({i \in DOMAIN sheet : HasCode(sheet[i])}) |->
     LET i == CHOOSE i \in DOMAIN sheet :
                /\ HasCode(sheet[i])
                /\ Cardinality({j \in 1..i : HasCode(sheet[j])}) = k
     IN  BatchRow(sheet[i], i)]

-----------------------------------------------------------------------------
(* What models/anexo_1a.py takes.                                          *)

Channels == {"AGENCIA", "WEB", "APP_MOVIL", "TELEFONO", "CORREO", "PRESENCIAL_SBS", "OTRO"}
Methods == {"AGENCIA", "CAJERO", "APP_MOVIL", "WEB", "POS", "AGENTE_CORRESPONSAL", "OTRO"}
Products ==
  {"DEPOSITOS", "CREDITOS", "TARJETA_CREDITO", "TARJETA_DEBITO", "SEGUROS",
   "AFP_PENSIONES", "COOPAC", "OTRO"}
Motivos ==
  {"COBRO_INDEBIDO", "OPERACION_NO_RECONOCIDA", "DEMORA_ATENCION", "INFORMACION_INCORRECTA",
   "INCUMPLIMIENTO_CONTRATO", "CALIDAD_SERVICIO", "PUBLICIDAD_ENGANOSA", "OTRO"}

TakenByComplaint(c) ==
  /\ Len(c.complaint_id) \in 6..10
  /\ c.complainant_doc_type \in {"DNI", "CE", "PASAPORTE", "RUC", "OTRO"}
  /\ c.product_category \in Products /\ c.channel \in Channels
  /\ c.motivo_code \in Motivos /\ c.submission_method \in Methods
  /\ 10 <= c.description_text.length /\ c.description_text.length <= 8000
  /\ ~c.description_text.control
  /\ c.complainant_age_range \in ToSet(AgeBuckets) \cup {"UNKNOWN"}
  /\ Len(c.complainant_district) = 6 /\ c.complainant_district # Zeros(6)
  /\ c.resolution_status \in {"pendiente", "atendido", "anulado"}

-----------------------------------------------------------------------------
(* The granular body.                                                      *)

\* DemoSubmissionRequest bounds the length of these.
MaxLength ==
  [institution_complaint_id |-> 64, tid_cli |-> 16, nro_cli |-> 32, cod_cli |-> 32,
   ubigeo |-> 6, narrative |-> 8000, tipo_resolucion |-> 64]

TakenByGranular(body) == \A f \in DOMAIN MaxLength : body[f] <= MaxLength[f]

\* The sample loader sends every cell as it is.
SampleBody(row) ==
  [institution_complaint_id |-> LengthOf(row.cod_rec), tid_cli |-> row.tid_length,
   nro_cli |-> LengthOf(row.nro_cli), cod_cli |-> row.cod_cli,
   ubigeo |-> LengthOf(row.ubi_rec), narrative |-> row.det_rec.length,
   tipo_resolucion |-> row.tip_res]

\* The demo loader cuts two of them down to 16 characters.
GranularBody(row) ==
  [SampleBody(row) EXCEPT !.institution_complaint_id = Min({@, 16}), !.tid_cli = Min({@, 16})]

-----------------------------------------------------------------------------
\* The loader writes rows the schemas take.  A batch row is refused only for
\* a ubigeo of zeros or a control character in the narrative, and two rows of
\* one file get one complaint id only when the last ten digits of their codes
\* agree or one has no digits; and a granular body whose other cells fit is
\* taken however long the code and the document type are.
LoadersFitSchemas(sheet) ==
  /\ \A k \in DOMAIN Csv(sheet) : LET c == Csv(sheet)[k] IN
       TakenByComplaint(c) \/ c.description_text.control \/ c.complainant_district = Zeros(6)
  /\ \A i, j \in DOMAIN sheet : LET a == sheet[i].cod_rec  b == sheet[j].cod_rec IN
       /\ i # j /\ DigitsOf(a) # <<>> /\ DigitsOf(b) # <<>>
       /\ ComplaintId(a, i) = ComplaintId(b, j)
       => LastOf(Padded(DigitsOf(a), 10), 10) = LastOf(Padded(DigitsOf(b), 10), 10)
  /\ \A i \in DOMAIN sheet :
       (\A f \in DOMAIN MaxLength \ {"institution_complaint_id", "tid_cli"} :
          SampleBody(sheet[i])[f] <= MaxLength[f])
       => TakenByGranular(GranularBody(sheet[i]))
=============================================================================
