-------------------------------- MODULE Taxonomy --------------------------------
(***************************************************************************)
(* The field dictionaries of taxonomy/dictionary_v1.py: the surface forms  *)
(* institutions send, and the codes they stand for.                        *)
(*                                                                         *)
(* A term is the key it is looked up by: case, accents and runs of blanks  *)
(* are folded, so terms that differ only in those are one term here; the   *)
(* blanks left are written as hyphens.  The blank term stands for a        *)
(* missing or blank field.                                                 *)
(***************************************************************************)
EXTENDS TLC

Blank == "blank"

\* Each dictionary: the codes, and the other terms that mean them.
Canal ==
  [pagina_web          |-> {"pagina-web-de-la-empresa", "pag.-web-de-la-empresa",
                            "pag-web-de-la-empresa", "pag.-web", "pag-web"},
   telefono            |-> {"via-telefonica", "via-telefonica.", "telefonica"},
   oficina_o_domicilio |-> {"oficina", "oficinas", "domicilio", "oficina-o-domicilio"},
   correo_electronico  |-> {"correo-electronico", "por-correo", "correo"},
   app_movil           |-> {"app-movil", "aplicativo-movil", "aplicativo_movil"},
   cajero              |-> {"cajero-automatico", "cajeros-automaticos",
                            "cajeros-corresponsales"},
   billetera_digital   |-> {"billeteras-digitales", "billetera-digital"},
   plataforma_digital  |-> {"plataforma", "plataforma-digital"},
   no_aplica           |-> {"no-existe-canal-asociado", "no-aplica"},
   whatsapp            |-> {}]

Producto ==
  [credito_consumo     |-> {"credito-de-consumo"},
   credito_pyme        |-> {"creditos-a-pequenas-empresas-y-microempresas"},
   tarjeta_credito     |-> {"tarjeta-de-credito"},
   cuenta_ahorros      |-> {"cuenta-de-ahorros"},
   cuenta_corriente    |-> {"cuenta-corriente"},
   transferencia       |-> {"transferencia-de-fondos"},
   servicios_varios    |-> {"servicios-varios"},
   credito_hipotecario |-> {"credito-hipotecario"},
   deposito_plazo      |-> {"cuenta-a-plazo", "deposito-a-plazo"}]

Motivo ==
  [operaciones_no_reconocidas  |-> {"operaciones-no-reconocidas"},
   transacciones_no_procesadas |-> {"transacciones-no-procesadas-/-mal-realizadas",
                                    "transacciones-no-procesadas"},
   cobros_indebidos            |-> {"cobros-indebidos", "cobro_indebido"},
   informacion_insuficiente    |-> {"inadecuada-o-insuficiente-informacion"},
   problemas_cajeros           |-> {"problemas-relacionados-con-cajeros"},
   error_datos_usuario         |-> {"error-en-los-datos-del-usuario",
                        "error-en-los-datos-del-usuario-registrado-en-la-empresa"},
   incumplimiento_clausulas    |-> {"incumplimiento-de-clausulas"},
   disconformidad_no_atencion  |-> {"disconformidad-por-no-atencion"}]

Estado == [atendido |-> {}, en_proceso |-> {"en-proceso"}, pendiente |-> {}]

TipoResolucion ==
  [favor_usuario |-> {"a-favor-del-usuario", "a-favor-del-cliente"},
   favor_entidad |-> {"a-favor-de-la-entidad"}]

FIELD_DICTIONARIES ==
  [channel_in |-> Canal, channel_operation |-> Canal,
   canal_comunicacion_ampliacion |-> Canal, canal_pago_cliente |-> Canal,
   product |-> Producto, motive |-> Motivo, status |-> Estado,
   tipo_resolucion |-> TipoResolucion]

Means(dictionary, code, term) == term = code \/ term \in dictionary[code]

\* The term is in the field's dictionary.  A blank one never is.
Recognised(f, term) ==
  \E code \in DOMAIN FIELD_DICTIONARIES[f] : Means(FIELD_DICTIONARIES[f], code, term)

\* normalize_value: the code of a recognised term.
Code(f, term) ==
  CHOOSE code \in DOMAIN FIELD_DICTIONARIES[f] : Means(FIELD_DICTIONARIES[f], code, term)

\* normalize_payload, over the fields of a submission.
CodedFields(s) == DOMAIN s \intersect DOMAIN FIELD_DICTIONARIES
UnknownTerms(s) == {f \in CodedFields(s) : s[f] # Blank /\ ~Recognised(f, s[f])}
FlagUnknownTaxonomy(s) == UnknownTerms(s) # {}
Normalizations(s) == {f \in CodedFields(s) : Recognised(f, s[f]) /\ Code(f, s[f]) # s[f]}

===============================================================================
