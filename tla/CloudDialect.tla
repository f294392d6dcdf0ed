----------------------------- MODULE CloudDialect ------------------------------
(***************************************************************************)
(* How CloudProvider learns what a deployment accepts                      *)
(* (providers/cloud.py, _create_adapting_dialect).  Deployments disagree   *)
(* on the field that limits the tokens and on whether a temperature may be *)
(* sent; a 400 names one offending parameter, the provider corrects itself *)
(* and asks again, three times at most.  What it has learned is kept on    *)
(* the instance, which every call of the process shares: between a request *)
(* and its answer other calls correct it too.                              *)
(***************************************************************************)
EXTENDS Naturals

CONSTANTS Calls,
          MaxAttempts  \* 3 in the code: two corrections and the call itself

ASSUME DialectAssumption == MaxAttempts \in Nat /\ MaxAttempts >= 3

VARIABLES fields,     \* the token-limit fields the deployment accepts
          tempered,   \* it accepts a temperature
          field,      \* the field the provider would send now
          temperature,\* whether it would send one now
          call,       \* where each completion is
          sent,       \* what its last attempt carried
          attempts,
          overtaken   \* history: the field was changed while it was under way

dialectVars == <<fields, tempered, field, temperature, call, sent, attempts, overtaken>>

Fields == {"max_completion_tokens", "max_tokens"}

\* Mutant: the next attempt carries the temperature again.
TemperatureAgain(f, t) == [field |-> f, temperature |-> TRUE]

Attempt(f, t) == [field |-> f, temperature |-> t]

DialectInit ==
  /\ fields \in SUBSET Fields /\ tempered \in BOOLEAN
  /\ field = "max_completion_tokens" /\ temperature = TRUE
  /\ call = [c \in Calls |-> "idle"]
  /\ sent = [c \in Calls |-> Attempt(field, temperature)]
  /\ attempts = [c \in Calls |-> 0]
  /\ overtaken = {}

\* What the deployment may name in its 400: one of the wrong ones.
Rejected(a) ==
  {p \in {a.field} : p \notin fields}
    \union {p \in {"temperature"} : a.temperature /\ ~tempered}

\* complete(): the first attempt, with what has been learned so far.
Complete(c) ==
  /\ call[c] = "idle"
  /\ call' = [call EXCEPT ![c] = "open"]
  /\ sent' = [sent EXCEPT ![c] = Attempt(field, temperature)]
  /\ attempts' = [attempts EXCEPT ![c] = 1]
  /\ UNCHANGED <<fields, tempered, field, temperature, overtaken>>

Answered(c) ==
  /\ call[c] = "open" /\ Rejected(sent[c]) = {}
  /\ call' = [call EXCEPT ![c] = "answered"]
  /\ UNCHANGED <<fields, tempered, field, temperature, sent, attempts, overtaken>>

\* The other field than the one the provider would send now, which need not be
\* the one that was rejected.
Flipped(f) == CHOOSE g \in Fields : g # f

\* The 400 of one attempt: correct, and ask again at once while tries are left.
Correct(c) ==
  /\ call[c] = "open"
  /\ \E p \in Rejected(sent[c]) :
       LET f == IF p = "temperature" THEN field ELSE Flipped(field)
           t == temperature /\ p # "temperature"
       IN  /\ field' = f /\ temperature' = t
           /\ overtaken' = IF p = "temperature" THEN overtaken
                         ELSE overtaken \union {d \in Calls \ {c} : call[d] = "open"}
           /\ IF attempts[c] < MaxAttempts
                THEN /\ sent' = [sent EXCEPT ![c] = Attempt(f, t)]
                     /\ attempts' = [attempts EXCEPT ![c] = @ + 1]
                     /\ UNCHANGED call
                ELSE /\ call' = [call EXCEPT ![c] = "gave up"]
                     /\ UNCHANGED <<sent, attempts>>
  /\ UNCHANGED <<fields, tempered>>

\* A connection error, a refused credential, another status.
Breaks(c) ==
  /\ call[c] = "open"
  /\ call' = [call EXCEPT ![c] = "failed"]
  /\ UNCHANGED <<fields, tempered, field, temperature, sent, attempts, overtaken>>

DialectNext == \E c \in Calls : Complete(c) \/ Answered(c) \/ Correct(c) \/ Breaks(c)

DialectSpec == DialectInit /\ [][DialectNext]_dialectVars

-----------------------------------------------------------------------------
(* Properties *)

DialectTypeOK ==
  /\ fields \in SUBSET Fields /\ tempered \in BOOLEAN
  /\ field \in Fields /\ temperature \in BOOLEAN
  /\ call \in [Calls -> {"idle", "open", "answered", "gave up", "failed"}]
  /\ sent \in [Calls -> [field : Fields, temperature : BOOLEAN]]
  /\ attempts \in [Calls -> 0..MaxAttempts]
  /\ overtaken \subseteq Calls

\* "One retry is enough to settle each" (providers/cloud.py:324): a completion
\* gives up on its parameters only if the deployment takes neither field, or if
\* another one changed the field between a request of it and the answer.
GivesUpOnlyWhenOvertaken ==
  \A c \in Calls : call[c] = "gave up" => fields = {} \/ c \in overtaken
=============================================================================
