----------------------------- MODULE ValidationRules -----------------------------
(***************************************************************************)
(* What DIValeVale decides about one record: Pass 1 on its fields          *)
(* (divalevale/pass1_schema.py), Pass 2 on its narrative                   *)
(* (pass2_extraction.py), and the routing of a record and of a batch       *)
(* (routing.py).                                                           *)
(*                                                                         *)
(* A record keeps of each field what the rules tell apart:                 *)
(*   institution, id, date  the field is there (and well-formed)           *)
(*   age        days since captured_at, negative in the future             *)
(*   motivo     "unknown", "money" (an amount is required) or "other"      *)
(*   text       the narrative: "none", "short" or "long"                   *)
(*   amounts    how many amounts the narrative mentions; zero: the amount  *)
(*              it mentions is 0.  textDate: the date it mentions, "glued" *)
(*              when it is part of a longer run of characters              *)
(*   amount     "none", "sent" or "recovered"; 0 counts as "none"          *)
(*   currency   "none", "known" or "other"                                 *)
(***************************************************************************)
EXTENDS Integers, FiniteSets, Sequences

Record ==
  [institution : BOOLEAN, id : BOOLEAN, date : BOOLEAN, age : Int,
   motivo : {"unknown", "money", "other"}, text : {"none", "short", "long"},
   amounts : Nat, zero : BOOLEAN, textDate : {"none", "glued", "clear"},
   amount : {"none", "sent", "recovered"}, currency : {"none", "known", "other"}]

CapturedMaxAge == 90
CapturedMaxAhead == 1

-----------------------------------------------------------------------------
(* Pass 1 *)

HardFailures(r) ==
  {f \in {"institution", "captured_at", "motivo", "id", "currency"} :
     CASE f = "institution" -> ~r.institution
       [] f = "captured_at" -> r.age > CapturedMaxAge \/ r.age < -CapturedMaxAhead
       [] f = "motivo"      -> r.motivo = "unknown"
       [] f = "id"          -> ~r.id
       [] f = "currency"    -> r.amount # "none" /\ r.currency # "known"}

AmountMissing(r) == r.motivo = "money" /\ r.amount = "none"

SoftFailures(r) ==
  {f \in {"narrative", "amount"} :
     IF f = "narrative" THEN r.text # "long" ELSE AmountMissing(r)}

\* The fields Pass 2 may find in the narrative.
RecoverableFields(r) ==
  {f \in {"amount", "date"} :
     IF f = "amount" THEN AmountMissing(r) /\ r.amounts > 0
                     ELSE ~r.date /\ r.textDate # "none"}

Pass1(r) ==
  IF HardFailures(r) # {} THEN "INVALID"
  ELSE IF SoftFailures(r) = {} THEN "VALID"
  ELSE IF RecoverableFields(r) # {} THEN "RECOVERABLE" ELSE "INSUFFICIENT"

-----------------------------------------------------------------------------
(* Pass 2, of a RECOVERABLE record *)

\* What the on-prem model may make of a narrative with several amounts.
ModelAnswers == {"malformed", "unsure", "no amount", "zero", "amount", "amount and currency"}

Ambiguous(r) == "amount" \in RecoverableFields(r) /\ r.amounts > 1

Flagged(r, answer) == Ambiguous(r) /\ answer \in {"malformed", "unsure", "no amount"}

\* Mutant: the model's confidence is not looked at.
AmountBelieved(r, answer) ==
  IF "amount" \notin RecoverableFields(r) THEN r
  ELSE IF r.amounts = 1
    THEN [r EXCEPT !.amount = IF r.zero THEN "none" ELSE "recovered", !.currency = "known"]
  ELSE CASE answer = "amount" -> [r EXCEPT !.amount = "recovered"]
         [] answer \in {"amount and currency", "unsure"} ->
              [r EXCEPT !.amount = "recovered", !.currency = "known"]
         [] OTHER -> r

\* The amount of a single mention carries its currency; the model's answer
\* may leave the currency out, and then the record's own stands.
AmountFound(r, answer) ==
  IF "amount" \notin RecoverableFields(r) THEN r
  ELSE IF r.amounts = 1
    THEN [r EXCEPT !.amount = IF r.zero THEN "none" ELSE "recovered", !.currency = "known"]
  ELSE CASE answer = "amount" -> [r EXCEPT !.amount = "recovered"]
         [] answer = "amount and currency" ->
              [r EXCEPT !.amount = "recovered", !.currency = "known"]
         [] OTHER -> r

\* The detector of Pass 1 sees a date inside a longer run, Pass 2 does not.
DateFound(r) ==
  IF "date" \in RecoverableFields(r) /\ r.textDate = "clear" THEN [r EXCEPT !.date = TRUE] ELSE r

\* _apply_recoveries
Recovered(r, answer) == DateFound(AmountFound(r, answer))

-----------------------------------------------------------------------------
(* Verdicts and routing *)

\* The record Triage would see.
Settled(r, answer) == IF Pass1(r) = "RECOVERABLE" THEN Recovered(r, answer) ELSE r

Tier1Verdict(r, answer) ==
  LET again == Pass1(Settled(r, answer)) IN
  IF Pass1(r) = "RECOVERABLE" /\ again = "RECOVERABLE" /\ Flagged(r, answer)
    THEN "INSUFFICIENT" ELSE again

Tier1Routing(verdict) ==
  CASE verdict = "VALID"   -> "PROCEEDED_TO_TRIAGE"
    [] verdict = "INVALID" -> "REJECTED"
    [] OTHER               -> "FLAGGED_FOR_ENRICHMENT"

\* A batch is decided on the verdicts of Pass 1: one INVALID row or one row
\* in five INSUFFICIENT holds back all of it.
Quarantined(rows) ==
  LET count(v) == Cardinality({i \in DOMAIN rows : Pass1(rows[i]) = v}) IN
  count("INVALID") >= 1 \/ (rows # <<>> /\ 5 * count("INSUFFICIENT") >= Len(rows))

\* The rows a batch gives to Triage: those VALID after Pass 2.
Eligible(rows, answer) ==
  IF Quarantined(rows) THEN {}
  ELSE {i \in DOMAIN rows : Pass1(Settled(rows[i], answer[i])) = "VALID"}

=============================================================================
