----------------------------- MODULE PipelineProofs -----------------------------
(***************************************************************************)
(* Theorems about what the agents and the scripts write.  CloudDialect,    *)
(* for any number of completions: one gives up on its parameters only if   *)
(* it was overtaken.  SocialSignals, for any runs and posts: a run that    *)
(* committed leaves one signal for each post.  DemoIngestion, for any      *)
(* callers and rows: what a run stores comes whole and is announced, each  *)
(* of its rows tells its end, and a complaint is chained once.  Enrichment *)
(* and DemoSeeds, for any runs and complaints: a row is what the last      *)
(* enrichment makes of it, and a complaint has one story.                  *)
(***************************************************************************)
EXTENDS MC_DemoIngestion, FiniteSetTheorems, TLAPS

-----------------------------------------------------------------------------
(* CloudDialect: a completion that nobody overtakes sends the field the    *)
(* provider holds, so each refusal takes away one of at most two wrong     *)
(* parameters: the third attempt is right, unless the deployment takes     *)
(* neither field.                                                          *)

Mild(a) == tempered \/ a.temperature = FALSE

\* What an attempt of a call that nobody has overtaken may still have wrong.
Converges(c) ==
  /\ sent[c].field = field
  /\ attempts[c] \in {1, 2, 3}
  /\ attempts[c] \in {2, 3} => sent[c].field \in fields \/ Mild(sent[c])
  /\ attempts[c] = 3 => sent[c].field \in fields /\ Mild(sent[c])

\* The temperature is never taken up again.
Dropped ==
  \A c \in Calls : call[c] = "open" /\ sent[c].temperature = FALSE => temperature = FALSE

Learning ==
  fields # {} => \A c \in Calls \ overtaken : call[c] = "open" => Converges(c)

\* The inductive invariant.
DialectIInv == DialectTypeOK /\ Dropped /\ Learning /\ GivesUpOnlyWhenOvertaken

USE DialectAssumption DEF Attempt

\* A fresh provider has no completion under way.
LEMMA InitDialect == DialectInit => DialectIInv
  BY DEF DialectInit, DialectIInv, DialectTypeOK, Dropped, Learning, GivesUpOnlyWhenOvertaken,
         Fields

\* There are two fields: the other one of a wrong one is right, if one is.
LEMMA OtherField ==
  ASSUME NEW f \in Fields
  PROVE  Flipped(f) \in Fields /\ Flipped(f) # f
  BY DEF Flipped, Fields

\* The row of a call, and its number of attempts.
LEMMA CallTypes ==
  ASSUME DialectTypeOK, NEW c \in Calls
  PROVE  /\ sent[c] \in [field : Fields, temperature : BOOLEAN]
         /\ sent[c].field \in Fields /\ sent[c].temperature \in BOOLEAN
         /\ attempts[c] \in Nat /\ attempts[c] <= MaxAttempts
         /\ attempts[c] < MaxAttempts => attempts[c] + 1 \in 0..MaxAttempts
<1>1. sent[c] \in [field : Fields, temperature : BOOLEAN] /\ attempts[c] \in 0..MaxAttempts
  BY DEF DialectTypeOK
<1> HIDE DEF Fields
<1> QED BY <1>1

\* A refusal of the temperature: it is dropped, the field is kept.
DropsTemperature(c) ==
  /\ ~tempered /\ sent[c].temperature # FALSE
  /\ field' = field /\ temperature' = FALSE /\ overtaken' = overtaken

\* A refusal of the field: the other one is taken, under everybody's feet.
FlipsField(c) ==
  /\ sent[c].field \notin fields /\ field' = Flipped(field) /\ temperature' = temperature
  /\ overtaken' = overtaken \union {d \in Calls \ {c} : call[d] = "open"}

AsksAgain(c) ==
  /\ attempts[c] < MaxAttempts /\ call' = call
  /\ sent' = [sent EXCEPT ![c] = Attempt(field', temperature')]
  /\ attempts' = [attempts EXCEPT ![c] = attempts[c] + 1]

Stops(c) ==
  /\ ~(attempts[c] < MaxAttempts) /\ call' = [call EXCEPT ![c] = "gave up"]
  /\ sent' = sent /\ attempts' = attempts

\* The 400 of one attempt drops the temperature or flips the field, and asks
\* again or stops (providers/cloud.py, the loop of complete()).
LEMMA Corrections ==
  ASSUME DialectTypeOK, NEW c \in Calls, Correct(c)
  PROVE  /\ call[c] = "open" /\ fields' = fields /\ tempered' = tempered
         /\ DropsTemperature(c) \/ FlipsField(c)
         /\ AsksAgain(c) \/ Stops(c)
<1> DEFINE Field(p) == IF p = "temperature" THEN field ELSE Flipped(field)
           Temp(p) == temperature /\ p # "temperature"
           Left(p) == IF p = "temperature" THEN overtaken
                      ELSE overtaken \union {d \in Calls \ {c} : call[d] = "open"}
<1>1. PICK p \in Rejected(sent[c]) :
        /\ field' = Field(p) /\ temperature' = Temp(p) /\ overtaken' = Left(p)
        /\ IF attempts[c] < MaxAttempts
             THEN /\ sent' = [sent EXCEPT ![c] = Attempt(Field(p), Temp(p))]
                  /\ attempts' = [attempts EXCEPT ![c] = @ + 1]
                  /\ UNCHANGED call
             ELSE /\ call' = [call EXCEPT ![c] = "gave up"]
                  /\ UNCHANGED <<sent, attempts>>
  BY Zenon DEF Correct
<1>2. AsksAgain(c) \/ Stops(c)
  <2> HIDE DEF Field, Temp
  <2> QED BY <1>1 DEF AsksAgain, Stops
<1>3. sent[c].field # "temperature"
  BY CallTypes DEF Fields
<1>4. \/ p = "temperature" /\ ~tempered /\ sent[c].temperature # FALSE
      \/ p # "temperature" /\ sent[c].field \notin fields
  BY <1>1, <1>3 DEF Rejected
<1>5. CASE p = "temperature" /\ ~tempered /\ sent[c].temperature # FALSE
  <2>1. Field(p) = field /\ Temp(p) = FALSE /\ Left(p) = overtaken
    BY <1>5
  <2> HIDE DEF Field, Temp, Left
  <2> QED BY <1>1, <1>2, <1>5, <2>1 DEF Correct, DropsTemperature
<1>6. CASE p # "temperature" /\ sent[c].field \notin fields
  <2>1. /\ Field(p) = Flipped(field) /\ Temp(p) = temperature
        /\ Left(p) = overtaken \union {d \in Calls \ {c} : call[d] = "open"}
    BY <1>6 DEF DialectTypeOK
  <2>2. call[c] = "open" /\ fields' = fields /\ tempered' = tempered
    BY DEF Correct
  <2>3. FlipsField(c)
    BY Zenon, <1>1, <1>6, <2>1 DEF FlipsField
  <2> QED BY <1>2, <2>2, <2>3
<1> QED BY <1>4, <1>5, <1>6

\* Every step of a completion keeps the invariant.
LEMMA StepDialect == DialectIInv /\ [DialectNext]_dialectVars => DialectIInv'
<1> DEFINE Kept == DialectTypeOK /\ Dropped /\ Learning /\ GivesUpOnlyWhenOvertaken
<1> SUFFICES ASSUME DialectTypeOK, Dropped, Learning, GivesUpOnlyWhenOvertaken,
                    [DialectNext]_dialectVars
             PROVE  Kept'
  BY DEF DialectIInv
<1>0. CASE UNCHANGED dialectVars
  BY <1>0 DEF dialectVars, DialectTypeOK, Dropped, Learning, Converges, Mild,
              GivesUpOnlyWhenOvertaken
<1> SUFFICES ASSUME NEW c \in Calls, Complete(c) \/ Answered(c) \/ Correct(c) \/ Breaks(c)
             PROVE  Kept'
  BY <1>0 DEF DialectNext
<1>1. CASE Complete(c)
  <2>1. 1 \in 0..MaxAttempts
    OBVIOUS
  <2>2. DialectTypeOK'
    BY <1>1, <2>1 DEF Complete, DialectTypeOK
  <2>3. /\ sent'[c].field = field /\ sent'[c].temperature = temperature
        /\ attempts'[c] = 1 /\ call'[c] = "open"
        /\ \A d \in Calls \ {c} :
             sent'[d] = sent[d] /\ attempts'[d] = attempts[d] /\ call'[d] = call[d]
    BY <1>1 DEF Complete, DialectTypeOK
  <2>4. /\ field' = field /\ temperature' = temperature /\ fields' = fields
        /\ tempered' = tempered /\ overtaken' = overtaken
    BY <1>1 DEF Complete
  <2>5. Dropped'
    BY <2>3, <2>4 DEF Dropped
  <2>6. Converges(c)'
    BY <2>3, <2>4 DEF Converges
  <2>7. \A d \in Calls \ {c} : Converges(d) => Converges(d)'
    BY <2>3, <2>4 DEF Converges, Mild
  <2>8. Learning'
    BY <2>3, <2>4, <2>6, <2>7 DEF Learning
  <2>9. GivesUpOnlyWhenOvertaken'
    BY <2>3, <2>4 DEF GivesUpOnlyWhenOvertaken
  <2> QED BY <2>2, <2>5, <2>8, <2>9
<1>2. CASE Answered(c) \/ Breaks(c)
  <2>1. /\ field' = field /\ temperature' = temperature /\ fields' = fields
        /\ tempered' = tempered /\ overtaken' = overtaken
        /\ sent' = sent /\ attempts' = attempts
        /\ call' \in [Calls -> {"idle", "open", "answered", "gave up", "failed"}]
        /\ \A d \in Calls : call'[d] \in {"open", "gave up"} => call'[d] = call[d]
    BY <1>2 DEF Answered, Breaks, DialectTypeOK
  <2>2. DialectTypeOK'
    BY <2>1 DEF DialectTypeOK
  <2>3. Dropped'
    BY <2>1 DEF Dropped
  <2>4. Learning'
    BY <2>1 DEF Learning, Converges, Mild
  <2>5. GivesUpOnlyWhenOvertaken'
    BY <2>1 DEF GivesUpOnlyWhenOvertaken
  <2> QED BY <2>2, <2>3, <2>4, <2>5
<1>3. CASE Correct(c)
  <2>1. /\ call[c] = "open" /\ fields' = fields /\ tempered' = tempered
        /\ DropsTemperature(c) \/ FlipsField(c)
        /\ AsksAgain(c) \/ Stops(c)
    BY <1>3, Corrections
  <2>2. field' \in Fields /\ temperature' \in BOOLEAN /\ overtaken' \subseteq Calls
    BY <2>1, OtherField DEF DropsTemperature, FlipsField, DialectTypeOK
  <2>3. \A d \in Calls \ {c} :
          sent'[d] = sent[d] /\ attempts'[d] = attempts[d] /\ call'[d] = call[d]
    BY <2>1 DEF AsksAgain, Stops, DialectTypeOK
  <2>4. /\ AsksAgain(c) => /\ sent'[c].field = field' /\ sent'[c].temperature = temperature'
                           /\ call'[c] = "open"
                           /\ attempts[c] = 1 => attempts'[c] = 2
                           /\ attempts[c] = 2 => attempts'[c] = 3
        /\ Stops(c) => call'[c] = "gave up"
    <3>1. /\ c \in DOMAIN sent /\ c \in DOMAIN attempts /\ c \in DOMAIN call
      BY DEF DialectTypeOK
    <3>2. CASE AsksAgain(c)
      BY <2>1, <3>1, <3>2 DEF AsksAgain, Stops
    <3>3. CASE ~AsksAgain(c)
      BY <3>1, <3>3 DEF Stops
    <3> QED BY <3>2, <3>3
  <2>5. attempts[c] \in {1, 2} => AsksAgain(c)
    <3>1. attempts[c] \in {1, 2} => attempts[c] < MaxAttempts
      OBVIOUS
    <3> QED BY <2>1, <3>1 DEF Stops
  <2>6. DialectTypeOK'
    <3>1. CASE AsksAgain(c)
      <4>1. Attempt(field', temperature') \in [field : Fields, temperature : BOOLEAN]
        BY <2>2
      <4>2. sent' \in [Calls -> [field : Fields, temperature : BOOLEAN]]
        <5> HIDE DEF Attempt
        <5> QED BY <3>1, <4>1 DEF AsksAgain, DialectTypeOK
      <4>3. attempts' \in [Calls -> 0..MaxAttempts]
        BY <3>1, CallTypes DEF AsksAgain, DialectTypeOK
      <4> QED BY <2>1, <2>2, <3>1, <4>2, <4>3 DEF AsksAgain, DialectTypeOK
    <3>2. CASE Stops(c)
      BY <2>1, <2>2, <3>2 DEF Stops, DialectTypeOK
    <3> QED BY <2>1, <3>1, <3>2
  <2>7. Dropped'
    <3>1. temperature = FALSE => temperature' = FALSE
      BY <2>1 DEF DropsTemperature, FlipsField
    <3>2. call'[c] = "open" => sent'[c].temperature = temperature'
      BY <2>1, <2>4
    <3> QED BY <2>3, <3>1, <3>2 DEF Dropped
  <2>8. ASSUME NEW d \in Calls \ {c}, d \notin overtaken', call'[d] = "open", fields # {}
        PROVE  Converges(d)'
    <3>1. d \notin overtaken /\ call[d] = "open" /\ field' = field
      BY <2>1, <2>3, <2>8 DEF DropsTemperature, FlipsField
    <3>2. Converges(d)
      BY <2>8, <3>1 DEF Learning
    <3> QED BY <2>1, <2>3, <3>1, <3>2 DEF Converges, Mild
  <2>9. ASSUME c \notin overtaken, fields # {}
        PROVE  AsksAgain(c) /\ Converges(c)'
    <3>1. sent[c].field = field /\ attempts[c] \in {1, 2, 3}
      BY <2>1, <2>9 DEF Learning, Converges
    <3>2. /\ attempts[c] \in {2, 3} => sent[c].field \in fields \/ Mild(sent[c])
          /\ attempts[c] = 3 => sent[c].field \in fields /\ Mild(sent[c])
      BY <2>1, <2>9 DEF Learning, Converges
    <3>3. CASE DropsTemperature(c)
      <4>1. ~Mild(sent[c])
        BY <3>3 DEF DropsTemperature, Mild
      <4>2. attempts[c] \in {1, 2} /\ (attempts[c] = 2 => sent[c].field \in fields)
        BY <3>1, <3>2, <4>1
      <4>3. AsksAgain(c)
        BY <2>5, <4>2
      <4>4. sent'[c].field = field /\ sent'[c].temperature = FALSE /\ field' = field
        BY <2>4, <3>3, <4>3 DEF DropsTemperature
      <4>5. Mild(sent[c])'
        BY <4>4 DEF Mild
      <4>6. fields' = fields
        BY <2>1
      <4>7. CASE attempts[c] = 1
        <5>1. attempts'[c] = 2
          BY <2>4, <4>3, <4>7
        <5> QED BY <4>3, <4>4, <4>5, <5>1 DEF Converges
      <4>8. CASE attempts[c] = 2
        <5>1. attempts'[c] = 3 /\ sent'[c].field \in fields'
          BY <2>4, <3>1, <4>2, <4>3, <4>4, <4>6, <4>8
        <5> QED BY <4>3, <4>4, <4>5, <5>1 DEF Converges
      <4> QED BY <4>2, <4>7, <4>8
    <3>4. CASE FlipsField(c)
      <4>1. attempts[c] \in {1, 2} /\ (attempts[c] = 2 => Mild(sent[c]))
        BY <3>1, <3>2, <3>4 DEF FlipsField
      <4>2. field' \in fields
        <5>1. /\ field \in Fields /\ fields \subseteq Fields
              /\ fields # {} /\ field \notin fields /\ field' = Flipped(field)
          BY <2>9, <3>1, <3>4 DEF FlipsField, DialectTypeOK
        <5>2. Flipped(field) \in Fields /\ Flipped(field) # field
          BY <5>1, OtherField
        <5>3. PICK g \in fields : TRUE
          BY <5>1
        <5>4. g \in Fields /\ g # field
          BY <5>1, <5>3
        <5>5. g = Flipped(field)
          BY <5>1, <5>2, <5>4 DEF Fields
        <5> QED BY <5>1, <5>3, <5>5
      <4>3. AsksAgain(c)
        BY <2>5, <4>1
      <4>4. Mild(sent[c]) => Mild(sent[c])'
        BY <2>1, <2>4, <3>4, <4>3 DEF FlipsField, Dropped, Mild
      <4>5. sent'[c].field = field' /\ sent'[c].field \in fields'
        BY <2>1, <2>4, <4>2, <4>3
      <4>6. CASE attempts[c] = 1
        <5>1. attempts'[c] = 2
          BY <2>4, <4>3, <4>6
        <5> QED BY <4>3, <4>5, <5>1 DEF Converges
      <4>7. CASE attempts[c] = 2
        <5>1. attempts'[c] = 3 /\ Mild(sent[c])'
          BY <2>4, <4>1, <4>3, <4>4, <4>7
        <5> QED BY <4>3, <4>5, <5>1 DEF Converges
      <4> QED BY <4>1, <4>6, <4>7
    <3> QED BY <2>1, <3>3, <3>4
  <2>10. overtaken \subseteq overtaken'
    BY <2>1 DEF DropsTemperature, FlipsField
  <2>11. Learning'
    BY <2>1, <2>8, <2>9, <2>10 DEF Learning
  <2>12. GivesUpOnlyWhenOvertaken'
    <3>1. call'[c] = "gave up" => fields = {} \/ c \in overtaken
      BY <2>4, <2>9
    <3> QED BY <2>1, <2>3, <2>10, <3>1 DEF GivesUpOnlyWhenOvertaken
  <2> QED BY <2>6, <2>7, <2>11, <2>12
<1> QED BY <1>1, <1>2, <1>3

\* A completion gives up on its parameters only when the deployment takes neither
\* field or another completion changed the field meanwhile
\* (providers/cloud.py, _create_adapting_dialect).
THEOREM DialectSettles == DialectSpec => []GivesUpOnlyWhenOvertaken
<1>1. DialectSpec => []DialectIInv
  BY InitDialect, StepDialect, PTL DEF DialectSpec
<1>2. DialectIInv => GivesUpOnlyWhenOvertaken
  BY DEF DialectIInv
<1> QED BY <1>1, <1>2, PTL

-----------------------------------------------------------------------------
(* SocialSignals: runs that overlap store each post once.                  *)

SocialTypes ==
  /\ place \in [Jobs -> {"next", "taking", "inserting", "done", "failed"}]
  /\ fetched \in [Jobs -> SUBSET Posts] /\ missing \in [Jobs -> SUBSET Posts]
  /\ due \in [Jobs -> SUBSET Posts] /\ DOMAIN inserted = Jobs /\ DOMAIN asked = Jobs

\* A row is the signal of a post that was given.
RowsAreSignals ==
  /\ \A s \in signals : \E k \in Jobs, p \in Posts : s = Signal(k, p)
  /\ \A j \in Jobs : \A s \in inserted[j] : \E p \in Posts : s = Signal(j, p)

\* The unique index, of what is committed and of what waits to be.
IndexHolds ==
  /\ \A s, t \in signals : s.post = t.post => s = t
  /\ \A j \in Jobs : \A s \in inserted[j] : \A t \in signals : s.post # t.post
  /\ \A j, k \in Jobs : \A s \in inserted[j], t \in inserted[k] : s.post = t.post => j = k /\ s = t

\* A post a run is about to insert is none it has inserted.
MissingIsNew ==
  \A j \in Jobs : place[j] = "inserting" =>
    \A p \in missing[j] : \A s \in inserted[j] : s.post # p.id

\* A run loses no post: it has still to look at it, is inserting it, or it has a signal.
StoredFor(j, p) == \E s \in signals \union inserted[j] : s.post = p.id
NoneLost ==
  \A j \in Jobs : place[j] # "failed" =>
    /\ place[j] \in {"next", "done"} => fetched[j] = {}
    /\ \A p \in due[j] :
         p \in fetched[j] \/ (place[j] = "inserting" /\ p \in missing[j]) \/ StoredFor(j, p)

DoneHoldsNothing == \A j \in Jobs : place[j] \in {"done", "failed"} => inserted[j] = {}

SocialInv ==
  /\ SocialTypes /\ RowsAreSignals /\ IndexHolds /\ MissingIsNew /\ NoneLost /\ DoneHoldsNothing

\* Nothing is stored or asked before the first step.
LEMMA SocialBegins == SocialInit => SocialInv
  BY DEF SocialInit, SocialInv, SocialTypes, RowsAreSignals, IndexHolds, MissingIsNew, NoneLost,
         DoneHoldsNothing

\* A run that fails, and whatever it had inserted with it, disturbs nobody.
LEMMA RollbackKeeps ==
  ASSUME SocialInv, NEW j \in Jobs, RollsBack(j), signals' = signals, due' = due, fetched' = fetched,
         asked' = asked, missing' \in [Jobs -> SUBSET Posts],
         \A k \in Jobs : k # j => missing'[k] = missing[k]
  PROVE  SocialInv'
<1>1. /\ place' = [place EXCEPT ![j] = "failed"] /\ inserted' = [inserted EXCEPT ![j] = {}]
  BY DEF RollsBack, To
<1>2. /\ place'[j] = "failed" /\ inserted'[j] = {}
      /\ \A k \in Jobs : k # j => place'[k] = place[k] /\ inserted'[k] = inserted[k]
  BY <1>1 DEF SocialInv, SocialTypes
<1>3. SocialTypes'
  BY <1>1 DEF SocialInv, SocialTypes
<1>4. \A k \in Jobs : inserted'[k] \subseteq inserted[k]
  BY <1>2
<1>5. RowsAreSignals' /\ IndexHolds'
  BY <1>4 DEF SocialInv, RowsAreSignals, IndexHolds
<1>6. MissingIsNew'
  BY <1>2 DEF SocialInv, MissingIsNew
<1>7. NoneLost' /\ DoneHoldsNothing'
  BY <1>2 DEF SocialInv, NoneLost, DoneHoldsNothing, StoredFor
<1> QED
  BY <1>3, <1>5, <1>6, <1>7 DEF SocialInv

\* A step that inserts nothing leaves the rows and the index alone.
LEMMA RowsLeftAlone ==
  ASSUME SocialInv, signals' = signals, inserted' = inserted
  PROVE  RowsAreSignals' /\ IndexHolds'
  BY DEF SocialInv, RowsAreSignals, IndexHolds

\* What an adapter gives is to be looked at.
LEMMA FetchKeeps ==
  ASSUME SocialInv, NEW j \in Jobs, Fetch(j)
  PROVE  SocialInv'
<1>1. /\ place[j] = "next" /\ place' = [place EXCEPT ![j] = "taking"]
      /\ fetched' = [fetched EXCEPT ![j] = Given]
      /\ due' = [due EXCEPT ![j] = due[j] \union Given]
      /\ asked' = [asked EXCEPT ![j] = asked[j] + 1]
      /\ signals' = signals /\ missing' = missing /\ inserted' = inserted
  BY DEF Fetch, AtAdapter, To
<1>2. Given \subseteq Posts
  BY DEF Given
<1> HIDE DEF Given
<1>3. SocialTypes'
  BY <1>1, <1>2 DEF SocialInv, SocialTypes
<1>4. /\ place'[j] = "taking" /\ fetched'[j] = Given /\ due'[j] = due[j] \union Given
      /\ \A k \in Jobs : k # j => place'[k] = place[k] /\ fetched'[k] = fetched[k] /\ due'[k] = due[k]
  BY <1>1 DEF SocialInv, SocialTypes
<1>5. \A p \in due[j] : StoredFor(j, p)
  BY <1>1 DEF SocialInv, NoneLost
<1>6. NoneLost'
  BY <1>1, <1>4, <1>5 DEF SocialInv, NoneLost, StoredFor
<1>7. MissingIsNew' /\ DoneHoldsNothing'
  BY <1>1, <1>4 DEF SocialInv, MissingIsNew, DoneHoldsNothing
<1> QED
  BY <1>3, <1>6, <1>7, <1>1, RowsLeftAlone DEF SocialInv

\* A post looked at has a signal, or is the one to insert.
LEMMA LookKeeps ==
  ASSUME SocialInv, NEW j \in Jobs, Look(j)
  PROVE  SocialInv'
<1>1. place[j] = "taking" /\ signals' = signals /\ asked' = asked /\ inserted' = inserted /\ due' = due
  BY DEF Look
<1>2. PICK p \in fetched[j] :
        /\ fetched' = [fetched EXCEPT ![j] = fetched[j] \ {p}]
        /\ \/ StoredFor(j, p) /\ place' = place /\ missing' = missing
           \/ /\ ~StoredFor(j, p)
              /\ missing' = [missing EXCEPT ![j] = {p}] /\ place' = [place EXCEPT ![j] = "inserting"]
  BY DEF Look, To, StoredFor
<1>3. p \in Posts
  BY <1>2 DEF SocialInv, SocialTypes
<1>4. SocialTypes'
  BY <1>1, <1>2, <1>3 DEF SocialInv, SocialTypes
<1>5. /\ fetched'[j] = fetched[j] \ {p}
      /\ \A k \in Jobs : k # j => place'[k] = place[k] /\ fetched'[k] = fetched[k] /\ missing'[k] = missing[k]
      /\ \/ StoredFor(j, p) /\ place'[j] = "taking"
         \/ ~StoredFor(j, p) /\ place'[j] = "inserting" /\ missing'[j] = {p}
  BY <1>1, <1>2 DEF SocialInv, SocialTypes
<1>6. MissingIsNew'
  BY <1>1, <1>5 DEF SocialInv, MissingIsNew, StoredFor
<1>7. NoneLost'
  BY <1>1, <1>5 DEF SocialInv, NoneLost, StoredFor
<1>8. DoneHoldsNothing'
  BY <1>1, <1>5 DEF SocialInv, DoneHoldsNothing
<1> QED
  BY <1>1, <1>4, <1>6, <1>7, <1>8, RowsLeftAlone DEF SocialInv

\* The index lets a row in whose post no other run holds and no commit has.
LEMMA InsertKeepsIndex ==
  ASSUME SocialInv, NEW j \in Jobs, Insert(j)
  PROVE  SocialInv'
<1> DEFINE new == {Signal(j, p) : p \in missing[j]}
<1>1. /\ place[j] = "inserting" /\ \A k \in Jobs : ~WaitsFor(j, k)
      /\ missing' = [missing EXCEPT ![j] = {}]
      /\ signals' = signals /\ asked' = asked /\ fetched' = fetched /\ due' = due
  BY DEF Insert
<1>2. CASE \E p \in missing[j], s \in signals : s.post = p.id
  <2>1. RollsBack(j)
    BY <1>2 DEF Insert
  <2>2. missing' \in [Jobs -> SUBSET Posts] /\ \A k \in Jobs : k # j => missing'[k] = missing[k]
    BY <1>1 DEF SocialInv, SocialTypes
  <2> QED
    BY <1>1, <2>1, <2>2, RollbackKeeps
<1>3. CASE ~ \E p \in missing[j], s \in signals : s.post = p.id
  <2>1. /\ inserted' = [inserted EXCEPT ![j] = inserted[j] \union new]
        /\ place' = [place EXCEPT ![j] = "taking"]
    BY <1>3 DEF Insert, To
  <2>2. /\ place'[j] = "taking" /\ missing'[j] = {} /\ inserted'[j] = inserted[j] \union new
        /\ \A k \in Jobs : k # j => place'[k] = place[k] /\ missing'[k] = missing[k]
                                    /\ inserted'[k] = inserted[k]
    BY <1>1, <2>1 DEF SocialInv, SocialTypes
  <2>3. SocialTypes'
    BY <1>1, <2>1 DEF SocialInv, SocialTypes
  <2>4. \A s \in new : \E p \in missing[j] : s = Signal(j, p) /\ s.post = p.id /\ p \in Posts
    BY DEF Signal, SocialInv, SocialTypes
  <2>5. \A p \in missing[j] : Signal(j, p) \in new /\ Signal(j, p).post = p.id
    BY DEF Signal
  <2>6. \A s, t \in new : s.post = t.post => s = t
    BY <2>4, SocialAssumption
  <2>7. /\ \A s \in new : \A t \in signals : s.post # t.post
        /\ \A s \in new : \A t \in inserted[j] : s.post # t.post
        /\ \A s \in new : \A k \in Jobs : k # j => \A t \in inserted[k] : s.post # t.post
    <3>1. \A s \in new : \A t \in signals : s.post # t.post
      BY <1>3, <2>4
    <3>2. \A s \in new : \A t \in inserted[j] : s.post # t.post
      BY <1>1, <2>4 DEF SocialInv, MissingIsNew
    <3>3. \A s \in new : \A k \in Jobs : k # j => \A t \in inserted[k] : s.post # t.post
      BY <1>1, <2>4 DEF WaitsFor, Holds
    <3> QED
      BY <3>1, <3>2, <3>3
  <2> HIDE DEF new
  <2>8. RowsAreSignals'
    BY <1>1, <2>2, <2>4 DEF SocialInv, RowsAreSignals
  <2>9. IndexHolds'
    BY <1>1, <2>2, <2>6, <2>7 DEF SocialInv, IndexHolds
  <2>10. MissingIsNew' /\ DoneHoldsNothing'
    BY <2>2 DEF SocialInv, MissingIsNew, DoneHoldsNothing
  <2>11. NoneLost'
    BY <1>1, <2>2, <2>5 DEF SocialInv, NoneLost, StoredFor
  <2> QED
    BY <2>3, <2>8, <2>9, <2>10, <2>11 DEF SocialInv
<1> QED
  BY <1>2, <1>3

\* A commit moves rows that no other run holds into the table.
LEMMA CommitKeeps ==
  ASSUME SocialInv, NEW j \in Jobs, CommitSignals(j)
  PROVE  SocialInv'
<1>1. /\ place[j] = "next" /\ signals' = signals \union inserted[j]
      /\ inserted' = [inserted EXCEPT ![j] = {}] /\ place' = [place EXCEPT ![j] = "done"]
      /\ asked' = asked /\ fetched' = fetched /\ missing' = missing /\ due' = due
  BY DEF CommitSignals, To
<1>2. /\ place'[j] = "done" /\ inserted'[j] = {}
      /\ \A k \in Jobs : k # j => place'[k] = place[k] /\ inserted'[k] = inserted[k]
  BY <1>1 DEF SocialInv, SocialTypes
<1>3. SocialTypes'
  BY <1>1 DEF SocialInv, SocialTypes
<1>4. RowsAreSignals'
  BY <1>1, <1>2 DEF SocialInv, RowsAreSignals
<1>5. IndexHolds'
  BY <1>1, <1>2 DEF SocialInv, IndexHolds
<1>6. MissingIsNew' /\ DoneHoldsNothing'
  BY <1>1, <1>2 DEF SocialInv, MissingIsNew, DoneHoldsNothing
<1>7. NoneLost'
  BY <1>1, <1>2 DEF SocialInv, NoneLost, StoredFor
<1> QED
  BY <1>3, <1>4, <1>5, <1>6, <1>7 DEF SocialInv

\* A run goes to its next adapter when it has looked at everything.
LEMMA EndAdapterKeeps ==
  ASSUME SocialInv, NEW j \in Jobs, EndAdapter(j)
  PROVE  SocialInv'
<1>1. /\ place[j] = "taking" /\ fetched[j] = {} /\ place' = [place EXCEPT ![j] = "next"]
      /\ signals' = signals /\ asked' = asked /\ fetched' = fetched /\ missing' = missing
      /\ inserted' = inserted /\ due' = due
  BY DEF EndAdapter, To
<1>2. place'[j] = "next" /\ \A k \in Jobs : k # j => place'[k] = place[k]
  BY <1>1 DEF SocialInv, SocialTypes
<1>3. SocialTypes'
  BY <1>1 DEF SocialInv, SocialTypes
<1>4. MissingIsNew' /\ NoneLost' /\ DoneHoldsNothing'
  BY <1>1, <1>2 DEF SocialInv, MissingIsNew, NoneLost, StoredFor, DoneHoldsNothing
<1> QED
  BY <1>1, <1>3, <1>4, RowsLeftAlone DEF SocialInv

\* Every step of every run keeps the invariant.
LEMMA SocialStep ==
  ASSUME SocialInv, [SocialNext]_socialVars
  PROVE  SocialInv'
<1>1. ASSUME signals' = signals, place' = place, asked' = asked, fetched' = fetched,
             missing' = missing, inserted' = inserted, due' = due
      PROVE  SocialInv'
  BY <1>1 DEF SocialInv, SocialTypes, RowsAreSignals, IndexHolds, MissingIsNew, NoneLost, StoredFor,
              DoneHoldsNothing
<1>2. CASE NextDay \/ UNCHANGED socialVars
  BY <1>1, <1>2 DEF NextDay, socialVars
<1>3. ASSUME NEW j \in Jobs, StubRaises(j) \/ Aborted(j) PROVE SocialInv'
  <2>1. missing \in [Jobs -> SUBSET Posts]
    BY DEF SocialInv, SocialTypes
  <2> QED
    BY <1>3, <2>1, RollbackKeeps DEF StubRaises, Aborted
<1> QED
  BY <1>2, <1>3, FetchKeeps, LookKeeps, InsertKeepsIndex, CommitKeeps, EndAdapterKeeps DEF SocialNext

\* What the invariant says of a run that has committed.
LEMMA SignalsAreWhole == SocialInv => EveryPostOneSignal
<1> SUFFICES ASSUME SocialInv, NEW j \in Jobs, place[j] = "done", NEW p \in due[j]
             PROVE  LET of == {s \in signals : s.post = p.id} IN
                    /\ Cardinality(of) = 1
                    /\ \A s \in of :
                         /\ \A w \in s.words : ~w.handle
                         /\ \A a \in DOMAIN AliasOf :
                              (\E w \in p.words : w.text = a) => AliasOf[a] \in s.institutions
  BY DEF EveryPostOneSignal
<1> DEFINE of == {s \in signals : s.post = p.id}
<1>1. p \in Posts
  BY DEF SocialInv, SocialTypes
<1>2. PICK t \in signals : t.post = p.id
  BY DEF SocialInv, NoneLost, StoredFor, DoneHoldsNothing
<1>3. of = {t}
  BY <1>2 DEF SocialInv, IndexHolds
<1>4. Cardinality(of) = 1
  BY <1>3, FS_Singleton
<1>5. PICK k \in Jobs : t = Signal(k, p)
  <2>1. PICK k \in Jobs, q \in Posts : t = Signal(k, q)
    BY <1>2 DEF SocialInv, RowsAreSignals
  <2>2. q.id = p.id
    BY <1>2, <2>1 DEF Signal
  <2> QED
    BY <1>1, <2>1, <2>2, SocialAssumption
<1>6. t.words = Anonymized(p) /\ t.institutions = Institutions(p)
  BY <1>5 DEF Signal
<1>7. \A w \in t.words : ~w.handle
  BY <1>6 DEF Anonymized
<1>8. ASSUME NEW a \in DOMAIN AliasOf, NEW w \in p.words, w.text = a
      PROVE  AliasOf[a] \in t.institutions
  BY <1>6, <1>8 DEF Institutions
<1> QED
  BY <1>3, <1>4, <1>7, <1>8

\* After a run that committed every post has one signal, whatever runs overlapped.
THEOREM PostsHaveSignals == SocialSpec => []EveryPostOneSignal
  BY SocialBegins, SocialStep, SignalsAreWhole, PTL DEF SocialSpec

-----------------------------------------------------------------------------
(* DemoIngestion: what a chain leaves in its transaction.                  *)

RunRow == [stage : StageNames \union {"ingestion"}, status : Terminal \union {"in_progress"},
           earned : BOOLEAN]

AgentTypes ==
  /\ stage \in [Callers -> StageNames \union {"none"}]
  /\ step \in [Callers -> {"idle", "start", "loop", "finish", "raised", "ended"}]
  /\ turn \in [Callers -> Nat] /\ cursor \in [Callers -> Nat]
  /\ answered \in [Callers -> BOOLEAN] /\ clean \in [Callers -> BOOLEAN]
  /\ confident \in [Callers -> BOOLEAN] /\ restarted \in [Callers -> BOOLEAN]
  /\ aborted \in [Callers -> BOOLEAN]
  /\ rows \in [Callers -> SUBSET RunRow]

ChainTypes ==
  /\ AgentTypes
  /\ pc \in [Callers -> {"new", "raw", "insert", "record", "agents", "publish", "complete", "take"}
                        \union Over]
  /\ DOMAIN complaint = Callers
  /\ tries \in [Submissions -> Nat]
  /\ DOMAIN raw = Submissions /\ DOMAIN slot = Submissions

InLoop(a) == step[a] \in {"loop", "finish"}

\* An agent that has not begun, or is over, has nothing of a loop.
Fresh(a) ==
  /\ turn[a] = 0 /\ cursor[a] = 0 /\ ~answered[a] /\ clean[a] /\ ~restarted[a]

\* A script nobody started over is heard turn by turn, and to its end.
Heard(a) ==
  /\ step[a] = "loop" /\ Replays(a) /\ ~restarted[a] =>
       cursor[a] = turn[a] /\ cursor[a] <= ToolTurns(stage[a])
  /\ step[a] = "finish" /\ Replays(a) => answered[a] \/ restarted[a]

\* Only the row of the agent at work is open, or of the one that raised.
RowsOpen(a) ==
  \A r \in rows[a] : r.status \in Terminal \/ InLoop(a) \/ step[a] = "raised"
OneOpen(a) == InLoop(a) => \A r \in rows[a] : r.status \in Terminal \/ r.stage = stage[a]
Earned(r) == r.status = "success" /\ r.stage # "correlator" => r.earned
RowsEarned(a) == \A r \in rows[a] : Earned(r)

ChainLocal(a) ==
  /\ pc[a] = "agents" <=> step[a] # "idle"
  /\ step[a] \in {"start", "loop", "finish"} => stage[a] \in StageNames
  /\ ~InLoop(a) => Fresh(a)
  /\ Heard(a) /\ RowsOpen(a) /\ OneOpen(a) /\ RowsEarned(a)
  /\ step[a] = "ended" => rows[a] # {}

ChainInv == ChainTypes /\ (\A a \in Callers : ChainLocal(a)) /\ RunsTellTheirEnd

\* A caller another caller's step does not touch.
Untouched(b) ==
  /\ provider' = provider /\ pc'[b] = pc[b] /\ step'[b] = step[b] /\ stage'[b] = stage[b]
  /\ turn'[b] = turn[b] /\ cursor'[b] = cursor[b] /\ answered'[b] = answered[b]
  /\ clean'[b] = clean[b] /\ restarted'[b] = restarted[b] /\ rows'[b] = rows[b]

\* What one agent's step leaves of the others.
OthersUntouched(a) == \A b \in Callers : b # a => Untouched(b)

\* A caller that a step does not touch keeps its part of the invariant.
LEMMA UntouchedLocal ==
  ASSUME NEW b \in Callers, ChainLocal(b), Untouched(b)
  PROVE  ChainLocal(b)'
  BY DEF ChainLocal, Untouched, InLoop, Fresh, Heard, RowsOpen, OneOpen, RowsEarned, Replays

\* The four agents have names, and none is called "ingestion".
LEMMA StageFacts == StageNames = {"triage", "investigation", "synthesis", "correlator"}
<1>1. /\ Stages[1] = "triage" /\ Stages[2] = "investigation" /\ Stages[3] = "synthesis"
      /\ Stages[4] = "correlator" /\ 1..4 = {1, 2, 3, 4}
  BY DEF Stages
<1> QED
  BY <1>1 DEF StageNames

\* A row of the agent at work has its fields.
LEMMA RowIsRunRow ==
  ASSUME AgentTypes, NEW a \in Callers, stage[a] \in StageNames,
         NEW status \in Terminal \union {"in_progress"}
  PROVE  /\ Row(a, status) \in RunRow
         /\ Row(a, status).stage = stage[a] /\ Row(a, status).status = status
         /\ Row(a, status).earned = (clean[a] /\ (Replays(a) => answered[a] \/ restarted[a]))
  BY DEF Row, RunRow, AgentTypes

\* EndLoop leaves the caller fresh and the others as they are.
LEMMA EndLoopFresh ==
  ASSUME AgentTypes, NEW a \in Callers, EndLoop(a)
  PROVE  /\ turn'[a] = 0 /\ cursor'[a] = 0 /\ answered'[a] = FALSE /\ clean'[a] = TRUE
         /\ restarted'[a] = FALSE
         /\ \A b \in Callers : b # a => turn'[b] = turn[b] /\ cursor'[b] = cursor[b]
         /\ \A b \in Callers : b # a => answered'[b] = answered[b] /\ clean'[b] = clean[b]
         /\ \A b \in Callers : b # a => restarted'[b] = restarted[b]
         /\ turn' \in [Callers -> Nat] /\ cursor' \in [Callers -> Nat]
         /\ answered' \in [Callers -> BOOLEAN] /\ clean' \in [Callers -> BOOLEAN]
         /\ confident' \in [Callers -> BOOLEAN] /\ restarted' \in [Callers -> BOOLEAN]
  BY DEF AgentTypes, EndLoop

\* A step that raises: the loop is over, the rows stay as they are or one is closed.
LEMMA RaiseKeeps ==
  ASSUME AgentTypes, NEW a \in Callers, ChainLocal(a), pc[a] = "agents", pc' = pc,
         step' = [step EXCEPT ![a] = "raised"], EndLoop(a), rows' = rows,
         provider' = provider, stage' = stage, aborted' = aborted
  PROVE  AgentTypes' /\ ChainLocal(a)' /\ OthersUntouched(a)
<1>1. step'[a] = "raised" /\ \A b \in Callers : b # a => step'[b] = step[b]
  BY DEF AgentTypes
<1>2. AgentTypes'
  BY EndLoopFresh DEF AgentTypes
<1>3. ChainLocal(a)'
  BY <1>1, EndLoopFresh DEF ChainLocal, InLoop, Fresh, Heard, RowsOpen, OneOpen, RowsEarned
<1>4. OthersUntouched(a)
  BY <1>1, EndLoopFresh DEF OthersUntouched, Untouched
<1> QED
  BY <1>2, <1>3, <1>4

\* The rows after the agent closed its own: the others' are terminal.
LEMMA ClosedRows ==
  ASSUME AgentTypes, NEW a \in Callers, ChainLocal(a), InLoop(a), NEW status \in Terminal,
         Earned(Row(a, status))
  PROVE  /\ Closed(a, status) \subseteq RunRow /\ Closed(a, status) # {}
         /\ \A r \in Closed(a, status) : r.status \in Terminal /\ Earned(r)
         /\ \A r \in rows[a] : r.stage # stage[a] => r \in Closed(a, status)
<1>1. stage[a] \in StageNames /\ rows[a] \subseteq RunRow
  BY DEF ChainLocal, InLoop, AgentTypes
<1>2. Row(a, status) \in RunRow /\ Row(a, status).status = status
  BY <1>1, RowIsRunRow
<1>3. \A r \in rows[a] : r.stage # stage[a] => r.status \in Terminal
  BY DEF ChainLocal, OneOpen
<1>4. \A r \in rows[a] : Earned(r)
  BY DEF ChainLocal, RowsEarned
<1> QED
  BY <1>1, <1>2, <1>3, <1>4 DEF Closed

\* An agent whose model fails closes its row, or leaves it open as it raises.
LEMMA ProviderFailsKeeps ==
  ASSUME AgentTypes, NEW a \in Callers, ChainLocal(a), pc[a] = "agents", pc' = pc, ProviderFails(a)
  PROVE  AgentTypes' /\ ChainLocal(a)' /\ OthersUntouched(a)
<1>1. /\ step[a] = "loop" /\ step' = [step EXCEPT ![a] = "raised"] /\ EndLoop(a)
      /\ rows' = [rows EXCEPT ![a] = IF aborted[a] THEN rows[a] ELSE Closed(a, "failed")]
      /\ provider' = provider /\ stage' = stage /\ aborted' = aborted
  BY DEF ProviderFails
<1>2. stage[a] \in StageNames /\ InLoop(a)
  BY <1>1 DEF ChainLocal, InLoop
<1>3. Row(a, "failed").status = "failed"
  BY <1>2, RowIsRunRow DEF Terminal
<1>4. /\ Closed(a, "failed") \subseteq RunRow
      /\ \A r \in Closed(a, "failed") : r.status \in Terminal /\ Earned(r)
  BY <1>2, <1>3, ClosedRows DEF Earned, Terminal
<1>5. rows'[a] \subseteq RunRow /\ \A r \in rows'[a] : Earned(r)
  BY <1>1, <1>4 DEF AgentTypes, ChainLocal, RowsEarned
<1>6. step'[a] = "raised" /\ \A b \in Callers : b # a => step'[b] = step[b] /\ rows'[b] = rows[b]
  BY <1>1 DEF AgentTypes
<1>7. AgentTypes'
  BY <1>1, <1>5, EndLoopFresh DEF AgentTypes
<1>8. ChainLocal(a)'
  BY <1>1, <1>5, <1>6, EndLoopFresh
  DEF ChainLocal, InLoop, Fresh, Heard, RowsOpen, OneOpen, RowsEarned
<1>9. OthersUntouched(a)
  BY <1>1, <1>6, EndLoopFresh DEF OthersUntouched, Untouched
<1> QED
  BY <1>7, <1>8, <1>9

\* An agent that finishes says "success" of what it earned.
LEMMA FinishKeeps ==
  ASSUME AgentTypes, NEW a \in Callers, ChainLocal(a), pc[a] = "agents", pc' = pc, FinishAgent(a)
  PROVE  AgentTypes' /\ ChainLocal(a)' /\ OthersUntouched(a)
<1>1. /\ step[a] = "finish" /\ EndLoop(a)
      /\ rows' = [rows EXCEPT ![a] = Closed(a, FinalStatus(a))]
      /\ stage' = [stage EXCEPT ![a] = NextAgent(a)]
      /\ step' = [step EXCEPT ![a] = IF NextAgent(a) = "none" THEN "ended" ELSE "start"]
      /\ provider' = provider /\ aborted' = aborted
  BY DEF FinishAgent
<1>2. stage[a] \in StageNames /\ InLoop(a)
  BY <1>1 DEF ChainLocal, InLoop
<1>3. NextAgent(a) \in StageNames \union {"none"}
  BY <1>2, StageFacts DEF NextAgent
<1>4. FinalStatus(a) \in Terminal /\ (FinalStatus(a) = "success" => clean[a] \/ stage[a] = "correlator")
  BY DEF FinalStatus, Terminal
<1>5. Earned(Row(a, FinalStatus(a)))
  <2>1. Replays(a) => answered[a] \/ restarted[a]
    BY <1>1 DEF ChainLocal, Heard
  <2> QED
    BY <1>2, <1>4, <2>1, RowIsRunRow DEF Earned
<1>6. /\ Closed(a, FinalStatus(a)) \subseteq RunRow /\ Closed(a, FinalStatus(a)) # {}
      /\ \A r \in Closed(a, FinalStatus(a)) : r.status \in Terminal /\ Earned(r)
  BY <1>2, <1>4, <1>5, ClosedRows
<1> HIDE DEF NextAgent, FinalStatus, Closed
<1>7. /\ rows'[a] = Closed(a, FinalStatus(a)) /\ stage'[a] = NextAgent(a)
      /\ step'[a] = IF NextAgent(a) = "none" THEN "ended" ELSE "start"
      /\ \A b \in Callers : b # a => step'[b] = step[b] /\ rows'[b] = rows[b] /\ stage'[b] = stage[b]
  BY <1>1 DEF AgentTypes
<1>8. AgentTypes'
  BY <1>1, <1>3, <1>6, EndLoopFresh DEF AgentTypes
<1>9. ChainLocal(a)'
  <2>1. step'[a] \in {"ended", "start"} /\ (step'[a] = "start" => stage'[a] \in StageNames)
    BY <1>3, <1>7
  <2>2. rows'[a] # {} /\ \A r \in rows'[a] : r.status \in Terminal /\ Earned(r)
    BY <1>6, <1>7
  <2>3. ~InLoop(a)' /\ Fresh(a)' /\ Heard(a)'
    BY <2>1, <1>1, EndLoopFresh DEF InLoop, Fresh, Heard
  <2>4. RowsOpen(a)' /\ OneOpen(a)' /\ RowsEarned(a)'
    BY <2>2, <2>3 DEF RowsOpen, OneOpen, RowsEarned
  <2> QED
    BY <2>1, <2>2, <2>3, <2>4 DEF ChainLocal
<1>10. OthersUntouched(a)
  BY <1>1, <1>7, EndLoopFresh DEF OthersUntouched, Untouched
<1> QED
  BY <1>8, <1>9, <1>10

\* A script is longer than no loop: a turn of tools does not exhaust an agent that
\* nobody started over.
LEMMA ScriptFits ==
  ASSUME NEW st \in StageNames
  PROVE  ToolTurns(st) \in Nat /\ Bound(st) \in Nat /\ ToolTurns(st) < Bound(st)
  BY PipelineAssumption DEF ToolTurns, Bound

\* A turn of tools moves the script on by as much as the loop.
LEMMA ToolTurnKeeps ==
  ASSUME AgentTypes, NEW a \in Callers, ChainLocal(a), pc[a] = "agents", pc' = pc, ToolTurn(a)
  PROVE  AgentTypes' /\ ChainLocal(a)' /\ OthersUntouched(a)
<1>1. /\ step[a] = "loop" /\ (Replays(a) => cursor[a] < ToolTurns(stage[a]))
      /\ cursor' = [cursor EXCEPT ![a] = IF Replays(a) THEN cursor[a] + 1 ELSE cursor[a]]
      /\ turn' = [turn EXCEPT ![a] = turn[a] + 1]
      /\ step' = [step EXCEPT ![a] = IF turn[a] + 1 = Bound(stage[a]) THEN "finish" ELSE step[a]]
      /\ provider' = provider /\ stage' = stage /\ answered' = answered /\ rows' = rows
      /\ restarted' = restarted
  BY DEF ToolTurn
<1>2. /\ clean' \in [Callers -> BOOLEAN] /\ confident' \in [Callers -> BOOLEAN]
      /\ aborted' \in [Callers -> BOOLEAN]
      /\ \A b \in Callers : b # a => clean'[b] = clean[b]
  <2>1. ToolsRun(a)
    BY DEF ToolTurn
  <2> QED
    BY <2>1 DEF ToolsRun, AgentTypes
<1>3. /\ stage[a] \in StageNames /\ turn[a] \in Nat /\ cursor[a] \in Nat
      /\ ToolTurns(stage[a]) \in Nat /\ Bound(stage[a]) \in Nat /\ ToolTurns(stage[a]) < Bound(stage[a])
  BY <1>1, ScriptFits DEF ChainLocal, AgentTypes
<1>4. /\ cursor'[a] = IF Replays(a) THEN cursor[a] + 1 ELSE cursor[a]
      /\ turn'[a] = turn[a] + 1
      /\ step'[a] = IF turn[a] + 1 = Bound(stage[a]) THEN "finish" ELSE "loop"
      /\ \A b \in Callers : b # a => step'[b] = step[b] /\ turn'[b] = turn[b] /\ cursor'[b] = cursor[b]
  BY <1>1 DEF AgentTypes
<1>5. AgentTypes'
  <2>1. /\ (IF Replays(a) THEN cursor[a] + 1 ELSE cursor[a]) \in Nat /\ turn[a] + 1 \in Nat
        /\ (IF turn[a] + 1 = Bound(stage[a]) THEN "finish" ELSE step[a]) \in {"loop", "finish"}
    BY <1>1, <1>3
  <2>2. cursor' \in [Callers -> Nat] /\ turn' \in [Callers -> Nat]
    BY <1>1, <2>1 DEF AgentTypes
  <2>3. step' \in [Callers -> {"idle", "start", "loop", "finish", "raised", "ended"}]
    BY <1>1, <2>1 DEF AgentTypes
  <2> QED
    BY <1>1, <1>2, <2>2, <2>3 DEF AgentTypes
<1>6. Heard(a)'
  <2>1. Replays(a)' <=> Replays(a)
    BY <1>1 DEF Replays
  <2>2. CASE ~Replays(a) \/ restarted[a]
    BY <1>1, <2>1, <2>2 DEF Heard
  <2>3. CASE Replays(a) /\ ~restarted[a]
    <3>1. cursor[a] = turn[a]
      BY <1>1, <2>3 DEF ChainLocal, Heard
    <3>2. turn[a] + 1 # Bound(stage[a]) /\ cursor[a] + 1 <= ToolTurns(stage[a])
      BY <1>1, <1>3, <2>3, <3>1
    <3>3. step'[a] = "loop" /\ cursor'[a] = turn'[a] /\ cursor'[a] <= ToolTurns(stage[a])
      BY <1>4, <2>3, <3>1, <3>2
    <3> QED
      BY <1>1, <3>3 DEF Heard
  <2> QED
    BY <2>2, <2>3
<1>7. ChainLocal(a)'
  BY <1>1, <1>3, <1>4, <1>6 DEF ChainLocal, InLoop, RowsOpen, OneOpen, RowsEarned
<1>8. OthersUntouched(a)
  BY <1>1, <1>2, <1>4 DEF OthersUntouched, Untouched
<1> QED
  BY <1>5, <1>7, <1>8

\* A turn of text is the script's end, if nobody started it over.
LEMMA TextTurnKeeps ==
  ASSUME AgentTypes, NEW a \in Callers, ChainLocal(a), pc[a] = "agents", pc' = pc, TextTurn(a)
  PROVE  AgentTypes' /\ ChainLocal(a)' /\ OthersUntouched(a)
<1>1. /\ step[a] = "loop" /\ (Replays(a) => cursor[a] >= ToolTurns(stage[a]))
      /\ cursor' = [cursor EXCEPT ![a] = IF Replays(a) THEN cursor[a] + 1 ELSE cursor[a]]
      /\ turn' = [turn EXCEPT ![a] = turn[a] + 1]
      /\ answered' = [answered EXCEPT ![a] = Replays(a) => cursor[a] = ToolTurns(stage[a])]
      /\ step' = [step EXCEPT ![a] = "finish"]
      /\ provider' = provider /\ stage' = stage /\ clean' = clean /\ rows' = rows
      /\ restarted' = restarted /\ confident' = confident /\ aborted' = aborted
  BY DEF TextTurn
<1>3. /\ stage[a] \in StageNames /\ turn[a] \in Nat /\ cursor[a] \in Nat
      /\ ToolTurns(stage[a]) \in Nat
  BY <1>1, ScriptFits DEF ChainLocal, AgentTypes
<1>4. /\ answered'[a] = (Replays(a) => cursor[a] = ToolTurns(stage[a])) /\ step'[a] = "finish"
      /\ \A b \in Callers : b # a => /\ step'[b] = step[b] /\ turn'[b] = turn[b]
                                     /\ cursor'[b] = cursor[b] /\ answered'[b] = answered[b]
  BY <1>1 DEF AgentTypes
<1>5. AgentTypes'
  BY <1>1, <1>3 DEF AgentTypes
<1>6. Heard(a)'
  <2>1. Replays(a)' <=> Replays(a)
    BY <1>1 DEF Replays
  <2>2. Replays(a) /\ ~restarted[a] => cursor[a] = ToolTurns(stage[a])
    BY <1>1, <1>3 DEF ChainLocal, Heard
  <2> QED
    BY <1>1, <1>4, <2>1, <2>2 DEF Heard
<1>7. ChainLocal(a)'
  BY <1>1, <1>3, <1>4, <1>6 DEF ChainLocal, InLoop, RowsOpen, OneOpen, RowsEarned
<1>8. OthersUntouched(a)
  BY <1>1, <1>4 DEF OthersUntouched, Untouched
<1> QED
  BY <1>5, <1>7, <1>8

\* An agent that starts may start the script of others over; they remember it.
LEMMA StartKeeps ==
  ASSUME AgentTypes, NEW a \in Callers, \A b \in Callers : ChainLocal(b), pc[a] = "agents",
         pc' = pc, StartAgent(a)
  PROVE  AgentTypes' /\ \A b \in Callers : ChainLocal(b)'
<1>1. /\ step[a] = "start" /\ step' = [step EXCEPT ![a] = "loop"]
      /\ rows' = [rows EXCEPT ![a] = rows[a] \union {Row(a, "in_progress")}]
      /\ provider' = provider /\ stage' = stage /\ turn' = turn /\ answered' = answered
      /\ clean' = clean /\ confident' = confident /\ aborted' = aborted
  BY DEF StartAgent
<1>2. /\ \A b \in Callers : cursor'[b] = cursor[b] \/ cursor'[b] = 0
      /\ \A b \in Callers : restarted'[b] = (restarted[b] \/ cursor'[b] # cursor[b])
      /\ cursor' \in [Callers -> Nat] /\ restarted' \in [Callers -> BOOLEAN]
      /\ cursor'[a] = 0 \/ (cursor[a] = 0 /\ cursor'[a] = cursor[a])
  <2>1. /\ Positions(a) \in [Callers -> Nat]
        /\ \A b \in Callers : Positions(a)[b] = cursor[b] \/ Positions(a)[b] = 0
    BY DEF Positions, AgentTypes
  <2>2. cursor[a] = 0
    BY <1>1 DEF ChainLocal, InLoop, Fresh
  <2> QED
    BY <2>1, <2>2 DEF StartAgent, AgentTypes
<1>3. stage[a] \in StageNames
  BY <1>1 DEF ChainLocal
<1>4. Row(a, "in_progress") \in RunRow /\ Row(a, "in_progress").stage = stage[a]
      /\ Row(a, "in_progress").status = "in_progress"
  BY <1>3, RowIsRunRow
<1>5. /\ step'[a] = "loop" /\ rows'[a] = rows[a] \union {Row(a, "in_progress")}
      /\ \A b \in Callers : b # a => step'[b] = step[b] /\ rows'[b] = rows[b]
  BY <1>1 DEF AgentTypes
<1>6. AgentTypes'
  BY <1>1, <1>2, <1>4 DEF AgentTypes
<1>7. ChainLocal(a)'
  <2>1. Fresh(a) /\ \A r \in rows[a] : r.status \in Terminal
    BY <1>1 DEF ChainLocal, InLoop, RowsOpen
  <2>2. cursor'[a] = 0 /\ turn'[a] = 0
    BY <1>1, <1>2, <2>1 DEF Fresh
  <2>3. Heard(a)'
    BY <1>1, <1>3, <1>5, <2>2, ScriptFits DEF Heard
  <2>4. \A r \in rows'[a] : r.status \in Terminal \/ r.stage = stage[a]
    BY <1>4, <1>5, <2>1
  <2>5. \A r \in rows'[a] : Earned(r)
    BY <1>4, <1>5 DEF ChainLocal, RowsEarned, Earned
  <2> QED
    BY <1>1, <1>3, <1>5, <2>3, <2>4, <2>5 DEF ChainLocal, InLoop, RowsOpen, OneOpen, RowsEarned
<1>8. ASSUME NEW b \in Callers, b # a PROVE ChainLocal(b)'
  <2>1. (cursor'[b] = cursor[b] /\ restarted'[b] = restarted[b]) \/ restarted'[b] = TRUE
    BY <1>2 DEF AgentTypes
  <2>2. ~InLoop(b) => cursor'[b] = cursor[b] /\ restarted'[b] = restarted[b]
    BY <1>2 DEF ChainLocal, Fresh, AgentTypes
  <2>3. CASE cursor'[b] = cursor[b] /\ restarted'[b] = restarted[b]
    BY <1>1, <1>5, <1>8, <2>3, UntouchedLocal DEF Untouched
  <2>4. CASE InLoop(b) /\ restarted'[b] = TRUE
    <3>1. step'[b] = step[b] /\ rows'[b] = rows[b]
      BY <1>5, <1>8
    <3> QED
      BY <1>1, <2>4, <3>1 DEF ChainLocal, InLoop, Heard, RowsOpen, OneOpen, RowsEarned
  <2> QED
    BY <2>1, <2>2, <2>3, <2>4
<1> QED
  BY <1>6, <1>7, <1>8

\* Every step of an agent keeps every caller's part of the invariant.
LEMMA AgentStepKeeps ==
  ASSUME AgentTypes, NEW a \in Callers, \A b \in Callers : ChainLocal(b), pc[a] = "agents",
         pc' = pc, AgentStep(a)
  PROVE  AgentTypes' /\ \A b \in Callers : ChainLocal(b)'
<1>1. ASSUME AgentTypes' /\ ChainLocal(a)' /\ OthersUntouched(a)
      PROVE  AgentTypes' /\ \A b \in Callers : ChainLocal(b)'
  BY <1>1, UntouchedLocal DEF OthersUntouched
<1>2. CASE NoProvider(a)
  <2>1. /\ step[a] = "start" /\ step' = [step EXCEPT ![a] = "raised"] /\ stage' = stage /\ rows' = rows
        /\ turn' = turn /\ cursor' = cursor /\ answered' = answered /\ clean' = clean
        /\ confident' = confident /\ restarted' = restarted /\ aborted' = aborted /\ provider' = provider
    BY <1>2 DEF NoProvider, loopVars
  <2>2. step'[a] = "raised" /\ \A b \in Callers : b # a => step'[b] = step[b]
    BY <2>1 DEF AgentTypes
  <2>3. AgentTypes'
    BY <2>1 DEF AgentTypes
  <2>4. ChainLocal(a)'
    BY <2>1, <2>2 DEF ChainLocal, InLoop, Fresh, Heard, RowsOpen, OneOpen, RowsEarned
  <2>5. OthersUntouched(a)
    BY <2>1, <2>2 DEF OthersUntouched, Untouched
  <2> QED
    BY <1>1, <2>3, <2>4, <2>5
<1>3. CASE Misread(a)
  BY <1>1, <1>3, RaiseKeeps DEF Misread
<1>4. CASE StatementRaises(a)
  BY <1>1, <1>4, RaiseKeeps DEF StatementRaises
<1>5. CASE ProviderFails(a)
  BY <1>1, <1>5, ProviderFailsKeeps
<1>6. CASE FinishAgent(a)
  BY <1>1, <1>6, FinishKeeps
<1>7. CASE ToolTurn(a)
  BY <1>1, <1>7, ToolTurnKeeps
<1>8. CASE TextTurn(a)
  BY <1>1, <1>8, TextTurnKeeps
<1> QED
  BY <1>2, <1>3, <1>4, <1>5, <1>6, <1>7, <1>8, StartKeeps DEF AgentStep

PCs == {"new", "raw", "insert", "record", "agents", "publish", "complete", "take"} \union Over

\* Rows that may be committed: closed, and successes that were earned.
Sound(R) == R \subseteq RunRow /\ \A r \in R : r.status \in Terminal /\ Earned(r)

\* What the step of a caller does to rows: its own become sound.
SoundRows(a) ==
  /\ rows' \in [Callers -> SUBSET RunRow] /\ Sound(rows'[a])
  /\ \A b \in Callers : b # a => rows'[b] = rows[b]

\* A caller that is not in an agent's loop, and did not raise, has sound rows.
LEMMA SettledRows ==
  ASSUME AgentTypes, NEW a \in Callers, ChainLocal(a), step[a] \notin {"loop", "finish", "raised"}
  PROVE  Sound(rows[a]) /\ Fresh(a)
  BY DEF ChainLocal, InLoop, RowsOpen, RowsEarned, Sound, AgentTypes

\* A caller leaves the chain, or its transaction is lost.
LEMMA RestKeeps ==
  ASSUME AgentTypes, \A b \in Callers : ChainLocal(b), NEW a \in Callers, NEW l \in PCs \ {"agents"},
         pc \in [Callers -> PCs], pc' = [pc EXCEPT ![a] = l], Rest(a), provider' = provider, SoundRows(a)
  PROVE  AgentTypes' /\ \A b \in Callers : ChainLocal(b)'
<1>1. /\ step' = [step EXCEPT ![a] = "idle"] /\ stage' = [stage EXCEPT ![a] = "none"]
      /\ aborted' = [aborted EXCEPT ![a] = FALSE] /\ EndLoop(a)
  BY DEF Rest
<1>2. /\ step'[a] = "idle" /\ pc'[a] # "agents"
      /\ \A b \in Callers : b # a => step'[b] = step[b] /\ stage'[b] = stage[b] /\ pc'[b] = pc[b]
  BY <1>1 DEF AgentTypes
<1>3. AgentTypes'
  BY <1>1, EndLoopFresh DEF AgentTypes, SoundRows
<1>4. ChainLocal(a)'
  <2>1. ~InLoop(a)' /\ Fresh(a)' /\ Heard(a)'
    BY <1>1, <1>2, EndLoopFresh DEF InLoop, Fresh, Heard
  <2>2. RowsOpen(a)' /\ OneOpen(a)' /\ RowsEarned(a)'
    BY <2>1 DEF RowsOpen, OneOpen, RowsEarned, SoundRows, Sound
  <2> QED
    BY <1>2, <2>1, <2>2 DEF ChainLocal
<1>5. ASSUME NEW b \in Callers, b # a PROVE ChainLocal(b)'
  BY <1>1, <1>2, <1>5, EndLoopFresh, UntouchedLocal DEF Untouched, SoundRows
<1> QED
  BY <1>3, <1>4, <1>5

\* A caller enters the chain.
LEMMA EnterKeeps ==
  ASSUME AgentTypes, \A b \in Callers : ChainLocal(b), NEW a \in Callers, pc[a] # "agents",
         pc \in [Callers -> PCs], pc' = [pc EXCEPT ![a] = "agents"], EnterChain(a), SoundRows(a),
         UNCHANGED <<provider, loopVars, aborted>>
  PROVE  AgentTypes' /\ \A b \in Callers : ChainLocal(b)'
<1>1. /\ step' = [step EXCEPT ![a] = "start"] /\ stage' = [stage EXCEPT ![a] = "triage"]
      /\ provider' = provider /\ turn' = turn /\ cursor' = cursor /\ answered' = answered
      /\ clean' = clean /\ confident' = confident /\ restarted' = restarted /\ aborted' = aborted
  BY DEF EnterChain, loopVars
<1>2. /\ step'[a] = "start" /\ stage'[a] = "triage" /\ pc'[a] = "agents"
      /\ \A b \in Callers : b # a => step'[b] = step[b] /\ stage'[b] = stage[b] /\ pc'[b] = pc[b]
  BY <1>1 DEF AgentTypes
<1>3. "triage" \in StageNames
  BY StageFacts
<1>4. AgentTypes'
  BY <1>1, <1>3 DEF AgentTypes, SoundRows
<1>5. Fresh(a)
  BY SettledRows DEF ChainLocal
<1>6. ChainLocal(a)'
  <2>1. ~InLoop(a)' /\ Fresh(a)' /\ Heard(a)'
    BY <1>1, <1>2, <1>5 DEF InLoop, Fresh, Heard
  <2>2. RowsOpen(a)' /\ OneOpen(a)' /\ RowsEarned(a)'
    BY <2>1 DEF RowsOpen, OneOpen, RowsEarned, SoundRows, Sound
  <2> QED
    BY <1>2, <1>3, <2>1, <2>2 DEF ChainLocal
<1>7. ASSUME NEW b \in Callers, b # a PROVE ChainLocal(b)'
  BY <1>1, <1>2, <1>7, UntouchedLocal DEF Untouched, SoundRows
<1> QED
  BY <1>4, <1>6, <1>7

\* A caller outside the chain goes on, and so do the rows it has or no longer has.
LEMMA MoveKeeps ==
  ASSUME AgentTypes, \A b \in Callers : ChainLocal(b), NEW a \in Callers, pc[a] # "agents",
         NEW l \in PCs \ {"agents"}, pc \in [Callers -> PCs], pc' = [pc EXCEPT ![a] = l], SoundRows(a),
         UNCHANGED <<provider, stage, step, loopVars, aborted>>
  PROVE  AgentTypes' /\ \A b \in Callers : ChainLocal(b)'
<1>1. /\ step' = step /\ stage' = stage
      /\ provider' = provider /\ turn' = turn /\ cursor' = cursor /\ answered' = answered
      /\ clean' = clean /\ confident' = confident /\ restarted' = restarted /\ aborted' = aborted
  BY DEF loopVars
<1>2. /\ step[a] = "idle" /\ pc'[a] # "agents"
      /\ \A b \in Callers : b # a => pc'[b] = pc[b]
  BY <1>1 DEF ChainLocal
<1>4. AgentTypes'
  BY <1>1 DEF AgentTypes, SoundRows
<1>5. Fresh(a)
  BY <1>2, SettledRows
<1>6. ChainLocal(a)'
  <2>1. ~InLoop(a)' /\ Fresh(a)' /\ Heard(a)'
    BY <1>1, <1>2, <1>5 DEF InLoop, Fresh, Heard
  <2>2. RowsOpen(a)' /\ OneOpen(a)' /\ RowsEarned(a)'
    BY <2>1 DEF RowsOpen, OneOpen, RowsEarned, SoundRows, Sound
  <2> QED
    BY <1>1, <1>2, <2>1, <2>2 DEF ChainLocal
<1>7. ASSUME NEW b \in Callers, b # a PROVE ChainLocal(b)'
  BY <1>1, <1>2, <1>7, UntouchedLocal DEF Untouched, SoundRows
<1> QED
  BY <1>4, <1>6, <1>7

\* Sound rows are all that is committed.
LEMMA CommitsAreSound ==
  ASSUME RunsTellTheirEnd, NEW a \in Callers, Sound(rows[a]),
         runs' = runs \/ runs' = runs \union RunsOf(a)
  PROVE  RunsTellTheirEnd'
<1>1. \A r \in runs : r.run.status \in Terminal /\ Earned(r.run)
  BY DEF RunsTellTheirEnd, RunsEndTerminal, SuccessIsEarned, Earned
<1>2. \A r \in RunsOf(a) : r.run.status \in Terminal /\ Earned(r.run)
  BY DEF RunsOf, Sound
<1>3. \A r \in runs' : r.run.status \in Terminal /\ Earned(r.run)
  BY <1>1, <1>2
<1> QED
  BY <1>3 DEF RunsTellTheirEnd, RunsEndTerminal, SuccessIsEarned, Earned

\* What the sweep closes is sound.
LEMMA SweptIsSound ==
  ASSUME AgentTypes, NEW a \in Callers, ChainLocal(a)
  PROVE  Sound(Swept(a)) /\ \A r \in rows[a] : \E q \in Swept(a) : q.stage = r.stage
<1>1. ASSUME NEW r \in rows[a]
      PROVE  LET q == IF r.status = "in_progress" THEN [r EXCEPT !.status = "failed"] ELSE r IN
             q \in RunRow /\ q.status \in Terminal /\ Earned(q) /\ q.stage = r.stage
  <2>1. r \in RunRow /\ Earned(r)
    BY DEF AgentTypes, ChainLocal, RowsEarned
  <2>2. CASE r.status = "in_progress"
    BY <2>1, <2>2 DEF RunRow, Terminal, Earned
  <2>3. CASE r.status # "in_progress"
    BY <2>1, <2>3 DEF RunRow, Terminal, Earned
  <2> QED
    BY <2>2, <2>3
<1> QED
  BY <1>1 DEF Swept, Sound

\* Before the first step nobody has a row but the complaints of before.
LEMMA ChainBegins == Init => ChainInv
<1> SUFFICES ASSUME Init PROVE ChainInv
  OBVIOUS
<1>1. /\ pc = [a \in Callers |-> "new"] /\ step = [a \in Callers |-> "idle"]
      /\ stage = [a \in Callers |-> "none"] /\ rows = [a \in Callers |-> {}]
      /\ turn = [a \in Callers |-> 0] /\ cursor = [a \in Callers |-> 0]
      /\ answered = [a \in Callers |-> FALSE] /\ clean = [a \in Callers |-> TRUE]
      /\ confident = [a \in Callers |-> FALSE] /\ restarted = [a \in Callers |-> FALSE]
      /\ aborted = [a \in Callers |-> FALSE]
  BY DEF Init, AgentInit
<1>2. ChainTypes
  BY <1>1 DEF Init, ChainTypes, AgentTypes
<1>3. \A a \in Callers : ChainLocal(a)
  BY <1>1 DEF ChainLocal, InLoop, Fresh, Heard, RowsOpen, OneOpen, RowsEarned
<1>4. \A r \in runs : r.run.status = "success" /\ r.run.earned = TRUE
  BY DEF Init
<1>5. RunsTellTheirEnd
  BY <1>4 DEF RunsTellTheirEnd, RunsEndTerminal, SuccessIsEarned, Terminal
<1> QED
  BY <1>2, <1>3, <1>5 DEF ChainInv

\* The chain's own steps.
LEMMA ChainKeeps ==
  ASSUME ChainInv, NEW a \in Callers, Chain(a)
  PROVE  ChainInv'
<1>1. /\ pc[a] = "agents" /\ AgentStep(a) /\ pc' = pc /\ complaint' = complaint /\ tries' = tries
      /\ raw' = raw /\ slot' = slot /\ runs' = runs
  BY DEF Chain, ingestVars
<1>2. AgentTypes' /\ \A b \in Callers : ChainLocal(b)'
  BY <1>1, AgentStepKeeps DEF ChainInv, ChainTypes
<1>3. RunsTellTheirEnd'
  BY <1>1 DEF ChainInv, RunsTellTheirEnd, RunsEndTerminal, SuccessIsEarned
<1> QED
  BY <1>1, <1>2, <1>3 DEF ChainInv, ChainTypes

\* The columns of ChainTypes that are not the agents'.
IngestTypes ==
  /\ DOMAIN complaint = Callers /\ tries \in [Submissions -> Nat]
  /\ DOMAIN raw = Submissions /\ DOMAIN slot = Submissions

\* The submission's and the script's steps outside the chain.
LEMMA PlainKeeps ==
  ASSUME ChainInv, NEW a \in Callers, pc[a] # "agents", NEW l \in PCs \ {"agents"}, Goto(a, l),
         UNCHANGED agentVars, runs' = runs, IngestTypes'
  PROVE  ChainInv'
<1>1. SoundRows(a)
  <2>1. step[a] = "idle"
    BY DEF ChainInv, ChainLocal, ChainTypes, AgentTypes
  <2>2. Sound(rows[a])
    BY <2>1, SettledRows DEF ChainInv, ChainTypes
  <2> QED
    BY <2>2 DEF SoundRows, agentVars, ChainInv, ChainTypes, AgentTypes
<1>2. AgentTypes' /\ \A b \in Callers : ChainLocal(b)'
  BY <1>1, MoveKeeps DEF ChainInv, ChainTypes, PCs, Goto, agentVars, loopVars
<1>3. RunsTellTheirEnd'
  BY DEF ChainInv, RunsTellTheirEnd, RunsEndTerminal, SuccessIsEarned
<1> QED
  BY <1>2, <1>3 DEF ChainInv, ChainTypes, IngestTypes, Goto, PCs

\* Who is a caller.
LEMMA WhoCalls ==
  /\ Submissions \subseteq Callers /\ Dispatches \subseteq Callers /\ Backfill \in Callers
  /\ \A a \in Callers : a \in Submissions \/ a \in Dispatches \/ a = Backfill
  /\ \A a \in Submissions : a \notin Dispatches /\ a # Backfill
  /\ Backfill \notin Dispatches
  BY IngestionAssumption

\* A step of a submission keeps what a chain leaves.
LEMMA SubmitKeeps ==
  ASSUME ChainInv, NEW s \in Submissions, Submit(s)
  PROVE  ChainInv'
<1> USE WhoCalls
<1>0. /\ AgentTypes /\ pc \in [Callers -> PCs] /\ IngestTypes /\ RunsTellTheirEnd
      /\ \A b \in Callers : ChainLocal(b)
  BY DEF ChainInv, ChainTypes, PCs, IngestTypes
<1>1. CASE ClaimSlot(s)
  <2>1. pc[s] = "new" /\ Goto(s, "raw") /\ UNCHANGED agentVars /\ runs' = runs /\ IngestTypes'
    BY <1>0, <1>1 DEF ClaimSlot, database, IngestTypes
  <2> QED
    BY <2>1, PlainKeeps DEF PCs
<1>2. CASE InsertRaw(s)
  <2>1. pc[s] = "raw" /\ Goto(s, "insert") /\ UNCHANGED agentVars /\ runs' = runs /\ IngestTypes'
    BY <1>0, <1>2 DEF InsertRaw, database, IngestTypes
  <2> QED
    BY <2>1, PlainKeeps DEF PCs
<1>3. CASE InsertComplaint(s)
  <2>1. pc[s] = "insert" /\ Goto(s, "record") /\ UNCHANGED agentVars /\ runs' = runs /\ IngestTypes'
    BY <1>0, <1>3 DEF InsertComplaint, database, IngestTypes
  <2> QED
    BY <2>1, PlainKeeps DEF PCs
<1>4. CASE InsertCollides(s)
  <2>1. /\ pc[s] = "insert" /\ (Goto(s, "failed") \/ Goto(s, "insert"))
        /\ UNCHANGED agentVars /\ runs' = runs /\ IngestTypes'
    BY <1>0, <1>4 DEF InsertCollides, database, IngestTypes
  <2> QED
    BY <2>1, PlainKeeps DEF PCs, Over
<1>5. CASE Publish(s)
  <2>1. /\ pc[s] = "publish" /\ Goto(s, "complete")
        /\ UNCHANGED agentVars /\ runs' = runs /\ IngestTypes'
    BY <1>0, <1>5 DEF Publish, PublishReady, database, IngestTypes
  <2> QED
    BY <2>1, PlainKeeps DEF PCs
<1>6. CASE WriteRecord(s)
  <2>1. PICK status \in {"success", "partial"} :
          rows' = [rows EXCEPT ![s] = {[stage |-> "ingestion", status |-> status, earned |-> TRUE]}]
    BY <1>6 DEF WriteRecord
  <2>2. Sound({[stage |-> "ingestion", status |-> status, earned |-> TRUE]})
    BY DEF Sound, RunRow, Terminal, Earned
  <2>3. SoundRows(s)
    BY <2>1, <2>2, <1>0 DEF SoundRows, AgentTypes, Sound
  <2>4. /\ pc[s] = "record" /\ pc' = [pc EXCEPT ![s] = "agents"] /\ EnterChain(s)
        /\ UNCHANGED <<provider, loopVars, aborted>> /\ runs' = runs /\ IngestTypes'
    BY <1>0, <1>6 DEF WriteRecord, EnterChain, Goto, database, IngestTypes
  <2>5. AgentTypes' /\ \A b \in Callers : ChainLocal(b)'
    BY <1>0, <2>3, <2>4, EnterKeeps
  <2>6. RunsTellTheirEnd'
    BY <1>0, <2>4 DEF RunsTellTheirEnd, RunsEndTerminal, SuccessIsEarned
  <2> QED
    BY <1>0, <2>4, <2>5, <2>6 DEF ChainInv, ChainTypes, IngestTypes, PCs
<1>7. CASE AfterAgents(s)
  <2>1. /\ pc' = [pc EXCEPT ![s] = "publish"] /\ Rest(s) /\ provider' = provider
        /\ runs' = runs /\ IngestTypes'
        /\ (step[s] = "ended" /\ rows' = rows) \/ rows' = [rows EXCEPT ![s] = Swept(s)]
    BY <1>0, <1>7 DEF AfterAgents, Goto, database, IngestTypes
  <2>2. SoundRows(s)
    <3>1. CASE step[s] = "ended" /\ rows' = rows
      BY <1>0, <3>1, SettledRows DEF SoundRows, AgentTypes
    <3>2. CASE rows' = [rows EXCEPT ![s] = Swept(s)]
      <4>1. Sound(Swept(s))
        BY <1>0, SweptIsSound
      <4> HIDE DEF Swept
      <4> QED
        BY <1>0, <3>2, <4>1 DEF SoundRows, AgentTypes, Sound
    <3> QED
      BY <2>1, <3>1, <3>2
  <2>3. AgentTypes' /\ \A b \in Callers : ChainLocal(b)'
    BY <1>0, <2>1, <2>2, RestKeeps DEF PCs
  <2>4. RunsTellTheirEnd'
    BY <1>0, <2>1 DEF RunsTellTheirEnd, RunsEndTerminal, SuccessIsEarned
  <2> QED
    BY <1>0, <2>1, <2>3, <2>4 DEF ChainInv, ChainTypes, IngestTypes, PCs
<1>8. CASE SweepRaises(s)
  <2>1. /\ pc' = [pc EXCEPT ![s] = "failed"] /\ Rest(s) /\ provider' = provider
        /\ rows' = [rows EXCEPT ![s] = {}] /\ runs' = runs /\ IngestTypes'
    BY <1>0, <1>8 DEF SweepRaises, Forget, Goto, database, IngestTypes
  <2>2. SoundRows(s)
    BY <1>0, <2>1 DEF SoundRows, AgentTypes, Sound
  <2>3. AgentTypes' /\ \A b \in Callers : ChainLocal(b)'
    BY <1>0, <2>1, <2>2, RestKeeps DEF PCs, Over
  <2>4. RunsTellTheirEnd'
    BY <1>0, <2>1 DEF RunsTellTheirEnd, RunsEndTerminal, SuccessIsEarned
  <2> QED
    BY <1>0, <2>1, <2>3, <2>4 DEF ChainInv, ChainTypes, IngestTypes, PCs, Over
<1>9. CASE CommitSubmission(s)
  <2>1. /\ pc[s] = "complete" /\ pc' = [pc EXCEPT ![s] = "done"] /\ rows' = [rows EXCEPT ![s] = {}]
        /\ runs' = runs \union RunsOf(s) /\ UNCHANGED <<provider, stage, step, loopVars, aborted>>
        /\ IngestTypes'
    BY <1>0, <1>9 DEF CommitSubmission, Forget, Goto, IngestTypes
  <2>2. SoundRows(s)
    BY <1>0, <2>1 DEF SoundRows, AgentTypes, Sound
  <2>3. AgentTypes' /\ \A b \in Callers : ChainLocal(b)'
    BY <1>0, <2>1, <2>2, MoveKeeps DEF PCs, Over
  <2>4. step[s] = "idle"
    BY <1>0, <2>1 DEF ChainLocal, AgentTypes
  <2>5. Sound(rows[s])
    BY <1>0, <2>4, SettledRows
  <2>6. RunsTellTheirEnd'
    BY <1>0, <2>1, <2>5, CommitsAreSound
  <2> QED
    BY <1>0, <2>1, <2>3, <2>6 DEF ChainInv, ChainTypes, IngestTypes, PCs, Over
<1> QED
  BY <1>1, <1>2, <1>3, <1>4, <1>5, <1>6, <1>7, <1>8, <1>9 DEF Submit

\* A step of a dispatch or of the script outside the chain.
LEMMA DispatchKeeps ==
  ASSUME ChainInv, (\E d \in Dispatches : BeginDispatch(d)) \/ Select \/ Take \/ EndScan
  PROVE  ChainInv'
<1> USE WhoCalls
<1>0. /\ AgentTypes /\ pc \in [Callers -> PCs] /\ IngestTypes /\ RunsTellTheirEnd
      /\ \A b \in Callers : ChainLocal(b)
  BY DEF ChainInv, ChainTypes, PCs, IngestTypes
<1>a. ASSUME NEW a \in Callers, pc[a] # "agents", pc' = [pc EXCEPT ![a] = "agents"], EnterChain(a),
             rows' = rows, UNCHANGED <<provider, loopVars, aborted>>, runs' = runs, IngestTypes'
      PROVE  ChainInv'
  <2>1. step[a] = "idle"
    BY <1>0, <1>a DEF ChainLocal, AgentTypes
  <2>2. SoundRows(a)
    BY <1>0, <1>a, <2>1, SettledRows DEF SoundRows, AgentTypes
  <2>3. AgentTypes' /\ \A b \in Callers : ChainLocal(b)'
    BY <1>0, <1>a, <2>2, EnterKeeps
  <2>4. RunsTellTheirEnd'
    BY <1>0, <1>a DEF RunsTellTheirEnd, RunsEndTerminal, SuccessIsEarned
  <2> QED
    BY <1>0, <1>a, <2>3, <2>4 DEF ChainInv, ChainTypes, IngestTypes, PCs
<1>1. ASSUME NEW d \in Dispatches, BeginDispatch(d) PROVE ChainInv'
  <2>1. pc[d] = "new" /\ runs' = runs /\ IngestTypes'
    BY <1>0, <1>1 DEF BeginDispatch, database, IngestTypes
  <2>2. CASE provider \in {"cloud", "unusable"}
    <3>1. Goto(d, "failed") /\ UNCHANGED agentVars
      BY <1>1, <2>2 DEF BeginDispatch, agentVars, loopVars
    <3> QED
      BY <2>1, <3>1, PlainKeeps DEF PCs, Over
  <2>3. CASE provider \notin {"cloud", "unusable"}
    <3>1. /\ pc' = [pc EXCEPT ![d] = "agents"] /\ EnterChain(d) /\ rows' = rows
          /\ UNCHANGED <<provider, loopVars, aborted>>
      BY <1>1, <2>3 DEF BeginDispatch, Goto
    <3> QED
      BY <2>1, <3>1, <1>a
  <2> QED
    BY <2>2, <2>3
<1>2. CASE Select
  <2>1. /\ pc[Backfill] # "agents" /\ Goto(Backfill, "take") /\ UNCHANGED agentVars
        /\ runs' = runs /\ IngestTypes'
    BY <1>0, <1>2 DEF Select, database, IngestTypes, Over
  <2> QED
    BY <2>1, PlainKeeps DEF PCs
<1>3. CASE EndScan
  <2>1. /\ pc[Backfill] # "agents" /\ Goto(Backfill, "done") /\ UNCHANGED agentVars
        /\ runs' = runs /\ IngestTypes'
    BY <1>0, <1>3 DEF EndScan, database, IngestTypes
  <2> QED
    BY <2>1, PlainKeeps DEF PCs, Over
<1>4. CASE Take
  <2>1. /\ pc[Backfill] # "agents" /\ pc' = [pc EXCEPT ![Backfill] = "agents"] /\ EnterChain(Backfill)
        /\ rows' = rows /\ UNCHANGED <<provider, loopVars, aborted>> /\ runs' = runs /\ IngestTypes'
    BY <1>0, <1>4 DEF Take, Goto, database, IngestTypes
  <2> QED
    BY <2>1, <1>a
<1> QED
  BY <1>1, <1>2, <1>3, <1>4

\* A chain that ends, or whose caller dies.
LEMMA EndKeeps ==
  ASSUME ChainInv, NEW a \in Callers, EndChain(a) \/ Crash(a)
  PROVE  ChainInv'
<1>0. /\ AgentTypes /\ pc \in [Callers -> PCs] /\ IngestTypes /\ RunsTellTheirEnd
      /\ \A b \in Callers : ChainLocal(b)
  BY DEF ChainInv, ChainTypes, PCs, IngestTypes
<1>1. /\ \E l \in PCs \ {"agents"} : pc' = [pc EXCEPT ![a] = l]
      /\ Rest(a) /\ rows' = [rows EXCEPT ![a] = {}] /\ provider' = provider /\ IngestTypes'
      /\ runs' = runs \/ (step[a] = "ended" /\ runs' = runs \union RunsOf(a))
  BY <1>0 DEF EndChain, Crash, Forget, Goto, PCs, Over, database, IngestTypes
<1>2. SoundRows(a)
  BY <1>0, <1>1 DEF SoundRows, AgentTypes, Sound
<1>3. AgentTypes' /\ \A b \in Callers : ChainLocal(b)'
  BY <1>0, <1>1, <1>2, RestKeeps
<1>4. RunsTellTheirEnd'
  <2>1. CASE runs' = runs
    BY <1>0, <2>1 DEF RunsTellTheirEnd, RunsEndTerminal, SuccessIsEarned
  <2>2. CASE step[a] = "ended" /\ runs' = runs \union RunsOf(a)
    BY <1>0, <2>2, SettledRows, CommitsAreSound
  <2> QED
    BY <1>1, <2>1, <2>2
<1>5. pc' \in [Callers -> PCs]
  BY <1>0, <1>1
<1> QED
  BY <1>1, <1>3, <1>4, <1>5 DEF ChainInv, ChainTypes, IngestTypes, PCs

\* Every step of every caller keeps the invariant.
LEMMA ChainStep ==
  ASSUME ChainInv, [Next]_vars
  PROVE  ChainInv'
<1>1. CASE UNCHANGED vars
  BY <1>1 DEF vars, agentVars, ingestVars, ChainInv, ChainTypes, AgentTypes, ChainLocal, InLoop, Fresh,
     Heard, RowsOpen, OneOpen, RowsEarned, Replays, RunsTellTheirEnd, RunsEndTerminal, SuccessIsEarned
<1> QED
  BY <1>1, ChainKeeps, SubmitKeeps, DispatchKeeps, EndKeeps DEF Next

\* The rows supervisors count say how their agents ended, for any callers, loops
\* and faults.
THEOREM EndsTold == Spec => []RunsTellTheirEnd
<1>1. ChainInv => RunsTellTheirEnd
  BY DEF ChainInv
<1> QED
  BY <1>1, ChainBegins, ChainStep, PTL DEF Spec

-----------------------------------------------------------------------------
(* DemoIngestion: what a submission leaves and announces.                  *)

\* What a submission holds at each of its steps.
Begun(s) == pc[s] \in {"agents", "publish", "complete"}
SubmissionLocal(s) ==
  /\ pc[s] \in {"insert", "record"} => raw[s] = "unlinked" \/ tries[s] > 0
  /\ Begun(s) => raw[s] = "linked" \/ tries[s] > 0
  /\ Begun(s) => \E r \in rows[s] : r.stage = "ingestion"
  /\ pc[s] # "done" => slot[s] # "completed"
  /\ pc[s] = "done" /\ s \in Sandboxed => slot[s] = "completed"

\* It announces its own complaint, and only when nothing but the commit is to come.
AnnouncedOnce(s) ==
  \A i \in Ids : <<s, i>> \in events => i = complaint[s] /\ pc[s] \in {"complete", "crashed", "done"}

StoredWhole(s) ==
  pc[s] = "done" =>
    /\ complaint[s] \in stored
    /\ \E r \in runs : r.by = s /\ r.run.stage = "ingestion"
    /\ complaint[s] \in rawOf \/ tries[s] > 0

Whole(s) == SubmissionLocal(s) /\ AnnouncedOnce(s) /\ StoredWhole(s)

\* The inductive invariant, which rests on that of the chains.
StoredInv == ChainInv /\ \A s \in Submissions : Whole(s)

\* What is committed stays.
Grows == stored \subseteq stored' /\ rawOf \subseteq rawOf' /\ runs \subseteq runs'

\* A submission that a step leaves where it is, with the ingestion's row it has.
StaysPut(s) ==
  /\ pc'[s] = pc[s] /\ slot'[s] = slot[s] /\ raw'[s] = raw[s] /\ tries'[s] = tries[s]
  /\ complaint'[s] = complaint[s]
  /\ \A r \in rows[s] : r.stage = "ingestion" => r \in rows'[s]
  /\ \A i \in Ids : <<s, i>> \in events' => <<s, i>> \in events

\* Such a submission is as whole as it was.
LEMMA PutIsWhole ==
  ASSUME NEW s \in Submissions, Whole(s), StaysPut(s), Grows
  PROVE  Whole(s)'
<1>1. SubmissionLocal(s)'
  BY DEF Whole, SubmissionLocal, StaysPut, Begun
<1>2. AnnouncedOnce(s)'
  BY DEF Whole, AnnouncedOnce, StaysPut
<1>3. StoredWhole(s)'
  BY DEF Whole, StoredWhole, StaysPut, Grows
<1> QED
  BY <1>1, <1>2, <1>3 DEF Whole

\* No agent touches the row of the ingestion.
LEMMA IngestionRowStays ==
  ASSUME ChainInv, NEW a \in Callers, AgentStep(a), NEW b \in Callers, NEW r \in rows[b],
         r.stage = "ingestion"
  PROVE  r \in rows'[b]
<1>0. rows \in [Callers -> SUBSET RunRow] /\ ChainLocal(a)
  BY DEF ChainInv, ChainTypes, AgentTypes
<1>1. CASE rows' = rows
  BY <1>1
<1>2. CASE StartAgent(a)
  BY <1>0, <1>2 DEF StartAgent
<1>3. ASSUME step[a] \in {"loop", "finish"}, NEW status, rows' = [rows EXCEPT ![a] = Closed(a, status)]
      PROVE  r \in rows'[b]
  <2>1. stage[a] # "ingestion"
    BY <1>0, <1>3, StageFacts DEF ChainLocal
  <2>2. CASE b = a
    BY <1>0, <1>3, <2>1, <2>2 DEF Closed
  <2>3. CASE b # a
    BY <1>0, <1>3, <2>3
  <2> QED
    BY <2>2, <2>3
<1>4. CASE ProviderFails(a)
  <2>1. rows' = [rows EXCEPT ![a] = IF aborted[a] THEN rows[a] ELSE Closed(a, "failed")] /\ step[a] = "loop"
    BY <1>4 DEF ProviderFails
  <2>2. CASE aborted[a]
    BY <1>0, <2>1, <2>2
  <2>3. CASE ~aborted[a]
    BY <1>3, <2>1, <2>3
  <2> QED
    BY <2>2, <2>3
<1>5. CASE FinishAgent(a)
  BY <1>3, <1>5 DEF FinishAgent
<1> QED
  BY <1>1, <1>2, <1>4, <1>5
  DEF AgentStep, NoProvider, ToolTurn, TextTurn, Misread, StatementRaises

\* Every submission is where it was after a step of another caller.
LEMMA OthersStayPut ==
  ASSUME ChainInv, NEW a \in Callers, NEW s \in Submissions, s # a,
         \/ a \in Submissions /\ Submit(a)
         \/ a \in Dispatches /\ BeginDispatch(a)
         \/ a = Backfill /\ (Select \/ Take \/ EndScan)
         \/ EndChain(a) \/ Crash(a)
  PROVE  StaysPut(s)
<1>0. /\ pc \in [Callers -> PCs] /\ rows \in [Callers -> SUBSET RunRow] /\ DOMAIN complaint = Callers
      /\ tries \in [Submissions -> Nat] /\ DOMAIN raw = Submissions /\ DOMAIN slot = Submissions
      /\ s \in Callers
  BY WhoCalls DEF ChainInv, ChainTypes, AgentTypes, PCs
<1>1. pc'[s] = pc[s]
  BY <1>0 DEF Submit, ClaimSlot, InsertRaw, InsertComplaint, InsertCollides, WriteRecord, AfterAgents,
    SweepRaises, Publish, CommitSubmission, BeginDispatch, Select, Take, EndScan, EndChain, Crash, Goto
<1>2. slot'[s] = slot[s] /\ raw'[s] = raw[s] /\ tries'[s] = tries[s] /\ complaint'[s] = complaint[s]
  BY <1>0 DEF Submit, ClaimSlot, InsertRaw, InsertComplaint, InsertCollides, WriteRecord, AfterAgents,
    SweepRaises, Publish, CommitSubmission, BeginDispatch, Select, Take, EndScan, EndChain, Crash
<1>3. rows'[s] = rows[s]
  BY <1>0 DEF Submit, ClaimSlot, InsertRaw, InsertComplaint, InsertCollides, WriteRecord, AfterAgents,
    SweepRaises, Publish, CommitSubmission, BeginDispatch, Select, Take, EndScan, EndChain, Crash,
    Forget, agentVars
<1>4. \A i \in Ids : <<s, i>> \in events' => <<s, i>> \in events
  BY DEF Submit, ClaimSlot, InsertRaw, InsertComplaint, InsertCollides, WriteRecord, AfterAgents,
    SweepRaises, Publish, CommitSubmission, BeginDispatch, Select, Take, EndScan, EndChain, Crash
<1> QED
  BY <1>1, <1>2, <1>3, <1>4 DEF StaysPut

\* Nothing committed is ever taken back.
LEMMA DatabaseGrows == ASSUME [Next]_vars PROVE Grows
<1>1. CASE UNCHANGED vars
  BY <1>1 DEF vars, ingestVars, Grows
<1>2. ASSUME NEW s \in Submissions, Submit(s) PROVE Grows
  BY <1>2 DEF Submit, ClaimSlot, InsertRaw, InsertComplaint, InsertCollides, WriteRecord, AfterAgents,
    SweepRaises, Publish, CommitSubmission, database, Grows
<1>3. ASSUME (\E d \in Dispatches : BeginDispatch(d)) \/ Select \/ Take \/ EndScan PROVE Grows
  BY <1>3 DEF BeginDispatch, Select, Take, EndScan, database, Grows
<1>4. ASSUME NEW a \in Callers, Chain(a) \/ EndChain(a) \/ Crash(a) PROVE Grows
  BY <1>4 DEF Chain, EndChain, Crash, database, ingestVars, Grows
<1> QED
  BY <1>1, <1>2, <1>3, <1>4 DEF Next

\* Before the first step no submission has done a thing.
LEMMA StoredBegins == Init => StoredInv
<1> SUFFICES ASSUME Init PROVE StoredInv
  OBVIOUS
<1>1. \A s \in Submissions : pc[s] = "new" /\ slot[s] = "none"
  BY WhoCalls DEF Init
<1>2. events = {}
  BY DEF Init
<1>3. \A s \in Submissions : Whole(s)
  BY <1>1, <1>2 DEF Whole, SubmissionLocal, AnnouncedOnce, StoredWhole, Begun
<1> QED
  BY <1>3, ChainBegins DEF StoredInv

\* A submission stays whole at each of its own steps.
LEMMA SubmitIsWhole ==
  ASSUME ChainInv, NEW s \in Submissions, Whole(s), Submit(s)
  PROVE  Whole(s)'
<1>0. /\ pc \in [Callers -> PCs] /\ rows \in [Callers -> SUBSET RunRow] /\ DOMAIN complaint = Callers
      /\ tries \in [Submissions -> Nat] /\ DOMAIN raw = Submissions /\ DOMAIN slot = Submissions
      /\ s \in Callers
  BY WhoCalls DEF ChainInv, ChainTypes, AgentTypes, PCs
<1>1. \A i \in Ids : <<s, i>> \in events => i = complaint[s] /\ pc[s] \in {"complete", "crashed", "done"}
  BY DEF Whole, AnnouncedOnce
<1>2. SubmissionLocal(s)
  BY DEF Whole
<1>3. CASE ClaimSlot(s)
  <2>1. pc[s] = "new" /\ pc'[s] = "raw" /\ events' = events /\ slot'[s] \in {"processing", slot[s]}
    BY <1>0, <1>3 DEF ClaimSlot, Goto
  <2> QED
    BY <1>1, <1>2, <2>1 DEF SubmissionLocal, Whole, AnnouncedOnce, StoredWhole, Begun
<1>4. CASE InsertRaw(s)
  <2>1. /\ pc[s] = "raw" /\ pc'[s] = "insert" /\ events' = events /\ slot' = slot
        /\ raw'[s] = "unlinked"
    BY <1>0, <1>4 DEF InsertRaw, Goto
  <2> QED
    BY <1>1, <1>2, <2>1 DEF SubmissionLocal, Whole, AnnouncedOnce, StoredWhole, Begun
<1>5. CASE InsertComplaint(s)
  <2>1. /\ pc[s] = "insert" /\ pc'[s] = "record" /\ events' = events /\ slot' = slot
        /\ raw' = raw /\ tries' = tries
    BY <1>0, <1>5 DEF InsertComplaint, Goto
  <2> QED
    BY <1>1, <1>2, <2>1 DEF SubmissionLocal, Whole, AnnouncedOnce, StoredWhole, Begun
<1>6. CASE InsertCollides(s)
  <2>1. /\ pc[s] = "insert" /\ pc'[s] \in {"failed", "insert"} /\ events' = events /\ slot' = slot
        /\ tries'[s] > 0
    BY <1>0, <1>6 DEF InsertCollides, Goto
  <2> QED
    BY <1>1, <1>2, <2>1 DEF SubmissionLocal, Whole, AnnouncedOnce, StoredWhole, Begun
<1>7. CASE WriteRecord(s)
  <2>1. /\ pc[s] = "record" /\ pc'[s] = "agents" /\ events' = events /\ slot' = slot
        /\ tries' = tries /\ raw'[s] = Linked(raw[s])
    BY <1>0, <1>7 DEF WriteRecord, Goto
  <2>2. \E r \in rows'[s] : r.stage = "ingestion"
    <3>1. PICK status \in {"success", "partial"} :
            rows' = [rows EXCEPT ![s] = {[stage |-> "ingestion", status |-> status, earned |-> TRUE]}]
      BY <1>7 DEF WriteRecord
    <3>2. rows'[s] = {[stage |-> "ingestion", status |-> status, earned |-> TRUE]}
      BY <1>0, <3>1
    <3> QED
      BY <3>2
  <2>3. raw'[s] = "linked" \/ tries'[s] > 0
    BY <1>2, <2>1 DEF SubmissionLocal, Linked
  <2> QED
    BY <1>1, <1>2, <2>1, <2>2, <2>3 DEF SubmissionLocal, Whole, AnnouncedOnce, StoredWhole, Begun
<1>8. CASE AfterAgents(s)
  <2>1. /\ pc[s] = "agents" /\ pc'[s] = "publish" /\ events' = events /\ slot' = slot
        /\ tries' = tries /\ raw' = raw
        /\ rows' = rows \/ rows' = [rows EXCEPT ![s] = Swept(s)]
    BY <1>0, <1>8 DEF AfterAgents, Goto
  <2>2. \E r \in rows'[s] : r.stage = "ingestion"
    <3>1. PICK r \in rows[s] : r.stage = "ingestion"
      BY <1>2, <2>1 DEF SubmissionLocal, Begun
    <3>2. \E q \in Swept(s) : q.stage = "ingestion"
      BY <1>0, <3>1, SweptIsSound DEF ChainInv, ChainTypes
    <3> HIDE DEF Swept
    <3> QED
      BY <1>0, <2>1, <3>1, <3>2
  <2> QED
    BY <1>1, <1>2, <2>1, <2>2 DEF SubmissionLocal, Whole, AnnouncedOnce, StoredWhole, Begun
<1>9. CASE SweepRaises(s)
  <2>1. pc[s] = "agents" /\ pc'[s] = "failed" /\ events' = events /\ slot' = slot
    BY <1>0, <1>9 DEF SweepRaises, Goto
  <2> QED
    BY <1>1, <1>2, <2>1 DEF SubmissionLocal, Whole, AnnouncedOnce, StoredWhole, Begun
<1>10. CASE Publish(s)
  <2>1. /\ pc[s] = "publish" /\ pc'[s] = "complete" /\ events' = events \union {<<s, complaint[s]>>}
        /\ slot' = slot /\ tries' = tries /\ raw' = raw /\ rows' = rows /\ complaint' = complaint
    BY <1>0, <1>10 DEF Publish, PublishReady, Goto, agentVars
  <2> QED
    BY <1>1, <1>2, <2>1 DEF SubmissionLocal, Whole, AnnouncedOnce, StoredWhole, Begun
<1>11. CASE CommitSubmission(s)
  <2>1. /\ pc[s] = "complete" /\ pc'[s] = "done" /\ events' = events /\ tries' = tries
        /\ complaint' = complaint /\ stored' = stored \union {complaint[s]}
        /\ rawOf' = (IF raw[s] = "linked" THEN rawOf \union {complaint[s]} ELSE rawOf)
        /\ runs' = runs \union RunsOf(s)
        /\ s \in Sandboxed => slot'[s] = "completed"
    BY <1>0, <1>11 DEF CommitSubmission, Goto
  <2>2. PICK r \in rows[s] : r.stage = "ingestion"
    BY <1>2, <2>1 DEF SubmissionLocal, Begun
  <2>3. [complaint |-> complaint[s], by |-> s, run |-> r] \in runs'
    BY <2>1, <2>2 DEF RunsOf
  <2>4. raw[s] = "linked" \/ tries[s] > 0
    BY <1>2, <2>1 DEF SubmissionLocal, Begun
  <2>5. StoredWhole(s)'
    <3>1. \E q \in runs' : q.by = s /\ q.run.stage = "ingestion"
      BY <2>2, <2>3
    <3> QED
      BY <2>1, <2>4, <3>1 DEF StoredWhole
  <2>6. SubmissionLocal(s)'
    BY <2>1 DEF SubmissionLocal, Begun
  <2>7. AnnouncedOnce(s)'
    BY <1>1, <2>1 DEF AnnouncedOnce
  <2> QED
    BY <2>5, <2>6, <2>7 DEF Whole
<1> QED
  BY <1>3, <1>4, <1>5, <1>6, <1>7, <1>8, <1>9, <1>10, <1>11 DEF Submit

\* Every step of every caller keeps all submissions whole.
LEMMA StoredStep == StoredInv /\ [Next]_vars => StoredInv'
<1> SUFFICES ASSUME StoredInv, [Next]_vars, NEW s \in Submissions
             PROVE  Whole(s)'
  BY ChainStep DEF StoredInv
<1>0. ChainInv /\ Whole(s) /\ Grows
  BY DatabaseGrows DEF StoredInv
<1>1. CASE UNCHANGED vars
  BY <1>0, <1>1, PutIsWhole DEF vars, agentVars, ingestVars, StaysPut
<1>2. ASSUME NEW t \in Submissions, Submit(t) PROVE Whole(s)'
  BY <1>0, <1>2, SubmitIsWhole, OthersStayPut, PutIsWhole, WhoCalls
<1>3. ASSUME (\E d \in Dispatches : BeginDispatch(d)) \/ Select \/ Take \/ EndScan PROVE Whole(s)'
  BY <1>0, <1>3, OthersStayPut, PutIsWhole, WhoCalls
<1>4. ASSUME NEW a \in Callers, Chain(a) PROVE Whole(s)'
  <2>1. StaysPut(s)
    BY <1>0, <1>4, IngestionRowStays, WhoCalls DEF Chain, ingestVars, StaysPut
  <2> QED
    BY <1>0, <2>1, PutIsWhole
<1>5. ASSUME NEW a \in Callers, EndChain(a) \/ Crash(a) PROVE Whole(s)'
  <2>1. CASE a # s
    BY <1>0, <1>5, <2>1, OthersStayPut, PutIsWhole
  <2>2. CASE a = s
    <3>1. Crash(s)
      BY <1>5, <2>2 DEF EndChain
    <3>2. /\ pc[s] # "done" /\ pc'[s] = "crashed" /\ slot' = slot /\ events' = events
          /\ complaint' = complaint
      BY <1>0, <3>1, WhoCalls DEF Crash, Goto, Over, ChainInv, ChainTypes
    <3> QED
      BY <1>0, <3>2 DEF Whole, SubmissionLocal, AnnouncedOnce, StoredWhole, Begun
  <2> QED
    BY <2>1, <2>2
<1> QED
  BY <1>1, <1>2, <1>3, <1>4, <1>5 DEF Next

\* A submission's complaint, its raw row, its ingestion run and its receipt appear
\* together, and what it announced is stored or was never committed
\* (demo_ingestion/orchestrator.py, run_demo_ingestion; routes/sandbox_complaints.py).
THEOREM StoredWholly == Spec => []StoredAndAnnounced
<1>1. ASSUME StoredInv PROVE StoredTogether
  <2>1. \A s \in Submissions : SubmissionLocal(s) /\ StoredWhole(s)
    BY <1>1 DEF StoredInv, Whole
  <2> QED
    BY <2>1 DEF StoredTogether, SubmissionLocal, StoredWhole
<1>2. ASSUME StoredInv PROVE EventsAreTrue
  <2>1. \A s \in Submissions : AnnouncedOnce(s) /\ StoredWhole(s)
    BY <1>2 DEF StoredInv, Whole
  <2> QED
    BY <2>1 DEF EventsAreTrue, AnnouncedOnce, StoredWhole
<1>3. StoredInv => StoredAndAnnounced
  BY <1>1, <1>2 DEF StoredAndAnnounced
<1> QED
  BY <1>3, StoredBegins, StoredStep, PTL DEF Spec

-----------------------------------------------------------------------------
(* DemoIngestion: whose runs they are.                                     *)

Holding(s) == pc[s] \in {"record", "agents", "publish", "complete"}
Owns(s) == Holding(s) \/ pc[s] = "done"

\* A submission's id is its own, and not that of a complaint of before.
IdsAreOwn ==
  /\ \A s \in Submissions : Owns(s) => complaint[s] \in Ids \ Existing
  /\ \A s \in Submissions : Holding(s) => complaint[s] \notin stored
  /\ \A s, t \in Submissions : Owns(s) /\ Owns(t) /\ complaint[s] = complaint[t] => s = t
  /\ \A d \in Dispatches : complaint[d] = Tier1[d]

\* A complaint the chain has not seen is one whose dispatch did not come to its end.
SeenHaveRuns ==
  /\ Existing \subseteq stored
  /\ \A c \in stored \ Tier1Ids : HasRun(c)
  /\ \A d \in Dispatches : pc[d] = "done" => HasRun(Tier1[d])

\* What the script takes has no chain of another, or is remembered as raced.
MayTake(c) ==
  /\ c \in Tier1Ids
  /\ \A d \in Dispatches : Tier1[d] = c => c \in raced \/ pc[d] \in {"failed", "crashed"}
TakenAreFree ==
  /\ \A c \in todo : MayTake(c)
  /\ pc[Backfill] = "agents" => MayTake(complaint[Backfill])

OwnerOf(r) ==
  \/ r.by = NoId /\ r.complaint \in Existing
  \/ r.by \in Submissions /\ r.complaint = complaint[r.by] /\ pc[r.by] = "done"
  \/ r.by \in Dispatches /\ r.complaint = Tier1[r.by] /\ pc[r.by] = "done"
  \/ r.by = Backfill /\ MayTake(r.complaint)
RunsHaveOwners == \A r \in runs : OwnerOf(r)

\* The inductive invariant, which rests on that of the submissions.
OwnerInv == StoredInv /\ IdsAreOwn /\ SeenHaveRuns /\ TakenAreFree /\ RunsHaveOwners

\* A caller that is over stays so with its complaint, and the raced stay raced.
Lasts ==
  /\ \A d \in Dispatches : pc[d] \in Over => pc'[d] = pc[d]
  /\ \A s \in Submissions : pc[s] = "done" => pc'[s] = "done" /\ complaint'[s] = complaint[s]
  /\ raced \subseteq raced'

\* Such owners stay owners.
LEMMA OwnersLast ==
  ASSUME Lasts
  PROVE  /\ \A c : MayTake(c) => MayTake(c)'
         /\ \A r : OwnerOf(r) => OwnerOf(r)'
<1>1. ASSUME NEW c, MayTake(c) PROVE MayTake(c)'
  BY <1>1 DEF Lasts, MayTake, Tier1Ids, Over
<1>2. ASSUME NEW r, OwnerOf(r) PROVE OwnerOf(r)'
  BY <1>1, <1>2 DEF OwnerOf, Lasts, Over
<1> QED
  BY <1>1, <1>2

\* No step moves a caller that is over, except the script.
LEMMA OverLasts == ChainInv /\ [Next]_vars => Lasts
<1> SUFFICES ASSUME ChainInv, [Next]_vars PROVE Lasts
  OBVIOUS
<1>0. pc \in [Callers -> PCs] /\ DOMAIN complaint = Callers
  BY DEF ChainInv, ChainTypes, PCs
<1>1. CASE UNCHANGED vars
  BY <1>1 DEF vars, ingestVars, Lasts
<1>2. ASSUME NEW s \in Submissions, Submit(s) PROVE Lasts
  <2>1. /\ pc[s] \notin Over /\ \A a \in Callers : a # s => pc'[a] = pc[a] /\ complaint'[a] = complaint[a]
        /\ raced' = raced
    BY <1>0, <1>2 DEF Submit, ClaimSlot, InsertRaw, InsertComplaint, InsertCollides, WriteRecord,
      AfterAgents, SweepRaises, Publish, PublishReady, CommitSubmission, Goto, Over, script
  <2> QED
    BY <2>1, WhoCalls DEF Lasts, Over
<1>3. ASSUME NEW d \in Dispatches, BeginDispatch(d) PROVE Lasts
  <2>1. /\ pc[d] \notin Over /\ complaint' = complaint /\ raced' = raced
        /\ \A a \in Callers : a # d => pc'[a] = pc[a]
    BY <1>0, <1>3 DEF BeginDispatch, Goto, Over, script
  <2> QED
    BY <2>1, WhoCalls DEF Lasts, Over
<1>4. CASE Select \/ Take \/ EndScan
  <2>1. /\ raced \subseteq raced'
        /\ \A a \in Callers : a # Backfill => pc'[a] = pc[a] /\ complaint'[a] = complaint[a]
    BY <1>0, <1>4 DEF Select, Take, EndScan, Goto, script
  <2> QED
    BY <2>1, WhoCalls DEF Lasts
<1>5. ASSUME NEW a \in Callers, Chain(a) PROVE Lasts
  BY <1>5 DEF Chain, ingestVars, Lasts
<1>6. ASSUME NEW a \in Callers, EndChain(a) \/ Crash(a) PROVE Lasts
  <2>1. /\ pc[a] \notin Over /\ complaint' = complaint /\ raced' = raced
        /\ \A b \in Callers : b # a => pc'[b] = pc[b]
    BY <1>0, <1>6 DEF EndChain, Crash, Goto, Over, script
  <2> QED
    BY <2>1, WhoCalls DEF Lasts, Over
<1> QED
  BY <1>1, <1>2, <1>3, <1>4, <1>5, <1>6 DEF Next

\* Before the first step the runs are those of the complaints of before.
LEMMA OwnersBegin == Init => OwnerInv
<1> SUFFICES ASSUME Init PROVE OwnerInv
  OBVIOUS
<1>1. /\ \A a \in Callers : pc[a] = "new"
      /\ \A d \in Dispatches : complaint[d] = Tier1[d]
      /\ stored = Tier1Ids \union Existing /\ todo = {}
  BY WhoCalls DEF Init
<1>2. \A r \in runs : r.by = NoId /\ r.complaint \in Existing
  BY DEF Init
<1>3. ASSUME NEW c \in Existing PROVE HasRun(c)
  <2>1. [complaint |-> c, by |-> NoId,
         run |-> [stage |-> "triage", status |-> "success", earned |-> TRUE]] \in runs
    BY DEF Init
  <2> QED
    BY <2>1 DEF HasRun
<1>4. IdsAreOwn
  BY <1>1, WhoCalls DEF IdsAreOwn, Owns, Holding
<1>5. SeenHaveRuns
  BY <1>1, <1>3, WhoCalls DEF SeenHaveRuns
<1>6. TakenAreFree
  BY <1>1, WhoCalls DEF TakenAreFree
<1>7. RunsHaveOwners
  BY <1>2 DEF RunsHaveOwners, OwnerOf
<1> QED
  BY <1>4, <1>5, <1>6, <1>7, StoredBegins DEF OwnerInv

\* A step that only moves callers, none of them to its end, to the chain of the
\* script, or to an id of its own.
LEMMA OwnersStay ==
  ASSUME OwnerInv, Lasts, Grows, stored' = stored, runs' = runs, todo' \subseteq todo,
         \A s \in Submissions : Owns(s)' => Owns(s) /\ complaint'[s] = complaint[s] /\ (Holding(s)' => Holding(s)),
         \A d \in Dispatches : complaint'[d] = complaint[d] /\ (pc'[d] = "done" => pc[d] = "done"),
         pc'[Backfill] = "agents" => pc[Backfill] = "agents" /\ complaint'[Backfill] = complaint[Backfill]
  PROVE  (IdsAreOwn /\ SeenHaveRuns /\ TakenAreFree /\ RunsHaveOwners)'
<1>0. IdsAreOwn /\ SeenHaveRuns /\ TakenAreFree /\ RunsHaveOwners
  BY DEF OwnerInv
<1>1. IdsAreOwn'
  BY <1>0 DEF IdsAreOwn, Owns, Holding
<1>2. SeenHaveRuns'
  BY <1>0 DEF SeenHaveRuns, HasRun, Tier1Ids
<1>3. TakenAreFree'
  <2>1. \A c \in todo : MayTake(c)'
    BY <1>0, OwnersLast DEF TakenAreFree
  <2>2. pc'[Backfill] = "agents" => MayTake(complaint[Backfill])'
    BY <1>0, OwnersLast DEF TakenAreFree
  <2> QED
    BY <2>1, <2>2 DEF TakenAreFree
<1>4. RunsHaveOwners'
  BY <1>0, OwnersLast DEF RunsHaveOwners
<1> QED
  BY <1>1, <1>2, <1>3, <1>4

\* The INSERT of a complaint: nobody holds the id, and it is in no table.
LEMMA InsertOwns ==
  ASSUME OwnerInv, Lasts, NEW s \in Submissions, InsertComplaint(s)
  PROVE  (IdsAreOwn /\ SeenHaveRuns /\ TakenAreFree /\ RunsHaveOwners)'
<1>0. /\ IdsAreOwn /\ SeenHaveRuns /\ TakenAreFree /\ RunsHaveOwners
      /\ pc \in [Callers -> PCs] /\ DOMAIN complaint = Callers
      /\ \A t \in Submissions : StoredWhole(t)
  BY DEF OwnerInv, StoredInv, ChainInv, ChainTypes, PCs, Whole
<1>1. PICK i \in Ids : /\ pc[s] = "insert" /\ i \notin stored /\ ~Held(i)
                       /\ complaint' = [complaint EXCEPT ![s] = i] /\ pc' = [pc EXCEPT ![s] = "record"]
  BY DEF InsertComplaint, Goto
<1>2. /\ stored' = stored /\ runs' = runs /\ todo' = todo
  BY DEF InsertComplaint, database, script
<1>3. /\ complaint'[s] = i /\ pc'[s] = "record"
      /\ \A a \in Callers : a # s => pc'[a] = pc[a] /\ complaint'[a] = complaint[a]
  BY <1>0, <1>1, WhoCalls
<1>4. \A t \in Submissions : Owns(t) => complaint[t] # i
  BY <1>0, <1>1 DEF Held, Owns, Holding, Over, StoredWhole
<1>5. IdsAreOwn'
  <2>1. i \notin Existing
    BY <1>0, <1>1 DEF SeenHaveRuns
  <2>2. \A t \in Submissions : t # s => (Owns(t)' <=> Owns(t)) /\ (Holding(t)' <=> Holding(t))
    BY <1>3, WhoCalls DEF Owns, Holding
  <2>3. \A t \in Submissions : Owns(t)' => complaint'[t] \in Ids \ Existing
    BY <1>0, <1>3, <2>1, <2>2, WhoCalls DEF IdsAreOwn
  <2>4. \A t \in Submissions : Holding(t)' => complaint'[t] \notin stored'
    BY <1>0, <1>1, <1>2, <1>3, <2>2, WhoCalls DEF IdsAreOwn
  <2>5. \A t, u \in Submissions : Owns(t)' /\ Owns(u)' /\ complaint'[t] = complaint'[u] => t = u
    BY <1>0, <1>3, <1>4, <2>2, WhoCalls DEF IdsAreOwn
  <2>6. \A d \in Dispatches : complaint'[d] = Tier1[d]
    BY <1>0, <1>3, WhoCalls DEF IdsAreOwn
  <2> QED
    BY <2>3, <2>4, <2>5, <2>6 DEF IdsAreOwn
<1>6. SeenHaveRuns'
  <2>1. \A d \in Dispatches : pc'[d] = pc[d]
    BY <1>3, WhoCalls
  <2> QED
    BY <1>0, <1>2, <2>1 DEF SeenHaveRuns, HasRun, Tier1Ids
<1>7. TakenAreFree'
  <2>1. pc'[Backfill] = pc[Backfill] /\ complaint'[Backfill] = complaint[Backfill]
    BY <1>3, WhoCalls
  <2> QED
    BY <1>0, <1>2, <2>1, OwnersLast DEF TakenAreFree
<1>8. RunsHaveOwners'
  BY <1>0, <1>2, OwnersLast DEF RunsHaveOwners
<1> QED
  BY <1>5, <1>6, <1>7, <1>8

\* The commit of a submission: its complaint comes with its runs.
LEMMA CommitOwns ==
  ASSUME OwnerInv, Lasts, Grows, NEW s \in Submissions, CommitSubmission(s)
  PROVE  (IdsAreOwn /\ SeenHaveRuns /\ TakenAreFree /\ RunsHaveOwners)'
<1>0. /\ IdsAreOwn /\ SeenHaveRuns /\ TakenAreFree /\ RunsHaveOwners
      /\ pc \in [Callers -> PCs] /\ SubmissionLocal(s)
  BY DEF OwnerInv, StoredInv, ChainInv, ChainTypes, PCs, Whole
<1>1. /\ pc[s] = "complete" /\ pc' = [pc EXCEPT ![s] = "done"] /\ complaint' = complaint
      /\ stored' = stored \union {complaint[s]} /\ runs' = runs \union RunsOf(s) /\ todo' = todo
  BY DEF CommitSubmission, Goto, script
<1>2. pc'[s] = "done" /\ \A a \in Callers : a # s => pc'[a] = pc[a]
  BY <1>0, <1>1, WhoCalls
<1>3. \A t \in Submissions : (Owns(t)' <=> Owns(t)) /\ (Holding(t)' => Holding(t) /\ t # s)
  BY <1>1, <1>2, WhoCalls DEF Owns, Holding
<1>4. IdsAreOwn'
  <2>1. \A t \in Submissions : Holding(t)' => complaint'[t] \notin stored'
    BY <1>0, <1>1, <1>3 DEF IdsAreOwn, Owns, Holding
  <2> QED
    BY <1>0, <1>1, <1>3, <2>1 DEF IdsAreOwn
<1>5. HasRun(complaint[s])'
  <2>1. PICK r \in rows[s] : r.stage = "ingestion"
    BY <1>0, <1>1 DEF SubmissionLocal, Begun
  <2>2. [complaint |-> complaint[s], by |-> s, run |-> r] \in runs'
    BY <1>1, <2>1 DEF RunsOf
  <2> QED
    BY <1>1, <2>2 DEF HasRun
<1>6. SeenHaveRuns'
  <2>1. \A d \in Dispatches : pc'[d] = pc[d]
    BY <1>2, WhoCalls
  <2>2. \A c : HasRun(c) => HasRun(c)'
    BY <1>1 DEF HasRun
  <2>3. \A c \in stored' \ Tier1Ids' : HasRun(c)'
    BY <1>0, <1>1, <1>5, <2>2 DEF SeenHaveRuns, Tier1Ids
  <2> QED
    BY <1>0, <1>1, <2>1, <2>2, <2>3 DEF SeenHaveRuns
<1>7. TakenAreFree'
  <2>1. pc'[Backfill] = pc[Backfill] /\ complaint'[Backfill] = complaint[Backfill]
    BY <1>1, <1>2, WhoCalls
  <2> QED
    BY <1>0, <1>1, <2>1, OwnersLast DEF TakenAreFree
<1>8. RunsHaveOwners'
  <2>1. \A r \in RunsOf(s) : OwnerOf(r)'
    BY <1>1, <1>2 DEF RunsOf, OwnerOf
  <2> QED
    BY <1>0, <1>1, <2>1, OwnersLast DEF RunsHaveOwners
<1> QED
  BY <1>4, <1>6, <1>7, <1>8

\* The commit of a dispatch's chain, or of one the script took.
LEMMA EndOwns ==
  ASSUME OwnerInv, Lasts, Grows, NEW a \in Callers, EndChain(a)
  PROVE  (IdsAreOwn /\ SeenHaveRuns /\ TakenAreFree /\ RunsHaveOwners)'
<1>0. /\ IdsAreOwn /\ SeenHaveRuns /\ TakenAreFree /\ RunsHaveOwners
      /\ pc \in [Callers -> PCs] /\ ChainLocal(a)
  BY DEF OwnerInv, StoredInv, ChainInv, ChainTypes, PCs
<1>1. /\ pc[a] = "agents" /\ a \notin Submissions /\ complaint' = complaint /\ stored' = stored
      /\ todo' = todo /\ (a = Backfill \/ a \in Dispatches)
  BY WhoCalls DEF EndChain, script
<1>2. \E l \in Over \union {"take"} : pc' = [pc EXCEPT ![a] = l]
  BY DEF EndChain, Goto, Over
<1>3. /\ pc'[a] # "agents" /\ \A b \in Callers : b # a => pc'[b] = pc[b]
      /\ runs' = runs \/ (step[a] = "ended" /\ runs' = runs \union RunsOf(a))
      /\ a \in Dispatches /\ pc'[a] = "done" => step[a] = "ended" /\ runs' = runs \union RunsOf(a)
      /\ a \in Dispatches /\ step[a] = "ended" => pc'[a] = "done"
  <2>1. /\ pc'[a] # "agents" /\ \A b \in Callers : b # a => pc'[b] = pc[b]
    BY <1>0, <1>2 DEF Over
  <2>2. CASE step[a] = "ended"
    <3>1. runs' = runs \union RunsOf(a) /\ pc' = [pc EXCEPT ![a] = IF a = Backfill THEN "take" ELSE "done"]
      BY <2>2 DEF EndChain, Goto
    <3>2. a \in Dispatches => pc'[a] = "done"
      BY <1>0, <3>1, WhoCalls
    <3> QED
      BY <2>1, <2>2, <3>1, <3>2
  <2>3. CASE step[a] # "ended"
    <3>1. runs' = runs /\ pc' = [pc EXCEPT ![a] = IF a = Backfill THEN "take" ELSE "failed"]
      BY <2>3 DEF EndChain, Goto
    <3>2. a \in Dispatches => pc'[a] = "failed"
      BY <1>0, <3>1, WhoCalls
    <3> QED
      BY <2>1, <2>3, <3>1, <3>2
  <2> QED
    BY <2>2, <2>3
<1>4. IdsAreOwn'
  BY <1>0, <1>1, <1>3, WhoCalls DEF IdsAreOwn, Owns, Holding
<1>5. SeenHaveRuns'
  <2>1. \A c : HasRun(c) => HasRun(c)'
    BY <1>3 DEF HasRun
  <2>2. ASSUME a \in Dispatches, pc'[a] = "done" PROVE HasRun(Tier1[a])'
    <3>1. PICK r \in rows[a] : TRUE
      BY <1>0, <1>3, <2>2 DEF ChainLocal
    <3>2. complaint[a] = Tier1[a]
      BY <1>0, <2>2 DEF IdsAreOwn
    <3>3. [complaint |-> Tier1[a], by |-> a, run |-> r] \in runs'
      BY <1>3, <2>2, <3>1, <3>2 DEF RunsOf
    <3> QED
      BY <3>3 DEF HasRun
  <2>3. \A d \in Dispatches : pc'[d] = "done" => HasRun(Tier1[d])'
    BY <1>0, <1>3, <2>1, <2>2, WhoCalls DEF SeenHaveRuns
  <2> QED
    BY <1>0, <1>1, <2>1, <2>3 DEF SeenHaveRuns, Tier1Ids
<1>6. TakenAreFree'
  <2>1. pc'[Backfill] = "agents" => pc[Backfill] = "agents"
    BY <1>3, WhoCalls
  <2> QED
    BY <1>0, <1>1, <2>1, OwnersLast DEF TakenAreFree
<1>7. RunsHaveOwners'
  <2>1. ASSUME step[a] = "ended", NEW r \in RunsOf(a) PROVE OwnerOf(r)'
    <3>1. r.by = a /\ r.complaint = complaint[a]
      BY DEF RunsOf
    <3>2. CASE a = Backfill
      <4>1. MayTake(complaint[Backfill])
        BY <1>0, <1>1, <3>2 DEF TakenAreFree
      <4> QED
        BY <3>1, <3>2, <4>1, OwnersLast DEF OwnerOf
    <3>3. CASE a \in Dispatches
      BY <1>0, <1>3, <2>1, <3>1, <3>3 DEF OwnerOf, IdsAreOwn
    <3> QED
      BY <1>1, <3>2, <3>3
  <2> QED
    BY <1>0, <1>3, <2>1, OwnersLast DEF RunsHaveOwners
<1> QED
  BY <1>4, <1>5, <1>6, <1>7

\* The script's SELECT finds complaints without a run; it takes one of those.
LEMMA ScriptOwns ==
  ASSUME OwnerInv, Lasts, Grows, Select \/ Take \/ EndScan
  PROVE  (IdsAreOwn /\ SeenHaveRuns /\ TakenAreFree /\ RunsHaveOwners)'
<1>0. /\ IdsAreOwn /\ SeenHaveRuns /\ TakenAreFree /\ RunsHaveOwners
      /\ pc \in [Callers -> PCs] /\ DOMAIN complaint = Callers
  BY DEF OwnerInv, StoredInv, ChainInv, ChainTypes, PCs
<1>1. /\ stored' = stored /\ runs' = runs
      /\ \A a \in Callers : a # Backfill => pc'[a] = pc[a] /\ complaint'[a] = complaint[a]
  BY <1>0 DEF Select, Take, EndScan, Goto, database
<1>2. IdsAreOwn'
  BY <1>0, <1>1, WhoCalls DEF IdsAreOwn, Owns, Holding
<1>3. SeenHaveRuns'
  BY <1>0, <1>1, WhoCalls DEF SeenHaveRuns, HasRun, Tier1Ids
<1>4. RunsHaveOwners'
  BY <1>0, <1>1, OwnersLast DEF RunsHaveOwners
<1>5. TakenAreFree'
  <2>1. CASE Select
    <3>1. /\ todo' = {c \in stored : ~HasRun(c)} /\ pc'[Backfill] # "agents"
          /\ \A d \in Dispatches : pc[d] \notin Over => Tier1[d] \in raced'
      BY <1>0, <2>1, WhoCalls DEF Select, Goto
    <3>2. ASSUME NEW c \in todo' PROVE MayTake(c)'
      <4>1. c \in stored /\ ~HasRun(c)
        BY <3>1, <3>2
      <4>2. c \in Tier1Ids
        BY <1>0, <4>1 DEF SeenHaveRuns
      <4>3. ASSUME NEW d \in Dispatches, Tier1[d] = c PROVE c \in raced' \/ pc'[d] \in {"failed", "crashed"}
        <5>1. pc[d] # "done"
          BY <1>0, <4>1, <4>3 DEF SeenHaveRuns
        <5>2. pc'[d] = pc[d]
          BY <1>1, WhoCalls
        <5> QED
          BY <3>1, <4>3, <5>1, <5>2 DEF Over
      <4> QED
        BY <4>2, <4>3 DEF MayTake, Tier1Ids
    <3> QED
      BY <3>1, <3>2 DEF TakenAreFree
  <2>2. CASE Take
    <3>1. PICK c \in todo : complaint' = [complaint EXCEPT ![Backfill] = c] /\ todo' = todo \ {c}
      BY <2>2 DEF Take
    <3>2. complaint'[Backfill] = c
      BY <1>0, <3>1, WhoCalls
    <3>3. \A x \in todo : MayTake(x)'
      BY <1>0, OwnersLast DEF TakenAreFree
    <3> QED
      BY <3>1, <3>2, <3>3 DEF TakenAreFree
  <2>3. CASE EndScan
    <3>1. todo' = todo /\ pc'[Backfill] = "done"
      BY <1>0, <2>3, WhoCalls DEF EndScan, Goto, script
    <3>2. \A x \in todo : MayTake(x)'
      BY <1>0, OwnersLast DEF TakenAreFree
    <3> QED
      BY <3>1, <3>2 DEF TakenAreFree
  <2> QED
    BY <2>1, <2>2, <2>3
<1> QED
  BY <1>2, <1>3, <1>4, <1>5

\* Every step keeps the owners.
LEMMA OwnersStep == OwnerInv /\ [Next]_vars => OwnerInv'
<1> DEFINE Owned == IdsAreOwn /\ SeenHaveRuns /\ TakenAreFree /\ RunsHaveOwners
<1> SUFFICES ASSUME OwnerInv, [Next]_vars
             PROVE  Owned'
  BY StoredStep DEF OwnerInv
<1>0. /\ Lasts /\ Grows /\ pc \in [Callers -> PCs] /\ DOMAIN complaint = Callers
  BY OverLasts, DatabaseGrows DEF OwnerInv, StoredInv, ChainInv, ChainTypes, PCs
<1>1. CASE UNCHANGED vars
  <2>1. stored' = stored /\ runs' = runs /\ todo' = todo /\ pc' = pc /\ complaint' = complaint
    BY <1>1 DEF vars, ingestVars
  <2> QED
    BY <1>0, <2>1, OwnersStay DEF Owns, Holding
<1>2. ASSUME NEW s \in Submissions, Submit(s) PROVE Owned'
  <2>1. CASE InsertComplaint(s)
    BY <1>0, <2>1, InsertOwns
  <2>2. CASE CommitSubmission(s)
    BY <1>0, <2>2, CommitOwns
  <2>3. CASE ~InsertComplaint(s) /\ ~CommitSubmission(s)
    <3>1. /\ complaint' = complaint /\ stored' = stored /\ runs' = runs /\ todo' = todo
          /\ \A a \in Callers : a # s => pc'[a] = pc[a]
          /\ pc'[s] # "done"
      BY <1>0, <1>2, <2>3, WhoCalls DEF Submit, ClaimSlot, InsertRaw, InsertCollides, WriteRecord, AfterAgents,
        SweepRaises, Publish, PublishReady, Goto, database, script
    <3>2. Holding(s)' => Holding(s)
      BY <1>0, <1>2, <2>3, WhoCalls DEF Submit, ClaimSlot, InsertRaw, InsertCollides, WriteRecord, AfterAgents,
        SweepRaises, Publish, PublishReady, Goto, Holding
    <3>3. \A t \in Submissions : Owns(t)' => Owns(t) /\ (Holding(t)' => Holding(t))
      BY <3>1, <3>2, WhoCalls DEF Owns, Holding
    <3> QED
      BY <1>0, <3>1, <3>3, WhoCalls, OwnersStay
  <2> QED
    BY <2>1, <2>2, <2>3
<1>3. ASSUME NEW d \in Dispatches, BeginDispatch(d) PROVE Owned'
  <2>1. /\ complaint' = complaint /\ stored' = stored /\ runs' = runs /\ todo' = todo
        /\ pc'[d] # "done" /\ \A a \in Callers : a # d => pc'[a] = pc[a]
    BY <1>0, <1>3, WhoCalls DEF BeginDispatch, Goto, database, script
  <2> QED
    BY <1>0, <2>1, WhoCalls, OwnersStay DEF Owns, Holding
<1>4. CASE Select \/ Take \/ EndScan
  BY <1>0, <1>4, ScriptOwns
<1>5. ASSUME NEW a \in Callers, Chain(a) PROVE Owned'
  <2>1. stored' = stored /\ runs' = runs /\ todo' = todo /\ pc' = pc /\ complaint' = complaint
    BY <1>5 DEF Chain, ingestVars
  <2> QED
    BY <1>0, <2>1, OwnersStay DEF Owns, Holding
<1>6. ASSUME NEW a \in Callers, EndChain(a) PROVE Owned'
  BY <1>0, <1>6, EndOwns
<1>7. ASSUME NEW a \in Callers, Crash(a) PROVE Owned'
  <2>1. /\ complaint' = complaint /\ stored' = stored /\ runs' = runs /\ todo' = todo
        /\ pc'[a] = "crashed" /\ \A b \in Callers : b # a => pc'[b] = pc[b]
    BY <1>0, <1>7 DEF Crash, Goto, database, script
  <2> QED
    BY <1>0, <2>1, WhoCalls, OwnersStay DEF Owns, Holding
<1> QED
  BY <1>1, <1>2, <1>3, <1>4, <1>5, <1>6, <1>7 DEF Next

\* A complaint goes through the chain once, unless the script selected it while its
\* dispatch was to come (scripts/run_agent_pipeline_on_new.py; agents/dispatch.py).
THEOREM ChainedOnce == Spec => []ChainOnceUnlessRaced
<1>1. ASSUME OwnerInv PROVE ChainOnceUnlessRaced
  <2> SUFFICES ASSUME NEW r \in runs, NEW q \in runs, r.complaint = q.complaint, r.complaint \notin raced
               PROVE  r.by = q.by
    BY DEF ChainOnceUnlessRaced
  <2>1. OwnerOf(r) /\ OwnerOf(q) /\ IdsAreOwn
    BY <1>1 DEF OwnerInv, RunsHaveOwners
  <2>2. Existing \subseteq Ids /\ \A d \in Dispatches : Tier1[d] \notin Ids
    BY IngestionAssumption
  <2>3. ASSUME NEW x, NEW y, OwnerOf(x), OwnerOf(y), x.complaint = y.complaint, x.complaint \notin raced,
               x.by = NoId /\ x.complaint \in Existing
        PROVE  x.by = y.by
    BY <2>1, <2>2, <2>3 DEF OwnerOf, IdsAreOwn, Owns, MayTake, Tier1Ids
  <2>4. ASSUME NEW x, NEW y, OwnerOf(x), OwnerOf(y), x.complaint = y.complaint, x.complaint \notin raced,
               x.by \in Submissions /\ x.complaint = complaint[x.by] /\ pc[x.by] = "done"
        PROVE  x.by = y.by
    BY <2>1, <2>2, <2>4 DEF OwnerOf, IdsAreOwn, Owns, MayTake, Tier1Ids
  <2>5. ASSUME NEW x, NEW y, OwnerOf(x), OwnerOf(y), x.complaint = y.complaint, x.complaint \notin raced,
               x.by \in Dispatches /\ x.complaint = Tier1[x.by] /\ pc[x.by] = "done"
        PROVE  x.by = y.by
    BY <2>1, <2>2, <2>5, IngestionAssumption DEF OwnerOf, IdsAreOwn, Owns, MayTake, Tier1Ids
  <2>6. CASE r.by = Backfill /\ MayTake(r.complaint)
    BY <2>1, <2>2, <2>3, <2>4, <2>5, <2>6 DEF OwnerOf
  <2> QED
    BY <2>1, <2>3, <2>4, <2>5, <2>6 DEF OwnerOf
<1>2. OwnerInv => ChainOnceUnlessRaced
  BY <1>1
<1> QED
  BY <1>2, OwnersBegin, OwnersStep, PTL DEF Spec

-----------------------------------------------------------------------------
(* Enrichment: as long as nobody writes a row of another story, each of    *)
(* its columns is what an open run has loaded or what that run will write. *)

EnrichTypes ==
  /\ draw \in [Corpus -> [resolves : BOOLEAN, lag : Lags, outcome : Outcomes]]
  /\ DOMAIN table = Corpus /\ \A c \in Corpus : DOMAIN table[c] = Columns
  /\ date \in Nat /\ anchor \in [Enrichers -> Nat] /\ stamp \in [Corpus -> Nat]
  /\ DOMAIN run_at = Enrichers /\ DOMAIN loaded = Enrichers /\ DOMAIN overtaken_rows = Enrichers
  /\ changing # NoComplaint => changing \in Corpus

Lives(c) == table[c].status # "absent"

\* A row that a run has read or written has arrived.
RowLives(c) ==
  /\ table[c] = NoRowYet \/ Lives(c)
  /\ stamp[c] # 0 => Lives(c)
  /\ \A e \in Enrichers : loaded[e][c] # NoRowYet => Lives(c)

\* What others leave of a row that a run has loaded.
LoadedHolds(e) ==
  run_at[e] = "loaded" =>
    /\ anchor[e] # 0
    /\ \A c \in Takes(e) : c \notin overtaken_rows[e] =>
         \A k \in Columns : \/ table[c][k] = loaded[e][c][k]
                            \/ table[c][k] = Enriched(c, anchor[e])[k]

RowHolds(c) == stamp[c] # 0 /\ c \notin mixed => table[c] = Enriched(c, stamp[c])

EnrichInv ==
  /\ EnrichTypes
  /\ \A c \in Corpus : RowLives(c) /\ RowHolds(c)
  /\ \A e \in Enrichers : LoadedHolds(e)

\* An enriched row has the columns of a row and is pending or attended.
LEMMA EnrichedRow ==
  ASSUME NEW c, NEW day
  PROVE  /\ Enriched(c, day) = [k \in Columns |-> Enriched(c, day)[k]]
         /\ Enriched(c, day).status # "absent"
<1>1. DOMAIN Enriched(c, day) = Columns
  BY DEF Enriched, Columns
<1>2. Enriched(c, day) = [k \in DOMAIN Enriched(c, day) |-> Enriched(c, day)[k]]
  BY DEF Enriched
<1> QED
  BY <1>1, <1>2 DEF Enriched

\* Nothing has arrived.
LEMMA EnrichBegins == EnrichInit => EnrichInv
<1> SUFFICES ASSUME EnrichInit PROVE EnrichInv
  OBVIOUS
<1>1. DOMAIN NoRowYet = Columns
  BY DEF NoRowYet, Columns
<1>2. EnrichTypes
  BY <1>1 DEF EnrichInit, EnrichTypes, Unread
<1> QED
  BY <1>2 DEF EnrichInit, EnrichInv, RowLives, RowHolds, LoadedHolds, Unread

\* A run ends with its rows written.
LEMMA WriteBackKeeps ==
  ASSUME EnrichInv, NEW e \in Enrichers, WriteBack(e)
  PROVE  EnrichInv'
<1>0. /\ EnrichTypes /\ \A c \in Corpus : RowLives(c) /\ RowHolds(c)
      /\ \A f \in Enrichers : LoadedHolds(f)
  BY DEF EnrichInv
<1>1. /\ run_at[e] = "loaded" /\ run_at' = [run_at EXCEPT ![e] = "done"]
      /\ loaded' = [loaded EXCEPT ![e] = Unread] /\ anchor' = [anchor EXCEPT ![e] = 0]
      /\ draw' = draw /\ date' = date /\ changing' = changing
  BY DEF WriteBack, Closes
<1>2. /\ run_at'[e] = "done" /\ \A c \in Corpus : loaded'[e][c] = NoRowYet
      /\ \A f \in Enrichers : f # e => run_at'[f] = run_at[f] /\ loaded'[f] = loaded[f]
                                       /\ anchor'[f] = anchor[f]
  BY <1>0, <1>1 DEF EnrichTypes, Unread
<1>3. /\ DOMAIN table' = Corpus
      /\ \A c \in Corpus : c \in Takes(e) => table'[c] = [k \in Columns |-> WrittenColumn(e, c, k)]
                                             /\ stamp'[c] = anchor[e]
      /\ \A c \in Corpus : c \notin Takes(e) => table'[c] = table[c] /\ stamp'[c] = stamp[c]
      /\ stamp' \in [Corpus -> Nat]
  BY <1>0 DEF WriteBack, EnrichTypes
<1>4. \A c \in Corpus : c \in mixed' <=> IF c \in Takes(e) THEN c \in overtaken_rows[e] ELSE c \in mixed
  BY DEF WriteBack
<1>5. ASSUME NEW f \in Enrichers, f # e, NEW c \in Takes(e), c \notin overtaken_rows'[f]
      PROVE  c \notin overtaken_rows[f] /\ (run_at[f] = "loaded" => anchor[f] = anchor[e])
  BY <1>5 DEF WriteBack
<1>6. \A f \in Enrichers : f # e => overtaken_rows[f] \subseteq overtaken_rows'[f]
  BY DEF WriteBack
<1>7. EnrichTypes'
  <2>1. DOMAIN overtaken_rows' = Enrichers
    BY DEF WriteBack
  <2>2. \A c \in Corpus : DOMAIN table'[c] = Columns
    BY <1>0, <1>3 DEF EnrichTypes
  <2>3. anchor' \in [Enrichers -> Nat]
    BY <1>0, <1>1 DEF EnrichTypes
  <2> QED
    BY <1>0, <1>1, <1>3, <2>1, <2>2, <2>3 DEF EnrichTypes, NoComplaint
<1>8. ASSUME NEW c \in Takes(e)
      PROVE  /\ c \in Corpus /\ Lives(c)
             /\ \A k \in Columns : \/ table'[c][k] = Enriched(c, anchor[e])[k]
                                   \/ /\ table'[c][k] = table[c][k]
                                      /\ Enriched(c, anchor[e])[k] = loaded[e][c][k]
  <2>1. c \in Corpus /\ loaded[e][c] # NoRowYet
    BY DEF Takes
  <2>2. ASSUME NEW k \in Columns
        PROVE  \/ table'[c][k] = Enriched(c, anchor[e])[k]
               \/ /\ table'[c][k] = table[c][k]
                  /\ Enriched(c, anchor[e])[k] = loaded[e][c][k]
    <3>1. table'[c][k] = WrittenColumn(e, c, k)
      BY <1>3, <2>1
    <3> QED
      BY <3>1 DEF WrittenColumn
  <2> QED
    BY <1>0, <2>1, <2>2 DEF RowLives
<1>9. ASSUME NEW c \in Corpus PROVE RowLives(c)'
  <2>1. CASE c \in Takes(e)
    <3>1. "status" \in Columns
      BY DEF Columns
    <3>2. Lives(c)'
      BY <1>8, <2>1, <3>1, EnrichedRow DEF Lives
    <3> QED
      BY <3>2 DEF RowLives
  <2>2. CASE c \notin Takes(e)
    BY <1>0, <1>2, <1>3, <2>2 DEF RowLives, Lives
  <2> QED
    BY <2>1, <2>2
<1>10. ASSUME NEW c \in Corpus PROVE RowHolds(c)'
  <2>1. CASE c \in Takes(e) /\ c \notin overtaken_rows[e]
    <3>1. \A k \in Columns : table'[c][k] = Enriched(c, anchor[e])[k]
      BY <1>0, <1>1, <1>8, <2>1 DEF LoadedHolds
    <3>2. table'[c] = [k \in Columns |-> table'[c][k]]
      BY <1>3, <2>1
    <3>3. table'[c] = Enriched(c, anchor[e])
      BY <3>1, <3>2, EnrichedRow
    <3> QED
      BY <1>1, <1>3, <2>1, <3>3 DEF RowHolds, Enriched
  <2>2. CASE c \in Takes(e) /\ c \in overtaken_rows[e]
    BY <1>4, <2>2 DEF RowHolds
  <2>3. CASE c \notin Takes(e)
    BY <1>0, <1>1, <1>3, <1>4, <2>3 DEF RowHolds, Enriched
  <2> QED
    BY <2>1, <2>2, <2>3
<1>11. ASSUME NEW f \in Enrichers PROVE LoadedHolds(f)'
  <2>1. CASE f = e
    BY <1>2, <2>1 DEF LoadedHolds
  <2>2. CASE f # e
    <3>1. Takes(f)' = Takes(f) /\ anchor'[f] = anchor[f] /\ loaded'[f] = loaded[f]
          /\ run_at'[f] = run_at[f]
      BY <1>2, <2>2 DEF Takes
    <3>2. \A c : Enriched(c, anchor[f])' = Enriched(c, anchor[f])
      BY <1>1, <3>1 DEF Enriched
    <3>3. ASSUME run_at[f] = "loaded", NEW c \in Takes(f), c \notin overtaken_rows'[f],
                 NEW k \in Columns
          PROVE  \/ table'[c][k] = loaded[f][c][k]
                 \/ table'[c][k] = Enriched(c, anchor[f])[k]
      <4>1. c \notin overtaken_rows[f] /\ c \in Corpus
        BY <1>6, <2>2, <3>3 DEF Takes
      <4>2. CASE c \notin Takes(e)
        BY <1>0, <1>3, <3>3, <4>1, <4>2 DEF LoadedHolds
      <4>3. CASE c \in Takes(e)
        <5>1. anchor[f] = anchor[e]
          BY <1>5, <2>2, <3>3, <4>3
        <5> QED
          BY <1>0, <1>8, <3>3, <4>1, <4>3, <5>1 DEF LoadedHolds
      <4> QED
        BY <4>2, <4>3
    <3>4. run_at[f] = "loaded" => anchor[f] # 0
      BY <1>0 DEF LoadedHolds
    <3> QED
      BY <3>1, <3>2, <3>3, <3>4 DEF LoadedHolds
  <2> QED
    BY <2>1, <2>2
<1> QED
  BY <1>7, <1>9, <1>10, <1>11 DEF EnrichInv

\* Every step keeps the invariant of the enrichment.
LEMMA EnrichStep == EnrichInv /\ [EnrichNext]_enrichVars => EnrichInv'
<1> SUFFICES ASSUME EnrichInv, [EnrichNext]_enrichVars PROVE EnrichInv'
  OBVIOUS
<1>0. /\ EnrichTypes /\ \A c \in Corpus : RowLives(c) /\ RowHolds(c)
      /\ \A f \in Enrichers : LoadedHolds(f)
  BY DEF EnrichInv
<1>1. ASSUME NEW c \in Corpus, Stores(c) PROVE EnrichInv'
  <2>1. /\ draw' = draw /\ date' = date /\ run_at' = run_at /\ anchor' = anchor /\ loaded' = loaded
        /\ changing' = changing /\ stamp' = stamp /\ overtaken_rows' = overtaken_rows
        /\ mixed' = mixed /\ table[c] = NoRowYet
    BY <1>1 DEF Stores, Arrived
  <2>2. PICK r \in Reported[c.source] : table' = [table EXCEPT ![c] = r]
    BY <1>1 DEF Stores
  <2>3. DOMAIN r = Columns /\ r.status # "absent"
    BY EnrichmentAssumption
  <2>4. /\ DOMAIN table' = Corpus /\ table'[c] = r
        /\ \A d \in Corpus : d # c => table'[d] = table[d]
    BY <1>0, <2>2 DEF EnrichTypes
  <2>5. ~Lives(c)
    BY <2>1 DEF Lives, NoRowYet
  <2>6. EnrichTypes'
    BY <1>0, <2>1, <2>3, <2>4 DEF EnrichTypes, NoComplaint
  <2>7. ASSUME NEW d \in Corpus PROVE RowLives(d)' /\ RowHolds(d)'
    <3>1. CASE d = c
      BY <1>0, <2>1, <2>3, <2>4, <2>5, <3>1 DEF RowLives, RowHolds, Lives
    <3>2. CASE d # c
      BY <1>0, <2>1, <2>4, <3>2 DEF RowLives, RowHolds, Lives, Enriched
    <3> QED
      BY <3>1, <3>2
  <2>8. ASSUME NEW f \in Enrichers PROVE LoadedHolds(f)'
    <3>1. Takes(f)' = Takes(f) /\ c \notin Takes(f) /\ Takes(f) \subseteq Corpus
      BY <1>0, <2>1, <2>5 DEF Takes, RowLives
    <3>2. \A d : Enriched(d, anchor[f])' = Enriched(d, anchor[f])
      BY <2>1 DEF Enriched
    <3>3. \A d \in Takes(f) : table'[d] = table[d]
      BY <2>4, <3>1
    <3> QED
      BY <1>0, <2>1, <3>1, <3>2, <3>3 DEF LoadedHolds
  <2> QED
    BY <2>6, <2>7, <2>8 DEF EnrichInv
<1>2. ASSUME /\ table' = table /\ draw' = draw /\ date' \in Nat /\ run_at' = run_at
             /\ anchor' = anchor /\ loaded' = loaded /\ stamp' = stamp
             /\ overtaken_rows' = overtaken_rows /\ mixed' = mixed
             /\ changing' # NoComplaint => changing' \in Corpus
      PROVE  EnrichInv'
  <2>1. EnrichTypes'
    BY <1>0, <1>2 DEF EnrichTypes, NoComplaint
  <2> QED
    BY <1>0, <1>2, <2>1 DEF EnrichInv, RowLives, RowHolds, LoadedHolds, Lives, Enriched, Takes
<1>3. CASE Midnight \/ \E c \in Corpus : PatchChecks(c)
  BY <1>0, <1>2, <1>3 DEF Midnight, PatchChecks, EnrichTypes
<1>4. CASE PatchCommits
  <2>1. /\ draw' = draw /\ date' = date /\ run_at' = run_at /\ anchor' = anchor /\ loaded' = loaded
        /\ stamp' = stamp /\ changing' = NoComplaint /\ changing \in Corpus
        /\ mixed' = mixed \union {changing}
    BY <1>0, <1>4 DEF PatchCommits, EnrichTypes
  <2>2. PICK s \in {"atendido", "anulado"} : table' = [table EXCEPT ![changing].status = s]
    BY <1>4 DEF PatchCommits
  <2>3. /\ DOMAIN table' = Corpus /\ table'[changing] = [table[changing] EXCEPT !.status = s]
        /\ \A d \in Corpus : d # changing => table'[d] = table[d]
    BY <1>0, <2>1, <2>2 DEF EnrichTypes
  <2>4. DOMAIN table'[changing] = Columns /\ table'[changing].status # "absent"
    BY <1>0, <2>1, <2>3 DEF EnrichTypes, Columns
  <2>5. /\ DOMAIN overtaken_rows' = Enrichers
        /\ \A e \in Enrichers : overtaken_rows[e] \subseteq overtaken_rows'[e]
        /\ \A e \in Enrichers : run_at[e] = "loaded" => changing \in overtaken_rows'[e]
    BY <1>4 DEF PatchCommits
  <2>6. EnrichTypes'
    BY <1>0, <2>1, <2>3, <2>4, <2>5 DEF EnrichTypes, NoComplaint
  <2>7. ASSUME NEW d \in Corpus PROVE RowLives(d)' /\ RowHolds(d)'
    <3>1. CASE d = changing
      BY <2>1, <2>4, <3>1 DEF RowLives, RowHolds, Lives
    <3>2. CASE d # changing
      BY <1>0, <2>1, <2>3, <3>2 DEF RowLives, RowHolds, Lives, Enriched
    <3> QED
      BY <3>1, <3>2
  <2>8. ASSUME NEW f \in Enrichers PROVE LoadedHolds(f)'
    <3>1. Takes(f)' = Takes(f) /\ Takes(f) \subseteq Corpus
      BY <2>1 DEF Takes
    <3>2. \A d : Enriched(d, anchor[f])' = Enriched(d, anchor[f])
      BY <2>1 DEF Enriched
    <3>3. run_at[f] = "loaded" => \A d \in Takes(f) : d \notin overtaken_rows'[f] =>
            d \notin overtaken_rows[f] /\ table'[d] = table[d]
      BY <2>3, <2>5, <3>1
    <3> QED
      BY <1>0, <2>1, <3>1, <3>2, <3>3 DEF LoadedHolds
  <2> QED
    BY <2>6, <2>7, <2>8 DEF EnrichInv
<1>5. ASSUME NEW e \in Enrichers, Load(e) PROVE EnrichInv'
  <2>1. /\ table' = table /\ draw' = draw /\ date' = date /\ stamp' = stamp /\ mixed' = mixed
        /\ overtaken_rows' = overtaken_rows /\ changing' = changing
        /\ loaded' = [loaded EXCEPT ![e] = table] /\ run_at' = [run_at EXCEPT ![e] = "loaded"]
    BY <1>5 DEF Load
  <2>2. PICK day \in 1..date : anchor' = [anchor EXCEPT ![e] = day]
    BY <1>5 DEF Load
  <2>3. /\ loaded'[e] = table /\ anchor'[e] = day /\ day \in Nat /\ day # 0
        /\ \A f \in Enrichers : f # e => /\ loaded'[f] = loaded[f] /\ anchor'[f] = anchor[f]
                                         /\ run_at'[f] = run_at[f]
    BY <1>0, <2>1, <2>2 DEF EnrichTypes
  <2>4. EnrichTypes'
    BY <1>0, <2>1, <2>2, <2>3 DEF EnrichTypes, NoComplaint
  <2>5. ASSUME NEW d \in Corpus PROVE RowLives(d)' /\ RowHolds(d)'
    BY <1>0, <2>1, <2>3 DEF RowLives, RowHolds, Lives, Enriched
  <2>6. LoadedHolds(e)'
    BY <2>1, <2>3 DEF LoadedHolds
  <2>7. ASSUME NEW f \in Enrichers, f # e PROVE LoadedHolds(f)'
    BY <1>0, <2>1, <2>3, <2>7 DEF LoadedHolds, Takes, Enriched
  <2> QED
    BY <2>4, <2>5, <2>6, <2>7 DEF EnrichInv
<1>6. ASSUME NEW e \in Enrichers, BreaksOff(e) PROVE EnrichInv'
  <2>1. /\ table' = table /\ draw' = draw /\ date' = date /\ stamp' = stamp /\ mixed' = mixed
        /\ overtaken_rows' = [overtaken_rows EXCEPT ![e] = {}] /\ changing' = changing
        /\ loaded' = [loaded EXCEPT ![e] = Unread] /\ run_at' = [run_at EXCEPT ![e] = "dead"]
        /\ anchor' = [anchor EXCEPT ![e] = 0]
    BY <1>6 DEF BreaksOff, Closes
  <2>2. /\ run_at'[e] = "dead" /\ \A c \in Corpus : loaded'[e][c] = NoRowYet
        /\ \A f \in Enrichers : f # e => /\ loaded'[f] = loaded[f] /\ anchor'[f] = anchor[f]
                                         /\ run_at'[f] = run_at[f]
                                         /\ overtaken_rows'[f] = overtaken_rows[f]
    BY <1>0, <2>1 DEF EnrichTypes, Unread
  <2>3. EnrichTypes'
    BY <1>0, <2>1 DEF EnrichTypes, NoComplaint
  <2>4. ASSUME NEW d \in Corpus PROVE RowLives(d)' /\ RowHolds(d)'
    BY <1>0, <2>1, <2>2 DEF RowLives, RowHolds, Lives, Enriched
  <2>5. LoadedHolds(e)'
    BY <2>2 DEF LoadedHolds
  <2>6. ASSUME NEW f \in Enrichers, f # e PROVE LoadedHolds(f)'
    BY <1>0, <2>1, <2>2, <2>6 DEF LoadedHolds, Takes, Enriched
  <2> QED
    BY <2>3, <2>4, <2>5, <2>6 DEF EnrichInv
<1>7. CASE UNCHANGED enrichVars
  BY <1>0, <1>2, <1>7 DEF enrichVars, EnrichTypes
<1> QED
  BY <1>1, <1>3, <1>4, <1>5, <1>6, <1>7, WriteBackKeeps DEF EnrichNext

\* A row is what the last run over it makes of it: resolved as a whole or not at
\* all, after it was received and never in the future.
LEMMA EnrichedIsWhole == EnrichInv => RowsAsEnriched
<1> SUFFICES ASSUME EnrichInv, NEW c \in Corpus, stamp[c] # 0, c \notin mixed
             PROVE  /\ table[c] = Enriched(c, stamp[c])
                    /\ (table[c].tipo # "none") = (table[c].status = "atendido")
                    /\ table[c].fecha # 0 => c.received < table[c].fecha /\ table[c].fecha <= stamp[c]
  BY DEF RowsAsEnriched
<1>1. table[c] = Enriched(c, stamp[c])
  BY DEF EnrichInv, RowHolds
<1>2. /\ draw[c].lag \in Nat \ {0} /\ draw[c].outcome # "none" /\ c.received \in Nat
      /\ stamp[c] \in Nat
  <2>1. draw[c] \in [resolves : BOOLEAN, lag : Lags, outcome : Outcomes] /\ stamp[c] \in Nat
    BY DEF EnrichInv, EnrichTypes
  <2>2. draw[c].lag \in Lags /\ draw[c].outcome \in Outcomes
    BY <2>1
  <2> QED
    BY <2>1, <2>2, EnrichmentAssumption
<1>3. CASE draw[c].resolves /\ c.received + draw[c].lag <= stamp[c]
  BY <1>1, <1>2, <1>3 DEF Enriched
<1>4. CASE ~(draw[c].resolves /\ c.received + draw[c].lag <= stamp[c])
  BY <1>1, <1>2, <1>4 DEF Enriched
<1> QED
  BY <1>1, <1>3, <1>4

\* The enrichment is idempotent, and its rows are consistent, unless a status
\* change or a run of another day came between.
THEOREM EnrichedTwiceIsOnce == EnrichSpec => []RowsAsEnriched
  BY EnrichBegins, EnrichStep, EnrichedIsWhole, PTL DEF EnrichSpec

-----------------------------------------------------------------------------
(* DemoSeeds: a complaint that is not crossed has at most one script at    *)
(* work on it, whose DELETE therefore takes all that its story replaces.   *)

SeedTypes == DOMAIN at = Seeders /\ DOMAIN chosen = Seeders /\ DOMAIN doomed = Seeders /\ DOMAIN deleted = Seeders

\* Rows and scripts are about complaints that have been received.
AboutReceived ==
  /\ \A r \in agent_runs : r.of \in received
  /\ \A s \in Seeders : chosen[s] \subseteq received

OneAtWork ==
  \A s, q \in Seeders : s # q /\ AtWork(s) /\ AtWork(q) => chosen[s] \intersect chosen[q] \subseteq crossed

\* A row in whose place a script puts its story.
Replaced(r, s) == r.of \in chosen[s] /\ r.of \notin crossed /\ r.agent \in Trio

NamedAreChosen(s) == KindOf[s] = "narrative" => \A i \in 1..3 : Named[i] \in chosen[s]

SeedLocal(s) ==
  /\ AtWork(s) => NamedAreChosen(s)
  /\ at[s] \in {"deleting", "inserted"} => \A r \in doomed[s] : r.of \in chosen[s]
  /\ at[s] = "deleting" => \A r \in agent_runs : Replaced(r, s) => r \in doomed[s]
  /\ at[s] = "inserted" => /\ \A r \in agent_runs : Replaced(r, s) => r \in deleted[s]
                           /\ deleted[s] \subseteq doomed[s]

OneAuthor ==
  \A r, q \in agent_runs :
    r.of = q.of /\ {r.agent, q.agent} \subseteq Trio /\ r.of \notin crossed => r.by = q.by

ToldToTheEnd ==
  \A r \in agent_runs :
    r.by \in Seeders /\ r.agent \in Trio /\ r.of \notin crossed =>
      Written(r.of, Trio, r.by) \subseteq agent_runs

GoldenTold ==
  \A c \in golden : \E s \in Seeders :
    KindOf[s] = "golden" /\ c \in chosen[s] /\ at[s] \in {"committed", "done", "dead"}

SeedInv ==
  /\ SeedTypes /\ AboutReceived /\ OneAtWork
  /\ \A s \in Seeders : SeedLocal(s)
  /\ OneAuthor /\ ToldToTheEnd /\ GoldenTold

\* What a script inserts is about its complaints, is signed by it, and has the trio
\* whole or not at all.
LEMMA StoryRows ==
  ASSUME NEW s \in Seeders, NamedAreChosen(s), NEW r \in Story(s)
  PROVE  /\ r.of \in chosen[s] /\ r.by = s
         /\ r.agent \in Trio => Written(r.of, Trio, s) \subseteq Story(s)
<1>1. CASE KindOf[s] = "narrative"
  <2>1. /\ r.of \in {Named[1], Named[2], Named[3]} /\ r.by = s
        /\ r.agent \in {"classifier", "narrative-drafter", "cross-source-correlator",
                        "classifier, BERT late", "classifier, XGBoost away",
                        "classifier, anonymizer down"}
    <3>1. \/ r \in Written(Named[1], {"classifier", "narrative-drafter", "cross-source-correlator"}, s)
          \/ r \in Written(Named[2], {"classifier, BERT late", "classifier, XGBoost away"}, s)
          \/ r \in Written(Named[3], {"classifier, anonymizer down"}, s)
      BY <1>1 DEF Story
    <3>2. ASSUME NEW c, NEW agents, r \in Written(c, agents, s)
          PROVE  r.of = c /\ r.by = s /\ r.agent \in agents
      BY <3>2 DEF Written
    <3> QED
      BY <3>1, <3>2
  <2>2. r.agent \notin Trio
    BY <2>1 DEF Trio
  <2>3. Named[1] \in chosen[s] /\ Named[2] \in chosen[s] /\ Named[3] \in chosen[s]
    BY <1>1 DEF NamedAreChosen
  <2> QED
    BY <2>1, <2>2, <2>3
<1>2. CASE KindOf[s] # "narrative"
  <2>1. PICK c \in chosen[s] : r \in Written(c, Trio, s)
    BY <1>2 DEF Story
  <2>2. r.of = c /\ r.by = s
    BY <2>1 DEF Written
  <2> QED
    BY <1>2, <2>1, <2>2 DEF Story
<1> QED
  BY <1>1, <1>2

\* Nothing is stored and nobody has begun.
LEMMA SeedsBegin == SeedsInit => SeedInv
  BY DEF SeedsInit, SeedInv, SeedTypes, AboutReceived, OneAtWork, SeedLocal, AtWork, OneAuthor,
         ToldToTheEnd, GoldenTold

\* A script commits its story.
LEMMA CommitTells ==
  ASSUME SeedInv, NEW s \in Seeders, Commit(s)
  PROVE  SeedInv'
<1>0. /\ SeedTypes /\ AboutReceived /\ OneAtWork /\ OneAuthor /\ ToldToTheEnd /\ GoldenTold
      /\ \A q \in Seeders : SeedLocal(q)
  BY DEF SeedInv
<1>1. /\ received' = received /\ chosen' = chosen /\ doomed' = doomed /\ deleted' = deleted
      /\ golden' = golden /\ crossed' = crossed /\ at[s] = "inserted"
      /\ agent_runs' = (agent_runs \ deleted[s]) \union Story(s)
      /\ at' = [at EXCEPT ![s] = "committed"]
  BY DEF Commit
<1>2. at'[s] = "committed" /\ \A q \in Seeders : q # s => at'[q] = at[q]
  BY <1>0, <1>1 DEF SeedTypes
<1>3. /\ NamedAreChosen(s) /\ \A r \in deleted[s] : r.of \in chosen[s]
      /\ \A r \in agent_runs : Replaced(r, s) => r \in deleted[s]
  BY <1>0, <1>1 DEF SeedLocal, AtWork
<1>4. ASSUME NEW r \in agent_runs', r.of \notin crossed, r.agent \in Trio
      PROVE  IF r.of \in chosen[s] THEN r \in Story(s) ELSE r \in agent_runs
  <2>1. CASE r \in Story(s)
    BY <1>3, <2>1, StoryRows
  <2>2. CASE r \notin Story(s)
    BY <1>1, <1>3, <1>4, <2>2 DEF Replaced
  <2> QED
    BY <2>1, <2>2
<1>5. SeedTypes' /\ GoldenTold'
  BY <1>0, <1>1, <1>2 DEF SeedTypes, GoldenTold
<1>6. AboutReceived'
  <2>1. \A r \in Story(s) : r.of \in received
    BY <1>0, <1>3, StoryRows DEF AboutReceived
  <2> QED
    BY <1>0, <1>1, <2>1 DEF AboutReceived
<1>7. \A q \in Seeders : AtWork(q)' => AtWork(q) /\ q # s
  BY <1>2 DEF AtWork
<1>8. OneAtWork'
  BY <1>0, <1>1, <1>7 DEF OneAtWork
<1>9. ASSUME NEW q \in Seeders PROVE SeedLocal(q)'
  <2>1. CASE q = s
    BY <1>2, <2>1 DEF SeedLocal, AtWork
  <2>2. CASE q # s
    <3>1. at'[q] = at[q]
      BY <1>2, <2>2
    <3>2. ASSUME at[q] \in {"deleting", "inserted"}, NEW r \in agent_runs', Replaced(r, q)
          PROVE  r \in agent_runs
      <4>1. AtWork(q) /\ AtWork(s)
        BY <1>1, <3>2 DEF AtWork
      <4>2. r.of \notin chosen[s]
        BY <1>0, <2>2, <3>2, <4>1 DEF OneAtWork, Replaced
      <4> QED
        BY <1>4, <3>2, <4>2 DEF Replaced
    <3>3. \A r : Replaced(r, q)' <=> Replaced(r, q)
      BY <1>1 DEF Replaced
    <3> QED
      BY <1>0, <1>1, <3>1, <3>2, <3>3 DEF SeedLocal, AtWork, NamedAreChosen
  <2> QED
    BY <2>1, <2>2
<1>10. OneAuthor'
  <2> SUFFICES ASSUME NEW r \in agent_runs', NEW q \in agent_runs', r.of = q.of, r.agent \in Trio,
                      q.agent \in Trio, r.of \notin crossed
               PROVE  r.by = q.by
    BY <1>1 DEF OneAuthor
  <2>1. CASE r.of \in chosen[s]
    <3>1. r \in Story(s) /\ q \in Story(s)
      BY <1>4, <2>1
    <3> QED
      BY <1>3, <3>1, StoryRows
  <2>2. CASE r.of \notin chosen[s]
    <3>1. r \in agent_runs /\ q \in agent_runs
      BY <1>4, <2>2
    <3> QED
      BY <1>0, <3>1 DEF OneAuthor
  <2> QED
    BY <2>1, <2>2
<1>11. ToldToTheEnd'
  <2> SUFFICES ASSUME NEW r \in agent_runs', r.by \in Seeders, r.agent \in Trio, r.of \notin crossed,
                      NEW x \in Written(r.of, Trio, r.by)
               PROVE  x \in agent_runs'
    BY <1>1 DEF ToldToTheEnd
  <2>1. CASE r.of \in chosen[s]
    <3>1. r \in Story(s)
      BY <1>4, <2>1
    <3> QED
      BY <1>1, <1>3, <3>1, StoryRows
  <2>2. CASE r.of \notin chosen[s]
    <3>1. r \in agent_runs
      BY <1>4, <2>2
    <3>2. x \in agent_runs /\ x.of = r.of
      BY <1>0, <3>1 DEF ToldToTheEnd, Written
    <3> QED
      BY <1>1, <1>3, <2>2, <3>2
  <2> QED
    BY <2>1, <2>2
<1> QED
  BY <1>5, <1>6, <1>8, <1>9, <1>10, <1>11 DEF SeedInv

\* A script chooses: whoever is at work on one of its complaints is crossed.
LEMMA ChooseCrosses ==
  ASSUME SeedInv, NEW s \in Seeders, Choose(s)
  PROVE  SeedInv'
<1>0. /\ SeedTypes /\ AboutReceived /\ OneAtWork /\ OneAuthor /\ ToldToTheEnd /\ GoldenTold
      /\ \A q \in Seeders : SeedLocal(q)
  BY DEF SeedInv
<1>1. PICK ids \in Choices(s) :
        /\ chosen' = [chosen EXCEPT ![s] = ids]
        /\ crossed' = crossed \union UNION {ids \intersect chosen[q] : q \in {p \in Seeders : AtWork(p)}}
  BY DEF Choose
<1>2. /\ received' = received /\ agent_runs' = agent_runs /\ doomed' = doomed /\ deleted' = deleted
      /\ golden' = golden /\ at[s] = "new" /\ at' = [at EXCEPT ![s] = "chosen"]
  BY DEF Choose
<1>3. /\ at'[s] = "chosen" /\ chosen'[s] = ids
      /\ \A q \in Seeders : q # s => at'[q] = at[q] /\ chosen'[q] = chosen[q]
  BY <1>0, <1>1, <1>2 DEF SeedTypes
<1>4. crossed \subseteq crossed' /\ \A q \in Seeders : AtWork(q) => ids \intersect chosen[q] \subseteq crossed'
  BY <1>1
<1>5. ids \subseteq received /\ (KindOf[s] = "narrative" => \A i \in 1..3 : Named[i] \in ids)
  <2>1. CASE KindOf[s] = "golden"
    BY <1>0, <2>1 DEF Choices, Candidates, AboutReceived
  <2>2. CASE KindOf[s] = "journey"
    BY <2>2 DEF Choices
  <2>3. CASE KindOf[s] = "narrative"
    BY <2>3 DEF Choices
  <2> QED
    BY <2>1, <2>2, <2>3, SeedsAssumption
<1>6. SeedTypes' /\ AboutReceived'
  BY <1>0, <1>1, <1>2, <1>3, <1>5 DEF SeedTypes, AboutReceived
<1>7. OneAtWork'
  <2> SUFFICES ASSUME NEW p \in Seeders, NEW q \in Seeders, p # q, AtWork(p)', AtWork(q)',
                      NEW c \in chosen'[p], c \in chosen'[q]
               PROVE  c \in crossed'
    BY DEF OneAtWork
  <2>1. \A r \in Seeders : r # s => (AtWork(r)' <=> AtWork(r))
    BY <1>3 DEF AtWork
  <2>2. CASE p = s
    BY <1>3, <1>4, <2>1, <2>2
  <2>3. CASE q = s
    BY <1>3, <1>4, <2>1, <2>3
  <2>4. CASE p # s /\ q # s
    BY <1>0, <1>3, <1>4, <2>1, <2>4 DEF OneAtWork
  <2> QED
    BY <2>2, <2>3, <2>4
<1>8. SeedLocal(s)'
  BY <1>3, <1>5 DEF SeedLocal, NamedAreChosen
<1>9. ASSUME NEW q \in Seeders, q # s PROVE SeedLocal(q)'
  BY <1>0, <1>2, <1>3, <1>4, <1>9 DEF SeedLocal, AtWork, NamedAreChosen, Replaced
<1>10. OneAuthor' /\ ToldToTheEnd'
  BY <1>0, <1>2, <1>4 DEF OneAuthor, ToldToTheEnd
<1>11. GoldenTold'
  BY <1>0, <1>2, <1>3 DEF GoldenTold
<1> QED
  BY <1>6, <1>7, <1>8, <1>9, <1>10, <1>11 DEF SeedInv

\* A complaint arrives with what its chain wrote.
LEMMA ReceiveTells ==
  ASSUME SeedInv, NEW c \in Complaints, Receive(c)
  PROVE  SeedInv'
<1>0. /\ SeedTypes /\ AboutReceived /\ OneAtWork /\ OneAuthor /\ ToldToTheEnd /\ GoldenTold
      /\ \A q \in Seeders : SeedLocal(q)
  BY DEF SeedInv
<1>1. /\ at' = at /\ chosen' = chosen /\ doomed' = doomed /\ deleted' = deleted /\ golden' = golden
      /\ crossed' = crossed /\ received' = received \union {c} /\ c \notin received
  BY DEF Receive
<1>2. PICK agents : agent_runs' = agent_runs \union Written(c, agents, "chain")
  BY DEF Receive
<1>3. \A r \in Written(c, agents, "chain") : r.of = c /\ r.by = "chain"
  BY DEF Written
<1>4. \A r \in agent_runs' : r.of # c => r \in agent_runs
  BY <1>2, <1>3
<1>5. \A r \in agent_runs' : r.of = c => r.by = "chain" /\ r.by \notin Seeders
  BY <1>0, <1>1, <1>2, <1>3, SeedsAssumption DEF AboutReceived
<1>6. SeedTypes' /\ OneAtWork' /\ GoldenTold'
  BY <1>0, <1>1 DEF SeedTypes, OneAtWork, AtWork, GoldenTold
<1>7. AboutReceived'
  BY <1>0, <1>1, <1>4 DEF AboutReceived
<1>8. ASSUME NEW q \in Seeders PROVE SeedLocal(q)'
  <2>1. \A r \in agent_runs' : Replaced(r, q) => r \in agent_runs
    BY <1>0, <1>1, <1>4 DEF Replaced, AboutReceived
  <2> QED
    BY <1>0, <1>1, <2>1 DEF SeedLocal, AtWork, NamedAreChosen, Replaced
<1>9. OneAuthor'
  BY <1>0, <1>1, <1>4, <1>5 DEF OneAuthor
<1>10. ToldToTheEnd'
  <2> SUFFICES ASSUME NEW r \in agent_runs', r.by \in Seeders, r.agent \in Trio, r.of \notin crossed
               PROVE  Written(r.of, Trio, r.by) \subseteq agent_runs'
    BY <1>1 DEF ToldToTheEnd
  <2>1. r \in agent_runs
    BY <1>4, <1>5
  <2> QED
    BY <1>0, <1>2, <2>1 DEF ToldToTheEnd
<1> QED
  BY <1>6, <1>7, <1>8, <1>9, <1>10 DEF SeedInv

\* The steps of a script that change no row.
LEMMA ScriptMoves ==
  ASSUME SeedInv, NEW s \in Seeders, BeginDelete(s) \/ DeleteInsert(s) \/ WriteFile(s) \/ Dies(s)
  PROVE  SeedInv'
<1>0. /\ SeedTypes /\ AboutReceived /\ OneAtWork /\ OneAuthor /\ ToldToTheEnd /\ GoldenTold
      /\ \A q \in Seeders : SeedLocal(q)
  BY DEF SeedInv
<1>1. /\ received' = received /\ agent_runs' = agent_runs /\ chosen' = chosen /\ crossed' = crossed
      /\ AtWork(s)' => AtWork(s)
      /\ \A q \in Seeders : q # s => at'[q] = at[q]
      /\ DOMAIN at' = Seeders
  BY <1>0 DEF BeginDelete, DeleteInsert, WriteFile, Dies, SeedTypes, AtWork
<1>2. /\ DOMAIN doomed' = Seeders /\ DOMAIN deleted' = Seeders
      /\ \A q \in Seeders : q # s => doomed'[q] = doomed[q] /\ deleted'[q] = deleted[q]
  BY <1>0 DEF BeginDelete, DeleteInsert, WriteFile, Dies, SeedTypes
<1>3. SeedTypes' /\ AboutReceived' /\ OneAuthor' /\ ToldToTheEnd'
  BY <1>0, <1>1, <1>2 DEF SeedTypes, AboutReceived, OneAuthor, ToldToTheEnd
<1>4. \A q \in Seeders : AtWork(q)' => AtWork(q)
  BY <1>1 DEF AtWork
<1>5. OneAtWork'
  BY <1>0, <1>1, <1>4 DEF OneAtWork
<1>6. ASSUME NEW q \in Seeders, q # s PROVE SeedLocal(q)'
  BY <1>0, <1>1, <1>2, <1>6 DEF SeedLocal, AtWork, NamedAreChosen, Replaced
<1>7. SeedLocal(s)'
  <2>1. AtWork(s)' => NamedAreChosen(s)'
    BY <1>0, <1>1 DEF SeedLocal, NamedAreChosen
  <2>2. CASE BeginDelete(s)
    <3>1. /\ at'[s] = "deleting"
          /\ doomed'[s] = {r \in agent_runs : r.of \in chosen[s] /\ r.agent \in DeletedAgents(s)}
      BY <1>0, <2>2 DEF BeginDelete, SeedTypes
    <3>2. \A r \in agent_runs : r.agent \in Trio => r.agent \in DeletedAgents(s)
      BY DEF DeletedAgents
    <3> QED
      BY <1>1, <2>1, <3>1, <3>2 DEF SeedLocal, Replaced
  <2>3. CASE DeleteInsert(s)
    <3>1. /\ at[s] = "deleting" /\ at'[s] = "inserted" /\ doomed' = doomed
          /\ deleted'[s] = doomed[s] \intersect agent_runs
      BY <1>0, <2>3 DEF DeleteInsert, SeedTypes
    <3> QED
      BY <1>0, <1>1, <2>1, <3>1 DEF SeedLocal, Replaced
  <2>4. CASE WriteFile(s) \/ Dies(s)
    <3>1. at'[s] \in {"done", "dead"}
      BY <1>0, <2>4 DEF WriteFile, Dies, SeedTypes
    <3> QED
      BY <3>1 DEF SeedLocal, AtWork
  <2> QED
    BY <2>2, <2>3, <2>4
<1>8. GoldenTold'
  <2>1. CASE WriteFile(s)
    <3>1. golden' = chosen[s] /\ KindOf[s] = "golden" /\ at'[s] = "done"
      BY <1>0, <2>1 DEF WriteFile, SeedTypes
    <3> QED
      BY <1>1, <3>1 DEF GoldenTold
  <2>2. CASE ~WriteFile(s)
    <3>1. golden' = golden
      BY <2>2 DEF BeginDelete, DeleteInsert, Dies
    <3>2. at[s] \in {"committed", "done", "dead"} => at'[s] \in {"committed", "done", "dead"}
      BY <1>0, <2>2 DEF BeginDelete, DeleteInsert, Dies, SeedTypes
    <3> QED
      BY <1>0, <1>1, <3>1, <3>2 DEF GoldenTold
  <2> QED
    BY <2>1, <2>2
<1> QED
  BY <1>3, <1>5, <1>6, <1>7, <1>8 DEF SeedInv

\* Every step keeps the invariant of the scripts.
LEMMA SeedsStep == SeedInv /\ [SeedsNext]_seedVars => SeedInv'
<1> SUFFICES ASSUME SeedInv, [SeedsNext]_seedVars PROVE SeedInv'
  OBVIOUS
<1>1. CASE UNCHANGED seedVars
  BY <1>1 DEF seedVars, SeedInv, SeedTypes, AboutReceived, OneAtWork, SeedLocal, AtWork,
              NamedAreChosen, Replaced, OneAuthor, ToldToTheEnd, GoldenTold
<1> QED
  BY <1>1, CommitTells, ChooseCrosses, ReceiveTells, ScriptMoves DEF SeedsNext

\* A complaint's triage, investigation and synthesis are by one author and told to
\* their end, unless two scripts worked on it at a time
\* (scripts/seed_golden_complaint.py, journey_submit.py, seed_demo_narrative.py).
THEOREM StoriesAreOne == SeedsSpec => []OneStory
<1>1. SeedInv => OneStory
  BY DEF SeedInv, OneStory, OneAuthor, ToldToTheEnd, GoldenTold
<1> QED
  BY <1>1, SeedsBegin, SeedsStep, PTL DEF SeedsSpec

\* Beside everything else that runs, the scripts leave one story: what they do
\* to the tables is DemoSeeds and Enrichment, whatever the agents, the social
\* runs and the completions do meanwhile.
THEOREM ScriptsTellOne == AllSpec => []ScriptsLeaveOneStory
<1>1. AllInit => SeedsInit /\ EnrichInit
  BY DEF AllInit
<1>2. [AllNext]_allVars => [SeedsNext]_seedVars
  BY DEF AllNext, allVars
<1>3. [AllNext]_allVars => [EnrichNext]_enrichVars
  BY DEF AllNext, allVars
<1>4. AllSpec => SeedsSpec /\ EnrichSpec
  BY <1>1, <1>2, <1>3, PTL DEF AllSpec, SeedsSpec, EnrichSpec
<1>5. OneStory /\ RowsAsEnriched => ScriptsLeaveOneStory
  BY DEF ScriptsLeaveOneStory
<1> QED
  BY <1>4, <1>5, StoriesAreOne, EnrichedTwiceIsOnce, PTL
=============================================================================
