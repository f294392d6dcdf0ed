------------------------------ MODULE RulesProofs ------------------------------
(***************************************************************************)
(* Theorems about what stands before the routes and about the rules that   *)
(* are functions of their input.  RequestPerimeter, for any number of      *)
(* payloads, copies and processes, any clocks and settings its assumptions *)
(* admit: the replay cache is right because the key of an accepted copy    *)
(* outlives every moment at which another copy can reach the claim; the    *)
(* limiter is right because the level and the draws together never exceed  *)
(* what the time since the first draw refilled.  RecordValidation, for any *)
(* batches: a verdict is earned row by row.  SupervisorViews, DataQuality, *)
(* TriageRules, AnnexRows and Redaction, for every list of runs, every     *)
(* submission, every sheet and every set of detections: what MC_Rules      *)
(* examines case by case.                                                  *)
(***************************************************************************)
EXTENDS MC_Rules, PeerRiskProofs

\* The signed request of a copy.
SignedOf(c) == signed[RequestOf[c]]

ReplayTypes ==
  /\ now \in Nat
  /\ claim \in [Payloads -> Nat]
  /\ pc \in [Copies -> {"unsent", "authenticated", "verified", "claimed", "done"}]
  /\ answer \in [Copies -> {"none", "rejected", "replayed", "served", "limited"}]
  /\ checked \in [Copies -> Nat]
  /\ DOMAIN signed = Payloads
  /\ \A r \in Payloads : signed[r] # Unsigned => signed[r].ts \in Int

\* A copy under way has no answer yet, and its request is signed for good.
Underway ==
  \A c \in Copies :
    /\ pc[c] # "done" => answer[c] = "none"
    /\ pc[c] # "unsent" => SignedOf(c) # Unsigned

\* A verified copy was checked inside its signature's window, and not long ago.
VerifiedInTime ==
  \A c \in Copies : pc[c] = "verified" =>
    /\ checked[c] <= now /\ now <= checked[c] + MaxStall
    /\ Timely(SignedOf(c).ts, checked[c] + Offset[c])

\* The last moment of Redis's clock at which copy d can reach its claim.
LastClaim(d) == SignedOf(d).ts + Skew - Offset[d] + MaxStall

\* The key of an accepted copy outlives the claim of every other copy.
ClaimOutlives ==
  \A c, d \in Copies :
    Accepted(c) /\ RequestOf[c] = RequestOf[d] => claim[RequestOf[d]] > LastClaim(d)

ReplayInv == ReplayTypes /\ Underway /\ VerifiedInTime /\ ClaimOutlives /\ AcceptedOnce

-----------------------------------------------------------------------------
(* The replay cache.                                                       *)

\* At first nothing is signed, sent or claimed.
LEMMA ReplayInit == PerimeterInit => ReplayInv
BY DEF PerimeterInit, ReplayInv, ReplayTypes, Underway, VerifiedInTime, ClaimOutlives,
       AcceptedOnce, Accepted

\* The step that matters is the claim: a key that is not in the cache has no
\* accepted copy, and a new key covers the last claim of every other copy.
LEMMA ReplayStep == ReplayInv /\ [PerimeterNext]_perimeterVars => ReplayInv'
<1> SUFFICES ASSUME ReplayInv, [PerimeterNext]_perimeterVars PROVE ReplayInv'
  OBVIOUS
<1> USE PerimeterAssumption
    DEF ReplayInv, ReplayTypes, Underway, VerifiedInTime, ClaimOutlives, AcceptedOnce,
        Accepted, SignedOf, LastClaim, Timely
<1>1. CASE Tick
  BY <1>1 DEF Tick, sender, copies
<1>2. CASE Administer \/ Learn \/ GetToken
  BY <1>2 DEF Administer, Learn, GetToken, sender, copies
<1>3. ASSUME NEW r \in Payloads, Sign(r) PROVE ReplayInv'
  BY <1>3 DEF Sign, copies
<1>4. ASSUME NEW c \in Copies, TooLarge(c) \/ Authenticate(c) PROVE ReplayInv'
  BY <1>4 DEF TooLarge, Authenticate, Sent, Refuse, sender
<1>5. ASSUME NEW c \in Copies, Verify(c) PROVE ReplayInv'
  BY <1>5 DEF Verify, Refuse, sender, Clock
<1>6. ASSUME NEW c \in Copies, Claim(c) PROVE ReplayInv'
  <2> DEFINE r == RequestOf[c]
  <2>1. /\ pc[c] = "verified" /\ r \in Payloads
        /\ checked' = [checked EXCEPT ![c] = 0]
        /\ UNCHANGED <<now, signed>>
    BY <1>6 DEF Claim, sender
  <2>2. CASE claim[r] > now /\ Refuse(c, "replayed") /\ UNCHANGED claim
    BY <2>1, <2>2 DEF Refuse
  <2>3. CASE /\ ~(claim[r] > now)
             /\ claim' = [claim EXCEPT ![r] = now + ReplayTTL]
             /\ pc' = [pc EXCEPT ![c] = "claimed"]
             /\ UNCHANGED answer
    <3>1. \A d \in Copies : Accepted(d) => RequestOf[d] # r
      BY <2>1, <2>3
    <3>2. ReplayTypes' /\ Underway' /\ VerifiedInTime'
      BY <2>1, <2>3
    <3>3. \A d \in Copies : Accepted(d)' <=> d = c \/ Accepted(d)
      BY <2>1, <2>3
    <3>4. AcceptedOnce'
      BY <3>1, <3>3
    <3>5. \A d \in Copies : RequestOf[d] = r => now + ReplayTTL > LastClaim(d)
      <4>1. ASSUME NEW d \in Copies, RequestOf[d] = r
            PROVE  now + ReplayTTL > LastClaim(d)
        <5>1. /\ SignedOf(d) = SignedOf(c) /\ SignedOf(c).ts \in Int
              /\ SignedOf(c).ts - (checked[c] + Offset[c]) <= Future
              /\ checked[c] <= now
          BY <2>1, <4>1
        <5>2. ReplayTTL > Skew + Future + MaxStall + Offset[c] - Offset[d]
          BY ReplayAssumption
        <5> QED
          BY <5>1, <5>2
      <4> QED
        BY <4>1
    <3>6. ClaimOutlives'
      <4> SUFFICES ASSUME NEW d \in Copies, NEW e \in Copies,
                          Accepted(d)', RequestOf[d] = RequestOf[e]
                   PROVE  claim'[RequestOf[e]] > LastClaim(e)
        BY <2>1
      <4>1. CASE RequestOf[e] = r
        BY <2>3, <3>5, <4>1
      <4>2. CASE RequestOf[e] # r
        BY <2>3, <3>3, <4>2
      <4> QED
        BY <4>1, <4>2
    <3> QED
      BY <3>2, <3>4, <3>6
  <2> QED
    BY <1>6, <2>2, <2>3 DEF Claim, Seen
<1>7. ASSUME NEW c \in Copies, Limited(c) PROVE ReplayInv'
  BY <1>7 DEF Limited, Refuse, sender
<1>8. CASE UNCHANGED perimeterVars
  BY <1>8 DEF perimeterVars, sender, copies
<1> QED
  BY <1>1, <1>2, <1>3, <1>4, <1>5, <1>6, <1>7, <1>8 DEF PerimeterNext

\* The same signed bytes reach a route handler at most once, for any clocks and
\* any stall under which the replay cache outlives the signature's window.
THEOREM ReplaysRefused == PerimeterSpec => []AcceptedOnce
<1>1. ReplayInv => AcceptedOnce
  BY DEF ReplayInv
<1> QED
  BY <1>1, ReplayInit, ReplayStep, PTL DEF PerimeterSpec

-----------------------------------------------------------------------------
(* The rate limiter.                                                       *)

\* A level is filled with room left over for no more than Full.
LEMMA BucketOperators ==
  ASSUME NEW b \in Bucket, NEW when \in Int, NEW at \in Nat
  PROVE  /\ Full \in Nat /\ Full >= Window
         /\ Refilled(b, when, at) \in 0..Full
         /\ Lives(b, at) => Refilled(b, when, at) <= b.level + Positive(when - b.ts) * Limit
         /\ ~Lives(b, at) => Refilled(b, when, at) = Full
         /\ Drawn(b, when, at) \in Bucket
<1> USE BucketAssumption
<1>1. Full \in Nat /\ Full >= Window
  BY DEF Full
<1>2. Positive(when - b.ts) * Limit \in Nat
  BY DEF Positive, Bucket
<1> DEFINE gain == Positive(when - b.ts) * Limit
<1> HIDE DEF gain
<1>3. Refilled(b, when, at) = IF Lives(b, at) THEN AtMost(Full, b.level + gain) ELSE Full
  BY DEF Refilled, gain
<1>4. gain \in Nat
  BY <1>2 DEF gain
<1>5. /\ Refilled(b, when, at) \in 0..Full
      /\ Lives(b, at) => Refilled(b, when, at) <= b.level + gain
      /\ ~Lives(b, at) => Refilled(b, when, at) = Full
  BY <1>1, <1>3, <1>4 DEF AtMost, Bucket
<1>6. Drawn(b, when, at) \in Bucket
  BY <1>1, <1>5 DEF Drawn, Allowed, Bucket
<1> QED
  BY <1>1, <1>5, <1>6 DEF gain

\* CeilDiv rounds up.
LEMMA CeilDivCovers ==
  ASSUME NEW a \in Int, NEW b \in Nat \ {0}
  PROVE  CeilDiv(a, b) \in Int /\ CeilDiv(a, b) * b >= a
BY DEF CeilDiv

\* Waiting for the seconds of a refusal refills a token.
LEMMA WaitingRefills ==
  ASSUME NEW b \in Bucket, NEW when \in Int, NEW at \in Nat
  PROVE  LET s == RetryAfter(b, when, at)
         IN  s \in Nat /\ Refilled(b, when, at) + s * Second * Limit >= Window
<1> USE BucketAssumption
<1> DEFINE level == Refilled(b, when, at)
           unit == Limit * Second
           s == CeilDiv(Window - level, unit)
<1>1. level \in Nat
  BY BucketOperators
<1>2. unit \in Nat \ {0}
  OBVIOUS
<1>3. RetryAfter(b, when, at) = IF s < 1 THEN 1 ELSE s
  BY DEF RetryAfter
<1> HIDE DEF level, unit
<1>4. s \in Int /\ s * unit >= Window - level
  BY <1>1, <1>2, CeilDivCovers
<1>5. s < 1 => unit >= s * unit
  BY <1>2, <1>4
<1> HIDE DEF s
<1>6. RetryAfter(b, when, at) \in Nat
      /\ level + RetryAfter(b, when, at) * unit >= Window
  BY <1>1, <1>2, <1>3, <1>4, <1>5
<1>7. \A n \in Nat : n * unit = n * Second * Limit
  BY DEF unit
<1> QED
  BY <1>6, <1>7 DEF level

LimiterTypes ==
  /\ now \in Nat /\ buckets \in [BucketKeys -> Bucket]
  /\ drawn \in Nat /\ start \in Int /\ regained \in Nat

\* The business bucket was last written by the process of some copy, or never.
LastWriter ==
  LET b == buckets["business"] IN
  /\ b.exists => \E c \in Copies : b.ts = b.kept + Offset[c]
  /\ ~b.exists => drawn = 0 /\ regained = 0

LimiterInv == LimiterTypes /\ LastWriter /\ WithinBudget /\ RetryAfterSuffices

\* The budget in numbers: what has been drawn and what is left, against what the
\* bucket's own clock has seen and what late clocks gave back.
LEMMA BudgetStep ==
  ASSUME NEW used \in Nat, NEW level \in Nat, NEW level2 \in Nat, NEW ts \in Int,
         NEW when \in Int, NEW from \in Int, NEW back \in Nat,
         used + level <= Full + Limit * (ts - from + back),
         \/ level2 <= level + Positive(when - ts) * Limit
         \/ level2 <= Full /\ when - ts >= Window
  PROVE  used + level2 <= Full + Limit * (when - from + (back + Positive(ts - when)))
<1> USE BucketAssumption
<1> DEFINE seen == ts - from + back
           after == when - from + (back + Positive(ts - when))
<1>1. after = seen + Positive(when - ts) /\ seen \in Int /\ Positive(when - ts) \in Nat
  BY DEF Positive
<1> HIDE DEF seen, after
<1>2. Limit * after = Limit * seen + Positive(when - ts) * Limit
  BY <1>1
<1>3. used + level <= Full + Limit * seen
  BY DEF seen
<1>4. CASE level2 <= level + Positive(when - ts) * Limit
  <2> DEFINE gain == Positive(when - ts) * Limit
             had == Limit * seen
  <2>1. gain \in Int /\ had \in Int /\ Full \in Int
    BY <1>1 DEF Full
  <2>2. Limit * after = had + gain /\ used + level <= Full + had /\ level2 <= level + gain
    BY <1>2, <1>3, <1>4
  <2> HIDE DEF gain, had
  <2>3. used + level2 <= Full + Limit * after
    BY <2>1, <2>2
  <2> QED
    BY <2>3 DEF after
<1>5. CASE level2 <= Full /\ when - ts >= Window
  <2> DEFINE gain == Positive(when - ts) * Limit
             had == Limit * seen
  <2>1. gain \in Int /\ had \in Int /\ Full \in Int
    BY <1>1 DEF Full
  <2>2. gain >= Full
    BY <1>1, <1>5 DEF Full, Positive
  <2>3. Limit * after = had + gain /\ used + level <= Full + had
    BY <1>2, <1>3
  <2> HIDE DEF gain, had
  <2>4. used + level2 <= Full + Limit * after
    BY <1>5, <2>1, <2>2, <2>3
  <2> QED
    BY <2>4 DEF after
<1> QED
  BY <1>4, <1>5

\* The buckets start full, and nobody has drawn.
LEMMA LimiterInit == PerimeterInit => LimiterInv
<1> SUFFICES ASSUME PerimeterInit PROVE LimiterInv
  OBVIOUS
<1>1. Full \in Nat /\ Full >= Window
  BY BucketAssumption DEF Full
<1>2. NewBucket \in Bucket
  BY <1>1 DEF NewBucket, Bucket
<1>3. LimiterTypes /\ LastWriter
  BY <1>2 DEF PerimeterInit, LimiterTypes, LastWriter, BucketKeys, NewBucket
<1>4. WithinBudget
  BY <1>1 DEF PerimeterInit, WithinBudget, BucketKeys, NewBucket
<1>5. RetryAfterSuffices
  BY <1>1, BucketAssumption DEF PerimeterInit, RetryAfterSuffices
<1> QED
  BY <1>3, <1>4, <1>5 DEF LimiterInv

\* Only a copy at the limiter touches the business bucket.
LEMMA LimiterStep == LimiterInv /\ [PerimeterNext]_perimeterVars => LimiterInv'
<1> SUFFICES ASSUME LimiterInv, [PerimeterNext]_perimeterVars PROVE LimiterInv'
  OBVIOUS
<1> USE DEF LimiterInv
<1>1. ASSUME NEW c \in Copies, Limited(c) PROVE LimiterInv'
  <2> DEFINE b == buckets["business"]
             when == Clock(c)
             in == Allowed(b, when, now)
             level == Refilled(b, when, now)
             new == buckets'["business"]
  <2>1. /\ b \in Bucket /\ when = now + Offset[c] /\ when \in Int /\ now \in Nat
    BY PerimeterAssumption DEF LimiterTypes, BucketKeys, Clock
  <2>2. /\ buckets' = [buckets EXCEPT !["business"] = Drawn(b, when, now)]
        /\ drawn' = drawn + (IF in THEN 1 ELSE 0)
        /\ start' = IF b.exists THEN start ELSE when
        /\ regained' = regained + (IF b.exists THEN Positive(b.ts - when) ELSE 0)
        /\ refused' = IF in THEN refused
                      ELSE [after |-> RetryAfter(b, when, now), level |-> level]
        /\ now' = now
    BY <1>1 DEF Limited
  <2>3. /\ Full \in Nat /\ Full >= Window /\ level \in 0..Full
        /\ Lives(b, now) => level <= b.level + Positive(when - b.ts) * Limit
        /\ ~Lives(b, now) => level = Full
        /\ Drawn(b, when, now) \in Bucket
    BY <2>1, BucketOperators
  <2>4. /\ new = Drawn(b, when, now) /\ new.exists /\ new.ts = when /\ new.kept = now
        /\ new.level = level - (IF in THEN Window ELSE 0)
        /\ (drawn' * Window) + new.level = (drawn * Window) + level
    <3>1. new = Drawn(b, when, now)
      BY <2>2 DEF LimiterTypes, BucketKeys
    <3>2. drawn' * Window = (drawn * Window) + (IF in THEN Window ELSE 0)
      BY <2>2, BucketAssumption DEF LimiterTypes
    <3>3. drawn * Window \in Int /\ level \in Int /\ Window \in Int
      BY <2>3, BucketAssumption DEF LimiterTypes
    <3>4. new.exists /\ new.ts = when /\ new.kept = now
          /\ new.level = level - (IF in THEN Window ELSE 0)
      BY <3>1 DEF Drawn
    <3> QED
      BY <3>1, <3>2, <3>3, <3>4
  <2>5. LimiterTypes'
    <3>1. Positive(b.ts - when) \in Nat
      BY <2>1 DEF Positive, Bucket
    <3> QED
      BY <2>1, <2>2, <2>3, <3>1 DEF LimiterTypes, BucketKeys
  <2>6. LastWriter'
    BY <2>1, <2>2, <2>4 DEF LastWriter
  <2>7. WithinBudget'
    <3>1. new.level \in 0..Full
      BY <2>3, <2>4 DEF Bucket
    <3>2. CASE ~b.exists
      <4>1. /\ drawn * Window = 0 /\ regained' = 0 /\ start' = when
            /\ Limit * (when - when + 0) = 0
        BY <2>1, <2>2, <3>2, BucketAssumption DEF LastWriter
      <4>2. (drawn' * Window) + new.level <= Full
        BY <2>3, <2>4, <4>1
      <4>3. (drawn' * Window) + new.level <= Full + Limit * (new.ts - start' + regained')
        BY <2>3, <2>4, <4>1, <4>2
      <4> QED
        BY <3>1, <4>3 DEF WithinBudget
    <3>3. CASE b.exists
      <4> DEFINE used == drawn * Window
      <4>1. /\ used \in Nat /\ b.level \in Nat /\ level \in Nat /\ b.ts \in Int
            /\ start \in Int /\ regained \in Nat
        BY <2>1, <2>3, BucketAssumption DEF LimiterTypes, Bucket
      <4>2. used + b.level <= Full + Limit * (b.ts - start + regained)
        BY <3>3 DEF WithinBudget
      <4>3. \/ level <= b.level + Positive(when - b.ts) * Limit
            \/ level <= Full /\ when - b.ts >= Window
        <5>1. CASE Lives(b, now)
          BY <2>3, <5>1
        <5>2. CASE ~Lives(b, now)
          <6>1. PICK d \in Copies : b.ts = b.kept + Offset[d]
            BY <3>3 DEF LastWriter
          <6>2. now - b.kept >= KeyTTL /\ KeyTTL >= Window + Offset[d] - Offset[c]
            BY <2>1, <3>3, <5>2, DriftAssumption, BucketAssumption DEF Lives, Bucket
          <6>3. when - b.ts >= Window
            BY <2>1, <6>1, <6>2, PerimeterAssumption, BucketAssumption DEF Bucket
          <6> QED
            BY <2>3, <5>2, <6>3
        <5> QED
          BY <5>1, <5>2
      <4> HIDE DEF used, level, when
      <4>4. used + level <= Full + Limit * (when - start + (regained + Positive(b.ts - when)))
        BY <2>1, <4>1, <4>2, <4>3, BudgetStep
      <4>5. start' = start /\ regained' = regained + Positive(b.ts - when) /\ new.ts = when
        BY <2>2, <2>4, <3>3
      <4>6. (drawn' * Window) + new.level <= Full + Limit * (new.ts - start' + regained')
        BY <2>4, <4>4, <4>5 DEF used, level, when
      <4> QED
        BY <3>1, <4>6 DEF WithinBudget
    <3> QED
      BY <3>2, <3>3
  <2>8. RetryAfterSuffices'
    <3>1. CASE in
      BY <2>2, <3>1 DEF RetryAfterSuffices
    <3>2. CASE ~in
      <4>1. refused'.level = level /\ refused'.after = RetryAfter(b, when, now)
        BY <2>2, <3>2
      <4> QED
        BY <2>1, <4>1, WaitingRefills DEF RetryAfterSuffices
    <3> QED
      BY <3>1, <3>2
  <2> QED
    BY <2>5, <2>6, <2>7, <2>8
<1>2. CASE UNCHANGED <<buckets, drawn, start, regained, refused>> /\ now' \in Nat
  BY <1>2 DEF LimiterTypes, LastWriter, WithinBudget, RetryAfterSuffices
<1>3. CASE GetToken
  <2>1. /\ buckets' = [buckets EXCEPT !["token"] = Drawn(buckets["token"], now, now)]
        /\ UNCHANGED <<now, drawn, start, regained, refused>>
    BY <1>3 DEF GetToken, history
  <2>2. Drawn(buckets["token"], now, now) \in Bucket
    BY BucketOperators DEF LimiterTypes, BucketKeys
  <2>3. buckets' \in [BucketKeys -> Bucket] /\ buckets'["business"] = buckets["business"]
    BY <2>1, <2>2 DEF LimiterTypes, BucketKeys
  <2> QED
    BY <2>1, <2>3 DEF LimiterTypes, LastWriter, WithinBudget, RetryAfterSuffices
<1>4. \/ \E c \in Copies : Limited(c)
      \/ UNCHANGED <<buckets, drawn, start, regained, refused>> /\ now' \in Nat
      \/ GetToken
  BY DEF LimiterTypes, PerimeterNext, perimeterVars, history, Tick, Administer, Learn, Sign, TooLarge,
         Authenticate, Verify, Claim
<1> QED
  BY <1>1, <1>2, <1>3, <1>4

\* Over any time and any clocks the limiter lets in at most its capacity and
\* what it refilled, and the seconds a 429 names are enough.
THEOREM LimiterFair == PerimeterSpec => []LimiterIsFair
<1>1. LimiterInv => LimiterIsFair
  BY DEF LimiterInv, LimiterIsFair
<1> QED
  BY <1>1, LimiterInit, LimiterStep, PTL DEF PerimeterSpec

-----------------------------------------------------------------------------
(* RecordValidation: what the rules let through.                           *)

\* A record that Pass 1 calls VALID has no failure of either kind.
LEMMA ValidIsUsable ==
  ASSUME NEW r \in Record, Pass1(r) = "VALID"
  PROVE  Usable(r)
<1>1. HardFailures(r) = {} /\ SoftFailures(r) = {}
  BY DEF Pass1
<1>2. r.institution /\ r.id
  <2>1. "institution" \notin HardFailures(r) /\ "id" \notin HardFailures(r)
    BY <1>1
  <2> QED
    BY <2>1 DEF HardFailures
<1>3. ~(r.age > CapturedMaxAge \/ r.age < -CapturedMaxAhead)
  <2>1. "captured_at" \notin HardFailures(r)
    BY <1>1
  <2> QED
    BY <2>1 DEF HardFailures
<1>4. r.motivo # "unknown" /\ ~(r.amount # "none" /\ r.currency # "known")
  <2>1. "motivo" \notin HardFailures(r) /\ "currency" \notin HardFailures(r)
    BY <1>1
  <2> QED
    BY <2>1 DEF HardFailures
<1>5. r.text = "long" /\ ~AmountMissing(r)
  <2>1. "narrative" \notin SoftFailures(r) /\ "amount" \notin SoftFailures(r)
    BY <1>1
  <2> QED
    BY <2>1 DEF SoftFailures
<1> QED
  BY <1>2, <1>3, <1>4, <1>5 DEF Usable, AmountMissing, CapturedMaxAge, CapturedMaxAhead, Record

\* Pass 2 touches the amount, the currency and the date, and no amount but a
\* missing one that the narrative mentions.
LEMMA RecoveryIsFair ==
  ASSUME NEW r \in Record, NEW said \in ModelAnswers
  PROVE  Settled(r, said) \in Record /\ FairlyRecovered(Handed(r, said))
<1> DEFINE a == AmountFound(r, said)
           d == Recovered(r, said)
<1>1. /\ a \in Record
      /\ \E m \in {"none", "sent", "recovered"}, k \in {"none", "known", "other"} :
           a = [r EXCEPT !.amount = m, !.currency = k]
      /\ a.amount # r.amount =>
           r.amount = "none" /\ (r.amounts = 1 \/ said \in {"amount", "amount and currency"})
  <2>1. CASE a = r
    <3>1. a = [r EXCEPT !.amount = r.amount, !.currency = r.currency]
      BY <2>1 DEF Record
    <3> QED
      BY <2>1, <3>1 DEF Record
  <2>2. CASE a # r
    <3>1. "amount" \in RecoverableFields(r)
      BY <2>2 DEF AmountFound
    <3>2. r.amount = "none"
      BY <3>1 DEF RecoverableFields, AmountMissing
    <3>3. CASE r.amounts = 1
      BY <3>1, <3>2, <3>3 DEF AmountFound, Record
    <3>4. CASE r.amounts # 1 /\ said = "amount"
      <4>1. a = [r EXCEPT !.amount = "recovered"]
        BY <3>1, <3>4 DEF AmountFound
      <4>2. a = [r EXCEPT !.amount = "recovered", !.currency = r.currency]
        BY <4>1 DEF Record
      <4> QED
        BY <3>2, <3>4, <4>1, <4>2 DEF Record
    <3>5. CASE r.amounts # 1 /\ said = "amount and currency"
      <4>1. a = [r EXCEPT !.amount = "recovered", !.currency = "known"]
        BY <3>1, <3>5 DEF AmountFound
      <4> QED
        BY <3>2, <3>5, <4>1 DEF Record
    <3> QED
      BY <2>2, <3>1, <3>3, <3>4, <3>5 DEF AmountFound
  <2> QED
    BY <2>1, <2>2
<1>2. d = a \/ d = [a EXCEPT !.date = TRUE]
  BY DEF Recovered, DateFound
<1> HIDE DEF a, d
<1>3. /\ d \in Record /\ d.amount = a.amount
      /\ [d EXCEPT !.amount = r.amount, !.currency = r.currency, !.date = r.date] = r
  <2>1. PICK m \in {"none", "sent", "recovered"}, k \in {"none", "known", "other"} :
          a = [r EXCEPT !.amount = m, !.currency = k]
    BY <1>1
  <2>2. CASE d = a
    <3>1. d = [r EXCEPT !.amount = m, !.currency = k, !.date = r.date]
      BY <2>1, <2>2 DEF Record
    <3>2. [d EXCEPT !.amount = r.amount, !.currency = r.currency, !.date = r.date] = r
      BY <3>1 DEF Record
    <3> QED
      BY <1>1, <2>2, <3>2
  <2>3. CASE d = [a EXCEPT !.date = TRUE]
    <3>1. d = [r EXCEPT !.amount = m, !.currency = k, !.date = TRUE]
      BY <2>1, <2>3 DEF Record
    <3>2. d \in Record /\ d.amount = a.amount
      BY <2>1, <3>1 DEF Record
    <3> QED
      BY <3>1, <3>2 DEF Record
  <2> QED
    BY <1>2, <2>2, <2>3
<1>4. Settled(r, said) \in {r, d}
  BY DEF Settled, d
<1>5. CASE Settled(r, said) = r
  BY <1>5 DEF FairlyRecovered, Handed, Record
<1>6. CASE Settled(r, said) = d
  BY <1>1, <1>3, <1>6 DEF FairlyRecovered, Handed
<1> QED
  BY <1>4, <1>5, <1>6

-----------------------------------------------------------------------------
(* RecordValidation: nothing waits after a resubmission.                   *)

Hand == [sent : Record, seen : Record, answer : ModelAnswers]
WorkRow ==
  [pc : {"sending", "sent", "read"}, kind : {"submit", "fulfil", "batch"},
   subject : Complaints \union Batches, number : Nat, asks : BOOLEAN, hands : SUBSET Hand,
   attempts : Nat, delivery : {"DELIVERED", "DELIVERY_FAILED"}, reads : SUBSET Nat]
EnrichmentRequest ==
  [number : Nat, state : {"PENDING", "FULFILLED", "ESCALATED"},
   delivery : {"DELIVERED", "DELIVERY_FAILED"}]

ValidationTypes ==
  /\ work \in [Sessions -> WorkRow \union {Idle}]
  /\ requests \in [Complaints -> SUBSET EnrichmentRequest]
  /\ settled \subseteq Complaints /\ begun \in Nat

\* A session about a complaint, and one that has read its requests.
KindsFit ==
  \A s \in Sessions : work[s].pc # "idle" =>
    /\ work[s].kind # "batch" => work[s].subject \in Complaints
    /\ work[s].pc = "read" => work[s].kind = "fulfil"

\* Who meets nobody is alone, and has read all that is pending.
AloneUnlessRaced ==
  \A s, t \in Sessions :
    s # t /\ work[s].pc # "idle" /\ work[t].pc # "idle" /\ work[s].subject = work[t].subject
      => work[s].subject \in raced
ReadsAll ==
  \A s \in Sessions : work[s].pc = "read" /\ work[s].subject \notin raced => ReadNow(s) \subseteq work[s].reads

\* The inductive invariant.
ValidationInv ==
  /\ ValidationTypes /\ KindsFit /\ AloneUnlessRaced /\ ReadsAll
  /\ TriagedIsUsable /\ NothingPendingAfterResubmission

\* Nobody has begun.
LEMMA ValidationBegins == Init => ValidationInv
<1> SUFFICES ASSUME Init PROVE ValidationInv
  OBVIOUS
<1>1. /\ \A s \in Sessions : work[s] = Idle /\ work[s].pc = "idle"
      /\ settled = {} /\ begun = 0
  BY DEF Init, Idle
<1> QED
  BY <1>1 DEF Init, ValidationInv, ValidationTypes, KindsFit, AloneUnlessRaced, ReadsAll, TriagedIsUsable,
    NothingPendingAfterResubmission

\* The fields of a session at work, and of one that is not.
LEMMA WorkFields ==
  ASSUME ValidationTypes, NEW s \in Sessions
  PROVE  /\ work[s].pc # "idle" => work[s] \in WorkRow
         /\ work[s].pc = "idle" => work[s] = Idle
<1>1. work[s] \in WorkRow \/ work[s] = Idle
  BY DEF ValidationTypes
<1>2. Idle.pc = "idle"
  BY DEF Idle
<1>3. work[s] \in WorkRow => work[s].pc # "idle"
  BY DEF WorkRow
<1> QED
  BY <1>1, <1>2, <1>3

\* A validation that begins.
LEMMA BeginKeepsRequests ==
  ASSUME ValidationInv, NEW s \in Sessions, NEW kind \in {"submit", "fulfil", "batch"},
         NEW subject \in Complaints \union Batches, kind # "batch" => subject \in Complaints,
         NEW asks \in BOOLEAN, NEW hands \in SUBSET Hand,
         \A h \in hands : Usable(h.seen) /\ FairlyRecovered(h),
         Begin(s, kind, subject, asks, hands)
  PROVE  ValidationInv'
<1> DEFINE w == [pc |-> IF asks /\ configured THEN "sending" ELSE "sent",
                 kind |-> kind, subject |-> subject, number |-> begun, asks |-> asks,
                 hands |-> hands, attempts |-> 0, delivery |-> "DELIVERY_FAILED", reads |-> {}]
<1>0. /\ ValidationTypes /\ KindsFit /\ AloneUnlessRaced /\ ReadsAll
      /\ TriagedIsUsable /\ NothingPendingAfterResubmission
  BY DEF ValidationInv
<1>1. /\ work[s].pc = "idle" /\ begun' = begun + 1 /\ work' = [work EXCEPT ![s] = w]
      /\ requests' = requests /\ settled' = settled
  BY DEF Begin
<1>2. /\ w \in WorkRow /\ w.pc \in {"sending", "sent"} /\ w.kind = kind /\ w.subject = subject
      /\ w.hands = hands
  BY <1>0 DEF WorkRow, ValidationTypes
<1> HIDE DEF w
<1>3. work'[s] = w /\ \A t \in Sessions : t # s => work'[t] = work[t]
  BY <1>0, <1>1 DEF ValidationTypes
<1>4. /\ raced \subseteq raced'
      /\ \A t \in Sessions : work[t].pc # "idle" /\ work[t].subject = subject => subject \in raced'
  BY DEF Begin
<1>5. ValidationTypes'
  BY <1>0, <1>1, <1>2 DEF ValidationTypes
<1>6. KindsFit'
  BY <1>0, <1>2, <1>3 DEF KindsFit
<1>7. AloneUnlessRaced'
  BY <1>0, <1>2, <1>3, <1>4 DEF AloneUnlessRaced
<1>8. ReadsAll'
  <2>1. \A t \in Sessions : t # s => ReadNow(t)' = ReadNow(t)
    BY <1>1, <1>3 DEF ReadNow, Own
  <2> QED
    BY <1>0, <1>2, <1>3, <1>4, <2>1 DEF ReadsAll
<1>9. TriagedIsUsable'
  BY <1>0, <1>2, <1>3 DEF TriagedIsUsable
<1>10. NothingPendingAfterResubmission'
  BY <1>0, <1>1, <1>4 DEF NothingPendingAfterResubmission
<1> QED
  BY <1>5, <1>6, <1>7, <1>8, <1>9, <1>10 DEF ValidationInv

\* A session that goes on with what it has, or ends without a commit.
LEMMA GoesOnKeeps ==
  ASSUME ValidationInv, NEW s \in Sessions, work[s].pc # "idle", NEW w \in WorkRow \union {Idle},
         work' = [work EXCEPT ![s] = w],
         w # Idle => /\ w.kind = work[s].kind /\ w.subject = work[s].subject /\ w.hands = work[s].hands
                     /\ w.pc = "read" => w.kind = "fulfil" /\ (ReadNow(s))' \subseteq w.reads,
         requests' = requests, settled' = settled, raced' = raced, begun' = begun
  PROVE  ValidationInv'
<1>0. /\ ValidationTypes /\ KindsFit /\ AloneUnlessRaced /\ ReadsAll
      /\ TriagedIsUsable /\ NothingPendingAfterResubmission
  BY DEF ValidationInv
<1>1. Idle.pc = "idle"
  BY DEF Idle
<1>2. work'[s] = w /\ \A t \in Sessions : t # s => work'[t] = work[t]
  BY <1>0 DEF ValidationTypes
<1>3. ValidationTypes'
  BY <1>0 DEF ValidationTypes
<1>4. KindsFit'
  BY <1>0, <1>1, <1>2 DEF KindsFit
<1>5. AloneUnlessRaced'
  BY <1>0, <1>1, <1>2 DEF AloneUnlessRaced
<1>6. ReadsAll'
  <2>1. \A t \in Sessions : t # s => ReadNow(t)' = ReadNow(t)
    BY <1>2 DEF ReadNow, Own
  <2> QED
    BY <1>0, <1>1, <1>2, <2>1 DEF ReadsAll
<1>7. TriagedIsUsable'
  BY <1>0, <1>1, <1>2 DEF TriagedIsUsable
<1>8. NothingPendingAfterResubmission'
  BY <1>0 DEF NothingPendingAfterResubmission
<1> QED
  BY <1>3, <1>4, <1>5, <1>6, <1>7, <1>8 DEF ValidationInv

\* The commit of a record: after a resubmission nobody else touched, nothing waits.
LEMMA CommitKeepsRequests ==
  ASSUME ValidationInv, NEW s \in Sessions, CommitRecord(s)
  PROVE  ValidationInv'
<1>0. /\ ValidationTypes /\ KindsFit /\ AloneUnlessRaced /\ ReadsAll
      /\ TriagedIsUsable /\ NothingPendingAfterResubmission
  BY DEF ValidationInv
<1>1. /\ work[s].pc \in {"sent", "read"} /\ work[s].kind \in {"submit", "fulfil"}
      /\ work[s].kind = "fulfil" => work[s].pc = "read"
      /\ requests' = [requests EXCEPT ![work[s].subject] = Requests(s)]
      /\ work' = [work EXCEPT ![s] = Idle] /\ raced' = raced /\ begun' = begun
  BY <1>0 DEF CommitRecord, KindsFit
<1>2. /\ work[s] \in WorkRow /\ work[s].subject \in Complaints
  BY <1>0, <1>1, WorkFields DEF KindsFit
<1>3. Idle.pc = "idle"
  BY DEF Idle
<1>4. work'[s] = Idle /\ \A t \in Sessions : t # s => work'[t] = work[t]
  BY <1>0, <1>1 DEF ValidationTypes
<1>5. \A q \in requests[work[s].subject] \union Own(s) : q \in EnrichmentRequest
  BY <1>0, <1>2 DEF ValidationTypes, Own, WorkRow, EnrichmentRequest
<1>6. ASSUME NEW q \in requests[work[s].subject] \union Own(s)
      PROVE  (IF q.number \in work[s].reads THEN [q EXCEPT !.state = Outcome(s)] ELSE q) \in EnrichmentRequest
  BY <1>5 DEF Outcome, EnrichmentRequest
<1>7. Requests(s) \subseteq EnrichmentRequest
  BY <1>6 DEF Requests
<1>8. ValidationTypes'
  <2>1. settled' \subseteq Complaints
    BY <1>0, <1>2 DEF CommitRecord, ValidationTypes
  <2> QED
    BY <1>0, <1>1, <1>7, <2>1 DEF ValidationTypes
<1>9. KindsFit' /\ AloneUnlessRaced' /\ TriagedIsUsable'
  BY <1>0, <1>1, <1>3, <1>4 DEF KindsFit, AloneUnlessRaced, TriagedIsUsable
<1>10. ReadsAll'
  <2>1. ASSUME NEW t \in Sessions, work'[t].pc = "read", work'[t].subject \notin raced
        PROVE  ReadNow(t)' \subseteq work'[t].reads
    <3>1. t # s /\ work'[t] = work[t]
      BY <1>3, <1>4, <2>1
    <3>2. work[t].subject # work[s].subject
      BY <1>0, <1>1, <2>1, <3>1 DEF AloneUnlessRaced
    <3>3. requests'[work[t].subject] = requests[work[t].subject]
      BY <1>0, <1>1, <3>2 DEF ValidationTypes
    <3>4. ReadNow(t)' = ReadNow(t)
      BY <3>1, <3>3 DEF ReadNow, Own
    <3> QED
      BY <1>0, <2>1, <3>1, <3>4 DEF ReadsAll
  <2> QED
    BY <1>1, <2>1 DEF ReadsAll
<1>11. NothingPendingAfterResubmission'
  <2>1. ASSUME NEW c \in settled' \ raced, c # work[s].subject, NEW q \in requests'[c]
        PROVE  q.state # "PENDING"
    <3>1. c \in settled /\ requests'[c] = requests[c]
      BY <1>0, <1>1, <2>1 DEF CommitRecord, ValidationTypes
    <3> QED
      BY <1>0, <2>1, <3>1 DEF NothingPendingAfterResubmission
  <2>2. ASSUME work[s].subject \in settled' \ raced, NEW q \in Requests(s)
        PROVE  q.state # "PENDING"
    <3>1. PICK p \in requests[work[s].subject] \union Own(s) :
            q = IF p.number \in work[s].reads THEN [p EXCEPT !.state = Outcome(s)] ELSE p
      BY DEF Requests
    <3>2. CASE p.number \in work[s].reads
      BY <1>5, <3>1, <3>2 DEF Outcome, EnrichmentRequest
    <3>3. CASE p.number \notin work[s].reads
      <4>1. CASE work[s].kind = "fulfil"
        <5>1. p.number \notin ReadNow(s)
          BY <1>0, <1>1, <2>2, <3>3, <4>1 DEF ReadsAll
        <5> QED
          BY <3>1, <3>3, <5>1 DEF ReadNow, PendingOf
      <4>2. CASE work[s].kind = "submit"
        <5>1. ~work[s].asks /\ work[s].subject \in settled
          BY <2>2, <4>2 DEF CommitRecord
        <5> QED
          BY <1>0, <2>2, <3>1, <3>3, <5>1 DEF Own, NothingPendingAfterResubmission
      <4> QED
        BY <1>1, <4>1, <4>2
    <3> QED
      BY <3>2, <3>3
  <2>3. requests'[work[s].subject] = Requests(s)
    BY <1>0, <1>1, <1>2 DEF ValidationTypes
  <2> QED
    BY <1>1, <2>1, <2>2, <2>3 DEF NothingPendingAfterResubmission
<1> QED
  BY <1>8, <1>9, <1>10, <1>11 DEF ValidationInv

\* Every step of every session keeps the invariant.
LEMMA ValidationStep ==
  ASSUME ValidationInv, [Next]_vars
  PROVE  ValidationInv'
<1>0. ValidationTypes /\ KindsFit
  BY DEF ValidationInv
<1>1. CASE UNCHANGED vars \/ Break
  <2>1. /\ work' = work /\ requests' = requests /\ settled' = settled /\ raced' = raced
        /\ begun' = begun
    BY <1>1 DEF vars, Break
  <2> QED
    BY <2>1 DEF ValidationInv, ValidationTypes, KindsFit, AloneUnlessRaced, ReadsAll, ReadNow, Own,
      TriagedIsUsable, NothingPendingAfterResubmission
<1>2. ASSUME NEW s \in Sessions, NEW c \in Complaints, NEW kind \in {"submit", "fulfil"},
             Validate(s, kind, c)
      PROVE  ValidationInv'
  <2>1. PICK r \in Records, said \in ModelAnswers :
          LET routing == Tier1Routing(Tier1Verdict(r, said)) IN
          Begin(s, kind, c, routing = "FLAGGED_FOR_ENRICHMENT",
                IF routing = "PROCEEDED_TO_TRIAGE" THEN {Handed(r, said)} ELSE {})
    BY <1>2 DEF Validate
  <2> DEFINE routing == Tier1Routing(Tier1Verdict(r, said))
             hands == IF routing = "PROCEEDED_TO_TRIAGE" THEN {Handed(r, said)} ELSE {}
  <2>2. r \in Record /\ Settled(r, said) \in Record /\ FairlyRecovered(Handed(r, said))
    BY RecoveryIsFair, ValidationAssumption
  <2>3. routing = "PROCEEDED_TO_TRIAGE" => Pass1(Settled(r, said)) = "VALID"
    BY DEF Tier1Routing, Tier1Verdict
  <2>4. hands \in SUBSET Hand /\ \A h \in hands : Usable(h.seen) /\ FairlyRecovered(h)
    BY <2>2, <2>3, ValidIsUsable DEF Handed, Hand
  <2>5. Begin(s, kind, c, routing = "FLAGGED_FOR_ENRICHMENT", hands)
    BY <2>1
  <2> HIDE DEF routing, hands
  <2> QED
    BY <2>4, <2>5, BeginKeepsRequests
<1>3. ASSUME NEW s \in Sessions, NEW b \in Batches, ValidateBatch(s, b)
      PROVE  ValidationInv'
  <2>1. PICK said \in ModelAnswers :
          LET rows == RowsOf[b] IN
          Begin(s, "batch", b, Quarantined(rows),
                {Handed(rows[i], said) : i \in Eligible(rows, [j \in DOMAIN rows |-> said])})
    BY <1>3 DEF ValidateBatch
  <2> DEFINE rows == RowsOf[b]
             hands == {Handed(rows[i], said) : i \in Eligible(rows, [j \in DOMAIN rows |-> said])}
  <2>2. \A i \in DOMAIN rows : rows[i] \in Record
    BY ValidationAssumption
  <2>3. \A i \in Eligible(rows, [j \in DOMAIN rows |-> said]) :
          i \in DOMAIN rows /\ Pass1(Settled(rows[i], said)) = "VALID"
    BY DEF Eligible
  <2>4. hands \in SUBSET Hand /\ \A h \in hands : Usable(h.seen) /\ FairlyRecovered(h)
    BY <2>2, <2>3, RecoveryIsFair, ValidIsUsable DEF Handed, Hand
  <2>5. Quarantined(rows) \in BOOLEAN
    BY DEF Quarantined
  <2>6. Begin(s, "batch", b, Quarantined(rows), hands)
    BY <2>1
  <2> HIDE DEF rows, hands
  <2> QED
    BY <2>4, <2>5, <2>6, BeginKeepsRequests
<1>4. ASSUME NEW s \in Sessions, Send(s) PROVE ValidationInv'
  <2>1. PICK answered \in BOOLEAN :
          work' = [work EXCEPT
            ![s].attempts = work[s].attempts + 1,
            ![s].delivery = IF answered THEN "DELIVERED" ELSE work[s].delivery,
            ![s].pc = IF answered \/ work[s].attempts + 1 = MaxAttempts THEN "sent" ELSE work[s].pc]
    BY <1>4 DEF Send
  <2> DEFINE w == [work[s] EXCEPT
            !.attempts = work[s].attempts + 1,
            !.delivery = IF answered THEN "DELIVERED" ELSE work[s].delivery,
            !.pc = IF answered \/ work[s].attempts + 1 = MaxAttempts THEN "sent" ELSE work[s].pc]
  <2>2. work[s].pc = "sending" /\ work[s] \in WorkRow
    BY <1>0, <1>4, WorkFields DEF Send
  <2>3. /\ w \in WorkRow /\ w.kind = work[s].kind /\ w.subject = work[s].subject /\ w.hands = work[s].hands
        /\ w.pc # "read"
    <3>1. PICK n \in Nat, d \in {"DELIVERED", "DELIVERY_FAILED"}, p \in {"sending", "sent"} :
            /\ n = work[s].attempts + 1
            /\ d = (IF answered THEN "DELIVERED" ELSE work[s].delivery)
            /\ p = (IF answered \/ work[s].attempts + 1 = MaxAttempts THEN "sent" ELSE work[s].pc)
      BY <2>2 DEF WorkRow
    <3>2. w = [work[s] EXCEPT !.attempts = n, !.delivery = d, !.pc = p]
      BY <3>1
    <3> HIDE DEF w
    <3> QED
      BY <2>2, <3>2 DEF WorkRow
  <2>4. work' = [work EXCEPT ![s] = w]
    BY <1>0, <2>1, <2>2 DEF ValidationTypes, WorkRow
  <2>5. requests' = requests /\ settled' = settled /\ raced' = raced /\ begun' = begun
    BY <1>4 DEF Send
  <2> HIDE DEF w
  <2> QED
    BY <2>2, <2>3, <2>4, <2>5, GoesOnKeeps
<1>5. ASSUME NEW s \in Sessions, ReadPending(s) PROVE ValidationInv'
  <2> DEFINE w == [work[s] EXCEPT !.reads = ReadNow(s), !.pc = "read"]
  <2>1. work' = [work EXCEPT ![s].reads = ReadNow(s), ![s].pc = "read"]
    BY <1>5 DEF ReadPending
  <2>2. work[s].pc = "sent" /\ work[s].kind = "fulfil" /\ work[s] \in WorkRow
    BY <1>0, <1>5, WorkFields DEF ReadPending
  <2>3. ReadNow(s) \subseteq Nat
    <3>1. work[s].subject \in Complaints /\ work[s].number \in Nat
      BY <1>0, <2>2 DEF KindsFit, WorkRow
    <3> QED
      BY <1>0, <3>1 DEF ReadNow, PendingOf, Own, ValidationTypes, EnrichmentRequest
  <2>4. /\ w \in WorkRow /\ w.kind = work[s].kind /\ w.subject = work[s].subject /\ w.hands = work[s].hands
        /\ w.asks = work[s].asks /\ w.number = work[s].number /\ w.delivery = work[s].delivery
        /\ w.reads = ReadNow(s)
    BY <2>2, <2>3 DEF WorkRow
  <2>5. requests' = requests /\ settled' = settled /\ raced' = raced /\ begun' = begun
    BY <1>5 DEF ReadPending
  <2>6. work' = [work EXCEPT ![s] = w] /\ work'[s] = w
    BY <1>0, <2>1, <2>2 DEF ValidationTypes, WorkRow
  <2> HIDE DEF w
  <2>7. ReadNow(s)' = ReadNow(s)
    BY <2>4, <2>5, <2>6 DEF ReadNow, Own
  <2> QED
    BY <2>2, <2>4, <2>5, <2>6, <2>7, GoesOnKeeps
<1>6. ASSUME NEW s \in Sessions, CommitBatch(s) \/ Rollback(s) PROVE ValidationInv'
  <2>1. /\ work[s].pc # "idle" /\ work' = [work EXCEPT ![s] = Idle]
        /\ requests' = requests /\ settled' = settled /\ raced' = raced /\ begun' = begun
    BY <1>6 DEF CommitBatch, Rollback
  <2> QED
    BY <2>1, GoesOnKeeps
<1> QED
  BY <1>1, <1>2, <1>3, <1>4, <1>5, <1>6, CommitKeepsRequests DEF Next

\* What Triage is handed is usable and was not made up, and a complaint that was
\* resubmitted waits for nothing (divalevale/agent.py, ingestion/pipeline.py).
THEOREM ValidationEarned == Spec => []ValidationIsEarned
<1>1. ValidationInv => ValidationIsEarned
  BY DEF ValidationInv, ValidationIsEarned
<1> QED
  BY <1>1, ValidationBegins, ValidationStep, PTL DEF Spec


-----------------------------------------------------------------------------
(* SupervisorViews: the list and the drill-down *)

\* What the newest wanted run is: one that is wanted, if there is any.
LEMMA NewestIs ==
  ASSUME NEW Run, NEW runs \in Seq(Run), NEW c, NEW wanted
  PROVE  LET run == Newest(runs, c, wanted) IN
         \/ run = <<>> /\ \A k \in DOMAIN runs : ~(runs[k].of = c.id /\ runs[k] \in wanted)
         \/ \E k \in DOMAIN runs : runs[k].of = c.id /\ runs[k] \in wanted /\ run = <<runs[k]>>
<1> DEFINE found == {k \in DOMAIN runs : runs[k].of = c.id /\ runs[k] \in wanted}
<1>1. found \subseteq 1..Len(runs) /\ Len(runs) \in Nat
  OBVIOUS
<1>2. CASE found = {}
  BY <1>2 DEF Newest
<1>3. CASE found # {}
  <2>1. Max(found) \in found
    BY <1>1, <1>3, GreatestOf
  <2>2. Newest(runs, c, wanted) = <<runs[Max(found)]>>
    BY <1>3 DEF Newest
  <2> QED
    BY <2>1, <2>2
<1> QED
  BY <1>2, <1>3

\* What the list looks for, and what the drill-down does.
ForList(runs) == {r \in Range(runs) :
                    r.agent = "classifier" \/ (r.agent = "triage" /\ r.status = "success")}
ForDetail(runs) == {r \in Range(runs) :
                      \/ r.agent = "triage" /\ r.says \notin {NoOutput, Nothing}
                      \/ r.agent = "classifier" /\ r.says # NoOutput}

\* Of whole runs both look for the same.
LEMMA LabelsAgree ==
  ASSUME NEW Run, NEW runs \in Seq(Run), Whole(runs), NEW c
  PROVE  ListLabel(runs, c) = DetailLabel(runs, c)
<1>1. ForList(runs) = ForDetail(runs)
  BY DEF ForList, ForDetail, Whole, Range
<1> DEFINE run == Newest(runs, c, ForList(runs))
<1>2. /\ ListLabel(runs, c) = IF run = <<>> \/ run[1].says = NoOutput THEN Nothing ELSE run[1].says
      /\ DetailLabel(runs, c) = IF run = <<>> THEN Nothing ELSE run[1].says
  BY <1>1 DEF ListLabel, DetailLabel, ForList, ForDetail
<1>3. run # <<>> => run[1].says # NoOutput
  <2> SUFFICES ASSUME run # <<>> PROVE run[1].says # NoOutput
    OBVIOUS
  <2>1. PICK k \in DOMAIN runs : runs[k] \in ForList(runs) /\ run = <<runs[k]>>
    BY NewestIs
  <2> QED
    BY <2>1 DEF ForList, Whole
<1> QED
  BY <1>2, <1>3

\* A draft the list announces is found by the drill-down.
LEMMA DraftsAgree ==
  ASSUME NEW Run, NEW runs \in Seq(Run), Whole(runs), NEW c, Drafted(runs, c)
  PROVE  DetailDraft(runs, c) # Nothing
<1> DEFINE owned == {r \in Range(runs) :
                       r.agent = "investigation" /\ r.says \notin {NoOutput, Nothing}}
           drafted == {r \in Range(runs) : r.agent = "narrative-drafter" /\ r.says # NoOutput}
           own == Newest(runs, c, owned)
           old == Newest(runs, c, drafted)
<1>1. DetailDraft(runs, c) = IF own # <<>> THEN own[1].says
                             ELSE IF old # <<>> THEN old[1].says ELSE Nothing
  BY DEF DetailDraft
<1>2. PICK k \in DOMAIN runs : runs[k].of = c.id /\ runs[k] \in owned \cup drafted
  BY DEF Drafted, Whole, Range
<1>3. CASE own # <<>>
  <2> HIDE DEF owned
  <2>1. PICK j \in DOMAIN runs : runs[j] \in owned /\ own = <<runs[j]>>
    BY <1>3, NewestIs
  <2>2. runs[j] \in owned => runs[j].says # Nothing
    BY DEF owned
  <2> QED
    BY <1>1, <1>3, <2>1, <2>2
<1>4. CASE own = <<>>
  <2>1. runs[k] \in drafted
    <3>1. \A j \in DOMAIN runs : own # <<runs[j]>>
      BY <1>4
    <3> QED
      BY <1>2, <1>4, <3>1, NewestIs
  <2>2. PICK j \in DOMAIN runs : runs[j] \in drafted /\ old = <<runs[j]>>
    <3>1. ~(old = <<>> /\ \A i \in DOMAIN runs : ~(runs[i].of = c.id /\ runs[i] \in drafted))
      BY <1>2, <2>1
    <3> QED
      BY <3>1, NewestIs
  <2>3. runs[j].agent = "narrative-drafter"
    BY <2>2
  <2>4. runs[j].says # Nothing
    BY <2>2, <2>3 DEF Whole
  <2>5. old # <<>> /\ old[1].says = runs[j].says
    BY <2>2
  <2> QED
    BY <1>1, <1>4, <2>4, <2>5
<1> QED
  BY <1>3, <1>4

\* Whatever complaints and runs there are, a finding in the list opens for its
\* reader and shows the list's label and the draft the list announces.
THEOREM ViewsAgree ==
  ASSUME NEW complaints, NEW Run, NEW runs \in Seq(Run), NEW roles, NEW filters
  PROVE  ListAgreesWithDetail(complaints, runs, roles, filters)
<1> SUFFICES ASSUME NEW c \in Listed(complaints, runs, roles, filters)
             PROVE  /\ Opens(roles, c)
                    /\ Whole(runs) =>
                         /\ ListLabel(runs, c) = DetailLabel(runs, c)
                         /\ Drafted(runs, c) => DetailDraft(runs, c) # Nothing
  BY DEF ListAgreesWithDetail
<1>1. Opens(roles, c)
  BY DEF Listed, Selected, Opens
<1> QED
  BY <1>1, LabelsAgree, DraftsAgree

-----------------------------------------------------------------------------
(* DataQuality and TriageRules: submissions *)

\* A submission has the fields that are read, and may have more.
CodedColumns == {"product", "motive", "channel_in", "channel_operation"}
ReadFields ==
  CodedColumns \cup
  {"institution_complaint_id", "institution_id", "submotive", "canal_respuesta", "received_at",
   "fecha_resolucion", "status", "resolucion_reclamo", "tid_cli", "nro_cli", "cod_cli", "ubigeo",
   "tipo_resolucion", "amount_claimed", "moneda", "bancaseguros", "producto_bancaseguros",
   "motivo_bancaseguros", "submotivo_bancaseguros", "narrative"}
IsSubmission(s) == ReadFields \subseteq DOMAIN s

\* The defaults are those of the coded columns.
LEMMA CodedDefaults == DOMAIN Default = CodedColumns
BY DEF Default, CodedColumns

\* The four columns have dictionaries.
LEMMA CodedHaveDictionaries == CodedColumns \subseteq DOMAIN FIELD_DICTIONARIES
BY DEF CodedColumns, FIELD_DICTIONARIES

\* What the report says of three of its rules.
LEMMA AnnexReports ==
  ASSUME NEW s
  PROVE  /\ s.channel_in = Blank => "R012" \in AnnexErrors(s)
         /\ ~IsDate(s.received_at) => "R011" \in AnnexErrors(s)
         /\ s.status = Blank => "R019" \in AnnexErrors(s)
<1>1. ASSUME s.channel_in = Blank PROVE "R012" \in Broken(ArrivalRules(s))
  BY <1>1 DEF Broken, ArrivalRules
<1>2. ASSUME ~IsDate(s.received_at) PROVE "R011" \in Broken(ArrivalRules(s))
  BY <1>2 DEF Broken, ArrivalRules
<1>3. ASSUME s.status = Blank PROVE "R019" \in Broken(StateRules(s))
  BY <1>3 DEF Broken, StateRules
<1> QED
  BY <1>1, <1>2, <1>3 DEF AnnexErrors, AnnexResults, AnnexErrorRules

\* A value that stands in for one that was missing or could not be stored is
\* reported, whatever was submitted.
THEOREM StandInsAreReported ==
  \A s : IsSubmission(s) => DefaultsAreVisible(s)
<1> SUFFICES ASSUME NEW s, IsSubmission(s) PROVE DefaultsAreVisible(s)
  OBVIOUS
<1>1. ASSUME NEW f \in CodedColumns, ~Recognised(f, s[f]), Column(s, f) # s[f]
      PROVE  \/ f \in UnknownTerms(s) \union Errors(s) \union Warnings(s)
             \/ f = "channel_in" /\ "R012" \in AnnexErrors(s)
  <2>1. s[f] = Blank \/ s[f] \in LongTerms
    BY <1>1 DEF Column
  <2>2. CASE s[f] = Blank
    <3>1. f \in {"product", "motive"} => f \in Errors(s)
      BY <2>2 DEF Errors
    <3>2. f = "channel_operation" => f \in Warnings(s)
      BY <2>2 DEF Warnings, KnownChannels, Blank
    <3>3. f = "channel_in" => "R012" \in AnnexErrors(s)
      BY <2>2, AnnexReports
    <3> QED
      BY <1>1, <3>1, <3>2, <3>3 DEF CodedColumns
  <2>3. CASE s[f] # Blank
    BY <1>1, <2>3, CodedHaveDictionaries DEF UnknownTerms, CodedFields, IsSubmission, ReadFields
  <2> QED
    BY <2>2, <2>3
<1>2. ReceivedDate(s) # s.received_at => "R011" \in AnnexErrors(s)
  BY AnnexReports DEF ReceivedDate
<1>3. ResolutionStatus(s) # s.status => "R019" \in AnnexErrors(s)
  BY AnnexReports DEF ResolutionStatus
<1> QED
  BY <1>1, <1>2, <1>3, CodedDefaults DEF DefaultsAreVisible

-----------------------------------------------------------------------------

\* No term means two codes of one field.
LEMMA ProductsApart ==
  ASSUME NEW a \in DOMAIN Producto, NEW b \in DOMAIN Producto, NEW term,
         Means(Producto, a, term), Means(Producto, b, term)
  PROVE  a = b
<1>1. DOMAIN Producto = {"credito_consumo", "credito_pyme", "tarjeta_credito", "cuenta_ahorros",
                         "cuenta_corriente", "transferencia", "servicios_varios",
                         "credito_hipotecario", "deposito_plazo"}
  BY DEF Producto
<1>2. Producto["credito_consumo"] = {"credito-de-consumo"}
  BY DEF Producto
<1>3. Producto["credito_pyme"] = {"creditos-a-pequenas-empresas-y-microempresas"}
  BY DEF Producto
<1>4. Producto["tarjeta_credito"] = {"tarjeta-de-credito"}
  BY DEF Producto
<1>5. Producto["cuenta_ahorros"] = {"cuenta-de-ahorros"}
  BY DEF Producto
<1>6. Producto["cuenta_corriente"] = {"cuenta-corriente"}
  BY DEF Producto
<1>7. Producto["transferencia"] = {"transferencia-de-fondos"}
  BY DEF Producto
<1>8. Producto["servicios_varios"] = {"servicios-varios"}
  BY DEF Producto
<1>9. Producto["credito_hipotecario"] = {"credito-hipotecario"}
  BY DEF Producto
<1>10. Producto["deposito_plazo"] = {"cuenta-a-plazo", "deposito-a-plazo"}
  BY DEF Producto
<1> QED
  BY <1>1, <1>2, <1>3, <1>4, <1>5, <1>6, <1>7, <1>8, <1>9, <1>10, SMTT(60) DEF Means

LEMMA MotivesApart ==
  ASSUME NEW a \in DOMAIN Motivo, NEW b \in DOMAIN Motivo, NEW term,
         Means(Motivo, a, term), Means(Motivo, b, term)
  PROVE  a = b
<1>1. DOMAIN Motivo = {"operaciones_no_reconocidas", "transacciones_no_procesadas",
                       "cobros_indebidos", "informacion_insuficiente", "problemas_cajeros",
                       "error_datos_usuario", "incumplimiento_clausulas",
                       "disconformidad_no_atencion"}
  BY DEF Motivo
<1>2. Motivo["operaciones_no_reconocidas"] = {"operaciones-no-reconocidas"}
  BY DEF Motivo
<1>3. Motivo["transacciones_no_procesadas"] = {"transacciones-no-procesadas-/-mal-realizadas",
                                               "transacciones-no-procesadas"}
  BY DEF Motivo
<1>4. Motivo["cobros_indebidos"] = {"cobros-indebidos", "cobro_indebido"}
  BY DEF Motivo
<1>5. Motivo["informacion_insuficiente"] = {"inadecuada-o-insuficiente-informacion"}
  BY DEF Motivo
<1>6. Motivo["problemas_cajeros"] = {"problemas-relacionados-con-cajeros"}
  BY DEF Motivo
<1>7. Motivo["error_datos_usuario"] = {"error-en-los-datos-del-usuario",
                                       "error-en-los-datos-del-usuario-registrado-en-la-empresa"}
  BY DEF Motivo
<1>8. Motivo["incumplimiento_clausulas"] = {"incumplimiento-de-clausulas"}
  BY DEF Motivo
<1>9. Motivo["disconformidad_no_atencion"] = {"disconformidad-por-no-atencion"}
  BY DEF Motivo
<1> QED
  BY <1>1, <1>2, <1>3, <1>4, <1>5, <1>6, <1>7, <1>8, <1>9, SMTT(60) DEF Means

LEMMA ChannelsApart ==
  ASSUME NEW a \in DOMAIN Canal, NEW b \in DOMAIN Canal, NEW term,
         Means(Canal, a, term), Means(Canal, b, term)
  PROVE  a = b
<1>1. DOMAIN Canal = {"pagina_web", "telefono", "oficina_o_domicilio", "correo_electronico",
                      "app_movil", "cajero", "billetera_digital", "plataforma_digital",
                      "no_aplica", "whatsapp"}
  BY DEF Canal
<1>2. Canal["pagina_web"] = {"pagina-web-de-la-empresa", "pag.-web-de-la-empresa",
                             "pag-web-de-la-empresa", "pag.-web", "pag-web"}
  BY DEF Canal
<1>3. Canal["telefono"] = {"via-telefonica", "via-telefonica.", "telefonica"}
  BY DEF Canal
<1>4. Canal["oficina_o_domicilio"] = {"oficina", "oficinas", "domicilio", "oficina-o-domicilio"}
  BY DEF Canal
<1>5. Canal["correo_electronico"] = {"correo-electronico", "por-correo", "correo"}
  BY DEF Canal
<1>6. Canal["app_movil"] = {"app-movil", "aplicativo-movil", "aplicativo_movil"}
  BY DEF Canal
<1>7. Canal["cajero"] = {"cajero-automatico", "cajeros-automaticos", "cajeros-corresponsales"}
  BY DEF Canal
<1>8. Canal["billetera_digital"] = {"billeteras-digitales", "billetera-digital"}
  BY DEF Canal
<1>9. Canal["plataforma_digital"] = {"plataforma", "plataforma-digital"}
  BY DEF Canal
<1>10. Canal["no_aplica"] = {"no-existe-canal-asociado", "no-aplica"}
  BY DEF Canal
<1>11. Canal["whatsapp"] = {}
  BY DEF Canal
<1> QED
  BY <1>1, <1>2, <1>3, <1>4, <1>5, <1>6, <1>7, <1>8, <1>9, <1>10, <1>11, SMTT(60) DEF Means

\* A coded column's dictionary is one of the three.
LEMMA ColumnDictionaries ==
  /\ FIELD_DICTIONARIES["product"] = Producto /\ FIELD_DICTIONARIES["motive"] = Motivo
  /\ FIELD_DICTIONARIES["channel_in"] = Canal /\ FIELD_DICTIONARIES["channel_operation"] = Canal
BY DEF FIELD_DICTIONARIES

\* In a coded column a term has one code, and its other terms have it too.
LEMMA TermsShareCodes ==
  ASSUME NEW f \in CodedColumns, NEW x, Recognised(f, x), NEW y \in Terms(f, Code(f, x))
  PROVE  Recognised(f, y) /\ Code(f, y) = Code(f, x)
<1> DEFINE dictionary == FIELD_DICTIONARIES[f]
           codes(term) == {code \in DOMAIN dictionary : Means(dictionary, code, term)}
<1>1. \A a, b \in DOMAIN dictionary : \A term :
        Means(dictionary, a, term) /\ Means(dictionary, b, term) => a = b
  BY ColumnDictionaries, ProductsApart, MotivesApart, ChannelsApart DEF CodedColumns
<1>2. \A term : Recognised(f, term) =>
        Code(f, term) \in DOMAIN dictionary /\ Means(dictionary, Code(f, term), term)
  BY DEF Recognised, Code
<1>3. Means(dictionary, Code(f, x), y)
  BY DEF Terms, Means
<1>4. Recognised(f, y)
  BY <1>2, <1>3 DEF Recognised
<1> QED
  BY <1>1, <1>2, <1>3, <1>4

\* A blank field is recognised nowhere.
LEMMA BlankIsNoTerm == \A f \in CodedColumns : ~Recognised(f, Blank)
<1>1. \A code \in DOMAIN Producto : ~Means(Producto, code, Blank)
  BY DEF Producto, Means, Blank
<1>2. \A code \in DOMAIN Motivo : ~Means(Motivo, code, Blank)
  BY DEF Motivo, Means, Blank
<1>3. \A code \in DOMAIN Canal : ~Means(Canal, code, Blank)
  BY DEF Canal, Means, Blank
<1> QED
  BY <1>1, <1>2, <1>3, ColumnDictionaries DEF Recognised, CodedColumns

\* A submission is stored, judged and routed like the same one in other words.
LEMMA OtherWords ==
  ASSUME NEW s, IsSubmission(s), NEW t \in Reworded(s)
  PROVE  /\ \A g \in CodedColumns : Column(s, g) = Column(t, g)
         /\ Errors(s) = Errors(t) /\ AnnexErrors(s) = AnnexErrors(t)
<1>1. PICK f \in CodedColumns : /\ Recognised(f, s[f])
                                /\ \E term \in Terms(f, Code(f, s[f])) : t = [s EXCEPT ![f] = term]
  BY CodedDefaults DEF Reworded
<1>2. PICK term \in Terms(f, Code(f, s[f])) : t = [s EXCEPT ![f] = term]
  BY <1>1
<1>3. Recognised(f, term) /\ Code(f, term) = Code(f, s[f])
  BY <1>1, TermsShareCodes
<1>4. f \in DOMAIN s /\ DOMAIN t = DOMAIN s /\ t[f] = term /\ \A g \in ReadFields \ {f} : t[g] = s[g]
  BY <1>2 DEF CodedColumns, IsSubmission, ReadFields
<1>5. s[f] # Blank /\ t[f] # Blank
  BY <1>3, <1>4, <1>1, BlankIsNoTerm
<1>6. \A g \in CodedColumns : Column(s, g) = Column(t, g)
  <2> SUFFICES ASSUME NEW g \in CodedColumns PROVE Column(s, g) = Column(t, g)
    OBVIOUS
  <2>1. CASE g = f
    BY <1>1, <1>3, <1>4, <2>1 DEF Column
  <2>2. CASE g # f
    BY <1>4, <2>2 DEF Column, ReadFields
  <2> QED
    BY <2>1, <2>2
<1>7. Errors(s) = Errors(t)
  <2>1. \A g \in {"institution_complaint_id", "product", "motive"} : s[g] = Blank <=> t[g] = Blank
    BY <1>4, <1>5 DEF ReadFields, CodedColumns
  <2> QED
    BY <2>1 DEF Errors
<1>8. AnnexErrors(s) = AnnexErrors(t)
  <2>1. DocumentRules(s) = DocumentRules(t)
    BY <1>4 DEF DocumentRules, NumberFits, ReadFields, CodedColumns
  <2>2. DetailRules(s) = DetailRules(t)
    BY <1>4 DEF DetailRules, ReadFields, CodedColumns
  <2>3. StateRules(s) = StateRules(t)
    BY <1>4 DEF StateRules, ReadFields, CodedColumns
  <2>4. InsuranceRules(s) = InsuranceRules(t)
    BY <1>4 DEF InsuranceRules, ReadFields, CodedColumns
  <2>5. Broken(ArrivalRules(s)) \intersect AnnexErrorRules
          = Broken(ArrivalRules(t)) \intersect AnnexErrorRules
    <3>1. s.received_at = t.received_at /\ s.canal_respuesta = t.canal_respuesta
      BY <1>4 DEF ReadFields, CodedColumns
    <3>2. s.channel_in = Blank <=> t.channel_in = Blank
      BY <1>4, <1>5 DEF ReadFields, CodedColumns
    <3> QED
      BY <3>1, <3>2 DEF ArrivalRules, Broken, AnnexErrorRules
  <2> QED
    BY <2>1, <2>2, <2>3, <2>4, <2>5 DEF AnnexErrors, AnnexResults
<1> QED
  BY <1>6, <1>7, <1>8

\* The words an institution chose for a code do not matter, whatever else it
\* submitted: stored columns, errors and the route of triage are the same.
THEOREM WordsDoNotMatter ==
  \A s : IsSubmission(s) => SynonymsAreOne(s)
<1> SUFFICES ASSUME NEW s, IsSubmission(s), NEW t \in Reworded(s)
             PROVE  /\ \A f \in DOMAIN Default : Column(s, f) = Column(t, f)
                    /\ Errors(s) = Errors(t) /\ AnnexErrors(s) = AnnexErrors(t)
                    /\ \A heard \in SUBSET Tools : RouteTo(s, heard) = RouteTo(t, heard)
  BY DEF SynonymsAreOne
<1>1. /\ \A g \in CodedColumns : Column(s, g) = Column(t, g)
      /\ Errors(s) = Errors(t) /\ AnnexErrors(s) = AnnexErrors(t)
  BY OtherWords
<1>2. \A heard : RouteTo(s, heard) = RouteTo(t, heard)
  BY <1>1 DEF RouteTo, Confidence, DqErrors, QueryDqResults, CodedColumns
<1> QED
  BY <1>1, <1>2, CodedDefaults

-----------------------------------------------------------------------------
(* AnnexRows: sheets *)

\* Max and Min of two.
LEMMA OfTwo ==
  ASSUME NEW a \in Int, NEW b \in Int
  PROVE  /\ Max({a, b}) = IF a >= b THEN a ELSE b
         /\ Min({a, b}) = IF a <= b THEN a ELSE b
BY DEF Max, Min

\* The digit j places before the last, or 0.
DigitAt(s, j) == IF j < Len(s) THEN s[Len(s) - j] ELSE 0

\* A sequence is known by its length and its digits.
LEMMA SameDigits ==
  ASSUME NEW s \in Seq(Nat), NEW t \in Seq(Nat), Len(s) = Len(t),
         \A j \in Nat : j < Len(s) => DigitAt(s, j) = DigitAt(t, j)
  PROVE  s = t
<1>1. Len(s) \in Nat
  OBVIOUS
<1>2. ASSUME NEW i \in 1..Len(s) PROVE s[i] = t[i]
  <2> DEFINE j == Len(s) - i
  <2>1. j \in Nat /\ j < Len(s) /\ Len(s) - j = i
    BY <1>1
  <2> QED
    BY <2>1 DEF DigitAt
<1> QED
  BY <1>1, <1>2

\* The end of a sequence.
LEMMA LastOfIs ==
  ASSUME NEW s \in Seq(Nat), NEW n \in Nat, n > 0
  PROVE  /\ LastOf(s, n) \in Seq(Nat)
         /\ Len(s) <= n => Len(LastOf(s, n)) = Len(s)
         /\ Len(s) > n => Len(LastOf(s, n)) = n
         /\ \A j \in Nat : j < n => DigitAt(LastOf(s, n), j) = DigitAt(s, j)
<1> DEFINE t == LastOf(s, n)
<1>1. Len(s) \in Nat
  OBVIOUS
<1> DEFINE first == IF Len(s) <= n THEN 1 ELSE Len(s) - n + 1
<1>2. /\ first \in Int /\ first >= 1 /\ t = SubSeq(s, first, Len(s))
      /\ Len(s) <= n => first = 1
      /\ Len(s) > n => first = Len(s) - n + 1
  <2>1. first \in Int /\ first >= 1 /\ Max({1, Len(s) - n + 1}) = first
    BY <1>1, OfTwo
  <2>2. t = SubSeq(s, Max({1, Len(s) - n + 1}), Len(s))
    BY DEF LastOf
  <2>3. t = SubSeq(s, first, Len(s))
    BY <2>1, <2>2, Zenon
  <2>4. (Len(s) <= n => first = 1) /\ (Len(s) > n => first = Len(s) - n + 1)
    BY <1>1
  <2> QED
    BY <2>1, <2>3, <2>4, Zenon
<1> HIDE DEF first, t
<1>3. /\ t \in Seq(Nat)
      /\ Len(t) = IF first <= Len(s) THEN Len(s) - first + 1 ELSE 0
      /\ \A i \in 1..(Len(s) - first + 1) : t[i] = s[first + i - 1]
  <2>1. \A i \in first..Len(s) : s[i] \in Nat
    BY <1>1, <1>2
  <2> QED
    BY <1>1, <1>2, <2>1, SubSeqProperties
<1>4. Len(t) = Len(s) - first + 1
  BY <1>1, <1>2, <1>3
<1>5. ASSUME NEW j \in Nat, j < n PROVE DigitAt(t, j) = DigitAt(s, j)
  <2>1. CASE j < Len(t)
    <3> DEFINE i == Len(t) - j
    <3>1. i \in 1..(Len(s) - first + 1) /\ first + i - 1 = Len(s) - j /\ j < Len(s)
      BY <1>1, <1>2, <1>4, <2>1
    <3>2. t[i] = s[Len(s) - j]
      BY <1>3, <3>1
    <3> QED
      BY <2>1, <3>1, <3>2 DEF DigitAt
  <2>2. CASE ~(j < Len(t))
    <3>1. ~(j < Len(s))
      BY <1>1, <1>2, <1>4, <1>5, <2>2
    <3> QED
      BY <2>2, <3>1 DEF DigitAt
  <2> QED
    BY <2>1, <2>2
<1>6. (Len(s) <= n => Len(t) = Len(s)) /\ (Len(s) > n => Len(t) = n)
  BY <1>1, <1>2, <1>4
<1> QED
  BY <1>3, <1>5, <1>6 DEF t

\* Zeros in front.
LEMMA PaddedIs ==
  ASSUME NEW s \in Seq(Nat), NEW n \in Nat
  PROVE  /\ Padded(s, n) \in Seq(Nat)
         /\ Len(s) >= n => Len(Padded(s, n)) = Len(s)
         /\ Len(s) < n => Len(Padded(s, n)) = n
         /\ \A j \in Nat : DigitAt(Padded(s, n), j) = DigitAt(s, j)
<1> DEFINE t == Padded(s, n)
<1>1. Len(s) \in Nat
  OBVIOUS
<1> DEFINE more == IF Len(s) >= n THEN 0 ELSE n - Len(s)
<1>2. /\ more \in Nat /\ t = Zeros(more) \o s
      /\ Len(s) >= n => more = 0
      /\ Len(s) < n => more = n - Len(s)
  <2>1. more \in Nat /\ Max({0, n - Len(s)}) = more
    BY <1>1, OfTwo
  <2>2. t = Zeros(Max({0, n - Len(s)})) \o s
    BY DEF Padded
  <2>3. t = Zeros(more) \o s
    BY <2>1, <2>2, Zenon
  <2>4. (Len(s) >= n => more = 0) /\ (Len(s) < n => more = n - Len(s))
    BY <1>1
  <2> QED
    BY <2>1, <2>3, <2>4, Zenon
<1> HIDE DEF more
<1>3. Zeros(more) \in Seq(Nat) /\ Len(Zeros(more)) = more /\ \A i \in 1..more : Zeros(more)[i] = 0
  BY <1>2 DEF Zeros
<1>4. /\ t \in Seq(Nat) /\ Len(t) = more + Len(s)
      /\ \A i \in 1..(more + Len(s)) : t[i] = IF i <= more THEN Zeros(more)[i] ELSE s[i - more]
  <2> HIDE DEF t
  <2>1. t = Zeros(more) \o s
    BY <1>2
  <2> DEFINE z == Zeros(more)
  <2>2. z \in Seq(Nat) /\ Len(z) = more
    BY <1>3
  <2> HIDE DEF z
  <2>3. /\ z \o s \in Seq(Nat) /\ Len(z \o s) = Len(z) + Len(s)
        /\ \A i \in 1..(Len(z) + Len(s)) : (z \o s)[i] = IF i <= Len(z) THEN z[i] ELSE s[i - Len(z)]
    BY <2>2, ConcatProperties
  <2> QED
    BY <2>1, <2>2, <2>3 DEF z
<1> HIDE DEF t
<1>5. ASSUME NEW j \in Nat PROVE DigitAt(t, j) = DigitAt(s, j)
  <2>1. CASE j < Len(s)
    <3> DEFINE i == Len(t) - j
    <3>1. i \in 1..(more + Len(s)) /\ ~(i <= more) /\ i - more = Len(s) - j /\ j < Len(t)
      BY <1>1, <1>2, <1>4, <2>1
    <3>2. t[i] = s[Len(s) - j]
      BY <1>4, <3>1
    <3> QED
      BY <2>1, <3>1, <3>2 DEF DigitAt
  <2>2. CASE ~(j < Len(s)) /\ j < Len(t)
    <3> DEFINE i == Len(t) - j
    <3>1. i \in 1..(more + Len(s)) /\ i <= more /\ i \in 1..more
      BY <1>1, <1>2, <1>4, <2>2
    <3>2. t[i] = 0
      BY <1>3, <1>4, <3>1
    <3> QED
      BY <2>2, <3>2 DEF DigitAt
  <2>3. CASE ~(j < Len(s)) /\ ~(j < Len(t))
    BY <2>3 DEF DigitAt
  <2>4. j < Len(s) \/ ~(j < Len(s))
    OBVIOUS
  <2> QED
    BY <2>1, <2>2, <2>3
<1>6. (Len(s) >= n => Len(t) = Len(s)) /\ (Len(s) < n => Len(t) = n)
  BY <1>1, <1>2, <1>4
<1> QED
  BY <1>4, <1>5, <1>6 DEF t

\* Lengths: what is cut to ten, and padded to six.
LEMMA CutToTen ==
  ASSUME NEW length \in Nat, NEW end, length <= 10 => end = length, length > 10 => end = 10
  PROVE  end \in 0..10 /\ (length >= 10 => end = 10)
OBVIOUS

LEMMA CutTo8000 ==
  ASSUME NEW length \in Nat, NEW cut, cut = IF length <= 8000 THEN length ELSE 8000,
         NEW end, length = 0 => end = 53, length \in 1..9 => end = length + 27,
         length > 9 => end = cut
  PROVE  10 <= end /\ end <= 8000
OBVIOUS

LEMMA PaddedToSix ==
  ASSUME NEW length \in 0..10, NEW wide, length >= 6 => wide = length, length < 6 => wide = 6
  PROVE  wide \in 6..10
OBVIOUS

\* Two codes with one complaint id agree on their last ten digits.
LEMMA IdsTellLastTen ==
  ASSUME NEW a \in Seq(Nat), NEW b \in Seq(Nat),
         Padded(LastOf(a, 10), 6) = Padded(LastOf(b, 10), 6)
  PROVE  LastOf(Padded(a, 10), 10) = LastOf(Padded(b, 10), 10)
<1>1. ASSUME NEW s \in Seq(Nat)
      PROVE  LET last == LastOf(Padded(s, 10), 10) IN
             /\ last \in Seq(Nat) /\ Len(last) = 10
             /\ \A j \in Nat : j < 10 => /\ DigitAt(last, j) = DigitAt(s, j)
                                         /\ DigitAt(Padded(LastOf(s, 10), 6), j) = DigitAt(s, j)
  <2> DEFINE wide == Padded(s, 10)
             last == LastOf(wide, 10)
             end  == LastOf(s, 10)
             id   == Padded(end, 6)
  <2>7. Len(s) \in Nat
    OBVIOUS
  <2>8. 10 \in Nat /\ 10 > 0
    OBVIOUS
  <2>1. /\ wide \in Seq(Nat)
        /\ Len(s) >= 10 => Len(wide) = Len(s)
        /\ Len(s) < 10 => Len(wide) = 10
        /\ \A j \in Nat : DigitAt(wide, j) = DigitAt(s, j)
    BY PaddedIs
  <2>2. end \in Seq(Nat) /\ \A j \in Nat : j < 10 => DigitAt(end, j) = DigitAt(s, j)
    BY LastOfIs
  <2> HIDE DEF wide, end
  <2>3. /\ last \in Seq(Nat)
        /\ Len(wide) <= 10 => Len(last) = Len(wide)
        /\ Len(wide) > 10 => Len(last) = 10
        /\ \A j \in Nat : j < 10 => DigitAt(last, j) = DigitAt(wide, j)
    BY <2>1, <2>8, LastOfIs, Zenon
  <2>4. \A j \in Nat : DigitAt(id, j) = DigitAt(end, j)
    BY <2>2, PaddedIs
  <2> HIDE DEF last, id
  <2>5. Len(last) = 10
    <3>1. CASE Len(s) >= 10
      <4>1. Len(wide) = Len(s)
        BY <2>1, <3>1, Zenon
      <4>2. (Len(wide) <= 10 => Len(last) = Len(wide)) /\ (Len(wide) > 10 => Len(last) = 10)
        BY <2>3, Zenon
      <4>3. Len(wide) \in Nat /\ Len(wide) >= 10
        BY <2>7, <3>1, <4>1, Zenon
      <4> QED
        BY <4>2, <4>3, CutToTen, Zenon
    <3>2. CASE Len(s) < 10
      <4>1. Len(wide) = 10
        BY <2>1, <3>2, Zenon
      <4> QED
        BY <2>3, <4>1
    <3> QED
      BY <2>7, <3>1, <3>2
  <2>6. \A j \in Nat : j < 10 => DigitAt(last, j) = DigitAt(s, j) /\ DigitAt(id, j) = DigitAt(s, j)
    BY <2>1, <2>2, <2>3, <2>4
  <2> QED
    BY <2>3, <2>5, <2>6 DEF last, id, wide, end
<1> DEFINE X == LastOf(Padded(a, 10), 10)
           Y == LastOf(Padded(b, 10), 10)
<1>2. X \in Seq(Nat) /\ Len(X) = 10 /\ Y \in Seq(Nat) /\ Len(Y) = 10
  BY <1>1
<1>3. \A j \in Nat : j < 10 => DigitAt(X, j) = DigitAt(Y, j)
  BY <1>1
<1> HIDE DEF X, Y
<1>4. X = Y
  BY <1>2, <1>3, SameDigits
<1> QED
  BY <1>4 DEF X, Y
\* Cells, and rows made of them.
Cell == [digits : Seq(0..9), type : {"text", "int", "float"}]
IsRow(row) ==
  /\ row.cod_rec \in Cell /\ row.nro_cli \in Cell /\ row.ubi_rec \in Cell
  /\ row.det_rec \in [length : Nat, control : BOOLEAN] /\ row.tid_length \in Nat

\* A cell is written in digits.
LEMMA DigitsAreDigits ==
  ASSUME NEW cell \in Cell
  PROVE  DigitsOf(cell) \in Seq(0..9) /\ DigitsOf(cell) \in Seq(Nat)
<1> DEFINE kept == {i \in DOMAIN cell.digits : \E j \in 1..i : cell.digits[j] # 0}
           number == IF kept = {} THEN <<0>> ELSE SubSeq(cell.digits, Min(kept), Len(cell.digits))
<1>1. cell.digits \in Seq(0..9) /\ Len(cell.digits) \in Nat
  BY DEF Cell
<1>2. number \in Seq(0..9)
  <2>1. CASE kept = {}
    BY <2>1
  <2>2. CASE kept # {}
    <3>1. kept \subseteq Nat
      BY <1>1
    <3>2. PICK m \in kept : \A k \in kept : m <= k
      BY <2>2, <3>1, LeastOf
    <3>3. Min(kept) \in kept
      BY <3>2 DEF Min
    <3>4. Min(kept) \in 1..Len(cell.digits)
      BY <1>1, <3>3
    <3>5. \A i \in Min(kept)..Len(cell.digits) : cell.digits[i] \in 0..9
      BY <1>1, <3>4
    <3> DEFINE first == Min(kept)
               all == cell.digits
    <3>6. first \in Int /\ Len(all) \in Int /\ \A i \in first..Len(all) : all[i] \in 0..9
      BY <1>1, <3>4, <3>5
    <3> HIDE DEF first, all
    <3>7. SubSeq(all, first, Len(all)) \in Seq(0..9)
      BY <3>6, SubSeqProperties
    <3>8. SubSeq(cell.digits, Min(kept), Len(cell.digits)) \in Seq(0..9)
      BY <3>7 DEF first, all
    <3> QED
      BY <2>2, <3>8
  <2> QED
    BY <2>1, <2>2
<1>3. number \o <<0>> \in Seq(0..9)
  <2> HIDE DEF number
  <2>1. <<0>> \in Seq(0..9)
    OBVIOUS
  <2> QED
    BY <1>2, <2>1, ConcatProperties
<1>4. \/ cell.type = "text" /\ DigitsOf(cell) = cell.digits
      \/ cell.type = "int" /\ DigitsOf(cell) = number
      \/ cell.type = "float" /\ DigitsOf(cell) = number \o <<0>>
  <2>1. cell.type \in {"text", "int", "float"}
    BY DEF Cell
  <2> QED
    BY <2>1 DEF DigitsOf
<1> HIDE DEF number
<1>5. DigitsOf(cell) \in Seq(0..9)
  BY <1>1, <1>2, <1>3, <1>4
<1> QED
  BY <1>5

\* A complaint id has six digits to ten.
LEMMA IdsHaveDigits ==
  ASSUME NEW code \in Cell, NEW ordinal \in Nat
  PROVE  Len(ComplaintId(code, ordinal)) \in 6..10
<1> DEFINE digits == IF DigitsOf(code) = <<>> THEN Padded(<<ordinal>>, 6) ELSE DigitsOf(code)
           end    == LastOf(digits, 10)
<1>1. digits \in Seq(Nat) /\ Len(digits) \in Nat
  <2>1. <<ordinal>> \in Seq(Nat)
    OBVIOUS
  <2>2. Padded(<<ordinal>>, 6) \in Seq(Nat)
    BY <2>1, PaddedIs
  <2>3. digits \in Seq(Nat)
    BY <2>2, DigitsAreDigits
  <2> HIDE DEF digits
  <2> QED
    BY <2>3
<1> HIDE DEF digits
<1>2. end \in Seq(Nat) /\ Len(end) \in 0..10
  <2>1. /\ end \in Seq(Nat)
        /\ Len(digits) <= 10 => Len(end) = Len(digits)
        /\ Len(digits) > 10 => Len(end) = 10
    <3>1. 10 \in Nat /\ 10 > 0
      OBVIOUS
    <3> QED
      BY <1>1, <3>1, LastOfIs, Zenon
  <2> QED
    BY <1>1, <2>1, CutToTen, Zenon
<1> HIDE DEF end
<1>3. /\ Len(end) >= 6 => Len(Padded(end, 6)) = Len(end)
      /\ Len(end) < 6 => Len(Padded(end, 6)) = 6
  BY <1>2, PaddedIs
<1>4. Len(Padded(end, 6)) \in 6..10
  BY <1>2, <1>3, PaddedToSix, Zenon
<1> QED
  BY <1>4 DEF ComplaintId, digits, end

\* A district has six digits.
LEMMA DistrictsHaveSix ==
  ASSUME NEW cell \in Cell
  PROVE  Len(Ubigeo(cell)) = 6
<1> DEFINE d == DigitsOf(cell)
<1>1. d \in Seq(Nat) /\ Len(d) \in Nat
  BY DigitsAreDigits
<1> HIDE DEF d
<1>2. CASE Len(d) \in {2, 4, 6}
  <2> DEFINE z == Zeros(6 - Len(d))
  <2>1. z \in Seq(Nat) /\ Len(z) = 6 - Len(d)
    <3>1. 6 - Len(d) \in Nat
      <4>1. \A n \in {2, 4, 6} : 6 - n \in Nat
        OBVIOUS
      <4> QED
        BY <1>2, <4>1, Zenon
    <3>2. ASSUME NEW n \in Nat PROVE Zeros(n) \in Seq(Nat) /\ Len(Zeros(n)) = n
      BY DEF Zeros
    <3> QED
      BY <3>1, <3>2, Zenon
  <2> HIDE DEF z
  <2>2. Len(d \o z) = Len(d) + Len(z)
    BY <1>1, <2>1, ConcatProperties
  <2>3. Ubigeo(cell) = d \o z
    BY <1>2 DEF Ubigeo, d, z
  <2> QED
    BY <1>1, <1>2, <2>1, <2>2, <2>3
<1>3. CASE Len(d) \notin {2, 4, 6}
  BY <1>3 DEF Ubigeo, Lima, d
<1> QED
  BY <1>2, <1>3

\* An age range is a bucket or unknown.
LEMMA AgesAreBuckets ==
  ASSUME NEW cell \in Cell
  PROVE  AgeRange(cell) \in ToSet(AgeBuckets) \cup {"UNKNOWN"}
<1> DEFINE d == DigitsOf(cell)
<1>1. d \in Seq(0..9)
  BY DigitsAreDigits
<1> HIDE DEF d
<1>2. CASE d = <<>>
  BY <1>2 DEF AgeRange, d
<1>3. CASE d # <<>>
  <2>1. Len(d) \in Nat \ {0}
    BY <1>1, <1>3
  <2>2. d[Len(d)] \in 0..9
    BY <1>1, <2>1
  <2>3. (d[Len(d)] % 6) + 1 \in 1..6
    BY <2>2
  <2>4. AgeRange(cell) = AgeBuckets[(d[Len(d)] % 6) + 1]
    BY <1>3 DEF AgeRange, Last, d
  <2>5. DOMAIN AgeBuckets = 1..6
    BY DEF AgeBuckets
  <2> QED
    BY <2>3, <2>4, <2>5 DEF ToSet
<1> QED
  BY <1>2, <1>3

\* A description has ten characters or more, and 8000 at most.
LEMMA DescriptionsFit ==
  ASSUME NEW text \in [length : Nat, control : BOOLEAN]
  PROVE  /\ 10 <= Description(text).length /\ Description(text).length <= 8000
         /\ Description(text).control = text.control
<1>1. text.length \in Nat /\ Min({text.length, 8000}) = IF text.length <= 8000 THEN text.length ELSE 8000
  BY OfTwo
<1>2. Description(text).control = text.control
  BY DEF Description
<1>3. Description(text).length = CASE text.length = 0 -> 53
                                   [] text.length \in 1..9 -> text.length + 27
                                   [] OTHER -> Min({text.length, 8000})
  BY DEF Description
<1> DEFINE n == text.length
<1> DEFINE cut == Min({text.length, 8000})
<1> DEFINE end == Description(text).length
<1>4. /\ n \in Nat /\ cut = IF n <= 8000 THEN n ELSE 8000
      /\ end = CASE n = 0 -> 53 [] n \in 1..9 -> n + 27 [] OTHER -> cut
  BY <1>1, <1>3
<1> HIDE DEF n, cut, end
<1>5. (n = 0 => end = 53) /\ (n \in 1..9 => end = n + 27) /\ (n > 9 => end = cut)
  BY <1>4
<1>6. 10 <= end /\ end <= 8000
  BY <1>4, <1>5, CutTo8000
<1> QED
  BY <1>2, <1>6 DEF end

\* The tables' terms are the schema's.
LEMMA TablesAreTerms ==
  /\ \A term : Lookup(term, DocTypes, "OTRO") \in {"DNI", "CE", "PASAPORTE", "RUC", "OTRO"}
  /\ \A term : Lookup(term, ProductTerms, "OTRO") \in Products
  /\ \A term : Lookup(term, ChannelTerms, "OTRO") \in Channels
  /\ \A term : Lookup(term, MotivoTerms, "OTRO") \in Motivos
  /\ \A term : Lookup(term, MethodTerms, "OTRO") \in Methods
  /\ \A term : Lookup(term, StatusTerms, "pendiente") \in {"pendiente", "atendido", "anulado"}
<1>1. \A term : Lookup(term, DocTypes, "OTRO") \in {"DNI", "CE", "PASAPORTE", "RUC", "OTRO"}
  BY DEF Lookup, DocTypes
<1>2. \A term : Lookup(term, ProductTerms, "OTRO") \in Products
  BY DEF Lookup, ProductTerms, Products
<1>3. \A term : Lookup(term, ChannelTerms, "OTRO") \in Channels
  BY DEF Lookup, ChannelTerms, Channels
<1>4. \A term : Lookup(term, MotivoTerms, "OTRO") \in Motivos
  BY DEF Lookup, MotivoTerms, Motivos
<1>5. \A term : Lookup(term, MethodTerms, "OTRO") \in Methods
  BY DEF Lookup, MethodTerms, Methods
<1>6. \A term : Lookup(term, StatusTerms, "pendiente") \in {"pendiente", "atendido", "anulado"}
  BY DEF Lookup, StatusTerms
<1> QED
  BY <1>1, <1>2, <1>3, <1>4, <1>5, <1>6

\* A batch row is taken, or refused for its ubigeo or its narrative.
LEMMA BatchRowsFit ==
  ASSUME NEW row, IsRow(row), NEW ordinal \in Nat
  PROVE  LET c == BatchRow(row, ordinal) IN
         TakenByComplaint(c) \/ c.description_text.control \/ c.complainant_district = Zeros(6)
<1> DEFINE c == BatchRow(row, ordinal)
<1>1. /\ row.cod_rec \in Cell /\ row.nro_cli \in Cell /\ row.ubi_rec \in Cell
      /\ row.det_rec \in [length : Nat, control : BOOLEAN]
  BY DEF IsRow
<1>2. /\ c.complaint_id = ComplaintId(row.cod_rec, ordinal)
      /\ c.complainant_doc_type = Lookup(row.tid_cli, DocTypes, "OTRO")
      /\ c.product_category = Lookup(row.prd_sbs, ProductTerms, "OTRO")
      /\ c.channel = Lookup(row.cnl_ing, ChannelTerms, "OTRO")
      /\ c.motivo_code = Lookup(row.mot_sbs, MotivoTerms, "OTRO")
      /\ c.description_text = Description(row.det_rec)
      /\ c.complainant_age_range = AgeRange(row.nro_cli)
      /\ c.complainant_district = Ubigeo(row.ubi_rec)
      /\ c.submission_method = Lookup(row.cnl_ope, MethodTerms, "OTRO")
      /\ c.resolution_status = Lookup(row.est_rec, StatusTerms, "pendiente")
  BY DEF BatchRow
<1> HIDE DEF c
<1>3. Len(c.complaint_id) \in 6..10 /\ Len(c.complainant_district) = 6
  BY <1>1, <1>2, IdsHaveDigits, DistrictsHaveSix
<1>4. c.complainant_age_range \in ToSet(AgeBuckets) \cup {"UNKNOWN"}
  BY <1>1, <1>2, AgesAreBuckets
<1>5. 10 <= c.description_text.length /\ c.description_text.length <= 8000
  BY <1>1, <1>2, DescriptionsFit
<1>6. /\ c.complainant_doc_type \in {"DNI", "CE", "PASAPORTE", "RUC", "OTRO"}
      /\ c.product_category \in Products /\ c.channel \in Channels
      /\ c.motivo_code \in Motivos /\ c.submission_method \in Methods
      /\ c.resolution_status \in {"pendiente", "atendido", "anulado"}
  BY <1>2, TablesAreTerms
<1>7. ASSUME ~c.description_text.control, c.complainant_district # Zeros(6)
      PROVE  TakenByComplaint(c)
  BY <1>3, <1>4, <1>5, <1>6, <1>7 DEF TakenByComplaint
<1> QED
  BY <1>7, Zenon DEF c

\* The k-th coded row of a sheet: the first with k coded rows up to it.
LEMMA CodedRow ==
  ASSUME NEW Row, \A row \in Row : IsRow(row), NEW sheet \in Seq(Row),
         NEW k \in 1..Cardinality({i \in DOMAIN sheet : HasCode(sheet[i])})
  PROVE  \E i \in DOMAIN sheet :
           /\ HasCode(sheet[i])
           /\ Cardinality({j \in 1..i : HasCode(sheet[j])}) = k
<1> DEFINE UpTo(i) == {j \in 1..i : HasCode(sheet[j])}
<1> DEFINE Enough == {i \in 1..Len(sheet) : Cardinality(UpTo(i)) >= k}
<1>1. Len(sheet) \in Nat /\ DOMAIN sheet = 1..Len(sheet)
  OBVIOUS
<1>2. ASSUME NEW i \in Nat PROVE IsFiniteSet(UpTo(i)) /\ Cardinality(UpTo(i)) \in Nat
  <2>1. IsFiniteSet(1..i) /\ UpTo(i) \subseteq 1..i
    BY FS_Interval
  <2> QED
    BY <2>1, FS_Subset, FS_CardinalityType
<1>3. k \in Nat /\ k >= 1 /\ Cardinality(UpTo(Len(sheet))) >= k
  <2>1. {i \in DOMAIN sheet : HasCode(sheet[i])} = UpTo(Len(sheet))
    BY <1>1
  <2>2. k \in 1..Cardinality(UpTo(Len(sheet)))
    BY <2>1
  <2> QED
    BY <1>1, <1>2, <2>2
<1>4. Cardinality(UpTo(0)) = 0
  <2>1. UpTo(0) = {}
    OBVIOUS
  <2> QED
    BY <2>1, FS_EmptySet
<1> HIDE DEF UpTo
<1>5. Len(sheet) \in Enough
  <2>1. Len(sheet) # 0
    BY <1>3, <1>4
  <2> QED
    BY <1>1, <1>3, <2>1
<1>6. PICK m \in Enough : \A i \in Enough : m <= i
  <2>1. Enough \subseteq Nat
    OBVIOUS
  <2> HIDE DEF Enough
  <2> QED
    BY <1>5, <2>1, LeastOf
<1>7. m \in 1..Len(sheet) /\ m \in Nat /\ m - 1 \in Nat /\ Cardinality(UpTo(m)) >= k
  BY <1>1, <1>6
<1>8. Cardinality(UpTo(m - 1)) < k
  <2>1. CASE m = 1
    BY <1>3, <1>4, <2>1
  <2>2. CASE m # 1
    <3>1. m - 1 \in 1..Len(sheet) /\ m - 1 \notin Enough
      BY <1>1, <1>6, <1>7, <2>2
    <3> QED
      BY <1>2, <1>3, <1>7, <3>1
  <2> QED
    BY <2>1, <2>2
<1>9. HasCode(sheet[m])
  <2> SUFFICES ASSUME ~HasCode(sheet[m]) PROVE FALSE
    OBVIOUS
  <2>1. UpTo(m) = UpTo(m - 1)
    BY <1>7 DEF UpTo
  <2> QED
    BY <1>2, <1>3, <1>7, <1>8, <2>1
<1>10. UpTo(m) = UpTo(m - 1) \cup {m} /\ m \notin UpTo(m - 1)
  BY <1>7, <1>9 DEF UpTo
<1>11. Cardinality(UpTo(m)) = Cardinality(UpTo(m - 1)) + 1
  BY <1>2, <1>7, <1>10, FS_AddElement
<1>12. Cardinality(UpTo(m)) = k
  BY <1>2, <1>3, <1>7, <1>8, <1>11
<1> QED
  BY <1>1, <1>7, <1>9, <1>12 DEF UpTo

\* LoadersFitSchemas of every sheet: whatever the codes, documents, ubigeos,
\* narratives and terms of its rows, the batch rows demo_load_sbs_sample
\* writes are ones models/anexo_1a.py takes, but for a zero ubigeo or a
\* control character; its ids collide only where the last ten digits do; and
\* a granular body whose other cells fit is taken.
THEOREM LoadersFit ==
  ASSUME NEW Row, \A row \in Row : IsRow(row), NEW sheet \in Seq(Row)
  PROVE  LoadersFitSchemas(sheet)
<1>1. \A i \in DOMAIN sheet : i \in Nat /\ IsRow(sheet[i])
  OBVIOUS
<1>2. ASSUME NEW k \in DOMAIN Csv(sheet)
      PROVE  LET c == Csv(sheet)[k] IN
             TakenByComplaint(c) \/ c.description_text.control
               \/ c.complainant_district = Zeros(6)
  <2> DEFINE Is(i) == /\ HasCode(sheet[i])
                      /\ Cardinality({j \in 1..i : HasCode(sheet[j])}) = k
  <2> DEFINE row == CHOOSE i \in DOMAIN sheet : Is(i)
  <2>1. k \in 1..Cardinality({i \in DOMAIN sheet : HasCode(sheet[i])})
    BY DEF Csv
  <2>2. \E i \in DOMAIN sheet : Is(i)
    BY <2>1, CodedRow
  <2>3. Csv(sheet)[k] = BatchRow(sheet[row], row)
    BY <2>1 DEF Csv
  <2> HIDE DEF Is
  <2>4. row \in DOMAIN sheet
    BY <2>2
  <2> HIDE DEF row
  <2> QED
    BY <1>1, <2>3, <2>4, BatchRowsFit
<1>3. ASSUME NEW i \in DOMAIN sheet, NEW j \in DOMAIN sheet
      PROVE  LET a == sheet[i].cod_rec  b == sheet[j].cod_rec IN
             /\ i # j /\ DigitsOf(a) # <<>> /\ DigitsOf(b) # <<>>
             /\ ComplaintId(a, i) = ComplaintId(b, j)
             => LastOf(Padded(DigitsOf(a), 10), 10) = LastOf(Padded(DigitsOf(b), 10), 10)
  <2>1. i \in Nat /\ j \in Nat /\ sheet[i].cod_rec \in Cell /\ sheet[j].cod_rec \in Cell
    BY <1>1 DEF IsRow
  <2>2. ASSUME NEW cell \in Cell, NEW ordinal \in Nat, DigitsOf(cell) # <<>>
        PROVE  ComplaintId(cell, ordinal) = Padded(LastOf(DigitsOf(cell), 10), 6)
    BY <2>2 DEF ComplaintId
  <2>3. DigitsOf(sheet[i].cod_rec) \in Seq(Nat) /\ DigitsOf(sheet[j].cod_rec) \in Seq(Nat)
    BY <2>1, DigitsAreDigits
  <2> QED
    BY <2>1, <2>2, <2>3, IdsTellLastTen
<1>4. ASSUME NEW i \in DOMAIN sheet,
             \A f \in DOMAIN MaxLength \ {"institution_complaint_id", "tid_cli"} :
               SampleBody(sheet[i])[f] <= MaxLength[f]
      PROVE  TakenByGranular(GranularBody(sheet[i]))
  <2> DEFINE s == SampleBody(sheet[i])
  <2> DEFINE g == GranularBody(sheet[i])
  <2>1. IsRow(sheet[i])
    BY <1>1
  <2>2. LengthOf(sheet[i].cod_rec) \in Int /\ sheet[i].tid_length \in Int
    <3>1. sheet[i].cod_rec \in Cell /\ sheet[i].tid_length \in Nat
      BY <2>1 DEF IsRow
    <3>2. DigitsOf(sheet[i].cod_rec) \in Seq(0..9)
      BY <3>1, DigitsAreDigits
    <3>3. Len(DigitsOf(sheet[i].cod_rec)) \in Nat
      BY <3>2
    <3> QED
      BY <3>1, <3>3 DEF LengthOf
  <2>3. /\ s.institution_complaint_id = LengthOf(sheet[i].cod_rec)
        /\ s.tid_cli = sheet[i].tid_length
    BY DEF SampleBody
  <2>4. /\ g.institution_complaint_id = Min({LengthOf(sheet[i].cod_rec), 16})
        /\ g.tid_cli = Min({sheet[i].tid_length, 16})
        /\ g.nro_cli = s.nro_cli /\ g.cod_cli = s.cod_cli /\ g.ubigeo = s.ubigeo
        /\ g.narrative = s.narrative /\ g.tipo_resolucion = s.tipo_resolucion
    <3> DEFINE id == Min({LengthOf(sheet[i].cod_rec), 16})
    <3> DEFINE doc == Min({sheet[i].tid_length, 16})
    <3>1. g = [s EXCEPT !.institution_complaint_id = id, !.tid_cli = doc]
      BY <2>3 DEF GranularBody
    <3> HIDE DEF id, doc, g
    <3>2. /\ g.institution_complaint_id = id /\ g.tid_cli = doc
          /\ g.nro_cli = s.nro_cli /\ g.cod_cli = s.cod_cli /\ g.ubigeo = s.ubigeo
          /\ g.narrative = s.narrative /\ g.tipo_resolucion = s.tipo_resolucion
      BY <3>1 DEF SampleBody
    <3> QED
      BY <3>2 DEF id, doc
  <2>5. /\ g.institution_complaint_id <= 16 /\ g.tid_cli <= 16
        /\ g.institution_complaint_id \in Int
    <3>1. ASSUME NEW x \in Int PROVE Min({x, 16}) <= 16 /\ Min({x, 16}) \in Int
      <4> DEFINE cut == Min({x, 16})
      <4>1. cut = IF x <= 16 THEN x ELSE 16
        <5>1. 16 \in Int
          OBVIOUS
        <5> QED
          BY <5>1, OfTwo, Zenon
      <4> HIDE DEF cut
      <4>2. cut <= 16 /\ cut \in Int
        BY <4>1
      <4> QED
        BY <4>2 DEF cut
    <3> HIDE DEF g
    <3> QED
      BY <2>2, <2>4, <3>1, Zenon
  <2>6. /\ s.nro_cli <= 32 /\ s.cod_cli <= 32 /\ s.ubigeo <= 6 /\ s.narrative <= 8000
        /\ s.tipo_resolucion <= 64
    BY <1>4 DEF MaxLength
  <2> HIDE DEF s, g
  <2>7. /\ g.institution_complaint_id <= 64 /\ g.tid_cli <= 16 /\ g.nro_cli <= 32
        /\ g.cod_cli <= 32 /\ g.ubigeo <= 6 /\ g.narrative <= 8000 /\ g.tipo_resolucion <= 64
    <3> HIDE DEF g, s
    <3> QED
      BY <2>4, <2>5, <2>6
  <2>8. \A f \in DOMAIN MaxLength : g[f] <= MaxLength[f]
    BY <2>7 DEF MaxLength
  <2> QED
    BY <2>8 DEF TakenByGranular, g
<1> QED
  BY <1>2, <1>3, <1>4 DEF LoadersFitSchemas

-----------------------------------------------------------------------------
(* Redaction *)

\* A detection, of a kind the engine has, is a span of a character or more.
IsDetection(d) ==
  d.kind \in Kinds /\ d.from \in Nat /\ d.to \in Nat /\ d.from < d.to

\* What a detector reports of a text.
Detection(length) ==
  {d \in [kind : Kinds, from : 1..length, to : 2..(length + 1)] : d.from < d.to}

LEMMA DetectionsAre ==
  ASSUME NEW length \in Nat, NEW d \in Detection(length)
  PROVE  IsDetection(d) /\ d.from \in 1..length /\ d.to \in 2..(length + 1)
BY DEF Detection, IsDetection

\* The detectors tell kinds apart.
LEMMA RanksTell ==
  /\ \A kind \in Kinds : CONFIDENCE[kind] \in Nat /\ Rank(kind) \in Nat
  /\ \A j, k \in Kinds : Rank(j) = Rank(k) => j = k
<1>1. \A kind \in Kinds : CONFIDENCE[kind] \in Nat
  BY DEF Kinds, CONFIDENCE
<1>2. DOMAIN DETECTORS = 1..6
  BY DEF DETECTORS
<1>3. ASSUME NEW kind \in Kinds PROVE \E i \in DOMAIN DETECTORS : DETECTORS[i] = kind
  <2>1. /\ DETECTORS[1] = "pii_name" /\ DETECTORS[2] = "pii_email" /\ DETECTORS[3] = "pii_phone"
        /\ DETECTORS[4] = "pii_id" /\ DETECTORS[5] = "pii_ruc" /\ DETECTORS[6] = "pii_account"
    BY DEF DETECTORS
  <2>2. kind \in {"pii_name", "pii_email", "pii_phone", "pii_id", "pii_ruc", "pii_account"}
    BY DEF Kinds, CONFIDENCE
  <2>3. 1 \in 1..6 /\ 2 \in 1..6 /\ 3 \in 1..6 /\ 4 \in 1..6 /\ 5 \in 1..6 /\ 6 \in 1..6
    OBVIOUS
  <2> QED
    BY <1>2, <2>1, <2>2, <2>3, Zenon
<1>4. \A kind \in Kinds : Rank(kind) \in DOMAIN DETECTORS /\ DETECTORS[Rank(kind)] = kind
  BY <1>3 DEF Rank
<1> QED
  BY <1>1, <1>2, <1>4

\* The order of four numbers: one of two is before the other, and before is
\* transitive.
Lower(ca, la, fa, ra, cb, lb, fb, rb) ==
  \/ ca > cb
  \/ ca = cb /\ la > lb
  \/ ca = cb /\ la = lb /\ (fa < fb \/ (fa = fb /\ ra < rb))

LEMMA LowerOrders ==
  ASSUME NEW ca \in Int, NEW la \in Int, NEW fa \in Int, NEW ra \in Int,
         NEW cb \in Int, NEW lb \in Int, NEW fb \in Int, NEW rb \in Int,
         NEW cc \in Int, NEW lc \in Int, NEW fc \in Int, NEW rc \in Int
  PROVE  /\ ~Lower(ca, la, fa, ra, ca, la, fa, ra)
         /\ Lower(ca, la, fa, ra, cb, lb, fb, rb) \/ Lower(cb, lb, fb, rb, ca, la, fa, ra)
              \/ (ca = cb /\ la = lb /\ fa = fb /\ ra = rb)
         /\ Lower(ca, la, fa, ra, cb, lb, fb, rb) /\ Lower(cb, lb, fb, rb, cc, lc, fc, rc)
              => Lower(ca, la, fa, ra, cc, lc, fc, rc)
BY DEF Lower

\* The order of detections is strict and total.
LEMMA BeforeOrders ==
  ASSUME NEW length \in Nat
  PROVE  /\ \A a \in Detection(length) : ~Before(a, a)
         /\ \A a, b \in Detection(length) : a # b => Before(a, b) \/ Before(b, a)
         /\ \A a, b, c \in Detection(length) : Before(a, b) /\ Before(b, c) => Before(a, c)
<1> DEFINE C(a) == CONFIDENCE[a.kind]
           R(a) == Rank(a.kind)
<1>1. ASSUME NEW a \in Detection(length)
      PROVE  C(a) \in Int /\ Length(a) \in Int /\ a.from \in Int /\ R(a) \in Int
  BY <1>1, DetectionsAre, RanksTell DEF IsDetection, Length
<1>2. ASSUME NEW a, NEW b
      PROVE  Before(a, b) <=> Lower(C(a), Length(a), a.from, R(a), C(b), Length(b), b.from, R(b))
  BY DEF Before, Lower
<1>3. ASSUME NEW a \in Detection(length), NEW b \in Detection(length),
             Length(a) = Length(b), a.from = b.from, R(a) = R(b)
      PROVE  a = b
  <2>1. a.kind = b.kind
    BY <1>3, DetectionsAre, RanksTell DEF IsDetection
  <2>2. a.to = b.to
    BY <1>3, DetectionsAre DEF Length, IsDetection
  <2> QED
    BY <1>3, <2>1, <2>2 DEF Detection
<1> HIDE DEF C, R
<1>4. ASSUME NEW a \in Detection(length) PROVE ~Before(a, a)
  BY <1>1, <1>2, LowerOrders
<1>5. ASSUME NEW a \in Detection(length), NEW b \in Detection(length), a # b
      PROVE  Before(a, b) \/ Before(b, a)
  BY <1>1, <1>2, <1>3, <1>5, LowerOrders
<1>6. ASSUME NEW a \in Detection(length), NEW b \in Detection(length),
             NEW c \in Detection(length), Before(a, b), Before(b, c)
      PROVE  Before(a, c)
  BY <1>1, <1>2, <1>6, LowerOrders
<1> QED
  BY <1>4, <1>5, <1>6

\* Greedy keeping is possible: the kept of the detections with fewer than n
\* before them, for every n.
LEMMA KeptExists ==
  ASSUME NEW length \in Nat, NEW ds \in SUBSET Detection(length), IsFiniteSet(ds)
  PROVE  \E kept \in SUBSET ds : \A d \in ds :
           d \in kept <=> ~\E k \in kept : Before(k, d) /\ Overlap(d, k)
<1> DEFINE Earlier(d) == {e \in ds : Before(e, d)}
           First(n) == {d \in ds : Cardinality(Earlier(d)) < n}
           Keeps(kept, S) == \A d \in S :
             d \in kept <=> ~\E k \in kept : Before(k, d) /\ Overlap(d, k)
           Bad == {n \in Nat : ~\E kept \in SUBSET First(n) : Keeps(kept, First(n))}
<1>1. /\ \A a \in ds : ~Before(a, a)
      /\ \A a, b \in ds : a # b => Before(a, b) \/ Before(b, a)
      /\ \A a, b, c \in ds : Before(a, b) /\ Before(b, c) => Before(a, c)
  BY BeforeOrders
<1>2. \A d \in ds : /\ IsFiniteSet(Earlier(d)) /\ Cardinality(Earlier(d)) \in Nat
                    /\ Cardinality(Earlier(d)) <= Cardinality(ds)
  BY FS_Subset, FS_CardinalityType
<1>3. ASSUME NEW a \in ds, NEW b \in ds, Before(a, b)
      PROVE  Cardinality(Earlier(a)) < Cardinality(Earlier(b))
  <2>1. Earlier(a) \subseteq Earlier(b) /\ a \in Earlier(b) /\ a \notin Earlier(a)
    BY <1>1, <1>3
  <2>2. Earlier(a) # Earlier(b)
    BY <2>1
  <2> HIDE DEF Earlier
  <2> QED
    BY <1>2, <2>1, <2>2, FS_Subset
<1> HIDE DEF Earlier
<1>4. Bad = {}
  <2> SUFFICES ASSUME Bad # {} PROVE FALSE
    OBVIOUS
  <2>1. PICK n \in Bad : \A k \in Bad : n <= k
    <3>1. Bad \subseteq Nat
      OBVIOUS
    <3> HIDE DEF Bad
    <3> QED
      BY <3>1, LeastOf
  <2>2. n # 0
    <3>1. First(0) = {}
      BY <1>2
    <3>2. Keeps({}, First(0)) /\ {} \in SUBSET First(0)
      BY <3>1
    <3> QED
      BY <3>2
  <2>3. n - 1 \in Nat /\ n - 1 \notin Bad
    BY <2>1, <2>2
  <2>4. PICK kept \in SUBSET First(n - 1) : Keeps(kept, First(n - 1))
    BY <2>3
  <2>5. First(n - 1) \subseteq First(n)
    BY <1>2, <2>1
  <2>6. \A a \in First(n) \ First(n - 1) : Cardinality(Earlier(a)) = n - 1
    BY <1>2, <2>1
  <2>7. \A a, b \in First(n) \ First(n - 1) : a = b
    BY <1>1, <1>2, <1>3, <2>6
  <2>8. CASE First(n) = First(n - 1)
    BY <2>1, <2>4, <2>8
  <2>9. ASSUME NEW new \in First(n) \ First(n - 1) PROVE FALSE
    <3>1. First(n) = First(n - 1) \cup {new} /\ new \in ds
      BY <2>5, <2>7, <2>9
    <3>2. \A d \in First(n - 1) : ~Before(new, d)
      BY <1>2, <1>3, <2>1, <2>6, <2>9
    <3>3. ~Before(new, new)
      BY <1>1, <3>1
    <3> HIDE DEF First
    <3>4. CASE \E k \in kept : Before(k, new) /\ Overlap(new, k)
      <4>1. Keeps(kept, First(n)) /\ kept \in SUBSET First(n)
        BY <2>4, <2>9, <3>1, <3>4
      <4> QED
        BY <2>1, <4>1
    <3>5. CASE ~\E k \in kept : Before(k, new) /\ Overlap(new, k)
      <4>1. Keeps(kept \cup {new}, First(n)) /\ kept \cup {new} \in SUBSET First(n)
        BY <2>4, <2>9, <3>1, <3>2, <3>3, <3>5
      <4> QED
        BY <2>1, <4>1
    <3> QED
      BY <3>4, <3>5
  <2> QED
    BY <2>5, <2>8, <2>9
<1>5. Cardinality(ds) \in Nat
  BY FS_CardinalityType
<1>6. First(Cardinality(ds) + 1) = ds
  BY <1>2, <1>5
<1>7. Cardinality(ds) + 1 \in Nat /\ Cardinality(ds) + 1 \notin Bad
  BY <1>4, <1>5
<1> QED
  BY <1>6, <1>7

\* What is kept, for every set of detections.
LEMMA ResolvedIs ==
  ASSUME NEW length \in Nat, NEW ds \in SUBSET Detection(length), IsFiniteSet(ds)
  PROVE  /\ Resolved(ds) \subseteq ds
         /\ \A d \in ds : d \in Resolved(ds)
              <=> ~\E k \in Resolved(ds) : Before(k, d) /\ Overlap(d, k)
<1> DEFINE Is(kept) == \A d \in ds :
             d \in kept <=> ~\E k \in kept : Before(k, d) /\ Overlap(d, k)
<1>1. \E kept \in SUBSET ds : Is(kept)
  BY KeptExists
<1>2. Resolved(ds) = CHOOSE kept \in SUBSET ds : Is(kept)
  BY DEF Resolved
<1> HIDE DEF Is
<1>3. Resolved(ds) \in SUBSET ds /\ Is(Resolved(ds))
  BY <1>1, <1>2
<1> QED
  BY <1>3 DEF Is

\* Spans that overlap share characters, and only those.
LEMMA OverlapsShare ==
  ASSUME NEW length \in Nat, NEW a \in Detection(length), NEW b \in Detection(length)
  PROVE  Overlap(a, b) <=> Cells(a) \intersect Cells(b) # {}
<1>1. IsDetection(a) /\ IsDetection(b)
  BY DetectionsAre
<1>2. ASSUME Overlap(a, b) PROVE Cells(a) \intersect Cells(b) # {}
  <2> DEFINE i == IF a.from <= b.from THEN b.from ELSE a.from
  <2>1. i \in Cells(a) /\ i \in Cells(b)
    BY <1>1, <1>2 DEF Overlap, Cells, IsDetection
  <2> QED
    BY <2>1
<1>3. ASSUME NEW i \in Cells(a) \intersect Cells(b) PROVE Overlap(a, b)
  BY <1>1, <1>3 DEF Overlap, Cells, IsDetection
<1> QED
  BY <1>2, <1>3

\* Kept detections share no characters, and one that is not kept gives way to a
\* kept one that is as sure.
LEMMA KeptCover ==
  ASSUME NEW length \in Nat, NEW ds \in SUBSET Detection(length), IsFiniteSet(ds)
  PROVE  /\ \A d \in ds : \E k \in Resolved(ds) :
              Cells(d) \intersect Cells(k) # {} /\ CONFIDENCE[k.kind] >= CONFIDENCE[d.kind]
         /\ \A j, k \in Resolved(ds) : j # k => Cells(j) \intersect Cells(k) = {}
<1>1. /\ Resolved(ds) \subseteq ds
      /\ \A d \in ds : d \in Resolved(ds)
           <=> ~\E k \in Resolved(ds) : Before(k, d) /\ Overlap(d, k)
  BY ResolvedIs
<1>2. \A a, b \in ds : /\ a # b => Before(a, b) \/ Before(b, a)
                       /\ Overlap(a, b) <=> Cells(a) \intersect Cells(b) # {}
  BY BeforeOrders, OverlapsShare
<1>3. \A d \in ds : IsDetection(d) /\ CONFIDENCE[d.kind] \in Nat
  BY DetectionsAre, RanksTell DEF IsDetection
<1>4. ASSUME NEW d \in ds
      PROVE  \E k \in Resolved(ds) :
               Cells(d) \intersect Cells(k) # {} /\ CONFIDENCE[k.kind] >= CONFIDENCE[d.kind]
  <2>1. CASE d \in Resolved(ds)
    <3>1. d.from \in Cells(d)
      BY <1>3 DEF Cells, IsDetection
    <3>2. CONFIDENCE[d.kind] >= CONFIDENCE[d.kind]
      BY <1>3
    <3> QED
      BY <2>1, <3>1, <3>2
  <2>2. CASE d \notin Resolved(ds)
    <3>1. PICK k \in Resolved(ds) : Before(k, d) /\ Overlap(d, k)
      BY <1>1, <2>2
    <3>2. CONFIDENCE[k.kind] >= CONFIDENCE[d.kind]
      BY <1>1, <1>3, <3>1 DEF Before
    <3> QED
      BY <1>1, <1>2, <3>1, <3>2
  <2> QED
    BY <2>1, <2>2
<1>5. ASSUME NEW j \in Resolved(ds), NEW k \in Resolved(ds), j # k
      PROVE  Cells(j) \intersect Cells(k) = {}
  <2>1. Cells(j) \intersect Cells(k) = Cells(k) \intersect Cells(j)
    OBVIOUS
  <2> QED
    BY <1>1, <1>2, <1>5, <2>1
<1> QED
  BY <1>4, <1>5

\* The k-th of some places.
Up(S, i) == {j \in S : j <= i}
Kth(S, k) == CHOOSE i \in S : Cardinality(Up(S, i)) = k

LEMMA KthIs ==
  ASSUME NEW n \in Nat, NEW S \in SUBSET (1..n)
  PROVE  /\ IsFiniteSet(S) /\ Cardinality(S) \in Nat
         /\ \A k \in 1..Cardinality(S) : Kth(S, k) \in S /\ Cardinality(Up(S, Kth(S, k))) = k
         /\ \A i \in S : /\ Cardinality(Up(S, i)) \in 1..Cardinality(S)
                         /\ Kth(S, Cardinality(Up(S, i))) = i
         /\ \A i, j \in S : i < j => Cardinality(Up(S, i)) < Cardinality(Up(S, j))
<1>1. /\ IsFiniteSet(S) /\ Cardinality(S) \in Nat /\ S \subseteq Nat
      /\ \A i \in S : i \in Nat /\ 1 <= i /\ i <= n
  <2>1. IsFiniteSet(1..n)
    BY FS_Interval
  <2>2. IsFiniteSet(S) /\ Cardinality(S) \in Nat
    BY <2>1, FS_Subset, FS_CardinalityType
  <2>3. \A i \in S : i \in 1..n
    OBVIOUS
  <2>4. \A i \in 1..n : i \in Nat /\ 1 <= i /\ i <= n
    OBVIOUS
  <2> QED
    BY <2>2, <2>3, <2>4, Zenon
<1>0. \A i, x : x \in Up(S, i) <=> x \in S /\ x <= i
  BY DEF Up
<1>2. \A i \in Nat : /\ IsFiniteSet(Up(S, i)) /\ Cardinality(Up(S, i)) \in Nat
                     /\ Cardinality(Up(S, i)) <= Cardinality(S)
  BY <1>1, FS_Subset, FS_CardinalityType DEF Up
<1>3. ASSUME NEW i \in S, NEW j \in S, i < j
      PROVE  Cardinality(Up(S, i)) < Cardinality(Up(S, j))
  <2>1. Up(S, i) \subseteq Up(S, j) /\ j \in Up(S, j) /\ j \notin Up(S, i)
    <3>1. \A x \in S : x <= i => x <= j
      BY <1>1, <1>3
    <3>2. j <= j /\ ~(j <= i)
      BY <1>1, <1>3
    <3> QED
      BY <1>0, <3>1, <3>2
  <2>2. Up(S, i) # Up(S, j) /\ j \in Nat
    BY <1>1, <2>1
  <2> QED
    BY <1>1, <1>2, <2>1, <2>2, FS_Subset
<1>4. ASSUME NEW i \in S
      PROVE  Cardinality(Up(S, i)) \in 1..Cardinality(S) /\ Kth(S, Cardinality(Up(S, i))) = i
  <2>1. Up(S, i) # {} /\ i \in Nat
    BY <1>1 DEF Up
  <2>2. Cardinality(Up(S, i)) # 0
    BY <1>2, <2>1, FS_EmptySet
  <2>3. \A j \in S : Cardinality(Up(S, j)) = Cardinality(Up(S, i)) => j = i
    BY <1>1, <1>2, <1>3
  <2> QED
    BY <1>1, <1>2, <2>1, <2>2, <2>3 DEF Kth
<1>5. ASSUME NEW k \in 1..Cardinality(S)
      PROVE  \E i \in S : Cardinality(Up(S, i)) = k
  <2> DEFINE Enough == {i \in 0..n : Cardinality(Up(S, i)) >= k}
  <2>1. Up(S, n) = S
    BY <1>1 DEF Up
  <2>2. n \in Enough
    BY <1>1, <2>1
  <2>3. PICK m \in Enough : \A i \in Enough : m <= i
    <3>1. Enough \subseteq Nat
      OBVIOUS
    <3> HIDE DEF Enough
    <3> QED
      BY <2>2, <3>1, LeastOf
  <2>4. m # 0
    <3>1. Up(S, 0) = {}
      <4>1. \A x \in S : ~(x <= 0)
        BY <1>1
      <4> QED
        BY <1>0, <4>1
    <3>2. Cardinality(Up(S, 0)) = 0
      BY <3>1, FS_EmptySet
    <3> QED
      BY <2>3, <3>2
  <2>5. m \in Nat /\ m - 1 \in Nat /\ Cardinality(Up(S, m)) >= k /\ Cardinality(Up(S, m - 1)) < k
    BY <1>2, <2>3, <2>4
  <2>6. m \in S
    <3> SUFFICES ASSUME m \notin S PROVE FALSE
      OBVIOUS
    <3>1. Up(S, m) = Up(S, m - 1)
      <4>1. \A x \in S : x <= m <=> x <= m - 1
        BY <1>1, <2>5
      <4> QED
        BY <1>0, <4>1
    <3> QED
      BY <1>2, <2>5, <3>1
  <2>7. Up(S, m) = Up(S, m - 1) \cup {m} /\ m \notin Up(S, m - 1)
    <3>1. \A x \in S : x <= m <=> x <= m - 1 \/ x = m
      BY <1>1, <2>5
    <3>2. m <= m /\ ~(m <= m - 1)
      BY <2>5
    <3> QED
      BY <1>0, <2>6, <3>1, <3>2
  <2>8. Cardinality(Up(S, m)) = Cardinality(Up(S, m - 1)) + 1
    BY <1>2, <2>5, <2>7, FS_AddElement
  <2> QED
    BY <1>2, <2>5, <2>6, <2>8
<1>6. \A k \in 1..Cardinality(S) : Kth(S, k) \in S /\ Cardinality(Up(S, Kth(S, k))) = k
  BY <1>5 DEF Kth
<1> QED
  BY <1>1, <1>3, <1>4, <1>6

\* Sets that correspond are equally large.
LEMMA SameCount ==
  ASSUME NEW S, NEW T, IsFiniteSet(S), NEW f \in [S -> T],
         \A a, b \in S : f[a] = f[b] => a = b, \A t \in T : \E s \in S : f[s] = t
  PROVE  Cardinality(T) = Cardinality(S)
<1>1. f \in Bijection(S, T)
  BY DEF Bijection, Injection, Surjection, IsInjective
<1> QED
  BY <1>1, FS_Bijection DEF ExistsBijection

\* Where a text goes on: the characters kept, and the beginnings of detections.
Stays(length, kept) == {i \in 1..length : ~\E d \in kept : d.from < i /\ i < d.to}
Hidden(kept) == UNION {Cells(d) : d \in kept}
Apart(kept) == \A j, k \in kept : j # k => Cells(j) \intersect Cells(k) = {}

LEMMA StitchedIs ==
  ASSUME NEW length \in Nat, NEW kept \in SUBSET Detection(length), Apart(kept),
         NEW tagOf, DOMAIN tagOf = kept
  PROVE  LET S == Stays(length, kept)
             text == Stitched(length, tagOf)
         IN  /\ DOMAIN text = 1..Cardinality(S)
             /\ \A d \in kept : d.from \in S
             /\ \A d, e \in kept : d.from = e.from => d = e
             /\ (1..length) \ Hidden(kept) \subseteq S
             /\ \A i \in S : (\A d \in kept : d.from # i) <=> i \notin Hidden(kept)
             /\ \A k \in DOMAIN text : \A d \in kept : Kth(S, k) = d.from => text[k] = tagOf[d]
             /\ \A k \in DOMAIN text : (\A d \in kept : d.from # Kth(S, k)) =>
                  text[k] = Character(Kth(S, k))
<1> DEFINE S == Stays(length, kept)
           text == Stitched(length, tagOf)
           piece(i) == IF \E d \in kept : d.from = i THEN tagOf[CHOOSE d \in kept : d.from = i]
                       ELSE Character(i)
<1>1. text = [k \in 1..Cardinality(S) |-> piece(Kth(S, k))]
  BY DEF Stitched, Stays, Kth, Up
<1>2. \A d \in kept : /\ d.from \in 1..length /\ d.to \in 2..(length + 1) /\ d.from < d.to
                      /\ \A i : i \in Cells(d) <=> i \in Int /\ d.from <= i /\ i < d.to
  <2> SUFFICES ASSUME NEW d \in kept
               PROVE  /\ d.from \in 1..length /\ d.to \in 2..(length + 1) /\ d.from < d.to
                      /\ \A i : i \in Cells(d) <=> i \in Int /\ d.from <= i /\ i < d.to
    OBVIOUS
  <2>1. d.from \in 1..length /\ d.to \in 2..(length + 1) /\ d.from < d.to
    BY DetectionsAre DEF IsDetection
  <2>2. \A i \in Int : i <= d.to - 1 <=> i < d.to
    BY <2>1
  <2> QED
    BY <2>1, <2>2 DEF Cells
<1>3. \A i : i \in S <=> i \in 1..length /\ ~\E d \in kept : d.from < i /\ i < d.to
  BY DEF Stays
<1>4. ASSUME NEW d \in kept, NEW e \in kept, d.from \in Cells(e) PROVE d = e
  <2>1. d.from \in Cells(d)
    BY <1>2
  <2> QED
    BY <1>4, <2>1 DEF Apart
<1>5. \A d \in kept : d.from \in S
  <2> SUFFICES ASSUME NEW d \in kept, NEW e \in kept, e.from < d.from, d.from < e.to PROVE FALSE
    BY <1>2, <1>3
  <2>1. d.from \in Cells(e)
    BY <1>2
  <2> QED
    BY <1>2, <1>4, <2>1
<1>6. \A d, e \in kept : d.from = e.from => d = e
  <2> SUFFICES ASSUME NEW d \in kept, NEW e \in kept, d.from = e.from PROVE d = e
    OBVIOUS
  <2>1. d.from \in Cells(e)
    BY <1>2
  <2> QED
    BY <1>4, <2>1
<1>7. (1..length) \ Hidden(kept) \subseteq S
  <2> SUFFICES ASSUME NEW i \in 1..length, NEW d \in kept, d.from < i, i < d.to
               PROVE  i \in Hidden(kept)
    BY <1>3
  <2>1. i \in Cells(d)
    BY <1>2
  <2> QED
    BY <2>1 DEF Hidden
<1>8. ASSUME NEW i \in S PROVE (\A d \in kept : d.from # i) <=> i \notin Hidden(kept)
  <2>1. ASSUME NEW d \in kept, d.from = i PROVE i \in Hidden(kept)
    BY <1>2, <2>1 DEF Hidden
  <2>2. ASSUME i \in Hidden(kept) PROVE \E d \in kept : d.from = i
    <3>1. PICK d \in kept : i \in Cells(d)
      BY <2>2 DEF Hidden
    <3>2. ~(d.from < i /\ i < d.to)
      BY <1>3
    <3>3. d.from = i
      BY <1>2, <3>1, <3>2
    <3> QED
      BY <3>3
  <2> QED
    BY <2>1, <2>2
<1> HIDE DEF S
<1>9. DOMAIN text = 1..Cardinality(S) /\ \A k \in DOMAIN text : text[k] = piece(Kth(S, k))
  BY <1>1
<1> HIDE DEF text
<1>10. ASSUME NEW k \in DOMAIN text, NEW d \in kept, Kth(S, k) = d.from PROVE text[k] = tagOf[d]
  <2>1. d = CHOOSE e \in kept : e.from = Kth(S, k)
    BY <1>6, <1>10
  <2> QED
    BY <1>9, <1>10, <2>1
<1>11. ASSUME NEW k \in DOMAIN text, \A d \in kept : d.from # Kth(S, k)
       PROVE  text[k] = Character(Kth(S, k))
  BY <1>9, <1>11
<1> QED
  BY <1>5, <1>6, <1>7, <1>8, <1>9, <1>10, <1>11 DEF S, text

\* How many tags of a kind a text has up to a place, and how many detections of
\* its kind are kept up to one.
TagsUpTo(text, k, kind) == Cardinality({j \in 1..k : text[j].tag = kind})
KeptUpTo(kept, d) == Cardinality({e \in kept : e.kind = d.kind /\ e.from <= d.from})

\* Each kept detection has a tag of its kind.
Tagged(kept, tagOf) == DOMAIN tagOf = kept /\ \A d \in kept : tagOf[d].tag = d.kind

\* The tags of a text, which is of the places S, are those of what is kept.
TagsTell(kept, tagOf, S, text) ==
  LET tags == DOMAIN text \ Characters(text)
  IN  /\ Cardinality(tags) = Cardinality(kept)
      /\ \A k \in DOMAIN text : k \in tags <=> \E d \in kept : d.from = Kth(S, k)
      /\ \A k \in tags : \E d \in kept :
           /\ d.from = Kth(S, k) /\ text[k] = tagOf[d]
           /\ TagsUpTo(text, k, d.kind) = KeptUpTo(kept, d)

\* Tags in the text: as many as detections are kept, and numbered in order.
LEMMA TagsCount ==
  ASSUME NEW length \in Nat, NEW kept \in SUBSET Detection(length), Apart(kept),
         IsFiniteSet(kept), NEW tagOf, Tagged(kept, tagOf)
  PROVE  TagsTell(kept, tagOf, Stays(length, kept), Stitched(length, tagOf))
<1> DEFINE S == Stays(length, kept)
           text == Stitched(length, tagOf)
           tags == DOMAIN text \ Characters(text)
<1>0. DOMAIN tagOf = kept /\ \A d \in kept : tagOf[d].tag = d.kind
  BY DEF Tagged
<1> DEFINE at(d) == Cardinality(Up(S, d.from))
<1>1. /\ DOMAIN text = 1..Cardinality(S)
      /\ \A d \in kept : d.from \in S
      /\ \A d, e \in kept : d.from = e.from => d = e
      /\ \A k \in DOMAIN text : \A d \in kept : Kth(S, k) = d.from => text[k] = tagOf[d]
      /\ \A k \in DOMAIN text : (\A d \in kept : d.from # Kth(S, k)) =>
           text[k] = Character(Kth(S, k))
  BY <1>0, StitchedIs
<1>2. S \in SUBSET (1..length)
  BY DEF Stays
<1> HIDE DEF S, text
<1>3. /\ IsFiniteSet(S) /\ Cardinality(S) \in Nat
      /\ \A k \in 1..Cardinality(S) : Kth(S, k) \in S /\ Cardinality(Up(S, Kth(S, k))) = k
      /\ \A i \in S : /\ Cardinality(Up(S, i)) \in 1..Cardinality(S)
                      /\ Kth(S, Cardinality(Up(S, i))) = i
      /\ \A i, j \in S : i < j => Cardinality(Up(S, i)) < Cardinality(Up(S, j))
  BY <1>2, KthIs
<1>4. \A d \in kept : d.kind # "character"
  BY DetectionsAre DEF IsDetection, Kinds, CONFIDENCE
<1>5. \A d \in kept : at(d) \in DOMAIN text /\ Kth(S, at(d)) = d.from
                      /\ text[at(d)] = tagOf[d] /\ at(d) \in tags
  BY <1>0, <1>1, <1>3, <1>4 DEF Characters
<1>6. ASSUME NEW k \in DOMAIN text
      PROVE  k \in tags <=> \E d \in kept : d.from = Kth(S, k)
  BY <1>0, <1>1, <1>4 DEF Character, Characters
<1>7. \A k \in tags : \E d \in kept : d.from = Kth(S, k) /\ at(d) = k
  BY <1>1, <1>3, <1>6
<1>8. \A d, e \in kept : at(d) = at(e) => d = e
  BY <1>1, <1>5
<1>9. Cardinality(tags) = Cardinality(kept)
  <2> DEFINE f == [d \in kept |-> at(d)]
  <2>1. f \in [kept -> tags]
    BY <1>5
  <2>2. \A d, e \in kept : f[d] = f[e] => d = e
    BY <1>8
  <2>3. \A k \in tags : \E d \in kept : f[d] = k
    BY <1>7
  <2> HIDE DEF f
  <2> QED
    BY <2>1, <2>2, <2>3, SameCount
<1>10. ASSUME NEW k \in tags
       PROVE  \E d \in kept :
                /\ d.from = Kth(S, k) /\ text[k] = tagOf[d]
                /\ TagsUpTo(text, k, d.kind) = KeptUpTo(kept, d)
  <2>1. PICK d \in kept : d.from = Kth(S, k) /\ at(d) = k
    BY <1>7
  <2> DEFINE mine == {e \in kept : e.kind = d.kind /\ e.from <= d.from}
             theirs == {j \in 1..k : text[j].tag = d.kind}
             f == [e \in mine |-> at(e)]
  <2>2. \A i \in S : i \in Nat
    <3>1. \A i \in S : i \in 1..length
      BY <1>2
    <3>2. \A i \in 1..length : i \in Nat
      OBVIOUS
    <3> QED
      BY <3>1, <3>2
  <2>3. ASSUME NEW e \in kept PROVE e.from <= d.from <=> at(e) <= k
    <3>1. e.from \in S /\ d.from \in S /\ e.from \in Nat /\ d.from \in Nat
      BY <1>1, <2>2
    <3>2. at(e) \in Nat /\ at(d) \in Nat
      BY <1>3, <3>1
    <3>3. e.from < d.from => at(e) < at(d)
      BY <1>3, <3>1
    <3>4. d.from < e.from => at(d) < at(e)
      BY <1>3, <3>1
    <3>5. e.from = d.from => at(e) = at(d)
      OBVIOUS
    <3> QED
      BY <2>1, <3>1, <3>2, <3>3, <3>4, <3>5
  <2>4. \A j \in 1..k : j \in DOMAIN text
    BY <1>1, <1>3, <1>5, <2>1
  <2>5. \A e \in kept : at(e) \in Nat /\ at(e) >= 1
    BY <1>1, <1>3
  <2>6. ASSUME NEW e \in mine PROVE at(e) \in theirs
    <3>1. e \in kept /\ e.kind = d.kind /\ e.from <= d.from
      OBVIOUS
    <3>2. at(e) \in Nat /\ at(e) >= 1 /\ at(e) <= k
      BY <2>3, <2>5, <3>1
    <3>3. text[at(e)].tag = d.kind
      BY <1>0, <1>5, <3>1
    <3>4. k \in Nat
      BY <2>1, <2>5
    <3> HIDE DEF at
    <3> QED
      BY <3>2, <3>3, <3>4
  <2>7. f \in [mine -> theirs]
    BY <2>6
  <2>8. \A a, b \in mine : f[a] = f[b] => a = b
    BY <1>8
  <2>9. ASSUME NEW j \in theirs PROVE \E e \in mine : f[e] = j
    <3>1. j \in DOMAIN text /\ text[j].tag = d.kind /\ j \in 1..k
      BY <2>4
    <3>2. j \in tags
      BY <1>4, <3>1 DEF Characters
    <3>3. PICK e \in kept : e.from = Kth(S, j) /\ at(e) = j
      BY <1>7, <3>2
    <3>4. text[j] = tagOf[e]
      BY <1>5, <3>3
    <3>5. e.kind = d.kind
      BY <1>0, <3>1, <3>4
    <3>6. e.from <= d.from
      BY <2>3, <3>1, <3>3
    <3> QED
      BY <3>3, <3>5, <3>6
  <2>10. IsFiniteSet(mine)
    BY FS_Subset
  <2> HIDE DEF mine, theirs, f
  <2>11. Cardinality(theirs) = Cardinality(mine)
    BY <2>7, <2>8, <2>9, <2>10, SameCount
  <2>12. text[k] = tagOf[d]
    BY <1>5, <2>1
  <2> QED
    BY <2>1, <2>11, <2>12 DEF mine, theirs, TagsUpTo, KeptUpTo
<1> QED
  BY <1>6, <1>9, <1>10 DEF TagsTell, S, text, tags

\* RedactionCovers of every text and whatever is detected in it.
THEOREM AllIsRedacted ==
  ASSUME NEW length \in Nat, NEW ds \in SUBSET Detection(length), IsFiniteSet(ds)
  PROVE  RedactionCovers(length, ds)
<1> DEFINE kept == Resolved(ds)
           S == Stays(length, kept)
           text == Redacted(length, ds)
           preview == Preview(length, ds)
           plain == Characters(text)
           tags == DOMAIN text \ plain
           tagOf == [d \in kept |-> Tag(kept, d)]
           maskOf == [d \in kept |-> [tag |-> d.kind, number |-> LastDigits[d.kind]]]
<1>1. /\ \A d \in ds : \E k \in kept :
           Cells(d) \intersect Cells(k) # {} /\ CONFIDENCE[k.kind] >= CONFIDENCE[d.kind]
      /\ Apart(kept)
  BY KeptCover DEF Apart
<1>2. kept \in SUBSET Detection(length) /\ IsFiniteSet(kept)
  BY ResolvedIs, FS_Subset
<1>3. text = Stitched(length, tagOf) /\ preview = Stitched(length, maskOf)
  BY DEF Redacted, Preview
<1>4. /\ DOMAIN tagOf = kept /\ \A d \in kept : tagOf[d].tag = d.kind
      /\ \A d \in kept : tagOf[d].number = KeptUpTo(kept, d)
      /\ DOMAIN maskOf = kept /\ \A d \in kept : maskOf[d].tag = d.kind
  BY DEF Tag, KeptUpTo
<1> HIDE DEF kept, tagOf, maskOf, text, preview
<1>5. /\ DOMAIN text = 1..Cardinality(S)
      /\ (1..length) \ Hidden(kept) \subseteq S
      /\ \A i \in S : (\A d \in kept : d.from # i) <=> i \notin Hidden(kept)
      /\ \A k \in DOMAIN text : \A d \in kept : Kth(S, k) = d.from => text[k] = tagOf[d]
      /\ \A k \in DOMAIN text : (\A d \in kept : d.from # Kth(S, k)) =>
           text[k] = Character(Kth(S, k))
  BY <1>1, <1>2, <1>3, <1>4, StitchedIs
<1>6. /\ DOMAIN preview = 1..Cardinality(S)
      /\ \A k \in DOMAIN preview : \A d \in kept : Kth(S, k) = d.from => preview[k] = maskOf[d]
      /\ \A k \in DOMAIN preview : (\A d \in kept : d.from # Kth(S, k)) =>
           preview[k] = Character(Kth(S, k))
  BY <1>1, <1>2, <1>3, <1>4, StitchedIs
<1>7. /\ Cardinality(tags) = Cardinality(kept)
      /\ \A k \in DOMAIN text : k \in tags <=> \E d \in kept : d.from = Kth(S, k)
      /\ \A k \in tags : \E d \in kept :
           d.from = Kth(S, k) /\ text[k] = tagOf[d] /\ TagsUpTo(text, k, d.kind) = KeptUpTo(kept, d)
  <2>1. Apart(kept) /\ Tagged(kept, tagOf)
    BY <1>1, <1>4 DEF Tagged
  <2>2. TagsTell(kept, tagOf, S, text)
    BY <1>2, <1>3, <2>1, TagsCount
  <2> QED
    BY <2>2 DEF TagsTell
<1>8. S \in SUBSET (1..length)
  BY DEF Stays
<1> HIDE DEF S
<1>9. /\ Cardinality(S) \in Nat
      /\ \A k \in 1..Cardinality(S) : Kth(S, k) \in S /\ Cardinality(Up(S, Kth(S, k))) = k
      /\ \A i \in S : /\ Cardinality(Up(S, i)) \in 1..Cardinality(S)
                      /\ Kth(S, Cardinality(Up(S, i))) = i
      /\ \A i, j \in S : i < j => Cardinality(Up(S, i)) < Cardinality(Up(S, j))
  BY <1>8, KthIs
<1>10. plain = DOMAIN text \ tags /\ tags = DOMAIN text \ plain
  BY DEF Characters
<1>11. \A k \in plain : /\ k \in 1..Cardinality(S) /\ Kth(S, k) \in S
                        /\ Kth(S, k) \notin Hidden(kept) /\ text[k] = Character(Kth(S, k))
                        /\ text[k].number = Kth(S, k)
  BY <1>5, <1>7, <1>9, <1>10 DEF Character
<1>12. {text[k].number : k \in plain} = (1..length) \ Hidden(kept)
  <2>1. ASSUME NEW i \in (1..length) \ Hidden(kept) PROVE \E k \in plain : text[k].number = i
    <3> DEFINE k == Cardinality(Up(S, i))
    <3>1. i \in S /\ \A d \in kept : d.from # i
      BY <1>5
    <3>2. k \in DOMAIN text /\ Kth(S, k) = i
      BY <1>5, <1>9, <3>1
    <3>3. k \in plain
      BY <1>7, <1>10, <3>1, <3>2
    <3> QED
      BY <1>11, <3>2, <3>3
  <2> HIDE DEF plain
  <2> QED
    BY <1>8, <1>11, <2>1
<1>13. ASSUME NEW j \in plain, NEW k \in plain, j < k PROVE text[j].number < text[k].number
  <2>1. Kth(S, j) \in S /\ Kth(S, k) \in S /\ Kth(S, j) \in Nat /\ Kth(S, k) \in Nat
    <3>1. \A i \in S : i \in 1..length
      BY <1>8
    <3>2. \A i \in 1..length : i \in Nat
      OBVIOUS
    <3> QED
      BY <1>11, <3>1, <3>2
  <2>2. Cardinality(Up(S, Kth(S, j))) = j /\ Cardinality(Up(S, Kth(S, k))) = k
    BY <1>9, <1>11
  <2>3. j \in Nat /\ k \in Nat
    BY <1>9, <1>11
  <2>4. ~(Kth(S, k) < Kth(S, j))
    BY <1>9, <1>13, <2>1, <2>2, <2>3
  <2>5. Kth(S, k) # Kth(S, j)
    BY <1>13, <2>2, <2>3
  <2> QED
    BY <1>11, <2>1, <2>4, <2>5
<1>14. ASSUME NEW k \in tags
       PROVE  text[k].number = Cardinality({j \in 1..k : text[j].tag = text[k].tag})
  <2>1. PICK d \in kept : text[k] = tagOf[d] /\ TagsUpTo(text, k, d.kind) = KeptUpTo(kept, d)
    BY <1>7
  <2>2. text[k].tag = d.kind /\ text[k].number = TagsUpTo(text, k, d.kind)
    BY <1>4, <2>1
  <2> QED
    BY <2>2 DEF TagsUpTo
<1>15. DOMAIN preview = DOMAIN text
  BY <1>5, <1>6
<1>16. ASSUME NEW k \in DOMAIN text
       PROVE  preview[k].tag = text[k].tag /\ (k \in plain => preview[k] = text[k])
  <2>1. CASE \E d \in kept : d.from = Kth(S, k)
    <3>1. PICK d \in kept : d.from = Kth(S, k)
      BY <2>1
    <3>2. preview[k].tag = text[k].tag
      BY <1>4, <1>5, <1>6, <1>15, <3>1
    <3>3. k \notin plain
      BY <1>7, <1>10, <2>1
    <3> QED
      BY <3>2, <3>3
  <2>2. CASE ~\E d \in kept : d.from = Kth(S, k)
    <3>1. preview[k] = text[k]
      BY <1>5, <1>6, <1>15, <2>2
    <3> QED
      BY <3>1
  <2> QED
    BY <2>1, <2>2
<1> QED
  BY <1>1, <1>7, <1>12, <1>13, <1>14, <1>15, <1>16
     DEF RedactionCovers, Hidden, Apart, kept, text, preview

-----------------------------------------------------------------------------
(* The cases of MC_Rules *)

\* A clean submission with fields changed is one the theorems speak of.
LEMMA SubmissionsHaveFields == \A s \in Submissions : IsSubmission(s)
<1> DEFINE changed(s, f) == {[s EXCEPT ![f] = v] : v \in Changes[f]}
           once == UNION {changed(Clean, f) : f \in DOMAIN Changes}
           twice == UNION {UNION {changed(s, f) : f \in DOMAIN Changes} : s \in once}
<1>1. Submissions = {Clean} \union once \union twice
  BY DEF Submissions
<1>2. DOMAIN Clean = ReadFields
  BY DEF Clean, ReadFields, CodedColumns
<1>3. \A s : \A f \in DOMAIN Changes : \A t \in changed(s, f) : DOMAIN t = DOMAIN s
  OBVIOUS
<1> HIDE DEF changed
<1>4. \A s \in once : DOMAIN s = ReadFields
  BY <1>2, <1>3
<1> HIDE DEF once
<1>5. \A s \in twice : DOMAIN s = ReadFields
  BY <1>3, <1>4
<1> QED
  BY <1>1, <1>2, <1>4, <1>5 DEF IsSubmission

\* The runs examined are sequences of runs.
LEMMA RunsAreSequences == SeqOf(Runs, 3) \subseteq Seq(Runs)
<1>1. SeqOf(Runs, 3) = UNION {[1..m -> Runs] : m \in 0..3}
  BY DEF SeqOf
<1>2. ASSUME NEW m \in 0..3, NEW runs \in [1..m -> Runs] PROVE runs \in Seq(Runs)
  BY SeqDef
<1> HIDE DEF Runs
<1> QED
  BY <1>1, <1>2, Zenon

\* The cells of a row may take their values.
LEMMA CellsFit ==
  /\ RowCells.cod_rec \subseteq Cell /\ RowCells.nro_cli \subseteq Cell
  /\ RowCells.ubi_rec \subseteq Cell
  /\ RowCells.det_rec \subseteq [length : Nat, control : BOOLEAN]
  /\ RowCells.tid_length \subseteq Nat
<1>1. RowCells.cod_rec \subseteq Cell
  <2>1. Zeros(30) \in Seq(0..9)
    BY DEF Zeros
  <2> QED
    BY <2>1 DEF RowCells, Numbered, Cell
<1>2. RowCells.nro_cli \subseteq Cell
  BY DEF RowCells, Numbered, Cell
<1>3. RowCells.ubi_rec \subseteq Cell
  <2>1. ASSUME NEW type \in {"text", "int", "float"},
               NEW d \in {<<>>, <<0, 0>>, <<1, 5>>, <<0, 1, 0, 1>>, <<1, 5, 0, 1, 0, 1>>}
        PROVE  Numbered(d, type) \in Cell
    <3>1. <<>> \in Seq(0..9) /\ <<0, 0>> \in Seq(0..9) /\ <<1, 5>> \in Seq(0..9)
      OBVIOUS
    <3>2. <<0, 1, 0, 1>> \in Seq(0..9)
      OBVIOUS
    <3>3. <<1, 5, 0, 1, 0, 1>> \in Seq(0..9)
      OBVIOUS
    <3>4. d \in Seq(0..9)
      BY <3>1, <3>2, <3>3, Zenon
    <3> QED
      BY <3>4 DEF Numbered, Cell
  <2> QED
    BY <2>1 DEF RowCells
<1>4. RowCells.det_rec \subseteq [length : Nat, control : BOOLEAN]
  BY DEF RowCells
<1>5. RowCells.tid_length \subseteq Nat
  BY DEF RowCells
<1> QED
  BY <1>1, <1>2, <1>3, <1>4, <1>5

\* The sheets are sheets of rows.
LEMMA SheetsAreSheets ==
  \A sheet \in Sheets : \E Row : (\A row \in Row : IsRow(row)) /\ sheet \in Seq(Row)
<1>1. IsRow(WholeRow) /\ DOMAIN RowCells \subseteq DOMAIN WholeRow
  BY DEF WholeRow, RowCells, IsRow, Cell
<1>2. ASSUME NEW row, IsRow(row), DOMAIN row = DOMAIN WholeRow,
             NEW f \in DOMAIN RowCells, NEW v \in RowCells[f]
      PROVE  IsRow([row EXCEPT ![f] = v])
  <2>1. {"cod_rec", "nro_cli", "ubi_rec", "det_rec", "tid_length"} \subseteq DOMAIN row
    BY <1>2 DEF WholeRow
  <2>2. f \in DOMAIN row
    BY <1>1, <1>2
  <2> QED
    BY <1>2, <2>1, <2>2, CellsFit DEF IsRow
<1> DEFINE other == UNION {{[WholeRow EXCEPT ![f] = v] : v \in RowCells[f]} : f \in DOMAIN RowCells}
           plain == [WholeRow EXCEPT !.letters = FALSE]
           coded == {[r EXCEPT !.cod_rec = v] : r \in {WholeRow, plain}, v \in RowCells.cod_rec}
<1>3. Sheets = {<<a, b>> : a \in coded, b \in coded \cup other}
  BY DEF Sheets
<1>4. \A row \in other : IsRow(row)
  BY <1>1, <1>2
<1>5. IsRow(plain) /\ DOMAIN plain = DOMAIN WholeRow
  BY <1>1 DEF IsRow
<1>6. "cod_rec" \in DOMAIN RowCells
  BY DEF RowCells
<1> HIDE DEF other, plain
<1>7. \A row \in coded : IsRow(row)
  <2> SUFFICES ASSUME NEW row \in coded PROVE IsRow(row)
    OBVIOUS
  <2>1. PICK r \in {WholeRow, plain}, v \in RowCells.cod_rec : row = [r EXCEPT !.cod_rec = v]
    OBVIOUS
  <2>2. IsRow(r) /\ DOMAIN r = DOMAIN WholeRow
    BY <1>1, <1>5
  <2> QED
    BY <1>2, <1>6, <2>1, <2>2
<1> HIDE DEF coded
<1> DEFINE rows == coded \cup other
<1>8. ASSUME NEW sheet \in Sheets PROVE sheet \in Seq(rows)
  <2>1. PICK a \in coded, b \in rows : sheet = <<a, b>>
    BY <1>3
  <2>2. a \in rows /\ b \in rows
    OBVIOUS
  <2> HIDE DEF rows
  <2> QED
    BY <2>1, <2>2
<1>9. \A row \in rows : IsRow(row)
  BY <1>4, <1>7
<1> HIDE DEF rows
<1> QED
  BY <1>8, <1>9

\* The detections of a text are at most three, each of a span of it.
LEMMA DetectionsFit ==
  /\ TextLength \in Nat
  /\ \A ds \in DetectionSets : ds \in SUBSET Detection(TextLength) /\ IsFiniteSet(ds)
<1>1. TextLength \in Nat
  BY DEF TextLength
<1>2. {"pii_name", "pii_email", "pii_id", "pii_account"} \subseteq Kinds
  BY DEF Kinds, CONFIDENCE
<1>3. \A d \in Detections : d \in Detection(TextLength)
  BY <1>2 DEF Detections, Span, Detection
<1>4. ASSUME NEW ds \in DetectionSets PROVE ds \in SUBSET Detection(TextLength) /\ IsFiniteSet(ds)
  <2>1. CASE ds = {}
    BY <2>1, FS_EmptySet
  <2>2. CASE \E a, b, c \in Detections : ds = {a, b, c}
    <3>1. PICK a \in Detections, b \in Detections, c \in Detections : ds = {a, b, c}
      BY <2>2
    <3>2. IsFiniteSet((({} \cup {a}) \cup {b}) \cup {c})
      BY FS_Singleton, FS_AddElement, FS_EmptySet
    <3>3. ds = (({} \cup {a}) \cup {b}) \cup {c}
      BY <3>1
    <3> QED
      BY <1>3, <3>1, <3>2, <3>3
  <2> QED
    BY <2>1, <2>2 DEF DetectionSets
<1> QED
  BY <1>1, <1>4

\* The complaints of a distribution are a sequence of them.
Complaint == [institution : Nat, age : Int]

LEMMA ComplaintsFit == \A loads \in Distributions : Complained(loads) \in Seq(Complaint)
<1> SUFFICES ASSUME NEW loads \in Distributions PROVE Complained(loads) \in Seq(Complaint)
  OBVIOUS
<1>1. Len(loads) = 6
  <2>1. PICK mine \in Loads, a \in Loads, b \in Loads : loads = <<mine, a, a, a, b, b>>
    BY DEF Distributions
  <2> QED
    BY <2>1
<1>2. DOMAIN Complained(loads) = 1..18
  BY <1>1 DEF Complained
<1>3. ASSUME NEW n \in 1..18 PROVE Complained(loads)[n] \in Complaint
  <2>1. ((n - 1) \div 3) + 1 \in Nat
    OBVIOUS
  <2> QED
    BY <1>1, <2>1 DEF Complained, Complaint
<1>4. Complained(loads) = [n \in 1..18 |-> Complained(loads)[n]]
  BY <1>1 DEF Complained
<1> QED
  BY <1>2, <1>3, <1>4

\* A case is one the theorems above speak of.
CaseFits ==
  /\ case[1] = "submission" => IsSubmission(case[2])
  /\ case[1] = "text" => case[2] \in SUBSET Detection(TextLength) /\ IsFiniteSet(case[2])
  /\ case[1] = "cohort" => Complained(case[2]) \in Seq(Complaint)
  /\ case[1] = "finding" => case[2] \in Seq(Runs)
  /\ case[1] = "sheet" => \E Row : (\A row \in Row : IsRow(row)) /\ case[2] \in Seq(Row)

LEMMA CasesFit == RulesSpec => []CaseFits
<1>1. RulesInit => CaseFits
  BY DEF RulesInit, CaseFits
<1>2. CaseFits /\ [RulesNext]_rulesVars => CaseFits'
  <2> SUFFICES ASSUME CaseFits, [RulesNext]_rulesVars PROVE CaseFits'
    OBVIOUS
  <2>1. CASE case' = case
    BY <2>1 DEF CaseFits
  <2>2. CASE Examine
    <3>1. CASE \E s \in Submissions : case' = <<"submission", s>>
      BY <3>1, SubmissionsHaveFields DEF CaseFits
    <3>2. CASE \E ds \in DetectionSets : case' = <<"text", ds>>
      BY <3>2, DetectionsFit DEF CaseFits
    <3>3. CASE \E loads \in Distributions : case' = <<"cohort", loads>>
      BY <3>3, ComplaintsFit DEF CaseFits
    <3>4. CASE \E runs \in SeqOf(Runs, 3) : case' = <<"finding", runs>>
      BY <3>4, RunsAreSequences DEF CaseFits
    <3>5. CASE \E sheet \in Sheets : case' = <<"sheet", sheet>>
      BY <3>5, SheetsAreSheets DEF CaseFits
    <3> QED
      BY <2>2, <3>1, <3>2, <3>3, <3>4, <3>5 DEF Examine
  <2>3. CASE PutAway
    BY <2>3 DEF PutAway, CaseFits
  <2> QED
    BY <2>1, <2>2, <2>3 DEF RulesNext, rulesVars
<1> QED
  BY <1>1, <1>2, PTL DEF RulesSpec

\* What MC_Rules examines of submissions, findings and sheets holds: the words
\* of a submission do not matter and its defaults are reported.
THEOREM SubmissionsOpen == RulesSpec => []SubmissionsReadOpenly
<1>1. CaseFits => SubmissionsReadOpenly
  BY StandInsAreReported, WordsDoNotMatter DEF CaseFits, SubmissionsReadOpenly
<1> QED
  BY <1>1, CasesFit, PTL

\* What is stored of a text and what is shown of it hide what was detected.
THEOREM TextAlwaysRedacted == RulesSpec => []TextIsRedacted
<1>1. CaseFits => TextIsRedacted
  BY AllIsRedacted, DetectionsFit DEF CaseFits, TextIsRedacted
<1> QED
  BY <1>1, CasesFit, PTL

\* One more complaint never makes an institution of the cohorts look better.
THEOREM WorseNeverBetter == RulesSpec => []WorseLooksWorse
<1>1. IsFiniteSet(Cohorts) /\ IsFiniteSet(Seeded)
  <2> DEFINE cmac == [k \in 1..6 |-> [id |-> k, head |-> IF k = 3 THEN "caja" ELSE "cmac", tier |-> "mid"]]
             banco == [k \in 1..6 |-> [id |-> k, head |-> "banco", tier |-> "large"]]
             regular == {cmac[k] : k \in 1..6}
             seven == [id |-> 7, head |-> "banco", tier |-> "mid"]
             eight == [id |-> 8, head |-> "", tier |-> "mid"]
             nine == [id |-> 9, head |-> "cmac", tier |-> "huge"]
  <2>1. IsFiniteSet(1..6)
    <3>1. 1 \in Int /\ 6 \in Int
      OBVIOUS
    <3> QED
      BY <3>1, FS_Interval
  <2>2. cmac \in Surjection(1..6, regular) /\ banco \in Surjection(1..6, Seeded)
    BY DEF Surjection, Seeded
  <2>3. Cohorts = ((regular \cup {seven}) \cup {eight}) \cup {nine}
    BY DEF Cohorts
  <2> HIDE DEF cmac, banco, regular, seven, eight, nine
  <2>4. IsFiniteSet(regular) /\ IsFiniteSet(Seeded)
    BY <2>1, <2>2, FS_Surjection
  <2> QED
    BY <2>3, <2>4, FS_AddElement
<1>2. CaseFits => WorseLooksWorse
  <2> SUFFICES ASSUME Complained(case[2]) \in Seq(Complaint)
               PROVE  /\ \A i : MoreComplaintsNeverBetter(Cohorts, i, Complained(case[2]), 1, 2)
                      /\ \A i : MoreComplaintsNeverBetter(Seeded, i, Complained(case[2]), 2, 2)
    BY DEF CaseFits, WorseLooksWorse
  <2>1. (\A c \in Complaint : c.age \in Int) /\ 1 \in Nat /\ 2 \in Nat
    BY DEF Complaint
  <2> QED
    BY <1>1, <2>1, NeverBetter
<1> QED
  BY <1>2, CasesFit, PTL

\* The list of findings and the drill-down agree, for every reader and filter.
THEOREM FindingsTell == RulesSpec => []FindingsAgree
<1>1. CaseFits => FindingsAgree
  BY ViewsAgree DEF CaseFits, FindingsAgree
<1> QED
  BY <1>1, CasesFit, PTL

\* What the loaders make of a sheet fits the schemas.
THEOREM SheetsAlwaysFit == RulesSpec => []SheetsFit
<1>1. CaseFits => SheetsFit
  BY LoadersFit DEF CaseFits, SheetsFit
<1> QED
  BY <1>1, CasesFit, PTL
================================================================================
