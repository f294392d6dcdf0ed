------------------------------ MODULE TokenBucket ------------------------------
(***************************************************************************)
(* The rate limiter's bucket (rate_limit/token_bucket.py): a Redis hash of *)
(* `tokens' and `ts' that one Lua script reads, refills and draws from.    *)
(*                                                                         *)
(* The script's fractions are kept exact by scaling: `level' is tokens     *)
(* times Window, so a token is Window and one unit of time refills Limit.  *)
(* A level of Full is also what an absent or expired key counts as.        *)
(***************************************************************************)
EXTENDS Integers

CONSTANTS Limit,     \* requests per window
          Window,    \* window_ms, in units of the model's clock
          Second,    \* units of the model's clock in a second
          KeyTTL     \* EXPIRE: the window and 60 s more

ASSUME BucketAssumption ==
  /\ Limit \in Nat \ {0} /\ Window \in Nat \ {0} /\ Second \in Nat \ {0}
  /\ KeyTTL \in Nat /\ KeyTTL > Window

Full == Limit * Window

AtMost(a, b) == IF a <= b THEN a ELSE b
Positive(n) == IF n > 0 THEN n ELSE 0
CeilDiv(a, b) == (a + b - 1) \div b

NewBucket == [level |-> Full, ts |-> 0, kept |-> 0, exists |-> FALSE]
Bucket == [level : 0..Full, ts : Int, kept : Nat, exists : BOOLEAN]

\* The hash is in Redis at time `at' of Redis's own clock.
Lives(b, at) == b.exists /\ at - b.kept < KeyTTL

\* The level after the refill; `when' is the calling process's clock.
Refilled(b, when, at) ==
  IF Lives(b, at) THEN AtMost(Full, b.level + Positive(when - b.ts) * Limit) ELSE Full

Allowed(b, when, at) == Refilled(b, when, at) >= Window

\* Mutant: a refill does not move ts.
DrawnKeepingTs(b, when, at) ==
  [level  |-> Refilled(b, when, at) - (IF Allowed(b, when, at) THEN Window ELSE 0),
   ts     |-> IF b.exists THEN b.ts ELSE when,
   kept   |-> at,
   exists |-> TRUE]

\* The script's whole effect.  ts is set to the caller's clock even when that
\* is behind the bucket's.
Drawn(b, when, at) ==
  [level  |-> Refilled(b, when, at) - (IF Allowed(b, when, at) THEN Window ELSE 0),
   ts     |-> when,
   kept   |-> at,
   exists |-> TRUE]

\* retry_after_s of a refusal: whole seconds, at least one.
RetryAfter(b, when, at) ==
  LET s == CeilDiv(Window - Refilled(b, when, at), Limit * Second) IN
  IF s < 1 THEN 1 ELSE s

=============================================================================
