--------------------------- MODULE RequestPerimeter ---------------------------
(***************************************************************************)
(* What a signed request of an institution passes before its route handler *)
(* runs: the body-size cap (middleware/body_size_limit.py), the mTLS       *)
(* subject (dependencies/mtls.py), the OAuth token (dependencies/oauth.py),*)
(* the HMAC signature and its replay claim (dependencies/hmac_verify.py),  *)
(* and the rate limit (dependencies/rate_limit.py), in that order.         *)
(*                                                                         *)
(* One institution signs requests and may send the same bytes more than    *)
(* once; several API processes, whose clocks differ, handle the copies and *)
(* share the database and Redis.  `now' is Redis's clock.  Operators of    *)
(* the platform revoke a certificate, give it to another institution, or   *)
(* rotate a secret: no code of the repository does, so these are external. *)
(* A body, a header and a signature count only for the bytes they stand    *)
(* for; a signature is fresh exactly when its request is.                  *)
(***************************************************************************)
EXTENDS TokenBucket, FiniteSets

CONSTANTS Payloads,      \* distinct signed bytes
          Copies,        \* HTTP requests that carry them
          RequestOf,     \* [Copies -> Payloads]
          Offset,        \* [Copies -> Int]: the clock of the process that handles it
          Skew, Future,  \* hmac_timestamp_skew_seconds, future_skew_max_seconds
          ReplayTTL,     \* hmac_replay_cache_ttl_seconds
          TokenTTL,      \* DEFAULT_TTL_SECONDS of a token
          Grace,         \* hmac_secret_rotation_grace_seconds
          MaxStall,      \* bound: time from a copy's timestamp check to its claim
          SenderDrift,   \* how far off the sender's clock may be
          Unsigned,      \* a request that is not signed yet
          MaxTime,       \* bound: the clock
          MaxAdmin       \* bound: acts of the operators

ASSUME PerimeterAssumption ==
  /\ RequestOf \in [Copies -> Payloads] /\ Offset \in [Copies -> Int]
  /\ {Skew, Future, ReplayTTL, TokenTTL, Grace, MaxStall, MaxTime, MaxAdmin} \subseteq Nat
  /\ SenderDrift \subseteq Int

\* The replay cache outlives a signature's window, whoever checks it.  The
\* settings default to 300, 60 and 600 s; nothing in config.py relates them.
ASSUME ReplayAssumption ==
  \A c, d \in Copies : ReplayTTL > Skew + Future + MaxStall + Offset[c] - Offset[d]

\* An expired bucket would have been full: EXPIRE's headroom exceeds the drift.
ASSUME DriftAssumption ==
  \A c, d \in Copies : KeyTTL >= Window + Offset[c] - Offset[d]

VARIABLES now,
          cert,          \* the certificate's registry row
          secret,        \* the institution's secrets: versions and retirement
          token,         \* the sender's access token
          known,         \* the secret version the sender signs with
          signed,        \* what each request was signed with
          claim,         \* replay cache: when each signature's key expires
          buckets,       \* rate limiter keys
          pc, answer,    \* of each copy
          checked,       \* when each verified copy's timestamp was accepted
          drawn,         \* history: business draws let in
          start,         \* history: the clock of the first business draw
          regained,      \* history: what clocks running behind gave back
          refused,       \* history: the last refusal's promise
          admin

perimeterVars == <<now, cert, secret, token, known, signed, claim, buckets, pc, answer,
          checked, drawn, start, regained, refused, admin>>
registry == <<cert, secret, admin>>
sender == <<token, known, signed>>
copies == <<pc, answer, checked>>
history == <<drawn, start, regained, refused>>

Clock(c) == now + Offset[c]
NoToken == [sub |-> "nobody", exp |-> 0]
BucketKeys == {"token", "business"}

PerimeterInit ==
  /\ now = 0
  /\ cert = [institution |-> "own", revoked |-> FALSE]
  /\ secret = [active |-> 1, previous |-> 0, retires |-> 0]
  /\ token = NoToken
  /\ known = 1
  /\ signed = [r \in Payloads |-> Unsigned]
  /\ claim = [r \in Payloads |-> 0]
  /\ buckets = [k \in BucketKeys |-> NewBucket]
  /\ pc = [c \in Copies |-> "unsent"]
  /\ answer = [c \in Copies |-> "none"]
  /\ checked = [c \in Copies |-> 0]
  /\ drawn = 0 /\ start = 0 /\ regained = 0
  /\ refused = [after |-> 0, level |-> Full]
  /\ admin = 0

\* mTLS: the row of the presented certificate stands and is not revoked.
CertStands == ~cert.revoked

-----------------------------------------------------------------------------
(* Operators, clocks and the sender *)

Tick ==
  /\ now < MaxTime
  /\ \A c \in Copies : pc[c] = "verified" => now < checked[c] + MaxStall
  /\ now' = now + 1
  /\ UNCHANGED <<registry, sender, claim, buckets, copies, history>>

\* Revocation, re-binding to another institution, rotation of the secret.
Administer ==
  /\ admin < MaxAdmin
  /\ admin' = admin + 1
  /\ \/ /\ cert' = [cert EXCEPT !.revoked = TRUE]
        /\ UNCHANGED secret
     \/ /\ cert' = [cert EXCEPT !.institution = "other"]
        /\ UNCHANGED secret
     \/ /\ secret' = [active |-> secret.active + 1, previous |-> secret.active,
                      retires |-> now + Grace]
        /\ UNCHANGED cert
  /\ UNCHANGED <<now, sender, claim, buckets, copies, history>>

\* The sender is given the new secret.
Learn ==
  /\ known # secret.active
  /\ known' = secret.active
  /\ UNCHANGED <<now, registry, token, signed, claim, buckets, copies, history>>

\* issue_token: bound to the certificate's institution of the moment.
Issued == [sub |-> cert.institution, exp |-> now + TokenTTL]

\* token_endpoint, behind oauth_token_bucket: mTLS, the draw, then the client's
\* credentials, which belong to the sender, and the issue.
GetToken ==
  LET b == buckets["token"] IN
  /\ CertStands
  /\ token.exp <= now
  /\ buckets' = [buckets EXCEPT !["token"] = Drawn(b, now, now)]
  /\ token' = IF Allowed(b, now, now) /\ cert.institution = "own"
              THEN Issued ELSE token
  /\ UNCHANGED <<now, registry, known, signed, claim, copies, history>>

\* The sender signs a request; its clock may be off in either direction.
Sign(r) ==
  /\ signed[r] = Unsigned /\ token # NoToken
  /\ \E d \in SenderDrift :
       signed' = [signed EXCEPT ![r] = [ts |-> now + d, secret |-> known]]
  /\ UNCHANGED <<now, registry, token, known, claim, buckets, copies, history>>

-----------------------------------------------------------------------------
(* A copy of a request, in an API process *)

\* The error codes of the first steps are not told apart.
Refuse(c, why) ==
  /\ pc' = [pc EXCEPT ![c] = "done"]
  /\ answer' = [answer EXCEPT ![c] = why]

\* verify_token and the binding to the certificate.
TokenStands(c) == token.exp > Clock(c) /\ token.sub = cert.institution

Sent(c) == pc[c] = "unsent" /\ signed[RequestOf[c]] # Unsigned

\* BodySizeLimitMiddleware: the declared or the streamed length is over the
\* path's cap; nothing of the request reaches the dependencies.
TooLarge(c) ==
  /\ Sent(c) /\ Refuse(c, "rejected")
  /\ UNCHANGED <<now, registry, sender, claim, buckets, checked, history>>

\* The verified subject, then the token of verified_oauth_token_with_scope.
Authenticate(c) ==
  /\ Sent(c)
  /\ \/ ~(CertStands /\ TokenStands(c)) /\ Refuse(c, "rejected")
     \/ /\ CertStands /\ TokenStands(c)
        /\ pc' = [pc EXCEPT ![c] = "authenticated"]
        /\ UNCHANGED answer
  /\ UNCHANGED <<now, registry, sender, claim, buckets, checked, history>>

\* Mutant: timestamps in the future are accepted.
NotTooOld(ts, at) == at - ts <= Skew

\* validate_timestamp.
Timely(ts, at) == at - ts <= Skew /\ ts - at <= Future

\* The signature matches the active secret, or the previous one in its grace.
Matches(version, at) ==
  \/ version = secret.active
  \/ version = secret.previous /\ secret.retires > at

\* Steps 1 to 9 of verified_hmac_signature.
Verify(c) ==
  LET s == signed[RequestOf[c]] IN
  /\ pc[c] = "authenticated"
  /\ \/ /\ ~(Timely(s.ts, Clock(c)) /\ Matches(s.secret, Clock(c)))
        /\ Refuse(c, "rejected") /\ UNCHANGED checked
     \/ /\ Timely(s.ts, Clock(c)) /\ Matches(s.secret, Clock(c))
        /\ pc' = [pc EXCEPT ![c] = "verified"]
        /\ checked' = [checked EXCEPT ![c] = now]
        /\ UNCHANGED answer
  /\ UNCHANGED <<now, registry, sender, claim, buckets, history>>

\* The key is in the replay cache.
Seen(r) == claim[r] > now

\* Step 10: SET key NX EX.
Claim(c) ==
  LET r == RequestOf[c] IN
  /\ pc[c] = "verified"
  /\ \/ Seen(r) /\ Refuse(c, "replayed") /\ UNCHANGED claim
     \/ /\ ~Seen(r)
        /\ claim' = [claim EXCEPT ![r] = now + ReplayTTL]
        /\ pc' = [pc EXCEPT ![c] = "claimed"]
        /\ UNCHANGED answer
  /\ checked' = [checked EXCEPT ![c] = 0]
  /\ UNCHANGED <<now, registry, sender, buckets, history>>

\* business_bucket: the draw, and the answer or the route handler.
Limited(c) ==
  LET b == buckets["business"]
      in == Allowed(b, Clock(c), now) IN
  /\ pc[c] = "claimed"
  /\ buckets' = [buckets EXCEPT !["business"] = Drawn(b, Clock(c), now)]
  /\ Refuse(c, IF in THEN "served" ELSE "limited")
  /\ drawn' = drawn + (IF in THEN 1 ELSE 0)
  /\ start' = IF b.exists THEN start ELSE Clock(c)
  /\ regained' = regained + (IF b.exists THEN Positive(b.ts - Clock(c)) ELSE 0)
  /\ refused' = IF in THEN refused
                ELSE [after |-> RetryAfter(b, Clock(c), now),
                      level |-> Refilled(b, Clock(c), now)]
  /\ UNCHANGED <<now, registry, sender, claim, checked>>

PerimeterNext ==
  \/ Tick \/ Administer \/ Learn \/ GetToken
  \/ \E r \in Payloads : Sign(r)
  \/ \E c \in Copies : TooLarge(c) \/ Authenticate(c) \/ Verify(c) \/ Claim(c) \/ Limited(c)

PerimeterSpec == PerimeterInit /\ [][PerimeterNext]_perimeterVars

-----------------------------------------------------------------------------
(* Properties *)

Accepted(c) == pc[c] = "claimed" \/ answer[c] \in {"served", "limited"}

\* The same signed bytes reach a route handler at most once, however often they
\* are sent, however the processes' clocks differ and wherever in its window a
\* copy is checked and stalls (the replay claim of verified_hmac_signature).
AcceptedOnce ==
  \A c, d \in Copies : Accepted(c) /\ Accepted(d) /\ RequestOf[c] = RequestOf[d] => c = d

WithinBudget ==
  LET b == buckets["business"] IN
  /\ b.level \in 0..Full
  /\ b.exists => drawn * Window + b.level <= Full + Limit * (b.ts - start + regained)

RetryAfterSuffices ==
  refused.level < Window => refused.level + refused.after * Second * Limit >= Window

\* The limiter lets in no more than its capacity and what its time refilled;
\* a process whose clock is behind the bucket's gives the difference back to
\* the next one, which is the only way past that budget.  And a client that
\* waits for the seconds a 429 named finds a token, unless another request
\* draws it first.
LimiterIsFair == WithinBudget /\ RetryAfterSuffices

=============================================================================
