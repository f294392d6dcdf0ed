--------------------------- MODULE InstitutionFeeds ---------------------------
(***************************************************************************)
(* The programs that send complaints to POST /v1/sandbox/complaints/       *)
(* granular over HTTP: institution_push_demo (one send, the idempotent     *)
(* retry, the exact replay), nrt_feed, sandbox_send tier1,                 *)
(* ingest_sample_dataset and the granular half of demo_load_sbs_sample.    *)
(* Each walks its rows one after the other; the API answers from           *)
(* AtMostOnceIntake.                                                       *)
(*                                                                         *)
(* A send is <<feed, row, attempt>>, with at most two attempts a row.  The *)
(* client stops listening after its timeout, the request may be worked on  *)
(* all the same, and the answer may be lost.                               *)
(***************************************************************************)
EXTENDS Integers, FiniteSets

CONSTANTS Feeds,
          Kind,         \* Feeds -> Kinds
          Rows,         \* rows 1..Rows[f] are sent by feed f
          Started,      \* the sets of feeds that may be run at one time
          Unanswered, Refused, Lost,   \* answers of AtMostOnceIntake
          MaxExpiries   \* bound: the last generation of a token that expires

Kinds == {"once", "retry", "replay", "nrt", "sandbox", "sample", "large"}

Sends == UNION {{f} \X (1..Rows[f]) \X (1..2) : f \in Feeds}

ASSUME FeedsAssumption ==
  /\ Kind \in [Feeds -> Kinds] /\ Rows \in [Feeds -> Nat \ {0}]
  /\ Started \subseteq SUBSET Feeds /\ MaxExpiries \in Nat
  /\ Unanswered # Refused /\ Refused # Lost /\ Lost # Unanswered
  /\ {Unanswered, Refused, Lost} \cap Sends = {}

VARIABLES phase,      \* where the loop of each feed stands
          current,    \* the row it is at
          attempt,    \* at that row
          report,     \* what it printed about each row
          token,      \* the generation of the access token it holds, 0 none
          expired,    \* generations up to this one have expired
          carried,    \* send |-> the generation it carries
          wire,       \* sends on their way to the API
          cached,     \* signatures in the replay cache
          reason,     \* send |-> what an answer without receipt says
          accepted, answer    \* of AtMostOnceIntake

api == <<wire, cached, reason, accepted, answer>>
feedVars == <<phase, current, attempt, report, token, expired, carried, api>>

Phases == {"off", "start", "post", "wait", "refresh", "done", "turned_away", "died"}
Reports == {"unsent", "ok", "failed", "error"}

\* Feeds that walk many rows and mean to survive a bad one.
Loops == {f \in Feeds : Kind[f] \in {"nrt", "sandbox", "sample", "large"}}

-----------------------------------------------------------------------------
(* What a send carries.                                                    *)

\* The retry repeats its key; every other send makes a new one.
KeyOf(s) == IF Kind[s[1]] = "retry" THEN <<s[1], s[2], 1>> ELSE s

\* Both attempts at a row send the same bytes.
BodyOf(s) == <<s[1], s[2]>>

\* Stamps are microseconds: no two sends share one, but the exact replay uses
\* the first send's.
StampOf(s) == IF Kind[s[1]] = "replay" THEN <<s[1], s[2], 1>> ELSE s

\* The HMAC over method, target, host, stamp, body hash and institution.
Signature(s) == <<StampOf(s), BodyOf(s)>>

\* The sandbox route makes up a complaint id for each request it accepts.  A
\* run is over long before the key of its first row may be swept.
Intake ==
  INSTANCE AtMostOnceIntake WITH
    Requests <- Sends,
    key <- [s \in Sends |-> KeyOf(s)],
    body <- [s \in Sends |-> BodyOf(s)],
    complaint <- [s \in Sends |-> s],
    forgotten <- {}

-----------------------------------------------------------------------------
FeedsInit ==
  /\ \E together \in Started :
       phase = [f \in Feeds |-> IF f \in together THEN "start" ELSE "off"]
  /\ current = [f \in Feeds |-> 1] /\ attempt = [f \in Feeds |-> 1]
  /\ report = [f \in Feeds |-> [r \in 1..Rows[f] |-> "unsent"]]
  /\ token = [f \in Feeds |-> 0] /\ expired = [f \in Feeds |-> 0]
  /\ carried = [s \in Sends |-> 0]
  /\ wire = {} /\ cached = {} /\ reason = [s \in Sends |-> "none"]
  /\ accepted = {} /\ answer = [s \in Sends |-> Unanswered]

-----------------------------------------------------------------------------
(* A feed.                                                                 *)

Current(f) == <<f, current[f], attempt[f]>>

\* The loop notes what became of the row and goes on to the next: a sample
\* row fetches a token of its own, nrt_feed fetches one when it has none.
Note(f, verdict) ==
  /\ report' = [report EXCEPT ![f][current[f]] = verdict]
  /\ IF current[f] = Rows[f]
     THEN phase' = [phase EXCEPT ![f] = "done"] /\ UNCHANGED <<current, attempt>>
     ELSE /\ current' = [current EXCEPT ![f] = @ + 1]
          /\ attempt' = [attempt EXCEPT ![f] = 1]
          /\ phase' = [phase EXCEPT ![f] =
                         IF Kind[f] = "sample" \/ token[f] = 0 THEN "start" ELSE "post"]

End(f, how) ==
  phase' = [phase EXCEPT ![f] = how] /\ UNCHANGED <<current, attempt, report>>

SecondAttempt(f, next) ==
  /\ attempt' = [attempt EXCEPT ![f] = 2]
  /\ phase' = [phase EXCEPT ![f] = next]
  /\ UNCHANGED <<current, report>>

Fetching(f) == phase[f] \in {"start", "refresh"}

TokenGranted(f) ==
  /\ Fetching(f)
  /\ token' = [token EXCEPT ![f] = @ + 1]
  /\ phase' = [phase EXCEPT ![f] = "post"]
  /\ UNCHANGED <<current, attempt, report, expired, carried, api>>

\* _fetch_token raises SystemExit, which `except Exception' does not catch:
\* only submit_one names it.
TokenRefused(f) ==
  /\ Fetching(f)
  /\ IF Kind[f] = "sample" THEN Note(f, "error") ELSE End(f, "turned_away")
  /\ UNCHANGED <<token, expired, carried, api>>

\* The token request itself raises: inside the loop's try, or outside of it.
TokenRaises(f) ==
  /\ Fetching(f)
  /\ IF Kind[f] \in {"sample", "nrt"} \/ phase[f] = "refresh"
     THEN Note(f, "error") ELSE End(f, "turned_away")
  /\ UNCHANGED <<token, expired, carried, api>>

PostRow(f) ==
  /\ phase[f] = "post"
  /\ wire' = wire \cup {Current(f)}
  /\ carried' = [carried EXCEPT ![Current(f)] = token[f]]
  /\ phase' = [phase EXCEPT ![f] = "wait"]
  /\ UNCHANGED <<current, attempt, report, token, expired, cached, reason, accepted, answer>>

Receipted(s) == answer[s] \in Sends
Unauthorised(s) == answer[s] = Refused /\ reason[s] \in {"token", "replayed"}

\* What the response handler does with a first or only answer of each kind.
React(f, s) ==
  CASE Kind[f] \in {"nrt", "sandbox"} /\ attempt[f] = 1 /\ Unauthorised(s) ->
         SecondAttempt(f, "refresh")
    [] Kind[f] \in {"retry", "replay"} /\ attempt[f] = 1 /\ Receipted(s) ->
         SecondAttempt(f, "post")
    [] Kind[f] = "retry" /\ attempt[f] = 2 ->
         Note(f, IF answer[s] = <<f, current[f], 1>> THEN "ok" ELSE "failed")
    [] Kind[f] = "replay" /\ attempt[f] = 2 ->
         Note(f, IF reason[s] = "replayed" THEN "ok" ELSE "failed")
    [] OTHER -> Note(f, IF Receipted(s) THEN "ok" ELSE "failed")

\* An answer arrives: to the intake's promise a 500 is as good as none.
Arrives(s) == answer[s] \notin {Unanswered, Lost} \/ reason[s] = "broken"

Hear(f) ==
  /\ phase[f] = "wait" /\ Arrives(Current(f))
  /\ React(f, Current(f))
  /\ UNCHANGED <<token, expired, carried, api>>

\* Mutant: a send that raised is sent again.
SendAgain(f) ==
  IF attempt[f] = 1 /\ f \in Loops THEN SecondAttempt(f, "post")
  ELSE IF f \in Loops THEN Note(f, "error") ELSE End(f, "died")

\* Mutant: the except clause leaves the loop.
LeaveLoop(f) == End(f, "died")

\* `except Exception' of the loops; the other programs have none.
OnException(f) == IF f \in Loops THEN Note(f, "error") ELSE End(f, "died")

\* The client's timeout fires, or the connection breaks, whether or not the
\* API has or will have done the work.
GiveUpRow(f) ==
  /\ phase[f] = "wait"
  /\ OnException(f)
  /\ UNCHANGED <<token, expired, carried, api>>

Feed(f) ==
  \/ TokenGranted(f) \/ TokenRefused(f) \/ TokenRaises(f)
  \/ PostRow(f) \/ Hear(f) \/ GiveUpRow(f)

-----------------------------------------------------------------------------
(* The API, in the order of its dependencies: token, signature, replay     *)
(* cache, rate limit and validation, idempotency.                          *)

Live(s) == carried[s] > expired[s[1]]

Turn(s, why) ==
  /\ Intake!Refuse(s)
  /\ reason' = [reason EXCEPT ![s] = why]
  /\ wire' = wire \ {s}

TokenInvalid(s) ==
  /\ s \in wire /\ ~Live(s)
  /\ Turn(s, "token") /\ UNCHANGED cached

Seen(s) == Signature(s) \in cached

Replayed(s) ==
  /\ s \in wire /\ Live(s) /\ Seen(s)
  /\ Turn(s, "replayed") /\ UNCHANGED cached

Admitted(s) ==
  /\ s \in wire /\ Live(s) /\ ~Seen(s)
  /\ cached' = cached \cup {Signature(s)}

\* 404, 409, 422, 429 and a 5xx before the commit: nothing is stored.
TurnedDown(s) == Admitted(s) /\ Turn(s, "other")

Store(s) ==
  /\ Admitted(s) /\ Intake!Accept(s)
  /\ wire' = wire \ {s} /\ UNCHANGED <<reason, answer>>

ShowFirst(s) ==
  /\ Admitted(s) /\ Intake!Replay(s)
  /\ wire' = wire \ {s} /\ UNCHANGED reason

Receipt(s) == Intake!Confirm(s) /\ UNCHANGED <<wire, cached, reason>>

\* The complaint is committed, but the COMMIT is not acknowledged, or the answer
\* cannot be made: a 500 goes out.
Break(s) ==
  /\ s \in accepted /\ Intake!Lose(s)
  /\ reason' = [reason EXCEPT ![s] = "broken"]
  /\ UNCHANGED <<wire, cached>>

\* The request never arrives, or the work is undone before the commit, or the
\* connection is gone when it is done.
Vanish(s) ==
  /\ s \in wire \cup accepted /\ Intake!Lose(s)
  /\ wire' = wire \ {s} /\ UNCHANGED <<cached, reason>>

Serve(s) ==
  /\ TokenInvalid(s) \/ Replayed(s) \/ TurnedDown(s) \/ Store(s) \/ ShowFirst(s)
       \/ Receipt(s) \/ Break(s) \/ Vanish(s)
  /\ UNCHANGED <<phase, current, attempt, report, token, expired, carried>>

Expire(f) ==
  /\ expired[f] < token[f] /\ expired[f] < MaxExpiries
  /\ expired' = [expired EXCEPT ![f] = token[f]]
  /\ UNCHANGED <<phase, current, attempt, report, token, carried, api>>

FeedsNext ==
  \/ \E f \in Feeds : Feed(f) \/ Expire(f)
  \/ \E s \in Sends : Serve(s)

FeedsSpec == FeedsInit /\ [][FeedsNext]_feedVars

-----------------------------------------------------------------------------
(* Properties.                                                             *)

\* What a feed prints of a row is so: a row it calls sent is stored; one that it
\* calls failed is not, whatever was sent for it, unless the API itself broke
\* after it had stored it; a retry is sent when both answers name one complaint,
\* and an exact replay stored once.
ReportIsTrue ==
  \A f \in Feeds : \A r \in 1..Rows[f] :
    /\ report[f][r] = "ok" => \E s \in accepted : BodyOf(s) = <<f, r>>
    /\ report[f][r] = "failed" /\ f \in Loops =>
         \A s \in accepted : BodyOf(s) = <<f, r>> => reason[s] = "broken"

RowStoredOnce ==
  \A s, q \in accepted : BodyOf(s) = BodyOf(q) => s = q

RetryIsNoReplay ==
  \A s \in Sends :
    /\ Kind[s[1]] = "retry" => reason[s] # "replayed"
    /\ Kind[s[1]] = "replay" /\ s[3] = 2 => s \notin accepted

\* A row is stored at most once by a run, though it may be sent twice and under
\* two keys, and though the answer to a stored one may never be heard: the
\* second send of nrt_feed and sandbox_send follows only a 401, which stores
\* nothing, and the second of the retry repeats its key.  What is printed of it
\* is so.  And an idempotent retry is told from a replayed request: the retry
\* of a stored row is never refused as a replay, and an exact replay is never
\* let through.
SentOnceAndSaidSo == ReportIsTrue /\ RowStoredOnce /\ RetryIsNoReplay

\* One bad row does not end a feed: every row gets its report, unless the
\* feed is turned away with no token.
EveryRowReported ==
  \A f \in Loops :
    phase[f] = "start" ~>
      (phase[f] = "turned_away" \/ \A r \in 1..Rows[f] : report[f][r] # "unsent")
=============================================================================
