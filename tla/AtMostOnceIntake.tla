--------------------------- MODULE AtMostOnceIntake ---------------------------
(***************************************************************************)
(* What the intake promises an institution, with no table, statement or    *)
(* lock in sight: under one Idempotency-Key at most one request is         *)
(* accepted for as long as the service remembers it, no two accepted       *)
(* requests carry the same complaint, and what a request is answered is so *)
(* at the moment it is answered.  ComplaintIntake implements it; the       *)
(* clients of the sandbox route are modelled against it (InstitutionFeeds).*)
(***************************************************************************)
CONSTANTS Requests,      \* the requests that clients may send
          Unanswered, Refused, Lost

VARIABLES key, body, complaint,   \* what each request carries
          accepted,      \* the requests whose complaint is stored
          forgotten,     \* accepted requests whose key may be used again
          answer         \* Unanswered, Refused, Lost, or the accepted
                         \* request whose receipt was shown

promise == <<key, body, complaint, accepted, forgotten, answer>>

Fresh ==
  /\ accepted = {} /\ forgotten = {}
  /\ answer = [r \in Requests |-> Unanswered]

\* A request under this key has been accepted and is remembered.
Remembered(k) == {q \in accepted \ forgotten : key[q] = k}

Accept(r) ==
  /\ r \notin accepted
  /\ answer[r] = Unanswered
  /\ Remembered(key[r]) = {}
  /\ \A q \in accepted : complaint[q] # complaint[r]
  /\ accepted' = accepted \cup {r}
  /\ UNCHANGED <<key, body, complaint, forgotten>>

Confirm(r) ==
  /\ r \in accepted /\ answer[r] = Unanswered
  /\ answer' = [answer EXCEPT ![r] = r]
  /\ UNCHANGED <<key, body, complaint, accepted, forgotten>>

\* The receipt of an earlier request with this key and this body is shown.
Replay(r) ==
  /\ r \notin accepted /\ answer[r] = Unanswered
  /\ \E q \in Remembered(key[r]) :
       body[q] = body[r] /\ answer' = [answer EXCEPT ![r] = q]
  /\ UNCHANGED <<key, body, complaint, accepted, forgotten>>

\* A refusal means that nothing was stored.
Refuse(r) ==
  /\ r \notin accepted /\ answer[r] = Unanswered
  /\ answer' = [answer EXCEPT ![r] = Refused]
  /\ UNCHANGED <<key, body, complaint, accepted, forgotten>>

\* A lost answer says nothing about what was stored.
Lose(r) ==
  /\ answer[r] = Unanswered
  /\ answer' = [answer EXCEPT ![r] = Lost]
  /\ UNCHANGED <<key, body, complaint, accepted, forgotten>>

Forget ==
  /\ \E gone \in SUBSET accepted : forgotten' = forgotten \cup gone
  /\ UNCHANGED <<key, body, complaint, accepted, answer>>

PromiseNext ==
  \/ \E r \in Requests :
       (Accept(r) /\ UNCHANGED answer) \/ Confirm(r) \/ Replay(r) \/ Refuse(r) \/ Lose(r)
  \/ Forget

Promise == Fresh /\ [][PromiseNext]_promise
=============================================================================
