---------------------------- MODULE ConnectionPool ----------------------------
(***************************************************************************)
(* The database connections of one API process (db/session.py): db_pool_size*)
(* and db_pool_max_overflow of them, for all its requests.  The session of *)
(* a request takes one with its first statement, the certificate lookup of *)
(* dependencies/mtls.py, and keeps it until it commits or ends.  A POST    *)
(* with an Idempotency-Key then takes a second one for the claim, and for  *)
(* each read of a claim it lost, while it keeps the first.  A cockpit      *)
(* stream (routes/sse.py) keeps the one of its snapshot as long as it is   *)
(* open.  Who waits too long gets the pool's TimeoutError, a 500.          *)
(***************************************************************************)
EXTENDS Naturals, FiniteSets

CONSTANTS Connections, Posts, Streams, NoUser,
          MaxReads  \* reads of a lost claim: max_retries + 1 = 4

Users == Posts \union Streams

ASSUME PoolAssumption ==
  /\ IsFiniteSet(Connections) /\ Connections # {}
  /\ IsFiniteSet(Posts) /\ IsFiniteSet(Streams)
  /\ Posts \intersect Streams = {} /\ NoUser \notin Users
  /\ MaxReads \in Nat \ {0}

VARIABLES place,  \* where each request is
          holder, \* who has each connection
          reads   \* reads of its claim so far

poolVars == <<place, holder, reads>>

PoolInit ==
  /\ place = [u \in Users |-> "new"]
  /\ holder = [k \in Connections |-> NoUser]
  /\ reads = [u \in Users |-> 0]

Goto(u, l) == place' = [place EXCEPT ![u] = l]
Free(k) == holder[k] = NoUser
Held(u) == {k \in Connections : holder[k] = u}
TakeOne(u) == \E k \in Connections : Free(k) /\ holder' = [holder EXCEPT ![k] = u]
GiveBack(u, K) == holder' = [k \in Connections |-> IF k \in K THEN NoUser ELSE holder[k]]

\* The first statement of the request's session.
StartSession(u) ==
  /\ place[u] = "new" /\ TakeOne(u)
  /\ Goto(u, IF u \in Streams THEN "streaming" ELSE "begun")
  /\ UNCHANGED reads

\* Authentication, rate limit and breaker passed; the claim asks for its own.
AskForClaim(u) ==
  /\ place[u] = "begun" /\ Goto(u, "claiming")
  /\ UNCHANGED <<holder, reads>>

OpenClaim(u) ==
  /\ place[u] = "claiming" /\ TakeOne(u)
  /\ Goto(u, "claimed")
  /\ UNCHANGED reads

\* Mutant: the session of a claim that was lost is not closed.
NothingGivenBack(u) == {{}}

\* The connection a claim gives back: of the two, the one it took.
ClaimsOwn(u) == {{k} : k \in Held(u)}

\* Its session closes: the slot is won, answered from, or still in flight; then
\* it is read again, in a session of its own, until MaxReads.
CloseClaim(u) ==
  /\ place[u] = "claimed"
  /\ \E K \in ClaimsOwn(u) : GiveBack(u, K)
  /\ \/ Goto(u, "working") /\ UNCHANGED reads
     \/ /\ reads[u] < MaxReads /\ reads' = [reads EXCEPT ![u] = @ + 1]
        /\ Goto(u, "claiming")

\* The commit, a refusal or an error ends the request; a client leaves a stream.
Finish(u) ==
  /\ place[u] \in {"begun", "working", "streaming"}
  /\ GiveBack(u, Held(u)) /\ Goto(u, "over")
  /\ UNCHANGED reads

\* pool_timeout.
TimesOut(u) ==
  /\ place[u] \in {"new", "claiming"} /\ \A k \in Connections : ~Free(k)
  /\ GiveBack(u, Held(u)) /\ Goto(u, "over")
  /\ UNCHANGED reads

PoolNext ==
  \E u \in Users : \/ StartSession(u) \/ AskForClaim(u) \/ OpenClaim(u) \/ CloseClaim(u)
                   \/ Finish(u) \/ TimesOut(u)

PoolSpec == PoolInit /\ [][PoolNext]_poolVars

-----------------------------------------------------------------------------
(* Properties *)

PoolTypeOK ==
  /\ place \in [Users -> {"new", "begun", "claiming", "claimed", "working", "streaming", "over"}]
  /\ holder \in [Connections -> Users \union {NoUser}]
  /\ reads \in [Users -> 0..MaxReads]

\* Every connection is kept by a claim that waits for another, or by a stream:
\* nothing moves until one times out or a client leaves.
Stalled ==
  \A k \in Connections : ~Free(k) /\ place[holder[k]] \in {"claiming", "streaming"}

UnderWay == {u \in Users : place[u] \notin {"new", "over"}}

\* The claims' second connections stop the process only when as many requests
\* and streams are under way as it has connections: with fewer, however they
\* interleave and whatever was refused or timed out before, somebody moves.
StallsOnlyWhenCrowded == Stalled => Cardinality(UnderWay) >= Cardinality(Connections)
=============================================================================
