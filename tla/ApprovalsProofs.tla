---------------------------- MODULE ApprovalsProofs ---------------------------
(***************************************************************************)
(* Theorems about Approvals and ApprovalNarratives, for any set of         *)
(* requests and any number of faults.  What a row says follows from who    *)
(* has committed a decision on it; what a race costs follows from who may  *)
(* still commit one.                                                       *)
(***************************************************************************)
EXTENDS Approvals, ApprovalNarratives, FiniteSetTheorems,
        SequenceTheorems, WellFoundedInduction, TLAPS

Row == [status : {"pending", "approved", "rejected", "sent_back"},
        action : Actions \cup {"none"}, rationale : Requests \cup {NoRequest}]

\* TypeOK, with the queue as a sequence.
Types == TypeOK /\ rows \in Seq(Row)

\* Where a request stands: what it asks for, about which row, what it wrote.
Standing ==
  \A r \in Requests :
    /\ pc[r] = "idle" => target[r] = 0
    /\ pc[r] \in {"idle", "read", "flushed"} => effects[r] = {}
    /\ pc[r] # "done" => answer[r] = "none"
    /\ pc[r] = "flushed" => r \in Decides
    /\ r \in Decides /\ pc[r] # "idle" => target[r] \in DOMAIN rows /\ action[r] \in Actions
    /\ effects[r] # {} => target[r] \in DOMAIN rows
    /\ pc[r] = "committed" => effects[r] # {}
    /\ r \in Decides /\ effects[r] # {} =>
         effects[r] = Observations(r) \cup Feedback(r) \cup {"audit"}

\* A row was sent, stays as it was sent until a decision on it commits, and then
\* says what some committed decision says.
RowsHaveDeciders ==
  /\ \A i \in DOMAIN rows :
       /\ \E q \in Sends : target[q] = i /\ effects[q] # {}
       /\ \/ rows[i] = NewRow
          \/ \E q \in Decides :
               /\ target[q] = i /\ effects[q] # {}
               /\ rows[i].status = StatusOf[action[q]] /\ rows[i].action = action[q]
  /\ \A q \in Decides : effects[q] # {} => rows[target[q]].status # "pending"

\* The decision is written, or the request still may write it.
Deciding(r) == Open(r) \/ effects[r] # {}

\* The row of a request that alone decided it.
Told(r) == [status |-> StatusOf[action[r]], action |-> action[r],
            rationale |-> IF action[r] \in Explained THEN r ELSE NoRequest]

\* A row on which no two decisions raced has one at most, and tells it whole.
UnracedHasOne ==
  \A r \in Decides : target[r] \notin raced =>
    /\ \A q \in Decides : Deciding(r) /\ Deciding(q) /\ target[q] = target[r] => q = r
    /\ effects[r] # {} => rows[target[r]] = Told(r)

\* A send that goes on has found no pending row, and is the only one.
UnracedSend ==
  ~sendRace =>
    /\ \A i, k \in Pending : i = k
    /\ \A r \in Sends : Open(r) => Pending = {} /\ \A q \in Sends : Open(q) => q = r

ApprovalsInv ==
  /\ Types /\ Standing /\ RowsHaveDeciders /\ UnracedHasOne /\ UnracedSend
  /\ AnswersAreTrue

-----------------------------------------------------------------------------
(* The inductive invariant.                                                *)

\* At first nothing is sent.
LEMMA ApprovalsInit == Init => ApprovalsInv
<1> SUFFICES ASSUME Init PROVE ApprovalsInv
  OBVIOUS
<1> USE ApprovalsAssumption DEF Sends
<1>1. rows = <<>> /\ Len(rows) = 0 /\ DOMAIN rows = {}
  BY DEF Init
<1>2. Types
  <2>1. rows \in Seq(Row)
    BY <1>1, EmptySeq
  <2>2. /\ target \in [Requests -> 0..0] /\ effects \in [Requests -> SUBSET {}]
        /\ announced = {} /\ raced = {} /\ faults \in 0..MaxFaults
    BY DEF Init
  <2>3. TypeOK
    BY <1>1, <2>2 DEF Init, TypeOK
  <2> QED
    BY <2>1, <2>3 DEF Types
<1>3. Standing
  BY DEF Init, Standing
<1>4. AnswersAreTrue
  <2>1. announced = {} /\ \A r \in Requests : answer[r] = "none"
    BY DEF Init
  <2> QED
    BY <2>1 DEF AnswersAreTrue
<1>5. RowsHaveDeciders /\ UnracedSend
  <2>1. DOMAIN rows = {} /\ \A r \in Requests : effects[r] = {} /\ ~Open(r)
    BY <1>1 DEF Init, Open
  <2> QED
    BY <2>1 DEF RowsHaveDeciders, UnracedSend, Pending
<1>6. UnracedHasOne
  BY DEF Init, UnracedHasOne, Deciding, Open
<1> QED
  BY <1>2, <1>3, <1>4, <1>5, <1>6 DEF ApprovalsInv

\* The newest of some rows is one of them.
LEMMA NewestIsOne ==
  ASSUME NEW n \in Nat, NEW s \in SUBSET (1..n), s # {}
  PROVE  Newest(s) \in s
<1> DEFINE below == {n - i : i \in s}
<1>1. below \subseteq Nat /\ below # {}
  <2>1. \A i \in s : i \in 1..n /\ n - i \in Nat
    OBVIOUS
  <2> QED
    BY <2>1
<1>2. PICK m \in below : \A k \in below : ~ (<<k, m>> \in OpToRel(<, Nat))
  BY <1>1, NatLessThanWellFounded, WFMin
<1>3. PICK i \in s : m = n - i
  OBVIOUS
<1>4. \A k \in s : k <= i
  <2> SUFFICES ASSUME NEW k \in s PROVE k <= i
    OBVIOUS
  <2>1. ~ (<<n - k, m>> \in OpToRel(<, Nat)) /\ n - k \in Nat /\ m \in Nat
    BY <1>1, <1>2
  <2>2. ~ (n - k < m)
    BY <2>1 DEF OpToRel
  <2> QED
    BY <1>3, <2>2
<1> QED
  BY <1>3, <1>4 DEF Newest

\* A decision's status is the one its action stands for.
LEMMA Statuses ==
  ASSUME NEW a \in Actions
  PROVE  /\ StatusOf[a] \in {"approved", "rejected", "sent_back"}
         /\ StatusOf[a] = "approved" <=> a \in Observed
BY DEF Actions, StatusOf, Observed

\* What most steps leave alone: what requests other than r want and have written.
Others(r) ==
  \A q \in Requests \ {r} :
    /\ pc'[q] = pc[q] /\ action'[q] = action[q] /\ target'[q] = target[q]
    /\ answer'[q] = answer[q] /\ effects'[q] = effects[q]

\* A send that is answered with a waiting row, or goes on to insert its own.
LEMMA SendReadStep ==
  ASSUME ApprovalsInv, NEW r \in Requests, SendRead(r)
  PROVE  ApprovalsInv'
<1> USE ApprovalsAssumption DEF Sends
<1>0. /\ Types /\ Standing /\ RowsHaveDeciders /\ UnracedHasOne /\ UnracedSend
      /\ AnswersAreTrue
  BY DEF ApprovalsInv
<1>1. /\ pc[r] = "idle" /\ r \in Requests \ Decides /\ effects[r] = {} /\ answer[r] = "none"
      /\ UNCHANGED <<action, rows, effects, announced, raced, faults>>
      /\ Others(r) /\ effects'[r] = {} /\ raced' = raced /\ announced' = announced
  BY <1>0 DEF SendRead, Types, TypeOK, tables, history, Others, Standing, GoTo, Answer
<1>2. RowsHaveDeciders'
  BY <1>0, <1>1 DEF RowsHaveDeciders, Others
<1>3. UnracedHasOne'
  BY <1>0, <1>1 DEF UnracedHasOne, Deciding, Open, Others, Told
<1>4. CASE Existing # {}
  <2>1. PICK i \in Pending :
          /\ target' = [target EXCEPT ![r] = i]
          /\ answer' = [answer EXCEPT ![r] = "existing"]
          /\ pc' = [pc EXCEPT ![r] = "done"]
          /\ sendRace' = sendRace
    <3>1. Pending # {} /\ Pending \in SUBSET (1..Len(rows)) /\ Len(rows) \in Nat
      BY <1>0, <1>4 DEF Existing, Pending, Types
    <3>2. Newest(Pending) \in Pending
      BY <3>1, NewestIsOne
    <3> QED
      BY <1>4, <3>2 DEF SendRead, Existing, history, tables, GoTo, Answer
  <2>2. Types'
    BY <1>0, <1>1, <2>1 DEF Types, TypeOK, Pending
  <2>3. Standing'
    BY <1>0, <1>1, <2>1 DEF Standing, Types, TypeOK, Pending, Observations, Feedback
  <2>4. UnracedSend'
    BY <1>0, <1>1, <2>1 DEF UnracedSend, Pending, Open, Types, TypeOK
  <2>5. AnswersAreTrue'
    <3>1. PICK q \in Sends : target[q] = i /\ effects[q] # {}
      BY <1>0, <2>1 DEF RowsHaveDeciders, Pending
    <3>2. target'[r] = i /\ answer'[r] = "existing" /\ q # r
      BY <1>0, <1>1, <2>1, <3>1 DEF Types, TypeOK
    <3> QED
      BY <1>0, <1>1, <3>1, <3>2 DEF AnswersAreTrue, Committed, Others
  <2> QED
    BY <1>2, <1>3, <2>2, <2>3, <2>4, <2>5 DEF ApprovalsInv
<1>5. CASE Existing = {}
  <2>1. /\ Pending = {} /\ pc' = [pc EXCEPT ![r] = "read"]
        /\ sendRace' = (sendRace \/ \E q \in Sends : Open(q))
        /\ UNCHANGED <<target, answer>>
    BY <1>5 DEF SendRead, Existing, GoTo
  <2>2. Types'
    BY <1>0, <1>1, <2>1 DEF Types, TypeOK
  <2>3. Standing'
    BY <1>0, <1>1, <2>1 DEF Standing, Types, TypeOK, Observations, Feedback
  <2>4. UnracedSend'
    BY <1>0, <1>1, <2>1 DEF UnracedSend, Pending, Open, Types, TypeOK
  <2>5. AnswersAreTrue'
    BY <1>0, <1>1, <2>1 DEF AnswersAreTrue, Committed
  <2> QED
    BY <1>2, <1>3, <2>2, <2>3, <2>4, <2>5 DEF ApprovalsInv
<1> QED
  BY <1>4, <1>5

\* A send appends a row that no decision is about yet.
LEMMA SendCommitStep ==
  ASSUME ApprovalsInv, NEW r \in Requests, SendCommit(r)
  PROVE  ApprovalsInv'
<1> USE ApprovalsAssumption DEF Sends
<1>0. /\ Types /\ Standing /\ RowsHaveDeciders /\ UnracedHasOne /\ UnracedSend
      /\ AnswersAreTrue
  BY DEF ApprovalsInv
<1> DEFINE new == Len(rows) + 1
<1>1. /\ pc[r] = "read" /\ r \in Requests \ Decides /\ effects[r] = {} /\ answer[r] = "none"
      /\ pc' = [pc EXCEPT ![r] = "committed"] /\ target' = [target EXCEPT ![r] = new]
      /\ effects' = [effects EXCEPT ![r] = {"audit"}]
      /\ UNCHANGED <<action, answer, announced, raced, sendRace, faults>>
      /\ rows' = Append(rows, NewRow)
  BY <1>0 DEF SendCommit, NextId, history, Standing, GoTo
<1>2. /\ Len(rows) \in Nat /\ DOMAIN rows = 1..Len(rows)
      /\ Len(rows') = new /\ DOMAIN rows' = 1..new
      /\ \A i \in 1..Len(rows) : rows'[i] = rows[i]
      /\ rows'[new] = NewRow
      /\ rows' \in Seq(Row)
  BY <1>0, <1>1 DEF Types, NewRow, Row
<1>3. Others(r) /\ target'[r] = new /\ effects'[r] = {"audit"} /\ pc'[r] = "committed"
  BY <1>0, <1>1 DEF Others, Types, TypeOK
<1>4. \A q \in Requests : target[q] # new
  BY <1>0, <1>2 DEF Types, TypeOK
<1>a. DOMAIN rows' = DOMAIN rows \cup {new} /\ new \notin DOMAIN rows
  BY <1>2
<1>b. \A q \in Requests : pc'[q] = IF q = r THEN "committed" ELSE pc[q]
  BY <1>0, <1>1 DEF Types, TypeOK
<1>5. Types'
  <2>1. \A i \in DOMAIN rows' : rows'[i] \in Row
    BY <1>2
  <2>2. TypeOK'
    BY <1>0, <1>1, <1>2, <2>1 DEF Types, TypeOK, Row
  <2> QED
    BY <1>2, <2>2 DEF Types
<1>6. Standing'
  <2> SUFFICES ASSUME NEW q \in Requests
               PROVE  (/\ pc[q] = "idle" => target[q] = 0
                       /\ pc[q] \in {"idle", "read", "flushed"} => effects[q] = {}
                       /\ pc[q] # "done" => answer[q] = "none"
                       /\ pc[q] = "flushed" => q \in Decides
                       /\ q \in Decides /\ pc[q] # "idle" =>
                            target[q] \in DOMAIN rows /\ action[q] \in Actions
                       /\ effects[q] # {} => target[q] \in DOMAIN rows
                       /\ pc[q] = "committed" => effects[q] # {}
                       /\ q \in Decides /\ effects[q] # {} =>
                            effects[q] = Observations(q) \cup Feedback(q) \cup {"audit"})'
    BY DEF Standing
  <2>1. CASE q = r
    BY <1>1, <1>3, <1>a, <2>1
  <2>2. CASE q # r
    BY <1>0, <1>1, <1>3, <1>a, <2>2 DEF Standing, Others, Observations, Feedback
  <2> QED
    BY <2>1, <2>2
<1>7. RowsHaveDeciders'
  <2>1. \A i \in DOMAIN rows :
          /\ \E q \in Sends : target'[q] = i /\ effects'[q] # {}
          /\ \/ rows'[i] = NewRow
             \/ \E q \in Decides :
                  /\ target'[q] = i /\ effects'[q] # {}
                  /\ rows'[i].status = StatusOf[action'[q]] /\ rows'[i].action = action'[q]
    BY <1>0, <1>1, <1>2, <1>3 DEF RowsHaveDeciders, Others
  <2>2. \A q \in Decides : effects'[q] # {} => rows'[target'[q]].status # "pending"
    BY <1>0, <1>1, <1>2, <1>3 DEF RowsHaveDeciders, Others, Standing
  <2>3. rows'[new] = NewRow /\ \E q \in Sends : target'[q] = new /\ effects'[q] # {}
    BY <1>1, <1>2, <1>3
  <2> QED
    BY <1>a, <2>1, <2>2, <2>3 DEF RowsHaveDeciders
<1>8. UnracedHasOne'
  <2>1. \A q \in Decides : /\ target'[q] = target[q] /\ action'[q] = action[q]
                           /\ pc'[q] = pc[q] /\ effects'[q] = effects[q]
    BY <1>1, <1>3 DEF Others
  <2>2. \A q \in Decides : effects[q] # {} => rows'[target[q]] = rows[target[q]]
    BY <1>0, <1>2 DEF Standing
  <2> SUFFICES ASSUME NEW p \in Decides, target'[p] \notin raced'
               PROVE  (/\ \A q \in Decides :
                            Deciding(p) /\ Deciding(q) /\ target[q] = target[p] => q = p
                       /\ effects[p] # {} => rows[target[p]] = Told(p))'
    BY DEF UnracedHasOne
  <2>3. /\ \A q \in Decides : Deciding(p) /\ Deciding(q) /\ target[q] = target[p] => q = p
        /\ effects[p] # {} => rows[target[p]] = Told(p)
    BY <1>0, <1>1, <2>1 DEF UnracedHasOne
  <2>4. Told(p)' = Told(p)
    BY <1>1 DEF Told
  <2>5. \A q \in Decides : Deciding(q)' <=> Deciding(q)
    BY <2>1 DEF Deciding, Open
  <2> QED
    BY <2>1, <2>2, <2>3, <2>4, <2>5
<1>9. UnracedSend'
  <2> SUFFICES ASSUME ~sendRace PROVE UnracedSend'
    BY <1>1 DEF UnracedSend
  <2>1. Pending = {} /\ \A q \in Sends : Open(q) => q = r
    BY <1>0, <1>1 DEF UnracedSend, Open
  <2>2. \A i \in Pending' : i = new
    BY <1>2, <2>1 DEF Pending
  <2>3. \A q \in Sends : ~Open(q)'
    BY <1>1, <1>3, <2>1 DEF Open, Others
  <2> QED
    BY <2>2, <2>3 DEF UnracedSend
<1>10. AnswersAreTrue'
  BY <1>0, <1>1, <1>3 DEF AnswersAreTrue, Committed, Others, Standing
<1> QED
  BY <1>5, <1>6, <1>7, <1>8, <1>9, <1>10 DEF ApprovalsInv

\* A decision goes on with a pending row, whose races it enters, or answers.
LEMMA DecideReadStep ==
  ASSUME ApprovalsInv, NEW r \in Requests, NEW a \in Actions, NEW i \in DOMAIN rows,
         DecideRead(r, a, i)
  PROVE  ApprovalsInv'
<1> USE ApprovalsAssumption DEF Sends
<1>0. /\ Types /\ Standing /\ RowsHaveDeciders /\ UnracedHasOne /\ UnracedSend
      /\ AnswersAreTrue
  BY DEF ApprovalsInv
<1>1. /\ pc[r] = "idle" /\ r \in Decides /\ effects[r] = {} /\ answer[r] = "none"
      /\ action' = [action EXCEPT ![r] = a] /\ target' = [target EXCEPT ![r] = i]
      /\ UNCHANGED <<rows, effects, announced, sendRace, faults>>
      /\ Others(r) /\ effects'[r] = {} /\ target'[r] = i /\ action'[r] = a
  BY <1>0 DEF DecideRead, Types, TypeOK, tables, Others, Standing, GoTo, Answer
<1>2. DOMAIN rows = 1..Len(rows) /\ Len(rows) \in Nat
  BY <1>0 DEF Types
<1>3. RowsHaveDeciders'
  BY <1>0, <1>1 DEF RowsHaveDeciders, Others
<1>4. CASE rows[i].status = "pending"
  <2>1. /\ pc' = [pc EXCEPT ![r] = "read"] /\ UNCHANGED answer
        /\ raced' = IF \E q \in Decides : target[q] = i /\ Open(q)
                    THEN raced \cup {i} ELSE raced
    BY <1>4 DEF DecideRead, Undecided, GoTo
  <2>2. Types'
    BY <1>0, <1>1, <1>2, <2>1 DEF Types, TypeOK
  <2>3. Standing'
    BY <1>0, <1>1, <2>1 DEF Standing, Types, TypeOK, Observations, Feedback
  <2>4. \A q \in Decides : target[q] = i => effects[q] = {}
    BY <1>0, <1>4 DEF RowsHaveDeciders
  <2>5. UnracedHasOne'
    BY <1>0, <1>1, <2>1, <2>4 DEF UnracedHasOne, Deciding, Open, Others, Told
  <2>6. UnracedSend'
    BY <1>0, <1>1, <2>1 DEF UnracedSend, Pending, Open, Types, TypeOK
  <2>7. AnswersAreTrue'
    BY <1>0, <1>1, <2>1 DEF AnswersAreTrue, Committed, Others
  <2> QED
    BY <1>3, <2>2, <2>3, <2>5, <2>6, <2>7 DEF ApprovalsInv
<1>5. CASE rows[i].status # "pending"
  <2> DEFINE told == IF Replays(i, a) THEN "replayed" ELSE "conflict"
  <2>1. /\ pc' = [pc EXCEPT ![r] = "done"] /\ answer' = [answer EXCEPT ![r] = told]
        /\ UNCHANGED raced
    BY <1>5 DEF DecideRead, Undecided, GoTo, Answer
  <2>2. Types'
    BY <1>0, <1>1, <1>2, <2>1 DEF Types, TypeOK
  <2>3. Standing'
    BY <1>0, <1>1, <2>1 DEF Standing, Types, TypeOK, Observations, Feedback
  <2>4. UnracedHasOne'
    BY <1>0, <1>1, <2>1 DEF UnracedHasOne, Deciding, Open, Others, Told, Types, TypeOK
  <2>5. UnracedSend'
    BY <1>0, <1>1, <2>1 DEF UnracedSend, Pending, Open, Types, TypeOK
  <2>6. AnswersAreTrue'
    <3>1. rows[i] # NewRow
      BY <1>5 DEF NewRow
    <3>2. PICK q \in Decides :
            target[q] = i /\ effects[q] # {} /\ rows[i].action = action[q]
      BY <1>0, <3>1 DEF RowsHaveDeciders
    <3>3. /\ q # r /\ answer'[r] = told
          /\ told = "replayed" => action[q] = a
          /\ told = "conflict" => action[q] # a
          /\ told \in {"replayed", "conflict"}
      BY <1>0, <1>1, <2>1, <3>2 DEF Types, TypeOK, Replays
    <3> HIDE DEF told
    <3>4. /\ told = "replayed" => \E p \in Committed(i)' : p # r /\ action'[p] = action'[r]
          /\ told = "conflict" => \E p \in Committed(i)' : p # r /\ action'[p] # action'[r]
      BY <1>1, <3>2, <3>3 DEF Committed, Others
    <3> QED
      BY <1>0, <1>1, <3>3, <3>4 DEF AnswersAreTrue, Committed, Others
  <2> QED
    BY <1>3, <2>2, <2>3, <2>4, <2>5, <2>6 DEF ApprovalsInv
<1> QED
  BY <1>4, <1>5

\* A decision writes over its row whatever the row says by then.
LEMMA DecideCommitStep ==
  ASSUME ApprovalsInv, NEW r \in Requests, DecideCommit(r)
  PROVE  ApprovalsInv'
<1> USE ApprovalsAssumption DEF Sends
<1>0. /\ Types /\ Standing /\ RowsHaveDeciders /\ UnracedHasOne /\ UnracedSend
      /\ AnswersAreTrue
  BY DEF ApprovalsInv
<1> DEFINE i == target[r]
           wrote == Observations(r) \cup Feedback(r) \cup {"audit"}
<1>1. /\ pc[r] = "flushed" /\ r \in Decides /\ effects[r] = {} /\ answer[r] = "none"
      /\ i \in DOMAIN rows /\ action[r] \in Actions
      /\ pc' = [pc EXCEPT ![r] = "committed"]
      /\ effects' = [effects EXCEPT ![r] = wrote]
      /\ rows' = [rows EXCEPT ![i] = Decided(rows[i], r)]
      /\ UNCHANGED <<action, target, answer, announced, raced, sendRace, faults>>
  BY <1>0 DEF DecideCommit, history, Standing, GoTo
<1>2. rows[i] \in Row /\ \A k \in DOMAIN rows : rows[k] \in Row
  BY <1>0, <1>1 DEF Types
<1>3. LET row == Decided(rows[i], r)
      IN  /\ row.status = StatusOf[action[r]] /\ row.action = action[r]
          /\ row.rationale = (IF action[r] \in Explained THEN r ELSE rows[i].rationale)
          /\ row.status # "pending" /\ row \in Row
          /\ row = [status |-> row.status, action |-> row.action, rationale |-> row.rationale]
  <2> DEFINE row == Decided(rows[i], r)
             why == IF action[r] \in Explained THEN r ELSE rows[i].rationale
  <2>1. StatusOf[action[r]] \in {"approved", "rejected", "sent_back"}
    BY <1>1, Statuses
  <2>2. why \in Requests \cup {NoRequest}
    BY <1>1, <1>2 DEF Row
  <2>3. row = [status |-> StatusOf[action[r]], action |-> action[r], rationale |-> why]
    <3>1. rows[i] = [status |-> rows[i].status, action |-> rows[i].action,
                     rationale |-> rows[i].rationale]
      BY <1>2 DEF Row
    <3>2. row = [[[rows[i] EXCEPT !.status = StatusOf[action[r]]] EXCEPT !.action = action[r]]
                   EXCEPT !.rationale = why]
      BY DEF Decided
    <3> QED
      BY <3>1, <3>2
  <2> HIDE DEF row
  <2>4. row \in Row
    BY <1>1, <2>1, <2>2, <2>3 DEF Row
  <2> QED
    BY <2>1, <2>3, <2>4 DEF row
<1>4. /\ DOMAIN rows' = DOMAIN rows /\ Len(rows') = Len(rows) /\ rows' \in Seq(Row)
      /\ rows'[i] = Decided(rows[i], r)
      /\ \A k \in DOMAIN rows \ {i} : rows'[k] = rows[k]
  BY <1>0, <1>1, <1>3 DEF Types
<1>5. /\ \A q \in Requests : pc'[q] = IF q = r THEN "committed" ELSE pc[q]
      /\ \A q \in Requests : effects'[q] = IF q = r THEN wrote ELSE effects[q]
      /\ wrote # {} /\ wrote \in SUBSET {"audit", "observation", "feedback"}
  BY <1>0, <1>1 DEF Types, TypeOK, Observations, Feedback
<1> HIDE DEF i
<1>6. Types'
  <2>1. \A k \in DOMAIN rows' : rows'[k] \in Row
    BY <1>2, <1>3, <1>4
  <2>2. TypeOK'
    BY <1>0, <1>1, <1>4, <1>5, <2>1 DEF Types, TypeOK, Row
  <2> QED
    BY <1>4, <2>2 DEF Types
<1>7. Standing'
  <2> SUFFICES ASSUME NEW q \in Requests
               PROVE  (/\ pc[q] = "idle" => target[q] = 0
                       /\ pc[q] \in {"idle", "read", "flushed"} => effects[q] = {}
                       /\ pc[q] # "done" => answer[q] = "none"
                       /\ pc[q] = "flushed" => q \in Decides
                       /\ q \in Decides /\ pc[q] # "idle" =>
                            target[q] \in DOMAIN rows /\ action[q] \in Actions
                       /\ effects[q] # {} => target[q] \in DOMAIN rows
                       /\ pc[q] = "committed" => effects[q] # {}
                       /\ q \in Decides /\ effects[q] # {} =>
                            effects[q] = Observations(q) \cup Feedback(q) \cup {"audit"})'
    BY DEF Standing
  <2>1. CASE q = r
    <3>1. Observations(r)' = Observations(r) /\ Feedback(r)' = Feedback(r)
      BY <1>1 DEF Observations, Feedback
    <3>2. effects'[r] = Observations(r)' \cup Feedback(r)' \cup {"audit"}
      BY <1>5, <3>1
    <3> QED
      BY <1>1, <1>4, <1>5, <2>1, <3>2 DEF i
  <2>2. CASE q # r
    BY <1>0, <1>1, <1>4, <1>5, <2>2 DEF Standing, Observations, Feedback
  <2> QED
    BY <2>1, <2>2
<1>8. RowsHaveDeciders'
  <2>1. ASSUME NEW k \in DOMAIN rows
        PROVE  \/ rows'[k] = NewRow
               \/ \E q \in Decides :
                    /\ target[q] = k /\ effects'[q] # {}
                    /\ rows'[k].status = StatusOf[action[q]] /\ rows'[k].action = action[q]
    <3>1. CASE k = i
      BY <1>1, <1>3, <1>4, <1>5, <3>1 DEF i
    <3>2. CASE k # i
      BY <1>0, <1>4, <1>5, <3>2 DEF RowsHaveDeciders
    <3> QED
      BY <3>1, <3>2
  <2>2. \A k \in DOMAIN rows : \E q \in Sends : target[q] = k /\ effects'[q] # {}
    BY <1>0, <1>5 DEF RowsHaveDeciders
  <2>3. ASSUME NEW q \in Decides, effects'[q] # {}
        PROVE  rows'[target[q]].status # "pending"
    <3>1. CASE target[q] = i
      BY <1>3, <1>4, <3>1
    <3>2. CASE target[q] # i
      BY <1>0, <1>4, <1>5, <2>3, <3>2 DEF RowsHaveDeciders, Standing, i
    <3> QED
      BY <3>1, <3>2
  <2> QED
    BY <1>1, <1>4, <2>1, <2>2, <2>3 DEF RowsHaveDeciders
<1>9. UnracedHasOne'
  <2> SUFFICES ASSUME NEW p \in Decides, target[p] \notin raced
               PROVE  (/\ \A q \in Decides :
                            Deciding(p) /\ Deciding(q) /\ target[q] = target[p] => q = p
                       /\ effects[p] # {} => rows[target[p]] = Told(p))'
    BY <1>1 DEF UnracedHasOne
  <2>1. \A q \in Decides : Deciding(q)' => Deciding(q)
    BY <1>1, <1>5 DEF Deciding, Open
  <2>2. \A q \in Decides : Deciding(p) /\ Deciding(q) /\ target[q] = target[p] => q = p
    BY <1>0 DEF UnracedHasOne
  <2>3. CASE target[p] = i
    <3>1. Deciding(r)
      BY <1>1 DEF Deciding, Open
    <3>2. p # r => ~Deciding(p)
      BY <1>1, <2>2, <2>3, <3>1 DEF i
    <3>3. p = r => rows[i] = NewRow
      <4> SUFFICES ASSUME p = r PROVE rows[i] = NewRow
        OBVIOUS
      <4>1. \A q \in Decides : target[q] = i => effects[q] = {}
        BY <1>1, <2>2, <3>1 DEF i, Deciding
      <4> QED
        BY <1>0, <1>1, <4>1 DEF RowsHaveDeciders
    <3>4. p = r => rows'[i] = Told(r) /\ Told(r)' = Told(r)
      BY <1>1, <1>3, <1>4, <3>3 DEF NewRow, Told
    <3>5. p # r => effects'[p] = {}
      BY <1>5, <3>2 DEF Deciding
    <3> QED
      BY <1>1, <2>1, <2>2, <2>3, <3>4, <3>5
  <2>4. CASE target[p] # i
    <3>1. effects'[p] = effects[p] /\ (effects[p] # {} => rows'[target[p]] = rows[target[p]])
      BY <1>0, <1>1, <1>4, <1>5, <2>4 DEF i, Standing
    <3>2. Told(p)' = Told(p)
      BY <1>1 DEF Told
    <3> QED
      BY <1>0, <1>1, <2>1, <2>2, <3>1, <3>2 DEF UnracedHasOne
  <2> QED
    BY <2>3, <2>4
<1>10. UnracedSend'
  <2>1. Pending' \subseteq Pending
    BY <1>3, <1>4 DEF Pending
  <2>2. \A q \in Sends : Open(q)' <=> Open(q)
    BY <1>1, <1>5 DEF Open
  <2> QED
    BY <1>0, <1>1, <2>1, <2>2 DEF UnracedSend
<1>11. AnswersAreTrue'
  BY <1>0, <1>1, <1>5 DEF AnswersAreTrue, Committed
<1> QED
  BY <1>6, <1>7, <1>8, <1>9, <1>10, <1>11 DEF ApprovalsInv

\* Taking a lock, publishing and failing write no row and no record of one.
LEMMA OtherStep ==
  ASSUME ApprovalsInv, NEW r \in Requests, Flush(r) \/ Publish(r) \/ Fail(r)
  PROVE  ApprovalsInv'
<1> USE ApprovalsAssumption DEF Sends
<1>0. /\ Types /\ Standing /\ RowsHaveDeciders /\ UnracedHasOne /\ UnracedSend
      /\ AnswersAreTrue
  BY DEF ApprovalsInv
<1>a. \A q \in Requests : pc'[q] \in {"read", "flushed"} => pc[q] \in {"read", "flushed"}
  BY <1>0 DEF Flush, Publish, Fail, GoTo, Types, TypeOK
<1>b. \A q \in Requests \ {r} : pc'[q] = pc[q] /\ answer'[q] = answer[q]
  BY <1>0 DEF Flush, Publish, Fail, GoTo, Answer, Types, TypeOK
<1>1. /\ action' = action /\ target' = target /\ rows' = rows /\ effects' = effects
      /\ raced' = raced /\ sendRace' = sendRace
  BY DEF Flush, Publish, Fail, tables, history, GoTo, Answer
<1>2. RowsHaveDeciders'
  BY <1>0, <1>1 DEF RowsHaveDeciders
<1>3. UnracedHasOne'
  <2> SUFFICES ASSUME NEW p \in Decides, target'[p] \notin raced'
               PROVE  (/\ \A q \in Decides :
                            Deciding(p) /\ Deciding(q) /\ target[q] = target[p] => q = p
                       /\ effects[p] # {} => rows[target[p]] = Told(p))'
    BY DEF UnracedHasOne
  <2>1. \A q \in Decides : Deciding(q)' => Deciding(q)
    BY <1>1, <1>a DEF Deciding, Open
  <2>2. Told(p)' = Told(p)
    BY <1>1 DEF Told
  <2> QED
    BY <1>0, <1>1, <2>1, <2>2 DEF UnracedHasOne
<1>4. UnracedSend'
  <2>1. Pending' = Pending
    BY <1>1 DEF Pending
  <2> QED
    BY <1>0, <1>1, <1>a, <2>1 DEF UnracedSend, Open
<1>5. Types'
  <2>1. CASE Flush(r)
    BY <1>0, <1>1, <2>1 DEF Flush, GoTo, Types, TypeOK
  <2>2. CASE Publish(r)
    BY <1>0, <1>1, <2>2 DEF Publish, GoTo, Answer, Types, TypeOK
  <2>3. CASE Fail(r)
    BY <1>0, <1>1, <2>3 DEF Fail, GoTo, Answer, Types, TypeOK
  <2> QED
    BY <2>1, <2>2, <2>3
<1>6. Standing'
  <2>1. \A q \in Requests : Observations(q)' = Observations(q) /\ Feedback(q)' = Feedback(q)
    BY <1>1 DEF Observations, Feedback
  <2>2. /\ pc[r] \in {"read", "flushed", "committed"}
        /\ \/ pc'[r] = "flushed" /\ answer'[r] = answer[r] /\ pc[r] = "read" /\ r \in Decides
           \/ pc'[r] = "done"
    BY <1>0 DEF Flush, Publish, Fail, GoTo, Answer, Types, TypeOK
  <2> QED
    <3> SUFFICES ASSUME NEW q \in Requests
                 PROVE  (/\ pc[q] = "idle" => target[q] = 0
                         /\ pc[q] \in {"idle", "read", "flushed"} => effects[q] = {}
                         /\ pc[q] # "done" => answer[q] = "none"
                         /\ pc[q] = "flushed" => q \in Decides
                         /\ q \in Decides /\ pc[q] # "idle" =>
                              target[q] \in DOMAIN rows /\ action[q] \in Actions
                         /\ effects[q] # {} => target[q] \in DOMAIN rows
                         /\ pc[q] = "committed" => effects[q] # {}
                         /\ q \in Decides /\ effects[q] # {} =>
                              effects[q] = Observations(q) \cup Feedback(q) \cup {"audit"})'
      BY DEF Standing
    <3>1. CASE q = r
      BY <1>0, <1>1, <2>1, <2>2, <3>1 DEF Standing
    <3>2. CASE q # r
      BY <1>0, <1>1, <1>b, <2>1, <3>2 DEF Standing
    <3> QED
      BY <3>1, <3>2
<1>7. AnswersAreTrue'
  <2>1. /\ announced' \subseteq announced \cup {r}
        /\ announced' = announced \/ effects[r] # {}
        /\ answer'[r] \in {"none", "error"} \/ (answer'[r] \in {"sent", "decided"} /\ effects[r] # {})
    BY <1>0 DEF Flush, Publish, Fail, GoTo, Answer, Types, TypeOK, Standing
  <2> QED
    <3>1. \A i : Committed(i)' = Committed(i)
      BY <1>1 DEF Committed
    <3>2. \A q \in announced' : effects'[q] # {}
      <4>1. \A q \in announced : effects[q] # {}
        BY <1>0 DEF AnswersAreTrue
      <4> QED
        BY <1>1, <2>1, <4>1
    <3>3. \A q \in Requests \ {r} : answer'[q] = answer[q]
      BY <1>b
    <3> QED
      BY <1>0, <1>1, <2>1, <3>2, <3>3 DEF AnswersAreTrue, Committed
<1> QED
  BY <1>2, <1>3, <1>4, <1>5, <1>6, <1>7 DEF ApprovalsInv

\* Every step keeps the invariant.
LEMMA ApprovalsStep == ApprovalsInv /\ [Next]_vars => ApprovalsInv'
<1> SUFFICES ASSUME ApprovalsInv, [Next]_vars PROVE ApprovalsInv'
  OBVIOUS
<1>1. CASE UNCHANGED vars
  <2>1. UNCHANGED <<pc, action, target, answer, rows, effects, announced, raced, sendRace, faults>>
    BY <1>1 DEF vars
  <2> QED
    <3>1. Types'
      BY <2>1 DEF ApprovalsInv, Types, TypeOK
    <3>2. Standing'
      BY <2>1 DEF ApprovalsInv, Standing, Observations, Feedback
    <3>3. RowsHaveDeciders'
      BY <2>1 DEF ApprovalsInv, RowsHaveDeciders
    <3>4. UnracedHasOne' /\ UnracedSend'
      BY <2>1 DEF ApprovalsInv, UnracedHasOne, Told, Deciding, Open, UnracedSend, Pending
    <3>5. AnswersAreTrue'
      BY <2>1 DEF ApprovalsInv, AnswersAreTrue, Committed
    <3> QED
      BY <3>1, <3>2, <3>3, <3>4, <3>5 DEF ApprovalsInv
<1> QED
  BY <1>1, SendReadStep, SendCommitStep, DecideReadStep, DecideCommitStep, OtherStep
     DEF Next, Arrive, Work, Terminated

\* Every reachable state satisfies the inductive invariant.
THEOREM ApprovalsInvariance == Spec => []ApprovalsInv
  BY ApprovalsInit, ApprovalsStep, PTL DEF Spec

-----------------------------------------------------------------------------
(* The theorems.                                                           *)

\* Type correctness of the approval queue.
THEOREM ApprovalsTyped == Spec => []TypeOK
<1>1. ApprovalsInv => TypeOK
  BY DEF ApprovalsInv, Types
<1> QED
  BY <1>1, ApprovalsInvariance, PTL

\* What a client of the queue is told has happened, even when requests race.
THEOREM ApprovalAnswersTrue == Spec => []AnswersAreTrue
<1>1. ApprovalsInv => AnswersAreTrue
  BY DEF ApprovalsInv
<1> QED
  BY <1>1, ApprovalsInvariance, PTL

\* A row that two decisions did not race for has the effects of one of them.
LEMMA UnracedRowsDecidedOnce == ApprovalsInv => OneDecisionUnlessRaced
<1> SUFFICES ASSUME ApprovalsInv, NEW i \in DOMAIN rows \ raced
             PROVE  \/ Committed(i) = {} /\ rows[i] = NewRow
                    \/ \E r \in Decides :
                         /\ Committed(i) = {r}
                         /\ rows[i] = Told(r)
                         /\ "observation" \in effects[r] <=> rows[i].status = "approved"
                         /\ "feedback" \in effects[r] <=> action[r] \in {"approve-with-edits", "reject"}
  BY DEF OneDecisionUnlessRaced, Told
<1> USE DEF ApprovalsInv
<1>1. CASE Committed(i) = {}
  BY <1>1 DEF RowsHaveDeciders, Committed
<1>2. ASSUME NEW r \in Committed(i)
      PROVE  /\ r \in Decides /\ Committed(i) = {r} /\ rows[i] = Told(r)
             /\ "observation" \in effects[r] <=> rows[i].status = "approved"
             /\ "feedback" \in effects[r] <=> action[r] \in {"approve-with-edits", "reject"}
  <2>1. r \in Decides /\ target[r] = i /\ effects[r] # {} /\ rows[i] = Told(r)
    BY <1>2 DEF Committed, UnracedHasOne
  <2>2. Committed(i) = {r}
    BY <2>1 DEF Committed, UnracedHasOne, Deciding
  <2>3. /\ effects[r] = Observations(r) \cup Feedback(r) \cup {"audit"}
        /\ action[r] \in Actions /\ rows[i].status = StatusOf[action[r]]
    BY <2>1, ApprovalsAssumption DEF Standing, Told
  <2> QED
    BY <2>1, <2>2, <2>3, Statuses DEF Observations, Feedback
<1> QED
  BY <1>1, <1>2

\* Without a race a finding waits at most once and is decided once, whatever
\* the number of analysts and heads and whatever fails.
THEOREM OneStory == Spec => []OneStoryUnlessRaced
<1>1. ApprovalsInv => OnePendingUnlessRaced
  <2> SUFFICES ASSUME ApprovalsInv, ~sendRace PROVE Cardinality(Pending) <= 1
    BY DEF OnePendingUnlessRaced
  <2>1. \A i, k \in Pending : i = k
    BY DEF ApprovalsInv, UnracedSend
  <2>2. CASE Pending = {}
    BY <2>2, FS_EmptySet
  <2>3. ASSUME NEW i \in Pending PROVE Cardinality(Pending) = 1
    BY <2>1, Pending = {i}, FS_Singleton
  <2> QED
    BY <2>2, <2>3
<1>2. ApprovalsInv => OneStoryUnlessRaced
  BY <1>1, UnracedRowsDecidedOnce DEF OneStoryUnlessRaced
<1> QED
  BY <1>2, ApprovalsInvariance, PTL

-----------------------------------------------------------------------------
(* The narrative of a finding.                                             *)

Agents == {"investigation", "narrative-drafter"}

NarrativeTypes ==
  /\ drafted \subseteq Agents
  /\ clock \in Nat
  /\ saving \in [Saves -> {"idle", "read", "done", "failed"}]
  /\ DOMAIN base = Saves /\ DOMAIN started = Saves
  /\ \A s \in Saves : saving[s] # "idle" => started[s] \in 1..clock
  /\ page \in [Heads -> {"closed", "open", "resolved", "decided"}]
  /\ DOMAIN shown = Heads /\ DOMAIN resolved = Heads

\* A draft is what its save read, in the order in which the saves began.
DraftsComeFromSaves ==
  /\ \A d \in drafts :
       /\ d.after \in Saves /\ saving[d.after] = "done"
       /\ d.at = started[d.after] /\ d.before = base[d.after]
  /\ \A s, q \in Saves :
       saving[s] # "idle" /\ saving[q] # "idle" /\ started[s] = started[q] => s = q

\* The text of the newest of some drafts.
TextOf(some) ==
  IF some = {} THEN "" ELSE (CHOOSE e \in some : \A f \in some : f.at <= e.at).after

\* The text of the newest draft begun before t.
TextBefore(t) == TextOf({e \in drafts : e.at < t})

\* A save that overlapped none has read all that was begun before it.
ReadsWhatCameBefore ==
  \A s \in Saves \ overlapped : saving[s] \in {"read", "done"} =>
    /\ base[s] = TextBefore(started[s])
    /\ \A q \in Saves : saving[q] = "read" => started[s] <= started[q]

HistoryInv == NarrativeTypes /\ DraftsComeFromSaves /\ ReadsWhatCameBefore

\* An open page shows the narrative, and a decision under way found what its page
\* shows, unless the narrative changed or the page shows the investigation's.
PagesShowNarrative ==
  /\ \A h \in Heads \ changed :
       /\ page[h] = "open" => shown[h] = CurrentNarrative
       /\ page[h] = "resolved" => resolved[h] = shown[h] \/ shown[h] = "investigation"
  /\ observed # {} => ~pending
  /\ \A o \in observed : o.by \in Heads

PagesInv == NarrativeTypes /\ PagesShowNarrative /\ ApprovedAsShown

\* The types hold in every state.
LEMMA NarrativesTyped ==
  /\ NarrativesInit => NarrativeTypes
  /\ NarrativeTypes /\ [NarrativesNext]_narratives => NarrativeTypes'
<1>1. NarrativesInit => NarrativeTypes
  <2> SUFFICES ASSUME NarrativesInit PROVE NarrativeTypes
    OBVIOUS
  <2>1. drafted = {} /\ clock = 0 /\ \A s \in Saves : saving[s] = "idle"
    BY DEF NarrativesInit
  <2>2. /\ saving \in [Saves -> {"idle"}] /\ page \in [Heads -> {"closed"}]
        /\ DOMAIN base = Saves /\ DOMAIN started = Saves
        /\ DOMAIN shown = Heads /\ DOMAIN resolved = Heads
    BY DEF NarrativesInit
  <2> QED
    BY <2>1, <2>2 DEF NarrativeTypes
<1>2. NarrativeTypes /\ [NarrativesNext]_narratives => NarrativeTypes'
  <2> SUFFICES ASSUME NarrativeTypes, [NarrativesNext]_narratives PROVE NarrativeTypes'
    OBVIOUS
  <2> USE DEF NarrativeTypes
  <2>1. ASSUME NEW agent \in Agents, Drafts(agent) PROVE NarrativeTypes'
    BY <2>1 DEF Drafts, analysts, heads
  <2>2. ASSUME NEW s \in Saves, SaveRead(s) PROVE NarrativeTypes'
    BY <2>2 DEF SaveRead, heads
  <2>3. ASSUME NEW s \in Saves, SaveCommit(s) \/ SaveFails(s) PROVE NarrativeTypes'
    BY <2>3 DEF SaveCommit, SaveFails, heads
  <2>4. ASSUME NEW h \in Heads, ShowDetail(h) \/ ResolveNarrative(h) PROVE NarrativeTypes'
    BY <2>4 DEF ShowDetail, ResolveNarrative, analysts
  <2>5. ASSUME NEW h \in Heads, Approve(h) \/ ApproveWithEdits(h) PROVE NarrativeTypes'
    BY <2>5 DEF Approve, ApproveWithEdits, Decide, analysts
  <2>6. ASSUME NEW h \in Heads, SendBack(h) PROVE NarrativeTypes'
    BY <2>6 DEF SendBack, analysts
  <2>7. CASE SendAgain
    BY <2>7 DEF SendAgain, analysts
  <2>8. CASE UNCHANGED narratives
    BY <2>8 DEF narratives
  <2> QED
    BY <2>1, <2>2, <2>3, <2>4, <2>5, <2>6, <2>7, <2>8 DEF NarrativesNext, Agents
<1> QED
  BY <1>1, <1>2

\* What a step of an analyst, an agent or a head does to the drafts.
LEMMA HistoryStep ==
  HistoryInv /\ [NarrativesNext]_narratives => HistoryInv'
<1> SUFFICES ASSUME HistoryInv, [NarrativesNext]_narratives PROVE HistoryInv'
  OBVIOUS
<1>0. NarrativeTypes /\ NarrativeTypes' /\ DraftsComeFromSaves /\ ReadsWhatCameBefore
  BY NarrativesTyped DEF HistoryInv
<1>1. ASSUME NEW s \in Saves, SaveRead(s) PROVE HistoryInv'
  <2>1. /\ saving[s] = "idle" /\ clock' = clock + 1
        /\ started' = [started EXCEPT ![s] = clock + 1]
        /\ base' = [base EXCEPT ![s] = BaseText]
        /\ saving' = [saving EXCEPT ![s] = "read"]
        /\ overlapped' = IF \E q \in Saves : saving[q] = "read"
                         THEN overlapped \cup {s} ELSE overlapped
        /\ drafts' = drafts
    BY <1>1 DEF SaveRead
  <2>2. \A d \in drafts : d.at \in 1..clock /\ d.after # s
    BY <1>0, <2>1 DEF NarrativeTypes, DraftsComeFromSaves
  <2>3. DraftsComeFromSaves'
    BY <1>0, <2>1, <2>2 DEF NarrativeTypes, DraftsComeFromSaves
  <2>4. BaseText = TextBefore(clock + 1)
    <3>1. {e \in drafts : e.at < clock + 1} = drafts
      BY <1>0, <2>2 DEF NarrativeTypes
    <3>2. BaseText = TextOf(drafts)
      BY DEF BaseText, LatestText, NewestDraft, TextOf
    <3> QED
      BY <3>1, <3>2 DEF TextBefore
  <2>6. ReadsWhatCameBefore'
    <3> SUFFICES ASSUME NEW q \in Saves, q \notin overlapped', saving'[q] \in {"read", "done"}
                 PROVE  /\ base'[q] = TextBefore(started'[q])
                        /\ \A p \in Saves : saving'[p] = "read" => started'[q] <= started'[p]
      BY <2>1 DEF ReadsWhatCameBefore, TextBefore
    <3>1. CASE q = s
      BY <1>0, <2>1, <2>4, <3>1 DEF NarrativeTypes
    <3>2. CASE q # s
      BY <1>0, <2>1, <3>2 DEF NarrativeTypes, ReadsWhatCameBefore
    <3> QED
      BY <3>1, <3>2
  <2> QED
    BY <1>0, <2>3, <2>6 DEF HistoryInv
<1>2. ASSUME NEW s \in Saves, SaveCommit(s) PROVE HistoryInv'
  <2> DEFINE new == [at |-> started[s], before |-> base[s], after |-> s]
  <2>1. /\ saving[s] = "read" /\ drafts' = drafts \cup {new}
        /\ saving' = [saving EXCEPT ![s] = "done"]
        /\ UNCHANGED <<clock, base, started, overlapped>>
    BY <1>2 DEF SaveCommit
  <2>2. DraftsComeFromSaves'
    BY <1>0, <2>1 DEF NarrativeTypes, DraftsComeFromSaves
  <2>3. ReadsWhatCameBefore'
    <3> SUFFICES ASSUME NEW q \in Saves, q \notin overlapped, saving'[q] \in {"read", "done"}
                 PROVE  /\ base[q] = TextBefore(started[q])'
                        /\ \A p \in Saves : saving'[p] = "read" => started[q] <= started[p]
      BY <2>1 DEF ReadsWhatCameBefore
    <3>1. saving[q] \in {"read", "done"}
      BY <1>0, <2>1 DEF NarrativeTypes
    <3>2. started[q] <= started[s] /\ started[q] \in Nat /\ started[s] \in Nat
      BY <1>0, <2>1, <3>1 DEF NarrativeTypes, ReadsWhatCameBefore
    <3>3. {e \in drafts' : e.at < started[q]} = {e \in drafts : e.at < started[q]}
      BY <2>1, <3>2
    <3>4. TextBefore(started[q])' = TextBefore(started[q])
      BY <2>1, <3>3 DEF TextBefore
    <3> QED
      BY <1>0, <2>1, <3>1, <3>4 DEF NarrativeTypes, ReadsWhatCameBefore
  <2> QED
    BY <1>0, <2>2, <2>3 DEF HistoryInv
<1>3. ASSUME NEW s \in Saves, SaveFails(s) PROVE HistoryInv'
  <2>1. /\ saving[s] = "read" /\ saving' = [saving EXCEPT ![s] = "failed"]
        /\ UNCHANGED <<drafts, clock, base, started, overlapped>>
    BY <1>3 DEF SaveFails
  <2>2. DraftsComeFromSaves' /\ ReadsWhatCameBefore'
    BY <1>0, <2>1 DEF NarrativeTypes, DraftsComeFromSaves, ReadsWhatCameBefore, TextBefore
  <2> QED
    BY <1>0, <2>2 DEF HistoryInv
<1>4. CASE UNCHANGED analysts
  <2>1. UNCHANGED <<drafts, clock, saving, base, started, overlapped>>
    BY <1>4 DEF analysts
  <2>2. DraftsComeFromSaves' /\ ReadsWhatCameBefore'
    BY <1>0, <2>1 DEF DraftsComeFromSaves, ReadsWhatCameBefore, TextBefore
  <2> QED
    BY <1>0, <2>2 DEF HistoryInv
<1>5. \/ \E s \in Saves : SaveRead(s) \/ SaveCommit(s) \/ SaveFails(s)
      \/ UNCHANGED analysts
  BY DEF NarrativesNext, narratives, analysts, Drafts, ShowDetail, ResolveNarrative, Approve,
         ApproveWithEdits, Decide, SendBack, SendAgain
<1> QED
  BY <1>1, <1>2, <1>3, <1>4, <1>5

\* The page and the decision read the narrative alike, but for the
\* investigation agent's, which only the page looks at.
LEMMA ResolvedAsShown ==
  drafted \subseteq Agents =>
    ResolvedNarrative = CurrentNarrative \/ CurrentNarrative = "investigation"
BY DEF Agents, ResolvedNarrative, CurrentNarrative, AgentDraft

\* A change of the narrative makes every page on a screen stale.
LEMMA ChangeStep ==
  ASSUME PagesInv, NarrativeTypes', NowStale, UNCHANGED heads
  PROVE  PagesInv'
<1>1. /\ changed' = changed \cup {h \in Heads : page[h] \in {"open", "resolved"}}
      /\ UNCHANGED <<pending, page, shown, resolved, observed>>
  BY DEF NowStale, OnScreen, heads
<1> QED
  BY <1>1 DEF PagesInv, PagesShowNarrative, ApprovedAsShown

\* What a step does to the pages and to what was approved from them.
LEMMA PagesStep == PagesInv /\ [NarrativesNext]_narratives => PagesInv'
<1> SUFFICES ASSUME PagesInv, [NarrativesNext]_narratives PROVE PagesInv'
  OBVIOUS
<1>0. NarrativeTypes /\ NarrativeTypes' /\ PagesShowNarrative /\ ApprovedAsShown
  BY NarrativesTyped DEF PagesInv
<1>a. UNCHANGED <<drafts, drafted>> => CurrentNarrative' = CurrentNarrative
  BY DEF CurrentNarrative, LatestText, NewestDraft, AgentDraft
<1>1. ASSUME NEW agent \in Agents, Drafts(agent) PROVE PagesInv'
  BY <1>0, <1>1, ChangeStep DEF Drafts
<1>2. ASSUME NEW s \in Saves, SaveCommit(s) PROVE PagesInv'
  BY <1>0, <1>2, ChangeStep DEF SaveCommit
<1>3. ASSUME NEW s \in Saves, SaveRead(s) \/ SaveFails(s) PROVE PagesInv'
  <2>1. UNCHANGED <<drafts, drafted, pending, page, shown, resolved, observed, changed>>
    BY <1>3 DEF SaveRead, SaveFails, heads
  <2> QED
    BY <1>0, <1>a, <2>1 DEF PagesInv, PagesShowNarrative, ApprovedAsShown
<1>4. ASSUME NEW h \in Heads, ShowDetail(h) PROVE PagesInv'
  <2>1. /\ pending /\ observed = {} /\ observed' = {} /\ pending' = pending
        /\ shown' = [shown EXCEPT ![h] = CurrentNarrative]
        /\ page' = [page EXCEPT ![h] = "open"] /\ changed' = changed \ {h}
        /\ resolved' = resolved /\ UNCHANGED <<drafts, drafted>>
    BY <1>0, <1>4 DEF ShowDetail, PagesShowNarrative, analysts
  <2>2. PagesShowNarrative'
    BY <1>0, <1>a, <2>1 DEF PagesShowNarrative, NarrativeTypes
  <2> QED
    BY <1>0, <2>1, <2>2 DEF PagesInv, ApprovedAsShown
<1>5. ASSUME NEW h \in Heads, ResolveNarrative(h) PROVE PagesInv'
  <2>1. /\ page[h] = "open" /\ page' = [page EXCEPT ![h] = "resolved"]
        /\ resolved' = [resolved EXCEPT ![h] = ResolvedNarrative]
        /\ UNCHANGED <<pending, shown, observed, changed, drafts, drafted>>
    BY <1>5 DEF ResolveNarrative, analysts
  <2>2. ResolvedNarrative = CurrentNarrative \/ CurrentNarrative = "investigation"
    BY <1>0, ResolvedAsShown DEF NarrativeTypes
  <2>3. PagesShowNarrative'
    BY <1>0, <1>a, <2>1, <2>2 DEF PagesShowNarrative, NarrativeTypes
  <2> QED
    BY <1>0, <2>1, <2>3 DEF PagesInv, ApprovedAsShown
<1>6. ASSUME NEW h \in Heads, Approve(h) \/ ApproveWithEdits(h) PROVE PagesInv'
  <2>1. /\ page[h] = "resolved" /\ pending /\ observed = {} /\ ~pending'
        /\ page' = [page EXCEPT ![h] = "decided"]
        /\ UNCHANGED <<shown, resolved, changed, drafts, drafted>>
    BY <1>0, <1>6 DEF Approve, ApproveWithEdits, Decide, PagesShowNarrative, analysts
  <2>a. \A o : {} \cup {o} = {o}
    OBVIOUS
  <2>2. \E o : observed' = {o} /\ o.by = h /\ o.before = resolved[h]
    <3>1. CASE Approve(h)
      <4> DEFINE kept == [by |-> h, narrative |-> resolved[h], before |-> resolved[h]]
      <4>1. observed' = {kept}
        BY <3>1, <2>1, <2>a DEF Approve
      <4>2. kept.by = h /\ kept.before = resolved[h]
        OBVIOUS
      <4> HIDE DEF kept
      <4> QED
        BY <4>1, <4>2
    <3>2. CASE ApproveWithEdits(h)
      <4> DEFINE kept == [by |-> h, narrative |-> "edited", before |-> resolved[h]]
      <4>1. observed' = {kept}
        BY <3>2, <2>1, <2>a DEF ApproveWithEdits
      <4>2. kept.by = h /\ kept.before = resolved[h]
        OBVIOUS
      <4> HIDE DEF kept
      <4> QED
        BY <4>1, <4>2
    <3> QED
      BY <1>6, <3>1, <3>2
  <2>b. PICK o : observed' = {o} /\ o.by = h /\ o.before = resolved[h]
    BY <2>2
  <2>3. PagesShowNarrative'
    BY <1>0, <1>a, <2>1, <2>b DEF PagesShowNarrative, NarrativeTypes
  <2>4. ApprovedAsShown'
    BY <1>0, <2>1, <2>b DEF PagesShowNarrative, ApprovedAsShown
  <2> QED
    BY <1>0, <2>3, <2>4 DEF PagesInv
<1>7. ASSUME NEW h \in Heads, SendBack(h) PROVE PagesInv'
  <2>1. /\ pending /\ observed = {} /\ observed' = {} /\ page' = [p \in Heads |-> "closed"]
        /\ ~pending' /\ UNCHANGED <<shown, resolved, changed, drafts, drafted>>
    BY <1>0, <1>7 DEF SendBack, PagesShowNarrative, analysts
  <2> QED
    BY <1>0, <2>1 DEF PagesInv, PagesShowNarrative, ApprovedAsShown
<1>8. CASE SendAgain
  <2>1. observed = {} /\ observed' = {} /\ pending'
        /\ UNCHANGED <<page, shown, resolved, changed, drafts, drafted>>
    BY <1>8 DEF SendAgain, analysts
  <2> QED
    BY <1>0, <1>a, <2>1 DEF PagesInv, PagesShowNarrative, ApprovedAsShown
<1>9. CASE UNCHANGED narratives
  <2>1. UNCHANGED <<drafts, drafted, pending, page, shown, resolved, observed, changed>>
    BY <1>9 DEF narratives
  <2> QED
    BY <1>0, <1>a, <2>1 DEF PagesInv, PagesShowNarrative, ApprovedAsShown
<1> QED
  BY <1>1, <1>2, <1>3, <1>4, <1>5, <1>6, <1>7, <1>8, <1>9 DEF NarrativesNext, Agents

\* Nobody's text is approved, edited or replaced under another's name: the
\* drafts are one history, and what is approved is what the page showed, but for
\* the two exceptions that the property names.
THEOREM NarrativesTrue == NarrativesSpec => []NarrativesKeepTheirWord
<1>1. NarrativesInit => HistoryInv /\ PagesInv
  <2> SUFFICES ASSUME NarrativesInit PROVE HistoryInv /\ PagesInv
    OBVIOUS
  <2>1. /\ drafts = {} /\ observed = {} /\ \A s \in Saves : saving[s] = "idle"
        /\ \A h \in Heads : page[h] = "closed"
    BY DEF NarrativesInit
  <2> QED
    BY <2>1, NarrativesTyped
       DEF HistoryInv, DraftsComeFromSaves, ReadsWhatCameBefore, PagesInv,
           PagesShowNarrative, ApprovedAsShown
<1>2. HistoryInv /\ PagesInv => NarrativesKeepTheirWord
  <2> SUFFICES ASSUME HistoryInv, NEW d \in drafts,
                      d.after \notin overlapped
               PROVE  d.before = TextOf({e \in drafts : e.at < d.at})
    BY DEF NarrativesKeepTheirWord, DraftsAreOneHistory, PagesInv, TextOf
  <2> QED
    BY DEF HistoryInv, DraftsComeFromSaves, ReadsWhatCameBefore, TextBefore
<1> QED
  BY <1>1, <1>2, HistoryStep, PagesStep, PTL DEF NarrativesSpec
=============================================================================
