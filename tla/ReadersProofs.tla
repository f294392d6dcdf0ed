----------------------------- MODULE ReadersProofs -----------------------------
(***************************************************************************)
(* Proofs about what clients of the API read and change.  ComplaintStatus, *)
(* for any set of clients and any number of lost answers: as long as no    *)
(* two handlers have both passed their checks, the handler that has passed *)
(* them has read the row as it still is; so a write makes a version nobody *)
(* has seen, and an If-Match that names the current version stands for the *)
(* current row.  That is Serialised.  PagedReads, for any table, walkers   *)
(* and page size: what lies behind a walk's cursor has been shown, once.   *)
(* Dashboards, for any complaints, limits and windows: a table is counted  *)
(* again when it has no fewer rows, an approval that left the queue's list *)
(* is among the day's decisions, and the counts of a table's rows by any   *)
(* key sum to the number of its rows.                                      *)
(*                                                                         *)
(* What a process shares among its requests and its streams comes last.    *)
(* ConnectionPool, for every size of the pool: a request has two           *)
(* connections only while its claim's session is open, and a stalled       *)
(* process has no such request, so that each connection has a user of its  *)
(* own.  SSEBus, for any viewers and facts and any sizes of the ring and   *)
(* the queues: a stream sends what is newer than all it has sent; what its *)
(* client may still count it has not counted; and a client that has lost   *)
(* nothing has counted, or will be sent, all there is.                     *)
(***************************************************************************)
EXTENDS ComplaintStatus, PagedReads, Dashboards, ConnectionPool, SSEBus, PeerRiskProofs

\* Every retry, and so every second write of a client, costs a fault.
WritesBounded ==
  \A c \in Clients :
    writes[c] <= IF pc[c] \in {"committed", "done"} THEN faults + 1 ELSE faults

\* The handler that has passed its checks is alone, and the row is as it read it.
OneHandler ==
  \A c \in Clients : Checked(c) =>
    /\ \A d \in Clients : Checked(d) => d = c
    /\ read[c].status = status /\ read[c].version = version
    /\ seen[c].version = version
    /\ status = "pendiente"

\* A version that clients have seen stands for one status.
VersionNamesRow ==
  \A c \in Clients : pc[c] # "idle" =>
    /\ seen[c].version <= version
    /\ seen[c].version = version => seen[c].status = status

\* A client has written at most once, and its If-Match is spent when it has.
WrittenOnce ==
  \A c \in Clients :
    /\ writes[c] \in {0, 1}
    /\ pc[c] = "idle" => writes[c] = 0
    /\ pc[c] = "committed" \/ answer[c] = "ok" => writes[c] = 1
    /\ writes[c] = 1 => seen[c].version < version

\* What holds until two handlers have raced.
Serialised == OneHandler /\ VersionNamesRow /\ WrittenOnce

\* The inductive invariant.
IInv == TypeOK /\ WritesBounded /\ (~raced => Serialised)

USE StatusAssumption DEF Statuses, Terminal, Checked, row, client

\* The initial state satisfies the inductive invariant.
LEMMA InitIInv == Init => IInv
<1> SUFFICES ASSUME Init PROVE IInv
  OBVIOUS
<1>1. NoRow \in [status : Statuses, version : Nat]
  BY DEF NoRow
<1>2. TypeOK
  <2>1. 0 \in 0..(MaxFaults + 1) /\ 0 \in 0..MaxFaults /\ 1 \in Nat
    OBVIOUS
  <2>2. writes \in [Clients -> 0..(MaxFaults + 1)] /\ faults \in 0..MaxFaults
    BY <2>1 DEF Init
  <2>3. /\ seen \in [Clients -> [status : Statuses, version : Nat]]
        /\ read \in [Clients -> [status : Statuses, version : Nat]]
    BY <1>1 DEF Init
  <2>4. /\ pc \in [Clients -> {"idle", "ready", "checked", "flushed", "committed", "done"}]
        /\ want \in [Clients -> Statuses]
        /\ answer \in [Clients -> {"none", "ok", "mismatch", "forbidden"}]
    BY DEF Init
  <2> QED
    BY <2>1, <2>2, <2>3, <2>4 DEF Init, TypeOK
<1>3. WritesBounded
  <2> SUFFICES ASSUME NEW c \in Clients
               PROVE  writes[c] <= IF pc[c] \in {"committed", "done"} THEN faults + 1 ELSE faults
    BY DEF WritesBounded
  <2>1. writes[c] = 0 /\ pc[c] = "idle" /\ faults = 0
    BY DEF Init
  <2> QED
    BY <2>1
<1>4. Serialised
  BY DEF Init, Serialised, OneHandler, VersionNamesRow, WrittenOnce
<1> QED
  BY <1>2, <1>3, <1>4 DEF IInv

\* What a client or a handler reads is a row.
LEMMA RowRead ==
  TypeOK => /\ Row \in [status : Statuses, version : Nat]
            /\ Row.status = status /\ Row.version = version
  BY DEF TypeOK, Row

\* Every step keeps the types and the bound on writes.
LEMMA StepTypes == IInv /\ [Next]_vars => TypeOK' /\ WritesBounded'
<1> SUFFICES ASSUME TypeOK, WritesBounded, [Next]_vars PROVE TypeOK' /\ WritesBounded'
  BY DEF IInv
<1> USE DEF TypeOK, WritesBounded, GoTo
<1>1. ASSUME NEW c \in Clients, Get(c) PROVE TypeOK' /\ WritesBounded'
  <2>1. seen' \in [Clients -> [status : Statuses, version : Nat]]
    BY <1>1, RowRead DEF Get
  <2>2. want' \in [Clients -> Statuses]
    BY <1>1 DEF Get, Requestable
  <2> QED
    BY <1>1, <2>1, <2>2 DEF Get
<1>2. ASSUME NEW c \in Clients, Check(c) PROVE TypeOK' /\ WritesBounded'
  <2>1. read' \in [Clients -> [status : Statuses, version : Nat]]
    BY <1>2, RowRead DEF Check
  <2>2. pc' \in [Clients -> {"idle", "ready", "checked", "flushed", "committed", "done"}]
    BY <1>2 DEF Check
  <2>3. answer' \in [Clients -> {"none", "ok", "mismatch", "forbidden"}]
    BY <1>2 DEF Check
  <2>4. raced' \in BOOLEAN
    BY <1>2 DEF Check
  <2>5. UNCHANGED <<row, client, writes, faults>>
    BY <1>2 DEF Check
  <2>6. WritesBounded'
    <3> SUFFICES ASSUME NEW d \in Clients
                 PROVE  writes[d] <= IF pc'[d] \in {"committed", "done"}
                                     THEN faults + 1 ELSE faults
      BY <2>5
    <3>1. CASE d = c
      BY <1>2, <3>1 DEF Check
    <3>2. CASE d # c
      BY <1>2, <3>2 DEF Check
    <3> QED
      BY <3>1, <3>2
  <2> QED
    BY <2>1, <2>2, <2>3, <2>4, <2>5, <2>6
<1>3. ASSUME NEW c \in Clients, Flush(c) PROVE TypeOK' /\ WritesBounded'
  BY <1>3 DEF Flush
<1>4. ASSUME NEW c \in Clients, Commit(c) PROVE TypeOK' /\ WritesBounded'
  BY <1>4 DEF Commit, NextVersion
<1>5. ASSUME NEW c \in Clients, Reply(c) PROVE TypeOK' /\ WritesBounded'
  BY <1>5 DEF Reply
<1>6. ASSUME NEW c \in Clients, Retry(c) PROVE TypeOK' /\ WritesBounded'
  BY <1>6 DEF Retry
<1>7. CASE UNCHANGED vars
  BY <1>7 DEF vars
<1> QED
  BY <1>1, <1>2, <1>3, <1>4, <1>5, <1>6, <1>7 DEF Next, Terminated

\* Every step keeps the handlers serialised until it makes two of them race.
LEMMA StepSerialised ==
  TypeOK /\ (~raced => Serialised) /\ [Next]_vars => (~raced => Serialised)'
<1> SUFFICES ASSUME TypeOK, ~raced => Serialised, [Next]_vars, ~raced'
             PROVE  Serialised'
  OBVIOUS
<1>0. ~raced /\ Serialised
  <2>1. ~raced
    BY DEF Next, Get, Check, Flush, Commit, Reply, Retry, Terminated, vars, TypeOK
  <2> QED
    BY <2>1
<1> USE <1>0 DEF TypeOK, Serialised, OneHandler, VersionNamesRow, WrittenOnce, GoTo
<1>1. ASSUME NEW c \in Clients, Get(c) PROVE Serialised'
  BY <1>1 DEF Get, Row
<1>2. ASSUME NEW c \in Clients, Check(c) PROVE Serialised'
  <2>1. CASE TagMatches(c) /\ Allowed(status, want[c])
    <3>1. /\ read' = [read EXCEPT ![c] = Row]
          /\ pc' = [pc EXCEPT ![c] = "checked"]
          /\ \A d \in Clients : Checked(d) => d = c
      BY <1>2, <2>1 DEF Check
    <3>2. /\ read'[c].status = status /\ read'[c].version = version
          /\ seen[c].version = version /\ status = "pendiente"
      BY <2>1, <3>1, RowRead DEF TagMatches, Allowed
    <3>3. OneHandler'
      BY <1>2, <3>1, <3>2 DEF Check
    <3>4. VersionNamesRow' /\ WrittenOnce'
      BY <1>2, <2>1 DEF Check
    <3> QED
      BY <3>3, <3>4
  <2>2. CASE ~(TagMatches(c) /\ Allowed(status, want[c]))
    BY <1>2, <2>2 DEF Check
  <2> QED
    BY <2>1, <2>2
<1>3. ASSUME NEW c \in Clients, Flush(c) PROVE Serialised'
  BY <1>3 DEF Flush
<1>4. ASSUME NEW c \in Clients, Commit(c) PROVE Serialised'
  <2>1. version' = version + 1 /\ writes[c] = 0
    BY <1>4 DEF Commit, NextVersion
  <2>2. OneHandler'
    BY <1>4 DEF Commit
  <2>3. VersionNamesRow'
    BY <1>4, <2>1 DEF Commit
  <2>4. WrittenOnce'
    BY <1>4, <2>1 DEF Commit
  <2> QED
    BY <2>2, <2>3, <2>4
<1>5. ASSUME NEW c \in Clients, Reply(c) PROVE Serialised'
  BY <1>5 DEF Reply
<1>6. ASSUME NEW c \in Clients, Retry(c) PROVE Serialised'
  BY <1>6 DEF Retry
<1>7. CASE UNCHANGED vars
  BY <1>7 DEF vars
<1> QED
  BY <1>1, <1>2, <1>3, <1>4, <1>5, <1>6, <1>7 DEF Next, Terminated

\* Every reachable state satisfies the inductive invariant.
THEOREM StatusInvariance == Spec => []IInv
<1>1. IInv /\ [Next]_vars => IInv'
  BY StepTypes, StepSerialised DEF IInv
<1> QED
  BY InitIInv, <1>1, PTL DEF Spec

-----------------------------------------------------------------------------

\* Type correctness of the complaint, its clients and the handlers.
THEOREM StatusTypeCorrect == Spec => []TypeOK
<1>1. IInv => TypeOK
  BY DEF IInv
<1> QED
  BY <1>1, StatusInvariance, PTL

\* A PATCH that is sent again after a lost answer is not made twice, unless two
\* handlers raced: its If-Match is spent.
THEOREM AppliedOnce == Spec => []AppliedOnceUnlessRaced
<1>1. IInv => AppliedOnceUnlessRaced
  BY DEF IInv, AppliedOnceUnlessRaced, Serialised, WrittenOnce
<1> QED
  BY <1>1, StatusInvariance, PTL

\* The step of NoBlindWriteUnlessRaced.
BlindWrite ==
  \A c \in Clients : writes'[c] # writes[c] => raced \/ Row = seen[c]

\* A client writes only over the row it has seen, unless two handlers raced.
THEOREM NoBlindWrite == Spec => NoBlindWriteUnlessRaced
<1>1. IInv /\ [Next]_vars => [BlindWrite]_vars
  <2> SUFFICES ASSUME IInv, Next, NEW c \in Clients, writes'[c] # writes[c], ~raced
               PROVE  Row = seen[c]
    BY DEF BlindWrite
  <2>1. PICK d \in Clients : Commit(d)
    BY DEF Next, Get, Check, Flush, Reply, Retry, Terminated, vars
  <2>2. d = c
    BY <2>1 DEF Commit, IInv, TypeOK
  <2>3. seen[c].version = version /\ seen[c].status = status
    BY <2>1, <2>2 DEF Commit, IInv, Serialised, OneHandler, VersionNamesRow
  <2>4. seen[c] \in [status : Statuses, version : Nat]
    BY DEF IInv, TypeOK
  <2> QED
    BY <2>3, <2>4 DEF Row
<1> QED
  BY <1>1, StatusInvariance, PTL DEF Spec, NoBlindWriteUnlessRaced, BlindWrite

\* The step of TerminalKeptUnlessRaced.
TerminalStep == ~raced /\ status \in Terminal => status' = status

\* A terminal status is kept, unless two handlers raced.
THEOREM TerminalKept == Spec => TerminalKeptUnlessRaced
<1>1. IInv /\ [Next]_vars => [TerminalStep]_vars
  <2> SUFFICES ASSUME IInv, Next, ~raced, status \in Terminal PROVE status' = status
    BY DEF TerminalStep
  <2>1. \A c \in Clients : ~Commit(c)
    BY DEF Commit, IInv, Serialised, OneHandler
  <2> QED
    BY <2>1 DEF Next, Get, Check, Flush, Reply, Retry, Terminated, vars
<1> QED
  BY <1>1, StatusInvariance, PTL DEF Spec, TerminalKeptUnlessRaced, TerminalStep

\* Both.
THEOREM SafeWrites == Spec => WritesAreSafe
  BY NoBlindWrite, TerminalKept DEF WritesAreSafe

-----------------------------------------------------------------------------
(* PagedReads: a walk.  What lies behind its cursor has been shown.        *)

Shown(w, r) == \E i \in DOMAIN got[w] : r \in got[w][i]

\* The rows that a walk with this cursor has still to ask for.
Ahead(w, r) == from[w] # NoCursor => Past(w, from[w].row, r)

WalkTypes ==
  /\ present \subseteq Rows /\ DOMAIN walk = Walkers /\ DOMAIN from = Walkers
  /\ \A w \in Walkers : from[w].row \in Nat \X Nat
  /\ got \in [Walkers -> Seq(SUBSET Rows)]
  /\ shown_before \in [Walkers -> SUBSET Rows]

WalkLocal(w) ==
  /\ \A i, j \in DOMAIN got[w] : i # j => got[w][i] \intersect got[w][j] = {}
  /\ \A r \in Rows : Shown(w, r) => walk[w] = "done" \/ ~Ahead(w, r)
  /\ \A r \in shown_before[w] : r \in present /\ Matches(w, r, pending)
  /\ walk[w] = "idle" => from[w] = NoCursor
  /\ \A r \in shown_before[w] : ~Ahead(w, r) \/ walk[w] = "done" => Shown(w, r)

\* The inductive invariant of the walks.
WalkInv == WalkTypes /\ \A w \in Walkers : WalkLocal(w)

\* The order of a list is strict.
LEMMA ListOrder ==
  ASSUME NEW w, NEW a \in Nat \X Nat, NEW b \in Nat \X Nat, NEW c \in Nat \X Nat
  PROVE  /\ Precedes(w, a, b) /\ Precedes(w, b, c) => Precedes(w, a, c)
         /\ ~(Precedes(w, a, b) /\ Precedes(w, b, a)) /\ ~Precedes(w, a, a)
<1>1. a[1] \in Nat /\ a[2] \in Nat /\ b[1] \in Nat /\ b[2] \in Nat /\ c[1] \in Nat /\ c[2] \in Nat
  OBVIOUS
<1>2. CASE WalkOf[w].list = "rejections"
  BY <1>1, <1>2 DEF Precedes
<1>3. CASE WalkOf[w].list # "rejections"
  BY <1>1, <1>3 DEF Precedes
<1> QED
  BY <1>2, <1>3

\* A row more on the pages shown.
LEMMA ShownAfter ==
  ASSUME WalkTypes, NEW w \in Walkers, NEW sheet \in SUBSET Rows,
         got' = [got EXCEPT ![w] = Append(got[w], sheet)]
  PROVE  /\ got' \in [Walkers -> Seq(SUBSET Rows)]
         /\ \A r : Shown(w, r)' <=> Shown(w, r) \/ r \in sheet
         /\ \A v \in Walkers : v # w => got'[v] = got[v]
         /\ (\A i, j \in DOMAIN got[w] : i # j => got[w][i] \intersect got[w][j] = {})
              /\ (\A r \in sheet : ~Shown(w, r))
            => \A i, j \in DOMAIN got'[w] : i # j => got'[w][i] \intersect got'[w][j] = {}
<1>1. /\ got[w] \in Seq(SUBSET Rows) /\ got'[w] = Append(got[w], sheet)
      /\ \A v \in Walkers : v # w => got'[v] = got[v]
      /\ got' \in [Walkers -> Seq(SUBSET Rows)]
  BY DEF WalkTypes
<1>2. /\ DOMAIN got[w] = 1..Len(got[w]) /\ DOMAIN got'[w] = 1..(Len(got[w]) + 1) /\ Len(got[w]) \in Nat
      /\ \A i \in 1..Len(got[w]) : got'[w][i] = got[w][i]
      /\ got'[w][Len(got[w]) + 1] = sheet
  BY <1>1
<1>3. \A r : Shown(w, r)' <=> Shown(w, r) \/ r \in sheet
  BY <1>2 DEF Shown
<1>4. ASSUME \A i, j \in DOMAIN got[w] : i # j => got[w][i] \intersect got[w][j] = {},
             \A r \in sheet : ~Shown(w, r),
             NEW i \in DOMAIN got'[w], NEW j \in DOMAIN got'[w], i # j
      PROVE  got'[w][i] \intersect got'[w][j] = {}
  <2>1. \A k \in 1..Len(got[w]) : got[w][k] \intersect sheet = {}
    BY <1>2, <1>4 DEF Shown
  <2>2. CASE i # Len(got[w]) + 1 /\ j # Len(got[w]) + 1
    BY <1>2, <1>4, <2>2
  <2>3. CASE i = Len(got[w]) + 1
    <3>1. j \in 1..Len(got[w])
      BY <1>2, <1>4, <2>3
    <3> QED
      BY <1>2, <2>1, <2>3, <3>1
  <2>4. CASE j = Len(got[w]) + 1
    <3>1. i \in 1..Len(got[w])
      BY <1>2, <1>4, <2>4
    <3> QED
      BY <1>2, <2>1, <2>4, <3>1
  <2> QED
    BY <2>2, <2>3, <2>4
<1> QED
  BY <1>1, <1>3, <1>4

\* A page shows nothing again, and leaves nothing behind its cursor unshown.
LEMMA PageKeeps ==
  ASSUME WalkInv, NEW w \in Walkers, NEW p \in Workers, Page(w, p)
  PROVE  WalkInv'
<1>0. WalkTypes /\ \A v \in Walkers : WalkLocal(v)
  BY DEF WalkInv
<1>1. /\ present' = present /\ pending' = pending /\ shown_before' = shown_before
      /\ walk[w] = "asking" /\ held[p] # NoKey
  BY DEF Page, table
<1>2. PICK sheet \in FirstRows(w) :
        /\ got' = [got EXCEPT ![w] = Append(got[w], sheet)]
        /\ \/ /\ Cardinality(Found(w)) > PageSize
              /\ \E r \in sheet : /\ IsLast(w, sheet, r)
                                 /\ from' = [from EXCEPT ![w] = CursorAfter(r, p)]
              /\ walk' = walk
           \/ /\ Cardinality(Found(w)) <= PageSize
              /\ walk' = [walk EXCEPT ![w] = "done"] /\ from' = from
  BY DEF Page
<1>3. Cardinality(Found(w)) \in Nat /\ Found(w) \subseteq Rows
  <2>1. Found(w) \subseteq Rows
    BY <1>0 DEF Found, WalkTypes
  <2> QED
    BY <2>1, PagingAssumption, FS_Subset, FS_CardinalityType
<1>4. sheet \subseteq Found(w) /\ (Cardinality(Found(w)) <= PageSize => sheet = Found(w))
  BY <1>2, <1>3, PagingAssumption DEF FirstRows
<1>5. \A r \in sheet : r \in Rows /\ Ahead(w, r) /\ ~Shown(w, r)
  BY <1>0, <1>1, <1>3, <1>4 DEF Found, Ahead, WalkLocal
<1>6. /\ got' \in [Walkers -> Seq(SUBSET Rows)]
      /\ \A r : Shown(w, r)' <=> Shown(w, r) \/ r \in sheet
      /\ \A v \in Walkers : v # w => got'[v] = got[v]
      /\ \A i, j \in DOMAIN got'[w] : i # j => got'[w][i] \intersect got'[w][j] = {}
  <2>1. sheet \in SUBSET Rows /\ got' = [got EXCEPT ![w] = Append(got[w], sheet)]
    BY <1>2, <1>3, <1>4
  <2>2. /\ \A i, j \in DOMAIN got[w] : i # j => got[w][i] \intersect got[w][j] = {}
        /\ \A r \in sheet : ~Shown(w, r)
    BY <1>0, <1>5 DEF WalkLocal
  <2> QED
    BY <1>0, <2>1, <2>2, ShownAfter
<1>7. CASE Cardinality(Found(w)) > PageSize
  <2>1. PICK l \in sheet : /\ IsLast(w, sheet, l) /\ from' = [from EXCEPT ![w] = CursorAfter(l, p)]
                          /\ walk' = walk
    BY <1>2, <1>3, <1>7, PagingAssumption
  <2>2. l \in Nat \X Nat /\ l \in Rows
    BY <1>5, PagingAssumption
  <2>3. /\ from'[w] # NoCursor /\ from'[w].row = l
        /\ \A v \in Walkers : v # w => from'[v] = from[v]
    BY <1>0, <1>1, <2>1 DEF WalkTypes, CursorAfter, NoCursor
  <2>4. WalkTypes'
    BY <1>0, <1>1, <1>6, <2>1, <2>2, <2>3 DEF WalkTypes
  <2>5. \A r \in Rows : Ahead(w, r)' <=> Precedes(w, l, r)
    BY <2>3 DEF Ahead, Past
  <2>6. ASSUME NEW r \in Rows, Shown(w, r)' PROVE ~Ahead(w, r)'
    <3>1. r \in Nat \X Nat
      BY PagingAssumption
    <3>2. CASE r \in sheet
      BY <2>1, <2>2, <2>5, <3>1, <3>2, ListOrder DEF IsLast
    <3>3. CASE Shown(w, r)
      <4>1. from[w] # NoCursor /\ ~Precedes(w, from[w].row, r)
        BY <1>0, <1>1, <3>3 DEF WalkLocal, Ahead, Past
      <4>2. Precedes(w, from[w].row, l) /\ from[w].row \in Nat \X Nat
        BY <1>0, <1>5, <4>1 DEF Ahead, Past, WalkTypes
      <4> QED
        BY <2>2, <2>5, <3>1, <4>1, <4>2, ListOrder
    <3> QED
      BY <1>6, <2>6, <3>2, <3>3
  <2>7. ASSUME NEW r \in shown_before[w], ~Ahead(w, r)' PROVE Shown(w, r)'
    <3>1. r \in Rows /\ r \in present /\ Matches(w, r, pending)
      BY <1>0 DEF WalkLocal, WalkTypes
    <3>2. CASE ~Ahead(w, r)
      BY <1>0, <1>6, <3>2 DEF WalkLocal
    <3>3. CASE Ahead(w, r)
      <4>1. r \in Found(w)
        BY <3>1, <3>3 DEF Found, Ahead
      <4>2. \A q \in Found(w) \ sheet : Precedes(w, l, q)
        BY <1>2, <1>7, <2>1 DEF FirstRows
      <4> QED
        BY <1>6, <2>5, <2>7, <3>1, <4>1, <4>2
    <3> QED
      BY <3>2, <3>3
  <2>8. WalkLocal(w)'
    BY <1>0, <1>1, <1>6, <2>1, <2>6, <2>7 DEF WalkLocal, Matches
  <2>9. ASSUME NEW v \in Walkers, v # w PROVE WalkLocal(v)'
    BY <1>0, <1>1, <1>6, <2>1, <2>3, <2>9 DEF WalkLocal, Shown, Ahead, Matches
  <2> QED
    BY <2>4, <2>8, <2>9 DEF WalkInv
<1>8. CASE Cardinality(Found(w)) <= PageSize
  <2>1. sheet = Found(w) /\ walk' = [walk EXCEPT ![w] = "done"] /\ from' = from
    BY <1>2, <1>3, <1>4, <1>8, PagingAssumption
  <2>2. walk'[w] = "done" /\ \A v \in Walkers : v # w => walk'[v] = walk[v]
    BY <1>0, <2>1 DEF WalkTypes
  <2>3. WalkTypes'
    BY <1>0, <1>1, <1>6, <2>1 DEF WalkTypes
  <2>4. ASSUME NEW r \in shown_before[w] PROVE Shown(w, r)'
    <3>1. r \in Rows /\ r \in present /\ Matches(w, r, pending)
      BY <1>0 DEF WalkLocal, WalkTypes
    <3>2. CASE ~Ahead(w, r)
      BY <1>0, <1>6, <3>2 DEF WalkLocal
    <3>3. CASE Ahead(w, r)
      BY <1>6, <2>1, <3>1, <3>3 DEF Found, Ahead
    <3> QED
      BY <3>2, <3>3
  <2>5. WalkLocal(w)'
    BY <1>0, <1>1, <1>6, <2>1, <2>2, <2>4 DEF WalkLocal, Matches
  <2>6. ASSUME NEW v \in Walkers, v # w PROVE WalkLocal(v)'
    BY <1>0, <1>1, <1>6, <2>1, <2>2, <2>6 DEF WalkLocal, Shown, Ahead, Matches
  <2> QED
    BY <2>3, <2>5, <2>6 DEF WalkInv
<1> QED
  BY <1>2, <1>7, <1>8

\* Nobody has begun.
LEMMA WalksBegin == PagingInit => WalkInv
<1> SUFFICES ASSUME PagingInit PROVE WalkInv
  OBVIOUS
<1>1. WalkTypes
  BY DEF PagingInit, WalkTypes, NoCursor
<1>2. \A w \in Walkers : WalkLocal(w)
  BY DEF PagingInit, WalkLocal, Shown
<1> QED
  BY <1>1, <1>2 DEF WalkInv

\* Every step keeps the invariant of the walks.
LEMMA WalksStep == WalkInv /\ [PagingNext]_paging => WalkInv'
<1> SUFFICES ASSUME WalkInv, [PagingNext]_paging PROVE WalkInv'
  OBVIOUS
<1>0. WalkTypes /\ \A v \in Walkers : WalkLocal(v)
  BY DEF WalkInv
<1>1. ASSUME NEW r \in Rows, Arrives(r) PROVE WalkInv'
  <2>1. /\ present' = present \union {r} /\ pending' = pending /\ walk' = walk /\ from' = from
        /\ got' = got /\ shown_before' = shown_before
    BY <1>1 DEF Arrives, walks
  <2>2. WalkTypes'
    BY <1>0, <2>1 DEF WalkTypes
  <2>3. ASSUME NEW w \in Walkers PROVE WalkLocal(w)'
    BY <1>0, <2>1 DEF WalkLocal, Shown, Ahead, Matches
  <2> QED
    BY <2>2, <2>3 DEF WalkInv
<1>2. ASSUME NEW r \in Rows, Resolves(r) PROVE WalkInv'
  <2>1. /\ present' = present /\ walk' = walk /\ from' = from /\ got' = got
        /\ shown_before' = [w \in Walkers |-> {q \in shown_before[w] : Matches(w, q, pending')}]
    BY <1>2 DEF Resolves
  <2>2. WalkTypes'
    BY <1>0, <2>1 DEF WalkTypes
  <2>3. ASSUME NEW w \in Walkers PROVE WalkLocal(w)'
    <3>1. \A q \in shown_before'[w] : q \in shown_before[w] /\ Matches(w, q, pending')
      BY <2>1
    <3> QED
      BY <1>0, <2>1, <3>1 DEF WalkLocal, Shown, Ahead, Matches
  <2> QED
    BY <2>2, <2>3 DEF WalkInv
<1>3. ASSUME UNCHANGED <<table, walks>> PROVE WalkInv'
  <2>1. /\ present' = present /\ pending' = pending /\ walk' = walk /\ from' = from
        /\ got' = got /\ shown_before' = shown_before
    BY <1>3 DEF table, walks
  <2> QED
    BY <1>0, <2>1 DEF WalkInv, WalkTypes, WalkLocal, Shown, Ahead, Matches
<1>4. ASSUME NEW p \in Workers, LoadKey(p) \/ NoKeyFile(p) \/ OpenKeyFile(p) \/ WriteKey(p) \/ Restart(p)
      PROVE  WalkInv'
  BY <1>3, <1>4 DEF LoadKey, NoKeyFile, OpenKeyFile, WriteKey, Restart
<1>5. ASSUME NEW w \in Walkers, Begin(w) PROVE WalkInv'
  <2>1. /\ present' = present /\ pending' = pending /\ from' = from /\ got' = got
        /\ walk[w] = "idle" /\ walk' = [walk EXCEPT ![w] = "asking"]
        /\ shown_before' = [shown_before EXCEPT ![w] = {r \in present : Matches(w, r, pending)}]
    BY <1>5 DEF Begin, table
  <2>2. /\ walk'[w] = "asking" /\ shown_before'[w] = {r \in present : Matches(w, r, pending)}
        /\ \A v \in Walkers : v # w => walk'[v] = walk[v] /\ shown_before'[v] = shown_before[v]
    BY <1>0, <2>1 DEF WalkTypes
  <2>3. WalkTypes'
    BY <1>0, <2>1 DEF WalkTypes
  <2>4. WalkLocal(w)'
    BY <1>0, <2>1, <2>2 DEF WalkLocal, Shown, Ahead, Matches
  <2>5. ASSUME NEW v \in Walkers, v # w PROVE WalkLocal(v)'
    BY <1>0, <2>1, <2>2, <2>5 DEF WalkLocal, Shown, Ahead, Matches
  <2> QED
    BY <2>3, <2>4, <2>5 DEF WalkInv
<1>6. ASSUME NEW w \in Walkers, CutShort(w) \/ \E p \in Workers : CursorRefused(w, p)
      PROVE  WalkInv'
  <2>1. /\ present' = present /\ pending' = pending /\ from' = from /\ got' = got
        /\ shown_before' = shown_before /\ walk[w] = "asking"
        /\ \E l \in {"cut", "refused"} : walk' = [walk EXCEPT ![w] = l]
    BY <1>6 DEF CutShort, CursorRefused, table
  <2>2. /\ walk'[w] \in {"cut", "refused"}
        /\ \A v \in Walkers : v # w => walk'[v] = walk[v]
    BY <1>0, <2>1 DEF WalkTypes
  <2>3. WalkTypes'
    BY <1>0, <2>1 DEF WalkTypes
  <2>4. WalkLocal(w)'
    BY <1>0, <2>1, <2>2 DEF WalkLocal, Shown, Ahead, Matches
  <2>5. ASSUME NEW v \in Walkers, v # w PROVE WalkLocal(v)'
    BY <1>0, <2>1, <2>2, <2>5 DEF WalkLocal, Shown, Ahead, Matches
  <2> QED
    BY <2>3, <2>4, <2>5 DEF WalkInv
<1>7. CASE UNCHANGED paging
  BY <1>3, <1>7 DEF paging, table, walks
<1> QED
  BY <1>1, <1>2, <1>4, <1>5, <1>6, <1>7, PageKeeps DEF PagingNext

-----------------------------------------------------------------------------
(* PagedReads: the key.  If nobody meets a process that makes it, there is *)
(* one key, in the file, in memory and in every cursor.                    *)

KeyTypes ==
  /\ DOMAIN held = Workers /\ making \subseteq Workers /\ restarts \in 0..MaxRestarts
  /\ DOMAIN from = Walkers /\ DOMAIN walk = Walkers

OneKey ==
  /\ \A p, q \in making : p = q
  /\ making # {} => /\ \A p \in Workers : held[p] = NoKey
                    /\ \A w \in Walkers : from[w] = NoCursor
  /\ making = {} => file # Part
  /\ \A p \in Workers : held[p] # NoKey => held[p] = file
  /\ \A w \in Walkers : from[w] # NoCursor => from[w].key = file /\ file # NoKey

\* The inductive invariant of the key.
KeyInv == KeyTypes /\ CursorIsHonoured /\ (~key_raced => OneKey)

\* Every step keeps it.
LEMMA KeysStep == KeyInv /\ [PagingNext]_paging => KeyInv'
<1> SUFFICES ASSUME KeyInv, [PagingNext]_paging PROVE KeyInv'
  OBVIOUS
<1>0. KeyTypes /\ CursorIsHonoured /\ (~key_raced => OneKey)
  BY DEF KeyInv
<1>1. ASSUME UNCHANGED <<keys, from>>, \A w \in Walkers : walk'[w] = "refused" => walk[w] = "refused" \/ key_raced,
             DOMAIN walk' = Walkers
      PROVE  KeyInv'
  <2>1. /\ file' = file /\ held' = held /\ making' = making /\ restarts' = restarts
        /\ key_raced' = key_raced /\ from' = from
    BY <1>1 DEF keys
  <2> QED
    BY <1>0, <1>1, <2>1 DEF KeyInv, KeyTypes, CursorIsHonoured, OneKey
<1>2. ASSUME NEW r \in Rows, Arrives(r) \/ Resolves(r) PROVE KeyInv'
  BY <1>0, <1>1, <1>2 DEF Arrives, Resolves, walks, KeyTypes
<1>3. ASSUME NEW p \in Workers, LoadKey(p) PROVE KeyInv'
  <2>1. /\ held' = [held EXCEPT ![p] = file] /\ key_raced' = (key_raced \/ making # {})
        /\ file # NoKey /\ file' = file /\ making' = making /\ restarts' = restarts
        /\ walk' = walk /\ from' = from
    BY <1>3 DEF LoadKey, walks
  <2>2. ~key_raced' => OneKey'
    BY <1>0, <2>1 DEF OneKey, KeyTypes
  <2> QED
    BY <1>0, <2>1, <2>2 DEF KeyInv, KeyTypes, CursorIsHonoured
<1>4. ASSUME NEW p \in Workers, NoKeyFile(p) PROVE KeyInv'
  <2>1. /\ making' = making \union {p} /\ key_raced' = (key_raced \/ making # {})
        /\ file = NoKey /\ file' = file /\ held' = held /\ restarts' = restarts
        /\ walk' = walk /\ from' = from
    BY <1>4 DEF NoKeyFile, walks
  <2>2. ~key_raced' => OneKey'
    BY <1>0, <2>1 DEF OneKey, KeyTypes
  <2> QED
    BY <1>0, <2>1, <2>2 DEF KeyInv, KeyTypes, CursorIsHonoured
<1>5. ASSUME NEW p \in Workers, OpenKeyFile(p) PROVE KeyInv'
  <2>1. /\ p \in making /\ file' = Part /\ held' = held /\ making' = making /\ restarts' = restarts
        /\ key_raced' = key_raced /\ walk' = walk /\ from' = from
    BY <1>5 DEF OpenKeyFile, walks
  <2>2. ~key_raced' => OneKey'
    BY <1>0, <2>1 DEF OneKey, KeyTypes
  <2> QED
    BY <1>0, <2>1, <2>2 DEF KeyInv, KeyTypes, CursorIsHonoured
<1>6. ASSUME NEW p \in Workers, WriteKey(p) PROVE KeyInv'
  <2>1. /\ p \in making /\ file' = KeyBy(p) /\ held' = [held EXCEPT ![p] = KeyBy(p)]
        /\ making' = making \ {p} /\ restarts' = restarts /\ key_raced' = key_raced
        /\ walk' = walk /\ from' = from
    BY <1>6 DEF WriteKey, walks
  <2>2. KeyBy(p) # Part
    BY DEF KeyBy, Part
  <2>3. ~key_raced' => OneKey'
    BY <1>0, <2>1, <2>2 DEF OneKey, KeyTypes
  <2> QED
    BY <1>0, <2>1, <2>3 DEF KeyInv, KeyTypes, CursorIsHonoured
<1>7. ASSUME NEW p \in Workers, Restart(p) PROVE KeyInv'
  <2>1. /\ held[p] # NoKey /\ restarts < MaxRestarts /\ restarts' = restarts + 1
        /\ held' = [held EXCEPT ![p] = NoKey] /\ file' = file /\ making' = making
        /\ key_raced' = key_raced /\ walk' = walk /\ from' = from
    BY <1>7 DEF Restart, walks
  <2>2. ~key_raced' => OneKey'
    BY <1>0, <2>1 DEF OneKey, KeyTypes
  <2>3. restarts' \in 0..MaxRestarts
    BY <1>0, <2>1, PagingAssumption DEF KeyTypes
  <2> QED
    BY <1>0, <2>1, <2>2, <2>3 DEF KeyInv, KeyTypes, CursorIsHonoured
<1>8. ASSUME NEW w \in Walkers, Begin(w) \/ CutShort(w) PROVE KeyInv'
  <2>1. /\ UNCHANGED <<keys, from>>
        /\ \E l \in {"asking", "cut"} : walk' = [walk EXCEPT ![w] = l]
    BY <1>8 DEF Begin, CutShort
  <2> QED
    BY <1>0, <1>1, <2>1 DEF KeyTypes
<1>9. ASSUME NEW w \in Walkers, NEW p \in Workers, CursorRefused(w, p) PROVE KeyInv'
  <2>1. /\ UNCHANGED <<keys, from>> /\ walk' = [walk EXCEPT ![w] = "refused"]
        /\ held[p] # NoKey /\ from[w] # NoCursor /\ from[w].key # held[p]
    BY <1>9 DEF CursorRefused
  <2>2. key_raced
    BY <1>0, <2>1 DEF OneKey
  <2> QED
    BY <1>0, <1>1, <2>1, <2>2 DEF KeyTypes
<1>10. ASSUME NEW w \in Walkers, NEW p \in Workers, Page(w, p) PROVE KeyInv'
  <2>1. /\ keys' = keys /\ held[p] # NoKey
        /\ \/ walk' = walk /\ \E r : from' = [from EXCEPT ![w] = CursorAfter(r, p)]
           \/ walk' = [walk EXCEPT ![w] = "done"] /\ from' = from
    BY <1>10 DEF Page
  <2>2. CASE walk' = [walk EXCEPT ![w] = "done"] /\ from' = from
    BY <1>0, <1>1, <2>1, <2>2 DEF KeyTypes
  <2>3. ASSUME walk' = walk, NEW r, from' = [from EXCEPT ![w] = CursorAfter(r, p)] PROVE KeyInv'
    <3>1. /\ file' = file /\ held' = held /\ making' = making /\ restarts' = restarts
          /\ key_raced' = key_raced
      BY <2>1 DEF keys
    <3>2. /\ from'[w].key = held[p] /\ \A v \in Walkers : v # w => from'[v] = from[v]
      BY <1>0, <2>3 DEF KeyTypes, CursorAfter
    <3>3. ~key_raced => OneKey'
      BY <1>0, <2>1, <3>1, <3>2 DEF OneKey, KeyTypes
    <3> QED
      BY <1>0, <2>3, <3>1, <3>3 DEF KeyInv, KeyTypes, CursorIsHonoured
  <2> QED
    BY <2>1, <2>2, <2>3
<1>11. CASE UNCHANGED paging
  BY <1>0, <1>1, <1>11 DEF paging, keys, KeyTypes
<1> QED
  BY <1>2, <1>3, <1>4, <1>5, <1>6, <1>7, <1>8, <1>9, <1>10, <1>11 DEF PagingNext

\* There is no key before the first step.
LEMMA KeysBegin == PagingInit => KeyInv
<1> SUFFICES ASSUME PagingInit PROVE KeyInv
  OBVIOUS
<1>1. NoKey # Part
  BY PagingAssumption DEF Part
<1>2. OneKey
  BY <1>1 DEF PagingInit, OneKey
<1> QED
  BY <1>2, PagingAssumption DEF PagingInit, KeyInv, KeyTypes, CursorIsHonoured

\* A walk misses and repeats nothing, for any rows, pages and processes, and is
\* refused nothing it was given unless the key was made under somebody's eyes
\* (routes/complaints.py, list_complaints; auth/cursor.py).
THEOREM WalksWhole == PagingSpec => []WalksAreWhole
<1>1. ASSUME WalkInv PROVE WalkIsComplete
  BY <1>1 DEF WalkInv, WalkLocal, WalkIsComplete, Shown
<1>2. WalkInv /\ KeyInv => WalksAreWhole
  BY <1>1 DEF KeyInv, WalksAreWhole
<1> QED
  BY <1>2, WalksBegin, WalksStep, KeysBegin, KeysStep, PTL DEF PagingSpec


-----------------------------------------------------------------------------
(* Counting.                                                               *)

\* Some element has the least value.
LEMMA SomeLeast ==
  ASSUME NEW S, S # {}, NEW f \in [S -> Nat]
  PROVE  \E x \in S : \A y \in S : f[x] <= f[y]
<1> DEFINE values == {f[x] : x \in S}
<1>1. values \subseteq Nat /\ values # {}
  OBVIOUS
<1>2. PICK m \in values : \A k \in values : m <= k
  <2> HIDE DEF values
  <2> QED
    BY <1>1, LeastOf
<1> QED
  BY <1>2

\* A column of a finite table has no more values than the table has rows.
LEMMA ColumnOf ==
  ASSUME NEW S, IsFiniteSet(S), NEW f, DOMAIN f = S
  PROVE  /\ IsFiniteSet(Range(f))
         /\ Cardinality(Range(f)) \in Nat /\ Cardinality(Range(f)) <= Cardinality(S)
<1> DEFINE g == [x \in S |-> f[x]]
<1>1. g \in Surjection(S, Range(f))
  BY DEF Range, Surjection
<1> QED
  BY <1>1, FS_Surjection, FS_CardinalityType

-----------------------------------------------------------------------------
(* The three scopes of the patterns.                                       *)

\* The rows of a page's tables.
TablesFinite == complaints \subseteq Arrivals /\ IsFiniteSet(complaints)

RowOf(i, m) ==
  [institution |-> i, motivo |-> m,
   figures |-> [f \in Measures |->
     Measured({d \in complaints : d.institution = i /\ d.motivo = m}, f)]]
Scopes == {"entity", "group", "all"}

\* A row has the key of the complaints it is made of.
LEMMA RowKeeps ==
  /\ Base = {RowOf(c.institution, c.motivo) : c \in complaints}
  /\ \A c : \A scope \in Scopes : Key(scope, RowOf(c.institution, c.motivo)) = Key(scope, c)
  /\ \A c, d : RowOf(c.institution, c.motivo) = RowOf(d.institution, d.motivo) <=>
       c.institution = d.institution /\ c.motivo = d.motivo
<1>1. Base = {RowOf(c.institution, c.motivo) : c \in complaints}
  BY DEF Base, RowOf
<1>2. \A i, m : RowOf(i, m).institution = i /\ RowOf(i, m).motivo = m
  BY DEF RowOf
<1> QED
  BY <1>1, <1>2 DEF Key, Scopes

\* A bucket's figure is that of the complaints with its key.
LEMMA BucketCounts ==
  ASSUME TablesFinite, NEW scope \in Scopes, NEW k \in DOMAIN Patterns(scope), NEW f \in Measures
  PROVE  Patterns(scope)[k][f] = Cardinality({c \in complaints : CountsIn(c, f) /\ Key(scope, c) = k})
<1> DEFINE D      == {c \in complaints : CountsIn(c, f) /\ Key(scope, c) = k}
           key    == [c \in D |-> RowOf(c.institution, c.motivo)]
           counts == [line \in Folded(scope, k) |-> line.figures[f]]
<1>1. IsFiniteSet(D)
  BY FS_Subset DEF TablesFinite
<1>2. \A c \in D : key[c] \in DOMAIN counts
  BY RowKeeps DEF Folded
<1>3. ASSUME NEW line \in DOMAIN counts
      PROVE  counts[line] = Cardinality({c \in D : key[c] = line})
  <2>1. PICK e \in complaints : line = RowOf(e.institution, e.motivo) /\ Key(scope, e) = k
    BY RowKeeps DEF Folded
  <2>2. counts[line] = Cardinality({c \in {d \in complaints : d.institution = e.institution
                                                              /\ d.motivo = e.motivo} : CountsIn(c, f)})
    BY <2>1 DEF RowOf, Measured
  <2>3. \A c \in complaints : c.institution = e.institution /\ c.motivo = e.motivo
                                => Key(scope, c) = k
    BY <2>1 DEF Key, Scopes
  <2>4. {c \in {d \in complaints : d.institution = e.institution /\ d.motivo = e.motivo} : CountsIn(c, f)}
          = {c \in D : key[c] = line}
    BY <2>1, <2>3, RowKeeps
  <2> QED
    BY <2>2, <2>4
<1>4. Sum(counts) = Cardinality(D)
  <2> HIDE DEF D, key, counts
  <2> QED
    BY <1>1, <1>2, <1>3, CountsSum
<1>5. Patterns(scope)[k][f] = Sum(counts)
  BY DEF Patterns
<1> QED
  BY <1>4, <1>5

\* What the three favour is among what is resolved, once.
LEMMA FavoursAreResolved ==
  ASSUME TablesFinite, NEW rows, rows \subseteq complaints
  PROVE  Measured(rows, "favor_user") + Measured(rows, "favor_bank") + Measured(rows, "favor_partial")
           <= Measured(rows, "resolved")
<1> DEFINE U == {c \in rows : CountsIn(c, "favor_user")}
           B == {c \in rows : CountsIn(c, "favor_bank")}
           P == {c \in rows : CountsIn(c, "favor_partial")}
           R == {c \in rows : CountsIn(c, "resolved")}
<1>1. IsFiniteSet(U) /\ IsFiniteSet(B) /\ IsFiniteSet(P) /\ IsFiniteSet(R)
  BY FS_Subset DEF TablesFinite
<1>2. U \cap B = {} /\ (U \cup B) \cap P = {} /\ (U \cup B) \cup P \subseteq R
  BY DEF CountsIn
<1> HIDE DEF U, B, P, R
<1>3. IsFiniteSet(U \cup B) /\ Cardinality(U \cup B) = Cardinality(U) + Cardinality(B)
  BY <1>1, <1>2, DisjointUnion
<1>4. Cardinality((U \cup B) \cup P) = Cardinality(U \cup B) + Cardinality(P)
  BY <1>1, <1>2, <1>3, DisjointUnion
<1>5. Cardinality((U \cup B) \cup P) <= Cardinality(R)
  BY <1>1, <1>2, FS_Subset
<1> QED
  BY <1>3, <1>4, <1>5 DEF Measured, U, B, P, R

\* A cohort's label is that of its peers alone.
LEMMA LabelsArePeers ==
  ASSUME complaints \subseteq Arrivals, NEW c \in complaints, Assignable(c.institution)
  PROVE  \A d \in complaints : Key("group", d) = Key("group", c) <=>
           d.motivo = c.motivo /\ d.institution.id \in
             Peers({e.institution : e \in complaints}, c.institution)
<1> SUFFICES ASSUME NEW d \in complaints
             PROVE  Key("group", d) = Key("group", c) <=>
                      d.motivo = c.motivo /\ d.institution.id \in
                        Peers({e.institution : e \in complaints}, c.institution)
  OBVIOUS
<1>1. CohortLabel(c.institution) = Cohort(c.institution)
  BY DEF CohortLabel
<1>2. Key("group", d) = Key("group", c) <=>
        CohortLabel(d.institution) = CohortLabel(c.institution) /\ d.motivo = c.motivo
  BY DEF Key
<1>3. d.institution.id \in Peers({e.institution : e \in complaints}, c.institution)
        <=> \/ Assignable(d.institution) /\ Cohort(d.institution) = Cohort(c.institution)
            \/ d.institution = c.institution
  BY DashboardsAssumption DEF Peers
<1>4. CASE Assignable(d.institution)
  BY <1>1, <1>2, <1>3, <1>4 DEF CohortLabel
<1>5. CASE ~Assignable(d.institution)
  <2>1. CohortLabel(d.institution)[2] = d.institution.tier
    BY <1>5 DEF CohortLabel
  <2>2. Cohort(c.institution)[2] \in Range(TIER_FROM_CLASSIFICATION)
    BY DEF Cohort, Range, Assignable
  <2>3. d.institution.tier \notin Range(TIER_FROM_CLASSIFICATION)
    BY DashboardsAssumption
  <2>4. CohortLabel(d.institution) # Cohort(c.institution)
    BY <2>1, <2>2, <2>3
  <2> QED
    BY <1>1, <1>2, <1>3, <1>5, <2>4
<1> QED
  BY <1>4, <1>5

\* The three scopes count the same complaints, whatever has been committed.
LEMMA ScopesAlwaysAgree == TablesFinite => ScopesAgree
<1> SUFFICES ASSUME TablesFinite, NEW scope \in Scopes
             PROVE  LET rows == Patterns(scope) IN
                    /\ Sum([k \in DOMAIN rows |-> rows[k]["complaints"]]) = Cardinality(complaints)
                    /\ \A k \in DOMAIN rows :
                         /\ rows[k]["favor_user"] + rows[k]["favor_bank"] + rows[k]["favor_partial"]
                              <= rows[k]["resolved"]
                         /\ scope = "group" =>
                              \A c \in complaints : Assignable(c.institution) /\ Key(scope, c) = k =>
                                \A f \in Measures : rows[k][f] =
                                  Measured({d \in complaints : d.motivo = c.motivo /\ d.institution.id \in
                                     Peers({e.institution : e \in complaints}, c.institution)}, f)
  BY DEF ScopesAgree, Scopes
<1> DEFINE rows    == Patterns(scope)
           with(k) == {c \in complaints : Key(scope, c) = k}
<1>1. \A k \in DOMAIN rows : \A f \in Measures : rows[k][f] = Measured(with(k), f)
  <2> SUFFICES ASSUME NEW k \in DOMAIN rows, NEW f \in Measures
               PROVE  rows[k][f] = Measured(with(k), f)
    OBVIOUS
  <2>1. {c \in with(k) : CountsIn(c, f)} = {c \in complaints : CountsIn(c, f) /\ Key(scope, c) = k}
    OBVIOUS
  <2> QED
    BY <2>1, BucketCounts DEF Measured
<1>2. DOMAIN rows = {Key(scope, c) : c \in complaints}
  BY RowKeeps DEF Patterns
<1>3. {"complaints", "favor_user", "favor_bank", "favor_partial", "resolved"} \subseteq Measures
  BY DEF Measures
<1> HIDE DEF rows
<1>4. Sum([k \in DOMAIN rows |-> rows[k]["complaints"]]) = Cardinality(complaints)
  <2> DEFINE key    == [c \in complaints |-> Key(scope, c)]
             counts == [k \in DOMAIN rows |-> rows[k]["complaints"]]
  <2>1. \A c \in complaints : key[c] \in DOMAIN counts
    BY <1>2
  <2>2. \A k \in DOMAIN counts : counts[k] = Cardinality({c \in complaints : key[c] = k})
    <3> SUFFICES ASSUME NEW k \in DOMAIN rows
                 PROVE  counts[k] = Cardinality({c \in complaints : key[c] = k})
      OBVIOUS
    <3>1. {c \in with(k) : CountsIn(c, "complaints")} = {c \in complaints : key[c] = k}
      BY DEF CountsIn
    <3> QED
      BY <1>1, <1>3, <3>1 DEF Measured
  <2> HIDE DEF key, counts
  <2>3. Sum(counts) = Cardinality(complaints)
    BY <2>1, <2>2, CountsSum DEF TablesFinite
  <2> QED
    BY <2>3 DEF counts
<1>5. ASSUME NEW k \in DOMAIN rows
      PROVE  rows[k]["favor_user"] + rows[k]["favor_bank"] + rows[k]["favor_partial"]
               <= rows[k]["resolved"]
  <2>1. with(k) \subseteq complaints
    OBVIOUS
  <2> QED
    BY <1>1, <1>3, <2>1, FavoursAreResolved
<1>6. ASSUME NEW k \in DOMAIN rows, scope = "group", NEW c \in complaints,
             Assignable(c.institution), Key(scope, c) = k, NEW f \in Measures
      PROVE  rows[k][f] = Measured({d \in complaints : d.motivo = c.motivo /\ d.institution.id \in
                             Peers({e.institution : e \in complaints}, c.institution)}, f)
  <2>1. with(k) = {d \in complaints : d.motivo = c.motivo /\ d.institution.id \in
                     Peers({e.institution : e \in complaints}, c.institution)}
    BY <1>6, LabelsArePeers DEF TablesFinite
  <2> QED
    BY <1>1, <2>1
<1> QED
  BY <1>4, <1>5, <1>6 DEF rows

-----------------------------------------------------------------------------
(* A page reads while others commit.                                       *)

PageNames == {"cockpit", "tile", "queue", "trend"}

\* The tables are finite, the page's clock is behind the clock.
PagesTyped ==
  /\ TablesFinite /\ IsFiniteSet(runs) /\ IsFiniteSet(pending_approvals)
  /\ began \in Nat /\ asOf \in Nat /\ clock \in Nat /\ began <= asOf /\ asOf <= clock
  /\ page \in PageNames /\ answered \in 0..Len(Statements[page])
  /\ DOMAIN shows = Range(Statements[page])
  /\ \A r \in runs : r.at \in Nat

\* A step that commits for others, or lets time pass.
Meanwhile ==
  \/ \E c \in Arrivals : Ingest(c) \/ FinishChain(c) \/ Request(c)
  \/ \E a \in pending_approvals : Decide(a)
  \/ \E d \in deciding : CommitDecision(d)
  \/ TimePasses

\* The statements of the pages, by name.
LEMMA StatementOrder ==
  /\ DOMAIN Statements = PageNames
  /\ Statements["cockpit"] = CockpitReads
  /\ Statements["tile"] = <<"normalizations", "affected">>
  /\ Statements["queue"] = <<"items", "pending", "approved", "rejected">>
  /\ Statements["trend"] = <<"total", "by_motivo", "by_month", "by_outcome", "period">>
  /\ Len(Statements["cockpit"]) = 12 /\ Len(Statements["tile"]) = 2
  /\ Len(Statements["queue"]) = 4 /\ Len(Statements["trend"]) = 5
BY DEF Statements, PageNames, CockpitReads

\* A page has its statements in a sequence.
LEMMA StatementsInOrder ==
  \A p \in PageNames :
    Len(Statements[p]) \in Nat /\ DOMAIN Statements[p] = 1..Len(Statements[p])
<1>1. /\ DOMAIN Statements["cockpit"] = 1..12 /\ DOMAIN Statements["tile"] = 1..2
      /\ DOMAIN Statements["queue"] = 1..4 /\ DOMAIN Statements["trend"] = 1..5
  BY DEF Statements, CockpitReads
<1>2. /\ Len(Statements["cockpit"]) = 12 /\ Len(Statements["tile"]) = 2
      /\ Len(Statements["queue"]) = 4 /\ Len(Statements["trend"]) = 5
  BY StatementOrder
<1> QED
  BY <1>1, <1>2 DEF PageNames

\* Others add to the tables, and leave the page as it is.
LEMMA TablesGrow ==
  ASSUME PagesTyped, Meanwhile
  PROVE  /\ UNCHANGED reader /\ Making
         /\ complaints \subseteq complaints' /\ runs \subseteq runs'
         /\ TablesFinite' /\ IsFiniteSet(runs') /\ IsFiniteSet(pending_approvals')
         /\ \A r \in runs' : r.at \in Nat
         /\ clock' \in Nat /\ clock <= clock'
<1> USE DEF PagesTyped, TablesFinite, Writes, reader
<1>1. ASSUME NEW c \in Arrivals, Ingest(c)
      PROVE  complaints' = complaints \union {c} /\ IsFiniteSet(complaints')
  BY <1>1, FS_AddElement DEF Ingest
<1>2. ASSUME NEW c \in Arrivals, FinishChain(c)
      PROVE  runs \subseteq runs' /\ IsFiniteSet(runs') /\ \A r \in runs' : r.at \in Nat
  <2>1. PICK routed \in BOOLEAN, flag \in BOOLEAN, t \in 0..clock :
          runs' = runs \union {[of |-> c.id, agent |-> g, at |-> t, flag |-> flag] :
                    g \in {"triage", "cross-source-correlator"}
                            \union (IF routed THEN {"investigation"} ELSE {})}
    BY <1>2 DEF FinishChain
  <2> DEFINE run(g) == [of |-> c.id, agent |-> g, at |-> t, flag |-> flag]
             all    == {run("triage")} \union {run("cross-source-correlator")}
                         \union {run("investigation")}
  <2>2. IsFiniteSet(all)
    BY FS_Singleton, FS_Union
  <2>3. IsFiniteSet(runs \union all)
    BY <2>2, FS_Union DEF PagesTyped
  <2>4. runs' \subseteq runs \union all
    BY <2>1
  <2>5. IsFiniteSet(runs')
    BY <2>3, <2>4, FS_Subset
  <2>6. \A r \in all : r.at \in Nat
    OBVIOUS
  <2> QED
    BY <2>1, <2>4, <2>5, <2>6
<1>3. ASSUME NEW c \in Arrivals, Request(c) PROVE IsFiniteSet(pending_approvals')
  BY <1>3, FS_AddElement DEF Request, PagesTyped
<1>4. ASSUME NEW d \in deciding, CommitDecision(d) PROVE IsFiniteSet(pending_approvals')
  <2>1. PICK a \in pending_approvals :
          pending_approvals' = (pending_approvals \ {a})
            \union {[a EXCEPT !.status = d.status, !.decided = d.at, !.twice = a.status # "pending"]}
    BY <1>4 DEF CommitDecision
  <2>2. IsFiniteSet(pending_approvals \ {a})
    BY FS_RemoveElement
  <2> QED
    BY <2>1, <2>2, FS_AddElement
<1>5. CASE \E c \in Arrivals : Ingest(c)
  <2>1. PICK c \in Arrivals : Ingest(c)
    BY <1>5
  <2>2. UNCHANGED <<runs, pending_approvals>> /\ Writes
    BY <2>1 DEF Ingest
  <2>3. complaints \subseteq complaints' /\ complaints' \subseteq Arrivals /\ IsFiniteSet(complaints')
    BY <1>1, <2>1
  <2> QED
    BY <2>2, <2>3
<1>6. CASE \E c \in Arrivals : FinishChain(c)
  <2>1. PICK c \in Arrivals : FinishChain(c)
    BY <1>6
  <2>2. UNCHANGED <<complaints, pending_approvals>> /\ Writes
    BY <2>1 DEF FinishChain
  <2> QED
    BY <1>2, <2>1, <2>2
<1>7. CASE \E c \in Arrivals : Request(c)
  <2>1. PICK c \in Arrivals : Request(c)
    BY <1>7
  <2>2. UNCHANGED <<complaints, runs>> /\ Writes
    BY <2>1 DEF Request
  <2> QED
    BY <1>3, <2>1, <2>2
<1>8. CASE \E d \in deciding : CommitDecision(d)
  <2>1. PICK d \in deciding : CommitDecision(d)
    BY <1>8
  <2>2. UNCHANGED <<complaints, runs>> /\ Writes
    BY <2>1 DEF CommitDecision
  <2> QED
    BY <1>4, <2>1, <2>2
<1>9. CASE \E a \in pending_approvals : Decide(a)
  BY <1>9 DEF Decide
<1>10. CASE TimePasses
  BY <1>10 DEF TimePasses
<1> QED
  BY <1>5, <1>6, <1>7, <1>8, <1>9, <1>10 DEF Meanwhile

\* A statement's answer is the only thing a read changes.
LEMMA OneStatement ==
  ASSUME PagesTyped, Read
  PROVE  LET statement == Statements[page][answered + 1] IN
         /\ answered < Len(Statements[page]) /\ answered' = answered + 1
         /\ shows'[statement] \in Results(statement, asOf')
         /\ \A s \in Range(Statements[page]) : s # statement => shows'[s] = shows[s]
         /\ UNCHANGED <<clock, complaints, runs, pending_approvals, deciding, page>>
         /\ began' = IF answered = 0 THEN clock ELSE began
         /\ asOf' = IF answered = 0 \/ (page = "queue" /\ answered = 1) THEN clock ELSE asOf
         /\ DOMAIN shows' = DOMAIN shows
<1>1. /\ answered < Len(Statements[page]) /\ answered \in 0..Len(Statements[page])
      /\ Len(Statements[page]) \in Nat /\ DOMAIN Statements[page] = 1..Len(Statements[page])
  <2>1. page \in PageNames /\ answered \in 0..Len(Statements[page])
    BY DEF PagesTyped
  <2>2. answered < Len(Statements[page])
    BY DEF Read, Making
  <2> QED
    BY <2>1, <2>2, StatementsInOrder
<1>2. Statements[page][answered + 1] \in DOMAIN shows
  <2>1. answered + 1 \in DOMAIN Statements[page]
    BY <1>1
  <2>2. Statements[page][answered + 1] \in Range(Statements[page])
    BY <2>1 DEF Range
  <2> QED
    BY <2>2 DEF PagesTyped
<1>3. asOf' = IF answered = 0 \/ (page = "queue" /\ answered = 1) THEN clock ELSE asOf
  BY DEF Read
<1>4. PICK result \in Results(Statements[page][answered + 1], asOf') :
        shows' = [shows EXCEPT ![Statements[page][answered + 1]] = result]
  BY <1>3 DEF Read
<1> QED
  BY <1>1, <1>2, <1>3, <1>4 DEF Read, PagesTyped

\* The tables stay finite, and the page's clock behind the clock.
LEMMA PagesTypedKept ==
  ASSUME PagesTyped, [DashboardsNext]_dashboardVars
  PROVE  PagesTyped'
<1>1. CASE Meanwhile
  <2>1. UNCHANGED <<page, answered, shows, began, asOf>>
    BY <1>1, TablesGrow DEF reader
  <2> QED
    BY <1>1, <2>1, TablesGrow DEF PagesTyped
<1>2. CASE Read
  <2>1. answered + 1 \in 0..Len(Statements[page])
    BY <1>2, OneStatement, StatementsInOrder DEF PagesTyped
  <2> QED
    BY <1>2, <2>1, OneStatement DEF PagesTyped, TablesFinite
<1>3. CASE UNCHANGED dashboardVars
  BY <1>3 DEF dashboardVars, PagesTyped, TablesFinite
<1> QED
  BY <1>1, <1>2, <1>3 DEF DashboardsNext, Meanwhile

-----------------------------------------------------------------------------
(* The cockpit.                                                            *)

\* What the statements of the cockpit give.
LEMMA CockpitResults ==
  \A now :
    /\ Results("tier1_count", now) = {Cardinality(From(Tier1) \intersect After(now - DayLength))}
    /\ Results("tier1_recent", now) = Recent(Tier1, RECENT_LIMIT)
    /\ Results("tier1_terms", now) = {TermsOf(shows["tier1_recent"])}
    /\ Results("tier2_count", now) = {Cardinality(From(Tier2) \intersect After(now - LongWindow))}
    /\ Results("tier2_recent", now) = Recent(Tier2, RECENT_LIMIT)
    /\ Results("count_24h", now) = {Cardinality(After(now - DayLength))}
    /\ Results("top_24h", now) =
         TopOf(GroupBy([c \in After(now - DayLength) |-> c.institution.id]), TopLimit)
    /\ Results("active", now) = {Cardinality(Correlated)}
    /\ Results("anomalies", now) = {Anomalies}
BY DEF Results

\* A panel has the cards that an earlier count of its complaints announced.
LEMMA PanelIsFull ==
  ASSUME TablesFinite, NEW i, NEW n \in Nat, n <= Cardinality(From(i)),
         NEW cards \in Recent(i, RECENT_LIMIT)
  PROVE  Lesser(RECENT_LIMIT, n) <= Cardinality(cards) /\ cards \subseteq Arrivals
<1>1. From(i) \subseteq complaints /\ IsFiniteSet(From(i)) /\ Cardinality(From(i)) \in Nat
  BY PartOf DEF From, TablesFinite
<1>2. cards \subseteq From(i) /\ Cardinality(cards) = Lesser(RECENT_LIMIT, Cardinality(From(i)))
  BY DEF Recent
<1>3. RECENT_LIMIT \in Nat
  BY DashboardsAssumption
<1> QED
  BY <1>1, <1>2, <1>3 DEF Lesser, TablesFinite

\* The institution is in the ranking with its complaints, or those in it have no fewer.
TopFits(n, top) ==
  IF Tier1 \in DOMAIN top
    THEN n <= top[Tier1]
    ELSE \/ n = 0
         \/ Cardinality(DOMAIN top) = TopLimit /\ \A i \in DOMAIN top : n <= top[i]

\* The ranking does justice to an earlier count.
LEMMA RankingIsFair ==
  ASSUME TablesFinite, NEW start, NEW n \in Nat,
         n <= Cardinality(From(Tier1) \intersect After(start)),
         NEW top \in TopOf(GroupBy([c \in After(start) |-> c.institution.id]), TopLimit)
  PROVE  TopFits(n, top)
<1> DEFINE rows   == After(start)
           column == [c \in rows |-> c.institution.id]
           counts == GroupBy(column)
           own    == {c \in rows : column[c] = Tier1}
<1>1. IsFiniteSet(rows) /\ DOMAIN column = rows
  BY FS_Subset DEF After, TablesFinite
<1>2. own = From(Tier1) \intersect After(start)
  BY DEF From, After
<1>3. /\ DOMAIN counts = Range(column)
      /\ Tier1 \in DOMAIN counts => counts[Tier1] = Cardinality(own)
  BY <1>1 DEF GroupBy
<1>4. \A k \in DOMAIN counts : counts[k] \in Nat
  <2> SUFFICES ASSUME NEW k \in DOMAIN counts PROVE counts[k] \in Nat
    OBVIOUS
  <2>1. counts[k] = Cardinality({c \in rows : column[c] = k})
    BY <1>1 DEF GroupBy
  <2>2. {c \in rows : column[c] = k} \subseteq rows
    OBVIOUS
  <2> QED
    BY <1>1, <2>1, <2>2, PartOf
<1>5. PICK best \in Leading(counts, TopLimit) : top = Restrict(counts, best)
  BY DEF TopOf
<1>6. best \subseteq DOMAIN counts /\ DOMAIN top = best /\ \A k \in best : top[k] = counts[k]
  BY <1>5 DEF Leading, Restrict
<1>7. IsFiniteSet(DOMAIN counts) /\ Cardinality(DOMAIN counts) \in Nat
  <2>1. IsFiniteSet(Range(column)) /\ Cardinality(Range(column)) \in Nat
    BY <1>1, ColumnOf
  <2> QED
    BY <1>3, <2>1
<1>8. n <= Cardinality(own)
  BY <1>2
<1>9. CASE Tier1 \in DOMAIN counts
  <2>1. n <= counts[Tier1] /\ counts[Tier1] \in Nat
    BY <1>3, <1>4, <1>8, <1>9
  <2>2. CASE Tier1 \in best
    BY <1>6, <2>1, <2>2 DEF TopFits
  <2>3. CASE Tier1 \notin best
    <3>1. \A k \in best : counts[Tier1] <= counts[k]
      BY <1>5, <1>9, <2>3 DEF Leading
    <3>2. Cardinality(best) # Cardinality(DOMAIN counts)
      BY <1>6, <1>7, <1>9, <2>3, FS_Subset
    <3>3. Cardinality(best) = Lesser(TopLimit, Cardinality(DOMAIN counts))
      BY <1>5 DEF Leading
    <3>4. Cardinality(best) = TopLimit
      BY <3>2, <3>3 DEF Lesser
    <3>5. \A k \in best : n <= counts[k]
      BY <1>4, <1>6, <2>1, <3>1
    <3> QED
      BY <1>6, <2>3, <3>4, <3>5 DEF TopFits
  <2> QED
    BY <2>2, <2>3
<1>10. CASE Tier1 \notin DOMAIN counts
  <2>1. own = {}
    BY <1>1, <1>3, <1>10 DEF Range
  <2>2. Cardinality(own) = 0
    BY <2>1, FS_EmptySet
  <2> HIDE DEF own
  <2>3. n = 0
    BY <1>8, <2>2
  <2>4. Tier1 \notin DOMAIN top
    BY <1>6, <1>10
  <2> QED
    BY <2>3, <2>4 DEF TopFits
<1> QED
  BY <1>9, <1>10

\* Of the newest runs there are as many as an earlier count announced, up to the limit.
LEMMA AnomaliesListed ==
  ASSUME IsFiniteSet(runs), \A r \in runs : r.at \in Nat,
         NEW n \in Nat, n <= Cardinality(Correlated), \A r \in Correlated : r.flag
  PROVE  Lesser(AnomalyLimit, n) <= Cardinality(Anomalies)
<1> DEFINE all      == Correlated
           later(q) == {p \in all : p.at > q.at}
<1>1. IsFiniteSet(all) /\ all \subseteq runs
  BY FS_Subset DEF Correlated, Agents
<1>2. \A q \in all : /\ IsFiniteSet(later(q)) /\ later(q) \subseteq all
                     /\ Cardinality(later(q)) \in Nat
  BY <1>1, PartOf
<1>3. Anomalies = {q \in all : Cardinality(later(q)) < AnomalyLimit}
  BY DEF Anomalies
<1>4. AnomalyLimit \in Nat /\ Cardinality(all) \in Nat /\ IsFiniteSet(Anomalies)
      /\ Cardinality(Anomalies) \in Nat
  BY <1>1, <1>3, DashboardsAssumption, PartOf
<1>5. CASE Anomalies = all
  BY <1>4, <1>5 DEF Lesser
<1>6. CASE Anomalies # all
  <2> DEFINE rest == all \ Anomalies
             rank == [q \in rest |-> Cardinality(later(q))]
  <2>1. rest # {} /\ rank \in [rest -> Nat]
    BY <1>2, <1>3, <1>6
  <2> HIDE DEF rank
  <2>2. PICK q \in rest : \A y \in rest : rank[q] <= rank[y]
    BY <2>1, SomeLeast
  <2>3. \A y \in rest : rank[y] = Cardinality(later(y))
    BY DEF rank
  <2>4. ASSUME NEW p \in later(q) PROVE p \in Anomalies
    <3>1. p \in all /\ q \in all /\ p.at \in Nat /\ q.at \in Nat /\ p.at > q.at
      BY <1>1, <2>4
    <3>2. later(p) \subseteq later(q) /\ p \notin later(p)
      BY <1>1, <3>1
    <3>3. Cardinality(later(p)) < Cardinality(later(q))
      <4>1. IsFiniteSet(later(q)) /\ Cardinality(later(q)) \in Nat /\ Cardinality(later(p)) \in Nat
        BY <1>2, <3>1
      <4>2. later(p) # later(q)
        BY <2>4, <3>2
      <4> HIDE DEF later
      <4>3. Cardinality(later(p)) <= Cardinality(later(q)) /\ Cardinality(later(p)) # Cardinality(later(q))
        BY <3>2, <4>1, <4>2, FS_Subset
      <4> QED
        BY <4>1, <4>3
    <3>4. p \notin rest
      <4>1. Cardinality(later(q)) \in Nat /\ Cardinality(later(p)) \in Nat
        BY <1>2, <3>1
      <4>2. p \in rest => Cardinality(later(q)) <= Cardinality(later(p))
        BY <2>2, <2>3
      <4> HIDE DEF later
      <4> QED
        BY <3>3, <4>1, <4>2
    <3> QED
      BY <3>1, <3>4
  <2>5. Cardinality(later(q)) <= Cardinality(Anomalies)
    BY <1>4, <2>4, FS_Subset
  <2>6. ~ (Cardinality(later(q)) < AnomalyLimit) /\ Cardinality(later(q)) \in Nat
    BY <1>2, <1>3, <2>2
  <2> QED
    BY <1>4, <2>5, <2>6 DEF Lesser
<1> QED
  BY <1>5, <1>6

\* The statements of a page are different.
LEMMA StatementsDiffer ==
  \A p \in PageNames : \A i, j \in 1..Len(Statements[p]) :
    Statements[p][i] = Statements[p][j] => i = j
<1>1. \A i, j \in 1..12 : CockpitReads[i] = CockpitReads[j] => i = j
  BY DEF CockpitReads
<1>2. /\ \A i, j \in 1..2 : Statements["tile"][i] = Statements["tile"][j] => i = j
      /\ \A i, j \in 1..4 : Statements["queue"][i] = Statements["queue"][j] => i = j
      /\ \A i, j \in 1..5 : Statements["trend"][i] = Statements["trend"][j] => i = j
  BY DEF Statements
<1>3. \A i, j \in 1..12 : Statements["cockpit"][i] = Statements["cockpit"][j] => i = j
  BY <1>1, StatementOrder
<1>4. /\ Len(Statements["cockpit"]) = 12 /\ Len(Statements["tile"]) = 2
      /\ Len(Statements["queue"]) = 4 /\ Len(Statements["trend"]) = 5
  BY StatementOrder
<1> SUFFICES ASSUME NEW p \in PageNames,
                    NEW i \in 1..Len(Statements[p]), NEW j \in 1..Len(Statements[p]),
                    Statements[p][i] = Statements[p][j]
             PROVE  i = j
  OBVIOUS
<1>5. CASE p = "cockpit"
  BY <1>3, <1>4, <1>5
<1>6. CASE p # "cockpit"
  BY <1>2, <1>4, <1>6 DEF PageNames
<1> QED
  BY <1>5, <1>6

\* A read answers the statement whose turn it is, and no other.
LEMMA ReadGives ==
  ASSUME PagesTyped, Read, NEW k \in 1..Len(Statements[page])
  PROVE  IF answered + 1 = k
           THEN shows'[Statements[page][k]] \in Results(Statements[page][k], asOf')
           ELSE shows'[Statements[page][k]] = shows[Statements[page][k]]
<1>1. CASE answered + 1 = k
  BY <1>1, OneStatement
<1>2. CASE answered + 1 # k
  <2>1. page \in PageNames /\ answered \in 0..Len(Statements[page]) /\ Len(Statements[page]) \in Nat
    BY StatementsInOrder DEF PagesTyped
  <2>2. answered < Len(Statements[page])
    BY OneStatement
  <2>3. answered + 1 \in 1..Len(Statements[page])
    BY <2>1, <2>2
  <2>4. Statements[page][k] # Statements[page][answered + 1]
    BY <1>2, <2>1, <2>3, StatementsDiffer
  <2>5. Statements[page][k] \in Range(Statements[page])
    BY <2>1, StatementsInOrder DEF Range
  <2> QED
    BY <1>2, <2>4, <2>5, OneStatement
<1> QED
  BY <1>1, <1>2

\* Each card with unknown terms has them beside it.
Explained(cards, terms) ==
  \A c \in cards : c.terms > 0 => \E t \in terms : t.id = c.id /\ t.terms \in 1..3

\* What each figure of the cockpit owes to those before it and to the tables.
CockpitInv ==
  page = "cockpit" =>
    /\ answered >= 1 =>
         /\ shows["tier1_count"] \in Nat
         /\ shows["tier1_count"] <= Cardinality(From(Tier1) \intersect After(asOf - DayLength))
    /\ answered >= 2 =>
         /\ Lesser(RECENT_LIMIT, shows["tier1_count"]) <= Cardinality(shows["tier1_recent"])
         /\ shows["tier1_recent"] \subseteq Arrivals
    /\ answered >= 3 => Explained(shows["tier1_recent"], shows["tier1_terms"])
    /\ answered >= 4 => shows["tier2_count"] \in Nat /\ shows["tier2_count"] <= Cardinality(From(Tier2))
    /\ answered >= 5 =>
         Lesser(RECENT_LIMIT, shows["tier2_count"]) <= Cardinality(shows["tier2_recent"])
    /\ answered >= 7 => shows["tier1_count"] <= shows["count_24h"]
    /\ answered >= 8 => TopFits(shows["tier1_count"], shows["top_24h"])
    /\ answered >= 9 => shows["active"] \in Nat /\ shows["active"] <= Cardinality(Correlated)
    /\ answered >= 12 /\ (\A r \in Correlated : r.flag) =>
         Lesser(AnomalyLimit, shows["active"]) <= Cardinality(shows["anomalies"])

\* What is counted only grows.
LEMMA FiguresGrow ==
  ASSUME TablesFinite', IsFiniteSet(runs'), complaints \subseteq complaints', runs \subseteq runs'
  PROVE  /\ \A i, start : Cardinality(From(i) \intersect After(start))
                            <= Cardinality(From(i)' \intersect {c \in complaints' : c.at >= start})
         /\ \A i : Cardinality(From(i)) <= Cardinality(From(i)') /\ Cardinality(From(i)') \in Nat
         /\ Cardinality(Correlated) <= Cardinality(Correlated') /\ Cardinality(Correlated') \in Nat
<1>1. \A i, start :
        LET before == From(i) \intersect After(start)
            now    == From(i)' \intersect {c \in complaints' : c.at >= start}
        IN  Cardinality(before) <= Cardinality(now)
  <2> SUFFICES ASSUME NEW i, NEW start
               PROVE  Cardinality(From(i) \intersect After(start))
                        <= Cardinality(From(i)' \intersect {c \in complaints' : c.at >= start})
    OBVIOUS
  <2>1. From(i)' \intersect {c \in complaints' : c.at >= start} \subseteq complaints'
    OBVIOUS
  <2>2. From(i) \intersect After(start) \subseteq From(i)' \intersect {c \in complaints' : c.at >= start}
    BY DEF From, After
  <2> QED
    BY <2>1, <2>2, PartOf DEF TablesFinite
<1>2. \A i : From(i) \subseteq From(i)' /\ From(i)' \subseteq complaints'
  BY DEF From
<1>3. Correlated \subseteq Correlated' /\ Correlated' \subseteq runs'
  BY DEF Correlated, Agents
<1> QED
  BY <1>1, <1>2, <1>3, PartOf DEF TablesFinite

\* The cockpit's figures keep what they owe while others commit.
LEMMA CockpitWaits ==
  ASSUME PagesTyped, CockpitInv, Meanwhile
  PROVE  CockpitInv'
<1> SUFFICES ASSUME page = "cockpit" PROVE CockpitInv'
  BY TablesGrow DEF CockpitInv, reader
<1>1. /\ UNCHANGED <<page, answered, shows, began, asOf>> /\ answered \in Nat
      /\ answered < 12 /\ asOf \in Nat
  BY TablesGrow, StatementOrder DEF reader, Making, PagesTyped
<1>2. /\ TablesFinite' /\ IsFiniteSet(runs') /\ complaints \subseteq complaints' /\ runs \subseteq runs'
      /\ TablesFinite /\ IsFiniteSet(runs)
  BY TablesGrow DEF PagesTyped
<1> DEFINE own   == From(Tier1) \intersect After(asOf - DayLength)
           start == asOf - DayLength
<1>3. own' = From(Tier1)' \intersect {c \in complaints' : c.at >= start}
  BY <1>1 DEF After
<1>4. /\ Cardinality(own) <= Cardinality(own') /\ Cardinality(own) \in Nat /\ Cardinality(own') \in Nat
  <2>1. own \subseteq complaints /\ own' \subseteq complaints'
    BY DEF From
  <2>2. Cardinality(own) \in Nat /\ Cardinality(own') \in Nat
    BY <1>2, <2>1, PartOf DEF TablesFinite
  <2>3. Cardinality(own) <= Cardinality(own')
    BY <1>2, <1>3, FiguresGrow
  <2> QED
    BY <2>2, <2>3
<1>5. /\ Cardinality(From(Tier2)) <= Cardinality(From(Tier2))'
      /\ Cardinality(From(Tier2)) \in Nat /\ Cardinality(From(Tier2))' \in Nat
  <2>1. From(Tier2) \subseteq complaints
    BY DEF From
  <2> QED
    BY <1>2, <2>1, FiguresGrow, PartOf DEF TablesFinite
<1>6. /\ Cardinality(Correlated) <= Cardinality(Correlated)'
      /\ Cardinality(Correlated) \in Nat /\ Cardinality(Correlated)' \in Nat
  <2>1. Correlated \subseteq runs
    BY DEF Correlated, Agents
  <2> QED
    BY <1>2, <2>1, FiguresGrow, PartOf
<1> HIDE DEF own
<1>7. answered >= 1 => shows["tier1_count"] \in Nat /\ shows["tier1_count"] <= Cardinality(own')
  BY <1>4 DEF CockpitInv, own
<1>8. answered >= 4 => shows["tier2_count"] \in Nat /\ shows["tier2_count"] <= Cardinality(From(Tier2))'
  BY <1>5 DEF CockpitInv
<1>9. answered >= 9 => shows["active"] \in Nat /\ shows["active"] <= Cardinality(Correlated)'
  BY <1>6 DEF CockpitInv
<1>10. ~ (answered >= 12)
  BY <1>1
<1> QED
  BY <1>1, <1>7, <1>8, <1>9, <1>10 DEF CockpitInv, own

\* The statements of the cockpit in their order.
LEMMA CockpitNames ==
  /\ CockpitReads[1] = "tier1_count" /\ CockpitReads[2] = "tier1_recent"
  /\ CockpitReads[3] = "tier1_terms" /\ CockpitReads[4] = "tier2_count"
  /\ CockpitReads[5] = "tier2_recent" /\ CockpitReads[7] = "count_24h"
  /\ CockpitReads[8] = "top_24h" /\ CockpitReads[9] = "active" /\ CockpitReads[12] = "anomalies"
BY DEF CockpitReads

\* A figure of the cockpit owes what it must when it is read.
LEMMA CockpitReadsOn ==
  ASSUME PagesTyped, CockpitInv, Read
  PROVE  CockpitInv'
<1> SUFFICES ASSUME page = "cockpit" PROVE CockpitInv'
  BY OneStatement DEF CockpitInv
<1>1. /\ answered \in 0..11 /\ answered' = answered + 1 /\ asOf \in Nat /\ clock \in Nat
      /\ UNCHANGED <<clock, complaints, runs, page>>
      /\ asOf' = (IF answered = 0 THEN clock ELSE asOf)
  <2>1. answered \in 0..12 /\ answered < 12 /\ Len(Statements[page]) = 12
    BY OneStatement, StatementOrder DEF PagesTyped
  <2> QED
    BY <2>1, OneStatement DEF PagesTyped
<1>2. \A k \in 1..12 :
        IF answered + 1 = k
          THEN shows'[CockpitReads[k]] \in Results(CockpitReads[k], asOf')
          ELSE shows'[CockpitReads[k]] = shows[CockpitReads[k]]
  BY ReadGives, StatementOrder
<1>3. /\ IF answered = 0 THEN shows'["tier1_count"] \in Results("tier1_count", asOf')
           ELSE shows'["tier1_count"] = shows["tier1_count"]
      /\ IF answered = 1 THEN shows'["tier1_recent"] \in Results("tier1_recent", asOf')
           ELSE shows'["tier1_recent"] = shows["tier1_recent"]
      /\ IF answered = 2 THEN shows'["tier1_terms"] \in Results("tier1_terms", asOf')
           ELSE shows'["tier1_terms"] = shows["tier1_terms"]
      /\ IF answered = 3 THEN shows'["tier2_count"] \in Results("tier2_count", asOf')
           ELSE shows'["tier2_count"] = shows["tier2_count"]
      /\ IF answered = 4 THEN shows'["tier2_recent"] \in Results("tier2_recent", asOf')
           ELSE shows'["tier2_recent"] = shows["tier2_recent"]
  BY <1>1, <1>2, CockpitNames
<1>4. /\ IF answered = 6 THEN shows'["count_24h"] \in Results("count_24h", asOf')
           ELSE shows'["count_24h"] = shows["count_24h"]
      /\ IF answered = 7 THEN shows'["top_24h"] \in Results("top_24h", asOf')
           ELSE shows'["top_24h"] = shows["top_24h"]
      /\ IF answered = 8 THEN shows'["active"] \in Results("active", asOf')
           ELSE shows'["active"] = shows["active"]
      /\ IF answered = 11 THEN shows'["anomalies"] \in Results("anomalies", asOf')
           ELSE shows'["anomalies"] = shows["anomalies"]
  BY <1>1, <1>2, CockpitNames
<1>5. TablesFinite /\ IsFiniteSet(runs) /\ \A r \in runs : r.at \in Nat
  BY DEF PagesTyped
<1> DEFINE own == From(Tier1) \intersect After(asOf - DayLength)
<1>6. own' = From(Tier1) \intersect After(asOf' - DayLength) /\ From(Tier1)' = From(Tier1)
      /\ From(Tier2)' = From(Tier2) /\ Correlated' = Correlated
  BY <1>1 DEF From, After, Correlated, Agents
<1>7. /\ Cardinality(own) \in Nat /\ Cardinality(own') \in Nat /\ Cardinality(From(Tier1)) \in Nat
      /\ Cardinality(own) <= Cardinality(From(Tier1)) /\ Cardinality(From(Tier2)) \in Nat
      /\ Cardinality(own) <= Cardinality(After(asOf - DayLength))
      /\ Cardinality(After(asOf - DayLength)) \in Nat /\ Cardinality(Correlated) \in Nat
  <2>1. /\ From(Tier1) \subseteq complaints /\ From(Tier2) \subseteq complaints
        /\ After(asOf - DayLength) \subseteq complaints /\ Correlated \subseteq runs
    BY DEF From, After, Correlated, Agents
  <2>2. IsFiniteSet(From(Tier1)) /\ IsFiniteSet(After(asOf - DayLength))
    BY <1>5, <2>1, PartOf DEF TablesFinite
  <2>3. /\ Cardinality(own) \in Nat /\ Cardinality(own) <= Cardinality(From(Tier1))
        /\ Cardinality(own) <= Cardinality(After(asOf - DayLength))
        /\ Cardinality(From(Tier1)) \in Nat /\ Cardinality(After(asOf - DayLength)) \in Nat
    BY <2>2, PartOf
  <2>4. Cardinality(From(Tier2)) \in Nat /\ Cardinality(Correlated) \in Nat
    BY <1>5, <2>1, PartOf DEF TablesFinite
  <2>5. own' \subseteq From(Tier1)
    BY <1>6
  <2>6. Cardinality(own') \in Nat
    BY <2>2, <2>5, PartOf
  <2> QED
    BY <2>3, <2>4, <2>6
<1>8. /\ answered' >= 1 => shows'["tier1_count"] \in Nat /\ shows'["tier1_count"] <= Cardinality(own')
  <2>1. CASE answered = 0
    <3>1. shows'["tier1_count"] = Cardinality(own')
      BY <1>3, <1>6, <2>1, CockpitResults
    <3> QED
      BY <1>7, <3>1
  <2>2. CASE answered # 0
    <3>1. own' = own
      BY <1>1, <1>6, <2>2
    <3>2. answered >= 1 /\ shows'["tier1_count"] = shows["tier1_count"]
      BY <1>1, <1>3, <2>2
    <3> QED
      BY <3>1, <3>2 DEF CockpitInv
  <2> QED
    BY <2>1, <2>2
<1>9. answered' >= 2 =>
        /\ Lesser(RECENT_LIMIT, shows'["tier1_count"]) <= Cardinality(shows'["tier1_recent"])
        /\ shows'["tier1_recent"] \subseteq Arrivals
  <2>1. CASE answered = 1
    <3>1. shows'["tier1_recent"] \in Recent(Tier1, RECENT_LIMIT)
      BY <1>3, <2>1, CockpitResults
    <3>2. shows'["tier1_count"] \in Nat /\ shows'["tier1_count"] <= Cardinality(From(Tier1))
      BY <1>3, <1>7, <2>1 DEF CockpitInv
    <3> QED
      BY <1>5, <3>1, <3>2, PanelIsFull
  <2>2. CASE answered # 1
    BY <1>1, <1>3, <2>2 DEF CockpitInv
  <2> QED
    BY <2>1, <2>2
<1>10. answered' >= 3 => Explained(shows'["tier1_recent"], shows'["tier1_terms"])
  <2>1. CASE answered = 2
    <3>1. shows'["tier1_terms"] = TermsOf(shows["tier1_recent"]) /\ shows'["tier1_recent"] = shows["tier1_recent"]
      BY <1>3, <2>1, CockpitResults
    <3>2. shows["tier1_recent"] \subseteq Arrivals
      BY <2>1 DEF CockpitInv
    <3>3. ASSUME NEW c \in shows["tier1_recent"], c.terms > 0
          PROVE  \E t \in TermsOf(shows["tier1_recent"]) : t.id = c.id /\ t.terms \in 1..3
      <4>1. c.terms \in Nat
        BY <3>2, DashboardsAssumption
      <4> DEFINE t == [id |-> c.id, terms |-> IF c.terms > 3 THEN 3 ELSE c.terms]
      <4>2. t \in TermsOf(shows["tier1_recent"]) /\ t.id = c.id /\ t.terms \in 1..3
        BY <3>3, <4>1 DEF TermsOf
      <4> QED
        BY <4>2
    <3> QED
      BY <3>1, <3>3 DEF Explained
  <2>2. CASE answered # 2
    BY <1>1, <1>3, <2>2 DEF CockpitInv
  <2> QED
    BY <2>1, <2>2
<1>11. answered' >= 4 =>
         shows'["tier2_count"] \in Nat /\ shows'["tier2_count"] <= Cardinality(From(Tier2))
  <2>1. CASE answered = 3
    <3>1. shows'["tier2_count"] = Cardinality(From(Tier2) \intersect After(asOf' - LongWindow))
      BY <1>3, <2>1, CockpitResults
    <3>2. IsFiniteSet(From(Tier2))
      BY <1>5, PartOf DEF TablesFinite, From
    <3> QED
      BY <3>1, <3>2, PartOf
  <2>2. CASE answered # 3
    BY <1>1, <1>3, <2>2 DEF CockpitInv
  <2> QED
    BY <2>1, <2>2
<1>12. answered' >= 5 =>
         Lesser(RECENT_LIMIT, shows'["tier2_count"]) <= Cardinality(shows'["tier2_recent"])
  <2>1. CASE answered = 4
    <3>1. shows'["tier2_recent"] \in Recent(Tier2, RECENT_LIMIT)
      BY <1>3, <2>1, CockpitResults
    <3>2. shows'["tier2_count"] \in Nat /\ shows'["tier2_count"] <= Cardinality(From(Tier2))
      BY <1>3, <2>1 DEF CockpitInv
    <3> QED
      BY <1>5, <3>1, <3>2, PanelIsFull
  <2>2. CASE answered # 4
    BY <1>1, <1>3, <2>2 DEF CockpitInv
  <2> QED
    BY <2>1, <2>2
<1>13. answered' >= 7 => shows'["tier1_count"] <= shows'["count_24h"]
  <2>1. CASE answered = 6
    <3>1. shows'["count_24h"] = Cardinality(After(asOf - DayLength))
      BY <1>1, <1>4, <2>1, CockpitResults
    <3>2. shows'["tier1_count"] \in Nat /\ shows'["tier1_count"] <= Cardinality(own)
      BY <1>3, <2>1 DEF CockpitInv
    <3> QED
      BY <1>7, <3>1, <3>2
  <2>2. CASE answered # 6
    BY <1>1, <1>3, <1>4, <2>2 DEF CockpitInv
  <2> QED
    BY <2>1, <2>2
<1>14. answered' >= 8 => TopFits(shows'["tier1_count"], shows'["top_24h"])
  <2>1. CASE answered = 7
    <3>1. shows'["top_24h"] \in
            TopOf(GroupBy([c \in After(asOf - DayLength) |-> c.institution.id]), TopLimit)
      BY <1>1, <1>4, <2>1, CockpitResults
    <3>2. shows'["tier1_count"] \in Nat
          /\ shows'["tier1_count"] <= Cardinality(From(Tier1) \intersect After(asOf - DayLength))
      BY <1>3, <2>1 DEF CockpitInv
    <3> QED
      BY <1>5, <3>1, <3>2, RankingIsFair
  <2>2. CASE answered # 7
    BY <1>1, <1>3, <1>4, <2>2 DEF CockpitInv
  <2> QED
    BY <2>1, <2>2
<1>15. answered' >= 9 => shows'["active"] \in Nat /\ shows'["active"] <= Cardinality(Correlated)
  <2>1. CASE answered = 8
    <3>1. shows'["active"] = Cardinality(Correlated)
      BY <1>4, <2>1, CockpitResults
    <3> QED
      BY <1>7, <3>1
  <2>2. CASE answered # 8
    BY <1>1, <1>4, <2>2 DEF CockpitInv
  <2> QED
    BY <2>1, <2>2
<1>16. answered' >= 12 /\ (\A r \in Correlated : r.flag) =>
         Lesser(AnomalyLimit, shows'["active"]) <= Cardinality(shows'["anomalies"])
  <2>1. CASE answered = 11
    <3>1. shows'["anomalies"] = Anomalies
      BY <1>4, <2>1, CockpitResults
    <3>2. shows'["active"] \in Nat /\ shows'["active"] <= Cardinality(Correlated)
      BY <1>1, <1>15, <2>1
    <3> QED
      BY <1>5, <3>1, <3>2, AnomaliesListed
  <2>2. CASE answered # 11
    BY <1>1, <2>2
  <2> QED
    BY <2>1, <2>2
<1> HIDE DEF own
<1> QED
  BY <1>6, <1>8, <1>9, <1>10, <1>11, <1>12, <1>13, <1>14, <1>15, <1>16 DEF CockpitInv, own

\* When the cockpit is made, its figures add up.
LEMMA CockpitMade ==
  ASSUME PagesTyped, CockpitInv
  PROVE  CockpitAddsUp
<1> SUFFICES ASSUME Done("cockpit") PROVE CockpitAddsUp
  BY DEF CockpitAddsUp
<1>1. page = "cockpit" /\ answered \in 0..12 /\ ~ (answered < 12)
  BY StatementOrder DEF Done, Making, PagesTyped
<1> QED
  BY <1>1 DEF CockpitInv, CockpitAddsUp, TopFits, Explained

-----------------------------------------------------------------------------
(* The approvals queue.                                                    *)

Ids == {c.id : c \in Arrivals}
Approval ==
  [of : Ids, status : {"pending"} \union Outcome, decided : Nat, twice : BOOLEAN]
Decision == [of : Ids, status : Outcome, at : Nat]
Undecided == {a \in Approval : a.status = "pending" /\ a.decided = 0 /\ ~a.twice}

\* A complaint has one approval, and a pending one bears no decision.
OneApprovalEach ==
  /\ pending_approvals \subseteq Approval /\ deciding \subseteq Decision
  /\ \A a \in pending_approvals : a.status = "pending" => a \in Undecided
  /\ \A a, b \in pending_approvals : a.of = b.of => a = b

Decided(a) == \E b \in pending_approvals : b.of = a.of /\ b.status # "pending"

\* The approval is decided as one of these, or in a way that no KPI counts.
Settled(a, statuses) ==
  \E b \in pending_approvals :
    b.of = a.of /\ (b.status \in statuses \/ CountedByNone(b))

\* Of the list's approvals n at most are not decided so.
Covers(n, statuses) ==
  \E S : /\ IsFiniteSet(S) /\ Cardinality(S) <= n
         /\ \A a \in shows["items"] : a.of \in S \/ Settled(a, statuses)

QueueInv ==
  /\ OneApprovalEach
  /\ page = "queue" =>
     /\ answered >= 1 =>
          /\ shows["items"] \subseteq Undecided
          /\ \A a \in shows["items"] : a \in pending_approvals \/ Decided(a)
     /\ answered >= 2 => shows["pending"] \in Nat
          /\ Covers(shows["pending"], Outcome)
     /\ answered >= 3 => shows["approved"] \in Nat
          /\ Covers(shows["pending"] + shows["approved"], {"rejected", "sent_back"})
     /\ answered >= 4 => shows["rejected"] \in Nat
          /\ Covers(shows["pending"] + shows["approved"] + shows["rejected"], {"sent_back"})

\* What the statements of the queue give.
LEMMA QueueResults ==
  \A now :
    /\ Results("items", now) = {i \in SUBSET Approvals("pending") :
         Cardinality(i) = Lesser(QueueLimit, Cardinality(Approvals("pending")))}
    /\ Results("pending", now) = {Cardinality(Approvals("pending"))}
    /\ Results("approved", now) = {Cardinality(DecidedOn(DayOf(now), "approved"))}
    /\ Results("rejected", now) = {Cardinality(DecidedOn(DayOf(now), "rejected"))}
BY DEF Results

\* The approvals of some rows cover those whose rows they are.
LEMMA OfRows ==
  ASSUME IsFiniteSet(pending_approvals), NEW X, X \subseteq pending_approvals
  PROVE  /\ IsFiniteSet({a.of : a \in X}) /\ IsFiniteSet(X) /\ Cardinality(X) \in Nat
         /\ Cardinality({a.of : a \in X}) <= Cardinality(X)
         /\ Cardinality({a.of : a \in X}) \in Nat
<1>1. IsFiniteSet(X) /\ Cardinality(X) \in Nat
  BY PartOf
<1> DEFINE f == [a \in X |-> a.of]
<1>2. DOMAIN f = X /\ Range(f) = {a.of : a \in X}
  BY DEF Range
<1> HIDE DEF f
<1> QED
  BY <1>1, <1>2, ColumnOf

\* A day's decisions take their share of the approvals that are not covered yet.
LEMMA CoverOneMore ==
  ASSUME PagesTyped, OneApprovalEach, NEW n \in Nat, NEW outcome, outcome # "pending",
         NEW statuses, Covers(n, statuses \union {outcome})
  PROVE  Covers(n + Cardinality(DecidedOn(DayOf(asOf), outcome)), statuses)
<1> DEFINE X == DecidedOn(DayOf(asOf), outcome)
           O == {a.of : a \in X}
<1>1. PICK S : /\ IsFiniteSet(S) /\ Cardinality(S) <= n
               /\ \A a \in shows["items"] : a.of \in S \/ Settled(a, statuses \union {outcome})
  BY DEF Covers
<1>2. /\ IsFiniteSet(O) /\ Cardinality(O) \in Nat /\ Cardinality(X) \in Nat
      /\ Cardinality(O) <= Cardinality(X)
  <2>1. X \subseteq pending_approvals
    BY DEF DecidedOn, Approvals
  <2> QED
    BY <2>1, OfRows DEF PagesTyped
<1>3. IsFiniteSet(S \union O) /\ Cardinality(S \union O) <= n + Cardinality(X)
  <2>1. /\ IsFiniteSet(S \union O)
        /\ Cardinality(S \union O) = Cardinality(S) + Cardinality(O) - Cardinality(S \intersect O)
    BY <1>1, <1>2, FS_Union
  <2>2. Cardinality(S \intersect O) \in Nat /\ Cardinality(S) \in Nat
    BY <1>1, PartOf, FS_CardinalityType
  <2> HIDE DEF X, O
  <2> QED
    BY <1>1, <1>2, <2>1, <2>2
<1>4. ASSUME NEW a \in shows["items"]
      PROVE  a.of \in S \union O \/ Settled(a, statuses)
  <2>1. CASE a.of \in S
    BY <2>1
  <2>2. CASE Settled(a, statuses \union {outcome})
    <3>1. PICK b \in pending_approvals :
            b.of = a.of /\ (b.status \in statuses \union {outcome} \/ CountedByNone(b))
      BY <2>2 DEF Settled
    <3>2. CASE b.status \in statuses \/ CountedByNone(b)
      BY <3>1, <3>2 DEF Settled
    <3>3. CASE b.status = outcome /\ ~CountedByNone(b)
      <4>1. b.decided \in Nat /\ DayLength * DayOf(asOf) \in Int
        <5>1. b.decided \in Nat
          BY <3>1 DEF OneApprovalEach, Approval
        <5>2. asOf \in Nat /\ DayLength \in Nat \ {0}
          BY DashboardsAssumption DEF PagesTyped
        <5> QED
          BY <5>1, <5>2 DEF DayOf
      <4>2. b.decided >= DayLength * DayOf(asOf)
        BY <3>3, <4>1 DEF CountedByNone
      <4>3. b \in X
        BY <3>1, <3>3, <4>2 DEF DecidedOn, Approvals
      <4> QED
        BY <3>1, <4>3
    <3> QED
      BY <3>1, <3>2, <3>3
  <2> QED
    BY <1>1, <2>1, <2>2
<1> QED
  BY <1>3, <1>4 DEF Covers

\* Each complaint keeps its one approval, and a decision is not taken back: another
\* that overwrites it shows.
LEMMA DecisionsStand ==
  ASSUME PagesTyped, OneApprovalEach, Meanwhile
  PROVE  /\ OneApprovalEach'
         /\ \A a \in Undecided : \A statuses :
              "pending" \notin statuses /\ Settled(a, statuses) => Settled(a, statuses)'
         /\ \A a : Decided(a) => Decided(a)'
         /\ \A a \in Undecided \intersect pending_approvals :
              a \in pending_approvals' \/ Decided(a)'
<1>0. asOf' = asOf
  BY TablesGrow DEF reader
<1>1. CASE \E c \in Arrivals : Request(c)
  <2>1. PICK c \in Arrivals : Request(c)
    BY <1>1
  <2> DEFINE new == [of |-> c.id, status |-> "pending", decided |-> 0, twice |-> FALSE]
  <2>2. /\ pending_approvals' = pending_approvals \union {new} /\ UNCHANGED deciding
        /\ \A a \in pending_approvals : a.of # new.of
    BY <2>1 DEF Request
  <2>3. new \in Undecided /\ new \in Approval
    BY DEF Approval, Undecided, Ids
  <2> HIDE DEF new
  <2>4. OneApprovalEach'
    BY <2>2, <2>3 DEF OneApprovalEach
  <2>5. pending_approvals \subseteq pending_approvals'
    BY <2>2
  <2> QED
    BY <1>0, <2>4, <2>5 DEF Settled, Decided, CountedByNone
<1>2. CASE \E d \in deciding : CommitDecision(d)
  <2>1. PICK d \in deciding : CommitDecision(d)
    BY <1>2
  <2>2. PICK r \in pending_approvals : r.of = d.of /\
          pending_approvals' = (pending_approvals \ {r})
            \union {[r EXCEPT !.status = d.status, !.decided = d.at, !.twice = r.status # "pending"]}
    BY <2>1 DEF CommitDecision
  <2> DEFINE new == [r EXCEPT !.status = d.status, !.decided = d.at, !.twice = r.status # "pending"]
  <2>3. d \in Decision /\ r \in Approval
    BY <2>1 DEF OneApprovalEach
  <2>4. /\ new \in Approval /\ new.of = r.of /\ new.status # "pending"
        /\ r.status # "pending" => new.twice
    BY <2>3 DEF Approval, Decision, Outcome
  <2>5. pending_approvals' = (pending_approvals \ {r}) \union {new} /\ deciding' \subseteq deciding
    BY <2>1, <2>2 DEF CommitDecision
  <2> HIDE DEF new
  <2>6. OneApprovalEach'
    BY <2>4, <2>5 DEF OneApprovalEach
  <2>7. ASSUME NEW a \in Undecided, NEW statuses, "pending" \notin statuses, Settled(a, statuses)
        PROVE  Settled(a, statuses)'
    <3>1. PICK b \in pending_approvals : b.of = a.of /\ (b.status \in statuses \/ CountedByNone(b))
      BY <2>7 DEF Settled
    <3>2. CASE b = r
      <4>1. r.status # "pending"
        BY <2>7, <3>1, <3>2 DEF CountedByNone, OneApprovalEach, Undecided
      <4>2. new \in pending_approvals' /\ new.of = a.of /\ new.twice
        BY <2>4, <2>5, <3>1, <3>2, <4>1
      <4> QED
        BY <4>2 DEF Settled, CountedByNone
    <3>3. CASE b # r
      <4>1. b \in pending_approvals'
        BY <2>5, <3>3
      <4> QED
        BY <1>0, <3>1, <4>1 DEF Settled, CountedByNone
    <3> QED
      BY <3>2, <3>3
  <2>8. \A a : Decided(a) => Decided(a)'
    BY <2>4, <2>5 DEF Decided
  <2>9. ASSUME NEW a \in Undecided \intersect pending_approvals
        PROVE  a \in pending_approvals' \/ Decided(a)'
    BY <2>4, <2>5 DEF Decided
  <2> QED
    BY <2>6, <2>7, <2>8, <2>9
<1>3. CASE \E a \in pending_approvals : Decide(a)
  <2>1. PICK a \in pending_approvals, s \in Outcome :
          deciding' = deciding \union {[of |-> a.of, status |-> s, at |-> clock]}
    BY <1>3 DEF Decide
  <2>2. pending_approvals' = pending_approvals
    BY <1>3 DEF Decide
  <2>3. [of |-> a.of, status |-> s, at |-> clock] \in Decision
    BY <2>1 DEF OneApprovalEach, Approval, Decision, PagesTyped
  <2>4. OneApprovalEach'
    BY <2>1, <2>2, <2>3 DEF OneApprovalEach
  <2> QED
    BY <1>0, <2>2, <2>4 DEF Settled, Decided, CountedByNone
<1>4. CASE TimePasses \/ \E c \in Arrivals : Ingest(c) \/ FinishChain(c)
  <2>1. pending_approvals' = pending_approvals /\ deciding' = deciding
    BY <1>4 DEF TimePasses, Ingest, FinishChain
  <2> QED
    BY <1>0, <2>1 DEF OneApprovalEach, Settled, Decided, CountedByNone
<1> QED
  BY <1>1, <1>2, <1>3, <1>4 DEF Meanwhile

\* The queue's figures keep what they owe while others commit.
LEMMA QueueWaits ==
  ASSUME PagesTyped, QueueInv, Meanwhile
  PROVE  QueueInv'
<1>1. OneApprovalEach'
  BY DecisionsStand DEF QueueInv
<1> SUFFICES ASSUME page = "queue" PROVE QueueInv'
  BY <1>1, TablesGrow DEF QueueInv, reader
<1>2. UNCHANGED <<page, answered, shows, began, asOf>> /\ answered \in Nat
  <2>1. Len(Statements[page]) \in Nat
    BY StatementsInOrder DEF PagesTyped
  <2> QED
    BY <2>1, TablesGrow DEF reader, PagesTyped
<1>3. ASSUME answered >= 1, NEW a \in shows["items"]
      PROVE  a \in pending_approvals' \/ Decided(a)'
  <2>1. a \in Undecided /\ (a \in pending_approvals \/ Decided(a))
    BY <1>3 DEF QueueInv
  <2> QED
    BY <2>1, DecisionsStand DEF QueueInv
<1>4. ASSUME answered >= 1, NEW n, NEW statuses, "pending" \notin statuses, Covers(n, statuses)
      PROVE  Covers(n, statuses)'
  <2>1. PICK S : /\ IsFiniteSet(S) /\ Cardinality(S) <= n
                 /\ \A a \in shows["items"] : a.of \in S \/ Settled(a, statuses)
    BY <1>4 DEF Covers
  <2>2. \A a \in shows["items"] : a.of \in S \/ Settled(a, statuses)'
    BY <1>4, <2>1, DecisionsStand DEF QueueInv
  <2> QED
    BY <1>2, <2>1, <2>2 DEF Covers
<1>5. /\ Covers(shows["pending"], Outcome) /\ answered >= 1
           => Covers(shows["pending"], Outcome)'
      /\ Covers(shows["pending"] + shows["approved"], {"rejected", "sent_back"}) /\ answered >= 1
           => Covers(shows["pending"] + shows["approved"], {"rejected", "sent_back"})'
      /\ Covers(shows["pending"] + shows["approved"] + shows["rejected"], {"sent_back"}) /\ answered >= 1
           => Covers(shows["pending"] + shows["approved"] + shows["rejected"], {"sent_back"})'
  <2>1. /\ "pending" \notin Outcome
        /\ "pending" \notin {"rejected", "sent_back"} /\ "pending" \notin {"sent_back"}
    BY DEF Outcome
  <2>2. shows' = shows
    BY <1>2
  <2> QED
    BY <1>4, <2>1, <2>2 DEF Covers
<1> QED
  BY <1>1, <1>2, <1>3, <1>5 DEF QueueInv, Covers

\* A figure of the queue owes what it must when it is read.
LEMMA QueueReadsOn ==
  ASSUME PagesTyped, QueueInv, Read
  PROVE  QueueInv'
<1>1. OneApprovalEach /\ OneApprovalEach' /\ IsFiniteSet(pending_approvals)
  BY OneStatement DEF QueueInv, OneApprovalEach, PagesTyped
<1> SUFFICES ASSUME page = "queue" PROVE QueueInv'
  BY <1>1, OneStatement DEF QueueInv
<1>2. /\ answered \in 0..3 /\ answered' = answered + 1
      /\ UNCHANGED <<clock, complaints, runs, pending_approvals, page>>
      /\ asOf' = (IF answered \in {0, 1} THEN clock ELSE asOf)
  <2>1. answered \in 0..4 /\ answered < 4 /\ Len(Statements[page]) = 4
    BY OneStatement, StatementOrder DEF PagesTyped
  <2> QED
    BY <2>1, OneStatement DEF PagesTyped
<1>3. \A k \in 1..4 :
        LET s == <<"items", "pending", "approved", "rejected">>[k] IN
        IF answered + 1 = k THEN shows'[s] \in Results(s, asOf') ELSE shows'[s] = shows[s]
  BY ReadGives, StatementOrder
<1>4. /\ IF answered = 0 THEN shows'["items"] \in Results("items", asOf')
           ELSE shows'["items"] = shows["items"]
      /\ IF answered = 1 THEN shows'["pending"] \in Results("pending", asOf')
           ELSE shows'["pending"] = shows["pending"]
      /\ IF answered = 2 THEN shows'["approved"] \in Results("approved", asOf')
           ELSE shows'["approved"] = shows["approved"]
      /\ IF answered = 3 THEN shows'["rejected"] \in Results("rejected", asOf')
           ELSE shows'["rejected"] = shows["rejected"]
  BY <1>2, <1>3
<1>5. ASSUME answered >= 2
      PROVE  /\ asOf' = asOf /\ shows'["items"] = shows["items"]
             /\ \A n, statuses : Covers(n, statuses) =>
                  \E S : /\ IsFiniteSet(S) /\ Cardinality(S) <= n
                         /\ \A a \in shows'["items"] : a.of \in S \/ Settled(a, statuses)'
  <2>1. asOf' = asOf /\ shows'["items"] = shows["items"]
    BY <1>2, <1>4, <1>5
  <2>2. \A a, statuses : Settled(a, statuses)' <=> Settled(a, statuses)
    BY <1>2, <2>1 DEF Settled, CountedByNone
  <2> QED
    BY <2>1, <2>2 DEF Covers
<1>6. answered' >= 1 =>
        /\ shows'["items"] \subseteq Undecided
        /\ \A a \in shows'["items"] : a \in pending_approvals \/ Decided(a)'
  <2>1. CASE answered = 0
    <3>1. shows'["items"] \subseteq Approvals("pending")
      BY <1>4, <2>1, QueueResults
    <3> QED
      BY <1>1, <3>1 DEF Approvals, OneApprovalEach
  <2>2. CASE answered # 0
    <3>1. answered >= 1 /\ shows'["items"] = shows["items"]
      BY <1>2, <1>4, <2>2
    <3>2. \A a : Decided(a) <=> Decided(a)'
      BY <1>2 DEF Decided
    <3> QED
      BY <3>1, <3>2 DEF QueueInv
  <2> QED
    BY <2>1, <2>2
<1>7. answered' >= 2 => shows'["pending"] \in Nat /\ Covers(shows["pending"], Outcome)'
  <2>1. CASE answered = 1
    <3> DEFINE X == Approvals("pending")
               O == {a.of : a \in X}
    <3>1. shows'["pending"] = Cardinality(X) /\ shows'["items"] = shows["items"]
      BY <1>4, <2>1, QueueResults
    <3>2. IsFiniteSet(O) /\ Cardinality(O) <= Cardinality(X) /\ Cardinality(X) \in Nat
      <4>1. X \subseteq pending_approvals
        BY DEF Approvals
      <4> QED
        BY <1>1, <4>1, OfRows
    <3>3. \A a : Decided(a) => Settled(a, Outcome)'
      <4>1. \A b \in pending_approvals : b.status # "pending" => b.status \in Outcome
        BY <1>1 DEF OneApprovalEach, Approval
      <4> QED
        BY <1>2, <4>1 DEF Decided, Settled
    <3>4. \A a \in shows'["items"] : a.of \in O \/ Settled(a, Outcome)'
      BY <2>1, <3>1, <3>3 DEF QueueInv, Undecided, Approvals
    <3> HIDE DEF X, O
    <3> QED
      BY <3>1, <3>2, <3>4 DEF Covers
  <2>2. CASE answered # 1
    <3>1. SUFFICES ASSUME answered >= 2
                   PROVE  shows'["pending"] \in Nat /\ Covers(shows["pending"], Outcome)'
      BY <1>2, <2>2
    <3>2. shows'["pending"] = shows["pending"]
      BY <1>2, <1>4, <3>1, <2>2
    <3> QED
      BY <1>5, <3>1, <3>2 DEF Covers, QueueInv
  <2> QED
    BY <2>1, <2>2
<1>8. answered' >= 3 => shows'["approved"] \in Nat
        /\ Covers(shows["pending"] + shows["approved"], {"rejected", "sent_back"})'
  <2> SUFFICES ASSUME answered >= 2
               PROVE  shows'["approved"] \in Nat
                        /\ Covers(shows["pending"] + shows["approved"], {"rejected", "sent_back"})'
    BY <1>2
  <2>1. shows'["pending"] = shows["pending"] /\ asOf' = asOf
    BY <1>2, <1>4
  <2>2. CASE answered = 2
    <3>1. shows'["approved"] = Cardinality(DecidedOn(DayOf(asOf), "approved"))
      BY <1>4, <2>1, <2>2, QueueResults
    <3>2. shows'["approved"] \in Nat
      <4>1. DecidedOn(DayOf(asOf), "approved") \subseteq pending_approvals
        BY DEF DecidedOn, Approvals
      <4> QED
        BY <1>1, <3>1, <4>1, PartOf
    <3>3. shows["pending"] \in Nat /\ Covers(shows["pending"], {"rejected", "sent_back"} \union {"approved"})
      <4>1. {"rejected", "sent_back"} \union {"approved"} = Outcome
        BY DEF Outcome
      <4> QED
        BY <2>2, <4>1 DEF QueueInv
    <3>4. Covers(shows["pending"] + shows'["approved"], {"rejected", "sent_back"})
      BY <1>1, <3>1, <3>3, CoverOneMore
    <3> QED
      BY <1>5, <2>1, <3>2, <3>4 DEF Covers
  <2>3. CASE answered # 2
    <3>1. shows'["approved"] = shows["approved"] /\ answered >= 3
      BY <1>2, <1>4, <2>3
    <3> QED
      BY <1>5, <2>1, <3>1 DEF Covers, QueueInv
  <2> QED
    BY <2>2, <2>3
<1>9. answered' >= 4 => shows'["rejected"] \in Nat
        /\ Covers(shows["pending"] + shows["approved"] + shows["rejected"], {"sent_back"})'
  <2> SUFFICES ASSUME answered = 3
               PROVE  shows'["rejected"] \in Nat
                        /\ Covers(shows["pending"] + shows["approved"] + shows["rejected"],
                                  {"sent_back"})'
    BY <1>2
  <2>1. shows'["pending"] = shows["pending"] /\ shows'["approved"] = shows["approved"] /\ asOf' = asOf
    BY <1>2, <1>4
  <2>2. shows'["rejected"] = Cardinality(DecidedOn(DayOf(asOf), "rejected"))
    BY <1>4, <2>1, QueueResults
  <2>3. shows'["rejected"] \in Nat
    <3>1. DecidedOn(DayOf(asOf), "rejected") \subseteq pending_approvals
      BY DEF DecidedOn, Approvals
    <3> QED
      BY <1>1, <2>2, <3>1, PartOf
  <2>4. /\ shows["pending"] + shows["approved"] \in Nat
        /\ Covers(shows["pending"] + shows["approved"], {"sent_back"} \union {"rejected"})
    <3>1. {"sent_back"} \union {"rejected"} = {"rejected", "sent_back"}
      OBVIOUS
    <3> QED
      BY <3>1 DEF QueueInv
  <2>5. Covers(shows["pending"] + shows["approved"] + shows'["rejected"], {"sent_back"})
    BY <1>1, <2>2, <2>4, CoverOneMore
  <2> QED
    BY <1>5, <2>1, <2>3, <2>5 DEF Covers
<1> QED
  BY <1>1, <1>2, <1>6, <1>7, <1>8, <1>9 DEF QueueInv

\* When the queue is made, its figures add up.
LEMMA QueueMade ==
  ASSUME PagesTyped, QueueInv
  PROVE  QueueAddsUp
<1> DEFINE n    == shows["pending"] + shows["approved"] + shows["rejected"]
           rest == {a \in shows["items"] :
                      \A b \in pending_approvals : b.of = a.of => ~CountedByNone(b)}
<1> SUFFICES ASSUME Done("queue") PROVE Cardinality(rest) <= n
  BY DEF QueueAddsUp
<1>1. page = "queue" /\ answered = 4
  BY StatementOrder DEF Done, Making, PagesTyped
<1>2. n \in Nat /\ Covers(n, {"sent_back"}) /\ shows["items"] \subseteq Undecided
  BY <1>1 DEF QueueInv
<1>3. PICK S : /\ IsFiniteSet(S) /\ Cardinality(S) <= n
               /\ \A a \in shows["items"] : a.of \in S \/ Settled(a, {"sent_back"})
  BY <1>2 DEF Covers
<1>4. \A a \in rest : a.of \in S
  BY <1>3 DEF Settled, CountedByNone
<1>5. \A a, b \in rest : a.of = b.of => a = b
  BY <1>2 DEF Undecided, Approval
<1> DEFINE f == [a \in rest |-> a.of]
<1>6. f \in Injection(rest, S)
  BY <1>4, <1>5 DEF Injection, IsInjective
<1> HIDE DEF n, rest, f
<1>7. Cardinality(rest) <= Cardinality(S) /\ IsFiniteSet(rest)
  BY <1>3, <1>6, FS_Injection
<1>8. Cardinality(rest) \in Nat /\ Cardinality(S) \in Nat
  BY <1>3, <1>7, FS_CardinalityType
<1>9. Cardinality(rest) <= n
  BY <1>2, <1>3, <1>7, <1>8
<1> QED
  BY <1>9 DEF n, rest

-----------------------------------------------------------------------------
(* The trend and the tile.                                                 *)

\* A distribution of the complaints holds them all.
LEMMA DistributionsAreWhole ==
  ASSUME TablesFinite, NEW column, DOMAIN column = complaints
  PROVE  Sum(GroupBy(column)) = Cardinality(complaints) /\ DOMAIN GroupBy(column) = Range(column)
<1>1. DOMAIN GroupBy(column) = Range(column)
  BY DEF GroupBy
<1>2. \A c \in complaints : column[c] \in DOMAIN GroupBy(column)
  BY <1>1 DEF Range
<1>3. \A k \in DOMAIN GroupBy(column) :
        GroupBy(column)[k] = Cardinality({c \in complaints : column[c] = k})
  BY DEF GroupBy
<1> QED
  BY <1>1, <1>2, <1>3, CountsSum DEF TablesFinite

\* Some complaint is the first of all, and some the last.
LEMMA FirstAndLast ==
  ASSUME TablesFinite, complaints # {}
  PROVE  /\ \E c \in complaints : \A e \in complaints : c.at <= e.at
         /\ \E c \in complaints : \A e \in complaints : e.at <= c.at
<1>1. \A c \in complaints : c.at \in Int
  BY DashboardsAssumption DEF TablesFinite
<1> DEFINE sooner(c) == {d \in complaints : d.at < c.at}
           later(c)  == {d \in complaints : d.at > c.at}
           rankUp    == [c \in complaints |-> Cardinality(sooner(c))]
           rankDown  == [c \in complaints |-> Cardinality(later(c))]
<1>2. \A c \in complaints : /\ IsFiniteSet(sooner(c)) /\ Cardinality(sooner(c)) \in Nat
                            /\ IsFiniteSet(later(c)) /\ Cardinality(later(c)) \in Nat
  BY PartOf DEF TablesFinite
<1>3. \A c, e \in complaints : e.at < c.at => Cardinality(sooner(e)) < Cardinality(sooner(c))
  <2> SUFFICES ASSUME NEW c \in complaints, NEW e \in complaints, e.at < c.at
               PROVE  Cardinality(sooner(e)) < Cardinality(sooner(c))
    OBVIOUS
  <2>1. sooner(e) \subseteq sooner(c) /\ e \in sooner(c) /\ e \notin sooner(e)
    BY <1>1
  <2>2. /\ IsFiniteSet(sooner(c)) /\ Cardinality(sooner(c)) \in Nat /\ Cardinality(sooner(e)) \in Nat
    BY <1>2
  <2> HIDE DEF sooner
  <2>3. Cardinality(sooner(e)) <= Cardinality(sooner(c)) /\ Cardinality(sooner(e)) # Cardinality(sooner(c))
    BY <2>1, <2>2, FS_Subset
  <2> QED
    BY <2>2, <2>3
<1>4. \A c, e \in complaints : c.at < e.at => Cardinality(later(e)) < Cardinality(later(c))
  <2> SUFFICES ASSUME NEW c \in complaints, NEW e \in complaints, c.at < e.at
               PROVE  Cardinality(later(e)) < Cardinality(later(c))
    OBVIOUS
  <2>1. later(e) \subseteq later(c) /\ e \in later(c) /\ e \notin later(e)
    BY <1>1
  <2>2. /\ IsFiniteSet(later(c)) /\ Cardinality(later(c)) \in Nat /\ Cardinality(later(e)) \in Nat
    BY <1>2
  <2> HIDE DEF later
  <2>3. Cardinality(later(e)) <= Cardinality(later(c)) /\ Cardinality(later(e)) # Cardinality(later(c))
    BY <2>1, <2>2, FS_Subset
  <2> QED
    BY <2>2, <2>3
<1>5. rankUp \in [complaints -> Nat] /\ rankDown \in [complaints -> Nat]
  BY <1>2
<1>6. /\ \A c \in complaints : rankUp[c] = Cardinality(sooner(c))
      /\ \A c \in complaints : rankDown[c] = Cardinality(later(c))
  OBVIOUS
<1> HIDE DEF rankUp, rankDown
<1>7. PICK c \in complaints : \A e \in complaints : rankUp[c] <= rankUp[e]
  BY <1>5, SomeLeast
<1>8. PICK d \in complaints : \A e \in complaints : rankDown[d] <= rankDown[e]
  BY <1>5, SomeLeast
<1> HIDE DEF sooner, later
<1>9. \A e \in complaints : c.at <= e.at
  BY <1>1, <1>2, <1>3, <1>6, <1>7
<1>10. \A e \in complaints : e.at <= d.at
  BY <1>1, <1>2, <1>4, <1>6, <1>8
<1> QED
  BY <1>9, <1>10

\* Days follow each other as instants do.
LEMMA DaysFollow ==
  ASSUME NEW s \in Int, NEW t \in Int, s <= t
  PROVE  DayOf(s) <= DayOf(t) /\ DayOf(s) \in Int /\ DayOf(t) \in Int
<1>1. DayLength \in Nat /\ DayLength > 0
  BY DashboardsAssumption
<1> QED
  BY <1>1 DEF DayOf

\* What each figure of the trend owes to those before it and to the tables.
TrendInv ==
  page = "trend" =>
    /\ answered >= 1 => shows["total"] \in Nat /\ shows["total"] <= Cardinality(complaints)
    /\ answered >= 2 =>
         /\ Sum(shows["by_motivo"]) \in Nat /\ Sum(shows["by_motivo"]) <= Cardinality(complaints)
         /\ shows["total"] <= Sum(shows["by_motivo"])
    /\ answered >= 3 =>
         /\ Sum(shows["by_motivo"]) <= Sum(shows["by_month"])
         /\ \A day \in DOMAIN shows["by_month"] : \E c \in complaints : DayOf(c.at) = day
    /\ answered >= 4 => DOMAIN shows["by_month"] \subseteq DOMAIN shows["by_outcome"]
    /\ answered >= 5 => \A day \in DOMAIN shows["by_month"] :
         \E first, last \in shows["period"] : first <= day /\ day <= last

\* A tile that counts a normalization has its complaint to show.
TileInv ==
  page = "tile" =>
    /\ answered >= 1 /\ shows["normalizations"] > 0 => \E c \in complaints : c.mapped
    /\ answered >= 2 /\ shows["normalizations"] > 0 => shows["affected"] > 0

\* What the statements of the trend and of the tile give.
LEMMA TrendResults ==
  \A now :
    /\ Results("total", now) = {Cardinality(complaints)}
    /\ Results("by_motivo", now) = {GroupBy([c \in complaints |-> c.motivo])}
    /\ Results("by_month", now) = {GroupBy([c \in complaints |-> DayOf(c.at)])}
    /\ Results("by_outcome", now) = {Outcomes}
    /\ Results("period", now) = {{DayOf(c.at) : c \in {d \in complaints :
         (\A e \in complaints : e.at <= d.at) \/ (\A e \in complaints : d.at <= e.at)}}}
    /\ Results("normalizations", now) = {Cardinality({c \in complaints : c.mapped})}
    /\ Results("affected", now) =
         {Cardinality({c.institution.id : c \in {d \in complaints : d.mapped}})}
BY DEF Results

\* The figures of trend and tile keep what they owe while others commit.
LEMMA TrendWaits ==
  ASSUME PagesTyped, TrendInv, TileInv, Meanwhile
  PROVE  TrendInv' /\ TileInv'
<1>1. /\ UNCHANGED <<page, answered, shows>>
      /\ complaints \subseteq complaints' /\ TablesFinite'
  BY TablesGrow DEF reader
<1>2. /\ Cardinality(complaints) <= Cardinality(complaints')
      /\ Cardinality(complaints) \in Nat /\ Cardinality(complaints') \in Nat
  BY <1>1, PartOf DEF TablesFinite
<1>3. Len(Statements[page]) \in Nat /\ answered \in Nat
  BY StatementsInOrder DEF PagesTyped
<1>4. \A day : (\E c \in complaints : DayOf(c.at) = day) => \E c \in complaints' : DayOf(c.at) = day
  BY <1>1
<1>5. UNCHANGED Sum(shows["by_motivo"]) /\ UNCHANGED Sum(shows["by_month"])
  BY <1>1 DEF Sum
<1>6. TrendInv'
  <2> SUFFICES ASSUME page = "trend" PROVE TrendInv'
    BY <1>1 DEF TrendInv
  <2>1. answered >= 1 => shows["total"] \in Nat /\ shows["total"] <= Cardinality(complaints')
    BY <1>2 DEF TrendInv
  <2>2. answered >= 2 =>
          /\ Sum(shows["by_motivo"]) \in Nat /\ Sum(shows["by_motivo"]) <= Cardinality(complaints')
          /\ shows["total"] <= Sum(shows["by_motivo"])
    BY <1>2 DEF TrendInv
  <2>3. answered >= 3 =>
          /\ Sum(shows["by_motivo"]) <= Sum(shows["by_month"])
          /\ \A day \in DOMAIN shows["by_month"] : \E c \in complaints' : DayOf(c.at) = day
    BY <1>4 DEF TrendInv
  <2> QED
    BY <1>1, <1>5, <2>1, <2>2, <2>3 DEF TrendInv, DayOf
<1>7. TileInv'
  BY <1>1 DEF TileInv
<1> QED
  BY <1>6, <1>7

\* A figure of the trend owes what it must when it is read.
LEMMA TrendReadsOn ==
  ASSUME PagesTyped, TrendInv, Read
  PROVE  TrendInv'
<1> SUFFICES ASSUME page = "trend" PROVE TrendInv'
  BY OneStatement DEF TrendInv
<1>1. /\ answered \in 0..4 /\ answered' = answered + 1
      /\ UNCHANGED <<complaints, page>> /\ TablesFinite
  <2>1. answered \in 0..5 /\ answered < 5 /\ Len(Statements[page]) = 5
    BY OneStatement, StatementOrder DEF PagesTyped
  <2> QED
    BY <2>1, OneStatement DEF PagesTyped
<1>2. \A k \in 1..5 :
        LET s == <<"total", "by_motivo", "by_month", "by_outcome", "period">>[k] IN
        IF answered + 1 = k THEN shows'[s] \in Results(s, asOf') ELSE shows'[s] = shows[s]
  BY ReadGives, StatementOrder
<1>3. /\ IF answered = 0 THEN shows'["total"] \in Results("total", asOf')
           ELSE shows'["total"] = shows["total"]
      /\ IF answered = 1 THEN shows'["by_motivo"] \in Results("by_motivo", asOf')
           ELSE shows'["by_motivo"] = shows["by_motivo"]
      /\ IF answered = 2 THEN shows'["by_month"] \in Results("by_month", asOf')
           ELSE shows'["by_month"] = shows["by_month"]
      /\ IF answered = 3 THEN shows'["by_outcome"] \in Results("by_outcome", asOf')
           ELSE shows'["by_outcome"] = shows["by_outcome"]
      /\ IF answered = 4 THEN shows'["period"] \in Results("period", asOf')
           ELSE shows'["period"] = shows["period"]
  BY <1>1, <1>2
<1>4. Cardinality(complaints) \in Nat
  BY <1>1, FS_CardinalityType DEF TablesFinite
<1>5. answered' >= 1 => shows'["total"] \in Nat /\ shows'["total"] <= Cardinality(complaints)
  <2>1. answered = 0 => shows'["total"] = Cardinality(complaints)
    BY <1>3, TrendResults
  <2> QED
    BY <1>1, <1>3, <1>4, <2>1 DEF TrendInv
<1>6. answered' >= 2 =>
        /\ Sum(shows'["by_motivo"]) \in Nat /\ Sum(shows'["by_motivo"]) <= Cardinality(complaints)
        /\ shows'["total"] <= Sum(shows'["by_motivo"])
  <2>1. CASE answered = 1
    <3>1. shows'["by_motivo"] = GroupBy([c \in complaints |-> c.motivo])
      BY <1>3, <2>1, TrendResults
    <3>2. Sum(shows'["by_motivo"]) = Cardinality(complaints)
      BY <1>1, <3>1, DistributionsAreWhole
    <3> QED
      BY <1>4, <1>5, <1>1, <2>1, <3>2
  <2>2. CASE answered # 1
    <3> SUFFICES ASSUME answered >= 2
                 PROVE  /\ Sum(shows'["by_motivo"]) \in Nat
                        /\ Sum(shows'["by_motivo"]) <= Cardinality(complaints)
                        /\ shows'["total"] <= Sum(shows'["by_motivo"])
      BY <1>1, <2>2
    <3>1. shows'["by_motivo"] = shows["by_motivo"] /\ shows'["total"] = shows["total"]
      BY <1>1, <1>3
    <3> QED
      BY <3>1 DEF TrendInv
  <2> QED
    BY <2>1, <2>2
<1>7. answered' >= 3 =>
        /\ Sum(shows'["by_motivo"]) <= Sum(shows'["by_month"])
        /\ \A day \in DOMAIN shows'["by_month"] : \E c \in complaints : DayOf(c.at) = day
  <2>1. CASE answered = 2
    <3> DEFINE column == [c \in complaints |-> DayOf(c.at)]
    <3>1. shows'["by_month"] = GroupBy(column)
      BY <1>3, <2>1, TrendResults
    <3>2. Sum(shows'["by_month"]) = Cardinality(complaints) /\ DOMAIN shows'["by_month"] = Range(column)
      BY <1>1, <3>1, DistributionsAreWhole
    <3>3. \A day \in DOMAIN shows'["by_month"] : \E c \in complaints : DayOf(c.at) = day
      BY <3>2 DEF Range
    <3>4. Sum(shows'["by_motivo"]) <= Cardinality(complaints)
      BY <1>1, <1>6, <2>1
    <3> QED
      BY <3>2, <3>3, <3>4
  <2>2. CASE answered # 2
    <3> SUFFICES ASSUME answered >= 3
                 PROVE  /\ Sum(shows'["by_motivo"]) <= Sum(shows'["by_month"])
                        /\ \A day \in DOMAIN shows'["by_month"] : \E c \in complaints : DayOf(c.at) = day
      BY <1>1, <2>2
    <3>1. shows'["by_motivo"] = shows["by_motivo"] /\ shows'["by_month"] = shows["by_month"]
      BY <1>1, <1>3
    <3> QED
      BY <3>1 DEF TrendInv
  <2> QED
    BY <2>1, <2>2
<1>8. answered' >= 4 => DOMAIN shows'["by_month"] \subseteq DOMAIN shows'["by_outcome"]
  <2>1. CASE answered = 3
    <3>1. DOMAIN shows'["by_outcome"] = {DayOf(c.at) : c \in complaints}
      <4>1. shows'["by_outcome"] = Outcomes
        BY <1>3, <2>1, TrendResults
      <4>2. DOMAIN Outcomes = {DayOf(c.at) : c \in complaints}
        BY DEF Outcomes
      <4> QED
        BY <4>1, <4>2
    <3> QED
      BY <1>1, <1>7, <2>1, <3>1
  <2>2. CASE answered # 3
    BY <1>1, <1>3, <2>2 DEF TrendInv
  <2> QED
    BY <2>1, <2>2
<1>9. answered' >= 5 => \A day \in DOMAIN shows'["by_month"] :
        \E first, last \in shows'["period"] : first <= day /\ day <= last
  <2> SUFFICES ASSUME answered = 4, NEW day \in DOMAIN shows'["by_month"]
               PROVE  \E first, last \in shows'["period"] : first <= day /\ day <= last
    BY <1>1
  <2>1. PICK c \in complaints : DayOf(c.at) = day
    BY <1>1, <1>7
  <2>2. PICK f \in complaints : \A e \in complaints : f.at <= e.at
    BY <1>1, <2>1, FirstAndLast
  <2>3. PICK l \in complaints : \A e \in complaints : e.at <= l.at
    BY <1>1, <2>1, FirstAndLast
  <2>4. shows'["period"] = {DayOf(d.at) : d \in {d \in complaints :
          (\A e \in complaints : e.at <= d.at) \/ (\A e \in complaints : d.at <= e.at)}}
    BY <1>3, TrendResults
  <2>5. DayOf(f.at) \in shows'["period"] /\ DayOf(l.at) \in shows'["period"]
    BY <2>2, <2>3, <2>4
  <2>6. \A e \in complaints : e.at \in Int
    BY <1>1, DashboardsAssumption DEF TablesFinite
  <2>7. DayOf(f.at) <= day /\ day <= DayOf(l.at)
    BY <2>1, <2>2, <2>3, <2>6, DaysFollow
  <2> QED
    BY <2>5, <2>7
<1> QED
  BY <1>1, <1>5, <1>6, <1>7, <1>8, <1>9 DEF TrendInv, Sum, DayOf

\* A figure of the tile owes what it must when it is read.
LEMMA TileReadsOn ==
  ASSUME PagesTyped, TileInv, Read
  PROVE  TileInv'
<1> SUFFICES ASSUME page = "tile" PROVE TileInv'
  BY OneStatement DEF TileInv
<1>1. answered \in {0, 1} /\ answered' = answered + 1 /\ UNCHANGED <<complaints, page>> /\ TablesFinite
  <2>1. answered \in 0..2 /\ answered < 2 /\ Len(Statements[page]) = 2
    BY OneStatement, StatementOrder DEF PagesTyped
  <2> QED
    BY <2>1, OneStatement DEF PagesTyped
<1>2. \A k \in 1..2 :
        LET s == <<"normalizations", "affected">>[k] IN
        IF answered + 1 = k THEN shows'[s] \in Results(s, asOf') ELSE shows'[s] = shows[s]
  BY ReadGives, StatementOrder
<1>3. /\ IF answered = 0 THEN shows'["normalizations"] \in Results("normalizations", asOf')
           ELSE shows'["normalizations"] = shows["normalizations"]
      /\ answered = 1 => shows'["affected"] \in Results("affected", asOf')
  BY <1>1, <1>2
<1> DEFINE mapped == {c \in complaints : c.mapped}
<1>4. IsFiniteSet(mapped) /\ Cardinality(mapped) \in Nat
  BY <1>1, PartOf DEF TablesFinite
<1>5. CASE answered = 0
  <2>1. shows'["normalizations"] = Cardinality(mapped)
    BY <1>3, <1>5, TrendResults
  <2>2. mapped = {} => Cardinality(mapped) = 0
    BY FS_EmptySet
  <2>3. shows'["normalizations"] > 0 => \E c \in complaints : c.mapped
    BY <2>1, <2>2
  <2> QED
    BY <1>1, <1>5, <2>3 DEF TileInv
<1>6. CASE answered = 1
  <2> DEFINE column == [c \in mapped |-> c.institution.id]
  <2>1. shows'["affected"] = Cardinality(Range(column))
    <3>1. Range(column) = {c.institution.id : c \in mapped}
      BY DEF Range
    <3> QED
      BY <1>3, <1>6, <3>1, TrendResults
  <2>2. IsFiniteSet(Range(column)) /\ Cardinality(Range(column)) \in Nat
    BY <1>4, ColumnOf
  <2>3. (\E c \in complaints : c.mapped) => Range(column) # {}
    BY DEF Range
  <2> HIDE DEF column
  <2>4. (\E c \in complaints : c.mapped) => shows'["affected"] > 0
    BY <2>1, <2>2, <2>3, FS_EmptySet
  <2> QED
    BY <1>1, <1>3, <1>6, <2>4 DEF TileInv
<1> QED
  BY <1>1, <1>5, <1>6

\* The inductive invariant of the pages.
PagesInv == PagesTyped /\ CockpitInv /\ QueueInv /\ TrendInv /\ TileInv

\* No page has been begun at first.
LEMMA PagesBegin == DashboardsInit => PagesInv
<1> SUFFICES ASSUME DashboardsInit PROVE PagesInv
  OBVIOUS
<1>1. PagesTyped
  BY FS_EmptySet, StatementOrder, StatementsInOrder DEF DashboardsInit, PagesTyped, TablesFinite
<1>2. answered = 0 /\ pending_approvals = {} /\ deciding = {}
  BY DEF DashboardsInit
<1> QED
  BY <1>1, <1>2 DEF PagesInv, CockpitInv, QueueInv, OneApprovalEach, TrendInv, TileInv

\* Every step keeps it.
LEMMA PagesInvKept == PagesInv /\ [DashboardsNext]_dashboardVars => PagesInv'
<1> SUFFICES ASSUME PagesInv, [DashboardsNext]_dashboardVars PROVE PagesInv'
  OBVIOUS
<1>1. PagesTyped'
  BY PagesTypedKept DEF PagesInv
<1>2. CASE Meanwhile
  BY <1>1, <1>2, CockpitWaits, QueueWaits, TrendWaits DEF PagesInv
<1>3. CASE Read
  BY <1>1, <1>3, CockpitReadsOn, QueueReadsOn, TrendReadsOn, TileReadsOn DEF PagesInv
<1>4. CASE UNCHANGED dashboardVars
  <2>1. CockpitInv' /\ TileInv'
    BY <1>4 DEF dashboardVars, PagesInv, CockpitInv, TileInv, From, After, Correlated, Agents
  <2>2. TrendInv'
    BY <1>4 DEF dashboardVars, PagesInv, TrendInv, DayOf, Sum
  <2>3. QueueInv'
    BY <1>4 DEF dashboardVars, PagesInv, QueueInv, OneApprovalEach, Decided, Settled, CountedByNone, Covers, DayOf
  <2> QED
    BY <1>1, <2>1, <2>2, <2>3 DEF PagesInv
<1> QED
  BY <1>2, <1>3, <1>4 DEF DashboardsNext, Meanwhile

\* It says that a page's figures add up once it is made.
LEMMA PagesInvSays == PagesInv => PagesAddUp
<1> SUFFICES ASSUME PagesInv PROVE PagesAddUp
  OBVIOUS
<1>1. TrendAddsUp
  <2> SUFFICES ASSUME Done("trend") PROVE TrendAddsUp
    BY DEF TrendAddsUp
  <2>1. page = "trend" /\ answered = 5
    BY StatementOrder DEF Done, Making, PagesInv, PagesTyped
  <2> QED
    BY <2>1 DEF PagesInv, TrendInv, TrendAddsUp
<1>2. TileAddsUp
  <2> SUFFICES ASSUME Done("tile") PROVE TileAddsUp
    BY DEF TileAddsUp
  <2>1. page = "tile" /\ answered = 2
    BY StatementOrder DEF Done, Making, PagesInv, PagesTyped
  <2> QED
    BY <2>1 DEF PagesInv, TileInv, TileAddsUp
<1>3. CockpitAddsUp /\ QueueAddsUp /\ ScopesAgree
  BY CockpitMade, QueueMade, ScopesAlwaysAgree DEF PagesInv, PagesTyped
<1> QED
  BY <1>1, <1>2, <1>3 DEF PagesAddUp

\* For any complaints, panels, limits and windows, and however many complaints,
\* chains and decisions are committed between the statements of a page, its
\* figures add up: the cockpit's tiles to its panels and its ranking, the
\* queue's list to its KPIs (but for decisions that none of them counts, however
\* long before its commit a decision is stamped), the trend's distributions to its
\* total and period, the tile's two counts, and the three scopes of the patterns to
\* each other.
THEOREM PagesAlwaysAddUp == DashboardsSpec => []PagesAddUp
<1>1. DashboardsSpec => []PagesInv
  BY PagesBegin, PagesInvKept, PTL DEF DashboardsSpec
<1> QED
  BY <1>1, PagesInvSays, PTL
-----------------------------------------------------------------------------
(* The connections of a process and its streams.                           *)

HIDE StatusAssumption DEF Statuses, Terminal, Checked, row, client

\* How many connections a request can have, by where it is.
HoldsFew ==
  \A u \in Users :
    /\ place[u] \in {"new", "over"} => Held(u) = {}
    /\ place[u] \in {"begun", "claiming", "working", "streaming"} =>
         \E k \in Connections : Held(u) \subseteq {k}
    /\ place[u] = "claimed" => \E k, l \in Connections : Held(u) \subseteq {k, l}

\* The inductive invariant.
PoolIInv == PoolTypeOK /\ HoldsFew

USE PoolAssumption DEF Users

\* What taking a connection and giving some back do to what others hold.
LEMMA Takes ==
  ASSUME PoolTypeOK, NEW u \in Users, TakeOne(u)
  PROVE  /\ holder' \in [Connections -> Users \union {NoUser}]
         /\ \A v \in Users \ {u} : Held(v)' = Held(v)
         /\ \E k \in Connections : Held(u)' = Held(u) \union {k}
<1>1. PICK k \in Connections : Free(k) /\ holder' = [holder EXCEPT ![k] = u]
  BY DEF TakeOne
<1>2. holder' \in [Connections -> Users \union {NoUser}]
  BY <1>1 DEF PoolTypeOK
<1>3. \A l \in Connections : holder'[l] = IF l = k THEN u ELSE holder[l]
  BY <1>1 DEF PoolTypeOK
<1>4. holder[k] = NoUser
  BY <1>1 DEF Free
<1>5. Held(u)' = Held(u) \union {k}
  BY <1>3 DEF Held
<1>6. \A v \in Users \ {u} : Held(v)' = Held(v)
  BY <1>3, <1>4 DEF Held
<1> QED BY <1>2, <1>5, <1>6

\* A request that ends leaves what the others hold alone.
LEMMA GivesBack ==
  ASSUME PoolTypeOK, NEW u \in Users, NEW K \in SUBSET Held(u), GiveBack(u, K)
  PROVE  /\ holder' \in [Connections -> Users \union {NoUser}]
         /\ \A v \in Users \ {u} : Held(v)' = Held(v)
         /\ Held(u)' = Held(u) \ K
<1>1. \A l \in Connections : holder'[l] = IF l \in K THEN NoUser ELSE holder[l]
  BY DEF GiveBack
<1>2. holder' \in [Connections -> Users \union {NoUser}]
  BY DEF GiveBack, PoolTypeOK
<1>3. \A l \in K : holder[l] = u
  BY DEF Held
<1>4. Held(u)' = Held(u) \ K
  BY <1>1, <1>3 DEF Held
<1>5. \A v \in Users \ {u} : Held(v)' = Held(v)
  BY <1>1, <1>3 DEF Held
<1> QED BY <1>2, <1>4, <1>5

\* A process starts with every connection free.
LEMMA InitPool == PoolInit => PoolIInv
<1> SUFFICES ASSUME PoolInit PROVE PoolIInv
  OBVIOUS
<1>1. PoolTypeOK
  BY DEF PoolInit, PoolTypeOK
<1>2. HoldsFew
  BY DEF PoolInit, HoldsFew, Held
<1> QED BY <1>1, <1>2 DEF PoolIInv

\* Every step of a request or a stream keeps the invariant.
LEMMA StepPool == PoolIInv /\ [PoolNext]_poolVars => PoolIInv'
<1> SUFFICES ASSUME PoolTypeOK, HoldsFew, [PoolNext]_poolVars
             PROVE  PoolTypeOK' /\ HoldsFew'
  BY DEF PoolIInv
<1>0. CASE UNCHANGED poolVars
  BY <1>0 DEF poolVars, PoolTypeOK, HoldsFew, Held
<1> SUFFICES ASSUME NEW u \in Users,
                    \/ StartSession(u) \/ AskForClaim(u) \/ OpenClaim(u)
                    \/ CloseClaim(u) \/ Finish(u) \/ TimesOut(u)
             PROVE  PoolTypeOK' /\ HoldsFew'
  BY <1>0 DEF PoolNext
<1>1. ASSUME NEW l, place' = [place EXCEPT ![u] = l]
      PROVE  place'[u] = l /\ \A v \in Users \ {u} : place'[v] = place[v]
  BY <1>1 DEF PoolTypeOK
<1>2. ASSUME \A v \in Users \ {u} : Held(v)' = Held(v) /\ place'[v] = place[v]
      PROVE  \A v \in Users \ {u} :
               /\ place'[v] \in {"new", "over"} => Held(v)' = {}
               /\ place'[v] \in {"begun", "claiming", "working", "streaming"} =>
                    \E k \in Connections : Held(v)' \subseteq {k}
               /\ place'[v] = "claimed" => \E k, l \in Connections : Held(v)' \subseteq {k, l}
  BY <1>2 DEF HoldsFew
<1>3. CASE StartSession(u)
  <2>1. /\ TakeOne(u) /\ Held(u) = {} /\ reads' = reads
        /\ place' = [place EXCEPT ![u] = IF u \in Streams THEN "streaming" ELSE "begun"]
    BY <1>3 DEF StartSession, HoldsFew, Goto
  <2>2. PICK k \in Connections : Held(u)' = {k}
    BY <2>1, Takes
  <2>3. PoolTypeOK'
    BY <2>1, Takes DEF PoolTypeOK
  <2>4. place'[u] \in {"streaming", "begun"}
    BY <2>1, <1>1
  <2>5. \A v \in Users \ {u} : Held(v)' = Held(v) /\ place'[v] = place[v]
    BY <2>1, Takes, <1>1
  <2>6. HoldsFew'
    BY <2>2, <2>4, <2>5, <1>2 DEF HoldsFew
  <2> QED BY <2>3, <2>6
<1>4. CASE AskForClaim(u)
  <2>1. /\ place[u] = "begun" /\ place' = [place EXCEPT ![u] = "claiming"]
        /\ holder' = holder /\ reads' = reads
    BY <1>4 DEF AskForClaim, Goto
  <2>2. \A v \in Users : Held(v)' = Held(v)
    BY <2>1 DEF Held
  <2>3. PoolTypeOK'
    BY <2>1 DEF PoolTypeOK
  <2>4. HoldsFew'
    BY <2>1, <2>2, <1>1, <1>2 DEF HoldsFew
  <2> QED BY <2>3, <2>4
<1>5. CASE OpenClaim(u)
  <2>1. /\ TakeOne(u) /\ place[u] = "claiming" /\ reads' = reads
        /\ place' = [place EXCEPT ![u] = "claimed"]
    BY <1>5 DEF OpenClaim, Goto
  <2>2. PICK k \in Connections : Held(u) \subseteq {k}
    BY <2>1 DEF HoldsFew
  <2>3. PICK l \in Connections : Held(u)' = Held(u) \union {l}
    BY <2>1, Takes
  <2>4. Held(u)' \subseteq {k, l}
    BY <2>2, <2>3
  <2>5. PoolTypeOK'
    BY <2>1, Takes DEF PoolTypeOK
  <2>6. \A v \in Users \ {u} : Held(v)' = Held(v) /\ place'[v] = place[v]
    BY <2>1, Takes, <1>1
  <2>7. place'[u] = "claimed"
    BY <2>1, <1>1
  <2>8. HoldsFew'
    BY <2>4, <2>6, <2>7, <1>2 DEF HoldsFew
  <2> QED BY <2>5, <2>8
<1>6. CASE CloseClaim(u)
  <2>1. PICK k \in Held(u) : GiveBack(u, {k})
    BY <1>6 DEF CloseClaim, ClaimsOwn
  <2>2. /\ place[u] = "claimed" /\ reads' \in [Users -> 0..MaxReads]
        /\ \/ place' = [place EXCEPT ![u] = "working"]
           \/ place' = [place EXCEPT ![u] = "claiming"]
    <3>1. CASE reads' = reads
      BY <1>6, <3>1 DEF CloseClaim, Goto, PoolTypeOK
    <3>2. CASE reads[u] < MaxReads /\ reads' = [reads EXCEPT ![u] = @ + 1]
      <4>1. reads[u] + 1 \in 0..MaxReads
        BY <3>2 DEF PoolTypeOK
      <4> QED BY <1>6, <3>2, <4>1 DEF CloseClaim, Goto, PoolTypeOK
    <3> QED BY <1>6, <3>1, <3>2 DEF CloseClaim
  <2>3. PICK i, j \in Connections : Held(u) \subseteq {i, j}
    BY <2>2 DEF HoldsFew
  <2>4. Held(u)' = Held(u) \ {k}
    BY <2>1, GivesBack
  <2>5. \E l \in Connections : Held(u)' \subseteq {l}
    BY <2>3, <2>4
  <2>6. PoolTypeOK'
    BY <2>1, <2>2, GivesBack DEF PoolTypeOK
  <2>7. \A v \in Users \ {u} : Held(v)' = Held(v)
    BY <2>1, GivesBack
  <2>8. HoldsFew'
    BY <2>2, <2>5, <2>7, <1>1, <1>2 DEF HoldsFew
  <2> QED BY <2>6, <2>8
<1>7. CASE Finish(u) \/ TimesOut(u)
  <2>1. /\ GiveBack(u, Held(u)) /\ place' = [place EXCEPT ![u] = "over"]
        /\ reads' = reads
    BY <1>7 DEF Finish, TimesOut, Goto
  <2>2. Held(u)' = {} /\ \A v \in Users \ {u} : Held(v)' = Held(v)
    BY <2>1, GivesBack
  <2>3. PoolTypeOK'
    BY <2>1, GivesBack DEF PoolTypeOK
  <2>4. HoldsFew'
    BY <2>1, <2>2, <1>1, <1>2 DEF HoldsFew
  <2> QED BY <2>3, <2>4
<1> QED BY <1>3, <1>4, <1>5, <1>6, <1>7

\* In a stalled process each connection has a user of its own.
LEMMA CrowdedWhenStalled == PoolIInv => StallsOnlyWhenCrowded
<1> SUFFICES ASSUME PoolTypeOK, HoldsFew, Stalled
             PROVE  Cardinality(UnderWay) >= Cardinality(Connections)
  BY DEF PoolIInv, StallsOnlyWhenCrowded
<1> DEFINE f == [k \in Connections |-> holder[k]]
<1>1. \A k \in Connections :
        holder[k] \in Users /\ place[holder[k]] \in {"claiming", "streaming"}
  BY DEF Stalled, Free, PoolTypeOK
<1>2. f \in [Connections -> UnderWay]
  BY <1>1 DEF UnderWay
<1>3. ASSUME NEW k \in Connections, NEW l \in Connections, f[k] = f[l]
      PROVE  k = l
  <2>1. k \in Held(holder[k]) /\ l \in Held(holder[k])
    BY <1>3 DEF Held
  <2>2. \E m \in Connections : Held(holder[k]) \subseteq {m}
    BY <1>1 DEF HoldsFew
  <2> QED BY <2>1, <2>2
<1>4. f \in Injection(Connections, UnderWay)
  BY <1>2, <1>3 DEF Injection, IsInjective
<1>5. IsFiniteSet(UnderWay)
  BY FS_Union, FS_Subset DEF UnderWay
<1>6. /\ Cardinality(Connections) <= Cardinality(UnderWay)
      /\ Cardinality(Connections) \in Nat /\ Cardinality(UnderWay) \in Nat
  BY <1>4, <1>5, FS_Injection, FS_CardinalityType
<1> QED BY <1>6

\* The claims' second connections stall a process only when as many requests and
\* streams are under way as its pool has connections (db/session.py,
\* dependencies/idempotency.py), whatever the size of the pool.
THEOREM PoolStalls == PoolSpec => []StallsOnlyWhenCrowded
<1>1. PoolSpec => []PoolIInv
  BY InitPool, StepPool, PTL DEF PoolSpec
<1> QED BY <1>1, CrowdedWhenStalled, PTL

-----------------------------------------------------------------------------
(* SSEBus                                                                  *)

Event == [id : Nat, fact : Facts]
Phases == {"closed", "opening", "greeted", "open"}

BusTypes ==
  /\ fact \in [Facts -> {"new", "published", "stored", "undone"}]
  /\ ring \in Seq(Event) /\ Len(ring) <= RingSize /\ nextId \in Nat \ {0}
  /\ stream \in [Viewers -> Phases]
  /\ resume \in [Viewers -> Nat \union {NoId}] /\ lastId \in [Viewers -> Nat \union {NoId}]
  /\ snapshot \in [Viewers -> SUBSET Facts]
  /\ backlog \in [Viewers -> Seq(Event)] /\ queue \in [Viewers -> Seq(Event)]
  /\ shown \in [Viewers -> [Facts -> Nat]]
  /\ received \in [Viewers -> Seq(Nat)]
  /\ DOMAIN lossy = Viewers /\ era \in [Viewers -> Nat] /\ reboots \in Nat
  /\ \A c \in Viewers : Len(queue[c]) <= QueueSize

In(s) == {s[i] : i \in DOMAIN s}
Pending(c) == In(backlog[c]) \union In(queue[c])
Ordered(s) == \A i, j \in DOMAIN s : i < j => s[i].id < s[j].id

\* The events of an era have an id and a fact of their own.
RingHolds ==
  /\ Ordered(ring)
  /\ \A e \in In(ring) : 0 < e.id /\ e.id < nextId /\ fact[e.fact] # "new"

\* The client's last id is one of this era.
Current(c) == lastId[c] # NoId /\ era[c] = reboots

\* An event that is not in the ring any more, and those before it.
Evicted(e) == ring # <<>> /\ e.id < Head(ring).id

\* Where a stream stands against its topic.
StreamHolds(c) ==
  /\ era[c] <= reboots /\ (Current(c) => lastId[c] < nextId)
  /\ stream[c] \in {"opening", "greeted"} => received[c] = <<>> /\ resume[c] \in {NoId, lastId[c]}
  /\ stream[c] = "greeted" /\ resume[c] = NoId => lastId[c] = 0 /\ era[c] = reboots
  /\ IsOpen(c) => \A i \in DOMAIN received[c] : received[c][i] < nextId
  /\ \A i, j \in DOMAIN received[c] : i < j => received[c][i] < received[c][j]

\* What is still to be sent comes after all that was sent.
PendingHolds(c) ==
  /\ ~IsOpen(c) => backlog[c] = <<>> /\ queue[c] = <<>>
  /\ Ordered(backlog[c]) /\ Ordered(queue[c])
  /\ \A b \in In(backlog[c]), q \in In(queue[c]) : b.id < q.id
  /\ \A e \in Pending(c) :
       /\ e.id < nextId /\ fact[e.fact] # "new" /\ (e \in In(ring) \/ Evicted(e))
       /\ \A i \in DOMAIN received[c] : received[c][i] < e.id
       /\ Current(c) => lastId[c] < e.id
  /\ \A x, y \in In(ring) \union Pending(c) : x.fact = y.fact => x.id = y.id

\* The fact may be counted once more.
Uncounted(c, f) == shown[c][f] = 0 \/ (f \in snapshot[c] /\ shown[c][f] = 1)

CountHolds(c) ==
  /\ snapshot[c] \subseteq Stored
  /\ \A f \in Facts : shown[c][f] <= 1 \/ (f \in snapshot[c] /\ shown[c][f] = 2)
  /\ \A f \in Facts : fact[f] = "new" => shown[c][f] = 0
  /\ \A e \in Pending(c) : Uncounted(c, e.fact)
  /\ \A e \in In(ring) : Uncounted(c, e.fact) \/ (Current(c) /\ e.id <= lastId[c])

\* The fact has been published and is not undone.
Live(f) == fact[f] \in {"published", "stored"}

\* A client that may have lost nothing sees what is live, or will.
NothingLost(c) ==
  ~lossy[c] =>
    /\ IsOpen(c) => Current(c) /\ \A f \in Facts : Live(f) =>
         shown[c][f] > 0 \/ \E e \in Pending(c) : e.fact = f
    /\ stream[c] = "greeted" /\ resume[c] = NoId => \A f \in Facts : Live(f) =>
         shown[c][f] > 0 \/ \E e \in In(ring) : e.fact = f
    /\ ~IsOpen(c) /\ Current(c) /\ ~(ring # <<>> /\ Head(ring).id > lastId[c] + 1) =>
         \A f \in Facts : Live(f) =>
           shown[c][f] > 0 \/ \E e \in In(ring) : e.fact = f /\ e.id > lastId[c]

StreamInv(c) == StreamHolds(c) /\ PendingHolds(c) /\ CountHolds(c) /\ NothingLost(c)

\* The inductive invariant.
BusInv == BusTypes /\ RingHolds /\ \A c \in Viewers : StreamInv(c)

\* The elements of a sequence after the first few.
LEMMA LastOnes ==
  ASSUME NEW S, NEW s \in Seq(S), NEW m \in 0..Len(s)
  PROVE  /\ SubSeq(s, m + 1, Len(s)) \in Seq(S)
         /\ Len(SubSeq(s, m + 1, Len(s))) = Len(s) - m
         /\ \A i \in 1..(Len(s) - m) : SubSeq(s, m + 1, Len(s))[i] = s[m + i]
<1> DEFINE n == Len(s)
           rest == SubSeq(s, m + 1, n)
<1>1. n \in Nat /\ m \in Nat /\ m <= n /\ m + 1 \in 1..(n + 1) /\ n \in (m + 1 - 1)..n
  OBVIOUS
<1>2. /\ rest \in Seq(S)
      /\ Len(rest) = IF m + 1 <= n THEN n - (m + 1) + 1 ELSE 0
      /\ \A i \in 1..(n - (m + 1) + 1) : rest[i] = s[(m + 1) + i - 1]
  BY <1>1, SubSeqProperties
<1> HIDE DEF n, rest
<1>3. Len(rest) = n - m
  BY <1>1, <1>2
<1>4. ASSUME NEW i \in 1..(n - m) PROVE rest[i] = s[m + i]
  <2>1. i \in 1..(n - (m + 1) + 1) /\ (m + 1) + i - 1 = m + i
    BY <1>1
  <2> QED
    BY <1>2, <2>1
<1> QED
  BY <1>2, <1>3, <1>4 DEF n, rest

\* What appending, and taking the head, do to the members of a sequence.
LEMMA InAppend ==
  ASSUME NEW S, NEW s \in Seq(S), NEW e \in S
  PROVE  Append(s, e) \in Seq(S) /\ In(Append(s, e)) = In(s) \union {e}
<1>1. /\ Append(s, e) \in Seq(S) /\ DOMAIN s = 1..Len(s) /\ Len(s) \in Nat
      /\ DOMAIN Append(s, e) = 1..(Len(s) + 1) /\ Append(s, e)[Len(s) + 1] = e
      /\ \A i \in 1..Len(s) : Append(s, e)[i] = s[i]
  OBVIOUS
<1>2. In(Append(s, e)) \subseteq In(s) \union {e}
  BY <1>1 DEF In
<1>3. In(s) \subseteq In(Append(s, e)) /\ e \in In(Append(s, e))
  BY <1>1 DEF In
<1> QED
  BY <1>1, <1>2, <1>3

\* See above.
LEMMA InTail ==
  ASSUME NEW S, NEW s \in Seq(S), s # <<>>
  PROVE  /\ Tail(s) \in Seq(S) /\ Head(s) \in S /\ Head(s) \in In(s)
         /\ In(s) = In(Tail(s)) \union {Head(s)}
<1>1. /\ Tail(s) \in Seq(S) /\ Head(s) \in S /\ Head(s) = s[1] /\ DOMAIN s = 1..Len(s) /\ Len(s) \in Nat
      /\ 1 \in DOMAIN s /\ DOMAIN Tail(s) = 1..(Len(s) - 1)
      /\ \A i \in 1..(Len(s) - 1) : Tail(s)[i] = s[i + 1]
  OBVIOUS
<1>2. In(Tail(s)) \subseteq In(s) /\ Head(s) \in In(s)
  BY <1>1 DEF In
<1>3. ASSUME NEW i \in DOMAIN s PROVE s[i] \in In(Tail(s)) \union {Head(s)}
  <2>1. CASE i = 1
    BY <1>1, <2>1
  <2>2. CASE i # 1
    <3>1. i - 1 \in 1..(Len(s) - 1) /\ s[i] = Tail(s)[i - 1]
      BY <1>1, <2>2
    <3> QED
      BY <1>1, <3>1 DEF In
  <2> QED
    BY <2>1, <2>2
<1>4. In(s) \subseteq In(Tail(s)) \union {Head(s)}
  BY <1>3 DEF In
<1> QED
  BY <1>1, <1>2, <1>4

\* The ids of a sequence keep growing if a newer event is appended, or the oldest is
\* taken.
LEMMA OrderedAppend ==
  ASSUME NEW s \in Seq(Event), NEW e \in Event, Ordered(s), \A x \in In(s) : x.id < e.id
  PROVE  Ordered(Append(s, e))
<1>1. /\ DOMAIN s = 1..Len(s) /\ Len(s) \in Nat
      /\ DOMAIN Append(s, e) = 1..(Len(s) + 1) /\ Append(s, e)[Len(s) + 1] = e
      /\ \A i \in 1..Len(s) : Append(s, e)[i] = s[i]
  OBVIOUS
<1>2. \A i \in 1..Len(s) : s[i].id < e.id
  BY <1>1 DEF In
<1> QED
  BY <1>1, <1>2 DEF Ordered

\* See above.
LEMMA OrderedTail ==
  ASSUME NEW s \in Seq(Event), s # <<>>, Ordered(s)
  PROVE  Ordered(Tail(s)) /\ \A x \in In(Tail(s)) : Head(s).id < x.id
<1>1. /\ Head(s) = s[1] /\ DOMAIN s = 1..Len(s) /\ Len(s) \in Nat
      /\ 1 \in DOMAIN s /\ DOMAIN Tail(s) = 1..(Len(s) - 1)
      /\ \A i \in 1..(Len(s) - 1) : Tail(s)[i] = s[i + 1]
  OBVIOUS
<1>2. Ordered(Tail(s))
  BY <1>1 DEF Ordered
<1>3. \A i \in 1..(Len(s) - 1) : s[1].id < s[i + 1].id
  BY <1>1 DEF Ordered
<1> QED
  BY <1>1, <1>2, <1>3 DEF In

\* A set of indices that has all below each of its members is an interval.
LEMMA Initial ==
  ASSUME NEW n \in Nat, NEW S \in SUBSET (1..n), \A i \in S, j \in 1..n : j < i => j \in S
  PROVE  Cardinality(S) \in 0..n /\ S = 1..Cardinality(S)
<1>1. \E m \in 0..n : S = 1..m
  <2>1. CASE S = 1..n
    BY <2>1
  <2>2. CASE S # 1..n
    <3> DEFINE T == {i \in 1..n : i \notin S}
    <3>1. T # {} /\ T \subseteq Nat
      <4>1. \E i \in 1..n : i \notin S
        BY <2>2
      <4> QED
        BY <4>1
    <3> HIDE DEF T
    <3>2. PICK k \in T : \A y \in T : ~(<<y, k>> \in OpToRel(<, Nat))
      BY <3>1, WFMin, NatLessThanWellFounded
    <3>3. \A y \in T : ~(y < k)
      BY <3>1, <3>2 DEF OpToRel
    <3>4. k \in 1..n /\ k \notin S /\ \A y \in 1..n : y < k => y \in S
      BY <3>3 DEF T
    <3>5. S = 1..(k - 1)
      <4>1. ASSUME NEW i \in S PROVE i \in 1..(k - 1)
        <5>1. i \in 1..n /\ i # k /\ ~(k < i)
          BY <3>4
        <5> QED
          BY <3>4, <5>1
      <4>2. ASSUME NEW i \in 1..(k - 1) PROVE i \in S
        BY <3>4
      <4> QED
        BY <4>1, <4>2
    <3> QED
      BY <3>4, <3>5
  <2> QED
    BY <2>1, <2>2
<1>2. PICK m \in 0..n : S = 1..m
  BY <1>1
<1>3. Cardinality(1..m) = m
  BY FS_Interval
<1> QED
  BY <1>2, <1>3

\* What a stream replays: the end of the ring, from the first newer event.
LEMMA NewerEvents ==
  ASSUME BusTypes, RingHolds, NEW id \in Nat \union {NoId}
  PROVE  /\ Newer(id) \in Seq(Event) /\ Ordered(Newer(id))
         /\ In(Newer(id)) = {e \in In(ring) : id = NoId \/ e.id > id}
<1> DEFINE n == Len(ring)
           old == {i \in DOMAIN ring : id # NoId /\ ring[i].id <= id}
           m == Cardinality(old)
<1>0. ring \in Seq(Event)
  BY DEF BusTypes
<1>1. n \in Nat /\ DOMAIN ring = 1..n /\ \A i \in 1..n : ring[i] \in Event /\ ring[i].id \in Nat
  <2>1. n \in Nat /\ DOMAIN ring = 1..n /\ \A i \in 1..n : ring[i] \in Event
    BY <1>0
  <2> QED
    BY <2>1 DEF Event
<1>2. \A i, j \in 1..n : i < j => ring[i].id < ring[j].id
  BY <1>1 DEF RingHolds, Ordered
<1>3. m \in 0..n /\ old = 1..m
  <2>1. old \in SUBSET (1..n)
    BY <1>1
  <2>2. \A i \in old, j \in 1..n : j < i => j \in old
    BY <1>1, <1>2, BusAssumption
  <2> HIDE DEF old
  <2> QED
    BY <1>1, <2>1, <2>2, Initial
<1>4. ASSUME NEW i \in 1..n PROVE i > m <=> (id = NoId \/ ring[i].id > id)
  <2>1. i \in old <=> id # NoId /\ ring[i].id <= id
    BY <1>1
  <2>2. i \in old <=> i <= m
    BY <1>1, <1>3
  <2>3. id # NoId => (ring[i].id <= id <=> ~(ring[i].id > id))
    BY <1>1
  <2> HIDE DEF old, m
  <2> QED
    BY <1>1, <1>3, <2>1, <2>2, <2>3
<1>5. Newer(id) = SubSeq(ring, m + 1, n)
  BY DEF Newer
<1> HIDE DEF old, m
<1>7. /\ Newer(id) \in Seq(Event) /\ Len(Newer(id)) = n - m
      /\ DOMAIN Newer(id) = 1..(n - m) /\ \A i \in 1..(n - m) : Newer(id)[i] = ring[m + i]
  <2>1. m \in Nat /\ n \in Nat /\ m + 1 \in 1..(n + 1)
    BY <1>1, <1>3
  <2>2. /\ SubSeq(ring, m + 1, n) \in Seq(Event) /\ Len(SubSeq(ring, m + 1, n)) = n - m
        /\ \A i \in 1..(n - m) : SubSeq(ring, m + 1, n)[i] = ring[m + i]
    BY <1>0, <1>3, LastOnes
  <2> QED
    BY <1>5, <2>1, <2>2
<1>8. Ordered(Newer(id))
  BY <1>1, <1>2, <1>3, <1>7 DEF Ordered
<1>9. In(Newer(id)) \subseteq {e \in In(ring) : id = NoId \/ e.id > id}
  <2>1. ASSUME NEW i \in 1..(n - m)
        PROVE  /\ m + i \in 1..n /\ m + i > m /\ Newer(id)[i] = ring[m + i]
    BY <1>1, <1>3, <1>7
  <2>2. ASSUME NEW i \in 1..(n - m)
        PROVE  Newer(id)[i] \in {e \in In(ring) : id = NoId \/ e.id > id}
    BY <1>1, <1>4, <2>1 DEF In
  <2> QED
    BY <1>7, <2>2 DEF In
<1>10. ASSUME NEW i \in 1..n, id = NoId \/ ring[i].id > id PROVE ring[i] \in In(Newer(id))
  <2>1. i - m \in 1..(n - m) /\ Newer(id)[i - m] = ring[i]
    BY <1>1, <1>3, <1>4, <1>7, <1>10
  <2> QED
    BY <1>7, <2>1 DEF In
<1>11. {e \in In(ring) : id = NoId \/ e.id > id} \subseteq In(Newer(id))
  BY <1>1, <1>10 DEF In
<1> QED
  BY <1>7, <1>8, <1>9, <1>11

\* What publishing does to the ring: the new event is its last, and at most the
\* oldest is evicted.
LEMMA Remembered ==
  ASSUME BusTypes, RingHolds, NEW f \in Facts
  PROVE  LET e == [id |-> nextId, fact |-> f]
             r == Remember(ring, e)
         IN  /\ r \in Seq(Event) /\ Len(r) <= RingSize /\ Ordered(r) /\ r # <<>>
             /\ e \in In(r) /\ In(r) \subseteq In(ring) \union {e}
             /\ Len(ring) # RingSize => In(ring) \subseteq In(r)
             /\ \A x \in In(ring) : x \notin In(r) => x.id < Head(r).id
             /\ ring # <<>> => Head(ring).id <= Head(r).id
<1> DEFINE e == [id |-> nextId, fact |-> f]
           all == Append(ring, e)
<1>1. e \in Event /\ ring \in Seq(Event) /\ Len(ring) \in Nat /\ e.id = nextId
      /\ RingSize \in Nat \ {0} /\ Len(ring) <= RingSize
  BY BusAssumption DEF BusTypes, Event
<1>2. \A x \in In(ring) : x.id < e.id /\ x.id \in Nat
  <2>1. \A x \in In(ring) : x \in Event
    BY <1>1 DEF In
  <2> QED
    BY <1>1, <2>1 DEF RingHolds, Event
<1>3. /\ all \in Seq(Event) /\ In(all) = In(ring) \union {e} /\ Ordered(all)
      /\ Len(all) = Len(ring) + 1 /\ all # <<>>
      /\ ring # <<>> => Head(all) = Head(ring)
  BY <1>1, <1>2, InAppend, OrderedAppend DEF RingHolds
<1> HIDE DEF e, all
<1>4. CASE Len(all) > RingSize
  <2>1. Remember(ring, e) = Tail(all) /\ Len(ring) = RingSize
    BY <1>1, <1>3, <1>4 DEF Remember, all
  <2>2. /\ Tail(all) \in Seq(Event) /\ In(all) = In(Tail(all)) \union {Head(all)}
        /\ Ordered(Tail(all)) /\ \A x \in In(Tail(all)) : Head(all).id < x.id
        /\ Len(Tail(all)) = Len(ring)
    BY <1>1, <1>3, InTail, OrderedTail
  <2>3. ring # <<>> /\ Head(ring) \in In(ring) /\ Head(all) = Head(ring)
    BY <1>1, <1>3, <2>1, InTail
  <2>4. Tail(all) # <<>> /\ Head(Tail(all)) \in In(Tail(all))
    <3>1. Len(Tail(all)) # 0
      BY <1>1, <2>1, <2>2
    <3>2. Tail(all) # <<>>
      <4>1. \A q : q = <<>> => Len(q) = 0
        OBVIOUS
      <4> QED
        BY <3>1, <4>1, Zenon
    <3> QED
      BY <2>2, <3>2, InTail
  <2>5. Head(ring).id \in Nat /\ Head(Tail(all)) \in Event
    BY <1>1, <1>2, <2>2, <2>3, <2>4, InTail
  <2>6. e \in In(Tail(all))
    BY <1>2, <1>3, <2>2, <2>3
  <2>7. Head(ring).id < Head(Tail(all)).id
    BY <2>2, <2>3, <2>4
  <2>8. \A x \in In(ring) : x \notin In(Tail(all)) => x = Head(ring)
    BY <1>3, <2>2, <2>3
  <2>9. Head(Tail(all)).id \in Nat
    BY <2>5 DEF Event
  <2> DEFINE r == Tail(all)
  <2>10. /\ r \in Seq(Event) /\ Len(r) <= RingSize /\ Ordered(r) /\ r # <<>>
         /\ e \in In(r) /\ In(r) \subseteq In(ring) \union {e}
    BY <1>1, <1>3, <2>1, <2>2, <2>4, <2>6
  <2>11. /\ \A x \in In(ring) : x \notin In(r) => x.id < Head(r).id
         /\ Head(ring).id <= Head(r).id
    <3>1. \A x \in In(ring) : x \notin In(r) => x.id < Head(r).id
      BY <2>7, <2>8, Zenon
    <3>2. \A a, b \in Nat : a < b => a <= b
      OBVIOUS
    <3> QED
      BY <2>5, <2>7, <2>9, <3>1, <3>2, Zenon
  <2> HIDE DEF r
  <2>12. Remember(ring, e) = r /\ Len(ring) = RingSize
    BY <2>1 DEF r
  <2> QED
    BY <2>10, <2>11, <2>12 DEF e
<1>5. CASE ~(Len(all) > RingSize)
  <2>1. Remember(ring, e) = all
    BY <1>5 DEF Remember, all
  <2>2. ring # <<>> => Head(ring).id \in Nat
    BY <1>1, <1>2, InTail
  <2> QED
    BY <1>1, <1>3, <1>5, <2>1, <2>2 DEF e
<1> QED
  BY <1>4, <1>5

\* The members of the ring and of what is pending are events.
LEMMA AllEvents ==
  ASSUME BusTypes
  PROVE  /\ \A e \in In(ring) : e \in Event /\ e.id \in Nat
         /\ \A c \in Viewers : \A e \in Pending(c) : e \in Event /\ e.id \in Nat
<1>1. \A s \in Seq(Event) : \A e \in In(s) : e \in Event
  BY DEF In
<1>2. ring \in Seq(Event) /\ \A c \in Viewers : backlog[c] \in Seq(Event) /\ queue[c] \in Seq(Event)
  BY DEF BusTypes
<1>3. \A c \in Viewers : \A e \in Pending(c) : e \in Event
  BY <1>1, <1>2 DEF Pending
<1> QED
  BY <1>1, <1>2, <1>3 DEF Event

\* Nothing is published and nobody is connected.
LEMMA BusBegins == BusInit => BusInv
<1> SUFFICES ASSUME BusInit PROVE BusInv
  OBVIOUS
<1>1. In(<<>>) = {}
  BY DEF In
<1>2. BusTypes
  BY BusAssumption DEF BusInit, BusTypes, Phases
<1>3. RingHolds
  BY <1>1 DEF BusInit, RingHolds, Ordered
<1>4. ASSUME NEW c \in Viewers PROVE StreamInv(c)
  <2>1. Pending(c) = {} /\ In(ring) = {}
    BY <1>1 DEF BusInit, Pending
  <2>2. StreamHolds(c)
    BY DEF BusInit, StreamHolds, Current, IsOpen
  <2>3. PendingHolds(c)
    BY <1>1, <2>1 DEF BusInit, PendingHolds, IsOpen, Ordered
  <2>4. CountHolds(c)
    BY <2>1 DEF BusInit, CountHolds
  <2>5. NothingLost(c)
    BY DEF BusInit, NothingLost, Current, IsOpen
  <2> QED
    BY <2>2, <2>3, <2>4, <2>5 DEF StreamInv
<1> QED
  BY <1>2, <1>3, <1>4 DEF BusInv

\* A step of another viewer's stream leaves a viewer as it is.
Alike(c) ==
  /\ stream'[c] = stream[c] /\ resume'[c] = resume[c] /\ snapshot'[c] = snapshot[c]
  /\ backlog'[c] = backlog[c] /\ queue'[c] = queue[c] /\ lastId'[c] = lastId[c]
  /\ shown'[c] = shown[c] /\ received'[c] = received[c] /\ lossy'[c] = lossy[c] /\ era'[c] = era[c]

\* See above.
LEMMA AlikeHolds ==
  ASSUME NEW c \in Viewers, StreamInv(c), Alike(c), UNCHANGED <<fact, topicState, reboots>>
  PROVE  StreamInv(c)'
<1>1. fact' = fact /\ ring' = ring /\ nextId' = nextId /\ reboots' = reboots
  BY DEF topicState
<1>2. StreamHolds(c)'
  BY <1>1 DEF StreamInv, StreamHolds, Alike, Current, IsOpen
<1>3. PendingHolds(c)'
  BY <1>1 DEF StreamInv, PendingHolds, Alike, Current, IsOpen, Pending, Evicted, In, Ordered
<1>4. CountHolds(c)'
  BY <1>1 DEF StreamInv, CountHolds, Alike, Current, Pending, Uncounted, Stored, In
<1>5. NothingLost(c)'
  BY <1>1 DEF StreamInv, NothingLost, Alike, Current, IsOpen, Pending, Live, In
<1> QED
  BY <1>2, <1>3, <1>4, <1>5 DEF StreamInv

\* An event is published: it is the newest there is.
LEMMA PublishKeeps ==
  ASSUME BusInv, NEW f \in Facts, Publish(f)
  PROVE  BusInv'
<1> DEFINE e == [id |-> nextId, fact |-> f]
<1>0. BusTypes /\ RingHolds /\ \A c \in Viewers : StreamInv(c)
  BY DEF BusInv
<1>1. /\ stream' = stream /\ resume' = resume /\ snapshot' = snapshot /\ backlog' = backlog
      /\ lastId' = lastId /\ shown' = shown /\ era' = era /\ received' = received
      /\ reboots' = reboots /\ nextId' = nextId + 1 /\ fact[f] = "new"
      /\ fact' = [fact EXCEPT ![f] = "published"] /\ ring' = Remember(ring, e)
  BY DEF Publish, opening, view, bounds
<1>2. /\ fact'[f] = "published" /\ \A g \in Facts : g # f => fact'[g] = fact[g]
      /\ nextId \in Nat \ {0}
  BY <1>0, <1>1 DEF BusTypes
<1>3. e \in Event /\ e.id = nextId /\ e.fact = f
  BY <1>2 DEF Event
<1>4. /\ ring' \in Seq(Event) /\ Len(ring') <= RingSize /\ Ordered(ring') /\ ring' # <<>>
      /\ e \in In(ring') /\ In(ring') \subseteq In(ring) \union {e}
      /\ Len(ring) # RingSize => In(ring) \subseteq In(ring')
      /\ \A x \in In(ring) : x \notin In(ring') => x.id < Head(ring').id
      /\ ring # <<>> => Head(ring).id <= Head(ring').id
  BY <1>0, <1>1, Remembered
<1>5. /\ \A x \in In(ring) : x \in Event /\ x.id \in Nat /\ 0 < x.id /\ x.id < nextId /\ fact[x.fact] # "new"
      /\ \A c \in Viewers : \A x \in Pending(c) : x \in Event /\ x.id \in Nat
  BY <1>0, AllEvents DEF RingHolds
<1>6. \A x \in In(ring) : x.fact # f /\ x.fact \in Facts
  BY <1>1, <1>5 DEF Event
<1> HIDE DEF e
<1>7. ASSUME NEW c \in Viewers
      PROVE  /\ queue'[c] \in Seq(Event) /\ Len(queue'[c]) <= QueueSize
             /\ In(queue[c]) \subseteq In(queue'[c]) /\ In(queue'[c]) \subseteq In(queue[c]) \union {e}
             /\ ~IsOpen(c) => queue'[c] = queue[c]
             /\ IsOpen(c) /\ Len(queue[c]) # QueueSize => e \in In(queue'[c])
             /\ queue'[c] \in {queue[c], Append(queue[c], e)}
  <2>1. /\ queue[c] \in Seq(Event) /\ Len(queue[c]) <= QueueSize /\ Len(queue[c]) \in Nat
        /\ QueueSize \in Nat
    BY <1>0, BusAssumption DEF BusTypes
  <2>2. queue'[c] = IF IsOpen(c) THEN PutNowait(queue[c], e) ELSE queue[c]
    BY DEF Publish, e
  <2>3. CASE IsOpen(c) /\ Len(queue[c]) < QueueSize
    <3>1. queue'[c] = Append(queue[c], e)
      BY <2>2, <2>3 DEF PutNowait
    <3>2. Len(Append(queue[c], e)) = Len(queue[c]) + 1
      BY <2>1
    <3> QED
      BY <1>3, <2>1, <2>3, <3>1, <3>2, InAppend
  <2>4. CASE ~(IsOpen(c) /\ Len(queue[c]) < QueueSize)
    BY <2>1, <2>2, <2>4 DEF PutNowait
  <2> QED
    BY <2>3, <2>4
<1>8. BusTypes'
  <2>1. fact' \in [Facts -> {"new", "published", "stored", "undone"}]
    BY <1>0, <1>1 DEF BusTypes
  <2>2. queue' \in [Viewers -> Seq(Event)] /\ DOMAIN lossy' = Viewers
    <3>1. queue' = [c \in Viewers |-> queue'[c]] /\ DOMAIN lossy' = Viewers
      BY DEF Publish
    <3> QED
      BY <1>7, <3>1
  <2> QED
    BY <1>0, <1>1, <1>2, <1>4, <1>7, <2>1, <2>2 DEF BusTypes
<1>9. RingHolds'
  <2>1. \A x \in In(ring') : x \in In(ring) \/ x = e
    BY <1>4
  <2>2. \A x \in In(ring) : fact'[x.fact] # "new"
    BY <1>2, <1>5, <1>6
  <2> QED
    BY <1>1, <1>2, <1>3, <1>4, <1>5, <2>1, <2>2 DEF RingHolds
<1>10. ASSUME NEW c \in Viewers PROVE StreamInv(c)'
  <2>1. StreamHolds(c) /\ PendingHolds(c) /\ CountHolds(c) /\ NothingLost(c)
    BY <1>0 DEF StreamInv
  <2>2. /\ IsOpen(c)' <=> IsOpen(c)
        /\ Current(c)' <=> Current(c)
        /\ \A g : Uncounted(c, g)' <=> Uncounted(c, g)
        /\ Pending(c) \subseteq Pending(c)' /\ Pending(c)' \subseteq Pending(c) \union {e}
    BY <1>1, <1>7 DEF IsOpen, Current, Uncounted, Pending
  <2>3. \A x \in Pending(c) : /\ x.fact \in Facts /\ x.fact # f /\ x.id < nextId
                              /\ fact'[x.fact] # "new" /\ (x \in In(ring) \/ Evicted(x))
    BY <1>1, <1>2, <1>5, <2>1 DEF PendingHolds, Event
  <2>4. lastId[c] # NoId => lastId[c] \in Nat
    BY <1>0 DEF BusTypes
  <2>5. StreamHolds(c)'
    <3>1. received[c] \in Seq(Nat)
      BY <1>0 DEF BusTypes
    <3>2. \A i \in DOMAIN received[c] : received[c][i] \in Nat
      BY <3>1
    <3> QED
      BY <1>1, <1>2, <2>1, <2>2, <2>4, <3>2 DEF StreamHolds, Current
  <2>6. \A x \in Pending(c)' : x \in In(ring') \/ Evicted(x)'
    <3>1. \A x \in Pending(c) : x \in In(ring) => x \in In(ring') \/ Evicted(x)'
      BY <1>4 DEF Evicted
    <3>2. ASSUME NEW x \in Pending(c), Evicted(x) PROVE Evicted(x)'
      <4>1. ring # <<>> /\ x.id < Head(ring).id /\ Head(ring).id <= Head(ring').id
        BY <1>4, <3>2 DEF Evicted
      <4>2. x.id \in Nat /\ Head(ring).id \in Nat /\ Head(ring').id \in Nat
        <5>1. ring \in Seq(Event)
          BY <1>0 DEF BusTypes
        <5>2. Head(ring) \in Event /\ Head(ring') \in Event
          BY <1>4, <4>1, <5>1, InTail
        <5> QED
          BY <1>5, <5>2 DEF Event
      <4> QED
        BY <1>4, <4>1, <4>2 DEF Evicted
    <3> QED
      BY <1>4, <2>2, <2>3, <3>1, <3>2
  <2>7. PendingHolds(c)'
    <3>1. ~IsOpen(c)' => backlog'[c] = <<>> /\ queue'[c] = <<>>
      BY <1>1, <1>7, <2>1, <2>2 DEF PendingHolds
    <3>2. Ordered(backlog[c])' /\ Ordered(queue[c])'
      <4>1. \A x \in In(queue[c]) : x.id < e.id
        BY <1>3, <2>3 DEF Pending
      <4>2. queue[c] \in Seq(Event) /\ Ordered(queue[c]) /\ Ordered(backlog[c])
        BY <1>0, <2>1 DEF BusTypes, PendingHolds
      <4>3. Ordered(Append(queue[c], e))
        BY <1>3, <4>1, <4>2, OrderedAppend
      <4> QED
        BY <1>1, <1>7, <4>2, <4>3
    <3>3. \A b \in In(backlog'[c]), q \in In(queue'[c]) : b.id < q.id
      <4>1. \A b \in In(backlog[c]) : b.id < e.id
        BY <1>3, <2>3 DEF Pending
      <4> QED
        BY <1>1, <1>7, <2>1, <4>1 DEF PendingHolds
    <3>4. ASSUME NEW x \in Pending(c)'
          PROVE  /\ x.id < nextId' /\ fact'[x.fact] # "new"
                 /\ \A i \in DOMAIN received'[c] : received'[c][i] < x.id
                 /\ Current(c)' => lastId'[c] < x.id
      <4>1. CASE x \in Pending(c)
        BY <1>1, <1>2, <1>5, <2>1, <2>2, <2>3, <4>1 DEF PendingHolds
      <4>2. CASE x = e
        <5>1. IsOpen(c) \/ x \in Pending(c)
          BY <1>1, <1>7 DEF Pending
        <5> QED
          BY <1>1, <1>2, <1>3, <2>1, <2>2, <4>1, <4>2, <5>1 DEF StreamHolds
      <4> QED
        BY <2>2, <4>1, <4>2
    <3>5. \A x, y \in In(ring') \union Pending(c)' : x.fact = y.fact => x.id = y.id
      <4>1. \A x \in In(ring') \union Pending(c)' : x = e \/ (x \in In(ring) \union Pending(c) /\ x.fact # f)
        BY <1>4, <1>6, <2>2, <2>3
      <4>2. \A x, y \in In(ring) \union Pending(c) : x.fact = y.fact => x.id = y.id
        BY <2>1 DEF PendingHolds
      <4> QED
        BY <1>3, <4>1, <4>2
    <3> QED
      BY <2>6, <3>1, <3>2, <3>3, <3>4, <3>5 DEF PendingHolds
  <2>8. CountHolds(c)'
    <3>1. Stored' = Stored
      BY <1>1, <1>2 DEF Stored
    <3>2. Uncounted(c, f)
      BY <1>1, <2>1 DEF CountHolds, Uncounted
    <3>3. \A x \in Pending(c)' : Uncounted(c, x.fact)
      BY <1>3, <2>1, <2>2, <3>2 DEF CountHolds
    <3>4. \A x \in In(ring') : Uncounted(c, x.fact) \/ (Current(c) /\ x.id <= lastId[c])
      BY <1>3, <1>4, <2>1, <3>2 DEF CountHolds
    <3>5. \A g \in Facts : fact'[g] = "new" => shown[c][g] = 0
      BY <1>2, <2>1 DEF CountHolds
    <3> QED
      BY <1>1, <2>1, <2>2, <3>1, <3>3, <3>4, <3>5 DEF CountHolds
  <2>9. NothingLost(c)'
    <3> SUFFICES ASSUME ~lossy'[c] PROVE NothingLost(c)'
      BY DEF NothingLost
    <3>1. /\ ~lossy[c] /\ ~(IsOpen(c) /\ Len(queue[c]) = QueueSize)
          /\ ~(Len(ring) = RingSize /\ stream[c] = "greeted")
      BY DEF Publish
    <3>2. \A g \in Facts : Live(g)' => g = f \/ Live(g)
      BY <1>2 DEF Live
    <3>3. IsOpen(c)' => Current(c)' /\ \A g \in Facts : Live(g)' =>
            shown'[c][g] > 0 \/ \E x \in Pending(c)' : x.fact = g
      <4> SUFFICES ASSUME IsOpen(c)
                   PROVE  Current(c) /\ \A g \in Facts : Live(g)' =>
                            shown[c][g] > 0 \/ \E x \in Pending(c)' : x.fact = g
        BY <1>1, <2>2
      <4>1. e \in Pending(c)'
        BY <1>7, <3>1 DEF Pending
      <4> QED
        BY <1>3, <2>1, <2>2, <3>1, <3>2, <4>1 DEF NothingLost
    <3>4. stream'[c] = "greeted" /\ resume'[c] = NoId => \A g \in Facts : Live(g)' =>
            shown'[c][g] > 0 \/ \E x \in In(ring') : x.fact = g
      BY <1>1, <1>3, <1>4, <2>1, <3>1, <3>2 DEF NothingLost
    <3>5. ASSUME ~IsOpen(c), Current(c), ~(ring' # <<>> /\ Head(ring').id > lastId[c] + 1),
                 NEW g \in Facts, Live(g)'
          PROVE  shown[c][g] > 0 \/ \E x \in In(ring') : x.fact = g /\ x.id > lastId[c]
      <4>1. lastId[c] \in Nat /\ lastId[c] < nextId /\ Head(ring').id \in Nat /\ Head(ring').id <= lastId[c] + 1
        <5>1. Head(ring') \in Event
          BY <1>4, InTail
        <5> QED
          BY <1>4, <2>1, <2>4, <3>5, <5>1 DEF StreamHolds, Current, Event
      <4>2. CASE g = f
        BY <1>3, <1>4, <4>1, <4>2
      <4>3. CASE g # f
        <5>1. ~(ring # <<>> /\ Head(ring).id > lastId[c] + 1)
          <6>1. ring # <<>> => Head(ring).id \in Nat
            <7>1. ring \in Seq(Event)
              BY <1>0 DEF BusTypes
            <7> QED
              BY <1>5, <7>1, InTail
          <6> QED
            BY <1>4, <4>1, <6>1
        <5>2. shown[c][g] > 0 \/ \E x \in In(ring) : x.fact = g /\ x.id > lastId[c]
          BY <2>1, <3>1, <3>2, <3>5, <4>3, <5>1 DEF NothingLost
        <5>3. ASSUME NEW x \in In(ring), x.id > lastId[c] PROVE x \in In(ring')
          BY <1>4, <1>5, <4>1, <5>3
        <5> QED
          BY <5>2, <5>3
      <4> QED
        BY <4>2, <4>3
    <3> QED
      BY <1>1, <2>2, <3>3, <3>4, <3>5 DEF NothingLost
  <2> QED
    BY <2>5, <2>7, <2>8, <2>9 DEF StreamInv
<1> QED
  BY <1>8, <1>9, <1>10 DEF BusInv

\* The ingestion of a fact ends.
LEMMA FactEnds ==
  ASSUME BusInv, NEW f \in Facts, CommitFact(f)
  PROVE  BusInv'
<1>0. BusTypes /\ RingHolds /\ \A c \in Viewers : StreamInv(c)
  BY DEF BusInv
<1>1. /\ stream' = stream /\ resume' = resume /\ snapshot' = snapshot /\ backlog' = backlog
      /\ queue' = queue /\ lossy' = lossy /\ ring' = ring /\ nextId' = nextId
      /\ lastId' = lastId /\ shown' = shown /\ era' = era /\ received' = received
      /\ reboots' = reboots
  BY DEF CommitFact, topicState, opening, view, bounds
<1>2. /\ fact[f] = "published" /\ fact'[f] \in {"stored", "undone"}
      /\ \A g \in Facts : g # f => fact'[g] = fact[g]
      /\ fact' \in [Facts -> {"new", "published", "stored", "undone"}]
  BY <1>0 DEF BusTypes, CommitFact
<1>3. BusTypes'
  BY <1>0, <1>1, <1>2 DEF BusTypes
<1>4. /\ \A e \in In(ring) : e \in Event
      /\ \A c \in Viewers : \A e \in Pending(c) : e \in Event
  BY <1>0, AllEvents
<1>5. RingHolds'
  BY <1>0, <1>1, <1>2, <1>4 DEF RingHolds, Event
<1>6. ASSUME NEW c \in Viewers PROVE StreamInv(c)'
  <2>1. StreamHolds(c) /\ PendingHolds(c) /\ CountHolds(c) /\ NothingLost(c)
    BY <1>0 DEF StreamInv
  <2>2. /\ IsOpen(c)' <=> IsOpen(c)
        /\ Current(c)' <=> Current(c)
        /\ \A g : Uncounted(c, g)' <=> Uncounted(c, g)
        /\ \A e : Evicted(e)' <=> Evicted(e)
        /\ Pending(c)' = Pending(c)
    BY <1>1 DEF IsOpen, Current, Uncounted, Pending, Evicted
  <2>3. StreamHolds(c)'
    BY <1>1, <2>1, <2>2 DEF StreamHolds
  <2>4. PendingHolds(c)'
    <3>1. \A e \in Pending(c) : fact'[e.fact] # "new"
      BY <1>2, <1>4, <2>1 DEF PendingHolds, Event
    <3> QED
      BY <1>1, <2>1, <2>2, <3>1 DEF PendingHolds
  <2>5. CountHolds(c)'
    <3>1. Stored \subseteq Stored'
      BY <1>2 DEF Stored
    <3>2. \A g \in Facts : fact'[g] = "new" => fact[g] = "new"
      BY <1>2
    <3> QED
      BY <1>1, <2>1, <2>2, <3>1, <3>2 DEF CountHolds
  <2>6. NothingLost(c)'
    <3>1. \A g \in Facts : Live(g)' => Live(g)
      BY <1>2 DEF Live
    <3> QED
      BY <1>1, <2>1, <2>2, <3>1 DEF NothingLost
  <2> QED
    BY <2>3, <2>4, <2>5, <2>6 DEF StreamInv
<1> QED
  BY <1>3, <1>5, <1>6 DEF BusInv

\* A viewer's step is about the viewer alone.
LEMMA OneStream ==
  ASSUME BusInv, NEW c \in Viewers, UNCHANGED <<fact, topicState, reboots>>,
         BusTypes', StreamInv(c)', \A d \in Viewers : d # c => Alike(d)
  PROVE  BusInv'
<1>1. \A d \in Viewers : d # c => StreamInv(d)'
  BY AlikeHolds DEF BusInv
<1>2. RingHolds'
  BY DEF BusInv, RingHolds, topicState, In, Ordered
<1> QED
  BY <1>1, <1>2 DEF BusInv

\* A client connects.
LEMMA OpenKeeps ==
  ASSUME BusInv, NEW c \in Viewers, Open(c)
  PROVE  BusInv'
<1>0. BusTypes /\ RingHolds /\ StreamInv(c)
  BY DEF BusInv
<1>1. /\ stream[c] = "closed" /\ stream' = [stream EXCEPT ![c] = "opening"]
      /\ snapshot' = [snapshot EXCEPT ![c] = Stored] /\ received' = [received EXCEPT ![c] = <<>>]
      /\ fact' = fact /\ ring' = ring /\ nextId' = nextId /\ backlog' = backlog /\ queue' = queue
      /\ lastId' = lastId /\ shown' = shown /\ era' = era /\ lossy' = lossy /\ reboots' = reboots
  BY DEF Open, topicState, view
<1>2. PICK id \in {NoId, lastId[c]} : resume' = [resume EXCEPT ![c] = id]
  BY DEF Open
<1>3. /\ stream'[c] = "opening" /\ snapshot'[c] = Stored /\ received'[c] = <<>> /\ resume'[c] = id
      /\ \A d \in Viewers : d # c => Alike(d)
  BY <1>0, <1>1, <1>2 DEF BusTypes, Alike
<1>4. BusTypes'
  <2>1. Stored \in SUBSET Facts /\ id \in Nat \union {NoId}
    BY <1>0, <1>2 DEF Stored, BusTypes
  <2> QED
    BY <1>0, <1>1, <1>2, <2>1 DEF BusTypes, Phases
<1>5. StreamHolds(c) /\ PendingHolds(c) /\ CountHolds(c) /\ NothingLost(c)
  BY <1>0 DEF StreamInv
<1>6. /\ ~IsOpen(c)' /\ ~IsOpen(c) /\ (Current(c)' <=> Current(c)) /\ Pending(c)' = Pending(c)
      /\ \A e : Evicted(e)' <=> Evicted(e)
      /\ \A g : Live(g)' <=> Live(g)
  BY <1>1, <1>3 DEF IsOpen, Current, Pending, Evicted, Live
<1>7. StreamHolds(c)'
  BY <1>1, <1>2, <1>3, <1>5, <1>6 DEF StreamHolds
<1>8. PendingHolds(c)'
  BY <1>1, <1>3, <1>5, <1>6 DEF PendingHolds
<1>9. CountHolds(c)'
  <2>1. Stored' = Stored /\ snapshot[c] \subseteq snapshot'[c]
    BY <1>1, <1>3, <1>5 DEF Stored, CountHolds
  <2>2. \A g : Uncounted(c, g) => Uncounted(c, g)'
    BY <1>1, <2>1 DEF Uncounted
  <2> QED
    BY <1>1, <1>3, <1>5, <1>6, <2>1, <2>2 DEF CountHolds
<1>10. NothingLost(c)'
  BY <1>1, <1>3, <1>5, <1>6 DEF NothingLost
<1>11. StreamInv(c)'
  BY <1>7, <1>8, <1>9, <1>10 DEF StreamInv
<1> QED
  BY <1>1, <1>3, <1>4, <1>11, OneStream DEF topicState

\* A fresh client takes the snapshot for its view.
LEMMA GreetKeeps ==
  ASSUME BusInv, NEW c \in Viewers, Greet(c)
  PROVE  BusInv'
<1>0. BusTypes /\ RingHolds /\ StreamInv(c)
  BY DEF BusInv
<1>1. /\ stream[c] = "opening" /\ stream' = [stream EXCEPT ![c] = "greeted"]
      /\ fact' = fact /\ ring' = ring /\ nextId' = nextId /\ backlog' = backlog /\ queue' = queue
      /\ resume' = resume /\ snapshot' = snapshot /\ received' = received /\ reboots' = reboots
  BY DEF Greet, topicState, opening, bounds
<1>2. stream'[c] = "greeted" /\ \A d \in Viewers : d # c => stream'[d] = stream[d]
  BY <1>0, <1>1 DEF BusTypes
<1>3. StreamHolds(c) /\ PendingHolds(c) /\ CountHolds(c) /\ NothingLost(c)
  BY <1>0 DEF StreamInv
<1>4. /\ ~IsOpen(c)' /\ ~IsOpen(c) /\ Pending(c)' = Pending(c) /\ Pending(c) = {}
      /\ \A e : Evicted(e)' <=> Evicted(e)
      /\ \A g : Live(g)' <=> Live(g)
      /\ Stored' = Stored
  BY <1>1, <1>2, <1>3 DEF IsOpen, Pending, Evicted, Live, Stored, PendingHolds, In
<1>5. CASE resume[c] = NoId
  <2> DEFINE fresh == [f \in Facts |-> IF f \in snapshot[c] THEN 1 ELSE 0]
  <2>1. /\ lastId' = [lastId EXCEPT ![c] = 0] /\ era' = [era EXCEPT ![c] = reboots]
        /\ shown' = [shown EXCEPT ![c] = fresh] /\ lossy' = [lossy EXCEPT ![c] = GoneFor(c)]
    BY <1>5 DEF Greet
  <2>2. fresh \in [Facts -> Nat]
    OBVIOUS
  <2>3. \A f \in Facts : /\ f \in snapshot[c] => fresh[f] = 1
                         /\ f \notin snapshot[c] => fresh[f] = 0
    OBVIOUS
  <2> HIDE DEF fresh
  <2>4. /\ lastId'[c] = 0 /\ era'[c] = reboots /\ shown'[c] = fresh /\ lossy'[c] = GoneFor(c)
        /\ \A d \in Viewers : d # c => Alike(d)
    BY <1>0, <1>1, <1>2, <2>1 DEF BusTypes, Alike
  <2>5. BusTypes'
    BY <1>0, <1>1, <2>1, <2>2 DEF BusTypes, Phases
  <2>6. Current(c)'
    BY <1>1, <2>4, BusAssumption DEF Current
  <2>7. nextId \in Nat \ {0} /\ reboots \in Nat
    BY <1>0 DEF BusTypes
  <2>8. StreamHolds(c)'
    BY <1>1, <1>2, <1>3, <1>4, <1>5, <2>4, <2>6, <2>7 DEF StreamHolds
  <2>9. PendingHolds(c)'
    BY <1>1, <1>3, <1>4 DEF PendingHolds
  <2>10. \A g \in Facts : Uncounted(c, g)'
    BY <1>1, <2>3, <2>4 DEF Uncounted
  <2>11. \A e \in In(ring) : e.fact \in Facts /\ 0 < e.id
    BY <1>0, AllEvents DEF Event, RingHolds
  <2>12. CountHolds(c)'
    <3>1. \A g \in Facts : fact[g] = "new" => g \notin snapshot[c]
      BY <1>3 DEF CountHolds, Stored
    <3> QED
      BY <1>1, <1>3, <1>4, <2>3, <2>4, <2>10, <2>11, <3>1 DEF CountHolds
  <2>13. ASSUME ~lossy'[c], NEW g \in Facts, Live(g)
         PROVE  shown'[c][g] > 0 \/ \E e \in In(ring) : e.fact = g /\ e.id > 0
    <3>1. ~GoneFor(c)
      BY <2>4, <2>13
    <3>2. CASE g \in snapshot[c]
      BY <2>3, <2>4, <3>2
    <3>3. CASE g \notin snapshot[c]
      <4>1. PICK i \in DOMAIN ring : ring[i].fact = g
        BY <2>13, <3>1, <3>3 DEF GoneFor, Live
      <4> QED
        BY <2>11, <4>1 DEF In
    <3> QED
      BY <3>2, <3>3
  <2>14. NothingLost(c)'
    BY <1>1, <1>4, <2>4, <2>13 DEF NothingLost
  <2>15. StreamInv(c)'
    BY <2>8, <2>9, <2>12, <2>14 DEF StreamInv
  <2> QED
    BY <1>1, <2>4, <2>5, <2>15, OneStream DEF topicState
<1>6. CASE resume[c] # NoId
  <2>1. lastId' = lastId /\ era' = era /\ shown' = shown /\ lossy' = lossy
    BY <1>6 DEF Greet, view
  <2>2. \A d \in Viewers : d # c => Alike(d)
    BY <1>1, <1>2, <2>1 DEF Alike
  <2>3. BusTypes'
    BY <1>0, <1>1, <2>1 DEF BusTypes, Phases
  <2>4. (Current(c)' <=> Current(c)) /\ \A g : Uncounted(c, g)' <=> Uncounted(c, g)
    BY <1>1, <2>1 DEF Current, Uncounted
  <2>5. StreamHolds(c)'
    BY <1>1, <1>2, <1>3, <1>4, <1>6, <2>1, <2>4 DEF StreamHolds
  <2>6. PendingHolds(c)'
    BY <1>1, <1>3, <1>4 DEF PendingHolds
  <2>7. CountHolds(c)'
    BY <1>1, <1>3, <1>4, <2>1, <2>4 DEF CountHolds
  <2>8. NothingLost(c)'
    BY <1>1, <1>2, <1>3, <1>4, <1>6, <2>1, <2>4 DEF NothingLost
  <2>9. StreamInv(c)'
    BY <2>5, <2>6, <2>7, <2>8 DEF StreamInv
  <2> QED
    BY <1>1, <2>1, <2>2, <2>3, <2>9, OneStream DEF topicState
<1> QED
  BY <1>5, <1>6

\* A stream is attached: what is newer than its resumption comes first.
LEMMA SubscribeKeeps ==
  ASSUME BusInv, NEW c \in Viewers, Subscribe(c)
  PROVE  BusInv'
<1> DEFINE gap == resume[c] # NoId /\ (era[c] # reboots \/ (ring # <<>> /\ ring[1].id > resume[c] + 1))
<1>0. BusTypes /\ RingHolds /\ StreamInv(c)
  BY DEF BusInv
<1>1. /\ stream[c] = "greeted" /\ stream' = [stream EXCEPT ![c] = "open"]
      /\ backlog' = [backlog EXCEPT ![c] = Newer(resume[c])] /\ queue' = [queue EXCEPT ![c] = <<>>]
      /\ fact' = fact /\ ring' = ring /\ nextId' = nextId /\ lastId' = lastId /\ shown' = shown
      /\ era' = era /\ resume' = resume /\ snapshot' = snapshot /\ received' = received
      /\ reboots' = reboots
  BY DEF Subscribe, topicState, opening, view, bounds
<1>2. lossy' = [lossy EXCEPT ![c] = @ \/ gap]
  BY DEF Subscribe
<1>3. StreamHolds(c) /\ PendingHolds(c) /\ CountHolds(c) /\ NothingLost(c)
  BY <1>0 DEF StreamInv
<1>4. /\ stream'[c] = "open" /\ backlog'[c] = Newer(resume[c]) /\ queue'[c] = <<>>
      /\ DOMAIN lossy' = Viewers
      /\ \A d \in Viewers : d # c => Alike(d)
  BY <1>0, <1>1, <1>2 DEF BusTypes, Alike
<1>5. ~lossy'[c] => ~lossy[c] /\ ~gap
  BY <1>0, <1>2 DEF BusTypes
<1>6. resume[c] \in Nat \union {NoId}
  BY <1>0 DEF BusTypes
<1>7. /\ Newer(resume[c]) \in Seq(Event) /\ Ordered(Newer(resume[c]))
      /\ In(Newer(resume[c])) = {e \in In(ring) : resume[c] = NoId \/ e.id > resume[c]}
  BY <1>0, <1>6, NewerEvents
<1>8. BusTypes'
  <2>1. <<>> \in Seq(Event) /\ Len(<<>>) <= QueueSize
    BY BusAssumption
  <2> QED
    BY <1>0, <1>1, <1>4, <1>7, <2>1 DEF BusTypes, Phases
<1>9. In(<<>>) = {} /\ Ordered(<<>>)
  BY DEF In, Ordered
<1>10. /\ IsOpen(c)' /\ (Current(c)' <=> Current(c))
       /\ Pending(c)' = {e \in In(ring) : resume[c] = NoId \/ e.id > resume[c]}
       /\ \A g : Uncounted(c, g)' <=> Uncounted(c, g)
       /\ \A g : Live(g)' <=> Live(g)
       /\ Stored' = Stored
  BY <1>1, <1>4, <1>7, <1>9 DEF IsOpen, Current, Pending, Uncounted, Live, Stored
<1>11. received[c] = <<>> /\ resume[c] \in {NoId, lastId[c]} /\ (resume[c] = NoId => lastId[c] = 0 /\ era[c] = reboots)
  BY <1>1, <1>3 DEF StreamHolds
<1>12. \A e \in Pending(c)' : lastId[c] # NoId => lastId[c] < e.id
  BY <1>0, <1>6, <1>10, <1>11 DEF RingHolds
<1>13. StreamHolds(c)'
  BY <1>1, <1>3, <1>4, <1>10, <1>11 DEF StreamHolds
<1>14. PendingHolds(c)'
  <2>1. \A e \in Pending(c)' : /\ e.id < nextId /\ fact[e.fact] # "new" /\ e \in In(ring)
                               /\ Current(c) => lastId[c] < e.id
    BY <1>0, <1>10, <1>12 DEF RingHolds, Current
  <2>2. \A x, y \in In(ring) : x.fact = y.fact => x.id = y.id
    BY <1>3 DEF PendingHolds
  <2> QED
    BY <1>1, <1>4, <1>7, <1>9, <1>10, <1>11, <2>1, <2>2 DEF PendingHolds
<1>15. CountHolds(c)'
  <2>1. \A e \in In(ring) : e.id \in Nat
    BY <1>0, AllEvents
  <2>2. ASSUME NEW e \in Pending(c)' PROVE Uncounted(c, e.fact)
    <3>1. e \in In(ring) /\ e.id \in Nat /\ (lastId[c] # NoId => lastId[c] \in Nat /\ lastId[c] < e.id)
      BY <1>0, <1>10, <1>12, <2>1 DEF BusTypes
    <3> QED
      BY <1>3, <3>1 DEF CountHolds, Current
  <2> QED
    BY <1>1, <1>3, <1>10, <2>2 DEF CountHolds
<1>16. NothingLost(c)'
  <2> SUFFICES ASSUME ~lossy'[c]
               PROVE  Current(c) /\ \A g \in Facts : Live(g) =>
                        shown[c][g] > 0 \/ \E e \in Pending(c)' : e.fact = g
    BY <1>1, <1>10 DEF NothingLost
  <2>1. ~lossy[c] /\ ~gap
    BY <1>5
  <2>2. Current(c)
    BY <1>11, <2>1, BusAssumption DEF Current
  <2>3. CASE resume[c] = NoId
    BY <1>1, <1>3, <1>10, <2>1, <2>2, <2>3 DEF NothingLost
  <2>4. CASE resume[c] # NoId
    <3>1. resume[c] = lastId[c]
      BY <1>11, <2>4
    <3>2. ring # <<>> => Head(ring) = ring[1]
      OBVIOUS
    <3>3. ~IsOpen(c) /\ ~(ring # <<>> /\ Head(ring).id > lastId[c] + 1)
      BY <1>1, <2>1, <2>4, <3>1, <3>2 DEF IsOpen
    <3> QED
      BY <1>3, <1>10, <2>1, <2>2, <3>1, <3>3 DEF NothingLost
  <2> QED
    BY <2>2, <2>3, <2>4
<1>17. StreamInv(c)'
  BY <1>13, <1>14, <1>15, <1>16 DEF StreamInv
<1> QED
  BY <1>1, <1>4, <1>8, <1>17, OneStream DEF topicState

\* The event that is sent is the oldest of those that are pending.
LEMMA NextIsOldest ==
  ASSUME BusTypes, NEW c \in Viewers, PendingHolds(c), Send(c)
  PROVE  LET e == NextEvent(c)
         IN  /\ backlog' \in [Viewers -> Seq(Event)] /\ queue' \in [Viewers -> Seq(Event)]
             /\ Len(queue'[c]) <= QueueSize
             /\ \A d \in Viewers : d # c => backlog'[d] = backlog[d] /\ queue'[d] = queue[d]
             /\ Ordered(backlog'[c]) /\ Ordered(queue'[c])
             /\ In(backlog'[c]) \subseteq In(backlog[c]) /\ In(queue'[c]) \subseteq In(queue[c])
             /\ e \in Event /\ Pending(c) = Pending(c)' \union {e}
             /\ \A x \in Pending(c)' : e.id < x.id
<1> DEFINE e == NextEvent(c)
<1>1. /\ backlog \in [Viewers -> Seq(Event)] /\ queue \in [Viewers -> Seq(Event)]
      /\ Len(queue[c]) <= QueueSize /\ QueueSize \in Nat
      /\ Ordered(backlog[c]) /\ Ordered(queue[c])
      /\ \A b \in In(backlog[c]), q \in In(queue[c]) : b.id < q.id
  BY BusAssumption DEF BusTypes, PendingHolds
<1>2. CASE backlog[c] # <<>>
  <2>1. backlog' = [backlog EXCEPT ![c] = Tail(backlog[c])] /\ queue' = queue /\ e = Head(backlog[c])
    BY <1>2 DEF Send, NextEvent
  <2>2. /\ Tail(backlog[c]) \in Seq(Event) /\ Ordered(Tail(backlog[c]))
        /\ Head(backlog[c]) \in Event /\ Head(backlog[c]) \in In(backlog[c])
        /\ In(backlog[c]) = In(Tail(backlog[c])) \union {Head(backlog[c])}
        /\ \A x \in In(Tail(backlog[c])) : Head(backlog[c]).id < x.id
    BY <1>1, <1>2, InTail, OrderedTail
  <2>3. backlog'[c] = Tail(backlog[c]) /\ \A d \in Viewers : d # c => backlog'[d] = backlog[d]
    BY <1>1, <2>1
  <2> HIDE DEF e
  <2>4. Pending(c) = Pending(c)' \union {e} /\ \A x \in Pending(c)' : e.id < x.id
    BY <1>1, <2>1, <2>2, <2>3 DEF Pending
  <2> QED
    BY <1>1, <2>1, <2>2, <2>3, <2>4 DEF e
<1>3. CASE backlog[c] = <<>>
  <2>1. queue' = [queue EXCEPT ![c] = Tail(queue[c])] /\ backlog' = backlog /\ e = Head(queue[c])
    BY <1>3 DEF Send, NextEvent
  <2>2. queue[c] # <<>>
    <3>1. <<>> \o <<>> = <<>>
      OBVIOUS
    <3> QED
      BY <1>3, <3>1 DEF Send, HasEvent
  <2>3. /\ Tail(queue[c]) \in Seq(Event) /\ Ordered(Tail(queue[c]))
        /\ Head(queue[c]) \in Event /\ Head(queue[c]) \in In(queue[c])
        /\ In(queue[c]) = In(Tail(queue[c])) \union {Head(queue[c])}
        /\ \A x \in In(Tail(queue[c])) : Head(queue[c]).id < x.id
    BY <1>1, <2>2, InTail, OrderedTail
  <2>4. Len(Tail(queue[c])) <= QueueSize
    <3>1. queue[c] \in Seq(Event)
      BY <1>1
    <3> QED
      BY <1>1, <2>2, <3>1
  <2>5. queue'[c] = Tail(queue[c]) /\ \A d \in Viewers : d # c => queue'[d] = queue[d]
    BY <1>1, <2>1
  <2>6. In(backlog[c]) = {}
    BY <1>3 DEF In
  <2> HIDE DEF e
  <2>7. Pending(c) = Pending(c)' \union {e} /\ \A x \in Pending(c)' : e.id < x.id
    BY <1>1, <2>1, <2>3, <2>5, <2>6 DEF Pending
  <2> QED
    BY <1>1, <2>1, <2>3, <2>4, <2>5, <2>7 DEF e
<1> QED
  BY <1>2, <1>3

\* A stream sends its next event.
LEMMA SendKeeps ==
  ASSUME BusInv, NEW c \in Viewers, Send(c)
  PROVE  BusInv'
<1> DEFINE e == NextEvent(c)
<1>0. BusTypes /\ RingHolds /\ StreamInv(c)
  BY DEF BusInv
<1>1. /\ IsOpen(c) /\ fact' = fact /\ ring' = ring /\ nextId' = nextId /\ stream' = stream
      /\ resume' = resume /\ snapshot' = snapshot /\ lossy' = lossy /\ reboots' = reboots
      /\ lastId' = [lastId EXCEPT ![c] = e.id] /\ era' = [era EXCEPT ![c] = reboots]
      /\ received' = [received EXCEPT ![c] = Append(@, e.id)]
      /\ shown' = [shown EXCEPT ![c][e.fact] = @ + 1]
  BY DEF Send, HasEvent, topicState, opening, bounds
<1>2. StreamHolds(c) /\ PendingHolds(c) /\ CountHolds(c) /\ NothingLost(c)
  BY <1>0 DEF StreamInv
<1>3. /\ backlog' \in [Viewers -> Seq(Event)] /\ queue' \in [Viewers -> Seq(Event)]
      /\ Len(queue'[c]) <= QueueSize
      /\ \A d \in Viewers : d # c => backlog'[d] = backlog[d] /\ queue'[d] = queue[d]
      /\ Ordered(backlog'[c]) /\ Ordered(queue'[c])
      /\ In(backlog'[c]) \subseteq In(backlog[c]) /\ In(queue'[c]) \subseteq In(queue[c])
      /\ e \in Event /\ Pending(c) = Pending(c)' \union {e}
      /\ \A x \in Pending(c)' : e.id < x.id
  BY <1>0, <1>2, NextIsOldest
<1> HIDE DEF e
<1>4. e.id \in Nat /\ e.fact \in Facts /\ e \in Pending(c)
  BY <1>3 DEF Event
<1>5. /\ lastId'[c] = e.id /\ era'[c] = reboots /\ received'[c] = Append(received[c], e.id)
      /\ shown'[c] = [shown[c] EXCEPT ![e.fact] = @ + 1]
      /\ \A d \in Viewers : d # c => Alike(d)
  BY <1>0, <1>1, <1>3 DEF BusTypes, Alike
<1>6. /\ shown[c] \in [Facts -> Nat] /\ shown'[c][e.fact] = shown[c][e.fact] + 1
      /\ \A g \in Facts : g # e.fact => shown'[c][g] = shown[c][g]
  BY <1>0, <1>4, <1>5 DEF BusTypes
<1>7. BusTypes'
  <2>1. shown' \in [Viewers -> [Facts -> Nat]]
    <3>1. [shown[c] EXCEPT ![e.fact] = @ + 1] \in [Facts -> Nat]
      BY <1>4, <1>6
    <3>2. shown' = [shown EXCEPT ![c] = [shown[c] EXCEPT ![e.fact] = @ + 1]]
      BY <1>1
    <3> QED
      BY <1>0, <3>1, <3>2 DEF BusTypes
  <2>2. received' \in [Viewers -> Seq(Nat)]
    <3>1. received[c] \in Seq(Nat)
      BY <1>0 DEF BusTypes
    <3>2. Append(received[c], e.id) \in Seq(Nat)
      BY <1>4, <3>1
    <3> QED
      BY <1>0, <1>1, <3>2 DEF BusTypes
  <2>3. \A d \in Viewers : Len(queue'[d]) <= QueueSize
    BY <1>0, <1>3 DEF BusTypes
  <2> QED
    BY <1>0, <1>1, <1>3, <1>4, <2>1, <2>2, <2>3 DEF BusTypes
<1>8. Current(c)'
  BY <1>1, <1>4, <1>5, BusAssumption DEF Current
<1>9. e.id < nextId /\ fact[e.fact] # "new"
  BY <1>2, <1>4 DEF PendingHolds
<1>10. /\ IsOpen(c)' /\ \A x : Evicted(x)' <=> Evicted(x)
       /\ \A g : Live(g)' <=> Live(g)
       /\ Stored' = Stored
  BY <1>1 DEF IsOpen, Evicted, Live, Stored
<1>11. /\ Len(received[c]) \in Nat /\ DOMAIN received[c] = 1..Len(received[c])
       /\ DOMAIN received'[c] = 1..(Len(received[c]) + 1)
       /\ received'[c][Len(received[c]) + 1] = e.id
       /\ \A i \in 1..Len(received[c]) : /\ received'[c][i] = received[c][i]
                                         /\ received[c][i] < e.id /\ received[c][i] \in Nat
  <2>1. received[c] \in Seq(Nat)
    BY <1>0 DEF BusTypes
  <2>2. \A i \in DOMAIN received[c] : received[c][i] < e.id
    BY <1>2, <1>4 DEF PendingHolds
  <2> QED
    BY <1>4, <1>5, <2>1, <2>2
<1>12. StreamHolds(c)'
  <2>1. \A i \in DOMAIN received'[c] : received'[c][i] <= e.id
    BY <1>4, <1>11
  <2>2. \A i \in DOMAIN received'[c] : received'[c][i] < nextId
    <3>1. nextId \in Nat
      BY <1>0 DEF BusTypes
    <3> QED
      BY <1>4, <1>9, <1>11, <3>1
  <2>3. \A i, j \in DOMAIN received'[c] : i < j => received'[c][i] < received'[c][j]
    BY <1>2, <1>11 DEF StreamHolds
  <2>4. reboots \in Nat
    BY <1>0 DEF BusTypes
  <2>5. stream'[c] = "open"
    BY <1>10 DEF IsOpen
  <2> QED
    BY <1>1, <1>4, <1>5, <1>9, <2>2, <2>3, <2>4, <2>5 DEF StreamHolds
<1>13. PendingHolds(c)'
  <2>1. ASSUME NEW x \in Pending(c)'
        PROVE  /\ x.id < nextId /\ fact[x.fact] # "new" /\ (x \in In(ring) \/ Evicted(x))
               /\ \A i \in DOMAIN received'[c] : received'[c][i] < x.id
               /\ e.id < x.id
    <3>1. x \in Pending(c) /\ e.id < x.id
      BY <1>3
    <3>2. \A i \in DOMAIN received[c] : received[c][i] < x.id
      BY <1>2, <3>1 DEF PendingHolds
    <3> QED
      BY <1>2, <1>11, <3>1, <3>2 DEF PendingHolds
  <2>2. \A b \in In(backlog'[c]), q \in In(queue'[c]) : b.id < q.id
    BY <1>2, <1>3 DEF PendingHolds
  <2>3. \A x, y \in In(ring) \union Pending(c)' : x.fact = y.fact => x.id = y.id
    BY <1>2, <1>3 DEF PendingHolds
  <2> QED
    BY <1>1, <1>3, <1>5, <1>10, <2>1, <2>2, <2>3 DEF PendingHolds
<1>14. CountHolds(c)'
  <2>1. \A g \in Facts : g # e.fact => (Uncounted(c, g)' <=> Uncounted(c, g))
    BY <1>1, <1>6 DEF Uncounted
  <2>2. Uncounted(c, e.fact)
    BY <1>2, <1>4 DEF CountHolds
  <2>3. \A g \in Facts : shown'[c][g] <= 1 \/ (g \in snapshot[c] /\ shown'[c][g] = 2)
    BY <1>2, <1>6, <2>2 DEF CountHolds, Uncounted
  <2>4. \A x \in In(ring) \union Pending(c) : x.id \in Nat /\ x.fact \in Facts
    BY <1>0, AllEvents DEF Event
  <2>5. \A x \in Pending(c)' : Uncounted(c, x.fact)'
    <3> SUFFICES ASSUME NEW x \in Pending(c)' PROVE Uncounted(c, x.fact)'
      OBVIOUS
    <3>1. x \in Pending(c) /\ e.id < x.id
      BY <1>3
    <3>2. x.fact # e.fact
      <4>1. x.fact = e.fact => x.id = e.id
        BY <1>2, <1>4, <3>1 DEF PendingHolds
      <4> QED
        BY <1>4, <2>4, <3>1, <4>1
    <3> QED
      BY <1>2, <2>1, <2>4, <3>1, <3>2 DEF CountHolds
  <2>6. ASSUME NEW x \in In(ring) PROVE Uncounted(c, x.fact)' \/ x.id <= e.id
    <3>1. CASE x.fact = e.fact
      <4>1. x.id = e.id
        BY <1>2, <1>4, <3>1 DEF PendingHolds
      <4> QED
        BY <1>4, <4>1
    <3>2. CASE x.fact # e.fact /\ Uncounted(c, x.fact)
      BY <2>1, <2>4, <3>2
    <3>3. CASE Current(c) /\ x.id <= lastId[c]
      <4>1. lastId[c] < e.id /\ lastId[c] \in Nat
        BY <1>0, <1>2, <1>4, <3>3 DEF PendingHolds, Current, BusTypes
      <4> QED
        BY <1>4, <2>4, <3>3, <4>1
    <3> QED
      BY <1>2, <3>1, <3>2, <3>3 DEF CountHolds
  <2>7. \A g \in Facts : fact[g] = "new" => shown'[c][g] = 0
    BY <1>2, <1>6, <1>9 DEF CountHolds
  <2> QED
    BY <1>1, <1>2, <1>5, <1>8, <1>10, <2>3, <2>5, <2>6, <2>7 DEF CountHolds
<1>15. NothingLost(c)'
  <2>1. ASSUME ~lossy[c], NEW g \in Facts, Live(g)
        PROVE  shown'[c][g] > 0 \/ \E x \in Pending(c)' : x.fact = g
    <3>1. shown[c][g] > 0 \/ \E x \in Pending(c) : x.fact = g
      BY <1>1, <1>2, <2>1 DEF NothingLost
    <3>2. CASE shown[c][g] > 0
      BY <1>6, <3>2
    <3>3. ASSUME NEW x \in Pending(c), x.fact = g
          PROVE  shown'[c][g] > 0 \/ \E y \in Pending(c)' : y.fact = g
      BY <1>3, <1>4, <1>6, <3>3
    <3> QED
      BY <3>1, <3>2, <3>3
  <2>2. stream'[c] = "open"
    BY <1>10 DEF IsOpen
  <2> QED
    BY <1>1, <1>8, <1>10, <2>1, <2>2 DEF NothingLost
<1>16. StreamInv(c)'
  BY <1>12, <1>13, <1>14, <1>15 DEF StreamInv
<1> QED
  BY <1>1, <1>5, <1>7, <1>16, OneStream DEF topicState

\* A stream ends: what was pending is in the ring, or the ring has moved on.
LEMMA CloseKeeps ==
  ASSUME BusInv, NEW c \in Viewers, Close(c)
  PROVE  BusInv'
<1>0. BusTypes /\ RingHolds /\ StreamInv(c)
  BY DEF BusInv
<1>1. /\ stream[c] # "closed" /\ stream' = [stream EXCEPT ![c] = "closed"]
      /\ backlog' = [backlog EXCEPT ![c] = <<>>] /\ queue' = [queue EXCEPT ![c] = <<>>]
      /\ fact' = fact /\ ring' = ring /\ nextId' = nextId /\ lastId' = lastId /\ shown' = shown
      /\ era' = era /\ resume' = resume /\ snapshot' = snapshot /\ received' = received
      /\ lossy' = lossy /\ reboots' = reboots
  BY DEF Close, topicState, opening, view, bounds
<1>2. StreamHolds(c) /\ PendingHolds(c) /\ CountHolds(c) /\ NothingLost(c)
  BY <1>0 DEF StreamInv
<1>3. /\ stream'[c] = "closed" /\ backlog'[c] = <<>> /\ queue'[c] = <<>>
      /\ \A d \in Viewers : d # c => Alike(d)
  BY <1>0, <1>1 DEF BusTypes, Alike
<1>4. BusTypes'
  <2>1. <<>> \in Seq(Event) /\ Len(<<>>) <= QueueSize
    BY BusAssumption
  <2> QED
    BY <1>0, <1>1, <2>1 DEF BusTypes, Phases
<1>5. In(<<>>) = {} /\ Ordered(<<>>)
  BY DEF In, Ordered
<1>6. /\ ~IsOpen(c)' /\ (Current(c)' <=> Current(c)) /\ Pending(c)' = {}
      /\ \A g : Uncounted(c, g)' <=> Uncounted(c, g)
      /\ \A g : Live(g)' <=> Live(g)
      /\ Stored' = Stored
  BY <1>1, <1>3, <1>5 DEF IsOpen, Current, Pending, Uncounted, Live, Stored
<1>7. StreamHolds(c)'
  BY <1>1, <1>2, <1>3, <1>6 DEF StreamHolds
<1>8. PendingHolds(c)'
  BY <1>1, <1>2, <1>3, <1>5, <1>6 DEF PendingHolds
<1>9. CountHolds(c)'
  BY <1>1, <1>2, <1>6 DEF CountHolds
<1>10. NothingLost(c)'
  <2>1. ASSUME ~lossy[c], Current(c), ~(ring # <<>> /\ Head(ring).id > lastId[c] + 1),
               NEW g \in Facts, Live(g)
        PROVE  shown[c][g] > 0 \/ \E x \in In(ring) : x.fact = g /\ x.id > lastId[c]
    <3>1. CASE ~IsOpen(c)
      BY <1>2, <2>1, <3>1 DEF NothingLost
    <3>2. CASE IsOpen(c)
      <4>1. shown[c][g] > 0 \/ \E x \in Pending(c) : x.fact = g
        BY <1>2, <2>1, <3>2 DEF NothingLost
      <4>2. ASSUME NEW x \in Pending(c), x.fact = g
            PROVE  \E y \in In(ring) : y.fact = g /\ y.id > lastId[c]
        <5>1. /\ lastId[c] < x.id /\ lastId[c] \in Nat /\ x.id \in Nat
              /\ x \in In(ring) \/ Evicted(x)
          BY <1>0, <1>2, <2>1, AllEvents DEF PendingHolds, Current, BusTypes
        <5>2. ~Evicted(x)
          <6>1. ring # <<>> => Head(ring).id \in Nat
            <7>1. ring \in Seq(Event)
              BY <1>0 DEF BusTypes
            <7> QED
              BY <1>0, <7>1, InTail, AllEvents
          <6> QED
            BY <2>1, <5>1, <6>1 DEF Evicted
        <5> QED
          BY <4>2, <5>1, <5>2
      <4> QED
        BY <4>1, <4>2
    <3> QED
      BY <3>1, <3>2
  <2> QED
    BY <1>1, <1>3, <1>6, <2>1 DEF NothingLost
<1>11. StreamInv(c)'
  BY <1>7, <1>8, <1>9, <1>10 DEF StreamInv
<1> QED
  BY <1>1, <1>3, <1>4, <1>11, OneStream DEF topicState

\* The process restarts: no client's last id is of the new era.
LEMMA RestartKeeps == BusInv /\ BusRestart => BusInv'
<1> SUFFICES ASSUME BusInv, BusRestart PROVE BusInv'
  OBVIOUS
<1>0. BusTypes /\ RingHolds /\ \A c \in Viewers : StreamInv(c)
  BY DEF BusInv
<1>1. /\ reboots' = reboots + 1 /\ ring' = <<>> /\ nextId' = 1
      /\ stream' = [c \in Viewers |-> "closed"]
      /\ backlog' = [c \in Viewers |-> <<>>] /\ queue' = [c \in Viewers |-> <<>>]
      /\ fact' = [f \in Facts |-> IF fact[f] = "published" THEN "undone" ELSE fact[f]]
      /\ lastId' = lastId /\ shown' = shown /\ era' = era /\ resume' = resume
      /\ snapshot' = snapshot /\ received' = received /\ lossy' = lossy
  BY DEF BusRestart, opening, view
<1>2. In(<<>>) = {} /\ Ordered(<<>>)
  BY DEF In, Ordered
<1>3. BusTypes'
  <2>1. <<>> \in Seq(Event) /\ Len(<<>>) <= QueueSize /\ Len(<<>>) <= RingSize
    BY BusAssumption
  <2>2. \A c \in Viewers : queue'[c] = <<>>
    BY <1>1
  <2>3. fact' \in [Facts -> {"new", "published", "stored", "undone"}]
    BY <1>0, <1>1 DEF BusTypes
  <2> QED
    BY <1>0, <1>1, <2>1, <2>2, <2>3 DEF BusTypes, Phases
<1>4. RingHolds'
  BY <1>1, <1>2 DEF RingHolds
<1>5. ASSUME NEW c \in Viewers PROVE StreamInv(c)'
  <2>1. StreamHolds(c) /\ PendingHolds(c) /\ CountHolds(c) /\ NothingLost(c)
    BY <1>0 DEF StreamInv
  <2>2. stream'[c] = "closed" /\ backlog'[c] = <<>> /\ queue'[c] = <<>>
    BY <1>1
  <2>3. ~Current(c)' /\ era'[c] <= reboots'
    BY <1>0, <1>1, <2>1 DEF Current, BusTypes, StreamHolds
  <2>4. ~IsOpen(c)' /\ Pending(c)' = {} /\ In(ring') = {}
    BY <1>1, <1>2, <2>2 DEF IsOpen, Pending
  <2>5. StreamHolds(c)'
    BY <1>1, <2>1, <2>2, <2>3, <2>4 DEF StreamHolds
  <2>6. PendingHolds(c)'
    BY <1>2, <2>2, <2>4 DEF PendingHolds
  <2>7. CountHolds(c)'
    <3>1. Stored' = Stored
      BY <1>1 DEF Stored
    <3>2. \A g \in Facts : fact'[g] = "new" => fact[g] = "new"
      BY <1>1
    <3> QED
      BY <1>1, <2>1, <2>4, <3>1, <3>2 DEF CountHolds
  <2>8. NothingLost(c)'
    BY <2>2, <2>3, <2>4 DEF NothingLost
  <2> QED
    BY <2>5, <2>6, <2>7, <2>8 DEF StreamInv
<1> QED
  BY <1>3, <1>4, <1>5 DEF BusInv

\* Every step keeps the invariant of the bus.
LEMMA BusStep == BusInv /\ [BusNext]_busVars => BusInv'
<1> SUFFICES ASSUME BusInv, [BusNext]_busVars PROVE BusInv'
  OBVIOUS
<1>1. CASE UNCHANGED busVars
  <2>1. /\ UNCHANGED <<fact, topicState, reboots>>
        /\ UNCHANGED <<stream, resume, snapshot, backlog, queue, lastId, shown, received, lossy, era>>
    BY <1>1 DEF busVars, topicState
  <2>2. BusTypes' /\ RingHolds'
    BY <2>1 DEF BusInv, BusTypes, RingHolds, topicState, In, Ordered
  <2>3. \A c \in Viewers : StreamInv(c)'
    BY <2>1, AlikeHolds DEF BusInv, Alike
  <2> QED
    BY <2>2, <2>3 DEF BusInv
<1> QED
  BY <1>1, PublishKeeps, FactEnds, OpenKeeps, GreetKeeps, SubscribeKeeps, SendKeeps, CloseKeeps,
     RestartKeeps DEF BusNext

\* No event is sent twice or out of order; a client that has caught up counts every
\* complaint that was ingested, unless an event was taken from it; and it counts one
\* twice only if the ring replayed it over a snapshot (sse/manager.py; routes/sse.py).
THEOREM ViewsFollow == BusSpec => []ViewFollowsEvents
<1>1. ASSUME BusInv PROVE ViewFollowsEvents
  <2>1. \A c \in Viewers : StreamHolds(c) /\ CountHolds(c) /\ NothingLost(c)
    BY <1>1 DEF BusInv, StreamInv
  <2>2. StreamInOrder
    BY <2>1 DEF StreamHolds, StreamInOrder
  <2>3. CountedOnceUnlessReplayed
    <3> SUFFICES ASSUME NEW c \in Viewers, NEW f \in Facts
                 PROVE  shown[c][f] <= IF f \in snapshot[c] THEN 2 ELSE 1
      BY DEF CountedOnceUnlessReplayed
    <3>1. shown[c][f] \in Nat
      BY <1>1 DEF BusInv, BusTypes
    <3>2. shown[c][f] <= 1 \/ (f \in snapshot[c] /\ shown[c][f] = 2)
      BY <2>1 DEF CountHolds
    <3> QED
      BY <3>1, <3>2
  <2>4. NothingMissedUnlessLossy
    <3> SUFFICES ASSUME NEW c \in Viewers, IsOpen(c), backlog[c] \o queue[c] = <<>>, ~lossy[c],
                        NEW f \in Stored
                 PROVE  shown[c][f] > 0
      BY DEF NothingMissedUnlessLossy
    <3>1. f \in Facts /\ Live(f)
      BY DEF Stored, Live
    <3>2. Pending(c) = {}
      <4>1. backlog[c] \in Seq(Event) /\ queue[c] \in Seq(Event)
        BY <1>1 DEF BusInv, BusTypes
      <4>2. Len(backlog[c]) + Len(queue[c]) = Len(backlog[c] \o queue[c])
        <5>1. \A s, t \in Seq(Event) : Len(s \o t) = Len(s) + Len(t)
          OBVIOUS
        <5> QED
          BY <4>1, <5>1
      <4>3. Len(backlog[c]) = 0 /\ Len(queue[c]) = 0
        <5>1. /\ Len(<<>>) = 0 /\ \A s \in Seq(Event) : Len(s) \in Nat
          OBVIOUS
        <5>2. Len(backlog[c] \o queue[c]) = 0
          BY <5>1
        <5> QED
          BY <4>1, <4>2, <5>1, <5>2
      <4> QED
        BY <4>1, <4>3 DEF Pending, In
    <3> QED
      BY <2>1, <3>1, <3>2 DEF NothingLost
  <2> QED
    BY <2>2, <2>3, <2>4 DEF ViewFollowsEvents
<1>2. BusInv => ViewFollowsEvents
  BY <1>1
<1> QED
  BY <1>2, BusBegins, BusStep, PTL DEF BusSpec
====
