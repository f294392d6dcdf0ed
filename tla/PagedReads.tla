------------------------------- MODULE PagedReads -------------------------------
(***************************************************************************)
(* Clients that page through a list: GET /v1/complaints, newest first and  *)
(* filtered, and GET /v1/batches/{id}/rejections, in the order of their    *)
(* ids, the latter also as scripts/sandbox_send.py walks it.  Each page is *)
(* a query of its own, so rows appear and change their status between two  *)
(* pages, and the pages may be served by different API processes.          *)
(*                                                                         *)
(* The cursor is signed with a key that a process loads on its first use   *)
(* (auth/cursor.py): from a file, which the first of them creates.         *)
(***************************************************************************)
EXTENDS Naturals, Sequences, FiniteSets

CONSTANTS Rows,         \* <<received_at, id>>; batch rows share a received_at
          Walkers,
          WalkOf,       \* Walkers -> [list, filter, pages]: pages is the cap
          PageSize,
          Workers,      \* API processes
          NoKey,
          MaxRestarts   \* bound

\* Ids are serial numbers or unique strings: no two rows share one.
ASSUME PagingAssumption ==
  /\ Rows \subseteq Nat \X Nat /\ IsFiniteSet(Rows)
  /\ \A a, b \in Rows : a[2] = b[2] => a = b
  /\ WalkOf \in [Walkers -> [list : {"complaints", "rejections"}, filter : {"pendiente", "none"},
                             pages : Nat]]
  /\ PageSize \in Nat \ {0} /\ MaxRestarts \in Nat
  /\ NoKey \notin {<<"part">>} \union {<<"key", p, n>> : p \in Workers, n \in 0..MaxRestarts}

VARIABLES present,      \* rows that are committed
          pending,      \* rows whose resolution_status is pendiente
          file,         \* the key file: NoKey, a key, or a part of one
          held,         \* the key each process holds in memory
          making,       \* processes between `no such file' and the written key
          restarts,
          key_raced,    \* history: a process looked for the key while another made it
          walk,         \* where each walker stands
          from,         \* the cursor for its next page
          got,          \* the pages it was shown: sets of rows
          shown_before, \* history: rows that have matched since it began
          turned        \* pages it has asked for

paging == <<present, pending, file, held, making, restarts, key_raced,
            walk, from, got, shown_before, turned>>
table == <<present, pending>>
keys == <<file, held, making, restarts, key_raced>>
walks == <<walk, from, got, shown_before, turned>>

NoCursor == [row |-> <<0, 0>>, key |-> NoKey]

PagingInit ==
  /\ present \in SUBSET Rows /\ pending = Rows
  /\ file = NoKey /\ held = [p \in Workers |-> NoKey]
  /\ making = {} /\ restarts = 0 /\ key_raced = FALSE
  /\ walk = [w \in Walkers |-> "idle"]
  /\ from = [w \in Walkers |-> NoCursor]
  /\ got = [w \in Walkers |-> <<>>]
  /\ shown_before = [w \in Walkers |-> {}]
  /\ turned = [w \in Walkers |-> 0]

-----------------------------------------------------------------------------
(* The tables.                                                             *)

Matches(w, r, still) == WalkOf[w].filter = "pendiente" => r \in still

\* received_at is the start of the transaction, which may commit at any time.
Arrives(r) ==
  /\ r \in Rows \ present
  /\ present' = present \cup {r}
  /\ UNCHANGED <<pending, keys, walks>>

\* PATCH takes a complaint out of the pendiente filter.
Resolves(r) ==
  /\ r \in present \cap pending
  /\ pending' = pending \ {r}
  /\ shown_before' = [w \in Walkers |->
       {q \in shown_before[w] : Matches(w, q, pending')}]
  /\ UNCHANGED <<present, keys, walk, from, got, turned>>

-----------------------------------------------------------------------------
(* The signing key.                                                        *)

Part == <<"part">>
KeyBy(p) == <<"key", p, restarts>>

LooksForFile(p) == held[p] = NoKey /\ p \notin making

\* read_bytes may meet a file that is only partly written.
LoadKey(p) ==
  /\ LooksForFile(p) /\ file # NoKey
  /\ held' = [held EXCEPT ![p] = file]
  /\ key_raced' = (key_raced \/ making # {})
  /\ UNCHANGED <<file, making, restarts, table, walks>>

NoKeyFile(p) ==
  /\ LooksForFile(p) /\ file = NoKey
  /\ making' = making \cup {p}
  /\ key_raced' = (key_raced \/ making # {})
  /\ UNCHANGED <<file, held, restarts, table, walks>>

OpenKeyFile(p) ==
  /\ p \in making /\ file # Part
  /\ file' = Part
  /\ UNCHANGED <<held, making, restarts, key_raced, table, walks>>

WriteKey(p) ==
  /\ p \in making /\ file = Part
  /\ file' = KeyBy(p)
  /\ held' = [held EXCEPT ![p] = KeyBy(p)]
  /\ making' = making \ {p}
  /\ UNCHANGED <<restarts, key_raced, table, walks>>

Restart(p) ==
  /\ held[p] # NoKey /\ restarts < MaxRestarts
  /\ restarts' = restarts + 1
  /\ held' = [held EXCEPT ![p] = NoKey]
  /\ UNCHANGED <<file, making, key_raced, table, walks>>

-----------------------------------------------------------------------------
(* A page.                                                                 *)

\* ORDER BY received_at DESC, complaint_id DESC; or by the rejection's id.
Precedes(w, a, b) ==
  IF WalkOf[w].list = "rejections" THEN a[2] < b[2]
  ELSE a[1] > b[1] \/ (a[1] = b[1] /\ a[2] > b[2])

\* Mutant: the id does not break ties.
PastByTime(w, cursor, r) ==
  IF WalkOf[w].list = "rejections" THEN cursor[2] < r[2] ELSE cursor[1] > r[1]

\* WHERE (received_at, complaint_id) < cursor; or id > cursor.
Past(w, cursor, r) == Precedes(w, cursor, r)

Found(w) ==
  {r \in present : /\ Matches(w, r, pending)
                   /\ from[w] # NoCursor => Past(w, from[w].row, r)}

\* ORDER BY and LIMIT: the rows of a page come before all others that were found.
FirstRows(w) ==
  IF Cardinality(Found(w)) > PageSize
    THEN {page \in SUBSET Found(w) :
            /\ Cardinality(page) = PageSize
            /\ \A r \in page, q \in Found(w) \ page : Precedes(w, r, q)}
    ELSE {Found(w)}

Begin(w) ==
  /\ walk[w] = "idle"
  /\ walk' = [walk EXCEPT ![w] = "asking"]
  /\ shown_before' = [shown_before EXCEPT ![w] =
       {r \in present : Matches(w, r, pending)}]
  /\ UNCHANGED <<from, got, turned, table, keys>>

IsLast(w, page, r) == r \in page /\ \A q \in page \ {r} : Precedes(w, q, r)
CursorAfter(r, p) == [row |-> r, key |-> held[p]]

\* A page and, when one row more was found, the cursor of its last row.
Page(w, p) ==
  /\ walk[w] = "asking" /\ turned[w] < WalkOf[w].pages
  /\ held[p] # NoKey
  /\ from[w] # NoCursor => from[w].key = held[p]
  /\ turned' = [turned EXCEPT ![w] = @ + 1]
  /\ \E page \in FirstRows(w) :
       /\ got' = [got EXCEPT ![w] = Append(@, page)]
       /\ \/ /\ Cardinality(Found(w)) > PageSize
             /\ \E r \in page : /\ IsLast(w, page, r)
                              /\ from' = [from EXCEPT ![w] = CursorAfter(r, p)]
             /\ UNCHANGED walk
          \/ /\ Cardinality(Found(w)) <= PageSize
             /\ walk' = [walk EXCEPT ![w] = "done"] /\ UNCHANGED from
  /\ UNCHANGED <<shown_before, table, keys>>

\* 400 CURSOR_INVALID.
CursorRefused(w, p) ==
  /\ walk[w] = "asking" /\ turned[w] < WalkOf[w].pages
  /\ held[p] # NoKey
  /\ from[w] # NoCursor /\ from[w].key # held[p]
  /\ walk' = [walk EXCEPT ![w] = "refused"]
  /\ UNCHANGED <<from, got, shown_before, turned, table, keys>>

\* cmd_tier2_status leaves its loop at the cap, or at any answer but 200, and
\* reports what it has.
CutShort(w) ==
  /\ walk[w] = "asking"
  /\ walk' = [walk EXCEPT ![w] = "cut"]
  /\ UNCHANGED <<from, got, shown_before, turned, table, keys>>

PagingNext ==
  \/ \E r \in Rows : Arrives(r) \/ Resolves(r)
  \/ \E p \in Workers : LoadKey(p) \/ NoKeyFile(p) \/ OpenKeyFile(p) \/ WriteKey(p) \/ Restart(p)
  \/ \E w \in Walkers : \/ Begin(w) \/ CutShort(w)
                        \/ \E p \in Workers : Page(w, p) \/ CursorRefused(w, p)

PagingSpec == PagingInit /\ [][PagingNext]_paging

-----------------------------------------------------------------------------
(* Properties.                                                             *)

\* No row is shown twice, and a walk that
\* came to its end has shown every row that was there when it began and has
\* matched the filter ever since, whatever arrived, was resolved and which
\* process served a page in between.
WalkIsComplete ==
  \A w \in Walkers :
    /\ \A i, j \in DOMAIN got[w] : i # j => got[w][i] \intersect got[w][j] = {}
    /\ walk[w] = "done" => \A r \in shown_before[w] : \E i \in DOMAIN got[w] : r \in got[w][i]

\* A cursor passed back verbatim is honoured, by every process and after a
\* restart, unless one process looked for the key while another was making it.
CursorIsHonoured == \A w \in Walkers : walk[w] = "refused" => key_raced

\* A walk misses and repeats nothing, and is refused nothing it was given.
WalksAreWhole == WalkIsComplete /\ CursorIsHonoured
=============================================================================
