---------------------------- MODULE ComplaintStatus ----------------------------
(***************************************************************************)
(* The resolution status of one complaint, as clients read it with its     *)
(* ETag (routes/complaints.py, get_complaint) and change it under If-Match *)
(* (patch_complaint_status).                                               *)
(*                                                                         *)
(* The ETag is a hash of etag_version (dependencies/etag.py); distinct     *)
(* versions are taken to have distinct hashes.  The handler compares and   *)
(* increments the version it has READ, without a lock; the UPDATE takes    *)
(* the row's lock until the commit and compares nothing.                   *)
(***************************************************************************)
EXTENDS Naturals, FiniteSets

CONSTANTS Clients,   \* each changes the status once, retrying after an error
          MaxFaults  \* bound: lost answers and database errors

ASSUME StatusAssumption == MaxFaults \in Nat

VARIABLES status, version,   \* the row of the complaint
          pc,                \* where each client's request stands
          want,              \* the status it asks for
          seen,              \* the row its If-Match stands for
          read,              \* the row the handler has read
          answer,
          writes,            \* history: commits of each client
          raced,             \* history: two handlers had both passed their checks
          faults

vars == <<status, version, pc, want, seen, read, answer, writes, raced, faults>>
row == <<status, version>>
client == <<want, seen>>

Terminal == {"atendido", "anulado"}
Statuses == {"pendiente"} \cup Terminal

\* ALLOWED_TRANSITIONS.
Allowed(from, to) == from = "pendiente" /\ to \in Statuses

Row == [status |-> status, version |-> version]
NoRow == [status |-> "pendiente", version |-> 0]

Init ==
  /\ status = "pendiente" /\ version = 1
  /\ pc = [c \in Clients |-> "idle"]
  /\ want = [c \in Clients |-> "pendiente"]
  /\ seen = [c \in Clients |-> NoRow]
  /\ read = [c \in Clients |-> NoRow]
  /\ answer = [c \in Clients |-> "none"]
  /\ writes = [c \in Clients |-> 0]
  /\ raced = FALSE
  /\ faults = 0

GoTo(c, s) == pc' = [pc EXCEPT ![c] = s]
Checked(c) == pc[c] \in {"checked", "flushed"}


\* The values ComplaintStatusPatch lets through.
Requestable == Statuses

\* The client reads the complaint and keeps its ETag.
Get(c) ==
  /\ pc[c] = "idle"
  /\ seen' = [seen EXCEPT ![c] = Row]
  /\ \E s \in Requestable : want' = [want EXCEPT ![c] = s]
  /\ GoTo(c, "ready")
  /\ UNCHANGED <<row, read, answer, writes, raced, faults>>

\* Mutant: the ETag is not compared.
AnyTag(c) == TRUE

\* If-Match names the current version.
TagMatches(c) == seen[c].version = version

\* The handler loads the row and checks ETag and transition: 412, 409 or go on.
Check(c) ==
  /\ pc[c] = "ready"
  /\ IF TagMatches(c) /\ Allowed(status, want[c])
     THEN /\ GoTo(c, "checked")
          /\ read' = [read EXCEPT ![c] = Row]
          /\ raced' = (raced \/ \E d \in Clients \ {c} : Checked(d))
          /\ UNCHANGED answer
     ELSE /\ GoTo(c, "done")
          /\ answer' = [answer EXCEPT ![c] = IF TagMatches(c) THEN "forbidden" ELSE "mismatch"]
          /\ UNCHANGED <<read, raced>>
  /\ UNCHANGED <<row, client, writes, faults>>

\* The UPDATE waits for the row's lock.
Flush(c) ==
  /\ pc[c] = "checked"
  /\ \A d \in Clients : pc[d] # "flushed"
  /\ GoTo(c, "flushed")
  /\ UNCHANGED <<row, client, read, answer, writes, raced, faults>>

\* Mutant: the version stays.
SameVersion(c) == read[c].version

NextVersion(c) == read[c].version + 1

\* SQLAlchemy writes the columns that differ from what was loaded: a status the
\* request leaves as it read it is not written.
Commit(c) ==
  /\ pc[c] = "flushed"
  /\ status' = IF want[c] # read[c].status THEN want[c] ELSE status
  /\ version' = NextVersion(c)
  /\ writes' = [writes EXCEPT ![c] = @ + 1]
  /\ GoTo(c, "committed")
  /\ UNCHANGED <<client, read, answer, raced, faults>>

Reply(c) ==
  /\ pc[c] = "committed"
  /\ answer' = [answer EXCEPT ![c] = "ok"]
  /\ GoTo(c, "done")
  /\ UNCHANGED <<row, client, read, writes, raced, faults>>

\* An error, or an answer that never arrives: the client sends the request again.
\* The Idempotency-Key of a PATCH is not looked up.
Retry(c) ==
  /\ pc[c] \in {"checked", "flushed", "committed"}
  /\ faults < MaxFaults /\ faults' = faults + 1
  /\ GoTo(c, "ready")
  /\ UNCHANGED <<row, client, read, answer, writes, raced>>

Terminated == (\A c \in Clients : pc[c] = "done") /\ UNCHANGED vars

Next ==
  \/ \E c \in Clients : \/ Get(c) \/ Check(c) \/ Flush(c) \/ Commit(c)
                        \/ Reply(c) \/ Retry(c)
  \/ Terminated

Spec == Init /\ [][Next]_vars

-----------------------------------------------------------------------------
(* Properties.                                                             *)

\* Type invariant.
TypeOK ==
  /\ status \in Statuses /\ version \in Nat
  /\ pc \in [Clients -> {"idle", "ready", "checked", "flushed", "committed", "done"}]
  /\ want \in [Clients -> Statuses]
  /\ seen \in [Clients -> [status : Statuses, version : Nat]]
  /\ read \in [Clients -> [status : Statuses, version : Nat]]
  /\ answer \in [Clients -> {"none", "ok", "mismatch", "forbidden"}]
  /\ writes \in [Clients -> 0..(MaxFaults + 1)]
  /\ raced \in BOOLEAN
  /\ faults \in 0..MaxFaults

\* A client only writes over the row it has seen: no other client's change is
\* lost between its GET and its PATCH, unless two handlers had both passed the
\* ETag check.
NoBlindWriteUnlessRaced ==
  [][\A c \in Clients : writes'[c] # writes[c] => raced \/ Row = seen[c]]_vars

\* A change is made once: a client that got 200 has written exactly once, however
\* often it sent the request, and one that got 412 or 409 at most once, in a try
\* whose answer was lost.
AppliedOnceUnlessRaced ==
  raced \/ \A c \in Clients : writes[c] <= 1 /\ (answer[c] = "ok" => writes[c] = 1)

\* A complaint that is atendido or anulado stays so, unless two handlers raced.
TerminalKeptUnlessRaced ==
  [][~raced /\ status \in Terminal => status' = status]_vars

\* What a write may never do: overwrite what its client has not seen, or leave a
\* terminal status, unless two handlers had both read the row before either wrote.
WritesAreSafe == NoBlindWriteUnlessRaced /\ TerminalKeptUnlessRaced

\* state_machine/resolution_status.py:17 says that atendido and anulado
\* are terminal.  FALSE: of two handlers that have both read `pendiente' and
\* passed the ETag check, the second writes its status over the first's.
TerminalStatusKept == [][(status \in Terminal) => status' = status]_vars
=============================================================================
