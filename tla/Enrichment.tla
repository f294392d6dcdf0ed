------------------------------- MODULE Enrichment -------------------------------
(***************************************************************************)
(* scripts/enrich_complaints.py beside the service it runs against.        *)
(*                                                                         *)
(* A run loads all complaints, sets the resolution columns of each to what *)
(* its seed and its day say, and commits.  The session writes the columns  *)
(* that differ from what it has LOADED, and no others; the UPDATE compares *)
(* nothing and leaves etag_version alone, so that a status change that was *)
(* checked before (routes/complaints.py) is not refused after it.          *)
(*                                                                         *)
(* Days are numbers, 0 is none.  The sub-motives and topics are drawn like *)
(* the outcome and are left out.                                           *)
(***************************************************************************)
EXTENDS Naturals

CONSTANTS Corpus,       \* the complaints: [id, source, received]
          Reported,     \* the rows a source may store
          Enrichers,    \* runs of the script, all with one seed
          SourceOf,     \* the --source of a run, or "any"
          Outcomes, Lags,
          RECENT_WINDOW_DAYS,
          LastDate,     \* bound of the clock
          MaxPatches    \* bound of the status changes

Columns == {"status", "estado", "tipo", "fecha"}

ASSUME EnrichmentAssumption ==
  /\ Lags \subseteq Nat \ {0} /\ "none" \notin Outcomes
  /\ \A c \in Corpus : c.received \in Nat \ {0}
  /\ \A c \in Corpus : \A r \in Reported[c.source] : DOMAIN r = Columns /\ r.status # "absent"

VARIABLES draw,      \* what the seed says of each complaint
          table,     \* the committed rows, NoRowYet before they arrive
          date,      \* the clock
          run_at,    \* where each run stands
          anchor,    \* its day
          loaded,    \* the rows it has read
          changing,  \* the complaint a PATCH has read and found pending
          patches,
          stamp,     \* history: the day of the last run that wrote the row
          overtaken_rows, \* history: written by others since the run has read them
          mixed      \* history: rows that somebody else had a hand in

enrichVars == <<draw, table, date, run_at, anchor, loaded, changing, patches, stamp,
                overtaken_rows, mixed>>

NoRowYet == [status |-> "absent", estado |-> "none", tipo |-> "none", fecha |-> 0]
Unread == [c \in Corpus |-> NoRowYet]
NoComplaint == [id |-> 0, source |-> "none", received |-> 0]

EnrichInit ==
  /\ draw \in [Corpus -> [resolves : BOOLEAN, lag : Lags, outcome : Outcomes]]
  /\ table = Unread /\ date = 1
  /\ run_at = [e \in Enrichers |-> "new"] /\ anchor = [e \in Enrichers |-> 0]
  /\ loaded = [e \in Enrichers |-> Unread]
  /\ changing = NoComplaint /\ patches = 0
  /\ stamp = [c \in Corpus |-> 0]
  /\ overtaken_rows = [e \in Enrichers |-> {}] /\ mixed = {}

Arrived(c) == table[c] # NoRowYet

\* A complaint is ingested on its day or later.
Stores(c) ==
  /\ ~Arrived(c) /\ c.received <= date
  /\ \E r \in Reported[c.source] : table' = [table EXCEPT ![c] = r]
  /\ UNCHANGED <<draw, date, run_at, anchor, loaded, changing, patches, stamp, overtaken_rows, mixed>>

Midnight ==
  /\ date < LastDate /\ date' = date + 1
  /\ UNCHANGED <<draw, table, run_at, anchor, loaded, changing, patches, stamp, overtaken_rows, mixed>>

-----------------------------------------------------------------------------
(* The script *)

\* What the seed makes of a complaint on a day.
Enriched(c, day) ==
  LET resolved == draw[c].resolves /\ c.received + draw[c].lag <= day
  IN  [status |-> IF resolved THEN "atendido" ELSE "pendiente",
       estado |-> IF resolved THEN "atendido"
                  ELSE IF draw[c].resolves \/ day <= c.received + RECENT_WINDOW_DAYS
                    THEN "en_proceso" ELSE "pendiente",
       tipo   |-> IF resolved THEN draw[c].outcome ELSE "none",
       fecha  |-> IF resolved THEN c.received + draw[c].lag ELSE 0]

Takes(e) ==
  {c \in Corpus : loaded[e][c] # NoRowYet /\ SourceOf[e] \in {"any", c.source}}

\* The SELECT; the day is the clock's, or the one given by --today.
Load(e) ==
  /\ run_at[e] = "new"
  /\ \E day \in 1..date : anchor' = [anchor EXCEPT ![e] = day]
  /\ loaded' = [loaded EXCEPT ![e] = table]
  /\ run_at' = [run_at EXCEPT ![e] = "loaded"]
  /\ UNCHANGED <<draw, table, date, changing, patches, stamp, overtaken_rows, mixed>>

\* Mutant: only what is still empty is filled in.
FilledColumn(e, c, k) ==
  IF loaded[e][c][k] = NoRowYet[k] THEN Enriched(c, anchor[e])[k] ELSE table[c][k]

\* The columns that change, and what others have made of the rest.
WrittenColumn(e, c, k) ==
  LET new == Enriched(c, anchor[e])[k]
  IN  IF new # loaded[e][c][k] THEN new ELSE table[c][k]

\* The session of a run is gone.
Closes(e, how) ==
  /\ run_at[e] = "loaded"
  /\ run_at' = [run_at EXCEPT ![e] = how]
  /\ loaded' = [loaded EXCEPT ![e] = Unread] /\ anchor' = [anchor EXCEPT ![e] = 0]

\* The UPDATEs, in the order of the ids, and the commit.
WriteBack(e) ==
  /\ Closes(e, "done")
  /\ table' = [c \in Corpus |->
       IF c \in Takes(e) THEN [k \in Columns |-> WrittenColumn(e, c, k)] ELSE table[c]]
  /\ stamp' = [c \in Corpus |-> IF c \in Takes(e) THEN anchor[e] ELSE stamp[c]]
  /\ mixed' = (mixed \ Takes(e)) \union (overtaken_rows[e] \intersect Takes(e))
  /\ overtaken_rows' = [f \in Enrichers |->
       IF f = e THEN {}
       ELSE overtaken_rows[f] \union
              IF run_at[f] = "loaded" /\ anchor[f] # anchor[e] THEN Takes(e) ELSE {}]
  /\ UNCHANGED <<draw, date, changing, patches>>

\* An error, or an operator's interrupt: nothing is committed.
BreaksOff(e) ==
  /\ Closes(e, "dead")
  /\ overtaken_rows' = [overtaken_rows EXCEPT ![e] = {}]
  /\ UNCHANGED <<draw, table, date, changing, patches, stamp, mixed>>

-----------------------------------------------------------------------------
(* A status change: the ETag it is checked by knows nothing of the script. *)

PatchChecks(c) ==
  /\ changing = NoComplaint /\ patches < MaxPatches
  /\ table[c].status = "pendiente"
  /\ changing' = c /\ patches' = patches + 1
  /\ UNCHANGED <<draw, table, date, run_at, anchor, loaded, stamp, overtaken_rows, mixed>>

PatchCommits ==
  /\ changing # NoComplaint
  /\ \E status \in {"atendido", "anulado"} :
       table' = [table EXCEPT ![changing].status = status]
  /\ mixed' = mixed \union {changing}
  /\ overtaken_rows' = [e \in Enrichers |-> overtaken_rows[e] \union
       IF run_at[e] = "loaded" THEN {changing} ELSE {}]
  /\ changing' = NoComplaint
  /\ UNCHANGED <<draw, date, run_at, anchor, loaded, patches, stamp>>

EnrichNext ==
  \/ \E c \in Corpus : Stores(c) \/ PatchChecks(c)
  \/ Midnight \/ PatchCommits
  \/ \E e \in Enrichers : Load(e) \/ WriteBack(e) \/ BreaksOff(e)

EnrichSpec == EnrichInit /\ [][EnrichNext]_enrichVars

-----------------------------------------------------------------------------
(* Property *)

\* "Re-running overwrites the prior enrichment with identical values
\* (idempotent)" (the script's docstring): a row is what the last run over it
\* makes of it, whatever it held before; it is resolved as a whole or not at all,
\* after it was received and never in the future.  The exceptions are rows that a
\* status change wrote after the run had read them, or a run of another day
\* while it was open: each writes only the columns it found different.
RowsAsEnriched ==
  \A c \in Corpus : stamp[c] # 0 /\ c \notin mixed =>
    /\ table[c] = Enriched(c, stamp[c])
    /\ (table[c].tipo # "none") = (table[c].status = "atendido")
    /\ table[c].fecha # 0 => c.received < table[c].fecha /\ table[c].fecha <= stamp[c]
=============================================================================
