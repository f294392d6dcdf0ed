--------------------------- MODULE ApprovalNarratives ---------------------------
(***************************************************************************)
(* The narrative of one finding: agents draft it, analysts save drafts of  *)
(* it (routes/findings.py, save_draft) and the head of supervision approves *)
(* it from a page that showed it (approvals/builder.py, findings/builder.  *)
(* py, routes/approvals.py).  Nothing ties a decision, or a draft, to what *)
(* its author was shown.                                                   *)
(*                                                                         *)
(* Each save writes a text of its own, named by the save; an agent's text  *)
(* is named by the agent, the complaint's own is "description".            *)
(***************************************************************************)
EXTENDS Naturals

CONSTANTS Saves,        \* the saves analysts make
          Heads,        \* the approvals pages that are opened
          MaxSendBacks  \* bound

VARIABLES drafted,      \* agents whose run has written a draft
          drafts,       \* complaint_narrative_drafts
          clock,        \* the database's, read by now()
          saving,       \* where each save stands
          base,         \* the text it will record as before_text
          started,      \* when its transaction started
          overlapped,   \* history: saves that read while another was open
          pending,      \* the finding waits in the queue
          sent_back,
          page,         \* where each page stands
          shown,        \* the narrative it shows
          resolved,     \* the narrative a decision found
          changed,      \* history: pages whose narrative has changed since
          observed      \* supervisory_observations and edit diffs

narratives == <<drafted, drafts, clock, saving, base, started, overlapped, pending,
                sent_back, page, shown, resolved, changed, observed>>
analysts == <<drafts, clock, saving, base, started, overlapped>>
heads == <<pending, sent_back, page, shown, resolved, observed>>

NarrativesInit ==
  /\ drafted = {} /\ drafts = {} /\ clock = 0
  /\ saving = [s \in Saves |-> "idle"] /\ base = [s \in Saves |-> ""]
  /\ started = [s \in Saves |-> 0] /\ overlapped = {}
  /\ pending = TRUE /\ sent_back = 0
  /\ page = [h \in Heads |-> "closed"]
  /\ shown = [h \in Heads |-> ""] /\ resolved = [h \in Heads |-> ""]
  /\ changed = {} /\ observed = {}

-----------------------------------------------------------------------------
(* Which text is the narrative.                                            *)

\* ORDER BY created_at DESC LIMIT 1: created_at is the start of the save.
NewestDraft == CHOOSE d \in drafts : \A e \in drafts : e.at <= d.at

LatestText == NewestDraft.after

\* _extract_narrative_draft: the investigation agent's before the drafter's.
AgentDraft ==
  IF "investigation" \in drafted THEN "investigation" ELSE "narrative-drafter"

\* current_narrative, or the complaint's own text on the approvals page.
CurrentNarrative ==
  IF drafts # {} THEN LatestText
  ELSE IF drafted # {} THEN AgentDraft ELSE "description"

\* Mutant: the drafter's text before the analyst's.
ResolvedOfAgents ==
  IF "narrative-drafter" \in drafted THEN "narrative-drafter"
  ELSE IF drafts # {} THEN LatestText ELSE "description"

\* _resolve_narrative does not look at the investigation agent's.
ResolvedNarrative ==
  IF drafts # {} THEN LatestText
  ELSE IF "narrative-drafter" \in drafted THEN "narrative-drafter"
  ELSE "description"

OnScreen(h) == page[h] \in {"open", "resolved"}
NowStale == changed' = changed \cup {h \in Heads : OnScreen(h)}

\* An agent of the chain writes its run.
Drafts(agent) ==
  /\ agent \notin drafted
  /\ drafted' = drafted \cup {agent}
  /\ NowStale
  /\ UNCHANGED <<analysts, heads>>

-----------------------------------------------------------------------------
(* save_draft.                                                             *)

\* Mutant: what the agents drafted, whatever was saved since.
BaseOfAgents == IF drafted # {} THEN AgentDraft ELSE ""

\* The newest draft's text; the agents' text is not asked for.
BaseText == IF drafts = {} THEN "" ELSE LatestText

SaveRead(s) ==
  /\ saving[s] = "idle"
  /\ clock' = clock + 1
  /\ started' = [started EXCEPT ![s] = clock + 1]
  /\ base' = [base EXCEPT ![s] = BaseText]
  /\ saving' = [saving EXCEPT ![s] = "read"]
  /\ overlapped' = IF \E q \in Saves : saving[q] = "read"
                   THEN overlapped \cup {s} ELSE overlapped
  /\ UNCHANGED <<drafts, drafted, heads, changed>>

\* The draft and its audit event, in one transaction; and narrative.edited.
SaveCommit(s) ==
  /\ saving[s] = "read"
  /\ drafts' = drafts \cup {[at |-> started[s], before |-> base[s], after |-> s]}
  /\ saving' = [saving EXCEPT ![s] = "done"]
  /\ NowStale
  /\ UNCHANGED <<clock, base, started, overlapped, drafted, heads>>

SaveFails(s) ==
  /\ saving[s] = "read"
  /\ saving' = [saving EXCEPT ![s] = "failed"]
  /\ UNCHANGED <<drafts, clock, base, started, overlapped, drafted, heads, changed>>

-----------------------------------------------------------------------------
(* The approvals page and its decisions; a row decided once is not decided *)
(* again (Approvals).                                                      *)

ShowDetail(h) ==
  /\ page[h] = "closed" /\ pending
  /\ shown' = [shown EXCEPT ![h] = CurrentNarrative]
  /\ page' = [page EXCEPT ![h] = "open"]
  /\ changed' = changed \ {h}
  /\ UNCHANGED <<pending, sent_back, resolved, observed, drafted, analysts>>

ResolveNarrative(h) ==
  /\ page[h] = "open" /\ pending
  /\ resolved' = [resolved EXCEPT ![h] = ResolvedNarrative]
  /\ page' = [page EXCEPT ![h] = "resolved"]
  /\ UNCHANGED <<pending, sent_back, shown, observed, changed, drafted, analysts>>

Decide(h) ==
  /\ page[h] = "resolved" /\ pending
  /\ pending' = FALSE
  /\ page' = [page EXCEPT ![h] = "decided"]
  /\ UNCHANGED <<sent_back, shown, resolved, changed, drafted, analysts>>

\* The observation holds the text that was resolved.
Approve(h) ==
  /\ Decide(h)
  /\ observed' = observed \cup {[by |-> h, narrative |-> resolved[h], before |-> resolved[h]]}

\* The observation holds the head's text, the edit's diff the resolved one.
ApproveWithEdits(h) ==
  /\ Decide(h)
  /\ observed' = observed \cup {[by |-> h, narrative |-> "edited", before |-> resolved[h]]}

\* Back to the analyst, who may save another draft and send it again; every
\* page is of the row sent back.
SendBack(h) ==
  /\ page[h] = "open" /\ pending /\ sent_back < MaxSendBacks
  /\ pending' = FALSE /\ sent_back' = sent_back + 1
  /\ page' = [p \in Heads |-> "closed"]
  /\ UNCHANGED <<shown, resolved, observed, changed, drafted, analysts>>

SendAgain ==
  /\ ~pending /\ observed = {}
  /\ pending' = TRUE
  /\ UNCHANGED <<sent_back, page, shown, resolved, observed, changed, drafted, analysts>>

NarrativesNext ==
  \/ \E agent \in {"investigation", "narrative-drafter"} : Drafts(agent)
  \/ \E s \in Saves : SaveRead(s) \/ SaveCommit(s) \/ SaveFails(s)
  \/ \E h \in Heads : \/ ShowDetail(h) \/ ResolveNarrative(h)
                      \/ Approve(h) \/ ApproveWithEdits(h) \/ SendBack(h)
  \/ SendAgain

NarrativesSpec == NarrativesInit /\ [][NarrativesNext]_narratives
-----------------------------------------------------------------------------
(* Properties.                                                             *)

\* What is approved, and what an edit is said to have changed, is what the page
\* showed: unless the narrative changed after the page was opened, or no draft
\* had been saved and the page showed the investigation agent's.
ApprovedAsShown ==
  \A o \in observed :
    \/ o.before = shown[o.by]
    \/ o.by \in changed
    \/ shown[o.by] = "investigation"

\* The drafts are one history, whatever was saved, by whom and in which order:
\* each begins from the text that the one before it ended with, but for a save
\* that read while another was open.
DraftsAreOneHistory ==
  \A d \in drafts :
    LET earlier == {e \in drafts : e.at < d.at} IN
    \/ d.after \in overlapped
    \/ d.before = (IF earlier = {} THEN ""
                   ELSE (CHOOSE e \in earlier : \A f \in earlier : f.at <= e.at).after)

\* The two together: nobody's text is approved, edited or replaced under the
\* name of another (routes/approvals.py, routes/findings.py).
NarrativesKeepTheirWord == ApprovedAsShown /\ DraftsAreOneHistory
=============================================================================
