----------------------------- MODULE MC_Approvals -----------------------------
(* Two sends and two decisions of one finding; or saves of its narrative and *)
(* pages that show and decide it.                                             *)
EXTENDS Approvals, ApprovalNarratives

CONSTANTS s1, s2, d1, d2
MCDecides == {d1, d2}
MCRequests == {s1, s2} \cup MCDecides
FewRequests == {s1} \cup MCDecides

VARIABLE topic

both == <<vars, narratives, topic>>

BothInit == Init /\ NarrativesInit /\ topic \in {"decisions", "narratives"}
BothNext ==
  \/ topic = "decisions" /\ Next /\ UNCHANGED <<narratives, topic>>
  \/ topic = "narratives" /\ (NarrativesNext \/ UNCHANGED narratives) /\ UNCHANGED <<vars, topic>>
BothSpec ==
  /\ BothInit /\ [][BothNext]_both
  /\ \A r \in Requests : WF_both(Work(r) /\ UNCHANGED <<narratives, topic>>)
=============================================================================
