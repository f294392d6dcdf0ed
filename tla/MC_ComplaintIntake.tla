-------------------------- MODULE MC_ComplaintIntake --------------------------
(* An instance of ComplaintIntake for TLC.  k1 is a key of bank1, k2 of      *)
(* bank2; bodies a and b carry two complaints of bank1, x names bank2 as its *)
(* institution while re-using the complaint_id of a.                         *)
EXTENDS ComplaintIntake, TLC

CONSTANTS r1, r2, r3, k1, k2, a, b, x, bank1, bank2, c1, c2

MCRequests == {r1, r2, r3}
MCKeys == {k1, k2}
MCBodies == {a, b, x}
MCInstitutions == {bank1, bank2}
MCComplaints == {c1, c2}
MCInstitutionOf == k1 :> bank1 @@ k2 :> bank2
MCBodyInstitution == a :> bank1 @@ b :> bank1 @@ x :> bank2
MCComplaintOf == a :> c1 @@ b :> c2 @@ x :> c1
=============================================================================
