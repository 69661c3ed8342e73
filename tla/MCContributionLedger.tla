------------------------ MODULE MCContributionLedger ------------------------
(* Two instances of ContributionLedger for TLC, told apart by part: API      *)
(* requests beside the workers, and whole-row writes beside the workers.     *)
(* Handlers fail and the indexer restarts in the first.                      *)
EXTENDS ContributionLedger

CONSTANTS ann, bob, w1, w2, c1, x1

VARIABLE part

E(u, r, h) == [user |-> u, round |-> r, hash |-> h]
OneRound == {E(ann, 1, "a1"), E(bob, 1, "b1")}
TwoRounds == {E(ann, 1, "a1"), E(ann, 2, "a2")}
PaidRound == {E(ann, 1, "p1")}
ClientRound == {E(ann, 1, "a1")}
None == {}

Requested == INSTANCE ContributionLedger WITH Editors <- {}
Edited == INSTANCE ContributionLedger WITH Clients <- {}, Users <- {ann}, MaxFaults <- 0

PartInit == Init /\ part \in {"requests", "edits"}

PartNext ==
    /\ \/ part = "requests" /\ Requested!Next
       \/ part = "edits" /\ Edited!Next
    /\ UNCHANGED part

PartSpec == PartInit /\ [][PartNext]_<<vars, part>> /\ Fairness
=============================================================================
