-------------------------- MODULE MCIndexerEngine --------------------------
(* Two instances of IndexerEngine for TLC, told apart by part: requests,     *)
(* handlers and cycles that fail, and a chain whose end is replaced.  The    *)
(* process may die in both.                                                  *)
EXTENDS IndexerEngine, TLC

CONSTANTS t1, t2

VARIABLE part

Faulty == INSTANCE IndexerEngine WITH MaxLedgers <- 2, MaxReorgs <- 0
Reorging == INSTANCE IndexerEngine WITH Txns <- {t1}, MaxFaults <- 0, MaxSkips <- 0

PartInit == Init /\ part \in {"faults", "reorgs"}

PartNext ==
    /\ \/ part = "faults" /\ Faulty!Next
       \/ part = "reorgs" /\ Reorging!Next
    /\ UNCHANGED part

PartSpec == PartInit /\ [][PartNext]_<<vars, part>>

Symmetric == Permutations({t1, t2})
=============================================================================
