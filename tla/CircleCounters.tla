--------------------------- MODULE CircleCounters ---------------------------
(***************************************************************************)
(* What internal/indexer/circle_tx.go promises about a circle's counters,  *)
(* beside handlers that write the whole circles row: a contribution and    *)
(* the counters it moves land in one step, a payout and the round it       *)
(* closes land in one step, and no record is applied twice.  A whole-row   *)
(* write may take both counters back, but never past what the applied      *)
(* records and the contract's own closing total account for.               *)
(***************************************************************************)
EXTENDS Integers, FiniteSets

CONSTANTS Contributions, Payouts,  \* the on-chain records, each with a .round
          EventTotals              \* totals the contract may report on completion

VARIABLES credited,  \* contributions applied
          paid,      \* payouts applied
          round, total,
          reported   \* the closing total the total continues from
vars == <<credited, paid, round, total, reported>>

Later(a, b) == IF a >= b THEN a ELSE b
Reached == {1} \cup {e.round + 1 : e \in credited \cup paid}

Init == credited = {} /\ paid = {} /\ round = 1 /\ total = 0 /\ reported = 0

ApplyContribution(c) ==
  /\ c \notin credited
  /\ credited' = credited \cup {c}
  /\ total' = total + 1
  /\ round' \in {round, Later(round, c.round + 1)}
  /\ UNCHANGED <<paid, reported>>

ApplyPayout(p) ==
  /\ p \notin paid
  /\ paid' = paid \cup {p}
  /\ round' = Later(round, p.round + 1)
  /\ UNCHANGED <<credited, total, reported>>

(* The whole row is written, from a copy of any age.  *)
Overwrite ==
  /\ reported' \in EventTotals \cup {0}
  /\ total' \in 0..(reported' + Cardinality(credited))
  /\ round' \in Reached
  /\ UNCHANGED <<credited, paid>>

Next == \/ \E c \in Contributions : ApplyContribution(c)
        \/ \E p \in Payouts : ApplyPayout(p)
        \/ Overwrite

Spec == Init /\ [][Next]_vars
=============================================================================
