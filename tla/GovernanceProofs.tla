-------------------------- MODULE GovernanceProofs ---------------------------
(***************************************************************************)
(* Safety of Governance for any voters, weights, delay, share and number   *)
(* of requests.  Only the vote is a transaction and UpdateStatus does not  *)
(* look at the status it overwrites, so the inductive invariant says what  *)
(* a request between two statements still knows: that the proposal exists, *)
(* that its timelock had run out, that it had left the vote with no more   *)
(* ballots than the request counted.  Those facts are the ones no other    *)
(* request can undo.                                                       *)
(***************************************************************************)
EXTENDS Governance, FiniteSetTheorems, TLAPS

Closed == proposal.status \notin {"none", "pending"}
Unlocked == proposal.executable_at > 0 /\ now >= proposal.executable_at
EnoughCancels == cancels # {} /\ 100 * Cardinality(cancels) >= Pct * decided

(* What the row, the ballots and the history say of each other. *)
RowInv ==
  /\ proposal.status = "none" => /\ proposal = NoProposal /\ votes = {} /\ decided = 0
                                 /\ snapshot = NoRows /\ taken = NoRows
  /\ proposal.executable_at > 0 => Closed
  /\ proposal.status = "passed" => proposal.executable_at > 0
  /\ decided <= Cast(proposal)
  /\ IsFiniteSet(votes) /\ \A yes \in BOOLEAN : IsFiniteSet(Units(yes))

(* What a request between two statements relies on. *)
FrameInv(r) ==
  /\ frame[r].at # "idle" => proposal.status # "none"
  /\ frame[r].at = "markPassed" => Delay > 0
  /\ frame[r].at \in {"run", "markExecuted"} /\ Delay > 0 => Unlocked
  /\ frame[r].at \in {"recordCancel", "countCancels", "markCancelled"} =>
       Closed /\ decided <= frame[r].total
  /\ frame[r].at = "countCancels" => cancels # {}
  /\ frame[r].at = "markCancelled" => EnoughCancels

IInv ==
  /\ TypeOK /\ TallyMatchesBallots /\ CancelBacked /\ RowInv
  /\ \A r \in Requests : FrameInv(r)

-----------------------------------------------------------------------------
LEMMA FreeTyped == Free \in Frame /\ Free.at = "idle"
<1>1. (CHOOSE v \in Voters : TRUE) \in Voters
  BY VotersAssumption, Zenon
<1> QED BY <1>1, BoundsAssumption DEF Free, Frame, Stage

(* The units of a ballot that is not among the others add its weight. *)
LEMMA UnitsAdd ==
  ASSUME NEW S, IsFiniteSet(S), NEW b, NEW w \in Nat,
         \A p \in S : p[1] # b
  PROVE  /\ IsFiniteSet(S \cup ({b} \X (1..w)))
         /\ Cardinality(S \cup ({b} \X (1..w))) = Cardinality(S) + w
<1> DEFINE N == {b} \X (1..w)
<1>1. IsFiniteSet(1..w) /\ Cardinality(1..w) = w
  BY FS_Interval
<1>2. IsFiniteSet({b}) /\ Cardinality({b}) = 1
  BY FS_Singleton, Zenon
<1>3. IsFiniteSet(N) /\ Cardinality(N) = 1 * w
  BY <1>1, <1>2, FS_Product
<1>4. S \cap N = {}
  BY Zenon
<1>5. IsFiniteSet(S \cap N) /\ Cardinality(S \cap N) = 0
  BY <1>4, FS_EmptySet, Zenon
<1>6. Cardinality(S) \in Nat
  BY FS_CardinalityType, Zenon
<1> HIDE DEF N
<1>7. /\ IsFiniteSet(S \cup N)
      /\ Cardinality(S \cup N) = Cardinality(S) + Cardinality(N) - Cardinality(S \cap N)
  BY <1>3, FS_Union, Zenon
<1> QED BY <1>3, <1>5, <1>6, <1>7 DEF N

(* The threshold of a count of votes is the share of every smaller count:  *)
(* rounding it up never asks for less.                                     *)
LEMMA ThresholdCovers ==
  ASSUME NEW total \in Nat, NEW few \in Nat, few <= total, NEW n \in Nat,
         ~(n < CancellationThreshold(total))
  PROVE  100 * n >= Pct * few
<1> DEFINE share == total * Pct
<1>1. share \in Nat /\ Pct \in Nat
  BY TimelockAssumption
<1>2. Pct * few <= share
  <2>1. (total - few) * Pct >= 0
    BY TimelockAssumption
  <2>2. (total - few) * Pct = total * Pct - few * Pct
    BY TimelockAssumption
  <2> QED BY <1>1, <2>1, <2>2
<1>3. total <= 0 => share = 0
  BY <1>1
<1> HIDE DEF share
<1>4. 100 * ((share + 99) \div 100) >= share
  BY <1>1
<1>5. (total <= 0 /\ n >= 1) \/ n >= (share + 99) \div 100
  BY <1>1 DEF CancellationThreshold, share
<1>6. Pct * few \in Nat
  BY <1>1
<1> QED BY <1>1, <1>2, <1>3, <1>4, <1>5, <1>6

(* What a vote makes of the row. *)
VotedFor(p, w) == [p EXCEPT !.for_votes = @ + 1, !.for_weight = @ + w]
VotedAgainst(p, w) == [p EXCEPT !.against_votes = @ + 1, !.against_weight = @ + w]

LEMMA VoteChanges ==
  ASSUME NEW p \in Row, NEW w \in Nat
  PROVE  /\ VotedFor(p, w) \in Row /\ VotedAgainst(p, w) \in Row
         /\ VotedFor(p, w).status = p.status /\ VotedAgainst(p, w).status = p.status
         /\ VotedFor(p, w).executable_at = p.executable_at
         /\ VotedAgainst(p, w).executable_at = p.executable_at
         /\ VotedFor(p, w).for_weight = p.for_weight + w
         /\ VotedFor(p, w).against_weight = p.against_weight
         /\ VotedAgainst(p, w).for_weight = p.for_weight
         /\ VotedAgainst(p, w).against_weight = p.against_weight + w
         /\ Cast(VotedFor(p, w)) = Cast(p) + 1 /\ Cast(VotedAgainst(p, w)) = Cast(p) + 1
<1>1. /\ p.for_votes \in Nat /\ p.for_weight \in Nat
      /\ p.against_votes \in Nat /\ p.against_weight \in Nat
  BY Zenon DEF Row
<1>2. /\ p.for_votes + 1 \in Nat /\ p.for_weight + w \in Nat
      /\ p.against_votes + 1 \in Nat /\ p.against_weight + w \in Nat
  BY <1>1
<1>3. /\ VotedFor(p, w) \in Row /\ VotedFor(p, w).status = p.status
      /\ VotedFor(p, w).executable_at = p.executable_at
      /\ VotedFor(p, w).for_votes = p.for_votes + 1
      /\ VotedFor(p, w).for_weight = p.for_weight + w
      /\ VotedFor(p, w).against_votes = p.against_votes
      /\ VotedFor(p, w).against_weight = p.against_weight
  BY <1>2, Zenon DEF Row, VotedFor
<1>4. /\ VotedAgainst(p, w) \in Row /\ VotedAgainst(p, w).status = p.status
      /\ VotedAgainst(p, w).executable_at = p.executable_at
      /\ VotedAgainst(p, w).for_votes = p.for_votes
      /\ VotedAgainst(p, w).for_weight = p.for_weight
      /\ VotedAgainst(p, w).against_votes = p.against_votes + 1
      /\ VotedAgainst(p, w).against_weight = p.against_weight + w
  BY <1>2, Zenon DEF Row, VotedAgainst
<1> QED BY <1>1, <1>3, <1>4 DEF Cast

LEMMA CancelsCounted ==
  ASSUME IInv
  PROVE  IsFiniteSet(cancels) /\ Cardinality(cancels) \in Nat
BY VotersAssumption, FS_Subset, FS_CardinalityType, Zenon DEF IInv, TypeOK

LEMMA InitIInv == Init => IInv
<1> SUFFICES ASSUME Init PROVE IInv
  BY Zenon
<1> USE DEF Init
<1>0. NoProposal \in Row /\ DOMAIN NoRows = {}
  BY Zenon DEF Row, NoProposal, Status, NoRows
<1>1. TypeOK
  BY <1>0, FreeTyped, BoundsAssumption DEF TypeOK
<1>2. \A yes \in BOOLEAN : Units(yes) = {}
  BY Zenon DEF Units
<1>3. Cast(NoProposal) = 0 /\ NoProposal.for_weight = 0 /\ NoProposal.against_weight = 0
      /\ NoProposal.executable_at = 0 /\ NoProposal.status = "none"
  BY DEF Cast, NoProposal
<1>5. IsFiniteSet({}) /\ Cardinality({}) = 0
  BY FS_EmptySet, Zenon
<1>6. TallyMatchesBallots
  BY <1>2, <1>3, <1>5, Zenon DEF TallyMatchesBallots, Weighed
<1>7. RowInv
  BY <1>2, <1>3, <1>5 DEF RowInv
<1>4. CancelBacked /\ \A r \in Requests : FrameInv(r)
  BY FreeTyped, Zenon DEF CancelBacked, FrameInv, NoProposal
<1> QED BY <1>1, <1>4, <1>6, <1>7, Zenon DEF IInv
-----------------------------------------------------------------------------
(* What a request knows survives any step that keeps the proposal out of   *)
(* the vote once it left it, its timelock once it was set, the cancelling  *)
(* votes, and the count of the votes that decided.                         *)
LEMMA FrameKeeps ==
  ASSUME IInv, NEW r \in Requests, frame'[r] = frame[r], now <= now', now' \in Nat,
         proposal.status # "none" => proposal'.status # "none",
         Closed => Closed' /\ decided' = decided,
         proposal.executable_at > 0 => proposal'.executable_at = proposal.executable_at,
         cancels \subseteq cancels', cancels' \subseteq Voters
  PROVE  FrameInv(r)'
<1>1. /\ FrameInv(r) /\ frame[r] \in Frame /\ now \in Nat
      /\ proposal.executable_at \in Nat
  BY BoundsAssumption DEF IInv, TypeOK, Row
<1>2. Cardinality(cancels) \in Nat /\ Cardinality(cancels') \in Nat
      /\ Cardinality(cancels) <= Cardinality(cancels')
  <2>1. IsFiniteSet(cancels')
    BY VotersAssumption, FS_Subset, Zenon
  <2> QED BY <2>1, CancelsCounted, FS_Subset, FS_CardinalityType, Zenon
<1>3. Unlocked => Unlocked'
  BY <1>1 DEF Unlocked
<1>4. decided \in Nat /\ Pct \in Nat
  BY TimelockAssumption DEF IInv, TypeOK
<1>5. Closed /\ EnoughCancels => EnoughCancels'
  <2> SUFFICES ASSUME Closed, EnoughCancels PROVE EnoughCancels'
    BY Zenon
  <2>1. cancels' # {} /\ decided' = decided
    BY Zenon DEF EnoughCancels
  <2>2. 100 * Cardinality(cancels') >= 100 * Cardinality(cancels)
    BY <1>2
  <2>3. Pct * decided \in Nat
    BY <1>4
  <2> QED BY <1>2, <2>1, <2>2, <2>3 DEF EnoughCancels
<1> QED BY <1>1, <1>3, <1>5, Zenon DEF FrameInv, EnoughCancels

(* A statement that changes nothing but its request's frame. *)
LEMMA FrameStep ==
  ASSUME IInv, NEW r \in Requests, NEW f \in Frame, Moves(r, f), FrameInv(r)',
         UNCHANGED <<proposal, ballots, cancels, outside, actions, decided>>
  PROVE  IInv'
<1> USE DEF ballots, outside
<1>1. /\ frame' \in [Requests -> Frame]
      /\ \A s \in Requests \ {r} : frame'[s] = frame[s]
  BY Zenon DEF IInv, TypeOK, Moves
<1>2. TypeOK' /\ TallyMatchesBallots' /\ CancelBacked' /\ RowInv'
  BY <1>1, Zenon DEF IInv, TypeOK, TallyMatchesBallots, Weighed, Units, CancelBacked, RowInv, Closed
<1>3. ASSUME NEW s \in Requests \ {r} PROVE FrameInv(s)'
  BY <1>1, Zenon DEF IInv, FrameInv, Closed, Unlocked, EnoughCancels
<1> QED BY <1>2, <1>3, Zenon DEF IInv

(* A request that is over knows nothing. *)
LEMMA FreeKnows ==
  ASSUME IInv, NEW r \in Requests, Moves(r, Free)
  PROVE  FrameInv(r)' /\ frame' \in [Requests -> Frame]
         /\ \A s \in Requests \ {r} : frame'[s] = frame[s]
<1>1. frame'[r] = Free /\ frame' \in [Requests -> Frame]
      /\ \A s \in Requests \ {r} : frame'[s] = frame[s]
  BY FreeTyped, Zenon DEF IInv, TypeOK, Moves
<1> QED BY <1>1, FreeTyped, Zenon DEF FrameInv
-----------------------------------------------------------------------------
(* The statements that only move their request on.                         *)
LEMMA ReadsIInv ==
  ASSUME IInv, NEW r \in Requests,
         \/ CreateDone(r) \/ Weigh(r) \/ ExecuteProposal(r) \/ Abort(r)
         \/ CountCancellationVotes(r)
         \/ \E u \in Voters : VoteProposal(r, u) \/ CancelProposal(r, u)
  PROVE  IInv'
<1> DEFINE Still == UNCHANGED <<proposal, ballots, cancels, outside, actions, decided>>
<1>0. /\ frame[r] \in Frame /\ frame \in [Requests -> Frame] /\ FrameInv(r)
      /\ now \in 0..MaxTime /\ proposal \in Row /\ RowInv /\ decided \in Nat
  BY Zenon DEF IInv, TypeOK
<1>1. CASE CreateDone(r) \/ Abort(r)
  BY <1>1, FreeTyped, FreeKnows, FrameStep, Zenon DEF CreateDone, Abort
<1>2. CASE Weigh(r)
  <2> DEFINE f == [frame[r] EXCEPT !.at = "record", !.weight = ResolveVoteWeight(frame[r].user)]
  <2>1. Moves(r, f) /\ Still /\ frame[r].at = "weigh"
    BY <1>2, Zenon DEF Weigh, At
  <2>2. ResolveVoteWeight(frame[r].user) \in Nat
    <3>1. frame[r].user \in Voters
      BY <1>0, Zenon DEF Frame
    <3>2. frame[r].user \in DOMAIN snapshot => snapshot[frame[r].user] \in Nat
      BY Zenon DEF IInv, TypeOK
    <3>3. live[frame[r].user] \in Nat
      BY <3>1, WeightsAssumption, Zenon DEF IInv, TypeOK
    <3> QED BY <3>2, <3>3, Zenon DEF ResolveVoteWeight
  <2>3. f \in Frame /\ f.at = "record"
    BY <1>0, <2>2, Zenon DEF Frame, Stage
  <2> HIDE DEF f
  <2>4. frame'[r] = f
    BY <1>0, <2>1, Zenon DEF Moves
  <2>5. FrameInv(r)'
    BY <1>0, <2>1, <2>3, <2>4, Zenon DEF FrameInv
  <2> QED BY <2>1, <2>3, <2>5, FrameStep, Zenon
<1>3. CASE ExecuteProposal(r)
  <2>0. ExecuteProposal(r)
    BY <1>3, Zenon
  <2>1. Still /\ proposal.status \in {"pending", "passed"}
    BY <2>0, Zenon DEF ExecuteProposal
  <2>2. PICK where \in Stage :
           /\ Moves(r, [Free EXCEPT !.now = now, !.at = where])
           /\ where \in {"reject", "run", "markPassed"}
           /\ where = "markPassed" => Delay # 0
           /\ where = "run" /\ Delay # 0 =>
                proposal.status = "passed" /\ now >= proposal.executable_at
    BY <2>0, Zenon DEF ExecuteProposal, Stage
  <2> DEFINE f == [Free EXCEPT !.now = now, !.at = where]
  <2>3. f \in Frame /\ f.at = where
    BY <1>0, FreeTyped, Zenon DEF Frame
  <2> HIDE DEF f
  <2>4. frame'[r] = f /\ Moves(r, f)
    BY <1>0, <2>2, Zenon DEF Moves, f
  <2>5. where = "run" /\ Delay > 0 => Unlocked'
    BY <1>0, <2>1, <2>2, TimelockAssumption DEF RowInv, Unlocked, outside
  <2>6. where = "markPassed" => Delay > 0
    BY <2>2, TimelockAssumption
  <2>7. FrameInv(r)'
    BY <2>1, <2>2, <2>3, <2>4, <2>5, <2>6, Zenon DEF FrameInv
  <2> QED BY <2>1, <2>3, <2>4, <2>7, FrameStep, Zenon
<1>4. CASE CountCancellationVotes(r)
  <2>0. CountCancellationVotes(r)
    BY <1>4, Zenon
  <2>1. Still /\ frame[r].at = "countCancels" /\ Closed /\ decided <= frame[r].total
        /\ cancels # {} /\ frame[r].total \in Nat
    BY <1>0, <2>0, Zenon DEF CountCancellationVotes, At, FrameInv, Frame
  <2>2. CASE Cardinality(cancels) < CancellationThreshold(frame[r].total)
    <3>1. Moves(r, Free)
      BY <2>0, <2>2, Zenon DEF CountCancellationVotes
    <3> QED BY <2>1, <3>1, FreeTyped, FreeKnows, FrameStep, Zenon
  <2>3. CASE ~(Cardinality(cancels) < CancellationThreshold(frame[r].total))
    <3> DEFINE f == [frame[r] EXCEPT !.at = "markCancelled"]
    <3>1. Moves(r, f)
      BY <2>0, <2>3, Zenon DEF CountCancellationVotes
    <3>2. f \in Frame /\ f.at = "markCancelled" /\ f.total = frame[r].total
      BY <1>0, Zenon DEF Frame, Stage
    <3> HIDE DEF f
    <3>3. 100 * Cardinality(cancels) >= Pct * decided
      BY <1>0, <2>1, <2>3, CancelsCounted, ThresholdCovers, Zenon
    <3>4. frame'[r] = f
      BY <1>0, <3>1, Zenon DEF Moves
    <3>5. FrameInv(r)'
      BY <2>1, <3>2, <3>3, <3>4, Zenon DEF FrameInv, Closed, EnoughCancels
    <3> QED BY <2>1, <3>1, <3>2, <3>5, FrameStep, Zenon
  <2> QED BY <2>2, <2>3, Zenon
<1>5. ASSUME NEW u \in Voters, VoteProposal(r, u) PROVE IInv'
  <2> DEFINE f == [Free EXCEPT !.at = "weigh", !.user = u]
  <2>1. Moves(r, f) /\ Still /\ proposal.status = "pending"
    BY <1>5, Zenon DEF VoteProposal
  <2>2. f \in Frame /\ f.at = "weigh"
    BY FreeTyped, Zenon DEF Frame, Stage
  <2> HIDE DEF f
  <2>3. frame'[r] = f
    BY <1>0, <2>1, Zenon DEF Moves
  <2>4. FrameInv(r)'
    BY <2>1, <2>2, <2>3, Zenon DEF FrameInv
  <2> QED BY <2>1, <2>2, <2>4, FrameStep, Zenon
<1>6. ASSUME NEW u \in Voters, CancelProposal(r, u) PROVE IInv'
  <2> DEFINE f == [Free EXCEPT !.at = "recordCancel", !.user = u, !.total = Cast(proposal)]
  <2>1. Moves(r, f) /\ Still /\ proposal.status = "passed"
    BY <1>6, Zenon DEF CancelProposal
  <2>2. Cast(proposal) \in Nat
    BY <1>0 DEF Cast, Row
  <2>3. f \in Frame /\ f.at = "recordCancel" /\ f.total = Cast(proposal)
    BY <2>2, FreeTyped, Zenon DEF Frame, Stage
  <2> HIDE DEF f
  <2>4. frame'[r] = f
    BY <1>0, <2>1, Zenon DEF Moves
  <2>5. FrameInv(r)'
    BY <1>0, <2>1, <2>3, <2>4, Zenon DEF FrameInv, Closed, RowInv
  <2> QED BY <2>1, <2>3, <2>5, FrameStep, Zenon
<1> QED BY <1>1, <1>2, <1>3, <1>4, <1>5, <1>6, Zenon

(* The first statement of CreateProposal, while nobody knows the proposal. *)
LEMMA CreateProposalIInv ==
  ASSUME IInv, NEW r \in Requests, CreateProposal(r)
  PROVE  IInv'
<1> DEFINE f == [Free EXCEPT !.at = "weights"]
<1>1. /\ proposal.status = "none" /\ proposal' = [NoProposal EXCEPT !.status = "pending"]
      /\ Moves(r, f)
      /\ UNCHANGED <<snapshot, votes, cancels, outside, actions, decided>>
  BY Zenon DEF CreateProposal
<1>2. f \in Frame /\ f.at = "weights"
  BY FreeTyped, Zenon DEF Frame, Stage
<1> HIDE DEF f
<1>3. votes = {} /\ decided = 0 /\ snapshot = NoRows /\ taken = NoRows
  BY <1>1, Zenon DEF IInv, RowInv
<1>4. \A s \in Requests : frame[s].at = "idle"
  BY <1>1, Zenon DEF IInv, FrameInv
<1>5. /\ frame' \in [Requests -> Frame] /\ frame'[r] = f
      /\ \A s \in Requests \ {r} : frame'[s] = frame[s]
  BY <1>1, <1>2, Zenon DEF IInv, TypeOK, Moves
<1>6. /\ proposal' \in Row /\ Cast(proposal') = 0 /\ proposal'.status = "pending"
      /\ proposal'.for_weight = 0 /\ proposal'.against_weight = 0
      /\ proposal'.executable_at = 0
  BY <1>1 DEF NoProposal, Row, Status, Cast
<1>7. DOMAIN taken' \subseteq Voters /\ \A v \in DOMAIN taken' : taken'[v] \in Nat
  <2>1. CASE taken' = NoRows
    BY <2>1, Zenon DEF NoRows
  <2>2. ASSUME NEW known \in SUBSET Voters,
               taken' = [v \in Voters |-> IF v \in known THEN live[v] ELSE 1]
        PROVE  DOMAIN taken' \subseteq Voters /\ \A v \in DOMAIN taken' : taken'[v] \in Nat
    <3>1. \A v \in Voters : live[v] \in Nat
      BY WeightsAssumption, Zenon DEF IInv, TypeOK
    <3> QED BY <2>2, <3>1, Zenon
  <2> QED BY <2>1, <2>2, Zenon DEF CreateProposal
<1>8. DOMAIN NoRows = {}
  BY Zenon DEF NoRows
<1>9. TypeOK'
  BY <1>1, <1>3, <1>5, <1>6, <1>7, <1>8, Zenon DEF IInv, TypeOK, outside
<1>10. Units(TRUE)' = {} /\ Units(FALSE)' = {}
  BY <1>1, <1>3, Zenon DEF Units
<1>11. IsFiniteSet({}) /\ Cardinality({}) = 0
  BY FS_EmptySet, Zenon
<1>12. TallyMatchesBallots' /\ CancelBacked'
  BY <1>1, <1>3, <1>6, <1>10, <1>11, Zenon DEF TallyMatchesBallots, Weighed, CancelBacked
<1>13. RowInv'
  <2>1. \A yes \in BOOLEAN : IsFiniteSet(Units(yes)')
    BY <1>10, <1>11, Zenon
  <2>2. decided' <= Cast(proposal')
    BY <1>1, <1>3, <1>6
  <2> QED BY <1>1, <1>3, <1>6, <1>11, <2>1, <2>2 DEF RowInv
<1>14. \A s \in Requests : FrameInv(s)'
  BY <1>2, <1>4, <1>5, <1>6, Zenon DEF FrameInv
<1> QED BY <1>9, <1>12, <1>13, <1>14, Zenon DEF IInv

LEMMA InsertWeightIInv ==
  ASSUME IInv, NEW r \in Requests, NEW v \in Voters, InsertWeight(r, v)
  PROVE  IInv'
<1>1. /\ frame[r].at = "weights" /\ v \in DOMAIN taken
      /\ snapshot' = [w \in DOMAIN snapshot \cup {v} |-> taken[w]]
      /\ UNCHANGED <<proposal, taken, votes, cancels, outside, frame, actions, decided>>
  BY Zenon DEF InsertWeight, At
<1>2. proposal.status # "none"
  BY <1>1, Zenon DEF IInv, FrameInv
<1>3. TypeOK'
  BY <1>1, Zenon DEF IInv, TypeOK, outside
<1>4. TallyMatchesBallots' /\ CancelBacked' /\ RowInv'
  BY <1>1, <1>2, Zenon
     DEF IInv, TallyMatchesBallots, Weighed, Units, CancelBacked, RowInv, Closed
<1>5. \A s \in Requests : FrameInv(s)'
  BY <1>1, Zenon DEF IInv, FrameInv, Closed, Unlocked, EnoughCancels, outside
<1> QED BY <1>3, <1>4, <1>5, Zenon DEF IInv

(* A ballot and its tally: the voter had none, so the units are new. *)
LEMMA RecordVoteIInv ==
  ASSUME IInv, NEW r \in Requests, NEW yes \in BOOLEAN, RecordVote(r, yes)
  PROVE  IInv'
<1> DEFINE b == [voter |-> frame[r].user, vote |-> yes, weight |-> frame[r].weight]
<1>0. frame[r] \in Frame /\ proposal \in Row /\ votes \subseteq Ballot /\ now \in 0..MaxTime
      /\ IsFiniteSet(votes) /\ RowInv /\ TallyMatchesBallots /\ decided \in Nat
  BY Zenon DEF IInv, TypeOK, RowInv
<1>1. /\ frame[r].at = "record" /\ ~Voted(frame[r].user)
      /\ votes' = votes \cup {b} /\ Moves(r, Free)
      /\ UNCHANGED <<snapshot, taken, cancels, outside, actions, decided>>
  BY Zenon DEF RecordVote, At
<1>2. proposal.status # "none"
  BY <1>1, Zenon DEF IInv, FrameInv
<1>3. b \in Ballot /\ b \notin votes /\ b.weight \in Nat /\ b.vote = yes
      /\ b.weight = frame[r].weight
      /\ \A c \in votes : c.voter # b.voter
  BY <1>0, <1>1, Zenon DEF Ballot, Frame, Voted
<1>4. /\ proposal' \in Row /\ proposal'.status = proposal.status
      /\ proposal'.executable_at = proposal.executable_at
      /\ Cast(proposal') = Cast(proposal) + 1
      /\ yes => /\ proposal'.for_weight = proposal.for_weight + frame[r].weight
                /\ proposal'.against_weight = proposal.against_weight
      /\ ~yes => /\ proposal'.for_weight = proposal.for_weight
                 /\ proposal'.against_weight = proposal.against_weight + frame[r].weight
  <2>0. frame[r].weight \in Nat
    BY <1>0, Zenon DEF Frame
  <2>1. CASE yes
    <3>1. proposal' = VotedFor(proposal, frame[r].weight)
      BY <2>1, Zenon DEF RecordVote, VotedFor
    <3> QED BY <1>0, <2>0, <2>1, <3>1, VoteChanges, Zenon
  <2>2. CASE ~yes
    <3>1. proposal' = VotedAgainst(proposal, frame[r].weight)
      BY <2>2, Zenon DEF RecordVote, VotedAgainst
    <3> QED BY <1>0, <2>0, <2>2, <3>1, VoteChanges, Zenon
  <2> QED BY <2>1, <2>2, Zenon
<1> HIDE DEF b
<1>5. Units(yes)' = Units(yes) \cup ({b} \X (1..b.weight)) /\ Units(~yes)' = Units(~yes)
  BY <1>1, <1>3, Zenon DEF Units
<1>6. \A p \in Units(yes) : p[1] # b
  BY <1>3 DEF Units
<1>7. IsFiniteSet(Units(yes)) /\ IsFiniteSet(Units(~yes))
  BY <1>0, Zenon DEF RowInv
<1>8. IsFiniteSet(Units(yes)') /\ Weighed(yes)' = Weighed(yes) + b.weight
  <2> DEFINE S == Units(yes)
  <2>1. /\ IsFiniteSet(S \cup ({b} \X (1..b.weight)))
        /\ Cardinality(S \cup ({b} \X (1..b.weight))) = Cardinality(S) + b.weight
    <3> HIDE DEF S
    <3>1. IsFiniteSet(S) /\ \A p \in S : p[1] # b
      BY <1>6, <1>7, Zenon DEF S
    <3> QED BY <1>3, <3>1, UnitsAdd, Zenon
  <2> QED BY <1>5, <2>1, Zenon DEF Weighed
<1>9. IsFiniteSet(Units(~yes)') /\ Weighed(~yes)' = Weighed(~yes)
  BY <1>5, <1>7, Zenon DEF Weighed
<1>10. IsFiniteSet(votes') /\ Cardinality(votes') = Cardinality(votes) + 1
  BY <1>0, <1>1, <1>3, FS_AddElement, Zenon
<1>11. TallyMatchesBallots'
  <2>1. proposal.for_weight \in Nat /\ proposal.against_weight \in Nat
    BY <1>0, Zenon DEF Row
  <2>2. CASE yes = TRUE
    <3>1. Weighed(TRUE)' = Weighed(TRUE) + frame[r].weight /\ Weighed(FALSE)' = Weighed(FALSE)
      BY <1>3, <1>8, <1>9, <2>2, Zenon
    <3> QED BY <1>0, <1>4, <1>10, <2>1, <2>2, <3>1, Zenon DEF TallyMatchesBallots
  <2>3. CASE yes = FALSE
    <3>1. Weighed(FALSE)' = Weighed(FALSE) + frame[r].weight /\ Weighed(TRUE)' = Weighed(TRUE)
      BY <1>3, <1>8, <1>9, <2>3, Zenon
    <3> QED BY <1>0, <1>4, <1>10, <2>1, <2>3, <3>1, Zenon DEF TallyMatchesBallots
  <2> QED BY <2>2, <2>3, Zenon
<1>12. \A y \in BOOLEAN : IsFiniteSet(Units(y)')
  BY <1>8, <1>9, Zenon
<1>13. RowInv'
  <2>1. Cast(proposal) \in Nat
    BY <1>0 DEF Row, Cast
  <2>2. decided' <= Cast(proposal')
    BY <1>0, <1>1, <1>4, <2>1 DEF RowInv
  <2> QED BY <1>0, <1>2, <1>4, <1>10, <1>12, <2>2, Zenon DEF RowInv, Closed
<1>14. FrameInv(r)' /\ frame' \in [Requests -> Frame]
       /\ \A s \in Requests \ {r} : frame'[s] = frame[s]
  BY <1>1, FreeKnows, Zenon
<1>15. TypeOK'
  BY <1>1, <1>3, <1>4, <1>14, Zenon DEF IInv, TypeOK, outside
<1>16. CancelBacked'
  BY <1>1, <1>4, Zenon DEF IInv, CancelBacked
<1>17. \A s \in Requests \ {r} : FrameInv(s)'
  BY <1>1, <1>4, <1>14, Zenon DEF IInv, FrameInv, Closed, Unlocked, EnoughCancels, outside
<1> QED BY <1>11, <1>13, <1>14, <1>15, <1>16, <1>17, Zenon DEF IInv

(* A statement that changes the status of the row, or its timelock, but no *)
(* ballot: the status leaves the vote for good, a timelock that was set    *)
(* stays, and a status of "cancelled" is backed.                           *)
LEMMA StatusStep ==
  ASSUME IInv, NEW r \in Requests, Moves(r, Free), proposal.status # "none",
         NEW p \in Row, proposal' = p, p.status # "none",
         UNCHANGED <<ballots, cancels, outside, actions>>, decided' \in Nat,
         decided' <= Cast(p), Closed => Closed' /\ decided' = decided,
         p.for_votes = proposal.for_votes, p.for_weight = proposal.for_weight,
         p.against_votes = proposal.against_votes,
         p.against_weight = proposal.against_weight,
         proposal.executable_at > 0 => p.executable_at = proposal.executable_at,
         p.executable_at > 0 => Closed', p.status = "passed" => p.executable_at > 0,
         CancelBacked'
  PROVE  IInv'
<1> USE DEF ballots, outside
<1>1. FrameInv(r)' /\ frame' \in [Requests -> Frame]
      /\ \A s \in Requests \ {r} : frame'[s] = frame[s]
  BY FreeKnows, Zenon
<1>2. now' \in Nat /\ now <= now' /\ cancels' \subseteq Voters
  BY BoundsAssumption DEF IInv, TypeOK
<1>3. ASSUME NEW s \in Requests \ {r} PROVE FrameInv(s)'
  BY <1>1, <1>2, FrameKeeps, Zenon
<1>4. TypeOK'
  BY <1>1, Zenon DEF IInv, TypeOK
<1>5. TallyMatchesBallots'
  BY Zenon DEF IInv, TallyMatchesBallots, Weighed, Units, Cast
<1>6. RowInv'
  BY Zenon DEF IInv, RowInv, Units
<1> QED BY <1>1, <1>3, <1>4, <1>5, <1>6, Zenon DEF IInv

(* The row after a change of its status alone. *)
WithStatus(p, st) == [p EXCEPT !.status = st]

LEMMA StatusChanges ==
  ASSUME NEW p \in Row, NEW st \in Status
  PROVE  /\ WithStatus(p, st) \in Row /\ WithStatus(p, st).status = st
         /\ WithStatus(p, st).executable_at = p.executable_at
         /\ WithStatus(p, st).for_votes = p.for_votes
         /\ WithStatus(p, st).for_weight = p.for_weight
         /\ WithStatus(p, st).against_votes = p.against_votes
         /\ WithStatus(p, st).against_weight = p.against_weight
         /\ Cast(WithStatus(p, st)) = Cast(p)
BY Zenon DEF Row, Cast, WithStatus

LEMMA UpdateStatusIInv ==
  ASSUME IInv, NEW r \in Requests, NEW where \in Stage \ {"idle"},
         NEW st \in {"rejected", "executed"}, UpdateStatus(r, where, st)
  PROVE  IInv'
<1>1. /\ proposal' = [proposal EXCEPT !.status = st] /\ Moves(r, Free)
      /\ UNCHANGED <<ballots, cancels, outside, actions, decided>> /\ frame[r].at = where
  BY Zenon DEF UpdateStatus, At
<1>2. /\ proposal \in Row /\ st \in Status /\ proposal.status # "none"
      /\ decided \in Nat /\ decided <= Cast(proposal)
  BY <1>1, Zenon DEF IInv, TypeOK, RowInv, FrameInv, Status
<1>3. PICK p : p = WithStatus(proposal, st) /\ proposal' = p
  BY <1>1, Zenon DEF WithStatus
<1>4. /\ p \in Row /\ p.status = st /\ p.executable_at = proposal.executable_at
      /\ p.for_votes = proposal.for_votes /\ p.for_weight = proposal.for_weight
      /\ p.against_votes = proposal.against_votes
      /\ p.against_weight = proposal.against_weight /\ Cast(p) = Cast(proposal)
  BY <1>2, <1>3, StatusChanges, Zenon
<1>5. Closed' /\ CancelBacked' /\ p.status \notin {"none", "passed"}
  BY <1>3, <1>4, Zenon DEF Closed, CancelBacked
<1> QED BY <1>1, <1>2, <1>3, <1>4, <1>5, StatusStep, Zenon

LEMMA MarkCancelledIInv ==
  ASSUME IInv, NEW r \in Requests, MarkCancelled(r)
  PROVE  IInv'
<1>1. /\ Moves(r, Free) /\ frame[r].at = "markCancelled"
      /\ UNCHANGED <<ballots, cancels, outside, actions, decided>>
  BY Zenon DEF MarkCancelled, At
<1>2. /\ proposal \in Row /\ "cancelled" \in Status /\ proposal.status # "none" /\ Closed
      /\ decided \in Nat /\ decided <= Cast(proposal) /\ EnoughCancels /\ RowInv
      /\ CancelBacked
  BY <1>1, Zenon DEF IInv, TypeOK, RowInv, FrameInv, Status
<1>3. CASE proposal.status = "passed"
  <2>1. PICK p : p = WithStatus(proposal, "cancelled") /\ proposal' = p
    BY <1>3, Zenon DEF MarkCancelled, WithStatus
  <2>2. /\ p \in Row /\ p.status = "cancelled" /\ p.executable_at = proposal.executable_at
        /\ p.for_votes = proposal.for_votes /\ p.for_weight = proposal.for_weight
        /\ p.against_votes = proposal.against_votes
        /\ p.against_weight = proposal.against_weight /\ Cast(p) = Cast(proposal)
    BY <1>2, <2>1, StatusChanges, Zenon
  <2>3. Closed' /\ CancelBacked' /\ p.status \notin {"none", "passed"}
    BY <1>1, <1>2, <2>1, <2>2, Zenon DEF Closed, CancelBacked, EnoughCancels
  <2> QED BY <1>1, <1>2, <2>1, <2>2, <2>3, StatusStep, Zenon
<1>4. CASE proposal.status # "passed"
  <2>1. PICK p : p = proposal /\ proposal' = p
    BY <1>4, Zenon DEF MarkCancelled
  <2>2. Closed' /\ CancelBacked'
    BY <1>1, <1>2, <2>1, Zenon DEF Closed, CancelBacked
  <2> QED BY <1>1, <1>2, <1>4, <2>1, <2>2, StatusStep, Zenon
<1> QED BY <1>3, <1>4, Zenon

LEMMA MarkPassedIInv ==
  ASSUME IInv, NEW r \in Requests, MarkPassed(r)
  PROVE  IInv'
<1>1. /\ Moves(r, Free) /\ frame[r].at = "markPassed"
      /\ UNCHANGED <<ballots, cancels, outside, actions>>
  BY Zenon DEF MarkPassed, At
<1>2. /\ proposal \in Row /\ proposal.status # "none" /\ decided \in Nat
      /\ decided <= Cast(proposal) /\ Delay \in Nat /\ Delay > 0 /\ RowInv /\ CancelBacked
      /\ frame[r].now \in Nat
  BY <1>1, TimelockAssumption, BoundsAssumption DEF IInv, TypeOK, RowInv, FrameInv, Frame
<1>3. CASE proposal.status = "pending"
  <2> DEFINE due == frame[r].now + Delay
  <2>1. PICK p : /\ p = [proposal EXCEPT !.status = "passed", !.executable_at = due]
                 /\ proposal' = p
    BY <1>3, Zenon DEF MarkPassed
  <2>2. decided' = Cast(proposal)
    BY <1>3, Zenon DEF MarkPassed
  <2>3. due \in Nat /\ due > 0
    BY <1>2
  <2> HIDE DEF due
  <2>4. /\ p \in Row /\ p.status = "passed" /\ p.executable_at = due
        /\ p.for_votes = proposal.for_votes /\ p.for_weight = proposal.for_weight
        /\ p.against_votes = proposal.against_votes
        /\ p.against_weight = proposal.against_weight
    BY <1>2, <2>1, <2>3, Zenon DEF Row, Status
  <2>5. Cast(p) = Cast(proposal) /\ Cast(p) \in Nat /\ decided' <= Cast(p)
    BY <1>2, <2>2, <2>4 DEF Cast, Row
  <2>6. Closed' /\ CancelBacked' /\ ~Closed
    BY <1>3, <2>1, <2>4, Zenon DEF Closed, CancelBacked
  <2>7. ~(proposal.executable_at > 0)
    BY <1>2, <2>6, Zenon DEF RowInv
  <2> QED BY <1>1, <1>2, <2>1, <2>2, <2>3, <2>4, <2>5, <2>6, <2>7, StatusStep, Zenon
<1>4. CASE proposal.status # "pending"
  <2>1. PICK p : p = proposal /\ proposal' = p
    BY <1>4, Zenon DEF MarkPassed
  <2>2. decided' = decided
    BY <1>4, Zenon DEF MarkPassed
  <2>3. Closed' /\ CancelBacked'
    BY <1>1, <1>2, <1>4, <2>1, <2>2, Zenon DEF Closed, CancelBacked
  <2>4. p.status = "passed" => p.executable_at > 0
    BY <1>2, <2>1, Zenon DEF RowInv
  <2> QED BY <1>1, <1>2, <2>1, <2>2, <2>3, <2>4, StatusStep, Zenon
<1> QED BY <1>3, <1>4, Zenon

LEMMA RecordCancellationVoteIInv ==
  ASSUME IInv, NEW r \in Requests, RecordCancellationVote(r)
  PROVE  IInv'
<1> DEFINE f == IF frame[r].user \in cancels THEN Free
                ELSE [frame[r] EXCEPT !.at = "countCancels"]
<1>1. /\ frame[r].at = "recordCancel" /\ cancels' = cancels \cup {frame[r].user}
      /\ Moves(r, f) /\ UNCHANGED <<proposal, ballots, outside, actions, decided>>
  BY Zenon DEF RecordCancellationVote, At
<1>2. /\ frame \in [Requests -> Frame] /\ frame[r] \in Frame /\ frame[r].user \in Voters
      /\ cancels' \subseteq Voters /\ now \in Nat /\ now' = now
  BY <1>1, BoundsAssumption DEF IInv, TypeOK, Frame, outside
<1>3. Closed /\ decided <= frame[r].total
  BY <1>1, Zenon DEF IInv, FrameInv
<1>4. f \in Frame /\ (f = Free \/ (f.at = "countCancels" /\ f.total = frame[r].total))
  <2> DEFINE g == [frame[r] EXCEPT !.at = "countCancels"]
  <2>1. g \in Frame /\ g.at = "countCancels" /\ g.total = frame[r].total
    BY <1>2, Zenon DEF Frame, Stage
  <2> HIDE DEF g
  <2>2. f = Free \/ f = g
    BY Zenon DEF g
  <2> HIDE DEF f
  <2> QED BY <2>1, <2>2, FreeTyped, Zenon
<1> HIDE DEF f
<1>5. /\ frame' \in [Requests -> Frame] /\ frame'[r] = f
      /\ \A s \in Requests \ {r} : frame'[s] = frame[s]
  BY <1>1, <1>2, <1>4, Zenon DEF Moves
<1>6. FrameInv(r)'
  BY <1>1, <1>3, <1>4, <1>5, FreeTyped, Zenon DEF FrameInv, Closed
<1>7. ASSUME NEW s \in Requests \ {r} PROVE FrameInv(s)'
  BY <1>1, <1>2, <1>5, FrameKeeps DEF Closed
<1>8. TypeOK'
  BY <1>1, <1>2, <1>5, Zenon DEF IInv, TypeOK, ballots, outside
<1>9. CancelBacked'
  <2>1. /\ Cardinality(cancels) \in Nat /\ Cardinality(cancels') \in Nat
        /\ Cardinality(cancels) <= Cardinality(cancels')
    <3>1. IsFiniteSet(cancels')
      BY <1>2, VotersAssumption, FS_Subset, Zenon
    <3> QED BY <1>1, <3>1, CancelsCounted, FS_Subset, FS_CardinalityType, Zenon
  <2>2. decided \in Nat /\ Pct \in Nat /\ decided' = decided /\ cancels' # {}
    BY <1>1, TimelockAssumption DEF IInv, TypeOK
  <2>3. Pct * decided \in Nat
    BY <2>2
  <2>4. 100 * Cardinality(cancels') >= 100 * Cardinality(cancels)
    BY <2>1
  <2> QED BY <1>1, <2>1, <2>2, <2>3, <2>4 DEF IInv, CancelBacked
<1>10. TallyMatchesBallots' /\ RowInv'
  BY <1>1, Zenon DEF IInv, TallyMatchesBallots, Weighed, Units, RowInv, Closed, ballots
<1> QED BY <1>6, <1>7, <1>8, <1>9, <1>10, Zenon DEF IInv

LEMMA ExecuteProposalActionIInv ==
  ASSUME IInv, NEW r \in Requests, ExecuteProposalAction(r)
  PROVE  IInv'
<1>1. /\ frame[r].at = "run" /\ frame[r] \in Frame /\ frame \in [Requests -> Frame]
      /\ UNCHANGED <<proposal, ballots, cancels, outside, decided>>
  BY Zenon DEF ExecuteProposalAction, At, IInv, TypeOK
<1>2. CASE actions' = actions /\ Moves(r, Free)
  BY <1>1, <1>2, FreeTyped, FreeKnows, FrameStep, Zenon
<1>3. CASE /\ actions < MaxActions /\ actions' = actions + 1
           /\ Moves(r, [frame[r] EXCEPT !.at = "markExecuted"])
  <2> DEFINE f == [frame[r] EXCEPT !.at = "markExecuted"]
  <2>1. f \in Frame /\ f.at = "markExecuted"
    BY <1>1, Zenon DEF Frame, Stage
  <2> HIDE DEF f
  <2>2. /\ frame' \in [Requests -> Frame] /\ frame'[r] = f
        /\ \A s \in Requests \ {r} : frame'[s] = frame[s]
    BY <1>1, <1>3, <2>1, Zenon DEF Moves, f
  <2>3. FrameInv(r)'
    BY <1>1, <2>1, <2>2, Zenon DEF IInv, FrameInv, Unlocked, outside
  <2>4. actions' \in 0..MaxActions
    BY <1>3, BoundsAssumption DEF IInv, TypeOK
  <2>5. TypeOK'
    BY <1>1, <2>2, <2>4, Zenon DEF IInv, TypeOK, ballots, outside
  <2>6. TallyMatchesBallots' /\ CancelBacked' /\ RowInv'
    BY <1>1, Zenon DEF IInv, TallyMatchesBallots, Weighed, Units, CancelBacked, RowInv, Closed,
                ballots
  <2>7. ASSUME NEW s \in Requests \ {r} PROVE FrameInv(s)'
    BY <1>1, <2>2, Zenon DEF IInv, FrameInv, Closed, Unlocked, EnoughCancels, outside
  <2> QED BY <2>3, <2>5, <2>6, <2>7, Zenon DEF IInv
<1> QED BY <1>2, <1>3, Zenon DEF ExecuteProposalAction

(* The clock and the live weights: nothing that was true becomes false.    *)
LEMMA OutsideIInv ==
  ASSUME IInv, Tick \/ \E u \in Voters, w \in Weights : ChangeWeight(u, w)
  PROVE  IInv'
<1>1. /\ UNCHANGED <<proposal, ballots, cancels, frame, actions, decided>>
      /\ now' \in 0..MaxTime /\ now <= now' /\ now' \in Nat
      /\ live' \in [Voters -> Weights]
  BY BoundsAssumption DEF IInv, TypeOK, Tick, ChangeWeight
<1>2. TypeOK' /\ TallyMatchesBallots' /\ CancelBacked' /\ RowInv'
  BY <1>1, Zenon DEF IInv, TypeOK, TallyMatchesBallots, Weighed, Units, CancelBacked, RowInv,
              Closed, ballots
<1>3. ASSUME NEW s \in Requests PROVE FrameInv(s)'
  <2>1. cancels' \subseteq Voters
    BY <1>1, Zenon DEF IInv, TypeOK
  <2> QED BY <1>1, <2>1, FrameKeeps, Zenon DEF Closed
<1> QED BY <1>2, <1>3, Zenon DEF IInv
-----------------------------------------------------------------------------
LEMMA NextIInv == IInv /\ [Next]_vars => IInv'
<1> SUFFICES ASSUME IInv, [Next]_vars PROVE IInv'
  BY Zenon
<1>1. ASSUME NEW r \in Requests, RequestStep(r) PROVE IInv'
  <2>1. CASE CreateProposal(r)
    BY <2>1, CreateProposalIInv, Zenon
  <2>2. CASE \E v \in Voters : InsertWeight(r, v)
    BY <2>2, InsertWeightIInv, Zenon
  <2>3. CASE \E yes \in BOOLEAN : RecordVote(r, yes)
    BY <2>3, RecordVoteIInv, Zenon
  <2>4. CASE Reject(r) \/ MarkExecuted(r)
    BY <2>4, UpdateStatusIInv, Zenon DEF Reject, MarkExecuted, Stage
  <2>5. CASE MarkPassed(r)
    BY <2>5, MarkPassedIInv, Zenon
  <2>6. CASE ExecuteProposalAction(r)
    BY <2>6, ExecuteProposalActionIInv, Zenon
  <2>7. CASE RecordCancellationVote(r)
    BY <2>7, RecordCancellationVoteIInv, Zenon
  <2>8. CASE MarkCancelled(r)
    BY <2>8, MarkCancelledIInv, Zenon
  <2>9. CASE \/ CreateDone(r) \/ Weigh(r) \/ ExecuteProposal(r) \/ Abort(r)
             \/ CountCancellationVotes(r)
             \/ \E u \in Voters : VoteProposal(r, u) \/ CancelProposal(r, u)
    BY <2>9, ReadsIInv, Zenon
  <2> QED BY <1>1, <2>1, <2>2, <2>3, <2>4, <2>5, <2>6, <2>7, <2>8, <2>9, Zenon DEF RequestStep
<1>2. CASE Tick \/ \E u \in Voters, w \in Weights : ChangeWeight(u, w)
  BY <1>2, OutsideIInv, Zenon
<1>3. CASE UNCHANGED vars
  BY <1>3, Zenon DEF vars, IInv, TypeOK, TallyMatchesBallots, Weighed, Units, CancelBacked,
              RowInv, FrameInv, Closed, Unlocked, EnoughCancels
<1> QED BY <1>1, <1>2, <1>3, Zenon DEF Next

LEMMA Invariant == Spec => []IInv
BY InitIInv, NextIInv, PTL DEF Spec

(* The rows of all five tables, the clock and every request's locals keep  *)
(* their types, and RecordVoteWeighted's primary key leaves no voter with  *)
(* two ballots, for any number of voters and requests.                     *)
THEOREM TypeCorrect == Spec => []TypeOK
<1>1. IInv => TypeOK
  BY Zenon DEF IInv
<1> QED BY <1>1, Invariant, PTL

(* Whatever requests interleave, the tallies that decide a proposal are    *)
(* the weights and the number of its ballots (RecordVoteWeighted).         *)
THEOREM TalliesMatchBallots == Spec => []TallyMatchesBallots
<1>1. IInv => TallyMatchesBallots
  BY Zenon DEF IInv
<1> QED BY <1>1, Invariant, PTL

(* For every share and any number of voters, a cancelled proposal has at   *)
(* least that share of the votes it had when it passed, although the count *)
(* of the votes, the count of the cancellations and the change of status   *)
(* are separate statements (cancelWithRepo).                               *)
THEOREM CancellationsAreBacked == Spec => []CancelBacked
<1>1. IInv => CancelBacked
  BY Zenon DEF IInv
<1> QED BY <1>1, Invariant, PTL

(* The executor is called in one place, by a request that read the row     *)
(* before: what it read there still holds (executeWithRepo).               *)
THEOREM TimelockIsKept == Spec => TimelockHolds
<1> DEFINE Kept == actions' > actions /\ Delay > 0 => Unlocked
<1>1. IInv /\ [Next]_vars => Kept
  <2> SUFFICES ASSUME IInv, [Next]_vars, actions' > actions, Delay > 0 PROVE Unlocked
    BY Zenon
  <2>1. actions \in Nat /\ actions' # actions
    BY BoundsAssumption DEF IInv, TypeOK
  <2>2. PICK r \in Requests : ExecuteProposalAction(r)
    BY <2>1, Zenon DEF Next, RequestStep, vars, CreateProposal, InsertWeight, CreateDone, VoteProposal,
           Weigh, RecordVote, ExecuteProposal, Reject, MarkExecuted, UpdateStatus, MarkPassed,
           CancelProposal, RecordCancellationVote, CountCancellationVotes, MarkCancelled,
           Abort, Tick, ChangeWeight
  <2> QED BY <2>2, Zenon DEF ExecuteProposalAction, At, IInv, FrameInv
<1>2. IInv /\ [Next]_vars =>
        [actions' > actions /\ Delay > 0 =>
           proposal.executable_at > 0 /\ now >= proposal.executable_at]_vars
  BY <1>1, Zenon DEF Unlocked
<1> QED BY <1>2, Invariant, PTL DEF Spec, TimelockHolds
=============================================================================
