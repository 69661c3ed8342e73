----------------------------- MODULE Governance -----------------------------
(***************************************************************************)
(* One governance proposal in PostgreSQL and the requests that create it,  *)
(* vote on it, execute it and cancel it.  A request is a sequence of       *)
(* statements, none of them in a transaction but the vote's insert and     *)
(* tally; requests of several clients interleave between statements.       *)
(* Times are ticks of a clock; a request keeps the time it started at.     *)
(***************************************************************************)
EXTENDS Integers, FiniteSets, TLC

CONSTANTS
  Voters,     \* users, all of them eligible voters
  Requests,   \* requests in flight
  Weights,    \* live voting weights: balance times tier factor
  Delay,      \* TimelockConfig.Delay, in ticks
  Pct,        \* TimelockConfig.CancelThresholdPct, normalized
  MaxTime,    \* bound: the last tick
  MaxActions  \* bound: executor calls

ASSUME VotersAssumption == IsFiniteSet(Voters) /\ Voters # {}
ASSUME WeightsAssumption == Weights \subseteq Nat /\ Weights # {}
ASSUME TimelockAssumption == Delay \in Nat /\ Pct \in 1..100
ASSUME BoundsAssumption == MaxTime \in Nat /\ MaxActions \in Nat

VARIABLES
  proposal,  \* the governance_proposals row
  snapshot,  \* governance_weight_snapshots rows: voter -> weight
  taken,     \* the weights CreateProposal read, before they are all stored
  votes,     \* governance_votes rows: [voter, vote, weight]
  cancels,   \* governance_cancellation_votes rows
  live,      \* each voter's weight now (external)
  now,       \* the clock
  frame,     \* each request's locals
  actions,   \* calls of the executor that succeeded (external)
  decided    \* votes cast when the proposal passed

vars == <<proposal, snapshot, taken, votes, cancels, live, now, frame, actions, decided>>
ballots == <<snapshot, taken, votes>>
outside == <<live, now>>

Status == {"none", "pending", "passed", "rejected", "executed", "cancelled"}
NoRows == [v \in {} |-> 0]
NoProposal == [status |-> "none", for_weight |-> 0, against_weight |-> 0,
               for_votes |-> 0, against_votes |-> 0, executable_at |-> 0]
Free == [at |-> "idle", user |-> CHOOSE v \in Voters : TRUE, now |-> 0,
         weight |-> 0, total |-> 0]
At(r, where) == frame[r].at = where
Moves(r, f) == frame' = [frame EXCEPT ![r] = f]
Cast(p) == p.for_votes + p.against_votes

Init ==
  /\ proposal = NoProposal
  /\ snapshot = NoRows /\ taken = NoRows
  /\ votes = {} /\ cancels = {}
  /\ live \in [Voters -> Weights]
  /\ now = 0 /\ actions = 0 /\ decided = 0
  /\ frame = [r \in Requests |-> Free]
-----------------------------------------------------------------------------
(* snapshotWeights: a weight that cannot be read counts as 1, and without  *)
(* a list of voters the snapshot is empty.  Then the proposal's row.       *)
CreateProposal(r) ==
  /\ At(r, "idle") /\ proposal.status = "none"
  /\ \/ \E known \in SUBSET Voters :
          taken' = [v \in Voters |-> IF v \in known THEN live[v] ELSE 1]
     \/ taken' = NoRows
  /\ proposal' = [NoProposal EXCEPT !.status = "pending"]
  /\ Moves(r, [Free EXCEPT !.at = "weights"])
  /\ UNCHANGED <<snapshot, votes, cancels, outside, actions, decided>>

(* insertWeight, once for every voter in the order of a Go map. *)
InsertWeight(r, v) ==
  /\ At(r, "weights") /\ v \in DOMAIN taken \ DOMAIN snapshot
  /\ snapshot' = [w \in DOMAIN snapshot \cup {v} |-> taken[w]]
  /\ UNCHANGED <<proposal, taken, votes, cancels, outside, frame, actions, decided>>

CreateDone(r) ==
  /\ At(r, "weights") /\ DOMAIN taken = DOMAIN snapshot
  /\ Moves(r, Free)
  /\ UNCHANGED <<proposal, ballots, cancels, outside, actions, decided>>
-----------------------------------------------------------------------------
(* VoteProposal reads the row, then the weights. *)
VoteProposal(r, u) ==
  /\ At(r, "idle") /\ proposal.status = "pending"
  /\ Moves(r, [Free EXCEPT !.at = "weigh", !.user = u])
  /\ UNCHANGED <<proposal, ballots, cancels, outside, actions, decided>>

(* resolveVoteWeight. *)
ResolveVoteWeight(u) ==
  IF u \in DOMAIN snapshot THEN snapshot[u]
  ELSE IF snapshot = NoRows THEN 1
  ELSE live[u]

Weigh(r) ==
  LET f == frame[r]
  IN /\ At(r, "weigh")
     /\ Moves(r, [f EXCEPT !.at = "record", !.weight = ResolveVoteWeight(f.user)])
     /\ UNCHANGED <<proposal, ballots, cancels, outside, actions, decided>>

(* RecordVoteWeighted: PRIMARY KEY (proposal_id, voter_id) admits one row  *)
(* for each voter; the tally moves by the vote's weight in the same        *)
(* transaction.                                                            *)
Voted(u) == \E b \in votes : b.voter = u

(* Mutated form: the tally is set to the vote's weight, not moved by it. *)
RecordVoteSets(r, yes) ==
  LET f == frame[r]
  IN /\ At(r, "record") /\ ~Voted(f.user)
     /\ votes' = votes \cup {[voter |-> f.user, vote |-> yes, weight |-> f.weight]}
     /\ proposal' = IF yes
          THEN [proposal EXCEPT !.for_votes = 1, !.for_weight = f.weight]
          ELSE [proposal EXCEPT !.against_votes = 1, !.against_weight = f.weight]
     /\ Moves(r, Free)
     /\ UNCHANGED <<snapshot, taken, cancels, outside, actions, decided>>

(* Mutated form: ballots are unique per voter and answer, not per voter. *)
RecordVoteTwice(r, yes) ==
  LET f == frame[r]
  IN /\ At(r, "record")
     /\ ~\E b \in votes : b.voter = f.user /\ b.vote = yes
     /\ votes' = votes \cup {[voter |-> f.user, vote |-> yes, weight |-> f.weight]}
     /\ proposal' = IF yes
          THEN [proposal EXCEPT !.for_votes = @ + 1, !.for_weight = @ + f.weight]
          ELSE [proposal EXCEPT !.against_votes = @ + 1, !.against_weight = @ + f.weight]
     /\ Moves(r, Free)
     /\ UNCHANGED <<snapshot, taken, cancels, outside, actions, decided>>

RecordVote(r, yes) ==
  LET f == frame[r]
  IN /\ At(r, "record") /\ ~Voted(f.user)
     /\ votes' = votes \cup {[voter |-> f.user, vote |-> yes, weight |-> f.weight]}
     /\ proposal' = IF yes
          THEN [proposal EXCEPT !.for_votes = @ + 1, !.for_weight = @ + f.weight]
          ELSE [proposal EXCEPT !.against_votes = @ + 1, !.against_weight = @ + f.weight]
     /\ Moves(r, Free)
     /\ UNCHANGED <<snapshot, taken, cancels, outside, actions, decided>>
-----------------------------------------------------------------------------
(* ExecuteProposal: the row is read, and what it says decides which        *)
(* statement comes next.  Every proposal has a snapshot_at, so passed      *)
(* compares weights.                                                       *)
Passed(p) == p.for_weight > p.against_weight

(* Mutated form: a passed vote is executed in the call that evaluates it. *)
ExecuteProposalAtOnce(r) ==
  /\ At(r, "idle") /\ proposal.status \in {"pending", "passed"}
  /\ Moves(r, [Free EXCEPT !.now = now,
                           !.at = IF Passed(proposal) THEN "run" ELSE "reject"])
  /\ UNCHANGED <<proposal, ballots, cancels, outside, actions, decided>>

ExecuteProposal(r) ==
  /\ At(r, "idle")
  /\ \/ /\ proposal.status = "pending"
        /\ Moves(r, [Free EXCEPT !.now = now,
             !.at = IF ~Passed(proposal) THEN "reject"
                    ELSE IF Delay = 0 THEN "run" ELSE "markPassed"])
     \/ /\ proposal.status = "passed" /\ now >= proposal.executable_at
        /\ Moves(r, [Free EXCEPT !.now = now, !.at = "run"])
  /\ UNCHANGED <<proposal, ballots, cancels, outside, actions, decided>>

(* UpdateStatus: not conditional on the status that was read. *)
UpdateStatus(r, where, status) ==
  /\ At(r, where)
  /\ proposal' = [proposal EXCEPT !.status = status]
  /\ Moves(r, Free)
  /\ UNCHANGED <<ballots, cancels, outside, actions, decided>>
Reject(r) == UpdateStatus(r, "reject", "rejected")
MarkExecuted(r) == UpdateStatus(r, "markExecuted", "executed")

MarkPassed(r) ==
  LET f == frame[r]
      free == proposal.status = "pending"
  IN /\ At(r, "markPassed")
     /\ proposal' = IF free THEN [proposal EXCEPT !.status = "passed",
                                                  !.executable_at = f.now + Delay]
                    ELSE proposal
     /\ decided' = IF free THEN Cast(proposal) ELSE decided
     /\ Moves(r, Free)
     /\ UNCHANGED <<ballots, cancels, outside, actions>>

(* runAndMarkExecuted: the executor (external) acts before the status. *)
ExecuteProposalAction(r) ==
  /\ At(r, "run")
  /\ \/ actions < MaxActions /\ actions' = actions + 1
        /\ Moves(r, [frame[r] EXCEPT !.at = "markExecuted"])
     \/ Moves(r, Free) /\ UNCHANGED actions
  /\ UNCHANGED <<proposal, ballots, cancels, outside, decided>>
-----------------------------------------------------------------------------
(* CancelProposal: cancellable, then the vote, the count and the status. *)
CancelProposal(r, u) ==
  /\ At(r, "idle") /\ proposal.status = "passed" /\ now < proposal.executable_at
  /\ Moves(r, [Free EXCEPT !.at = "recordCancel", !.user = u, !.total = Cast(proposal)])
  /\ UNCHANGED <<proposal, ballots, cancels, outside, actions, decided>>

RecordCancellationVote(r) ==
  LET f == frame[r]
  IN /\ At(r, "recordCancel")
     /\ cancels' = cancels \cup {f.user}
     /\ Moves(r, IF f.user \in cancels THEN Free ELSE [f EXCEPT !.at = "countCancels"])
     /\ UNCHANGED <<proposal, ballots, outside, actions, decided>>

(* Mutated form: the share is rounded down. *)
CancellationThresholdFloor(total) == IF total * Pct < 100 THEN 0 ELSE (total * Pct) \div 100

CancellationThreshold(total) ==
  IF total <= 0 \/ (total * Pct + 99) \div 100 < 1 THEN 1
  ELSE (total * Pct + 99) \div 100

CountCancellationVotes(r) ==
  LET f == frame[r]
  IN /\ At(r, "countCancels")
     /\ Moves(r, IF Cardinality(cancels) < CancellationThreshold(f.total) THEN Free
                 ELSE [f EXCEPT !.at = "markCancelled"])
     /\ UNCHANGED <<proposal, ballots, cancels, outside, actions, decided>>

MarkCancelled(r) ==
  /\ At(r, "markCancelled")
  /\ proposal' = IF proposal.status = "passed"
                 THEN [proposal EXCEPT !.status = "cancelled"] ELSE proposal
  /\ Moves(r, Free)
  /\ UNCHANGED <<ballots, cancels, outside, actions, decided>>
-----------------------------------------------------------------------------
(* A statement fails or the client's request ends: what it wrote stays. *)
Abort(r) ==
  /\ ~At(r, "idle")
  /\ Moves(r, Free)
  /\ UNCHANGED <<proposal, ballots, cancels, outside, actions, decided>>

Tick ==
  /\ now < MaxTime /\ now' = now + 1
  /\ UNCHANGED <<proposal, ballots, cancels, live, frame, actions, decided>>

(* Tokens move or a reputation tier changes (external). *)
ChangeWeight(u, w) ==
  /\ live[u] # w
  /\ live' = [live EXCEPT ![u] = w]
  /\ UNCHANGED <<proposal, ballots, cancels, now, frame, actions, decided>>

RequestStep(r) ==
  \/ CreateProposal(r) \/ (\E v \in Voters : InsertWeight(r, v)) \/ CreateDone(r)
  \/ (\E u \in Voters : VoteProposal(r, u)) \/ Weigh(r)
  \/ (\E yes \in BOOLEAN : RecordVote(r, yes))
  \/ ExecuteProposal(r) \/ Reject(r) \/ MarkPassed(r)
  \/ ExecuteProposalAction(r) \/ MarkExecuted(r)
  \/ (\E u \in Voters : CancelProposal(r, u)) \/ RecordCancellationVote(r)
  \/ CountCancellationVotes(r) \/ MarkCancelled(r)
  \/ Abort(r)

Next ==
  \/ \E r \in Requests : RequestStep(r)
  \/ Tick
  \/ \E u \in Voters, w \in Weights : ChangeWeight(u, w)

Spec == Init /\ [][Next]_vars
-----------------------------------------------------------------------------
Row == [status: Status, for_weight: Nat, against_weight: Nat,
        for_votes: Nat, against_votes: Nat, executable_at: Nat]
Ballot == [voter: Voters, vote: BOOLEAN, weight: Nat]
Stage == {"idle", "weights", "weigh", "record", "reject", "run", "markPassed",
          "markExecuted", "recordCancel", "countCancels", "markCancelled"}
Frame == [at: Stage, user: Voters, now: 0..MaxTime, weight: Nat, total: Nat]

(* Rows and requests keep their types, and no voter has two ballots. *)
TypeOK ==
  /\ proposal \in Row
  /\ DOMAIN snapshot \subseteq DOMAIN taken /\ DOMAIN taken \subseteq Voters
  /\ \A v \in DOMAIN taken : taken[v] \in Nat
  /\ \A v \in DOMAIN snapshot : snapshot[v] = taken[v]
  /\ votes \subseteq Ballot /\ cancels \subseteq Voters
  /\ \A b, c \in votes : b.voter = c.voter => b = c
  /\ live \in [Voters -> Weights] /\ now \in 0..MaxTime
  /\ frame \in [Requests -> Frame]
  /\ actions \in 0..MaxActions /\ decided \in Nat

(* The weight of the ballots for an answer: their units, counted. *)
Units(yes) == UNION {{b} \X (1..b.weight) : b \in {c \in votes : c.vote = yes}}
Weighed(yes) == Cardinality(Units(yes))

(* The tallies that decide the proposal are the ballots', however the      *)
(* votes of several requests interleave (RecordVoteWeighted).              *)
TallyMatchesBallots ==
  /\ proposal.for_weight = Weighed(TRUE) /\ proposal.against_weight = Weighed(FALSE)
  /\ Cast(proposal) = Cardinality(votes)

(* With a timelock, the executor acts only on a proposal whose vote was    *)
(* decided at least Delay ticks ago, whatever requests are in flight.      *)
TimelockHolds ==
  [][actions' > actions /\ Delay > 0 =>
       proposal.executable_at > 0 /\ now >= proposal.executable_at]_vars

(* A cancelled proposal was cancelled by the configured share of the votes *)
(* it had received when it passed (cancelWithRepo).                        *)
CancelBacked ==
  proposal.status = "cancelled" =>
    /\ cancels # {}
    /\ 100 * Cardinality(cancels) >= Pct * decided

(* No definition names a request. *)
Symmetric == Permutations(Requests)

(* Claim of executeWithRepo: "a lost race surfaces as a conflict rather    *)
(* than two callers both believing they moved the proposal".               *)
ExecutedOnce == actions <= 1
=============================================================================
