----------------------------- MODULE RoundVotes -----------------------------
(***************************************************************************)
(* Votes and bids of a circle's rounds, reputation penalties and treasury  *)
(* fees: the REST requests CastVote and SubmitAuctionBid, and the indexer  *)
(* handlers of the same contract events, which the engine and the          *)
(* reconciler may deliver more than once and at the same time.             *)
(***************************************************************************)
EXTENDS Integers, FiniteSets

CONSTANTS Users, NoUser, Askers, Dispatchers,
          Events,        \* [type, user, to, bid, round]: what the contracts emitted
          MaxRounds, MaxBid, StartScore,
          MaxDeliveries, MaxAsked  \* bounds: deliveries, REST requests

(* Members can be counted, and events of the chain name members and rounds. *)
ASSUME RoundAssumption ==
  /\ NoUser \notin Users /\ \A S \in SUBSET Users : Cardinality(S) \in Nat
  /\ MaxRounds \in Nat \ {0} /\ MaxBid \in Nat /\ StartScore \in Nat
  /\ \A e \in Events : /\ e.type = "vote" => e.user \in Users /\ e.to \in Users
                                             /\ e.round \in 1 .. MaxRounds
                       /\ e.bid \in 0 .. MaxBid

VARIABLES round, active,  \* the circle's current_round and active members
          votes,          \* circle_votes: round -> voter -> recipient
          bids,           \* circle_auction_bids: round -> bidder -> amount
          fees,           \* treasury_fees: rows per fee event
          score, moi,     \* the snapshot's score, and users.moi_score
          sent,           \* vote event -> number of broadcasts
          frame, disp, delivered, asked
roundVars == <<round, active, votes, bids, fees, score, moi, sent, frame, disp,
               delivered, asked>>
tables == <<votes, bids, fees, score, moi, sent>>

NoEvent == [type |-> "none", user |-> NoUser, to |-> NoUser, bid |-> 0, round |-> 0]
Idle == [pc |-> "idle", op |-> "none", user |-> NoUser, to |-> NoUser, bid |-> 0,
         round |-> 0, winner |-> NoUser]
NoDispatch == [pc |-> "idle", ev |-> NoEvent, score |-> 0]

RoundInit ==
    /\ round = 1 /\ active = Users
    /\ votes = [n \in 1 .. MaxRounds |-> [u \in Users |-> NoUser]]
    /\ bids = [n \in 1 .. MaxRounds |-> [u \in Users |-> 0]]
    /\ fees = [e \in Events |-> 0]
    /\ score = StartScore /\ moi = StartScore
    /\ sent = [e \in Events |-> 0]
    /\ frame = [q \in Askers |-> Idle]
    /\ disp = [d \in Dispatchers |-> NoDispatch]
    /\ delivered = 0 /\ asked = 0

----------------------------------------------------------------------------
(* The statements. *)

(* CreateVote: unique on (circle, voter, round).  The caller sees a         *)
(* conflict when votes is left as it is.                                    *)
CreateVoteAgain(u, to, n) == votes' = [votes EXCEPT ![n][u] = to]  \* Mutated form: ON CONFLICT DO UPDATE.
CreateVote(u, to, n) == votes[n][u] = NoUser /\ votes' = [votes EXCEPT ![n][u] = to]
Conflict(u, n) == votes[n][u] # NoUser

(* CreateAuctionBid: ON CONFLICT DO UPDATE. *)
CreateAuctionBid(u, b, n) == bids' = [bids EXCEPT ![n][u] = b]

----------------------------------------------------------------------------
(* Vote and AuctionBid: the handlers.  CastVote and SubmitAuctionBid read   *)
(* the circle, then the member rows of the voter and of the recipient.      *)
Vote(q, u, to) ==
    /\ frame[q].pc = "idle" /\ asked < MaxAsked /\ asked' = asked + 1
    /\ frame' = [frame EXCEPT ![q] = [Idle EXCEPT !.pc = "member", !.op = "vote",
                                        !.user = u, !.to = to, !.round = round]]
    /\ UNCHANGED <<round, active, tables, disp, delivered>>

AuctionBid(q, u, b) ==
    /\ frame[q].pc = "idle" /\ b > 0 /\ asked < MaxAsked /\ asked' = asked + 1
    /\ frame' = [frame EXCEPT ![q] = [Idle EXCEPT !.pc = "member", !.op = "bid",
                                        !.user = u, !.bid = b, !.round = round]]
    /\ UNCHANGED <<round, active, tables, disp, delivered>>

Reads == UNCHANGED <<round, active, tables, disp, delivered, asked>>
FindMember(q) ==
    /\ frame[q].pc = "member"
    /\ IF frame[q].user \notin active
       THEN frame' = [frame EXCEPT ![q] = Idle]
       ELSE frame' = [frame EXCEPT ![q].pc = IF frame[q].op = "bid" THEN "write"
                                             ELSE "recipient"]
    /\ Reads
FindRecipient(q) ==
    /\ frame[q].pc = "recipient"
    /\ IF frame[q].to \in active
       THEN frame' = [frame EXCEPT ![q].pc = "write"]
       ELSE frame' = [frame EXCEPT ![q] = Idle]
    /\ Reads

(* The row is written for the round the circle had when it was read. *)
CastVote(q) ==
    /\ frame[q].pc = "write" /\ frame[q].op = "vote"
    /\ \/ /\ CreateVote(frame[q].user, frame[q].to, frame[q].round)
          /\ frame' = [frame EXCEPT ![q].pc = "count"]
       \/ /\ Conflict(frame[q].user, frame[q].round)
          /\ frame' = [frame EXCEPT ![q] = Idle]
          /\ UNCHANGED votes
    /\ UNCHANGED <<round, active, bids, fees, score, moi, sent, disp, delivered, asked>>
SubmitAuctionBid(q) ==
    /\ frame[q].pc = "write" /\ frame[q].op = "bid"
    /\ CreateAuctionBid(frame[q].user, frame[q].bid, frame[q].round)
    /\ frame' = [frame EXCEPT ![q] = Idle]
    /\ UNCHANGED <<round, active, votes, fees, score, moi, sent, disp, delivered, asked>>

(* VoteTally: any recipient with the most votes; Go's map order decides a   *)
(* tie.  GetVotesByRound may fail, which answers without a winner.          *)
Tally(n, to) == Cardinality({u \in Users : votes[n][u] = to})
VoteTally(n, to) == \A other \in Users : Tally(n, to) >= Tally(n, other)
GetVotesByRound(q) ==
    /\ frame[q].pc = "count"
    /\ \/ \E w \in Users : /\ VoteTally(frame[q].round, w)
                           /\ frame' = [frame EXCEPT ![q].pc = "members", ![q].winner = w,
                                 ![q].bid = Cardinality({u \in Users :
                                               votes[frame[q].round][u] # NoUser})]
       \/ frame' = [frame EXCEPT ![q] = Idle]
    /\ Reads

(* All have voted when there are as many votes as active members; without a *)
(* count, as MaxMembers.                                                    *)
GetMemberCount(q) ==
    /\ frame[q].pc = "members"
    /\ \E count \in {Cardinality(active), Cardinality(Users)} :
         IF count > 0 /\ frame[q].bid >= count
         THEN frame' = [frame EXCEPT ![q].pc = "told"]
         ELSE frame' = [frame EXCEPT ![q] = Idle]
    /\ Reads
Told(q) ==
    /\ frame[q].pc = "told"
    /\ frame' = [frame EXCEPT ![q] = Idle]
    /\ Reads

(* The round moves on and members leave meanwhile. *)
NextRound ==
    /\ round < MaxRounds /\ round' = round + 1
    /\ UNCHANGED <<active, tables, frame, disp, delivered, asked>>
Leave(u) ==
    /\ u \in active /\ active' = active \ {u}
    /\ UNCHANGED <<round, tables, frame, disp, delivered, asked>>

----------------------------------------------------------------------------
(* processContractEvents: an event of an unknown contract is not dispatched. *)
(* The engine, the reconciler and a restart deliver an event again.  Its row  *)
(* of contract_events, which no handler asks for, is IndexerEngine's.         *)
Deliver(d, e) ==
    /\ disp[d].pc = "idle" /\ delivered < MaxDeliveries
    /\ \/ disp' = [disp EXCEPT ![d] = [NoDispatch EXCEPT !.ev = e, !.pc = "dispatch"]]
       \/ UNCHANGED disp
    /\ delivered' = delivered + 1
    /\ UNCHANGED <<round, active, tables, frame, asked>>

Dispatching(d, type) == disp[d].pc = "dispatch" /\ disp[d].ev.type = type
DispatchGoto(d, l) == disp' = [disp EXCEPT ![d].pc = l]
Leaves(d) == disp' = [disp EXCEPT ![d] = NoDispatch]
Broadcast(e) == sent' = [sent EXCEPT ![e] = @ + 1]
Same == UNCHANGED <<round, active, frame, delivered, asked>>

(* A handler that does not find the circle or the user, or whose read       *)
(* fails, has no effect.                                                    *)
NotApplied(d) ==
    /\ disp[d].pc = "dispatch"
    /\ disp[d].ev.type # "fee"
    /\ Leaves(d)
    /\ Same /\ UNCHANGED tables

onVoteCast(d) ==
    /\ Dispatching(d, "vote")
    /\ LET e == disp[d].ev IN
       \/ CreateVote(e.user, e.to, e.round) /\ Broadcast(e)
       \/ Conflict(e.user, e.round) /\ UNCHANGED <<votes, sent>>
    /\ Leaves(d)
    /\ Same /\ UNCHANGED <<bids, fees, score, moi>>

onAuctionBid(d) ==
    /\ Dispatching(d, "bid")
    /\ CreateAuctionBid(disp[d].ev.user, disp[d].ev.bid, disp[d].ev.round)
    /\ Leaves(d)
    /\ Same /\ UNCHANGED <<votes, fees, score, moi, sent>>

(* The fee is keyed by its transaction; a failed insert is only logged, and *)
(* the fee is announced either way.                                         *)
onFeeDeposited(d) ==
    /\ Dispatching(d, "fee")
    /\ \/ fees[disp[d].ev] = 0 /\ fees' = [fees EXCEPT ![disp[d].ev] = 1]
       \/ UNCHANGED fees
    /\ Leaves(d)
    /\ Same /\ UNCHANGED <<votes, bids, score, moi, sent>>

(* onLateReported and onCircleCreated announce, and write nothing. *)
onLateReported(d) ==
    /\ disp[d].pc = "dispatch" /\ disp[d].ev.type \in {"late", "created"}
    /\ Leaves(d)
    /\ Same /\ UNCHANGED tables

(* onDefaultRecorded: the snapshot is read, its score less the penalty      *)
(* saved, then users.moi_score; a failure of the last is only logged.       *)
newScore(s) == IF s > 0 THEN s - 1 ELSE 0
GetByUser(d) ==
    /\ Dispatching(d, "default")
    /\ disp' = [disp EXCEPT ![d].pc = "save", ![d].score = newScore(score)]
    /\ Same /\ UNCHANGED tables
SaveSnapshot(d) ==
    /\ disp[d].pc = "save"
    /\ \/ score' = disp[d].score /\ DispatchGoto(d, "moi")
       \/ UNCHANGED score /\ Leaves(d)
    /\ Same /\ UNCHANGED <<votes, bids, fees, moi, sent>>
onDefaultRecorded(d) ==
    /\ disp[d].pc = "moi"
    /\ moi' = disp[d].score \/ UNCHANGED moi
    /\ Leaves(d)
    /\ Same /\ UNCHANGED <<votes, bids, fees, score, sent>>

RoundNext ==
    \/ NextRound
    \/ \E u \in Users : Leave(u)
    \/ \E q \in Askers :
        \/ \E u, to \in Users : Vote(q, u, to)
        \/ \E u \in Users, b \in 0 .. MaxBid : AuctionBid(q, u, b)
        \/ FindMember(q) \/ FindRecipient(q) \/ CastVote(q) \/ SubmitAuctionBid(q)
        \/ GetVotesByRound(q) \/ GetMemberCount(q) \/ Told(q)
    \/ \E d \in Dispatchers :
        \/ \E e \in Events : Deliver(d, e)
        \/ NotApplied(d) \/ onVoteCast(d) \/ onAuctionBid(d) \/ onFeeDeposited(d)
        \/ onLateReported(d)
        \/ GetByUser(d) \/ SaveSnapshot(d) \/ onDefaultRecorded(d)

RoundSpec == RoundInit /\ [][RoundNext]_roundVars

Frames == [pc : {"idle", "member", "recipient", "write", "count", "members", "told"},
           op : {"none", "vote", "bid"}, user : Users \cup {NoUser}, to : Users \cup {NoUser},
           bid : Nat, round : 0 .. MaxRounds, winner : Users \cup {NoUser}]
Dispatches == [pc : {"idle", "dispatch", "save", "moi"}, ev : Events \cup {NoEvent},
               score : 0 .. StartScore]

(* The tables, the requests and the dispatchers have their types. *)
RoundTypeOK ==
    /\ round \in 1 .. MaxRounds /\ active \subseteq Users
    /\ votes \in [1 .. MaxRounds -> [Users -> Users \cup {NoUser}]]
    /\ bids \in [1 .. MaxRounds -> [Users -> 0 .. MaxBid]]
    /\ score \in 0 .. StartScore /\ moi \in 0 .. StartScore
    /\ fees \in [Events -> Nat] /\ sent \in [Events -> Nat]
    /\ frame \in [Askers -> Frames] /\ disp \in [Dispatchers -> Dispatches]

(* A recorded vote is never changed: neither a second request nor the       *)
(* voter's on-chain vote delivered before, after or again replaces it.      *)
KeepsVotes ==
    \A n \in 1 .. MaxRounds, u \in Users :
      votes[n][u] # NoUser => votes'[n][u] = votes[n][u]
VoteStands == [][KeepsVotes]_roundVars

(* However often and by whomever its event is delivered, an on-chain vote   *)
(* is announced at most once.                                               *)
VoteAnnounced == \A e \in Events : e.type = "vote" => sent[e] <= 1

(* A protocol fee is counted at most once in the treasury, however often    *)
(* and by whomever its event is delivered.                                  *)
FeeOnce == \A e \in Events : fees[e] <= 1

(* What the code keeps between its steps, on which the two properties rest: *)
(* a vote that was announced is in the table, whose key refuses the next.   *)
AnnouncedIsRecorded ==
    \A e \in Events : e.type = "vote" /\ sent[e] > 0 => votes[e.round][e.user] # NoUser
RoundInv ==
    /\ RoundTypeOK /\ VoteAnnounced /\ FeeOnce /\ AnnouncedIsRecorded
    /\ \A q \in Askers :
         /\ frame[q].op = "bid" => frame[q].bid <= MaxBid
         /\ frame[q].pc \in {"count", "members"} => frame[q].op = "vote"
=============================================================================
