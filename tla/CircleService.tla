--------------------------- MODULE CircleService ---------------------------
(***************************************************************************)
(* One savings circle in PostgreSQL, and the handlers that change it: the  *)
(* REST operations of internal/domain/circle/service.go and the contract   *)
(* event handlers of internal/indexer/processor.go.                        *)
(*                                                                         *)
(* A handler is a sequence of SQL statements.  A statement is atomic and   *)
(* READ COMMITTED, so each statement that reads something used later, and  *)
(* each statement that writes, is a step of its own; the row a handler     *)
(* read is kept in its frame and may be stale when it is written back.     *)
(* The indexer's two locked transactions (circle_tx.go) are one step each; *)
(* module ContributionLedger opens them up.                                *)
(***************************************************************************)
EXTENDS Integers, FiniteSets

CONSTANTS
  Users,        \* users that may take part
  Organizer,    \* the user that created the circle
  Handlers,     \* handler invocations in flight: API replicas, indexer workers
  Limits,       \* values a client may give for maxMembers
  Disputers,    \* users that raise disputes, over the API or on chain
  Rounds,       \* round numbers that occur in contract events
  MaxEventTotal \* the largest total a CircleCompleted event reports

ASSUME UsersAssumption == IsFiniteSet(Users) /\ Organizer \in Users
ASSUME DisputersAssumption == Disputers \subseteq Users
ASSUME LimitsAssumption == Limits \subseteq 2..100 /\ Limits # {}
ASSUME RoundsAssumption == Rounds \subseteq Nat \ {0} /\ IsFiniteSet(Rounds)
ASSUME EventTotalAssumption == MaxEventTotal \in Nat

VARIABLES
  circle,         \* the circles row: the columns some handler depends on
  members,        \* circle_members rows by user; status "none" when no row
  contributions,  \* contributions rows, UNIQUE (user, round)
  payouts,        \* rounds with a payouts row
  disputes,       \* users with a row in circle_disputes
  roundConfig,    \* round_config_snapshots of round 1: the limit, 0 when none
  frames          \* where each handler is and the values it has read

vars == <<circle, members, contributions, payouts, disputes, roundConfig, frames>>

CircleStatus == {"pending", "active", "completed", "cancelled", "disputed"}
MemberStatus == {"none", "active", "exited", "removed"}
Row == [status: CircleStatus, current_round: Nat, max_members: Limits,
        total_contributions: Nat]

(* The next statement a handler will execute. *)
Stage == {"idle", "startCount", "startSave", "startSnapshot", "save",
          "joinCount", "joinInsert", "setStatus",
          "disputeSave", "disputeInsert", "raiseMember", "raiseInsert"}
Frame == [at: Stage, user: Users, c: Row, n: Nat, to: MemberStatus]

Active == {u \in Users : members[u].status = "active"}
MemberCount == Cardinality(Active)
Contributors(r) == {u \in Users : <<u, r>> \in contributions}
Greatest(a, b) == IF a >= b THEN a ELSE b

NewRow(limit) == [status |-> "pending", current_round |-> 0,
                  max_members |-> limit, total_contributions |-> 0]
Idle == [at |-> "idle", user |-> Organizer, n |-> 0, to |-> "none",
         c |-> NewRow(CHOOSE l \in Limits : TRUE)]
-----------------------------------------------------------------------------
(* Create: one transaction inserts the circle and its organizer as the     *)
(* first member.                                                           *)
Init ==
  /\ \E limit \in Limits : circle = NewRow(limit)
  /\ members = [u \in Users |->
                  IF u = Organizer THEN [status |-> "active", position |-> 1]
                  ELSE [status |-> "none", position |-> 0]]
  /\ contributions = {} /\ payouts = {} /\ disputes = {}
  /\ roundConfig = 0
  /\ frames = [h \in Handlers |-> Idle]

Goto(h, frame) == frames' = [frames EXCEPT ![h] = frame]
Reads(h, stage, row) ==
  /\ frames[h].at = "idle"
  /\ Goto(h, [Idle EXCEPT !.at = stage, !.c = row])
Steps(h, stage, u) ==
  /\ frames[h].at = "idle"
  /\ Goto(h, [Idle EXCEPT !.at = stage, !.user = u,
                          !.c.max_members = circle.max_members])
TablesSame == UNCHANGED <<circle, members, contributions, payouts, disputes, roundConfig>>

(* repo.Update writes every column of the row the handler holds.           *)
RepoUpdate(h) ==
  /\ circle' = frames[h].c
  /\ UNCHANGED <<members, contributions, payouts, disputes, roundConfig>>

(* Mutated form: an upsert in place of the insert. *)
CreateMemberUpsert(u, position) ==
  members' = [members EXCEPT ![u] = [status |-> "active", position |-> position]]

(* repo.CreateMember: UNIQUE (circle_id, user_id) turns a second row for   *)
(* the user into ErrAlreadyMember.                                         *)
CreateMember(u, position) ==
  members' = IF members[u].status = "none"
             THEN [members EXCEPT ![u] = [status |-> "active", position |-> position]]
             ELSE members

(* repo.UpdateMemberStatus: unconditional on the status it replaces;       *)
(* ErrNotMember when there is no row.                                      *)
UpdateMemberStatus(u, status) ==
  members' = IF members[u].status = "none" THEN members
             ELSE [members EXCEPT ![u].status = status]
-----------------------------------------------------------------------------
(* Update: FindByID, organizer and status checks, then the whole row.      *)
Update(h, limit) ==
  /\ circle.status \in {"pending", "active"}
  /\ Reads(h, "save", [circle EXCEPT !.max_members = limit])
  /\ TablesSame

Cancel(h) ==
  /\ circle.status = "pending"
  /\ Reads(h, "save", [circle EXCEPT !.status = "cancelled"])
  /\ TablesSame

(* CloseCircle: some payout must be on record, then Close.                 *)
Close(h) ==
  /\ payouts # {}
  /\ circle.status = "active"
  /\ Reads(h, "save", [circle EXCEPT !.status = "completed"])
  /\ TablesSame

Save(h) ==
  /\ frames[h].at = "save"
  /\ RepoUpdate(h)
  /\ Goto(h, Idle)

(* Start: FindByID; GetMemberCount; repo.Update; snapshotRoundConfig.      *)
Start(h) ==
  /\ circle.status = "pending"
  /\ Reads(h, "startCount", circle)
  /\ TablesSame

(* Mutated form: the first round is not set. *)
StartCountNoRound(h) ==
  /\ frames[h].at = "startCount"
  /\ Goto(h, IF MemberCount < 2 THEN Idle
             ELSE [frames[h] EXCEPT !.at = "startSave", !.c.status = "active"])
  /\ TablesSame

StartCount(h) ==
  /\ frames[h].at = "startCount"
  /\ Goto(h, IF MemberCount < 2 THEN Idle
             ELSE [frames[h] EXCEPT !.at = "startSave", !.c.status = "active",
                                    !.c.current_round = 1])
  /\ TablesSame

StartSave(h) ==
  /\ frames[h].at = "startSave"
  /\ RepoUpdate(h)
  /\ Goto(h, [frames[h] EXCEPT !.at = "startSnapshot"])

StartSnapshot(h) ==
  /\ frames[h].at = "startSnapshot"
  /\ roundConfig' = IF roundConfig = 0 THEN frames[h].c.max_members ELSE roundConfig
  /\ Goto(h, Idle)
  /\ UNCHANGED <<circle, members, contributions, payouts, disputes>>
-----------------------------------------------------------------------------
(* Join: FindByID outside the transaction, then in it GetMemberCount and   *)
(* CreateMember.  The premium, community and invite checks depend on data  *)
(* that is not modelled: a user they refuse simply does not call Join.     *)
Join(h, u) ==
  /\ circle.status \in {"pending", "active"}
  /\ Steps(h, "joinCount", u)
  /\ TablesSame

JoinCount(h) ==
  /\ frames[h].at = "joinCount"
  /\ Goto(h, IF MemberCount >= frames[h].c.max_members THEN Idle
             ELSE [frames[h] EXCEPT !.at = "joinInsert", !.n = MemberCount])
  /\ TablesSame

JoinInsert(h) ==
  /\ frames[h].at = "joinInsert"
  /\ CreateMember(frames[h].user, frames[h].n + 1)
  /\ Goto(h, Idle)
  /\ UNCHANGED <<circle, contributions, payouts, disputes, roundConfig>>

(* Exit and RemoveMember: the member row is read, then its status written. *)
Exit(h, u) ==
  /\ u # Organizer
  /\ members[u].status = "active"
  /\ frames[h].at = "idle"
  /\ Goto(h, [Idle EXCEPT !.at = "setStatus", !.user = u, !.to = "exited"])
  /\ TablesSame

RemoveMember(h, u) ==
  /\ u # Organizer
  /\ members[u].status = "active"
  /\ frames[h].at = "idle"
  /\ Goto(h, [Idle EXCEPT !.at = "setStatus", !.user = u, !.to = "removed"])
  /\ TablesSame

SetStatus(h) ==
  /\ frames[h].at = "setStatus"
  /\ UpdateMemberStatus(frames[h].user, frames[h].to)
  /\ Goto(h, Idle)
  /\ UNCHANGED <<circle, contributions, payouts, disputes, roundConfig>>

(* RaiseDispute: the circle, then the member row, then the insert.         *)
RaiseDispute(h, u) ==
  /\ circle.status \in {"pending", "active"}
  /\ Steps(h, "raiseMember", u)
  /\ TablesSame

RaiseMember(h) ==
  /\ frames[h].at = "raiseMember"
  /\ Goto(h, IF frames[h].user \in Active THEN [frames[h] EXCEPT !.at = "raiseInsert"] ELSE Idle)
  /\ TablesSame

InsertDispute(h, stage) ==
  /\ frames[h].at = stage
  /\ disputes' = disputes \cup {frames[h].user}
  /\ Goto(h, Idle)
  /\ UNCHANGED <<circle, members, contributions, payouts, roundConfig>>

RaiseInsert(h) == InsertDispute(h, "raiseInsert")
-----------------------------------------------------------------------------
(* Contribute and TriggerPayout record what a client reports.  They write  *)
(* the row and leave the circle's counters to the indexer.  Their own      *)
(* check-then-insert steps are in module ContributionLedger.               *)
Contribute(u, r) ==
  /\ circle.status \notin {"completed", "cancelled"}
  /\ u \in Active
  /\ contributions' = contributions \cup {<<u, r>>}
  /\ UNCHANGED <<circle, members, payouts, disputes, roundConfig, frames>>

TriggerPayout(r) ==
  /\ circle.status = "active"
  /\ Active # {}
  /\ payouts' = payouts \cup {r}
  /\ UNCHANGED <<circle, members, contributions, disputes, roundConfig, frames>>
-----------------------------------------------------------------------------
(* Contract events.  The engine, the reconciler, the backfill and an       *)
(* operator's replay all feed the same handlers, so every event may arrive *)
(* at any time and more than once.                                         *)
OnMemberJoined(u) ==
  /\ CreateMember(u, 0)
  /\ UNCHANGED <<circle, contributions, payouts, disputes, roundConfig, frames>>

OnMemberExited(u) ==
  /\ UpdateMemberStatus(u, "exited")
  /\ UNCHANGED <<circle, contributions, payouts, disputes, roundConfig, frames>>

(* Mutated form: a replay is not recognised before the counter moves. *)
OnContributionReplayed(u, r) ==
  /\ circle.total_contributions < 9
  /\ contributions' = contributions \cup {<<u, r>>}
  /\ circle' = [circle EXCEPT !.total_contributions = @ + 1]
  /\ UNCHANGED <<members, payouts, disputes, roundConfig, frames>>

(* applyContribution and advanceRoundInTx: insert, then move the counters  *)
(* relative to the row as it is; a duplicate row rolls everything back.    *)
OnContributionReceived(u, r) ==
  LET contributed == Cardinality(Contributors(r) \cup {u})
      complete == MemberCount > 0 /\ contributed >= MemberCount
  IN /\ <<u, r>> \notin contributions
     /\ contributions' = contributions \cup {<<u, r>>}
     /\ circle' = [circle EXCEPT
          !.total_contributions = @ + 1,
          !.current_round = IF complete THEN Greatest(@, r + 1) ELSE @]
     /\ UNCHANGED <<members, payouts, disputes, roundConfig, frames>>

(* Mutated form: the round is advanced twice. *)
OnPayoutSkips(r) ==
  /\ r \notin payouts
  /\ payouts' = payouts \cup {r}
  /\ circle' = [circle EXCEPT !.current_round = Greatest(@, r + 2)]
  /\ UNCHANGED <<members, contributions, disputes, roundConfig, frames>>

(* recordPayoutAndAdvance. *)
OnPayoutExecuted(r) ==
  /\ r \notin payouts
  /\ payouts' = payouts \cup {r}
  /\ circle' = [circle EXCEPT !.current_round = Greatest(@, r + 1)]
  /\ UNCHANGED <<members, contributions, disputes, roundConfig, frames>>

OnCircleCompleted(h, total) ==
  /\ Reads(h, "save", [circle EXCEPT !.status = "completed", !.total_contributions = total])
  /\ TablesSame

OnDisputeRaised(h, u) ==
  /\ frames[h].at = "idle"
  /\ Goto(h, [Idle EXCEPT !.at = "disputeSave", !.user = u,
                          !.c = [circle EXCEPT !.status = "disputed"]])
  /\ TablesSame

DisputeSave(h) ==
  /\ frames[h].at = "disputeSave"
  /\ RepoUpdate(h)
  /\ Goto(h, [frames[h] EXCEPT !.at = "disputeInsert", !.c = Idle.c])

DisputeInsert(h) == InsertDispute(h, "disputeInsert")

(* A statement fails, the request is cancelled or the process dies: the    *)
(* handler returns and nothing further of it happens.                      *)
Abort(h) ==
  /\ frames[h].at # "idle"
  /\ Goto(h, Idle)
  /\ TablesSame
-----------------------------------------------------------------------------
Requests(h) ==
  \/ \E limit \in Limits : Update(h, limit)
  \/ Cancel(h) \/ Close(h) \/ Save(h)
  \/ Start(h) \/ StartCount(h) \/ StartSave(h) \/ StartSnapshot(h)
  \/ \E u \in Users : Join(h, u) \/ Exit(h, u) \/ RemoveMember(h, u)
  \/ \E u \in Disputers : RaiseDispute(h, u)
  \/ JoinCount(h) \/ JoinInsert(h) \/ SetStatus(h)
  \/ RaiseMember(h) \/ RaiseInsert(h)

Events(h) ==
  \/ \E total \in 0..MaxEventTotal : OnCircleCompleted(h, total)
  \/ \E u \in Disputers : OnDisputeRaised(h, u)
  \/ DisputeSave(h) \/ DisputeInsert(h)

Next ==
  \/ \E h \in Handlers : Requests(h) \/ Events(h) \/ Abort(h)
  \/ \E u \in Users : OnMemberJoined(u) \/ OnMemberExited(u)
  \/ \E u \in Users, r \in Rounds : Contribute(u, r) \/ OnContributionReceived(u, r)
  \/ \E r \in Rounds : TriggerPayout(r) \/ OnPayoutExecuted(r)

Spec == Init /\ [][Next]_vars
-----------------------------------------------------------------------------
(* The tables, and every row a handler holds in its frame, keep their      *)
(* types: no handler stores a status, round or limit outside its column.   *)
TypeOK ==
  /\ circle \in Row
  /\ members \in [Users -> [status: MemberStatus, position: Nat]]
  /\ contributions \subseteq Users \X Rounds
  /\ payouts \subseteq Rounds
  /\ disputes \subseteq Users
  /\ roundConfig \in Limits \cup {0}
  /\ frames \in [Handlers -> Frame]

(* A row is coherent when an active circle has a round and every round     *)
(* beyond the first is one past a round with a recorded row.               *)
RecordedRounds == {k[2] : k \in contributions} \cup payouts
HasRound(row) == row.status = "active" => row.current_round >= 1
Justified(row) == row.current_round <= 1 \/ row.current_round - 1 \in RecordedRounds

(* Start writes status "active" and round 1 in one statement, and no later *)
(* full-row write of a stale copy may separate them: whoever reads an      *)
(* active circle finds a round to contribute to.                           *)
ActiveHasRound == HasRound(circle)

(* The round counter never runs ahead of what was recorded: past round 1   *)
(* it is one more than a round with a contribution or payout row, also     *)
(* when a handler writes back a stale row.                                 *)
RoundJustified == Justified(circle)

(* Events are replayed by engine, reconciler and backfill, and a duplicate *)
(* contribution is rolled back before the counter moves: the total never   *)
(* exceeds the recorded contributions (plus the total the contract itself  *)
(* reported on completion).                                                *)
ReplayCountedOnce ==
  circle.total_contributions <= Cardinality(contributions) + MaxEventTotal

(* A member row is never deleted, never moves to another position, and a   *)
(* user who exited or was removed is never active again, whether Join, a   *)
(* replayed MemberJoined event or a racing Exit and RemoveMember run.      *)
MembershipOneWay ==
  [][\A u \in Users : members[u].status # "none" =>
        /\ members'[u].status # "none"
        /\ members'[u].position = members[u].position
        /\ members[u].status # "active" => members'[u].status # "active"]_vars
-----------------------------------------------------------------------------
(* A claim of the repository that concurrent handlers break.               *)

(* circle_tx.go:35 "current_round only ever moves forward": fails when a   *)
(* full-row write restores the round it read earlier, or Start sets it.    *)
RoundForwardOnly == [][circle'.current_round >= circle.current_round]_vars
=============================================================================
