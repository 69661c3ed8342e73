------------------------- MODULE ContributionLedger -------------------------
(***************************************************************************)
(* The contributions and payouts of one started circle, and the two sides  *)
(* that write them: the API (contribution.Record, payout.Record), which    *)
(* checks and then inserts without a transaction, and the indexer's        *)
(* workers (engine and reconciler), whose transactions take the circle's   *)
(* advisory lock, insert, and move the circle's counters (circle_tx.go).   *)
(*                                                                         *)
(* A row inserted by an open transaction lives in the worker's frame until *)
(* COMMIT; an insert that collides with it waits, as in PostgreSQL.        *)
(*                                                                         *)
(* Handlers that write the whole circles row (repo.Update) take no lock:   *)
(* an editor holds the row it read and writes all of it back, the counters *)
(* included, however old its copy is by then.                              *)
(***************************************************************************)
EXTENDS Integers, FiniteSets

CONSTANTS
  Users,           \* users
  Workers,         \* indexer workers: the engine's loop, the reconciler's
  Clients,         \* API requests in flight
  Editors,         \* handlers of the whole circles row in flight
  EventTotals,     \* totals a CircleCompleted event may report
  Contributions,   \* ContributionReceived events: [user, round, hash]
  Payouts,         \* PayoutExecuted events: [user, round, hash]
  RecordInputs,    \* contributions clients report: [user, round, hash]
  PayoutInputs,    \* payouts the organizer reports: [user, round, hash]
  Founders,        \* users that are members when the circle starts
  Free,            \* "no worker": the value of an advisory lock not held
  MaxFaults        \* bound: failed handlers and restarts of the indexer

ASSUME UsersAssumption == IsFiniteSet(Users) /\ Founders \subseteq Users
ASSUME EventsAssumption ==
  /\ Contributions \subseteq [user: Users, round: Nat, hash: STRING]
  /\ Payouts \subseteq [user: Users, round: Nat, hash: STRING]
  /\ RecordInputs \subseteq [user: Users, round: Nat, hash: STRING]
  /\ PayoutInputs \subseteq [user: Users, round: Nat, hash: STRING]
  /\ \A e \in Contributions, p \in Payouts : e.hash # p.hash
ASSUME ReportAssumption == Contributions \cup Payouts \cup RecordInputs \cup PayoutInputs # {}
ASSUME FreeAssumption == Free \notin Workers
ASSUME BoundsAssumption == MaxFaults \in Nat /\ EventTotals \subseteq Nat

VARIABLES
  circle,         \* the circles row; reported: the total of the CircleCompleted
                  \* event its count continues from, 0 before one was written
  member,         \* each user's circle_members row: "none", "active", "left"
  contributions,  \* committed contributions rows
  payouts,        \* committed payouts rows
  lock,           \* holder of pg_advisory_xact_lock(circle)
  worker,         \* each worker's open transaction
  client,         \* each API request's progress
  editor,         \* each editor's copy of the circles row
  seen,           \* events in each worker's deduplicator or behind the cursor
  handled,        \* events some worker finished without an error
  failed,         \* events some worker logged an error for and left
  faults

tables == <<circle, member, contributions, payouts>>
requests == <<client, editor>>
dispatch == <<seen, handled, failed>>
vars == <<tables, lock, worker, requests, dispatch, faults>>

Report == Contributions \cup Payouts \cup RecordInputs \cup PayoutInputs
NoReport == CHOOSE r \in Report : TRUE
NoRow == [user |-> NoReport.user, round |-> NoReport.round, hash |-> NoReport.hash,
          by |-> "none", on_time |-> FALSE]
MakeRow(e, by, onTime) == [user |-> e.user, round |-> e.round, hash |-> e.hash,
                           by |-> by, on_time |-> onTime]
ResetWorker == [at |-> "idle", row |-> NoRow, contributed |-> 0, members |-> 0]
ResetClient == [at |-> "idle", row |-> NoRow]
Started == [status |-> "active", current_round |-> 1, total_contributions |-> 0, reported |-> 0]
ResetEditor == [at |-> "idle", row |-> Started]
Events == Contributions \cup Payouts
AsEvent(r) == [user |-> r.user, round |-> r.round, hash |-> r.hash]
Latest(a, b) == IF a >= b THEN a ELSE b

(* UNIQUE (circle, user, round) and UNIQUE (txn_hash) of contributions;    *)
(* only UNIQUE (txn_hash) of payouts.                                      *)
SameContribution(r, s) == r.hash = s.hash \/ (r.user = s.user /\ r.round = s.round)
SamePayout(r, s) == r.hash = s.hash
ContributionExists(r) == \E s \in contributions : SameContribution(r, s)
PayoutExists(r) == \E s \in payouts : SamePayout(r, s)
-----------------------------------------------------------------------------
Init ==
  /\ circle = Started
  /\ member = [u \in Users |-> IF u \in Founders THEN "active" ELSE "none"]
  /\ contributions = {} /\ payouts = {}
  /\ lock = Free
  /\ worker = [w \in Workers |-> ResetWorker]
  /\ client = [c \in Clients |-> ResetClient]
  /\ editor = [x \in Editors |-> ResetEditor]
  /\ seen = [w \in Workers |-> {}] /\ handled = {} /\ failed = {}
  /\ faults = 0

Active == {u \in Users : member[u] = "active"}
SetWorker(w, f) == worker' = [worker EXCEPT ![w] = f]
SetClient(c, f) == client' = [client EXCEPT ![c] = f]

(* A worker takes up an event its deduplicator does not know.  *)
Takes(w, e) ==
  /\ worker[w].at = "idle" /\ e \notin seen[w]
  /\ seen' = [seen EXCEPT ![w] = @ \cup {e}]

(* Mutated form: a replay is counted before its row is refused. *)
ApplyContributionCounts(w, e) ==
  LET row == MakeRow(e, "indexer", TRUE)
  IN /\ Takes(w, e) /\ lock = Free
     /\ IF ContributionExists(row)
        THEN /\ handled' = handled \cup {e}
             /\ circle' = [circle EXCEPT !.total_contributions = @ + 1]
             /\ UNCHANGED <<lock, worker>>
        ELSE /\ lock' = w
             /\ SetWorker(w, [ResetWorker EXCEPT !.at = "contributors", !.row = row])
             /\ UNCHANGED <<handled, circle>>
     /\ UNCHANGED <<member, contributions, payouts, requests, failed, faults>>

(* onContributionReceived, applyContribution: lock the circle and insert.  *)
(* A collision is ErrConflict: the transaction rolls back and the event    *)
(* counts as handled.                                                      *)
ApplyContribution(w, e) ==
  LET row == MakeRow(e, "indexer", TRUE)
  IN /\ Takes(w, e) /\ lock = Free
     /\ IF ContributionExists(row)
        THEN /\ handled' = handled \cup {e}
             /\ UNCHANGED <<lock, worker>>
        ELSE /\ lock' = w
             /\ SetWorker(w, [ResetWorker EXCEPT !.at = "contributors", !.row = row])
             /\ UNCHANGED handled
     /\ UNCHANGED <<tables, requests, failed, faults>>

CountContributors(w) ==
  LET r == worker[w].row
      others == {s.user : s \in {t \in contributions : t.round = r.round}}
  IN /\ worker[w].at = "contributors"
     /\ SetWorker(w, [worker[w] EXCEPT !.at = "members",
                        !.contributed = Cardinality(others \cup {r.user})])
     /\ UNCHANGED <<tables, lock, requests, dispatch, faults>>

CountMembers(w) ==
  /\ worker[w].at = "members"
  /\ SetWorker(w, [worker[w] EXCEPT !.at = "commit", !.members = Cardinality(Active)])
  /\ UNCHANGED <<tables, lock, requests, dispatch, faults>>

(* Mutated form: only a contribution that completes its round is counted.  *)
CommitContributionDrops(w) ==
  LET f == worker[w]
      complete == f.members > 0 /\ f.contributed >= f.members
  IN /\ f.at = "commit"
     /\ contributions' = contributions \cup {f.row}
     /\ circle' = IF complete
                  THEN [circle EXCEPT !.total_contributions = @ + 1,
                                      !.current_round = Latest(@, f.row.round + 1)]
                  ELSE circle
     /\ handled' = handled \cup {AsEvent(f.row)}
     /\ lock' = Free /\ SetWorker(w, ResetWorker)
     /\ UNCHANGED <<member, payouts, requests, seen, failed, faults>>

(* sqlApplyContribution and COMMIT. *)
CommitContribution(w) ==
  LET f == worker[w]
      complete == f.members > 0 /\ f.contributed >= f.members
  IN /\ f.at = "commit"
     /\ contributions' = contributions \cup {f.row}
     /\ circle' = [circle EXCEPT
          !.total_contributions = @ + 1,
          !.current_round = IF complete THEN Latest(@, f.row.round + 1) ELSE @]
     /\ handled' = handled \cup {AsEvent(f.row)}
     /\ lock' = Free /\ SetWorker(w, ResetWorker)
     /\ UNCHANGED <<member, payouts, requests, seen, failed, faults>>

(* recordPayoutAndAdvance: the same with the round moved unconditionally.  *)
RecordPayout(w, e) ==
  LET row == MakeRow(e, "indexer", TRUE)
  IN /\ Takes(w, e) /\ lock = Free
     /\ IF PayoutExists(row)
        THEN /\ handled' = handled \cup {e}
             /\ UNCHANGED <<lock, worker>>
        ELSE /\ lock' = w
             /\ SetWorker(w, [ResetWorker EXCEPT !.at = "payout", !.row = row])
             /\ UNCHANGED handled
     /\ UNCHANGED <<tables, requests, failed, faults>>

CommitPayout(w) ==
  LET f == worker[w]
  IN /\ f.at = "payout"
     /\ payouts' = payouts \cup {f.row}
     /\ circle' = [circle EXCEPT !.current_round = Latest(@, f.row.round + 1)]
     /\ handled' = handled \cup {AsEvent(f.row)}
     /\ lock' = Free /\ SetWorker(w, ResetWorker)
     /\ UNCHANGED <<member, contributions, requests, seen, failed, faults>>

(* A lookup before the transaction fails.  processContractEvents logs the  *)
(* error and goes on; the hash stays in the deduplicator.                  *)
HandlerFails(w, e) ==
  /\ Takes(w, e) /\ faults < MaxFaults
  /\ failed' = failed \cup {e} /\ faults' = faults + 1
  /\ UNCHANGED <<tables, lock, worker, requests, handled>>

(* Mutated form: a lock that outlives the transaction that took it.        *)
StatementFailsKeepsLock(w) ==
  /\ worker[w].at # "idle" /\ faults < MaxFaults
  /\ SetWorker(w, ResetWorker)
  /\ failed' = failed \cup {AsEvent(worker[w].row)} /\ faults' = faults + 1
  /\ UNCHANGED <<tables, lock, requests, seen, handled>>

(* A statement of the transaction fails: ROLLBACK, which also frees the    *)
(* transaction-scoped lock.  The error is logged, the event not retried.   *)
StatementFails(w) ==
  /\ worker[w].at # "idle" /\ faults < MaxFaults
  /\ lock' = Free /\ SetWorker(w, ResetWorker)
  /\ failed' = failed \cup {AsEvent(worker[w].row)} /\ faults' = faults + 1
  /\ UNCHANGED <<tables, requests, seen, handled>>

(* The indexer process dies with both loops: the server rolls back, and    *)
(* the new process, its deduplicators empty, resumes after the cursor,     *)
(* which is behind no event a loop was not done with.                      *)
Crash ==
  /\ faults < MaxFaults /\ faults' = faults + 1
  /\ lock' = Free /\ worker' = [w \in Workers |-> ResetWorker]
  /\ \E passed \in SUBSET (handled \cup failed) : seen' = [w \in Workers |-> passed]
  /\ UNCHANGED <<tables, requests, handled, failed>>
-----------------------------------------------------------------------------
(* contribution.Record: circle not ended, hash not yet known; Horizon      *)
(* rejects (the request ends) or verifies or is unavailable; membership;   *)
(* the round read that decides OnTime; the insert.                         *)
RecordBegin(c, e) ==
  LET row == MakeRow(e, "api", FALSE)
  IN /\ client[c].at = "idle"
     /\ circle.status # "completed"
     /\ \A s \in contributions : s.hash # row.hash
     /\ SetClient(c, [at |-> "member", row |-> row])
     /\ UNCHANGED <<tables, lock, worker, editor, dispatch, faults>>

RecordMember(c) ==
  /\ client[c].at = "member"
  /\ SetClient(c, IF client[c].row.user \in Active
                  THEN [client[c] EXCEPT !.at = "round"] ELSE ResetClient)
  /\ UNCHANGED <<tables, lock, worker, editor, dispatch, faults>>

RecordRound(c) ==
  LET r == client[c].row.round
  IN /\ client[c].at = "round"
     /\ SetClient(c, [client[c] EXCEPT !.at = "create",
                        !.row.on_time = r >= 1 /\ r <= circle.current_round])
     /\ UNCHANGED <<tables, lock, worker, editor, dispatch, faults>>

(* The insert waits for an open transaction holding a colliding row; a     *)
(* collision with a committed row changes nothing.                         *)
RecordCreate(c) ==
  LET row == client[c].row
  IN /\ client[c].at = "create"
     /\ \A w \in Workers : worker[w].at \in {"contributors", "members", "commit"}
                             => ~SameContribution(row, worker[w].row)
     /\ contributions' = IF ContributionExists(row) THEN contributions
                         ELSE contributions \cup {row}
     /\ SetClient(c, ResetClient)
     /\ UNCHANGED <<circle, member, payouts, lock, worker, editor, dispatch, faults>>

(* TriggerPayout and payout.Record: circle active, hash not yet known;     *)
(* membership and Horizon; the scan for a payout to the same recipient in  *)
(* the same round; the insert.                                             *)
PayoutBegin(c, e) ==
  LET row == MakeRow(e, "api", FALSE)
  IN /\ client[c].at = "idle"
     /\ circle.status = "active"
     /\ ~PayoutExists(row)
     /\ SetClient(c, [at |-> "payoutMember", row |-> row])
     /\ UNCHANGED <<tables, lock, worker, editor, dispatch, faults>>

PayoutMember(c) ==
  /\ client[c].at = "payoutMember"
  /\ SetClient(c, IF client[c].row.user \in Active
                  THEN [client[c] EXCEPT !.at = "payoutScan"] ELSE ResetClient)
  /\ UNCHANGED <<tables, lock, worker, editor, dispatch, faults>>

PayoutScan(c) ==
  LET row == client[c].row
  IN /\ client[c].at = "payoutScan"
     /\ SetClient(c, IF \E s \in payouts : s.user = row.user /\ s.round = row.round
                     THEN ResetClient ELSE [client[c] EXCEPT !.at = "payoutCreate"])
     /\ UNCHANGED <<tables, lock, worker, editor, dispatch, faults>>

PayoutCreate(c) ==
  LET row == client[c].row
  IN /\ client[c].at = "payoutCreate"
     /\ \A w \in Workers : worker[w].at = "payout" => ~SamePayout(row, worker[w].row)
     /\ payouts' = IF PayoutExists(row) THEN payouts ELSE payouts \cup {row}
     /\ SetClient(c, ResetClient)
     /\ UNCHANGED <<circle, member, contributions, lock, worker, editor, dispatch, faults>>
-----------------------------------------------------------------------------
(* Members, as module CircleService models them: users join once and leave *)
(* once.                                                                   *)
MemberJoins(u) ==
  /\ member[u] = "none"
  /\ member' = [member EXCEPT ![u] = "active"]
  /\ UNCHANGED <<circle, contributions, payouts, lock, worker, requests, dispatch, faults>>

MemberLeaves(u) ==
  /\ member[u] = "active"
  /\ member' = [member EXCEPT ![u] = "left"]
  /\ UNCHANGED <<circle, contributions, payouts, lock, worker, requests, dispatch, faults>>

-----------------------------------------------------------------------------
(* The handlers that read the row, change their copy and write all of it   *)
(* back.                                                                   *)
ReadRow(x, row) ==
  /\ editor[x].at = "idle"
  /\ editor' = [editor EXCEPT ![x] = [at |-> "save", row |-> row]]
  /\ UNCHANGED <<tables, lock, worker, client, dispatch, faults>>

Update(x) == circle.status = "active" /\ ReadRow(x, circle)
Close(x) ==
  /\ payouts # {} /\ circle.status = "active"
  /\ ReadRow(x, [circle EXCEPT !.status = "completed"])
OnCircleCompleted(x, t) ==
  ReadRow(x, [circle EXCEPT !.status = "completed", !.total_contributions = t, !.reported = t])
OnDisputeRaised(x) == ReadRow(x, [circle EXCEPT !.status = "disputed"])

(* repo.Update, or the handler ends before it. *)
SaveRow(x) ==
  /\ editor[x].at = "save"
  /\ circle' \in {circle, editor[x].row}
  /\ editor' = [editor EXCEPT ![x] = ResetEditor]
  /\ UNCHANGED <<member, contributions, payouts, lock, worker, client, dispatch, faults>>

Dispatch(w) ==
  \/ \E e \in Contributions : ApplyContribution(w, e)
  \/ \E e \in Payouts : RecordPayout(w, e)
Transact(w) ==
  CountContributors(w) \/ CountMembers(w) \/ CommitContribution(w) \/ CommitPayout(w)
WorkerFails(w) == StatementFails(w) \/ \E e \in Events : HandlerFails(w, e)

ClientStep(c) ==
  \/ \E e \in RecordInputs : RecordBegin(c, e)
  \/ RecordMember(c) \/ RecordRound(c) \/ RecordCreate(c)
  \/ \E e \in PayoutInputs : PayoutBegin(c, e)
  \/ PayoutMember(c) \/ PayoutScan(c) \/ PayoutCreate(c)

EditorStep(x) ==
  \/ Update(x) \/ Close(x) \/ OnDisputeRaised(x) \/ SaveRow(x)
  \/ \E t \in EventTotals : OnCircleCompleted(x, t)

Next ==
  \/ \E w \in Workers : Dispatch(w) \/ Transact(w) \/ WorkerFails(w)
  \/ Crash
  \/ \E c \in Clients : ClientStep(c)
  \/ \E x \in Editors : EditorStep(x)
  \/ \E u \in Users : MemberJoins(u) \/ MemberLeaves(u)

Spec == Init /\ [][Next]_vars

(* A transaction's statements are executed one after the other, and some   *)
(* loop dispatches the events the cursor has not passed.  Nothing makes a  *)
(* worker come back to an event it has seen.                               *)
Fairness ==
  /\ \A w \in Workers : WF_vars(Transact(w))
  /\ WF_vars(\E w \in Workers : Dispatch(w))
FairSpec == Spec /\ Fairness
-----------------------------------------------------------------------------
TableRow == [user: Users, round: Nat, hash: STRING, by: {"none", "api", "indexer"},
             on_time: BOOLEAN]
WorkerStage == {"idle", "contributors", "members", "commit", "payout"}
ClientStage == {"idle", "member", "round", "create", "payoutMember", "payoutScan", "payoutCreate"}

Counters == [status: {"active", "disputed", "completed"}, current_round: Nat,
             total_contributions: Nat, reported: EventTotals \cup {0}]

(* The tables, the lock, the open transactions and the requests keep their *)
(* types; only known events are ever seen, handled or failed.              *)
TypeOK ==
  /\ circle \in Counters
  /\ member \in [Users -> {"none", "active", "left"}]
  /\ contributions \subseteq TableRow /\ payouts \subseteq TableRow
  /\ lock \in Workers \cup {Free}
  /\ worker \in [Workers -> [at: WorkerStage, row: TableRow, contributed: Nat, members: Nat]]
  /\ client \in [Clients -> [at: ClientStage, row: TableRow]]
  /\ editor \in [Editors -> [at: {"idle", "save"}, row: Counters]]
  /\ seen \in [Workers -> SUBSET Events]
  /\ handled \subseteq Events /\ failed \subseteq Events
  /\ faults \in 0..MaxFaults

(* The events whose rows the indexer inserted, and the rounds they open.   *)
Applied(rows) == {AsEvent(r) : r \in {s \in rows : s.by = "indexer"}}
Reached == {1} \cup {e.round + 1 : e \in Applied(contributions) \cup Applied(payouts)}
HeldRows == {circle} \cup {editor[x].row : x \in Editors}

(* However replays, restarts, API inserts and whole-row writes interleave, *)
(* no contribution is counted twice: neither in the circles row nor in a   *)
(* copy that will overwrite it does the total exceed the contributions the *)
(* indexer inserted, counted from the last total the contract reported.    *)
NoneCountedTwice ==
  \A row \in HeldRows :
     row.total_contributions <= row.reported + Cardinality(Applied(contributions))

(* circle_tx.go:35: a transaction of a worker never moves the round back,  *)
(* whatever order replayed events arrive in; only a whole-row write does.  *)
LockedRoundForward ==
  [][worker' # worker => circle'.current_round >= circle.current_round]_vars

(* A contribution the API marked on time is of a round that recorded       *)
(* events had opened, although the round it was judged by was read before  *)
(* the insert and may have been put back since.                            *)
OnTimeWithinReached ==
  \A r \in contributions : r.by = "api" /\ r.on_time =>
     \E k \in Reached : r.round \in 1..k

(* Every event comes to an end, recorded or logged as failed, whichever    *)
(* statement fails and whenever the process restarts: a rollback frees the *)
(* lock, so no transaction keeps the other loop from the circle.           *)
EventsSettled == <>(Events \subseteq handled \cup failed)

(* The locked transactions implement the one-step updates of               *)
(* CircleCounters: a row and the counters it moves land together, and a    *)
(* whole-row write restores only counters that recorded rows account for.  *)
Abstract == INSTANCE CircleCounters WITH
  credited <- Applied(contributions), paid <- Applied(payouts),
  round <- circle.current_round,
  total <- circle.total_contributions, reported <- circle.reported
RefinesCounters == Abstract!Spec
-----------------------------------------------------------------------------
(* A claim of the repository that does not hold.                           *)

(* circle_tx.go:15 "A contribution and the circle round state it moves     *)
(* must land together": fails when the API recorded the contribution       *)
(* first, because the event is then a conflict and the counters never move.*)
HandledIsCounted == handled \cap Contributions \subseteq Applied(contributions)
=============================================================================
