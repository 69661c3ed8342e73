---------------------------- MODULE CircleReads ----------------------------
(***************************************************************************)
(* The reads of one circle that take several statements, while the circle  *)
(* is being written: GetCircleSnapshot (in one transaction), ExportCircle  *)
(* (page by page) and the member list a client walks by cursor.            *)
(***************************************************************************)
EXTENDS Integers, Sequences, FiniteSets, SequencesExt

CONSTANTS Readers, Users,
          Kinds,         \* the requests readers make: "snapshot", "export", "walk"
          PageSize,      \* ExportCircle asks for 500 rows
          MaxLimit,      \* ListByCircle serves at most 100 rows ...
          DefaultLimit,  \* ... and 20 when more are asked for
          MaxContribs, MaxRounds, MaxDbErrors

VARIABLES db,      \* the rows of the circle
          frame,   \* the request of each reader
          dbErrors
readVars == <<db, frame, dbErrors>>

Organizer == CHOOSE u \in Users : TRUE

(* The circle's rows; contributions and payouts in the order of creation.  *)
(* members gives the position of each user who has a member row, active is *)
(* the set of those whose status is active.                                *)
NoRow == -1
NoMembers == [u \in Users |-> NoRow]
NoRows == [round |-> 0, status |-> "none", members |-> NoMembers, active |-> {},
           contribs |-> <<>>, payouts |-> <<>>]
Members(rows) == {u \in Users : rows.members[u] # NoRow}
NoBalance == [contributed |-> 0, paidOut |-> 0, vault |-> 0, pending |-> FALSE,
              rounds |-> <<>>]
Idle == [pc |-> "idle", op |-> "none", user |-> Organizer, level |-> "none",
         view |-> NoRows, got |-> NoRows, list |-> {}, page |-> 1, total |-> 0,
         out |-> NoBalance, seen |-> {}]

ReadsInit ==
    /\ db = [round |-> 1, status |-> "active", members |-> [NoMembers EXCEPT ![Organizer] = 1],
             active |-> {Organizer}, contribs |-> <<>>, payouts |-> <<>>]
    /\ frame = [q \in Readers |-> Idle]
    /\ dbErrors = 0

At(q, op, l) == frame[q].op = op /\ frame[q].pc = l
Keep == UNCHANGED <<db, dbErrors>>
Fails(q) ==
    /\ dbErrors < MaxDbErrors
    /\ dbErrors' = dbErrors + 1
    /\ frame' = [frame EXCEPT ![q] = Idle]
    /\ UNCHANGED db

----------------------------------------------------------------------------
(* The writers: each changes the rows in one statement or transaction.     *)
Write(new) ==
    /\ db' = new
    /\ frame' = [q \in Readers |->
                   IF frame[q].op # "snapshot" \/ frame[q].seen = {} \/ frame[q].pc = "answered"
                   THEN frame[q]
                   ELSE [frame[q] EXCEPT !.seen = @ \cup {new}]]
    /\ UNCHANGED dbErrors
Contribute(u) ==
    /\ db.status = "active" /\ u \in db.active /\ Len(db.contribs) < MaxContribs
    /\ Write([db EXCEPT !.contribs = Append(@, [user |-> u, round |-> db.round,
                                                    id |-> Len(@) + 1])])
PayOut(u) ==
    /\ db.status = "active" /\ u \in db.active
    /\ \A i \in DOMAIN db.payouts : db.payouts[i].round # db.round
    /\ Write([db EXCEPT !.payouts = Append(@, [user |-> u, round |-> db.round,
                                                   id |-> Len(@) + 1])])
Advance ==
    /\ db.status = "active" /\ db.round < MaxRounds
    /\ Write([db EXCEPT !.round = @ + 1])
Complete ==
    /\ db.status = "active" /\ db.round = MaxRounds
    /\ Write([db EXCEPT !.status = "completed"])
(* Join puts a member behind the active ones; onMemberJoined of the        *)
(* indexer leaves the position at 0.  A row is never removed or moved.     *)
JoinMember(u, position) ==
    /\ db.members[u] = NoRow
    /\ position \in {Cardinality(db.active) + 1, 0}
    /\ Write([db EXCEPT !.members[u] = position, !.active = @ \cup {u}])
LeaveMember(u) ==
    /\ u \in db.active \ {Organizer}
    /\ Write([db EXCEPT !.active = @ \ {u}])

----------------------------------------------------------------------------
(* GetSnapshot and GetBulkSnapshots: the handlers check the ids. *)
GetSnapshot(q, u) ==
    /\ "snapshot" \in Kinds /\ frame[q].pc = "idle"
    /\ frame' = [frame EXCEPT ![q] = [Idle EXCEPT !.op = "snapshot", !.pc = "begin",
                                                  !.user = u]]
    /\ Keep

(* GetBulkCircleSnapshots: the circles the user has a member row of, in    *)
(* any status, or organizes; each is then read in its own transaction.     *)
GetBulkCircleSnapshots(q, u) ==
    /\ u \in Members(db)
    /\ GetSnapshot(q, u)

(* BeginTxx at REPEATABLE READ; when that fails, at READ COMMITTED.        *)
BeginSnapshot(q) ==
    /\ At(q, "snapshot", "begin")
    /\ \/ frame' = [frame EXCEPT ![q].pc = "circle", ![q].level = "rr"] /\ Keep
       \/ /\ dbErrors < MaxDbErrors
          /\ dbErrors' = dbErrors + 1
          /\ frame' = [frame EXCEPT ![q].pc = "circle", ![q].level = "rc"]
          /\ UNCHANGED db

(* Mutated form: every statement reads the rows as they are. *)
VisibleNow(q) == db

(* What a statement of the transaction sees: at REPEATABLE READ the rows   *)
(* as of its first statement.                                              *)
Visible(q) ==
    IF frame[q].level = "rr" THEN frame[q].view ELSE db

(* FindByID. *)
SnapshotCircle(q) ==
    /\ At(q, "snapshot", "circle")
    /\ \/ /\ frame' = [frame EXCEPT ![q].pc = "members",
                                    ![q].got.round = db.round, ![q].got.status = db.status,
                                    ![q].view = IF frame[q].level = "rr" THEN db ELSE NoRows,
                                    ![q].seen = IF frame[q].level = "rr" THEN {db} ELSE {}]
          /\ Keep
       \/ Fails(q)

(* GetMembers. *)
SnapshotMembers(q) ==
    /\ At(q, "snapshot", "members")
    /\ \/ /\ frame' = [frame EXCEPT ![q].pc = "contribs",
                                    ![q].got.members = Visible(q).members,
                                    ![q].got.active = Visible(q).active]
          /\ Keep
       \/ Fails(q)

(* The contributions, then the payouts (and the rounds' configurations,    *)
(* which no property tells apart).  Their errors are swallowed, but a      *)
(* failed statement aborts the transaction and the commit reports it.      *)
SnapshotContribs(q) ==
    /\ At(q, "snapshot", "contribs")
    /\ \/ /\ frame' = [frame EXCEPT ![q].pc = "payouts",
                                    ![q].got.contribs = Visible(q).contribs]
          /\ Keep
       \/ Fails(q)
SnapshotPayouts(q) ==
    /\ At(q, "snapshot", "payouts")
    /\ \/ /\ frame' = [frame EXCEPT ![q].pc = "commit",
                                    ![q].got.payouts = Visible(q).payouts]
          /\ Keep
       \/ Fails(q)

(* userRole, the gate and the answer.  Every contribution and payout is of *)
(* one unit and none has failed: amounts are counts.                       *)
userRole(u, rows) ==
    IF u = Organizer THEN "organizer" ELSE IF u \in rows.active THEN "member" ELSE "none"
Of(u, seq) == Len(SelectSeq(seq, LAMBDA r : r.user = u))
IsCurrentRoundPaid(u, rows) ==
    \E i \in DOMAIN rows.contribs : /\ rows.contribs[i].user = u
                                   /\ rows.contribs[i].round = rows.round
Rounds(rows) ==
    LET named == {rows.round} \cup {r.round : r \in ToSet(rows.contribs) \cup ToSet(rows.payouts)}
    IN [n \in 1 .. Max(named) |->
          IF n < rows.round \/ rows.status = "completed" THEN "completed"
          ELSE IF n = rows.round /\ rows.status = "active" THEN "active" ELSE "pending"]
Balances(u, rows) ==
    [contributed |-> Of(u, rows.contribs), paidOut |-> Of(u, rows.payouts),
     vault |-> Len(rows.contribs) - Len(rows.payouts),
     pending |-> rows.status = "active" /\ ~IsCurrentRoundPaid(u, rows),
     rounds |-> Rounds(rows)]
Answer(q) ==
    /\ At(q, "snapshot", "commit")
    /\ IF userRole(frame[q].user, frame[q].got) = "none"
       THEN frame' = [frame EXCEPT ![q] = Idle]
       ELSE frame' = [frame EXCEPT ![q].pc = "answered",
                        ![q].out = Balances(frame[q].user, frame[q].got)]
    /\ Keep

----------------------------------------------------------------------------
(* ExportCircle: circleService.Get, then for a member IsMember, then the   *)
(* members, of which a member exports only their own row.                  *)
ExportCircle(q, u) ==
    /\ "export" \in Kinds /\ frame[q].pc = "idle"
    /\ u = Organizer \/ u \in db.active
    /\ frame' = [frame EXCEPT ![q] = [Idle EXCEPT !.op = "export", !.pc = "contribs",
                        !.user = u, !.seen = {[NoRows EXCEPT !.contribs = db.contribs,
                                                             !.payouts = db.payouts]}]]
    /\ Keep

(* ListByCircle: the limit is clamped, the total counted, then the page    *)
(* read, newest rows first.                                                *)
limit(n) == IF n < 1 \/ n > MaxLimit THEN DefaultLimit ELSE n
Page(seq, page, n) ==
    LET newest == Reverse(seq) IN
    SubSeq(newest, (page - 1) * limit(n) + 1,
           IF page * limit(n) < Len(newest) THEN page * limit(n) ELSE Len(newest))
CountRows(q, seq) ==
    frame' = [frame EXCEPT ![q].pc = IF @ = "contribs" THEN "contribRows" ELSE "payoutRows",
                           ![q].total = Len(seq)]

(* A member's file has only the member's own rows. *)
VisibleRows(q, page) ==
    IF frame[q].user = Organizer THEN page
    ELSE SelectSeq(page, LAMBDA r : r.user = frame[q].user)

ExportCount(q) ==
    /\ frame[q].op = "export"
    /\ \/ frame[q].pc = "contribs" /\ CountRows(q, db.contribs) /\ Keep
       \/ frame[q].pc = "payouts" /\ CountRows(q, db.payouts) /\ Keep
       \/ frame[q].pc \in {"contribs", "payouts"} /\ Fails(q)

(* The loops end at the page that reaches the total, or at an empty one.   *)
LastPage(q, page) == frame[q].page * PageSize >= frame[q].total \/ page = <<>>
ExportContribs(q) ==
    /\ At(q, "export", "contribRows")
    /\ LET page == Page(db.contribs, frame[q].page, PageSize) IN
       frame' = [frame EXCEPT ![q].got.contribs = @ \o VisibleRows(q, page),
                              ![q].pc = IF LastPage(q, page) THEN "payouts" ELSE "contribs",
                              ![q].page = IF LastPage(q, page) THEN 1 ELSE @ + 1]
    /\ Keep
ExportPayouts(q) ==
    /\ At(q, "export", "payoutRows")
    /\ LET page == Page(db.payouts, frame[q].page, PageSize) IN
       frame' = [frame EXCEPT ![q].got.payouts = @ \o VisibleRows(q, page),
                              ![q].pc = IF LastPage(q, page) THEN "exported" ELSE "payouts",
                              ![q].page = @ + 1]
    /\ Keep

----------------------------------------------------------------------------
(* GetMembers of the repository: ORDER BY position leaves the order of     *)
(* equal positions open, and each query may choose it anew.                *)
Listings(rows) ==
    {l \in SetToSeqs(Members(rows)) :
       \A i, j \in DOMAIN l : i < j => rows.members[l[i]] <= rows.members[l[j]]}

(* GetMembers, one page of the list from the cursor; the client asks again *)
(* with nextCursor while there is more.                                    *)
MemberLimit == 1

nextCursor(end) == end

GetMembers(q) ==
    /\ "walk" \in Kinds
    /\ \/ frame[q].pc = "idle"
       \/ At(q, "walk", "more")
    /\ \E members \in Listings(db) :
         LET first == frame[q].pc = "idle"
             total == Len(members)
             start == IF first THEN 0 ELSE frame[q].page
             offset == IF start > total THEN total ELSE start
             more == offset + MemberLimit < total
             end == IF more THEN offset + MemberLimit ELSE total
         IN frame' = [frame EXCEPT ![q] =
               [(IF first THEN [Idle EXCEPT !.op = "walk", !.seen = {db}] ELSE frame[q])
                 EXCEPT !.pc = IF more THEN "more" ELSE "walked",
                        !.page = nextCursor(end),
                        !.list = @ \cup ToSet(SubSeq(members, offset + 1, end))]]
    /\ Keep

Finish(q) ==
    /\ frame[q].pc \in {"answered", "exported", "walked"}
    /\ frame' = [frame EXCEPT ![q] = Idle]
    /\ Keep

ReadsNext ==
    \/ Advance \/ Complete
    \/ \E u \in Users : \/ Contribute(u) \/ PayOut(u) \/ LeaveMember(u)
                        \/ \E position \in 0 .. Cardinality(Users) : JoinMember(u, position)
    \/ \E q \in Readers :
        \/ \E u \in Users : \/ GetSnapshot(q, u) \/ GetBulkCircleSnapshots(q, u)
                            \/ ExportCircle(q, u)
        \/ BeginSnapshot(q) \/ SnapshotCircle(q) \/ SnapshotMembers(q)
        \/ SnapshotContribs(q) \/ SnapshotPayouts(q) \/ Answer(q)
        \/ ExportCount(q) \/ ExportContribs(q) \/ ExportPayouts(q)
        \/ GetMembers(q) \/ Finish(q)

ReadsSpec == ReadsInit /\ [][ReadsNext]_readVars

(* The rows and the requests have their types. *)
ReadsTypeOK ==
    /\ db.round \in 1 .. MaxRounds /\ db.active \subseteq Members(db)
    /\ db.members \in [Users -> NoRow .. Cardinality(Users)]
    /\ \A q \in Readers :
         /\ frame[q].user \in Users /\ frame[q].level \in {"none", "rr", "rc"}
         /\ frame[q].list \subseteq Users
         /\ frame[q].got.active \subseteq Members(frame[q].got)

(* A snapshot taken at REPEATABLE READ is one state of the circle that     *)
(* held during the request, and its balances are that state's: no payout   *)
(* without its contributions, no round without its rows, however the       *)
(* writers interleave with its four statements.                            *)
SnapshotOneState ==
    \A q \in Readers :
      frame[q].pc = "answered" /\ frame[q].level = "rr"
      => \E rows \in frame[q].seen :
            frame[q].got = rows /\ frame[q].out = Balances(frame[q].user, rows)

(* An export leaves out a row of its reader that was there when it began   *)
(* only if the table has more rows than one page serves: the 500 rows      *)
(* asked for are clamped to 20, and the loop counts pages of 500.          *)
ExportCutByClamp ==
    \A q \in Readers :
      frame[q].pc = "exported"
      => \A rows \in frame[q].seen :
           /\ ToSet(VisibleRows(q, rows.contribs)) \subseteq ToSet(frame[q].got.contribs)
              \/ Len(db.contribs) > DefaultLimit
           /\ ToSet(VisibleRows(q, rows.payouts)) \subseteq ToSet(frame[q].got.payouts)
              \/ Len(db.payouts) > DefaultLimit

(* A client that follows nextCursor to the end has seen every member that  *)
(* was in the circle when it began, whoever joins or leaves between its    *)
(* requests, except one whose position another member shares.              *)
WalkCoversMembers ==
    \A q \in Readers :
      frame[q].pc = "walked"
      => \A rows \in frame[q].seen : \A u \in Members(rows) \ frame[q].list :
           \E v \in Members(db) \ {u} : db.members[v] = db.members[u]
=============================================================================
