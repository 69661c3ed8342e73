------------------------ MODULE CircleServiceProofs ------------------------
(***************************************************************************)
(* Proofs about CircleService for any number of users, handlers, rounds    *)
(* and limits.                                                             *)
(***************************************************************************)
EXTENDS CircleService, FiniteSetTheorems, TLAPS

LEMMA MemberCountType == MemberCount \in Nat
<1>1. IsFiniteSet(Active)
  BY UsersAssumption, FS_Subset DEF Active
<1> QED
  BY <1>1, FS_CardinalityType DEF MemberCount

LEMMA IdleType == Idle \in Frame /\ Idle.c \in Row
<1>1. (CHOOSE l \in Limits : TRUE) \in Limits
  BY LimitsAssumption
<1> QED
  BY <1>1, UsersAssumption DEF Idle, NewRow, Frame, Row, Stage, MemberStatus, CircleStatus

LEMMA CountedType ==
  ASSUME NEW row \in Row, NEW total \in Nat, NEW round \in Nat
  PROVE  [row EXCEPT !.total_contributions = total, !.current_round = round] \in Row
BY DEF Row

(* A handler's frame keeps its type when it is replaced by a typed one. *)
LEMMA GotoType ==
  ASSUME TypeOK, NEW h \in Handlers, NEW f \in Frame, Goto(h, f)
  PROVE  frames' \in [Handlers -> Frame]
BY DEF TypeOK, Goto

LEMMA CreateMemberType ==
  ASSUME TypeOK, NEW u \in Users, NEW p \in Nat, CreateMember(u, p)
  PROVE  members' \in [Users -> [status: MemberStatus, position: Nat]]
BY DEF TypeOK, CreateMember, MemberStatus

LEMMA UpdateMemberStatusType ==
  ASSUME TypeOK, NEW u \in Users, NEW s \in MemberStatus, UpdateMemberStatus(u, s)
  PROVE  members' \in [Users -> [status: MemberStatus, position: Nat]]
BY DEF TypeOK, UpdateMemberStatus

LEMMA ReadsType ==
  ASSUME TypeOK, NEW h \in Handlers, NEW s \in Stage, NEW row \in Row,
         Reads(h, s, row), TablesSame
  PROVE  TypeOK'
<1>1. [Idle EXCEPT !.at = s, !.c = row] \in Frame
  BY IdleType DEF Frame, Idle
<1>2. frames' \in [Handlers -> Frame]
  BY <1>1, GotoType DEF Reads
<1> QED
  BY <1>2 DEF TypeOK, TablesSame

LEMMA StepsType ==
  ASSUME TypeOK, NEW h \in Handlers, NEW s \in Stage, NEW u \in Users,
         Steps(h, s, u), TablesSame
  PROVE  TypeOK'
<1>1. [Idle EXCEPT !.at = s, !.user = u, !.c.max_members = circle.max_members] \in Frame
  BY IdleType DEF Frame, Row, TypeOK
<1>2. frames' \in [Handlers -> Frame]
  BY <1>1, GotoType DEF Steps
<1> QED
  BY <1>2 DEF TypeOK, TablesSame

LEMMA InsertDisputeType ==
  ASSUME TypeOK, NEW h \in Handlers, NEW s, InsertDispute(h, s)
  PROVE  TypeOK'
<1>1. frames[h].user \in Users
  BY DEF TypeOK, Frame
<1>2. frames' \in [Handlers -> Frame]
  BY IdleType, GotoType DEF InsertDispute
<1> QED
  BY <1>1, <1>2 DEF TypeOK, InsertDispute

(* The steps of the REST handlers keep every column and frame typed. *)
LEMMA RequestsType ==
  ASSUME TypeOK, NEW h \in Handlers, Requests(h)
  PROVE  TypeOK'
<1> USE DEF Stage
<1>0. frames[h] \in Frame /\ frames[h].c \in Row /\ frames[h].user \in Users
      /\ frames[h].n \in Nat /\ frames[h].to \in MemberStatus /\ circle \in Row
  BY DEF TypeOK, Frame
<1>1. ASSUME NEW limit \in Limits, Update(h, limit) PROVE TypeOK'
  <2>1. [circle EXCEPT !.max_members = limit] \in Row
    BY <1>0 DEF Row
  <2> QED BY <1>1, <2>1, ReadsType DEF Update
<1>2. CASE Cancel(h)
  <2>1. [circle EXCEPT !.status = "cancelled"] \in Row
    BY <1>0 DEF Row, CircleStatus
  <2> QED BY <1>2, <2>1, ReadsType DEF Cancel
<1>3. CASE Close(h)
  <2>1. [circle EXCEPT !.status = "completed"] \in Row
    BY <1>0 DEF Row, CircleStatus
  <2> QED BY <1>3, <2>1, ReadsType DEF Close
<1>4. CASE Save(h)
  <2>1. frames' \in [Handlers -> Frame]
    BY <1>4, IdleType, GotoType DEF Save
  <2> QED BY <1>0, <1>4, <2>1 DEF Save, RepoUpdate, TypeOK
<1>5. CASE Start(h)
  BY <1>0, <1>5, ReadsType DEF Start
<1>6. CASE StartCount(h)
  <2>1. [frames[h] EXCEPT !.at = "startSave", !.c.status = "active",
                          !.c.current_round = 1] \in Frame
    BY <1>0 DEF Frame, Row, CircleStatus
  <2>2. frames' \in [Handlers -> Frame]
    BY <1>6, <2>1, IdleType, GotoType DEF StartCount
  <2> QED BY <1>6, <2>2 DEF StartCount, TablesSame, TypeOK
<1>7. CASE StartSave(h)
  <2>1. [frames[h] EXCEPT !.at = "startSnapshot"] \in Frame
    BY <1>0 DEF Frame
  <2>2. frames' \in [Handlers -> Frame]
    BY <1>7, <2>1, GotoType DEF StartSave
  <2> QED BY <1>0, <1>7, <2>2 DEF StartSave, RepoUpdate, TypeOK
<1>8. CASE StartSnapshot(h)
  <2>1. frames' \in [Handlers -> Frame]
    BY <1>8, IdleType, GotoType DEF StartSnapshot
  <2>2. frames[h].c.max_members \in Limits
    BY <1>0 DEF Row
  <2> QED BY <1>8, <2>1, <2>2 DEF StartSnapshot, TypeOK
<1>9. ASSUME NEW u \in Users, Join(h, u) PROVE TypeOK'
  BY <1>9, StepsType DEF Join
<1>10. ASSUME NEW u \in Users, Exit(h, u) PROVE TypeOK'
  <2>1. [Idle EXCEPT !.at = "setStatus", !.user = u, !.to = "exited"] \in Frame
    BY IdleType DEF Frame, MemberStatus
  <2>2. frames' \in [Handlers -> Frame]
    BY <1>10, <2>1, GotoType DEF Exit
  <2> QED BY <1>10, <2>2 DEF Exit, TablesSame, TypeOK
<1>11. ASSUME NEW u \in Users, RemoveMember(h, u) PROVE TypeOK'
  <2>1. [Idle EXCEPT !.at = "setStatus", !.user = u, !.to = "removed"] \in Frame
    BY IdleType DEF Frame, MemberStatus
  <2>2. frames' \in [Handlers -> Frame]
    BY <1>11, <2>1, GotoType DEF RemoveMember
  <2> QED BY <1>11, <2>2 DEF RemoveMember, TablesSame, TypeOK
<1>12. ASSUME NEW u \in Disputers, RaiseDispute(h, u) PROVE TypeOK'
  BY <1>12, StepsType, DisputersAssumption DEF RaiseDispute
<1>13. CASE JoinCount(h)
  <2>1. [frames[h] EXCEPT !.at = "joinInsert", !.n = MemberCount] \in Frame
    BY <1>0, MemberCountType DEF Frame
  <2>2. frames' \in [Handlers -> Frame]
    BY <1>13, <2>1, IdleType, GotoType DEF JoinCount
  <2> QED BY <1>13, <2>2 DEF JoinCount, TablesSame, TypeOK
<1>14. CASE JoinInsert(h)
  <2>1. frames' \in [Handlers -> Frame]
    BY <1>14, IdleType, GotoType DEF JoinInsert
  <2>2. members' \in [Users -> [status: MemberStatus, position: Nat]]
    BY <1>0, <1>14, CreateMemberType DEF JoinInsert
  <2> QED BY <1>14, <2>1, <2>2 DEF JoinInsert, TypeOK
<1>15. CASE SetStatus(h)
  <2>1. frames' \in [Handlers -> Frame]
    BY <1>15, IdleType, GotoType DEF SetStatus
  <2>2. members' \in [Users -> [status: MemberStatus, position: Nat]]
    BY <1>0, <1>15, UpdateMemberStatusType DEF SetStatus
  <2> QED BY <1>15, <2>1, <2>2 DEF SetStatus, TypeOK
<1>16. CASE RaiseMember(h)
  <2>1. [frames[h] EXCEPT !.at = "raiseInsert"] \in Frame
    BY <1>0 DEF Frame
  <2>2. frames' \in [Handlers -> Frame]
    BY <1>16, <2>1, IdleType, GotoType DEF RaiseMember
  <2> QED BY <1>16, <2>2 DEF RaiseMember, TablesSame, TypeOK
<1>17. CASE RaiseInsert(h)
  BY <1>17, InsertDisputeType DEF RaiseInsert
<1> QED
  BY <1>1, <1>2, <1>3, <1>4, <1>5, <1>6, <1>7, <1>8, <1>9, <1>10, <1>11, <1>12,
     <1>13, <1>14, <1>15, <1>16, <1>17 DEF Requests

(* So do the event handlers that keep a frame. *)
LEMMA EventsType ==
  ASSUME TypeOK, NEW h \in Handlers, Events(h)
  PROVE  TypeOK'
<1> USE DEF Stage
<1>0. frames[h] \in Frame /\ frames[h].c \in Row /\ circle \in Row
  BY DEF TypeOK, Frame
<1>1. ASSUME NEW total \in 0..MaxEventTotal, OnCircleCompleted(h, total) PROVE TypeOK'
  <2>1. [circle EXCEPT !.status = "completed", !.total_contributions = total] \in Row
    <3>1. total \in Nat
      BY EventTotalAssumption
    <3> QED BY <1>0, <3>1 DEF Row, CircleStatus
  <2> QED BY <1>1, <2>1, ReadsType DEF OnCircleCompleted
<1>2. ASSUME NEW u \in Disputers, OnDisputeRaised(h, u) PROVE TypeOK'
  <2>1. [circle EXCEPT !.status = "disputed"] \in Row
    BY <1>0 DEF Row, CircleStatus
  <2>2. [Idle EXCEPT !.at = "disputeSave", !.user = u,
                     !.c = [circle EXCEPT !.status = "disputed"]] \in Frame
    BY <2>1, IdleType, DisputersAssumption DEF Frame
  <2>3. frames' \in [Handlers -> Frame]
    BY <1>2, <2>2, GotoType DEF OnDisputeRaised
  <2> QED BY <1>2, <2>3 DEF OnDisputeRaised, TablesSame, TypeOK
<1>3. CASE DisputeSave(h)
  <2>1. [frames[h] EXCEPT !.at = "disputeInsert", !.c = Idle.c] \in Frame
    BY <1>0, IdleType DEF Frame
  <2>2. frames' \in [Handlers -> Frame]
    BY <1>3, <2>1, GotoType DEF DisputeSave
  <2> QED BY <1>0, <1>3, <2>2 DEF DisputeSave, RepoUpdate, TypeOK
<1>4. CASE DisputeInsert(h)
  BY <1>4, InsertDisputeType DEF DisputeInsert
<1> QED
  BY <1>1, <1>2, <1>3, <1>4 DEF Events

LEMMA NextType ==
  ASSUME TypeOK, [Next]_vars
  PROVE  TypeOK'
<1>1. ASSUME NEW h \in Handlers, Abort(h) PROVE TypeOK'
  <2>1. frames' \in [Handlers -> Frame]
    BY <1>1, IdleType, GotoType DEF Abort
  <2> QED BY <1>1, <2>1 DEF Abort, TablesSame, TypeOK
<1>2. ASSUME NEW u \in Users, OnMemberJoined(u) PROVE TypeOK'
  BY <1>2, CreateMemberType DEF OnMemberJoined, TypeOK
<1>3. ASSUME NEW u \in Users, OnMemberExited(u) PROVE TypeOK'
  BY <1>3, UpdateMemberStatusType DEF OnMemberExited, TypeOK, MemberStatus
<1>4. ASSUME NEW u \in Users, NEW r \in Rounds, Contribute(u, r) PROVE TypeOK'
  BY <1>4 DEF Contribute, TypeOK
<1>5. ASSUME NEW u \in Users, NEW r \in Rounds, OnContributionReceived(u, r) PROVE TypeOK'
  <2>1. circle' \in Row
    <3>1. PICK n \in Nat : circle' = [circle EXCEPT !.total_contributions = @ + 1,
                                                    !.current_round = n]
      <4>1. circle.current_round \in Nat /\ Greatest(circle.current_round, r + 1) \in Nat
        BY RoundsAssumption DEF TypeOK, Row, Greatest
      <4> QED BY <1>5, <4>1 DEF OnContributionReceived
    <3>2. circle.total_contributions + 1 \in Nat
      BY DEF TypeOK, Row
    <3> QED BY <3>1, <3>2, CountedType DEF TypeOK
  <2>2. contributions' \subseteq Users \X Rounds
    BY <1>5 DEF OnContributionReceived, TypeOK
  <2> QED BY <1>5, <2>1, <2>2 DEF OnContributionReceived, TypeOK
<1>6. ASSUME NEW r \in Rounds, TriggerPayout(r) PROVE TypeOK'
  BY <1>6 DEF TriggerPayout, TypeOK
<1>7. ASSUME NEW r \in Rounds, OnPayoutExecuted(r) PROVE TypeOK'
  <2>1. circle' \in Row
    BY <1>7, RoundsAssumption DEF OnPayoutExecuted, TypeOK, Row, Greatest
  <2> QED BY <1>7, <2>1 DEF OnPayoutExecuted, TypeOK
<1>8. CASE UNCHANGED vars
  BY <1>8 DEF vars, TypeOK
<1> QED
  BY <1>1, <1>2, <1>3, <1>4, <1>5, <1>6, <1>7, <1>8, RequestsType, EventsType DEF Next

LEMMA InitType == Init => TypeOK
<1> SUFFICES ASSUME Init PROVE TypeOK
  OBVIOUS
<1>1. circle \in Row
  BY LimitsAssumption DEF Init, NewRow, Row, CircleStatus
<1>2. frames \in [Handlers -> Frame]
  BY IdleType DEF Init
<1> QED
  BY <1>1, <1>2 DEF Init, TypeOK, MemberStatus

(* The columns of the circle, its members and every value a handler holds  *)
(* keep their types: in particular the positions Join assigns and the      *)
(* statuses every statement writes.                                        *)
THEOREM TypeCorrect == Spec => []TypeOK
BY InitType, NextType, PTL DEF Spec
-----------------------------------------------------------------------------
(* The safety invariants are about the circle's row, and a handler may     *)
(* write back any row it holds, however old.  The inductive invariant      *)
(* therefore says of every row in a frame what it says of the table's.     *)
Coherent(row, recorded, count) ==
  /\ HasRound(row)
  /\ row.current_round <= 1 \/ row.current_round - 1 \in recorded
  /\ row.total_contributions <= count + MaxEventTotal

CircleCoherent == Coherent(circle, RecordedRounds, Cardinality(contributions))
FramesCoherent ==
  \A h \in Handlers : Coherent(frames[h].c, RecordedRounds, Cardinality(contributions))
CoherentInv == TypeOK /\ CircleCoherent /\ FramesCoherent

LEMMA CountType ==
  ASSUME TypeOK
  PROVE  IsFiniteSet(contributions) /\ Cardinality(contributions) \in Nat
<1>1. IsFiniteSet(Users \X Rounds)
  BY UsersAssumption, RoundsAssumption, FS_Product
<1> QED
  BY <1>1, FS_Subset, FS_CardinalityType DEF TypeOK

(* A coherent row stays coherent when rows are added to the tables. *)
LEMMA CoherentGrows ==
  ASSUME NEW row \in Row, NEW S, NEW T, S \subseteq T,
         NEW m \in Nat, NEW n \in Nat, m <= n, Coherent(row, S, m)
  PROVE  Coherent(row, T, n)
BY EventTotalAssumption DEF Coherent, Row

LEMMA TablesGrow ==
  ASSUME TypeOK, TypeOK', contributions \subseteq contributions', payouts \subseteq payouts'
  PROVE  /\ RecordedRounds \subseteq RecordedRounds'
         /\ Cardinality(contributions) <= Cardinality(contributions')
         /\ Cardinality(contributions) \in Nat
         /\ Cardinality(contributions') \in Nat
<1>1. IsFiniteSet(contributions') /\ Cardinality(contributions') \in Nat
  BY CountType, UsersAssumption, RoundsAssumption, FS_Product, FS_Subset,
     FS_CardinalityType DEF TypeOK
<1>2. Cardinality(contributions) <= Cardinality(contributions')
  BY <1>1, FS_Subset
<1> QED
  BY <1>1, <1>2, CountType DEF RecordedRounds

LEMMA IdleCoherent ==
  ASSUME NEW S, NEW n \in Nat, NEW l \in Limits
  PROVE  Coherent(Idle.c, S, n) /\ Coherent([Idle.c EXCEPT !.max_members = l], S, n)
BY EventTotalAssumption DEF Coherent, HasRound, Idle, NewRow

(* Steps that only move a handler on. *)
LEMMA GotoCoherent ==
  ASSUME CoherentInv, NEW h \in Handlers, NEW f, Goto(h, f),
         Coherent(f.c, RecordedRounds, Cardinality(contributions)),
         UNCHANGED <<contributions, payouts>>
  PROVE  FramesCoherent'
BY Zenon DEF CoherentInv, TypeOK, FramesCoherent, Goto, RecordedRounds

LEMMA TablesSameCoherent ==
  ASSUME CoherentInv, NEW h \in Handlers, NEW f, Goto(h, f), TablesSame,
         Coherent(f.c, RecordedRounds, Cardinality(contributions))
  PROVE  CircleCoherent' /\ FramesCoherent'
<1>1. FramesCoherent'
  BY GotoCoherent DEF TablesSame
<1> QED
  BY <1>1 DEF TablesSame, CoherentInv, CircleCoherent, RecordedRounds

LEMMA ReadsCoherent ==
  ASSUME CoherentInv, NEW h \in Handlers, NEW s, NEW row, Reads(h, s, row), TablesSame,
         Coherent(row, RecordedRounds, Cardinality(contributions))
  PROVE  CircleCoherent' /\ FramesCoherent'
<1>1. [Idle EXCEPT !.at = s, !.c = row].c = row
  BY DEF Idle
<1> QED
  BY <1>1, TablesSameCoherent DEF Reads

LEMMA StepsCoherent ==
  ASSUME CoherentInv, NEW h \in Handlers, NEW s, NEW u, Steps(h, s, u), TablesSame
  PROVE  CircleCoherent' /\ FramesCoherent'
<1>1. [Idle EXCEPT !.at = s, !.user = u, !.c.max_members = circle.max_members].c
        = [Idle.c EXCEPT !.max_members = circle.max_members]
  BY DEF Idle
<1>2. circle.max_members \in Limits
  BY DEF CoherentInv, TypeOK, Row
<1> DEFINE f == [Idle EXCEPT !.at = s, !.user = u, !.c.max_members = circle.max_members]
<1>3. Coherent(f.c, RecordedRounds, Cardinality(contributions))
  BY <1>1, <1>2, IdleCoherent, CountType DEF CoherentInv
<1>4. Goto(h, f)
  BY DEF Steps
<1> HIDE DEF f
<1> QED
  BY <1>3, <1>4, TablesSameCoherent

(* repo.Update writes a row some frame holds. *)
LEMMA RepoUpdateCoherent ==
  ASSUME CoherentInv, NEW h \in Handlers, NEW f, RepoUpdate(h), Goto(h, f),
         Coherent(f.c, RecordedRounds, Cardinality(contributions))
  PROVE  CircleCoherent' /\ FramesCoherent'
<1>1. FramesCoherent'
  BY GotoCoherent DEF RepoUpdate
<1> QED
  BY <1>1 DEF RepoUpdate, CoherentInv, CircleCoherent, FramesCoherent, RecordedRounds

(* Statements on other tables, whether or not they move a handler on. *)
LEMMA OthersCoherent ==
  ASSUME CoherentInv, NEW h \in Handlers, Goto(h, Idle),
         UNCHANGED <<circle, contributions, payouts>>
  PROVE  CircleCoherent' /\ FramesCoherent'
<1>1. Coherent(Idle.c, RecordedRounds, Cardinality(contributions))
  BY IdleCoherent, CountType, LimitsAssumption DEF CoherentInv
<1>2. FramesCoherent'
  BY <1>1, GotoCoherent
<1> QED
  BY <1>2 DEF CoherentInv, CircleCoherent, RecordedRounds

LEMMA RequestsCoherent ==
  ASSUME CoherentInv, NEW h \in Handlers, Requests(h)
  PROVE  CircleCoherent' /\ FramesCoherent'
<1> DEFINE OK(row) == Coherent(row, RecordedRounds, Cardinality(contributions))
<1>0. circle \in Row /\ frames[h] \in Frame /\ frames[h].c \in Row /\ OK(circle) /\ OK(frames[h].c)
  BY DEF CoherentInv, TypeOK, Frame, CircleCoherent, FramesCoherent
<1>00. OK(Idle.c)
  BY IdleCoherent, CountType, LimitsAssumption DEF CoherentInv
<1>1. ASSUME NEW limit \in Limits, Update(h, limit) PROVE CircleCoherent' /\ FramesCoherent'
  <2>1. OK([circle EXCEPT !.max_members = limit])
    BY <1>0 DEF Coherent, HasRound, Row
  <2> QED BY <1>1, <2>1, ReadsCoherent DEF Update
<1>2. CASE Cancel(h)
  <2>1. OK([circle EXCEPT !.status = "cancelled"])
    BY <1>0 DEF Coherent, HasRound, Row
  <2> QED BY <1>2, <2>1, ReadsCoherent DEF Cancel
<1>3. CASE Close(h)
  <2>1. OK([circle EXCEPT !.status = "completed"])
    BY <1>0 DEF Coherent, HasRound, Row
  <2> QED BY <1>3, <2>1, ReadsCoherent DEF Close
<1>4. CASE Save(h)
  BY <1>00, <1>4, RepoUpdateCoherent DEF Save
<1>5. CASE Start(h)
  BY <1>0, <1>5, ReadsCoherent DEF Start
<1>6. CASE StartCount(h)
  <2> DEFINE f == [frames[h] EXCEPT !.at = "startSave", !.c.status = "active",
                                    !.c.current_round = 1]
  <2>1. f.c = [frames[h].c EXCEPT !.status = "active", !.current_round = 1]
    BY <1>0 DEF Frame, Row
  <2>2. /\ f.c.status = "active" /\ f.c.current_round = 1
        /\ f.c.total_contributions = frames[h].c.total_contributions
    BY <1>0, <2>1 DEF Row
  <2>3. OK(f.c)
    BY <1>0, <2>2 DEF Coherent, HasRound
  <2> QED BY <1>00, <1>6, <2>3, TablesSameCoherent DEF StartCount
<1>7. CASE StartSave(h)
  <2>1. OK([frames[h] EXCEPT !.at = "startSnapshot"].c)
    BY <1>0 DEF Frame
  <2> QED BY <1>7, <2>1, RepoUpdateCoherent DEF StartSave
<1>8. CASE StartSnapshot(h)
  BY <1>8, OthersCoherent DEF StartSnapshot
<1>9. ASSUME NEW u \in Users, Join(h, u) PROVE CircleCoherent' /\ FramesCoherent'
  BY <1>9, StepsCoherent DEF Join
<1>10. ASSUME NEW u \in Users, Exit(h, u) \/ RemoveMember(h, u)
       PROVE CircleCoherent' /\ FramesCoherent'
  <2>1. \A s : [Idle EXCEPT !.at = "setStatus", !.user = u, !.to = s].c = Idle.c
    BY DEF Idle
  <2>2. CASE Exit(h, u)
    BY <1>00, <2>1, <2>2, TablesSameCoherent DEF Exit
  <2>3. CASE RemoveMember(h, u)
    BY <1>00, <2>1, <2>3, TablesSameCoherent DEF RemoveMember
  <2> QED BY <1>10, <2>2, <2>3
<1>11. ASSUME NEW u \in Disputers, RaiseDispute(h, u) PROVE CircleCoherent' /\ FramesCoherent'
  BY <1>11, StepsCoherent DEF RaiseDispute
<1>12. CASE JoinCount(h)
  <2>1. OK([frames[h] EXCEPT !.at = "joinInsert", !.n = MemberCount].c)
    BY <1>0 DEF Frame
  <2> QED BY <1>00, <1>12, <2>1, TablesSameCoherent DEF JoinCount
<1>13. CASE JoinInsert(h)
  BY <1>13, OthersCoherent DEF JoinInsert
<1>14. CASE SetStatus(h)
  BY <1>14, OthersCoherent DEF SetStatus
<1>15. CASE RaiseMember(h)
  <2>1. OK([frames[h] EXCEPT !.at = "raiseInsert"].c)
    BY <1>0 DEF Frame
  <2> QED BY <1>00, <1>15, <2>1, TablesSameCoherent DEF RaiseMember
<1>16. CASE RaiseInsert(h)
  BY <1>16, OthersCoherent DEF RaiseInsert, InsertDispute
<1> QED
  BY <1>1, <1>2, <1>3, <1>4, <1>5, <1>6, <1>7, <1>8, <1>9, <1>10, <1>11, <1>12,
     <1>13, <1>14, <1>15, <1>16 DEF Requests

LEMMA EventsCoherent ==
  ASSUME CoherentInv, NEW h \in Handlers, Events(h)
  PROVE  CircleCoherent' /\ FramesCoherent'
<1> DEFINE OK(row) == Coherent(row, RecordedRounds, Cardinality(contributions))
<1>0. circle \in Row /\ frames[h] \in Frame /\ frames[h].c \in Row /\ OK(circle) /\ OK(frames[h].c)
  BY DEF CoherentInv, TypeOK, Frame, CircleCoherent, FramesCoherent
<1>00. OK(Idle.c) /\ Cardinality(contributions) \in Nat
  BY IdleCoherent, CountType, LimitsAssumption DEF CoherentInv
<1>1. ASSUME NEW total \in 0..MaxEventTotal, OnCircleCompleted(h, total)
      PROVE CircleCoherent' /\ FramesCoherent'
  <2> DEFINE row == [circle EXCEPT !.status = "completed", !.total_contributions = total]
  <2>1. /\ row.status = "completed" /\ row.current_round = circle.current_round
        /\ row.total_contributions = total
    BY <1>0 DEF Row
  <2>2. OK(row)
    BY <1>0, <1>00, <2>1, EventTotalAssumption DEF Coherent, HasRound
  <2> QED BY <1>1, <2>2, ReadsCoherent DEF OnCircleCompleted
<1>2. ASSUME NEW u \in Disputers, OnDisputeRaised(h, u)
      PROVE CircleCoherent' /\ FramesCoherent'
  <2> DEFINE row == [circle EXCEPT !.status = "disputed"]
             f == [Idle EXCEPT !.at = "disputeSave", !.user = u, !.c = row]
  <2>1. f.c = row
    BY DEF Idle
  <2>2. OK(row)
    BY <1>0 DEF Coherent, HasRound, Row
  <2>3. Goto(h, f) /\ TablesSame
    BY <1>2 DEF OnDisputeRaised
  <2> HIDE DEF f
  <2> QED BY <2>1, <2>2, <2>3, TablesSameCoherent
<1>3. CASE DisputeSave(h)
  <2> DEFINE f == [frames[h] EXCEPT !.at = "disputeInsert", !.c = Idle.c]
  <2>1. f.c = Idle.c
    BY <1>0 DEF Frame
  <2>2. Goto(h, f) /\ RepoUpdate(h)
    BY <1>3 DEF DisputeSave
  <2> HIDE DEF f
  <2> QED BY <1>00, <2>1, <2>2, RepoUpdateCoherent
<1>4. CASE DisputeInsert(h)
  BY <1>4, OthersCoherent DEF DisputeInsert, InsertDispute
<1> QED
  BY <1>1, <1>2, <1>3, <1>4 DEF Events

(* A step that adds rows and leaves every frame alone. *)
LEMMA FramesGrow ==
  ASSUME CoherentInv, TypeOK', UNCHANGED frames,
         contributions \subseteq contributions', payouts \subseteq payouts'
  PROVE  FramesCoherent'
<1>1. SUFFICES ASSUME NEW h \in Handlers
               PROVE  Coherent(frames[h].c, RecordedRounds', Cardinality(contributions'))
  BY DEF FramesCoherent
<1>2. frames[h].c \in Row /\ Coherent(frames[h].c, RecordedRounds, Cardinality(contributions))
  BY DEF CoherentInv, TypeOK, Frame, FramesCoherent
<1> QED
  BY <1>2, TablesGrow, CoherentGrows DEF CoherentInv

LEMMA CircleGrows ==
  ASSUME CoherentInv, TypeOK', UNCHANGED circle,
         contributions \subseteq contributions', payouts \subseteq payouts'
  PROVE  CircleCoherent'
BY TablesGrow, CoherentGrows DEF CoherentInv, CircleCoherent, TypeOK

(* applyContribution counts exactly the row it inserts, and a round it     *)
(* moves to is one past that row's round.                                  *)
LEMMA ContributionCoherent ==
  ASSUME CoherentInv, TypeOK', NEW u \in Users, NEW r \in Rounds, OnContributionReceived(u, r)
  PROVE  CircleCoherent' /\ FramesCoherent'
<1>1. contributions \subseteq contributions' /\ UNCHANGED <<payouts, frames>>
  BY DEF OnContributionReceived
<1>2. FramesCoherent'
  BY <1>1, FramesGrow
<1>3. r \in RecordedRounds' /\ RecordedRounds \subseteq RecordedRounds'
  BY <1>1, TablesGrow DEF OnContributionReceived, RecordedRounds, CoherentInv
<1>4. Cardinality(contributions') = Cardinality(contributions) + 1
  BY CountType, FS_AddElement, Zenon DEF OnContributionReceived, CoherentInv
<1>5. PICK n \in {circle.current_round, Greatest(circle.current_round, r + 1)} :
        circle' = [circle EXCEPT !.total_contributions = @ + 1, !.current_round = n]
  BY DEF OnContributionReceived
<1>6. /\ circle'.status = circle.status /\ circle'.current_round = n
      /\ circle'.total_contributions = circle.total_contributions + 1
  BY <1>5 DEF CoherentInv, TypeOK, Row
<1>7. /\ circle.current_round \in Nat /\ circle.total_contributions \in Nat /\ r \in Nat
      /\ Cardinality(contributions) \in Nat
  BY CountType, RoundsAssumption DEF CoherentInv, TypeOK, Row
<1>8. Coherent(circle, RecordedRounds, Cardinality(contributions))
  BY DEF CoherentInv, CircleCoherent
<1>9. HasRound(circle')
  BY <1>5, <1>6, <1>7, <1>8 DEF Coherent, HasRound, Greatest
<1>10. n <= 1 \/ n - 1 \in RecordedRounds'
  BY <1>3, <1>5, <1>7, <1>8 DEF Coherent, Greatest
<1>11. circle'.total_contributions <= Cardinality(contributions') + MaxEventTotal
  BY <1>4, <1>6, <1>7, <1>8, EventTotalAssumption DEF Coherent
<1> QED
  BY <1>2, <1>6, <1>9, <1>10, <1>11 DEF CircleCoherent, Coherent

LEMMA PayoutCoherent ==
  ASSUME CoherentInv, TypeOK', NEW r \in Rounds, OnPayoutExecuted(r)
  PROVE  CircleCoherent' /\ FramesCoherent'
<1>1. contributions' = contributions /\ payouts \subseteq payouts' /\ UNCHANGED frames
  BY DEF OnPayoutExecuted
<1>2. FramesCoherent'
  BY <1>1, FramesGrow
<1>3. r \in RecordedRounds' /\ RecordedRounds \subseteq RecordedRounds'
  BY <1>1, TablesGrow DEF OnPayoutExecuted, RecordedRounds, CoherentInv
<1>4. /\ circle'.status = circle.status
      /\ circle'.current_round = Greatest(circle.current_round, r + 1)
      /\ circle'.total_contributions = circle.total_contributions
  BY DEF OnPayoutExecuted, CoherentInv, TypeOK, Row
<1>5. circle.current_round \in Nat /\ r \in Nat
  BY RoundsAssumption DEF CoherentInv, TypeOK, Row
<1>6. Coherent(circle, RecordedRounds, Cardinality(contributions))
  BY DEF CoherentInv, CircleCoherent
<1>7. HasRound(circle')
  BY <1>4, <1>5, <1>6 DEF Coherent, HasRound, Greatest
<1>8. circle'.current_round <= 1 \/ circle'.current_round - 1 \in RecordedRounds'
  BY <1>3, <1>4, <1>5, <1>6 DEF Coherent, Greatest
<1> QED
  BY <1>1, <1>2, <1>4, <1>6, <1>7, <1>8 DEF CircleCoherent, Coherent

LEMMA NextCoherent ==
  ASSUME CoherentInv, [Next]_vars
  PROVE  CoherentInv'
<1>0. TypeOK /\ TypeOK'
  BY NextType DEF CoherentInv
<1> SUFFICES CircleCoherent' /\ FramesCoherent'
  BY <1>0 DEF CoherentInv
<1>1. ASSUME NEW h \in Handlers, Abort(h) PROVE CircleCoherent' /\ FramesCoherent'
  BY <1>1, OthersCoherent DEF Abort, TablesSame
<1>2. CASE UNCHANGED <<circle, contributions, payouts, frames>>
  BY <1>0, <1>2, FramesGrow, CircleGrows
<1>3. ASSUME NEW u \in Users, OnMemberJoined(u) \/ OnMemberExited(u)
      PROVE CircleCoherent' /\ FramesCoherent'
  BY <1>2, <1>3 DEF OnMemberJoined, OnMemberExited
<1>4. ASSUME NEW u \in Users, NEW r \in Rounds, Contribute(u, r)
      PROVE CircleCoherent' /\ FramesCoherent'
  BY <1>0, <1>4, FramesGrow, CircleGrows DEF Contribute
<1>5. ASSUME NEW r \in Rounds, TriggerPayout(r)
      PROVE CircleCoherent' /\ FramesCoherent'
  BY <1>0, <1>5, FramesGrow, CircleGrows DEF TriggerPayout
<1>6. CASE UNCHANGED vars
  BY <1>2, <1>6 DEF vars
<1> QED
  BY <1>0, <1>1, <1>3, <1>4, <1>5, <1>6, RequestsCoherent, EventsCoherent,
     ContributionCoherent, PayoutCoherent DEF Next

LEMMA InitCoherent == Init => CoherentInv
<1> SUFFICES ASSUME Init PROVE CoherentInv
  OBVIOUS
<1>1. TypeOK /\ Cardinality(contributions) \in Nat
  BY InitType, CountType
<1>2. CircleCoherent
  BY <1>1, EventTotalAssumption DEF Init, NewRow, CircleCoherent, Coherent, HasRound
<1>3. FramesCoherent
  BY <1>1, IdleCoherent, LimitsAssumption DEF Init, FramesCoherent
<1> QED
  BY <1>1, <1>2, <1>3 DEF CoherentInv

LEMMA CoherentAlways == Spec => []CoherentInv
BY InitCoherent, NextCoherent, PTL DEF Spec

(* However many handlers hold stale copies of the row, whoever reads an    *)
(* active circle finds a round: Start sets both in one statement and no    *)
(* full-row write separates them.                                          *)
THEOREM ActiveCircleHasRound == Spec => []ActiveHasRound
<1>1. CoherentInv => ActiveHasRound
  BY DEF CoherentInv, CircleCoherent, Coherent, ActiveHasRound
<1> QED
  BY <1>1, CoherentAlways, PTL

(* The round never runs ahead of the recorded contributions and payouts.   *)
THEOREM RoundIsJustified == Spec => []RoundJustified
<1>1. CoherentInv => RoundJustified
  BY DEF CoherentInv, CircleCoherent, Coherent, RoundJustified, Justified
<1> QED
  BY <1>1, CoherentAlways, PTL

(* Whatever is replayed, no contribution row is counted twice.             *)
THEOREM ReplaysCountOnce == Spec => []ReplayCountedOnce
<1>1. CoherentInv => ReplayCountedOnce
  BY DEF CoherentInv, CircleCoherent, Coherent, ReplayCountedOnce
<1> QED
  BY <1>1, CoherentAlways, PTL
-----------------------------------------------------------------------------
OneWay(u) ==
  members[u].status # "none" =>
    /\ members'[u].status # "none"
    /\ members'[u].position = members[u].position
    /\ members[u].status # "active" => members'[u].status # "active"

LEMMA CreateMemberOneWay ==
  ASSUME TypeOK, NEW v \in Users, NEW p, CreateMember(v, p), NEW u \in Users
  PROVE  OneWay(u)
BY DEF TypeOK, CreateMember, OneWay

LEMMA UpdateMemberStatusOneWay ==
  ASSUME TypeOK, NEW v \in Users, NEW s \in {"exited", "removed"},
         UpdateMemberStatus(v, s), NEW u \in Users
  PROVE  OneWay(u)
BY DEF TypeOK, UpdateMemberStatus, OneWay, MemberStatus

(* Exit and RemoveMember are the only writers of a member's status, and    *)
(* neither writes "active".                                                *)
Targets ==
  \A h \in Handlers : frames[h].at = "setStatus" => frames[h].to \in {"exited", "removed"}

LEMMA GotoTargets ==
  ASSUME TypeOK, Targets, NEW h \in Handlers, NEW f, Goto(h, f),
         f.at = "setStatus" => f.to \in {"exited", "removed"}
  PROVE  Targets'
BY DEF TypeOK, Targets, Goto

LEMMA NextTargets ==
  ASSUME TypeOK, Targets, [Next]_vars
  PROVE  Targets'
<1>0. Idle.at = "idle" /\ Idle \in Frame /\ \A h \in Handlers : frames[h] \in Frame
  BY IdleType DEF Idle, TypeOK
<1>1. ASSUME NEW h \in Handlers, NEW s \in Stage, s # "setStatus", NEW row, Reads(h, s, row)
      PROVE Targets'
  <2>1. [Idle EXCEPT !.at = s, !.c = row].at = s
    BY DEF Idle
  <2> QED BY <1>1, <2>1, GotoTargets DEF Reads
<1>2. ASSUME NEW h \in Handlers, NEW s \in Stage, s # "setStatus", NEW u, Steps(h, s, u)
      PROVE Targets'
  <2> DEFINE f == [Idle EXCEPT !.at = s, !.user = u, !.c.max_members = circle.max_members]
  <2>1. f.at = s
    BY DEF Idle
  <2>2. Goto(h, f)
    BY <1>2 DEF Steps
  <2> HIDE DEF f
  <2> QED BY <1>2, <2>1, <2>2, GotoTargets
<1>3. ASSUME NEW h \in Handlers, Goto(h, Idle) PROVE Targets'
  BY <1>0, <1>3, GotoTargets
<1>4. ASSUME NEW h \in Handlers, NEW u, Exit(h, u) \/ RemoveMember(h, u) PROVE Targets'
  <2>1. \A s : [Idle EXCEPT !.at = "setStatus", !.user = u, !.to = s].to = s
    BY DEF Idle
  <2> QED BY <1>4, <2>1, GotoTargets DEF Exit, RemoveMember
<1>5. ASSUME NEW h \in Handlers,
             (\E l : Update(h, l)) \/ Cancel(h) \/ Close(h) \/ Start(h)
               \/ \E n : OnCircleCompleted(h, n)
      PROVE Targets'
  BY <1>1, <1>5 DEF Update, Cancel, Close, Start, OnCircleCompleted, Stage
<1>6. ASSUME NEW h \in Handlers, NEW u, Join(h, u) \/ RaiseDispute(h, u) PROVE Targets'
  BY <1>2, <1>6 DEF Join, RaiseDispute, Stage
<1>7. ASSUME NEW h \in Handlers,
             Save(h) \/ StartSnapshot(h) \/ JoinInsert(h) \/ SetStatus(h) \/ RaiseInsert(h)
               \/ DisputeInsert(h) \/ Abort(h)
      PROVE Targets'
  BY <1>3, <1>7 DEF Save, StartSnapshot, JoinInsert, SetStatus, RaiseInsert, DisputeInsert,
                    InsertDispute, Abort
<1>8. ASSUME NEW h \in Handlers, StartCount(h) PROVE Targets'
  <2> DEFINE f == [frames[h] EXCEPT !.at = "startSave", !.c.status = "active",
                                    !.c.current_round = 1]
  <2>1. f.at = "startSave"
    BY <1>0 DEF Frame
  <2>2. Goto(h, Idle) \/ Goto(h, f)
    BY <1>8 DEF StartCount
  <2> HIDE DEF f
  <2> QED BY <1>3, <2>1, <2>2, GotoTargets
<1>9. ASSUME NEW h \in Handlers, StartSave(h) \/ JoinCount(h) \/ RaiseMember(h) PROVE Targets'
  <2>1. /\ [frames[h] EXCEPT !.at = "startSnapshot"].at = "startSnapshot"
        /\ [frames[h] EXCEPT !.at = "joinInsert", !.n = MemberCount].at = "joinInsert"
        /\ [frames[h] EXCEPT !.at = "raiseInsert"].at = "raiseInsert"
    BY <1>0 DEF Frame
  <2>2. CASE StartSave(h)
    BY <2>1, <2>2, GotoTargets DEF StartSave
  <2>3. CASE JoinCount(h)
    BY <1>3, <2>1, <2>3, GotoTargets DEF JoinCount
  <2>4. CASE RaiseMember(h)
    BY <1>3, <2>1, <2>4, GotoTargets DEF RaiseMember
  <2> QED BY <1>9, <2>2, <2>3, <2>4
<1>10. ASSUME NEW h \in Handlers, NEW u, OnDisputeRaised(h, u) PROVE Targets'
  <2> DEFINE f == [Idle EXCEPT !.at = "disputeSave", !.user = u,
                               !.c = [circle EXCEPT !.status = "disputed"]]
  <2>1. f.at = "disputeSave"
    BY DEF Idle
  <2>2. Goto(h, f)
    BY <1>10 DEF OnDisputeRaised
  <2> HIDE DEF f
  <2> QED BY <2>1, <2>2, GotoTargets
<1>11. ASSUME NEW h \in Handlers, DisputeSave(h) PROVE Targets'
  <2>1. [frames[h] EXCEPT !.at = "disputeInsert", !.c = Idle.c].at = "disputeInsert"
    BY <1>0 DEF Frame
  <2> QED BY <1>11, <2>1, GotoTargets DEF DisputeSave
<1>12. CASE UNCHANGED frames
  BY <1>12 DEF Targets
<1>13. ASSUME NEW h \in Handlers, Requests(h) \/ Events(h) \/ Abort(h) PROVE Targets'
  BY <1>4, <1>5, <1>6, <1>7, <1>8, <1>9, <1>10, <1>11, <1>13 DEF Requests, Events
<1> QED
  BY <1>12, <1>13 DEF Next, vars, OnMemberJoined, OnMemberExited, Contribute,
     OnContributionReceived, TriggerPayout, OnPayoutExecuted

LEMMA InitTargets == Init => Targets
BY SMTT(30) DEF Init, Targets, Idle

LEMMA StepOneWay ==
  ASSUME TypeOK, Targets, Next, NEW u \in Users
  PROVE  OneWay(u)
<1>1. CASE UNCHANGED members
  BY <1>1 DEF OneWay
<1>2. ASSUME NEW h \in Handlers, JoinInsert(h) PROVE OneWay(u)
  <2>1. frames[h].user \in Users
    BY DEF TypeOK, Frame
  <2> QED BY <1>2, <2>1, CreateMemberOneWay DEF JoinInsert
<1>3. ASSUME NEW h \in Handlers, SetStatus(h) PROVE OneWay(u)
  <2>1. frames[h].user \in Users /\ frames[h].to \in {"exited", "removed"}
    BY <1>3 DEF TypeOK, Frame, Targets, SetStatus
  <2> QED BY <1>3, <2>1, UpdateMemberStatusOneWay DEF SetStatus
<1>4. ASSUME NEW v \in Users, OnMemberJoined(v) PROVE OneWay(u)
  BY <1>4, CreateMemberOneWay DEF OnMemberJoined
<1>5. ASSUME NEW v \in Users, OnMemberExited(v) PROVE OneWay(u)
  BY <1>5, UpdateMemberStatusOneWay, Zenon DEF OnMemberExited
<1>6. ASSUME NEW h \in Handlers, Requests(h) PROVE OneWay(u)
  BY <1>1, <1>2, <1>3, <1>6, Zenon DEF Requests, Update, Cancel, Close, Save, Start, StartCount,
     StartSave, StartSnapshot, Join, Exit, RemoveMember, RaiseDispute, JoinCount, RaiseMember,
     RaiseInsert, InsertDispute, RepoUpdate, TablesSame
<1>7. ASSUME NEW h \in Handlers, Events(h) \/ Abort(h) PROVE OneWay(u)
  BY <1>1, <1>7 DEF Events, OnCircleCompleted, OnDisputeRaised, DisputeSave, DisputeInsert,
     InsertDispute, Abort, RepoUpdate, TablesSame
<1> QED
  BY <1>1, <1>4, <1>5, <1>6, <1>7 DEF Next, Contribute, OnContributionReceived,
     TriggerPayout, OnPayoutExecuted

(* Membership only moves one way: no interleaving of Join, Exit,           *)
(* RemoveMember and replayed events deletes a member row, moves it to      *)
(* another position or makes a departed user active again.                 *)
THEOREM MembershipMovesOneWay == Spec => MembershipOneWay
<1>1. TypeOK /\ Targets /\ [Next]_vars => Targets'
  BY NextTargets
<1>2. TypeOK /\ Targets /\ [Next]_vars
        => [\A u \in Users : members[u].status # "none" =>
              /\ members'[u].status # "none"
              /\ members'[u].position = members[u].position
              /\ members[u].status # "active" => members'[u].status # "active"]_vars
  BY StepOneWay DEF OneWay
<1> QED
  BY <1>1, <1>2, InitTargets, InitType, NextType, PTL DEF Spec, MembershipOneWay
=============================================================================
