---------------------- MODULE ContributionLedgerProofs ----------------------
(***************************************************************************)
(* Safety of ContributionLedger for any users, workers, requests, editors, *)
(* events and faults, and the proof that it implements CircleCounters.     *)
(* The inductive invariant has three parts.  A worker in a transaction     *)
(* holds the advisory lock, so there is one, and the row it is about to    *)
(* commit is of a known event no committed row of the indexer stands for,  *)
(* although the test for that was made some steps ago.  The counters of    *)
(* the circles row, and of every copy that may yet overwrite it, are ones  *)
(* that recorded rows account for: records are only ever added, so a copy  *)
(* stays accounted for however old it gets.  For the same reason the round *)
(* a request was judged by stays one that records opened.                  *)
(***************************************************************************)
EXTENDS ContributionLedger, FiniteSetTheorems, TLAPS

Contributing == {"contributors", "members", "commit"}
Credited == Applied(contributions)
Paid == Applied(payouts)

Locked == \A w \in Workers : worker[w].at # "idle" => lock = w

(* What a worker holds: nothing, or a row the indexer has yet to insert.   *)
Fresh(f, credited, paid) ==
  /\ f.at # "idle" => f.row.by = "indexer"
  /\ f.at \in Contributing => AsEvent(f.row) \in Contributions \ credited
  /\ f.at = "payout" => AsEvent(f.row) \in Payouts \ paid
Pending == \A w \in Workers : Fresh(worker[w], Credited, Paid)

(* Requests hold rows that will be the API's, judged by a round reached.   *)
Timely(row, rounds) == row.on_time => \E k \in rounds : row.round \in 1..k
Asked(f, rounds) == f.at # "idle" => f.row.by = "api" /\ Timely(f.row, rounds)
Judged ==
  /\ \A c \in Clients : Asked(client[c], Reached)
  /\ OnTimeWithinReached

(* A circles row, or a copy of it, that recorded rows account for.         *)
Sound(row, rounds, n) ==
  row.current_round \in rounds /\ row.total_contributions <= row.reported + n
Copies ==
  /\ IsFiniteSet(Credited)
  /\ Sound(circle, Reached, Cardinality(Credited))
  /\ \A x \in Editors : Sound(editor[x].row, Reached, Cardinality(Credited))

IInv == TypeOK /\ Locked /\ Pending /\ Judged /\ Copies
-----------------------------------------------------------------------------
Known(e) == e \in [user: Users, round: Nat, hash: STRING]
WorkerRec == [at: WorkerStage, row: TableRow, contributed: Nat, members: Nat]
ClientRec == [at: ClientStage, row: TableRow]
EditorRec == [at: {"idle", "save"}, row: Counters]

LEMMA ReportTypes == NoReport \in Report /\ \A e \in Report : Known(e)
BY ReportAssumption, EventsAssumption, Zenon DEF NoReport, Report, Known

LEMMA RowTypes ==
  ASSUME NEW e, Known(e), NEW by \in {"none", "api", "indexer"}, NEW b \in BOOLEAN
  PROVE  /\ MakeRow(e, by, b) \in TableRow
         /\ MakeRow(e, by, b).by = by
         /\ MakeRow(e, by, b).on_time = b
         /\ MakeRow(e, by, b).hash = e.hash
         /\ AsEvent(MakeRow(e, by, b)) = e
BY Zenon DEF MakeRow, TableRow, AsEvent, Known

LEMMA Resets ==
  /\ NoRow \in TableRow
  /\ ResetWorker \in WorkerRec /\ ResetWorker.at = "idle"
  /\ ResetClient \in ClientRec /\ ResetClient.at = "idle"
  /\ Started \in Counters
  /\ ResetEditor \in EditorRec /\ ResetEditor.row = Started
<1>1. NoRow \in TableRow
  BY ReportTypes, Zenon DEF NoRow, TableRow, Known
<1>2. Started \in Counters
  BY Zenon DEF Started, Counters
<1> QED
  BY <1>1, <1>2, Zenon DEF ResetWorker, ResetClient, ResetEditor, WorkerRec, ClientRec, EditorRec,
                    WorkerStage, ClientStage

LEMMA AppliedAdd ==
  ASSUME NEW S, NEW r
  PROVE  /\ r.by = "indexer" => Applied(S \cup {r}) = Applied(S) \cup {AsEvent(r)}
         /\ r.by # "indexer" => Applied(S \cup {r}) = Applied(S)
BY Zenon DEF Applied

LEMMA LatestType ==
  ASSUME NEW a \in Nat, NEW b \in Nat
  PROVE  Latest(a, b) \in {a, b} /\ Latest(a, b) \in Nat /\ Latest(a, b) >= a
BY DEF Latest

(* A row stays accounted for, and a judgement right, when records are      *)
(* added.                                                                  *)
LEMMA SoundGrows ==
  ASSUME NEW row \in Counters, NEW R, NEW Q, R \subseteq Q,
         NEW m \in Nat, NEW n \in Nat, m <= n, Sound(row, R, m)
  PROVE  Sound(row, Q, n)
<1>1. row.total_contributions \in Nat /\ row.reported \in EventTotals \cup {0}
  BY Zenon DEF Counters
<1>2. \A t \in EventTotals \cup {0} : t \in Nat
  BY BoundsAssumption
<1>3. row.reported \in Nat
  BY <1>1, <1>2, Zenon
<1> QED
  BY <1>1, <1>3 DEF Sound

LEMMA RecordsGrow ==
  ASSUME Credited \subseteq Credited', Paid \subseteq Paid', IsFiniteSet(Credited')
  PROVE  /\ Reached \subseteq Reached'
         /\ Cardinality(Credited) \in Nat /\ Cardinality(Credited') \in Nat
         /\ Cardinality(Credited) <= Cardinality(Credited')
<1>1. Reached \subseteq Reached'
  BY Zenon DEF Reached, Credited, Paid
<1> QED
  BY <1>1, FS_Subset, FS_CardinalityType, Zenon

LEMMA InitIInv == Init => IInv
<1> SUFFICES ASSUME Init PROVE IInv
  BY Zenon
<1>1. /\ \A w \in Workers : worker[w] = ResetWorker
      /\ \A c \in Clients : client[c] = ResetClient
      /\ \A x \in Editors : editor[x] = ResetEditor
  BY Zenon DEF Init
<1>2. TypeOK
  BY Resets, UsersAssumption, BoundsAssumption DEF Init, TypeOK, WorkerRec, ClientRec, EditorRec
<1>3. Locked /\ Pending
  BY <1>1, Resets, Zenon DEF Locked, Pending, Fresh, Contributing
<1>4. Judged
  BY <1>1, Resets, Zenon DEF Init, Judged, Asked, OnTimeWithinReached
<1>5. Credited = {} /\ Cardinality(Credited) = 0 /\ IsFiniteSet(Credited)
  BY FS_EmptySet, Zenon DEF Init, Credited, Applied
<1>6. Sound(Started, Reached, 0)
  BY DEF Sound, Started, Reached
<1> QED
  BY <1>1, <1>2, <1>3, <1>4, <1>5, <1>6, Resets, Zenon DEF Init, IInv, Copies
-----------------------------------------------------------------------------
(* The requests.  While they read, the tables stay as they are. *)
LEMMA ClientMoves ==
  ASSUME IInv, NEW c \in Clients, NEW f \in ClientRec, SetClient(c, f), Asked(f, Reached)
  PROVE  /\ client' \in [Clients -> ClientRec]
         /\ \A d \in Clients : Asked(client'[d], Reached)
<1>1. client \in [Clients -> ClientRec] /\ \A d \in Clients : Asked(client[d], Reached)
  BY Zenon DEF IInv, TypeOK, ClientRec, Judged
<1>2. client' = [client EXCEPT ![c] = f]
  BY Zenon DEF SetClient
<1> QED
  BY <1>1, <1>2, Zenon

LEMMA ClientReads ==
  ASSUME IInv, NEW c \in Clients, NEW f \in ClientRec, SetClient(c, f), Asked(f, Reached),
         UNCHANGED <<tables, lock, worker, editor, dispatch, faults>>
  PROVE  IInv'
<1>1. /\ client' \in [Clients -> ClientRec]
      /\ \A d \in Clients : Asked(client'[d], Reached)
  BY ClientMoves, Zenon
<1>2. UNCHANGED <<circle, member, contributions, payouts, lock, worker, editor,
                  seen, handled, failed, faults>>
  BY Zenon DEF tables, dispatch
<1>3. UNCHANGED <<Credited, Paid, Reached>>
  BY <1>2, Zenon DEF Credited, Paid, Reached
<1>4. TypeOK'
  BY <1>1, <1>2, Zenon DEF IInv, TypeOK, ClientRec
<1>5. Judged'
  BY <1>1, <1>2, <1>3, Zenon DEF IInv, Judged, OnTimeWithinReached
<1> QED
  BY <1>2, <1>3, <1>4, <1>5, Zenon DEF IInv, Locked, Pending, Copies

LEMMA ClientHolds ==
  ASSUME IInv, NEW c \in Clients, client[c].at # "idle"
  PROVE  /\ client[c] \in ClientRec /\ client[c].row \in TableRow
         /\ client[c].row.by = "api" /\ Timely(client[c].row, Reached)
BY Zenon DEF IInv, TypeOK, ClientRec, Judged, Asked

(* A request begins with a row that is not on time, and moves on with the  *)
(* row it has or ends.                                                     *)
LEMMA RequestBegins ==
  ASSUME IInv, NEW c \in Clients, NEW e \in Report, NEW at \in ClientStage,
         SetClient(c, [at |-> at, row |-> MakeRow(e, "api", FALSE)]),
         UNCHANGED <<tables, lock, worker, editor, dispatch, faults>>
  PROVE  IInv'
<1> DEFINE row == MakeRow(e, "api", FALSE)
           f == [at |-> at, row |-> row]
<1>1. row \in TableRow /\ row.by = "api" /\ ~row.on_time
  BY ReportTypes, RowTypes, Zenon
<1> HIDE DEF row
<1>2. f \in ClientRec /\ Asked(f, Reached)
  BY <1>1, Zenon DEF ClientRec, Asked, Timely
<1> QED
  BY <1>2, ClientReads, Zenon DEF row

LEMMA RequestMoves ==
  ASSUME IInv, NEW c \in Clients, client[c].at # "idle", NEW at \in ClientStage,
         SetClient(c, [client[c] EXCEPT !.at = at]) \/ SetClient(c, ResetClient),
         UNCHANGED <<tables, lock, worker, editor, dispatch, faults>>
  PROVE  IInv'
<1> DEFINE f == [client[c] EXCEPT !.at = at]
<1>1. f \in ClientRec /\ f.row = client[c].row
  BY ClientHolds, Zenon DEF ClientRec
<1>2. Asked(f, Reached)
  BY <1>1, ClientHolds, Zenon DEF Asked
<1>3. ResetClient \in ClientRec /\ Asked(ResetClient, Reached)
  BY Resets, Zenon DEF Asked
<1> HIDE DEF f
<1>4. CASE SetClient(c, f)
  BY <1>1, <1>2, <1>4, ClientReads, Zenon
<1>5. CASE SetClient(c, ResetClient)
  BY <1>3, <1>5, ClientReads, Zenon
<1> QED
  BY <1>4, <1>5, Zenon DEF f

LEMMA RecordRoundStep ==
  ASSUME IInv, NEW c \in Clients, RecordRound(c)
  PROVE  IInv'
<1> DEFINE row == client[c].row
           b == row.round >= 1 /\ row.round <= circle.current_round
           f == [client[c] EXCEPT !.at = "create", !.row.on_time = b]
<1>0. client[c] \in ClientRec /\ row \in TableRow /\ row.by = "api"
  BY ClientHolds, Zenon DEF RecordRound
<1>1. circle.current_round \in Reached /\ circle.current_round \in Nat /\ row.round \in Nat
  BY <1>0, Zenon DEF IInv, TypeOK, Counters, Copies, Sound, TableRow
<1>2. b \in BOOLEAN /\ (b => row.round \in 1..circle.current_round)
  BY <1>1
<1> HIDE DEF b
<1>3. /\ f \in ClientRec /\ f.row.by = "api"
      /\ f.row.on_time = b /\ f.row.round = row.round
  BY <1>0, <1>2, Zenon DEF ClientRec, ClientStage, TableRow
<1> HIDE DEF row
<1>4. Asked(f, Reached)
  BY <1>1, <1>2, <1>3, Zenon DEF Asked, Timely
<1>5. /\ SetClient(c, f)
      /\ UNCHANGED <<tables, lock, worker, editor, dispatch, faults>>
  BY Zenon DEF RecordRound, row, b
<1> HIDE DEF f
<1> QED
  BY <1>3, <1>4, <1>5, ClientReads, Zenon

(* The API's inserts leave the indexer's records as they are. *)
LEMMA CreateSteps ==
  ASSUME IInv, NEW c \in Clients, RecordCreate(c) \/ PayoutCreate(c)
  PROVE  IInv' /\ UNCHANGED <<circle, Credited, Paid>>
<1> DEFINE row == client[c].row
<1>0. row \in TableRow /\ row.by = "api" /\ Timely(row, Reached)
  BY ClientHolds, Zenon DEF RecordCreate, PayoutCreate
<1>1. /\ contributions' \in {contributions, contributions \cup {row}}
      /\ payouts' \in {payouts, payouts \cup {row}}
      /\ SetClient(c, ResetClient)
      /\ UNCHANGED <<circle, member, lock, worker, editor, seen, handled, failed, faults>>
  BY Zenon DEF RecordCreate, PayoutCreate, dispatch
<1> HIDE DEF row
<1>2. Applied(contributions') = Applied(contributions) /\ Applied(payouts') = Applied(payouts)
  BY <1>0, <1>1, AppliedAdd
<1>3. UNCHANGED <<Credited, Paid, Reached>>
  BY <1>2, Zenon DEF Credited, Paid, Reached
<1>4. /\ client' \in [Clients -> ClientRec]
      /\ \A d \in Clients : Asked(client'[d], Reached)
  BY <1>1, Resets, ClientMoves, Zenon DEF Asked
<1>5. TypeOK'
  BY <1>0, <1>1, <1>4, Zenon DEF IInv, TypeOK, ClientRec
<1>6. \A r \in contributions' : r.by = "api" => Timely(r, Reached)
  BY <1>0, <1>1, Zenon DEF IInv, Judged, OnTimeWithinReached, Timely
<1>7. Judged'
  BY <1>3, <1>4, <1>6, Zenon DEF Judged, OnTimeWithinReached, Timely
<1> QED
  BY <1>1, <1>3, <1>5, <1>7, Zenon DEF IInv, Locked, Pending, Copies

LEMMA ClientSteps ==
  ASSUME IInv, NEW c \in Clients, ClientStep(c)
  PROVE  IInv' /\ UNCHANGED <<circle, worker, Credited, Paid>>
<1>1. CASE RecordCreate(c) \/ PayoutCreate(c)
  BY <1>1, CreateSteps, Zenon DEF RecordCreate, PayoutCreate
<1>2. CASE RecordRound(c)
  BY <1>2, RecordRoundStep, Zenon DEF RecordRound, tables, Credited, Paid
<1>3. CASE RecordMember(c) \/ PayoutMember(c) \/ PayoutScan(c)
  BY <1>3, RequestMoves, Zenon
     DEF RecordMember, PayoutMember, PayoutScan, ClientStage, tables, Credited, Paid
<1>4. CASE \/ \E e \in RecordInputs : RecordBegin(c, e)
           \/ \E e \in PayoutInputs : PayoutBegin(c, e)
  BY <1>4, RequestBegins, Zenon
     DEF RecordBegin, PayoutBegin, Report, ClientStage, tables, Credited, Paid
<1> QED
  BY <1>1, <1>2, <1>3, <1>4, Zenon DEF ClientStep
-----------------------------------------------------------------------------
(* The workers.  Steps that commit nothing leave the tables as they are. *)
Bookkept ==
  /\ seen \in [Workers -> SUBSET Events]
  /\ handled \subseteq Events /\ failed \subseteq Events
  /\ faults \in 0..MaxFaults

LEMMA TransactionsMove ==
  ASSUME IInv, worker' \in [Workers -> WorkerRec], lock' \in Workers \cup {Free}, Bookkept',
         \A x \in Workers : worker'[x].at # "idle" => lock' = x,
         \A x \in Workers : Fresh(worker'[x], Credited, Paid),
         UNCHANGED <<tables, requests>>
  PROVE  IInv'
<1>1. UNCHANGED <<circle, member, contributions, payouts, client, editor>>
  BY Zenon DEF tables, requests
<1>2. UNCHANGED <<Credited, Paid, Reached>>
  BY <1>1, Zenon DEF Credited, Paid, Reached
<1>3. TypeOK'
  BY <1>1, Zenon DEF IInv, TypeOK, WorkerRec, Bookkept
<1>4. Locked' /\ Pending'
  BY <1>2, Zenon DEF Locked, Pending
<1> QED
  BY <1>1, <1>2, <1>3, <1>4, Zenon DEF IInv, Judged, OnTimeWithinReached, Copies

LEMMA WorkerMoves ==
  ASSUME IInv, NEW w \in Workers, NEW f \in WorkerRec, SetWorker(w, f)
  PROVE  /\ worker' \in [Workers -> WorkerRec]
         /\ worker'[w] = f
         /\ \A x \in Workers : x # w => worker'[x] = worker[x]
<1>1. worker \in [Workers -> WorkerRec] /\ worker' = [worker EXCEPT ![w] = f]
  BY Zenon DEF IInv, TypeOK, SetWorker, WorkerRec
<1> QED
  BY <1>1, Zenon

(* One worker moves and the others are outside a transaction. *)
LEMMA WorkerReads ==
  ASSUME IInv, NEW w \in Workers, NEW f \in WorkerRec, SetWorker(w, f),
         Fresh(f, Credited, Paid), f.at # "idle" => lock' = w,
         \A x \in Workers : x # w => worker[x].at = "idle",
         lock' \in Workers \cup {Free}, Bookkept', UNCHANGED <<tables, requests>>
  PROVE  IInv'
<1>1. /\ worker' \in [Workers -> WorkerRec]
      /\ worker'[w] = f
      /\ \A x \in Workers : x # w => worker'[x] = worker[x]
  BY WorkerMoves, Zenon
<1>2. \A x \in Workers : worker'[x].at # "idle" => lock' = x
  BY <1>1, Zenon
<1>3. \A x \in Workers : Fresh(worker'[x], Credited, Paid)
  BY <1>1, Zenon DEF IInv, Pending
<1> QED
  BY <1>1, <1>2, <1>3, TransactionsMove, Zenon

(* The lock is free, so nobody is in a transaction; a worker in one has    *)
(* the lock, so nobody else is.                                            *)
LEMMA NobodyInside ==
  ASSUME IInv, lock = Free
  PROVE  \A x \in Workers : worker[x].at = "idle"
BY FreeAssumption, Zenon DEF IInv, Locked

LEMMA Inside ==
  ASSUME IInv, NEW w \in Workers, worker[w].at # "idle"
  PROVE  /\ lock = w
         /\ worker[w] \in WorkerRec /\ worker[w].row \in TableRow
         /\ worker[w].row.by = "indexer"
         /\ Fresh(worker[w], Credited, Paid)
         /\ AsEvent(worker[w].row) \in Events
         /\ \A x \in Workers : x # w => worker[x].at = "idle"
<1>1. /\ worker[w] \in WorkerRec /\ worker[w].row \in TableRow /\ worker[w].at \in WorkerStage
      /\ Fresh(worker[w], Credited, Paid)
  BY Zenon DEF IInv, TypeOK, WorkerRec, Pending
<1>2. lock = w /\ \A x \in Workers : x # w => worker[x].at = "idle"
  BY Zenon DEF IInv, Locked
<1> QED
  BY <1>1, <1>2, Zenon DEF Fresh, WorkerStage, Contributing, Events

LEMMA TakesBooks ==
  ASSUME IInv, NEW w \in Workers, NEW e \in Events, Takes(w, e),
         handled' \subseteq handled \cup {e}, failed' \subseteq failed \cup {e},
         faults' \in 0..MaxFaults
  PROVE  Bookkept'
<1>1. seen \in [Workers -> SUBSET Events] /\ handled \subseteq Events /\ failed \subseteq Events
  BY Zenon DEF IInv, TypeOK
<1>2. seen' = [seen EXCEPT ![w] = @ \cup {e}]
  BY Zenon DEF Takes
<1>3. seen' \in [Workers -> SUBSET Events]
  BY <1>1, <1>2, Zenon
<1> QED
  BY <1>1, <1>3, Zenon DEF Bookkept

LEMMA SameTransactions ==
  ASSUME IInv, Bookkept', UNCHANGED <<tables, lock, worker, requests>>
  PROVE  IInv'
<1>1. /\ worker' \in [Workers -> WorkerRec] /\ lock' \in Workers \cup {Free}
      /\ \A x \in Workers : worker'[x].at # "idle" => lock' = x
      /\ \A x \in Workers : Fresh(worker'[x], Credited, Paid)
  BY Zenon DEF IInv, TypeOK, WorkerRec, Locked, Pending
<1> QED
  BY <1>1, TransactionsMove, Zenon

(* The insert found no colliding row, so no record of the event.           *)
LEMMA BeginContribution ==
  ASSUME IInv, NEW w \in Workers, NEW e \in Contributions, ApplyContribution(w, e)
  PROVE  IInv' /\ UNCHANGED <<circle, Credited, Paid>>
<1> DEFINE row == MakeRow(e, "indexer", TRUE)
           f == [ResetWorker EXCEPT !.at = "contributors", !.row = row]
<1>0. e \in Report /\ e \in Events
  BY Zenon DEF Report, Events
<1>1. row \in TableRow /\ row.by = "indexer" /\ AsEvent(row) = e /\ row.hash = e.hash
  BY <1>0, ReportTypes, RowTypes, Zenon
<1>2. /\ Takes(w, e) /\ lock = Free
      /\ IF ContributionExists(row)
         THEN handled' = handled \cup {e} /\ UNCHANGED <<lock, worker>>
         ELSE lock' = w /\ SetWorker(w, f) /\ UNCHANGED handled
      /\ UNCHANGED <<tables, requests, failed, faults>>
  BY Zenon DEF ApplyContribution
<1> HIDE DEF row
<1>3. Bookkept'
  <2>1. faults' \in 0..MaxFaults
    BY <1>2, Zenon DEF IInv, TypeOK
  <2> QED BY <1>0, <1>2, <2>1, TakesBooks
<1>4. ASSUME ContributionExists(row) PROVE IInv'
  BY <1>2, <1>3, <1>4, SameTransactions, Zenon
<1>5. ASSUME ~ContributionExists(row) PROVE IInv'
  <2>1. f \in WorkerRec /\ f.at = "contributors" /\ f.row = row
    BY <1>1, Resets, Zenon DEF WorkerRec, WorkerStage
  <2>2. e \notin Credited
    BY <1>1, <1>5, Zenon DEF ContributionExists, SameContribution, Credited, Applied, AsEvent
  <2>3. Fresh(f, Credited, Paid)
    BY <1>1, <2>1, <2>2, Zenon DEF Fresh
  <2>4. \A x \in Workers : worker[x].at = "idle"
    BY <1>2, NobodyInside, Zenon
  <2> HIDE DEF f
  <2> QED BY <1>2, <1>3, <1>5, <2>1, <2>3, <2>4, WorkerReads
<1> QED
  BY <1>2, <1>4, <1>5, Zenon DEF tables, Credited, Paid

LEMMA BeginPayout ==
  ASSUME IInv, NEW w \in Workers, NEW e \in Payouts, RecordPayout(w, e)
  PROVE  IInv' /\ UNCHANGED <<circle, Credited, Paid>>
<1> DEFINE row == MakeRow(e, "indexer", TRUE)
           f == [ResetWorker EXCEPT !.at = "payout", !.row = row]
<1>0. e \in Report /\ e \in Events
  BY Zenon DEF Report, Events
<1>1. row \in TableRow /\ row.by = "indexer" /\ AsEvent(row) = e /\ row.hash = e.hash
  BY <1>0, ReportTypes, RowTypes, Zenon
<1>2. /\ Takes(w, e) /\ lock = Free
      /\ IF PayoutExists(row)
         THEN handled' = handled \cup {e} /\ UNCHANGED <<lock, worker>>
         ELSE lock' = w /\ SetWorker(w, f) /\ UNCHANGED handled
      /\ UNCHANGED <<tables, requests, failed, faults>>
  BY Zenon DEF RecordPayout
<1> HIDE DEF row
<1>3. Bookkept'
  <2>1. faults' \in 0..MaxFaults
    BY <1>2, Zenon DEF IInv, TypeOK
  <2> QED BY <1>0, <1>2, <2>1, TakesBooks
<1>4. ASSUME PayoutExists(row) PROVE IInv'
  BY <1>2, <1>3, <1>4, SameTransactions, Zenon
<1>5. ASSUME ~PayoutExists(row) PROVE IInv'
  <2>1. f \in WorkerRec /\ f.at = "payout" /\ f.row = row
    BY <1>1, Resets, Zenon DEF WorkerRec, WorkerStage
  <2>2. e \notin Paid
    BY <1>1, <1>5, Zenon DEF PayoutExists, SamePayout, Paid, Applied, AsEvent
  <2>3. Fresh(f, Credited, Paid)
    BY <1>1, <2>1, <2>2, Zenon DEF Fresh, Contributing
  <2>4. \A x \in Workers : worker[x].at = "idle"
    BY <1>2, NobodyInside, Zenon
  <2> HIDE DEF f
  <2> QED BY <1>2, <1>3, <1>5, <2>1, <2>3, <2>4, WorkerReads
<1> QED
  BY <1>2, <1>4, <1>5, Zenon DEF tables, Credited, Paid

LEMMA CountSteps ==
  ASSUME IInv, NEW w \in Workers, CountContributors(w) \/ CountMembers(w)
  PROVE  IInv' /\ UNCHANGED <<circle, Credited, Paid>>
<1> DEFINE row == worker[w].row
           S == {s.user : s \in {t \in contributions : t.round = row.round}} \cup {row.user}
<1>0. /\ lock = w /\ worker[w] \in WorkerRec /\ row \in TableRow
      /\ Fresh(worker[w], Credited, Paid) /\ row.by = "indexer"
      /\ \A x \in Workers : x # w => worker[x].at = "idle"
  BY Inside, Zenon DEF CountContributors, CountMembers
<1>1. Cardinality(S) \in Nat /\ Cardinality(Active) \in Nat
  <2>1. S \subseteq Users /\ Active \subseteq Users
    BY <1>0 DEF IInv, TypeOK, TableRow, Active
  <2> QED BY <2>1, UsersAssumption, FS_Subset, FS_CardinalityType
<1>2. UNCHANGED <<tables, lock, requests, dispatch, faults>>
  BY Zenon DEF CountContributors, CountMembers
<1>3. Bookkept' /\ lock' \in Workers \cup {Free} /\ lock' = w
  BY <1>0, <1>2, Zenon DEF IInv, TypeOK, Bookkept, dispatch
<1>4. ASSUME NEW f \in WorkerRec, SetWorker(w, f), f.row = row, f.at \in {"members", "commit"},
             worker[w].at \in Contributing
      PROVE  IInv'
  <2>1. Fresh(f, Credited, Paid)
    BY <1>0, <1>4, Zenon DEF Fresh, Contributing
  <2> QED BY <1>0, <1>2, <1>3, <1>4, <2>1, WorkerReads
<1>5. ASSUME CountContributors(w) PROVE IInv'
  <2> DEFINE n == Cardinality(S)
             f == [worker[w] EXCEPT !.at = "members", !.contributed = n]
  <2>1. SetWorker(w, f) /\ worker[w].at \in Contributing
    BY <1>5, Zenon DEF CountContributors, Contributing
  <2> HIDE DEF n, row
  <2>2. f \in WorkerRec /\ f.at = "members" /\ f.row = row
    BY <1>0, <1>1, Zenon DEF WorkerRec, WorkerStage, n, row
  <2> HIDE DEF f
  <2> QED BY <1>4, <2>1, <2>2
<1>6. ASSUME CountMembers(w) PROVE IInv'
  <2> DEFINE n == Cardinality(Active)
             f == [worker[w] EXCEPT !.at = "commit", !.members = n]
  <2>1. SetWorker(w, f) /\ worker[w].at \in Contributing
    BY <1>6, Zenon DEF CountMembers, Contributing
  <2> HIDE DEF n, row
  <2>2. f \in WorkerRec /\ f.at = "commit" /\ f.row = row
    BY <1>0, <1>1, Zenon DEF WorkerRec, WorkerStage, n, row
  <2> HIDE DEF f
  <2> QED BY <1>4, <2>1, <2>2
<1> QED
  BY <1>2, <1>5, <1>6, Zenon DEF tables, Credited, Paid

(* Rollbacks, failed lookups and restarts give up a row; none is written.  *)
LEMMA FailSteps ==
  ASSUME IInv, Crash \/ \E w \in Workers : WorkerFails(w)
  PROVE  IInv' /\ UNCHANGED <<circle, Credited, Paid>>
<1>0. /\ faults' \in 0..MaxFaults /\ UNCHANGED <<tables, requests>>
      /\ handled \subseteq Events /\ failed \subseteq Events
      /\ seen \in [Workers -> SUBSET Events]
  <2>1. faults \in 0..MaxFaults /\ faults' = faults + 1 /\ faults < MaxFaults
    BY Zenon DEF IInv, TypeOK, Crash, WorkerFails, StatementFails, HandlerFails
  <2>2. faults' \in 0..MaxFaults
    BY <2>1, BoundsAssumption
  <2> QED BY <2>2 DEF IInv, TypeOK, Crash, WorkerFails, StatementFails, HandlerFails
<1>1. Fresh(ResetWorker, Credited, Paid)
  BY Resets, Zenon DEF Fresh, Contributing
<1>2. ASSUME NEW w \in Workers, StatementFails(w) PROVE IInv'
  <2>1. AsEvent(worker[w].row) \in Events /\ \A x \in Workers : x # w => worker[x].at = "idle"
    BY <1>2, Inside, Zenon DEF StatementFails
  <2>2. Bookkept'
    BY <1>0, <1>2, <2>1, Zenon DEF StatementFails, Bookkept
  <2> QED BY <1>0, <1>1, <1>2, <2>1, <2>2, Resets, WorkerReads DEF StatementFails
<1>3. ASSUME NEW w \in Workers, NEW e \in Events, HandlerFails(w, e) PROVE IInv'
  <2>1. Bookkept'
    BY <1>0, <1>3, TakesBooks, Zenon DEF HandlerFails
  <2> QED BY <1>0, <1>3, <2>1, SameTransactions DEF HandlerFails
<1>4. ASSUME Crash PROVE IInv'
  <2>1. /\ lock' = Free /\ worker' = [w \in Workers |-> ResetWorker]
        /\ handled' = handled /\ failed' = failed
        /\ \E passed \in SUBSET (handled \cup failed) : seen' = [w \in Workers |-> passed]
    BY <1>4, Zenon DEF Crash
  <2>2. seen' \in [Workers -> SUBSET Events]
    BY <1>0, <2>1, Zenon
  <2>3. Bookkept'
    BY <1>0, <2>1, <2>2, Zenon DEF Bookkept
  <2>4. /\ worker' \in [Workers -> WorkerRec]
        /\ \A x \in Workers : worker'[x].at # "idle" => lock' = x
        /\ \A x \in Workers : Fresh(worker'[x], Credited, Paid)
    BY <1>1, <2>1, Resets, Zenon
  <2> QED BY <1>0, <2>1, <2>3, <2>4, TransactionsMove
<1> QED
  BY <1>0, <1>2, <1>3, <1>4, Zenon DEF WorkerFails, tables, Credited, Paid
-----------------------------------------------------------------------------
(* A commit adds one record to one of the tables; the copies editors hold  *)
(* and the rounds requests were judged by stay accounted for.              *)
LEMMA CommitKeeps ==
  ASSUME IInv, NEW w \in Workers, worker[w].at # "idle",
         contributions \subseteq contributions', payouts \subseteq payouts',
         contributions' \subseteq contributions \cup {worker[w].row},
         payouts' \subseteq payouts \cup {worker[w].row},
         IsFiniteSet(Credited'), circle' \in Counters,
         Sound(circle', Reached', Cardinality(Credited')),
         handled' = handled \cup {AsEvent(worker[w].row)},
         lock' = Free, SetWorker(w, ResetWorker),
         UNCHANGED <<member, requests, seen, failed, faults>>
  PROVE  IInv'
<1>0. /\ worker[w].row \in TableRow /\ worker[w].row.by = "indexer"
      /\ AsEvent(worker[w].row) \in Events
      /\ \A x \in Workers : x # w => worker[x].at = "idle"
  BY Inside, Zenon
<1>1. UNCHANGED <<member, client, editor, seen, failed, faults>>
  BY Zenon DEF requests
<1>2. /\ worker' \in [Workers -> WorkerRec]
      /\ \A x \in Workers : worker'[x].at = "idle"
  <2>1. /\ worker' \in [Workers -> WorkerRec] /\ worker'[w] = ResetWorker
        /\ \A x \in Workers : x # w => worker'[x] = worker[x]
    BY Resets, WorkerMoves, Zenon
  <2> QED BY <1>0, <2>1, Resets
<1>3. TypeOK'
  BY <1>0, <1>1, <1>2, Zenon DEF IInv, TypeOK, WorkerRec
<1>4. Locked' /\ Pending'
  BY <1>2, Zenon DEF Locked, Pending, Fresh, Contributing
<1>5. Credited \subseteq Credited' /\ Paid \subseteq Paid'
  BY Zenon DEF Credited, Paid, Applied
<1>6. /\ Reached \subseteq Reached'
      /\ Cardinality(Credited) \in Nat /\ Cardinality(Credited') \in Nat
      /\ Cardinality(Credited) <= Cardinality(Credited')
  BY <1>5, RecordsGrow, Zenon
<1>7. Judged'
  <2>1. \A row : Timely(row, Reached) => Timely(row, Reached')
    BY <1>6, Zenon DEF Timely
  <2>2. \A c \in Clients : Asked(client'[c], Reached')
    BY <1>1, <2>1, Zenon DEF IInv, Judged, Asked
  <2>3. \A r \in contributions' : r.by = "api" => r \in contributions /\ Timely(r, Reached')
    BY <1>0, <2>1, Zenon DEF IInv, Judged, OnTimeWithinReached, Timely
  <2> QED BY <2>2, <2>3 DEF Judged, OnTimeWithinReached, Timely
<1>8. ASSUME NEW x \in Editors PROVE Sound(editor'[x].row, Reached', Cardinality(Credited'))
  <2>1. editor[x].row \in Counters /\ Sound(editor[x].row, Reached, Cardinality(Credited))
    BY Zenon DEF IInv, TypeOK, Copies
  <2> QED BY <1>1, <1>6, <2>1, SoundGrows
<1> QED
  BY <1>3, <1>4, <1>7, <1>8, Zenon DEF IInv, Copies

(* The circles row a worker reads and moves. *)
LEMMA RowTypesHeld ==
  ASSUME IInv
  PROVE  /\ circle \in Counters
         /\ circle.current_round \in Nat /\ circle.total_contributions \in Nat
         /\ circle.reported \in Nat
         /\ circle.current_round \in Reached
         /\ circle.total_contributions <= circle.reported + Cardinality(Credited)
         /\ Cardinality(Credited) \in Nat
<1>1. /\ circle \in Counters /\ Sound(circle, Reached, Cardinality(Credited))
      /\ IsFiniteSet(Credited)
  BY Zenon DEF IInv, TypeOK, Copies
<1>2. /\ circle.current_round \in Nat /\ circle.total_contributions \in Nat
      /\ circle.reported \in EventTotals \cup {0}
  BY <1>1, Zenon DEF Counters
<1>3. \A t \in EventTotals \cup {0} : t \in Nat
  BY BoundsAssumption
<1>4. Cardinality(Credited) \in Nat
  BY <1>1, FS_CardinalityType, Zenon
<1> QED
  BY <1>1, <1>2, <1>3, <1>4, Zenon DEF Sound

(* COMMIT of a contribution: the row is new among the indexer's, and the   *)
(* counters move with it.                                                  *)
LEMMA CommitContributionStep ==
  ASSUME IInv, NEW w \in Workers, CommitContribution(w)
  PROVE  /\ IInv'
         /\ AsEvent(worker[w].row) \in Contributions \ Credited
         /\ Credited' = Credited \cup {AsEvent(worker[w].row)} /\ Paid' = Paid
         /\ circle'.total_contributions = circle.total_contributions + 1
         /\ circle'.reported = circle.reported
         /\ circle'.current_round \in
              {circle.current_round, Latest(circle.current_round, AsEvent(worker[w].row).round + 1)}
<1> DEFINE row == worker[w].row
           e == AsEvent(row)
           round == IF worker[w].members > 0 /\ worker[w].contributed >= worker[w].members
                    THEN Latest(circle.current_round, row.round + 1)
                    ELSE circle.current_round
           total == circle.total_contributions + 1
<1>0. /\ row \in TableRow /\ row.by = "indexer" /\ worker[w].at = "commit"
      /\ e \in Contributions \ Credited
  BY Inside, Zenon DEF CommitContribution, Fresh, Contributing
<1>1. e.round = row.round /\ row.round \in Nat /\ row.round + 1 \in Nat
  BY <1>0 DEF AsEvent, TableRow
<1>2. /\ contributions' = contributions \cup {row}
      /\ circle' = [circle EXCEPT !.total_contributions = total, !.current_round = round]
      /\ handled' = handled \cup {e}
      /\ lock' = Free /\ SetWorker(w, ResetWorker)
      /\ UNCHANGED <<member, payouts, requests, seen, failed, faults>>
  BY Zenon DEF CommitContribution, AsEvent
<1>3. round \in {circle.current_round, Latest(circle.current_round, e.round + 1)}
  BY <1>1, Zenon
<1>4. Credited' = Credited \cup {e} /\ Paid' = Paid
  BY <1>0, <1>2, AppliedAdd, Zenon DEF Credited, Paid
<1>5. /\ circle \in Counters
      /\ circle.current_round \in Nat /\ circle.total_contributions \in Nat
      /\ circle.reported \in Nat
      /\ circle.current_round \in Reached
      /\ circle.total_contributions <= circle.reported + Cardinality(Credited)
      /\ Cardinality(Credited) \in Nat
  BY RowTypesHeld, Zenon
<1>6. IsFiniteSet(Credited') /\ Cardinality(Credited') = Cardinality(Credited) + 1
  BY <1>0, <1>4, FS_AddElement, Zenon DEF IInv, Copies
<1>7. Reached' = Reached \cup {e.round + 1}
  BY <1>4, Zenon DEF Reached, Credited, Paid
<1>8. round \in Nat /\ round \in Reached'
  <2>1. Latest(circle.current_round, e.round + 1) \in {circle.current_round, e.round + 1}
    BY <1>1, <1>5, LatestType, Zenon
  <2> QED BY <1>1, <1>3, <1>5, <1>7, <2>1
<1>9. total \in Nat /\ total <= circle.reported + Cardinality(Credited')
  BY <1>5, <1>6
<1> HIDE DEF round
<1>10. circle'.total_contributions = total /\ circle'.current_round = round
       /\ circle'.reported = circle.reported /\ circle' \in Counters
  <2> HIDE DEF total
  <2> QED BY <1>2, <1>5, <1>8, <1>9, Zenon DEF Counters
<1>11. Sound(circle', Reached', Cardinality(Credited'))
  <2> HIDE DEF total
  <2> QED BY <1>8, <1>9, <1>10 DEF Sound
<1>12. IInv'
  BY <1>0, <1>2, <1>6, <1>10, <1>11, CommitKeeps, Zenon
<1> QED
  BY <1>0, <1>3, <1>4, <1>10, <1>12

(* COMMIT of a payout. *)
LEMMA CommitPayoutStep ==
  ASSUME IInv, NEW w \in Workers, CommitPayout(w)
  PROVE  /\ IInv'
         /\ AsEvent(worker[w].row) \in Payouts \ Paid
         /\ Paid' = Paid \cup {AsEvent(worker[w].row)} /\ Credited' = Credited
         /\ circle'.total_contributions = circle.total_contributions
         /\ circle'.reported = circle.reported
         /\ circle'.current_round
              = Latest(circle.current_round, AsEvent(worker[w].row).round + 1)
<1> DEFINE row == worker[w].row
           e == AsEvent(row)
           round == Latest(circle.current_round, row.round + 1)
<1>0. /\ row \in TableRow /\ row.by = "indexer" /\ worker[w].at = "payout"
      /\ e \in Payouts \ Paid
  BY Inside, Zenon DEF CommitPayout, Fresh, Contributing
<1>1. e.round = row.round /\ row.round \in Nat /\ row.round + 1 \in Nat
  BY <1>0 DEF AsEvent, TableRow
<1>2. /\ payouts' = payouts \cup {row}
      /\ circle' = [circle EXCEPT !.current_round = round]
      /\ handled' = handled \cup {e}
      /\ lock' = Free /\ SetWorker(w, ResetWorker)
      /\ UNCHANGED <<member, contributions, requests, seen, failed, faults>>
  BY Zenon DEF CommitPayout, AsEvent
<1>3. round = Latest(circle.current_round, e.round + 1)
  BY <1>1, Zenon
<1>4. Paid' = Paid \cup {e} /\ Credited' = Credited
  BY <1>0, <1>2, AppliedAdd, Zenon DEF Credited, Paid
<1>5. /\ circle \in Counters
      /\ circle.current_round \in Nat /\ circle.current_round \in Reached
      /\ circle.total_contributions <= circle.reported + Cardinality(Credited)
  BY RowTypesHeld, Zenon
<1>6. IsFiniteSet(Credited') /\ Cardinality(Credited') = Cardinality(Credited)
  BY <1>4, Zenon DEF IInv, Copies
<1>7. Reached' = Reached \cup {e.round + 1}
  BY <1>4, Zenon DEF Reached, Credited, Paid
<1>8. round \in Nat /\ round \in Reached'
  <2>1. round \in {circle.current_round, e.round + 1} /\ round \in Nat
    BY <1>1, <1>3, <1>5, LatestType, Zenon
  <2> QED BY <1>5, <1>7, <2>1
<1> HIDE DEF round
<1>9. /\ circle'.total_contributions = circle.total_contributions
      /\ circle'.current_round = round
      /\ circle'.reported = circle.reported /\ circle' \in Counters
  BY <1>2, <1>5, <1>8, Zenon DEF Counters
<1>10. Sound(circle', Reached', Cardinality(Credited'))
  BY <1>5, <1>6, <1>8, <1>9, Zenon DEF Sound
<1>11. IInv'
  BY <1>0, <1>2, <1>6, <1>9, <1>10, CommitKeeps, Zenon
<1> QED
  BY <1>0, <1>3, <1>4, <1>9, <1>11
-----------------------------------------------------------------------------
(* The editors: a copy is as good as the row it was read from, and the row *)
(* as good as the copy written over it.                                    *)
LEMMA ReadRowStep ==
  ASSUME IInv, NEW x \in Editors, NEW row \in Counters, ReadRow(x, row),
         Sound(row, Reached, Cardinality(Credited))
  PROVE  IInv'
<1>1. /\ editor' = [editor EXCEPT ![x] = [at |-> "save", row |-> row]]
      /\ UNCHANGED <<circle, member, contributions, payouts, lock, worker, client,
                     seen, handled, failed, faults>>
  BY Zenon DEF ReadRow, tables, dispatch
<1>2. /\ editor \in [Editors -> EditorRec]
      /\ \A y \in Editors : Sound(editor[y].row, Reached, Cardinality(Credited))
  BY Zenon DEF IInv, TypeOK, EditorRec, Copies
<1>3. [at |-> "save", row |-> row] \in EditorRec
  BY Zenon DEF EditorRec
<1>4. /\ editor' \in [Editors -> EditorRec]
      /\ \A y \in Editors : Sound(editor'[y].row, Reached, Cardinality(Credited))
  BY <1>1, <1>2, <1>3, Zenon
<1>5. UNCHANGED <<Credited, Paid, Reached>>
  BY <1>1, Zenon DEF Credited, Paid, Reached
<1>6. TypeOK'
  BY <1>1, <1>4, Zenon DEF IInv, TypeOK, EditorRec
<1> QED
  BY <1>1, <1>4, <1>5, <1>6, Zenon
     DEF IInv, Locked, Pending, Judged, OnTimeWithinReached, Copies

LEMMA SaveRowStep ==
  ASSUME IInv, NEW x \in Editors, SaveRow(x)
  PROVE  IInv'
<1>1. /\ circle' \in {circle, editor[x].row}
      /\ editor' = [editor EXCEPT ![x] = ResetEditor]
      /\ UNCHANGED <<member, contributions, payouts, lock, worker, client,
                     seen, handled, failed, faults>>
  BY Zenon DEF SaveRow, dispatch
<1>2. /\ editor \in [Editors -> EditorRec]
      /\ \A y \in Editors :
           editor[y].row \in Counters /\ Sound(editor[y].row, Reached, Cardinality(Credited))
      /\ circle \in Counters /\ Sound(circle, Reached, Cardinality(Credited))
      /\ IsFiniteSet(Credited)
  BY Zenon DEF IInv, TypeOK, EditorRec, Copies
<1>3. circle' \in Counters /\ Sound(circle', Reached, Cardinality(Credited))
  BY <1>1, <1>2, Zenon
<1>4. Sound(Started, Reached, Cardinality(Credited))
  <2>1. Cardinality(Credited) \in Nat
    BY <1>2, FS_CardinalityType, Zenon
  <2>2. 1 \in Reached
    BY Zenon DEF Reached
  <2> QED BY <2>1, <2>2 DEF Sound, Started
<1>5. /\ editor' \in [Editors -> EditorRec]
      /\ \A y \in Editors : Sound(editor'[y].row, Reached, Cardinality(Credited))
  BY <1>1, <1>2, <1>4, Resets, Zenon
<1>6. UNCHANGED <<Credited, Paid, Reached>>
  BY <1>1, Zenon DEF Credited, Paid, Reached
<1>7. TypeOK'
  BY <1>1, <1>3, <1>5, Zenon DEF IInv, TypeOK, EditorRec
<1> QED
  BY <1>1, <1>2, <1>3, <1>5, <1>6, <1>7
     DEF IInv, Locked, Pending, Judged, OnTimeWithinReached, Copies

LEMMA EditorSteps ==
  ASSUME IInv, NEW x \in Editors, EditorStep(x)
  PROVE  IInv' /\ UNCHANGED <<worker, Credited, Paid>>
<1>0. circle \in Counters /\ Sound(circle, Reached, Cardinality(Credited))
  BY Zenon DEF IInv, TypeOK, Copies
<1>1. ASSUME NEW s \in {"active", "disputed", "completed"}
      PROVE  /\ [circle EXCEPT !.status = s] \in Counters
             /\ Sound([circle EXCEPT !.status = s], Reached, Cardinality(Credited))
  BY <1>0, Zenon DEF Counters, Sound
<1>2. ASSUME Update(x) \/ Close(x) \/ OnDisputeRaised(x) PROVE IInv'
  BY <1>0, <1>1, <1>2, ReadRowStep, Zenon DEF Update, Close, OnDisputeRaised
<1>3. ASSUME NEW t \in EventTotals, OnCircleCompleted(x, t) PROVE IInv'
  <2> DEFINE row == [circle EXCEPT !.status = "completed", !.total_contributions = t,
                                   !.reported = t]
  <2>1. t \in Nat /\ Cardinality(Credited) \in Nat
    BY BoundsAssumption, RowTypesHeld, Zenon
  <2>2. /\ row \in Counters /\ row.total_contributions = t /\ row.reported = t
        /\ row.current_round = circle.current_round
    BY <1>0, <2>1, Zenon DEF Counters
  <2>3. ReadRow(x, row)
    BY <1>3, Zenon DEF OnCircleCompleted
  <2> HIDE DEF row
  <2>4. Sound(row, Reached, Cardinality(Credited))
    BY <1>0, <2>1, <2>2 DEF Sound
  <2> QED BY <2>2, <2>3, <2>4, ReadRowStep
<1>4. UNCHANGED <<worker, contributions, payouts>>
  BY Zenon DEF EditorStep, Update, Close, OnDisputeRaised, OnCircleCompleted, ReadRow, SaveRow, tables
<1> QED
  BY <1>2, <1>3, <1>4, SaveRowStep, Zenon DEF EditorStep, Credited, Paid

LEMMA MemberSteps ==
  ASSUME IInv, NEW u \in Users, MemberJoins(u) \/ MemberLeaves(u)
  PROVE  IInv' /\ UNCHANGED <<circle, worker, Credited, Paid>>
<1>1. /\ member' \in [Users -> {"none", "active", "left"}]
      /\ UNCHANGED <<circle, contributions, payouts, lock, worker, client, editor,
                     seen, handled, failed, faults>>
  BY Zenon DEF IInv, TypeOK, MemberJoins, MemberLeaves, requests, dispatch
<1>2. UNCHANGED <<Credited, Paid, Reached>>
  BY <1>1, Zenon DEF Credited, Paid, Reached
<1>3. TypeOK'
  BY <1>1, Zenon DEF IInv, TypeOK
<1> QED
  BY <1>1, <1>2, <1>3, Zenon DEF IInv, Locked, Pending, Judged, OnTimeWithinReached, Copies
-----------------------------------------------------------------------------
LEMMA Stutter ==
  ASSUME IInv, UNCHANGED vars
  PROVE  IInv' /\ UNCHANGED <<circle, worker, Credited, Paid>>
<1>1. UNCHANGED <<circle, member, contributions, payouts, lock, worker, client, editor,
                  seen, handled, failed, faults>>
  BY Zenon DEF vars, tables, requests, dispatch
<1>2. UNCHANGED <<Credited, Paid, Reached>>
  BY <1>1, Zenon DEF Credited, Paid, Reached
<1>3. TypeOK'
  BY <1>1, Zenon DEF IInv, TypeOK
<1> QED
  BY <1>1, <1>2, <1>3, Zenon DEF IInv, Locked, Pending, Judged, OnTimeWithinReached, Copies

(* Every step is a commit, a whole-row write or editor's read, or leaves   *)
(* the counters and the indexer's records alone.                           *)
LEMMA StepKinds ==
  ASSUME IInv, [Next]_vars
  PROVE  /\ IInv'
         /\ \/ \E w \in Workers : CommitContribution(w) \/ CommitPayout(w)
            \/ \E x \in Editors : EditorStep(x)
            \/ UNCHANGED <<circle, Credited, Paid>>
<1>1. ASSUME NEW w \in Workers, Dispatch(w)
      PROVE  IInv' /\ UNCHANGED <<circle, Credited, Paid>>
  BY <1>1, BeginContribution, BeginPayout, Zenon DEF Dispatch
<1>2. ASSUME NEW w \in Workers, Transact(w)
      PROVE  /\ IInv'
             /\ \/ CommitContribution(w) \/ CommitPayout(w)
                \/ UNCHANGED <<circle, Credited, Paid>>
  BY <1>2, CountSteps, CommitContributionStep, CommitPayoutStep, Zenon DEF Transact
<1> QED
  BY <1>1, <1>2, FailSteps, ClientSteps, EditorSteps, MemberSteps, Stutter DEF Next

LEMMA Invariant == Spec => []IInv
<1>1. IInv /\ [Next]_vars => IInv'
  BY StepKinds, Zenon
<1> QED
  BY <1>1, InitIInv, PTL DEF Spec

(* The tables, the lock, the transactions, the requests and the editors'   *)
(* copies keep their types.                                                *)
THEOREM TypeCorrect == Spec => []TypeOK
BY Invariant, PTL DEF IInv

(* No contribution is counted twice, in the circles row or in a copy that  *)
(* will overwrite it, for any number of workers, API requests, whole-row   *)
(* writes, failures, restarts and replays.                                 *)
THEOREM CountedOnce == Spec => []NoneCountedTwice
<1>1. IInv => NoneCountedTwice
  BY Zenon DEF IInv, Copies, Sound, NoneCountedTwice, HeldRows, Credited
<1> QED
  BY <1>1, Invariant, PTL

(* A contribution the API marked on time is of a round that recorded       *)
(* events had opened, although the round may have been put back between    *)
(* the read Record judged it by and its insert.                            *)
THEOREM OnTimeIsReached == Spec => []OnTimeWithinReached
BY Invariant, PTL DEF IInv, Judged

(* GREATEST in sqlApplyContribution and sqlAdvanceRound: no step of a      *)
(* worker moves the round back.                                            *)
THEOREM RoundMovesForward == Spec => LockedRoundForward
<1>1. ASSUME IInv, [Next]_vars, worker' # worker
      PROVE  circle'.current_round >= circle.current_round
  <2>0. circle.current_round \in Nat
    BY <1>1, RowTypesHeld, Zenon
  <2>1. ASSUME NEW w \in Workers, CommitContribution(w) \/ CommitPayout(w)
        PROVE  circle'.current_round >= circle.current_round
    <3> DEFINE n == AsEvent(worker[w].row).round + 1
    <3>1. circle'.current_round \in {circle.current_round, Latest(circle.current_round, n)}
      BY <1>1, <2>1, CommitContributionStep, CommitPayoutStep
    <3>2. worker[w].row \in TableRow
      BY <1>1, <2>1, Inside DEF CommitContribution, CommitPayout
    <3>3. n \in Nat
      BY <3>2 DEF AsEvent, TableRow
    <3> HIDE DEF n
    <3>4. Latest(circle.current_round, n) >= circle.current_round
      BY <2>0, <3>3, LatestType, Zenon
    <3> QED BY <2>0, <3>1, <3>4
  <2>2. ~ \E x \in Editors : EditorStep(x)
    BY <1>1, EditorSteps, Zenon
  <2>3. CASE UNCHANGED circle
    BY <2>0, <2>3
  <2> QED BY <1>1, <2>1, <2>2, <2>3, StepKinds
<1>2. IInv /\ [Next]_vars => [worker' # worker => circle'.current_round >= circle.current_round]_vars
  BY <1>1, Zenon
<1> QED
  BY <1>2, Invariant, PTL DEF Spec, LockedRoundForward
-----------------------------------------------------------------------------
LEMMA SameCardinality == \A S : Abstract!Cardinality(S) = Cardinality(S)
BY Zenon DEF Abstract!Cardinality, Cardinality, Abstract!IsFiniteSet, IsFiniteSet

(* The locked transactions implement CircleCounters: each commit is one    *)
(* abstract step, a whole-row write is an Overwrite that recorded rows     *)
(* account for, and every other step stutters.                             *)
THEOREM ImplementsCounters == Spec => RefinesCounters
<1>1. Init => Abstract!Init
  BY DEF Init, Abstract!Init, Applied, Started
<1>2. IInv /\ [Next]_vars => [Abstract!Next]_(Abstract!vars)
  <2> SUFFICES ASSUME IInv, [Next]_vars PROVE [Abstract!Next]_(Abstract!vars)
    BY Zenon
  <2>1. ASSUME NEW w \in Workers, CommitContribution(w) PROVE Abstract!Next
    <3> DEFINE e == AsEvent(worker[w].row)
    <3>1. /\ e \in Contributions \ Credited /\ Credited' = Credited \cup {e} /\ Paid' = Paid
          /\ circle'.total_contributions = circle.total_contributions + 1
          /\ circle'.reported = circle.reported
          /\ circle'.current_round \in
               {circle.current_round, Latest(circle.current_round, e.round + 1)}
      BY <2>1, CommitContributionStep, Zenon
    <3> HIDE DEF e
    <3>2. Abstract!Later(circle.current_round, e.round + 1)
            = Latest(circle.current_round, e.round + 1)
      BY Zenon DEF Abstract!Later, Latest
    <3>3. Abstract!ApplyContribution(e)
      BY <3>1, <3>2, Zenon DEF Abstract!ApplyContribution, Credited, Paid
    <3> QED BY <3>1, <3>3 DEF Abstract!Next
  <2>2. ASSUME NEW w \in Workers, CommitPayout(w) PROVE Abstract!Next
    <3> DEFINE e == AsEvent(worker[w].row)
    <3>1. /\ e \in Payouts \ Paid /\ Paid' = Paid \cup {e} /\ Credited' = Credited
          /\ circle'.total_contributions = circle.total_contributions
          /\ circle'.reported = circle.reported
          /\ circle'.current_round = Latest(circle.current_round, e.round + 1)
      BY <2>2, CommitPayoutStep, Zenon
    <3> HIDE DEF e
    <3>2. Abstract!Later(circle.current_round, e.round + 1)
            = Latest(circle.current_round, e.round + 1)
      BY Zenon DEF Abstract!Later, Latest
    <3>3. Abstract!ApplyPayout(e)
      BY <3>1, <3>2 DEF Abstract!ApplyPayout, Credited, Paid
    <3> QED BY <3>1, <3>3 DEF Abstract!Next
  <2>3. ASSUME NEW x \in Editors, EditorStep(x) PROVE Abstract!Next
    <3>1. IInv' /\ UNCHANGED <<Credited, Paid>>
      BY <2>3, EditorSteps, Zenon
    <3>2. /\ circle' \in Counters /\ circle'.current_round \in Reached'
          /\ circle'.total_contributions <= circle'.reported + Cardinality(Credited')
          /\ IsFiniteSet(Credited')
      BY <3>1, Zenon DEF IInv, TypeOK, Copies, Sound
    <3>3. circle'.current_round \in Abstract!Reached
      BY <3>1, <3>2, Zenon DEF Reached, Abstract!Reached, Credited, Paid
    <3>4. /\ circle'.total_contributions \in Nat
          /\ circle'.reported \in EventTotals \cup {0}
      BY <3>2, Zenon DEF Counters
    <3>5. \A t \in EventTotals \cup {0} : t \in Nat
      BY BoundsAssumption
    <3>6. Cardinality(Credited) \in Nat /\ Cardinality(Credited') = Cardinality(Credited)
      BY <3>1, RowTypesHeld, Zenon
    <3>7. circle'.total_contributions \in 0..(circle'.reported + Cardinality(Credited))
      BY <3>2, <3>4, <3>5, <3>6
    <3>8. Abstract!Overwrite
      BY <3>1, <3>3, <3>4, <3>7, SameCardinality DEF Abstract!Overwrite, Credited, Paid
    <3> QED BY <3>8 DEF Abstract!Next
  <2>4. CASE UNCHANGED <<circle, Credited, Paid>>
    BY <2>4, Zenon DEF Abstract!vars, Credited, Paid
  <2> QED BY <2>1, <2>2, <2>3, <2>4, StepKinds
<1> QED
  BY <1>1, <1>2, Invariant, PTL DEF Spec, RefinesCounters, Abstract!Spec
=============================================================================
