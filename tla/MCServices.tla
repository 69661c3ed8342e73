----------------------------- MODULE MCServices ------------------------------
(* The components that deliver things and those they stand on: the job queue, the*)
(* WebSocket hub, notifications, webhooks, chat, the backfill of notices, the*)
(* outbox; the circuit breaker, contract calls and versions, dead letters,  *)
(* migrations, rate limits, the life of the server; and communities.        *)
(* A behaviour is about one part.  The variables of that part are held in   *)
(* v1, v2, ..., in the order the part declares them; those left over are 0. *)
EXTENDS JobQueue, CircuitBreaker, TLC

CONSTANTS q1, q2, u1, u2

VARIABLES part, v1, v2, v3, v4, v5, v6, v7, v8, v9, v10, v11, v12, v13, v14, v15, v16,
  v17, v18, v19

Notices == <<"circle.joined", "circle.payout", "circle.archived", "contribution.made",
             "invite.received">>
Facts == <<[type |-> "MemberJoined", readable |-> TRUE],
           [type |-> "CircleArchived", readable |-> TRUE],
           [type |-> "CircleStatusChanged", readable |-> TRUE],
           [type |-> "MemberJoined", readable |-> FALSE]>>

(* Four migrations, the middle ones with the same prefix; the first of them *)
(* has no way back.                                                         *)
Steps == << <<1, 1>>, <<2, 1>>, <<2, 2>>, <<3, 1>> >>

Rt == INSTANCE Realtime WITH
  Conns <- {1, 2}, Users <- {"u"}, UserOf <- [c \in {1, 2} |-> "u"], BufferSize <- 1,
  QueueSize <- 1, MaxRate <- 1, MaxMissed <- 1, MaxMsgs <- 1, MaxChanges <- 0,
  auth <- v1, member <- v2, changes <- v3, registered <- v4, gauge <- v5, room <- v6,
  closed <- v7, conn <- v8, reading <- v9, writing <- v10, closing <- v11, missed <- v12,
  buf <- v13, sent <- v14, pub <- v15, queue <- v16, relayed <- v17, audit <- v18,
  stop <- v19
Nt == INSTANCE Notifications WITH
  MaxEvents <- 3, MaxDigestBatchSize <- 2, Intervals <- {2}, MaxDbErrors <- 1,
  MaxChanges <- 1, prefs <- v1, changes <- v2, made <- v3, bucket <- v4, taken <- v5,
  rows <- v6, flags <- v7, sending <- v8, accepted <- v9, records <- v10, lost <- v11,
  dbErrors <- v12
Wh == INSTANCE WebhookDispatch WITH
  Hooks <- {q1, q2}, Payloads <- {"p1"}, MaxConcurrency <- 1, maxRetries <- 3,
  HasJobQueue <- TRUE, hooks <- v1, call <- v2, go <- v3, jobs <- v4, sent <- v5,
  got <- v6, closed <- v7, stop <- v8, waited <- v9
Ch == INSTANCE Chat WITH
  Clients <- {q1, q2}, KeyIds <- {1, 2}, Pools <- {{1, 2}}, MaxGen <- 2, MaxBundles <- 2,
  Users <- {1, 2}, MaxMsgs <- 3, PageLimit <- 1, MaxDbErrors <- 1, identity <- v1, signed <- v2, opk <- v3,
  opkLock <- v4, handed <- v5, gen <- v6, req <- v7, dbErrors <- v8, convs <- v9,
  convLock <- v10, messages <- v11
Ob == INSTANCE Outbox WITH
  Saved <- Facts, Relays <- {q1, q2}, limit <- 2, MaxFaults <- 2, table <- v1,
  inHand <- v2, sent <- v3, heard <- v4, faults <- v5, deaf <- v6
Cc == INSTANCE ContractCalls WITH
  Calls <- {q1, q2}, Managers <- {u1, u2}, MaxRetries <- 1, MaxLapses <- 1,
  MaxFaults <- 2, MaxResets <- 1, redis <- v1, chain <- v2, mgr <- v3, seqLock <- v4,
  call <- v5, envelope <- v6, lapses <- v7, faults <- v8, resets <- v9
Rc == INSTANCE IndexerRecords WITH
  Processors <- {q1, q2}, ttl <- 3, failureTTL <- 1, MaxDelay <- 1, MaxVersion <- 3,
  MaxTime <- 6, now <- v1, deployed <- v2, replaced <- v3, entry <- v4, lookup <- v5,
  failedAt <- v6, row <- v7,
  Txns <- {q1, q2}, Admins <- {u1, u2}, Limits <- {0, 2, 3}, DefaultLimit <- 1,
  MaxLimit <- 2, MaxFailures <- 3, rows <- v8, view <- v9, step <- v10, failed <- v11,
  latest <- v12,
  Events <- Notices, batchSize <- 2, MaxRefusals <- 3, checkpoint <- v13, batch <- v14,
  jobState <- v15, notified <- v16, tried <- v17, failures <- v18
Mg == INSTANCE Migrations WITH
  Files <- Steps, Irreversible <- {<<2, 1>>}, Legacy <- {1, 2}, Runners <- {q1, q2},
  MaxRuns <- 3, rows <- v1, schema <- v2, lock <- v3, run <- v4, started <- v5,
  legacy <- v6
Rl == INSTANCE RateLimit WITH
  Requests <- {q1, q2}, Window <- 3, Limits <- {0, 1, 2}, StartLimit <- 1,
  Options <- {"none", "failOpen"}, CfgFailClosed <- TRUE, MaxDelay <- 1, MaxTime <- 5,
  MaxReloads <- 1, route <- v1, clock <- v2, zset <- v3, memory <- v4, live <- v5,
  redisUp <- v6, req <- v7, admitted <- v8, reloads <- v9
Lf == INSTANCE ServerLifecycle WITH
  Requests <- {q1}, Loops <- {"cleaner"}, MaxFaults <- 1, phase <- v1,
  hook <- v2, shuttingDown <- v3, deadline <- v4, forced <- v5, req <- v6, loop <- v7,
  stopping <- v8, abandoned <- v9, pools <- v10, dep <- v11, probe <- v12,
  unhealthy <- v13, answer <- v14, faults <- v15
Cf == INSTANCE Community WITH
  Users <- {u1, u2}, Requests <- {q1, q2}, Posts <- {}, MaxDbErrors <- 1, MaxLikes <- 0,
  comm <- v1, members <- v2, posts <- v3, req <- v4, dbErrors <- v5
Cp == INSTANCE Community WITH
  Users <- {u1, u2}, Requests <- {q1}, Posts <- {"p1"}, MaxDbErrors <- 1, MaxLikes <- 1,
  comm <- v1, members <- v2, posts <- v3, req <- v4, dbErrors <- v5

slots == <<v1, v2, v3, v4, v5, v6, v7, v8, v9, v10, v11, v12, v13, v14, v15, v16, v17,
  v18, v19>>

PartInit ==
  /\ Init
  /\ BreakerInit
  /\ \/ part = "jobs" /\ v1 = 0 /\ v2 = 0 /\ v3 = 0 /\ v4 = 0 /\ v5 = 0 /\ v6 = 0
        /\ v7 = 0 /\ v8 = 0 /\ v9 = 0 /\ v10 = 0 /\ v11 = 0 /\ v12 = 0 /\ v13 = 0
        /\ v14 = 0 /\ v15 = 0 /\ v16 = 0 /\ v17 = 0 /\ v18 = 0 /\ v19 = 0
     \/ part = "realtime" /\ Rt!RealtimeInit
     \/ part = "notes" /\ Nt!NoteInit /\ v13 = 0 /\ v14 = 0 /\ v15 = 0 /\ v16 = 0
        /\ v17 = 0 /\ v18 = 0 /\ v19 = 0
     \/ part = "hooks" /\ Wh!HookInit /\ v10 = 0 /\ v11 = 0 /\ v12 = 0 /\ v13 = 0
        /\ v14 = 0 /\ v15 = 0 /\ v16 = 0 /\ v17 = 0 /\ v18 = 0 /\ v19 = 0
     \/ part = "chatKeys" /\ Ch!ChatKeysInit /\ v9 = 0 /\ v10 = 0 /\ v11 = 0 /\ v12 = 0
        /\ v13 = 0 /\ v14 = 0 /\ v15 = 0 /\ v16 = 0 /\ v17 = 0 /\ v18 = 0 /\ v19 = 0
     \/ part = "chat" /\ Ch!ChatInit /\ v1 = 0 /\ v2 = 0 /\ v3 = 0 /\ v4 = 0 /\ v5 = 0
        /\ v6 = 0 /\ v12 = 0 /\ v13 = 0 /\ v14 = 0 /\ v15 = 0 /\ v16 = 0 /\ v17 = 0
        /\ v18 = 0 /\ v19 = 0
     \/ part = "backfill" /\ Rc!BackfillInit /\ v1 = 0 /\ v2 = 0 /\ v3 = 0 /\ v4 = 0
        /\ v5 = 0 /\ v6 = 0 /\ v7 = 0 /\ v8 = 0 /\ v9 = 0 /\ v10 = 0 /\ v11 = 0
        /\ v12 = 0 /\ v19 = 0
     \/ part = "outbox" /\ Ob!OutboxInit /\ v7 = 0 /\ v8 = 0 /\ v9 = 0
        /\ v10 = 0 /\ v11 = 0 /\ v12 = 0 /\ v13 = 0 /\ v14 = 0 /\ v15 = 0 /\ v16 = 0
        /\ v17 = 0 /\ v18 = 0 /\ v19 = 0
     \/ part = "breaker" /\ v1 = 0 /\ v2 = 0 /\ v3 = 0 /\ v4 = 0 /\ v5 = 0 /\ v6 = 0
        /\ v7 = 0 /\ v8 = 0 /\ v9 = 0 /\ v10 = 0 /\ v11 = 0 /\ v12 = 0 /\ v13 = 0
        /\ v14 = 0 /\ v15 = 0 /\ v16 = 0 /\ v17 = 0 /\ v18 = 0 /\ v19 = 0
     \/ part = "calls" /\ Cc!CallInit /\ v10 = 0 /\ v11 = 0 /\ v12 = 0 /\ v13 = 0
        /\ v14 = 0 /\ v15 = 0 /\ v16 = 0 /\ v17 = 0 /\ v18 = 0 /\ v19 = 0
     \/ part = "versions" /\ Rc!VersionInit /\ v8 = 0 /\ v9 = 0 /\ v10 = 0 /\ v11 = 0
        /\ v12 = 0 /\ v13 = 0 /\ v14 = 0 /\ v15 = 0 /\ v16 = 0 /\ v17 = 0 /\ v18 = 0
        /\ v19 = 0
     \/ part = "letters" /\ Rc!LetterInit /\ v1 = 0 /\ v2 = 0 /\ v3 = 0 /\ v4 = 0
        /\ v5 = 0 /\ v6 = 0 /\ v7 = 0 /\ v13 = 0 /\ v14 = 0 /\ v15 = 0 /\ v16 = 0
        /\ v17 = 0 /\ v18 = 0 /\ v19 = 0
     \/ part = "migrations" /\ Mg!MigrateInit /\ v7 = 0 /\ v8 = 0 /\ v9 = 0
        /\ v10 = 0 /\ v11 = 0 /\ v12 = 0 /\ v13 = 0 /\ v14 = 0 /\ v15 = 0 /\ v16 = 0
        /\ v17 = 0 /\ v18 = 0 /\ v19 = 0
     \/ part = "limits" /\ Rl!LimitInit /\ v10 = 0 /\ v11 = 0 /\ v12 = 0 /\ v13 = 0 /\ v14 = 0
        /\ v15 = 0 /\ v16 = 0 /\ v17 = 0 /\ v18 = 0 /\ v19 = 0
     \/ part = "life" /\ Lf!LifeInit /\ v16 = 0 /\ v17 = 0 /\ v18 = 0 /\ v19 = 0
     \/ part = "failing" /\ Cf!CommunityInit /\ v6 = 0 /\ v7 = 0 /\ v8 = 0 /\ v9 = 0
        /\ v10 = 0 /\ v11 = 0 /\ v12 = 0 /\ v13 = 0 /\ v14 = 0 /\ v15 = 0 /\ v16 = 0
        /\ v17 = 0 /\ v18 = 0 /\ v19 = 0
     \/ part = "posting" /\ Cp!CommunityInit /\ v6 = 0 /\ v7 = 0 /\ v8 = 0 /\ v9 = 0
        /\ v10 = 0 /\ v11 = 0 /\ v12 = 0 /\ v13 = 0 /\ v14 = 0 /\ v15 = 0 /\ v16 = 0
        /\ v17 = 0 /\ v18 = 0 /\ v19 = 0

PartNext ==
  \/ part = "jobs" /\ Next /\ UNCHANGED <<part, cbVars, slots>>
  \/ part = "realtime" /\ Rt!RealtimeNext /\ UNCHANGED <<part, vars, cbVars>>
  \/ /\ part = "notes" /\ Nt!NoteNext
     /\ UNCHANGED <<part, vars, cbVars, v13, v14, v15, v16, v17, v18, v19>>
  \/ /\ part = "hooks" /\ Wh!HookNext
     /\ UNCHANGED <<part, vars, cbVars, v10, v11, v12, v13, v14, v15, v16, v17, v18,
        v19>>
  \/ /\ part = "chatKeys" /\ Ch!ChatKeysNext
     /\ UNCHANGED <<part, vars, cbVars, v9, v10, v11, v12, v13, v14, v15, v16, v17, v18,
        v19>>
  \/ /\ part = "chat" /\ Ch!ChatNext
     /\ UNCHANGED <<part, vars, cbVars, v1, v2, v3, v4, v5, v6, v12, v13, v14, v15,
        v16, v17, v18, v19>>
  \/ /\ part = "backfill" /\ Rc!BackfillNext
     /\ UNCHANGED <<part, vars, cbVars, v1, v2, v3, v4, v5, v6, v7, v8, v9, v10,
        v11, v12, v19>>
  \/ /\ part = "outbox" /\ Ob!OutboxNext
     /\ UNCHANGED <<part, vars, cbVars, v7, v8, v9, v10, v11, v12, v13, v14, v15,
        v16, v17, v18, v19>>
  \/ part = "breaker" /\ BreakerNext /\ UNCHANGED <<part, vars, slots>>
  \/ /\ part = "calls" /\ Cc!CallNext
     /\ UNCHANGED <<part, vars, cbVars, v10, v11, v12, v13, v14, v15, v16, v17, v18,
        v19>>
  \/ /\ part = "versions" /\ Rc!VersionNext
     /\ UNCHANGED <<part, vars, cbVars, v8, v9, v10, v11, v12, v13, v14, v15, v16, v17,
        v18, v19>>
  \/ /\ part = "letters" /\ Rc!LetterNext
     /\ UNCHANGED <<part, vars, cbVars, v1, v2, v3, v4, v5, v6, v7, v13, v14, v15,
        v16, v17, v18, v19>>
  \/ /\ part = "migrations" /\ Mg!MigrateNext
     /\ UNCHANGED <<part, vars, cbVars, v7, v8, v9, v10, v11, v12, v13, v14, v15,
        v16, v17, v18, v19>>
  \/ /\ part = "limits" /\ Rl!LimitNext
     /\ UNCHANGED <<part, vars, cbVars, v10, v11, v12, v13, v14, v15, v16, v17, v18, v19>>
  \/ part = "life" /\ Lf!LifeNext /\ UNCHANGED <<part, vars, cbVars, v16, v17, v18, v19>>
  \/ /\ part = "failing" /\ Cf!CommunityNext
     /\ UNCHANGED <<part, vars, cbVars, v6, v7, v8, v9, v10, v11, v12, v13, v14, v15,
        v16, v17, v18, v19>>
  \/ /\ part = "posting" /\ Cp!CommunityNext
     /\ UNCHANGED <<part, vars, cbVars, v6, v7, v8, v9, v10, v11, v12, v13, v14, v15,
        v16, v17, v18, v19>>

partVars == <<part, vars, cbVars, slots>>

PartSpec == PartInit /\ [][PartNext]_partVars

Symmetric == Permutations({q1, q2}) \cup Permutations({u1, u2})

(* Every table, key, frame and counter of the components keeps its type. *)
PartsTypeOK ==
  /\ part = "jobs" => TypeOK
  /\ part = "realtime" => Rt!RealtimeTypeOK
  /\ part = "notes" => Nt!NoteTypeOK
  /\ part = "hooks" => Wh!HookTypeOK
  /\ part = "chatKeys" => Ch!ChatKeysTypeOK
  /\ part = "chat" => Ch!ChatTypeOK
  /\ part = "backfill" => Rc!BackfillTypeOK
  /\ part = "outbox" => Ob!OutboxTypeOK
  /\ part = "breaker" => BreakerTypeOK
  /\ part = "calls" => Cc!CallTypeOK
  /\ part = "versions" => Rc!VersionTypeOK
  /\ part = "letters" => Rc!LetterTypeOK
  /\ part = "migrations" => Mg!MigrateTypeOK
  /\ part = "limits" => Rl!LimitTypeOK
  /\ part = "life" => Lf!LifeTypeOK
  /\ part = "failing" => Cf!CommunityTypeOK
  /\ part = "posting" => Cp!CommunityTypeOK

(* What is handed out or sent is not handed out again without a reason: an *)
(* event is shown in one digest (TakeDue) and notified once by the         *)
(* backfill; a target gets a payload's retries from the job or from        *)
(* memory, never from both; a one-time prekey goes to one initiator;       *)
(* messages of a conversation are numbered 1, 2, 3 ... in the order they   *)
(* were stored; a process gets no sequence number twice while its lock     *)
(* holds; an outbox event is broadcast again only by a relay that fetched  *)
(* it before it was marked, or after a fault.                              *)
AtMostOnce ==
  /\ part = "notes" => Nt!ShownOnce
  /\ part = "backfill" => Rc!NotifiedOnce
  /\ part = "hooks" => Wh!SendsBounded
  /\ part = "chatKeys" => Ch!PreKeyOnce
  /\ part = "chat" => Ch!NumberedInOrder
  /\ part = "calls" => Cc!OwnNumbersDistinct
  /\ part = "outbox" => Ob!RepeatsExplained

(* Nothing that was accepted disappears silently: an event is in the       *)
(* table, buffered, being flushed, or lost with a failed insert or the     *)
(* process; a completed backfill skipped only what the store refused; a    *)
(* delivery is given up after maxRetries sends or at Shutdown's deadline;  *)
(* a readable outbox event leaves the pending rows after its broadcast if  *)
(* every relay has a broadcaster; a reader who walks a conversation        *)
(* backwards sees every message once; a dead letter is in the backlog      *)
(* exactly when its last failure is later than its last resolution, and    *)
(* counts all of its failures.                                             *)
NothingDropped ==
  /\ part = "notes" => Nt!Accounted
  /\ part = "backfill" => Rc!OnlyFailedSkipped
  /\ part = "hooks" => Wh!NotGivenUpEarly
  /\ part = "outbox" => Ob!SavedIsSent
  /\ part = "chat" => Ch!WalkComplete
  /\ part = "letters" => Rc!BacklogExact /\ Rc!AttemptsSurvive

(* What is reported is true: a delivery recorded as sent was taken and a   *)
(* skipped one never offered; ExecuteContractCall reports what the ledger  *)
(* did, whatever answers were lost; a probe answers 200 only if no         *)
(* dependency that matters was down throughout; and the two sides of a     *)
(* handshake derive one secret from a bundle, whatever was published while *)
(* it was put together, exactly when its one-time prekey is absent or well *)
(* formed.                                                                 *)
AnswersTrue ==
  /\ part = "notes" => Nt!RecordTrue
  /\ part = "calls" => Cc!ResultIsLedgers
  /\ part = "life" => Lf!ProbeHonest
  /\ part = "chatKeys" => Ch!HandshakeAgrees

(* Promises with a length of time hold: a window has no more requests      *)
(* admitted by Redis than the largest limit one of them was checked        *)
(* against (a late pipeline shortens the window by its delay), the         *)
(* in-memory fallback keeps the whole window; a recorded contract version  *)
(* was current within one cache lifetime and one lookup, and "unknown" is  *)
(* recorded only within the failure window of a lookup that failed.        *)
WindowsHold ==
  /\ part = "limits" => Rl!WindowHolds /\ Rl!MemoryWindowHolds
  /\ part = "versions" => Rc!VersionStaleBounded /\ Rc!UnknownIsRecent

(* A change of several steps is whole wherever it was stopped: the schema  *)
(* has the migrations schema_migrations says, in order, and no run applies *)
(* or reverts one twice, but for files that one row of the older runner    *)
(* stands for together; a community's member_count is its members when no  *)
(* request is between its statements, unless the last two counts           *)
(* overlapped; only the owner (or one being demoted) is admin, and a       *)
(* failed Create leaves no live community.                                 *)
ChangesWhole ==
  /\ part = "migrations" => Mg!RecordIsSchema /\ Mg!InOrder /\ Mg!PlanCurrent
  /\ part = "failing" => Cf!CountIsMembers /\ Cf!AdminIsOwner /\ Cf!CreateAllOrNothing
  /\ part = "posting" => Cp!CountIsMembers /\ Cp!AdminIsOwner /\ Cp!CreateAllOrNothing

(* Several parties end the same thing, in any order, and it ends once: a   *)
(* room holds registered clients only, a registered client has a ReadPump  *)
(* to unregister it and the gauge is exact although pumps, evictions and   *)
(* the shutdown unregister the same client; after Shutdown none is         *)
(* registered; and no pool is closed under a request that was not cut off  *)
(* or a loop whose pass did not outlive the wait of its Stop (CloseLast).  *)
StopsCleanly ==
  /\ part = "realtime" => Rt!HubConsistent /\ Rt!DownIsEmpty
  /\ part = "life" => Lf!PoolsOutliveWork
==============================================================================
