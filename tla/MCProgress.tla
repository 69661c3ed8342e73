----------------------------- MODULE MCProgress ------------------------------
(* Small instances of the components in which something must eventually happen,*)
(* each under the fairness of its own module.                               *)
(* A behaviour is about one part.  The variables of that part are held in   *)
(* v1, v2, ..., in the order the part declares them; those left over are 0. *)
EXTENDS Integers, Sequences

VARIABLES part, v1, v2, v3, v4, v5, v6, v7, v8, v9, v10, v11, v12, v13, v14, v15, v16,
  v17, v18, v19

Ix == INSTANCE IndexerEngine WITH
  Txns <- {"t1"}, NoTxn <- "-", BatchSize <- 2, Window <- 2, Batch <- 1,
  MaxPerCycle <- 1, MaxLedgers <- 2, MaxReorgs <- 1, MaxFaults <- 0, MaxSkips <- 0,
  MaxCrashes <- 0, chain <- v1, cursor <- v2, events <- v3, frame <- v4, dedup <- v5,
  history <- v6, reorgs <- v7, faults <- v8, skips <- v9, crashes <- v10
Ir == INSTANCE IndexerEngine WITH
  Txns <- {"t1"}, NoTxn <- "-", BatchSize <- 2, Window <- 2, Batch <- 1,
  MaxPerCycle <- 2, MaxLedgers <- 2, MaxReorgs <- 0, MaxFaults <- 0, MaxSkips <- 0,
  MaxCrashes <- 1, chain <- v1, cursor <- v2, events <- v3, frame <- v4, dedup <- v5,
  history <- v6, reorgs <- v7, faults <- v8, skips <- v9, crashes <- v10
Jq == INSTANCE JobQueue WITH
  Jobs <- {"j1", "j2"}, Workers <- {"w1", "w2"}, MaxRetries <- 3, NoJob <- "-",
  MaxAdmin <- 1, MaxCrashes <- 1, MaxErrors <- 1, job <- v1, worker <- v2, runs <- v3,
  admin <- v4, crashes <- v5, errors <- v6
Sw == INSTANCE SwapOffer WITH
  Requests <- {"q1", "q2"}, Sweepers <- {"s1", "s2"}, MaxErrors <- 1, MaxLost <- 1,
  MaxDbErrors <- 1, MaxCrashes <- 1, status <- v1, escrow <- v2, expired <- v3, at <- v4,
  errors <- v5, lost <- v6, dbErrors <- v7, crashes <- v8
Mm == INSTANCE MobileMoney WITH
  Replicas <- {"a", "b"}, NoReplica <- "-", TTL <- 3, MaxMissed <- 2, Ramps <- {"q1"},
  RampKeys <- {"k1"}, NoRamp <- "-", MaxPollErrors <- 1, MaxDeaths <- 1, holder <- v1,
  lease <- v2, due <- v3, missed <- v4, ramp <- v5, ramped <- v6, old <- v7, prov <- v8,
  pass <- v9, pollErrors <- v10, deaths <- v11
Rt == INSTANCE Realtime WITH
  Conns <- {1}, Users <- {"u"}, UserOf <- [c \in {1} |-> "u"], BufferSize <- 1,
  QueueSize <- 1, MaxRate <- 1, MaxMissed <- 1, MaxMsgs <- 1, MaxChanges <- 1,
  auth <- v1, member <- v2, changes <- v3, registered <- v4, gauge <- v5, room <- v6,
  closed <- v7, conn <- v8, reading <- v9, writing <- v10, closing <- v11, missed <- v12,
  buf <- v13, sent <- v14, pub <- v15, queue <- v16, relayed <- v17, audit <- v18,
  stop <- v19
Nt == INSTANCE Notifications WITH
  MaxEvents <- 2, MaxDigestBatchSize <- 2, Intervals <- {2}, MaxDbErrors <- 1,
  MaxChanges <- 1, prefs <- v1, changes <- v2, made <- v3, bucket <- v4, taken <- v5,
  rows <- v6, flags <- v7, sending <- v8, accepted <- v9, records <- v10, lost <- v11,
  dbErrors <- v12
Lf == INSTANCE ServerLifecycle WITH
  Requests <- {"q1"}, Loops <- {"flusher"}, MaxFaults <- 0, phase <- v1, hook <- v2,
  shuttingDown <- v3, deadline <- v4, forced <- v5, req <- v6, loop <- v7,
  stopping <- v8, abandoned <- v9, pools <- v10, dep <- v11, probe <- v12,
  unhealthy <- v13, answer <- v14, faults <- v15

slots == <<v1, v2, v3, v4, v5, v6, v7, v8, v9, v10, v11, v12, v13, v14, v15, v16, v17,
  v18, v19>>

PartInit ==
  \/ part = "indexer" /\ Ix!Init /\ v11 = 0 /\ v12 = 0 /\ v13 = 0 /\ v14 = 0 /\ v15 = 0
     /\ v16 = 0 /\ v17 = 0 /\ v18 = 0 /\ v19 = 0
  \/ part = "restarts" /\ Ir!Init /\ v11 = 0 /\ v12 = 0 /\ v13 = 0 /\ v14 = 0 /\ v15 = 0
     /\ v16 = 0 /\ v17 = 0 /\ v18 = 0 /\ v19 = 0
  \/ part = "jobs" /\ Jq!Init /\ v7 = 0 /\ v8 = 0 /\ v9 = 0 /\ v10 = 0 /\ v11 = 0
     /\ v12 = 0 /\ v13 = 0 /\ v14 = 0 /\ v15 = 0 /\ v16 = 0 /\ v17 = 0 /\ v18 = 0
     /\ v19 = 0
  \/ part = "swap" /\ Sw!Init /\ v9 = 0 /\ v10 = 0 /\ v11 = 0 /\ v12 = 0 /\ v13 = 0
     /\ v14 = 0 /\ v15 = 0 /\ v16 = 0 /\ v17 = 0 /\ v18 = 0 /\ v19 = 0
  \/ part = "mobile" /\ Mm!MobileInit /\ v12 = 0 /\ v13 = 0 /\ v14 = 0 /\ v15 = 0
     /\ v16 = 0 /\ v17 = 0 /\ v18 = 0 /\ v19 = 0
  \/ part = "realtime" /\ Rt!RealtimeInit
  \/ part = "notes" /\ Nt!NoteInit /\ v13 = 0 /\ v14 = 0 /\ v15 = 0 /\ v16 = 0
     /\ v17 = 0 /\ v18 = 0 /\ v19 = 0
  \/ part = "life" /\ Lf!LifeInit /\ v16 = 0 /\ v17 = 0 /\ v18 = 0 /\ v19 = 0

PartNext ==
  \/ /\ part = "indexer" /\ Ix!Next
     /\ UNCHANGED <<part, v11, v12, v13, v14, v15, v16, v17, v18, v19>>
  \/ /\ part = "restarts" /\ Ir!Next
     /\ UNCHANGED <<part, v11, v12, v13, v14, v15, v16, v17, v18, v19>>
  \/ /\ part = "jobs" /\ Jq!Next
     /\ UNCHANGED <<part, v7, v8, v9, v10, v11, v12, v13, v14, v15, v16, v17, v18, v19>>
  \/ /\ part = "swap" /\ Sw!Next
     /\ UNCHANGED <<part, v9, v10, v11, v12, v13, v14, v15, v16, v17, v18, v19>>
  \/ /\ part = "mobile" /\ Mm!MobileNext
     /\ UNCHANGED <<part, v12, v13, v14, v15, v16, v17, v18, v19>>
  \/ part = "realtime" /\ Rt!RealtimeNext /\ UNCHANGED part
  \/ part = "notes" /\ Nt!NoteNext /\ UNCHANGED <<part, v13, v14, v15, v16, v17, v18, v19>>
  \/ part = "life" /\ Lf!LifeNext /\ UNCHANGED <<part, v16, v17, v18, v19>>

partVars == <<part, slots>>

PartSpec == PartInit /\ [][PartNext]_partVars

(* The processes that are scheduled fairly, at most five in each part: those of *)
(* the fairness condition of its module.                                        *)
Process(k) ==
  \/ /\ part = "indexer"
     /\ \/ k = 1 /\ (Ix!LoopStep("engine") \/ Ix!EngineStep)
        \/ k = 2 /\ Ix!LoopStep("reconciler")
     /\ UNCHANGED <<part, v11, v12, v13, v14, v15, v16, v17, v18, v19>>
  \/ /\ part = "restarts"
     /\ \/ k = 1 /\ (Ir!LoopStep("engine") \/ Ir!EngineStep)
        \/ k = 2 /\ Ir!LoopStep("reconciler")
     /\ UNCHANGED <<part, v11, v12, v13, v14, v15, v16, v17, v18, v19>>
  \/ /\ part = "jobs"
     /\ \/ k = 1 /\ Jq!WorkerStep("w1")
        \/ k = 2 /\ Jq!WorkerStep("w2")
        \/ k = 3 /\ Jq!BecomeDue("j1")
        \/ k = 4 /\ Jq!BecomeDue("j2")
     /\ UNCHANGED <<part, v7, v8, v9, v10, v11, v12, v13, v14, v15, v16, v17, v18, v19>>
  \/ /\ part = "swap"
     /\ \/ k = 1 /\ Sw!Ongoing("q1")
        \/ k = 2 /\ Sw!Ongoing("q2")
        \/ k = 3 /\ Sw!Sweep("s1")
        \/ k = 4 /\ Sw!Sweep("s2")
        \/ k = 5 /\ Sw!Expire
     /\ UNCHANGED <<part, v9, v10, v11, v12, v13, v14, v15, v16, v17, v18, v19>>
  \/ /\ part = "mobile"
     /\ \/ k = 1 /\ Mm!PassStep("a")
        \/ k = 2 /\ Mm!PassStep("b")
        \/ k = 3 /\ Mm!Renew("a")
        \/ k = 4 /\ Mm!Renew("b")
        \/ k = 5 /\ Mm!Tick
     /\ UNCHANGED <<part, v12, v13, v14, v15, v16, v17, v18, v19>>
  \/ /\ part = "realtime"
     /\ k = 1 /\ Rt!Audits
     /\ UNCHANGED <<part>>
  \/ /\ part = "notes"
     /\ k = 1 /\ Nt!Flusher
     /\ UNCHANGED <<part, v13, v14, v15, v16, v17, v18, v19>>
  \/ /\ part = "life"
     /\ \/ k = 1 /\ Lf!RunServerWithHooks
        \/ k = 2 /\ Lf!Expire
        \/ k = 3 /\ Lf!LoopRuns("flusher")
     /\ UNCHANGED <<part, v16, v17, v18, v19>>

PartFairSpec == PartSpec /\ \A k \in 1..5 : WF_partVars(Process(k))

(* Once the chain stays as it is, the cursor reaches its last ledger and   *)
(* stays there, also after a rollback or a restart.                        *)
CursorCatchesUp == <>[](part \in {"indexer", "restarts"} => Ix!CaughtUp)

(* Work that was accepted is finished.  Every job is done or given up, as  *)
(* long as no worker dies with it and every outcome is recorded.  An offer *)
(* nobody takes is settled after it expires, also after a failed escrow    *)
(* call, as long as nothing crashes, no answer is lost and FinalizeSweep's *)
(* statement works.  An on-ramp the provider has settled is settled in the *)
(* table, across lost statements, dead passes and expired locks.  A        *)
(* buffered event is summarised, or lost, once its cadence has elapsed.    *)
WorkSettles ==
  /\ \A j \in {"j1", "j2"} :
       (part = "jobs" /\ Jq!Awaited(j)) ~> (part = "jobs" /\ Jq!Settled(j))
  /\ (part = "swap" /\ Sw!Open) ~> (part = "swap" /\ Sw!Closed)
  /\ (part = "mobile" /\ Mm!OnrampDue("q1")) ~> (part = "mobile" /\ Mm!Settled("q1"))
  /\ \A e \in 1..2 :
       (part = "notes" /\ Nt!Buffered(e)) ~> (part = "notes" /\ Nt!Ended(e))

(* What is told to end ends.  With an authorizer, a client whose           *)
(* membership was revoked does not stay in the room: the auditor puts it   *)
(* out, unless it is admitted again.  Every stage of Shutdown runs even    *)
(* when an earlier one times out, so the pools are closed in the end.      *)
EndingsHappen ==
  /\ (part = "realtime" /\ Rt!Revoked(1)) ~> (part = "realtime" /\ ~Rt!Revoked(1))
  /\ (part = "life" /\ Lf!ShutdownBegun) ~> (part = "life" /\ Lf!AllClosed)
==============================================================================
