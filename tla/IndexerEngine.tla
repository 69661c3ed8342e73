---------------------------- MODULE IndexerEngine ----------------------------
(***************************************************************************)
(* The indexer process: the engine's poll loop and the reconciler's loop,  *)
(* each with its own deduplicator, reading Horizon and writing the         *)
(* contract_events log and the one indexer_cursor row.  The engine also    *)
(* keeps a bounded history of ledger hashes and rolls back when the chain  *)
(* it indexed was replaced.                                                *)
(*                                                                         *)
(* Each database statement and each Horizon request is a step of its own.  *)
(* Horizon (external) is its answers: a sequence of ledgers that grows and *)
(* whose end may be replaced.  The transactions of a ledger that pass      *)
(* FilterByContract are a set; what their events do to a circle is in      *)
(* CircleService and ContributionLedger.                                   *)
(***************************************************************************)
EXTENDS Integers, Sequences, FiniteSets, Functions

CONSTANTS
  Txns,         \* transactions of the indexed contracts
  NoTxn,        \* no transaction in hand
  BatchSize,    \* cfg.Indexer.BatchSize
  Window,       \* cfg.Indexer.ReorgWindow
  Batch,        \* Reconciler.batchSize
  MaxPerCycle,  \* Reconciler.maxLedgersPerCycle
  MaxLedgers,   \* bound: ledgers the chain closes
  MaxReorgs,    \* bound: replaced ends of the chain
  MaxFaults,    \* bound: errors that end a cycle
  MaxSkips,     \* bound: errors the code logs and steps over
  MaxCrashes    \* bound: restarts of the process

ASSUME SizesAssumption == {BatchSize, Window, Batch, MaxPerCycle} \subseteq Nat \ {0}
ASSUME TxnsAssumption == NoTxn \notin Txns
ASSUME BoundsAssumption == {MaxLedgers, MaxReorgs, MaxFaults, MaxSkips, MaxCrashes} \subseteq Nat

VARIABLES
  chain,    \* Horizon's ledgers: [hash, txns]
  cursor,   \* indexer_cursor.last_ledger
  events,   \* contract_events rows: [txn, ledger]
  frame,    \* each loop's progress
  dedup,    \* each loop's Deduplicator
  history,  \* the engine's LedgerHistory: sequence -> hash
  reorgs, faults, skips, crashes

vars == <<chain, cursor, events, frame, dedup, history,
          reorgs, faults, skips, crashes>>
external == <<chain, reorgs>>
tables == <<cursor, events>>
counts == <<faults, skips, crashes>>

Loops == {"engine", "reconciler"}
Smaller(a, b) == IF a <= b THEN a ELSE b
Larger(a, b) == IF a >= b THEN a ELSE b
Recorded == {e.txn : e \in events}

(* The locals of poll and of Reconcile.  next is the ledger at hand, or    *)
(* the one after the cursor that was read; last ends the fetched batch.    *)
Asleep == [at |-> "idle", next |-> 0, last |-> 0, hash |-> <<>>, todo |-> {},
           txn |-> NoTxn, fork |-> 0, total |-> 0, full |-> FALSE]
Moves(l, f) == frame' = [frame EXCEPT ![l] = f]
At(l, where) == frame[l].at = where

Init ==
  /\ chain = <<>> /\ cursor = 0 /\ events = {}
  /\ frame = [l \in Loops |-> Asleep]
  /\ dedup = [l \in Loops |-> {}]
  /\ history = <<>>
  /\ reorgs = 0 /\ faults = 0 /\ skips = 0 /\ crashes = 0
-----------------------------------------------------------------------------
(* Horizon, external. *)
Placed(c) == UNION {c[i].txns : i \in DOMAIN c}

CloseLedger ==
  /\ Len(chain) < MaxLedgers
  /\ \E ts \in SUBSET (Txns \ Placed(chain)) :
       chain' = Append(chain, [hash |-> reorgs, txns |-> ts])
  /\ UNCHANGED <<tables, frame, dedup, history, reorgs, counts>>

(* The ledgers from k on are replaced, the transactions placed anew.       *)
ReplaceFrom(k) ==
  LET kept == SubSeq(chain, 1, k - 1)
  IN /\ reorgs < MaxReorgs
     /\ \E ts \in [k..Len(chain) -> SUBSET (Txns \ Placed(kept))] :
          /\ \A i, j \in k..Len(chain) : i # j => ts[i] \cap ts[j] = {}
          /\ chain' = [i \in 1..Len(chain) |->
                         IF i < k THEN chain[i] ELSE [hash |-> reorgs + 1, txns |-> ts[i]]]
     /\ reorgs' = reorgs + 1
     /\ UNCHANGED <<tables, frame, dedup, history, counts>>
-----------------------------------------------------------------------------
(* LedgerHistory.Record and Truncate. *)
Record(h, s, x) ==
  LET g == [i \in DOMAIN h \cup {s} |-> IF i = s THEN x ELSE h[i]]
  IN Restrict(g, {i \in DOMAIN g : Cardinality({j \in DOMAIN g : j > i}) < Window})
Truncate(h, s) == Restrict(h, {i \in DOMAIN h : i < s})

(* poll and Reconcile read the cursor row. *)
ReadCursor(l) ==
  /\ At(l, "idle")
  /\ Moves(l, [Asleep EXCEPT !.at = IF l = "engine" /\ cursor > 0 THEN "check" ELSE "fetch",
                             !.next = cursor + 1])
  /\ UNCHANGED <<external, tables, dedup, history, counts>>

(* Mutated form: a ledger the history does not hold counts as replaced. *)
ForkedUnknown(from, to) ==
  {i \in from..Smaller(to, Len(chain)) : i \in DOMAIN history => history[i] # chain[i].hash}

(* DetectReorg: compare the window behind the cursor with the history. *)
Forked(from, to) ==
  {i \in from..Smaller(to, Len(chain)) : i \in DOMAIN history /\ history[i] # chain[i].hash}

CheckReorg ==
  LET f == frame["engine"]
      from == Larger(f.next - Window, 1)
      forked == Forked(from, f.next - 1)
  IN /\ At("engine", "check")
     /\ \/ forked = {} /\ Moves("engine", [f EXCEPT !.at = "fetch"])
        \/ \E fork \in forked :
             /\ \A i \in forked : fork <= i
             /\ Moves("engine", IF fork <= from THEN Asleep
                                ELSE [f EXCEPT !.at = "delete", !.fork = fork])
     /\ UNCHANGED <<external, tables, dedup, history, counts>>

DeleteEventsFrom ==
  LET f == frame["engine"]
  IN /\ At("engine", "delete")
     /\ events' = {e \in events : e.ledger < f.fork}
     /\ Moves("engine", [f EXCEPT !.at = "rewind"])
     /\ UNCHANGED <<external, cursor, dedup, history, counts>>

Rewind ==
  LET f == frame["engine"]
  IN /\ At("engine", "rewind")
     /\ cursor' = f.fork - 1
     /\ history' = Truncate(history, f.fork)
     /\ Moves("engine", [f EXCEPT !.at = "fetch", !.next = f.fork, !.fork = 0])
     /\ UNCHANGED <<external, events, dedup, counts>>

(* FetchLedgers.  Reconcile's first request, for one ledger, only tells    *)
(* whether this one has an answer: the chain never gets shorter.           *)
Limit(l) == IF l = "engine" THEN BatchSize ELSE Smaller(Batch, MaxPerCycle - frame[l].total)

FetchLedgers(l) ==
  LET f == frame[l]
      last == Smaller(f.next + Limit(l) - 1, Len(chain))
      fetched == last - f.next + 1
  IN /\ At(l, "fetch")
     /\ IF fetched <= 0
        THEN Moves(l, Asleep)
        ELSE Moves(l, [f EXCEPT
               !.at = "ledger", !.last = last, !.total = @ + fetched,
               !.full = (fetched = Limit(l)),
               !.hash = IF l = "engine" THEN [i \in f.next..last |-> chain[i].hash] ELSE <<>>])
     /\ UNCHANGED <<external, tables, dedup, history, counts>>

(* The engine notes the hash it fetched with the batch; the transactions   *)
(* are those the chain has now.  A failed request leaves none to process.  *)
FetchTransactions(l) ==
  LET f == frame[l]
      Reads(ts) == Moves(l, [f EXCEPT !.at = "txns", !.todo = ts])
  IN /\ At(l, "ledger")
     /\ \/ Reads(chain[f.next].txns) /\ UNCHANGED skips
        \/ skips < MaxSkips /\ skips' = skips + 1 /\ Reads({})
     /\ history' = IF l = "engine" THEN Record(history, f.next, f.hash[f.next]) ELSE history
     /\ UNCHANGED <<external, tables, dedup, faults, crashes>>

(* Dedup, then ProcessTransaction.  Its errors are logged and never        *)
(* returned: after a decoding error nothing is left to record, after a     *)
(* handler's error the event is recorded all the same.                     *)
Dispatch(l, t) ==
  LET f == frame[l]
      Then(where) == Moves(l, [f EXCEPT !.at = where, !.todo = @ \ {t},
                                 !.txn = IF where = "persist" THEN t ELSE NoTxn])
  IN /\ At(l, "txns") /\ t \in f.todo \ dedup[l]
     /\ dedup' = [dedup EXCEPT ![l] = @ \cup {t}]
     /\ \/ Then("persist") /\ UNCHANGED skips
        \/ /\ skips < MaxSkips /\ skips' = skips + 1
           /\ Then("persist") \/ Then("txns")
     /\ UNCHANGED <<external, tables, history, faults, crashes>>

(* persistContractEvent: INSERT ... ON CONFLICT DO NOTHING, on the hash. *)
PersistContractEvent(l) ==
  LET f == frame[l]
  IN /\ At(l, "persist")
     /\ \/ /\ events' = IF f.txn \in Recorded THEN events
                         ELSE events \cup {[txn |-> f.txn, ledger |-> f.next]}
           /\ UNCHANGED skips
        \/ skips < MaxSkips /\ skips' = skips + 1 /\ UNCHANGED events
     /\ Moves(l, [f EXCEPT !.at = "txns", !.txn = NoTxn])
     /\ UNCHANGED <<external, cursor, dedup, history, faults, crashes>>

(* The ledger is done.  The engine takes the next of its batch and moves   *)
(* the cursor at the end; the reconciler moves it after every ledger.      *)
EndLedger(l) ==
  LET f == frame[l]
  IN /\ At(l, "txns") /\ f.todo \subseteq dedup[l]
     /\ Moves(l, IF l = "engine" /\ f.next < f.last
                 THEN [f EXCEPT !.at = "ledger", !.next = @ + 1, !.todo = {}]
                 ELSE [f EXCEPT !.at = "advance", !.todo = {}])
     /\ UNCHANGED <<external, tables, dedup, history, counts>>

(* Mutated form: the cursor is the next ledger to read. *)
UpdateCursorPast(l) ==
  /\ At(l, "advance")
  /\ cursor' = Larger(cursor, frame[l].next + 1)
  /\ Moves(l, Asleep)
  /\ UNCHANGED <<external, events, dedup, history, counts>>

(* Mutated form: the reconciler leaves the cursor to the engine. *)
UpdateCursorEngine(l) ==
  /\ At(l, "advance")
  /\ cursor' = IF l = "engine" THEN Larger(cursor, frame[l].next) ELSE cursor
  /\ Moves(l, Asleep)
  /\ UNCHANGED <<external, events, dedup, history, counts>>

(* CursorTracker.Update, which only moves the cursor forward. *)
UpdateCursor(l) ==
  LET f == frame[l]
      after == IF l = "engine" THEN Asleep
               ELSE IF f.next < f.last THEN [f EXCEPT !.at = "ledger", !.next = @ + 1]
               ELSE IF f.full /\ f.total < MaxPerCycle
               THEN [f EXCEPT !.at = "fetch", !.next = @ + 1]
               ELSE Asleep
  IN /\ At(l, "advance")
     /\ cursor' = Larger(cursor, f.next)
     /\ Moves(l, after)
     /\ UNCHANGED <<external, events, dedup, history, counts>>
-----------------------------------------------------------------------------
(* A Horizon or database error that poll and Reconcile return. *)
FailCycle(l) ==
  /\ frame[l].at \in {"check", "delete", "rewind", "fetch", "advance"}
  /\ faults < MaxFaults /\ faults' = faults + 1
  /\ Moves(l, Asleep)
  /\ UNCHANGED <<external, tables, dedup, history, skips, crashes>>

(* A deduplicator's entry is older than maxAge. *)
Expire(l, t) ==
  /\ t \in dedup[l]
  /\ dedup' = [dedup EXCEPT ![l] = @ \ {t}]
  /\ UNCHANGED <<external, tables, frame, history, counts>>

(* Mutated form: the restarted process knows the hashes it had seen. *)
CrashKeepsDedup ==
  /\ crashes < MaxCrashes /\ crashes' = crashes + 1
  /\ frame' = [l \in Loops |-> Asleep]
  /\ history' = <<>>
  /\ UNCHANGED <<external, tables, dedup, faults, skips>>

(* The process dies and starts again: only the tables remain. *)
Crash ==
  /\ crashes < MaxCrashes /\ crashes' = crashes + 1
  /\ frame' = [l \in Loops |-> Asleep]
  /\ dedup' = [l \in Loops |-> {}]
  /\ history' = <<>>
  /\ UNCHANGED <<external, tables, faults, skips>>
-----------------------------------------------------------------------------
EngineStep == CheckReorg \/ DeleteEventsFrom \/ Rewind
LoopStep(l) ==
  \/ ReadCursor(l) \/ FetchLedgers(l) \/ FetchTransactions(l)
  \/ (\E t \in Txns : Dispatch(l, t))
  \/ PersistContractEvent(l) \/ EndLedger(l) \/ UpdateCursor(l)

Next ==
  \/ CloseLedger
  \/ \E k \in 1..MaxLedgers : k <= Len(chain) /\ ReplaceFrom(k)
  \/ EngineStep
  \/ \E l \in Loops : LoopStep(l) \/ FailCycle(l) \/ (\E t \in Txns : Expire(l, t))
  \/ Crash

Spec == Init /\ [][Next]_vars

(* The runtime schedules both goroutines, and their tickers fire. *)
FairSpec ==
  /\ Spec
  /\ WF_vars(LoopStep("engine") \/ EngineStep)
  /\ WF_vars(LoopStep("reconciler"))
-----------------------------------------------------------------------------
Hashes == UNION {[S -> 0..MaxReorgs] : S \in SUBSET (1..MaxLedgers)}
Frame == [at: {"idle", "check", "delete", "rewind", "fetch", "ledger", "txns", "persist", "advance"},
          next: 0..MaxLedgers + 1, last: 0..MaxLedgers,
          hash: Hashes,
          todo: SUBSET Txns, txn: Txns \cup {NoTxn}, fork: 0..MaxLedgers,
          total: 0..MaxLedgers, full: BOOLEAN]

(* Every table, loop and in-memory structure keeps its type; the cursor    *)
(* never passes the chain's last ledger.                                   *)
TypeOK ==
  /\ chain \in Seq([hash: 0..MaxReorgs, txns: SUBSET Txns]) /\ Len(chain) <= MaxLedgers
  /\ cursor \in 0..Len(chain)
  /\ events \subseteq [txn: Txns, ledger: 1..Len(chain)]
  /\ frame \in [Loops -> Frame]
  /\ dedup \in [Loops -> SUBSET Txns]
  /\ DOMAIN history \subseteq 1..Len(chain)
  /\ \A i \in DOMAIN history : history[i] \in 0..MaxReorgs
  /\ reorgs \in 0..MaxReorgs /\ faults \in 0..MaxFaults
  /\ skips \in 0..MaxSkips /\ crashes \in 0..MaxCrashes

OnChain == [txn: Txns, ledger: DOMAIN chain]
ChainRows == {r \in OnChain : r.txn \in chain[r.ledger].txns}

(* While the chain is not replaced and no error is stepped over, the       *)
(* cursor only passes ledgers all of whose transactions are in             *)
(* contract_events, under their own ledger: whatever the two loops do at   *)
(* once, and wherever a cycle fails or the process dies.                   *)
NothingLost ==
  reorgs = 0 /\ skips = 0 =>
    /\ events \subseteq ChainRows
    /\ \A r \in ChainRows : r.ledger <= cursor => r \in events

(* The cursor moves back only to just below a ledger the engine indexed    *)
(* and the chain no longer has (checkReorg).                               *)
RewindOnlyAtFork ==
  [][cursor' < cursor => /\ cursor' + 1 \in DOMAIN history
                         /\ history[cursor' + 1] # chain[cursor' + 1].hash]_vars

(* Once the chain stays as it is, the cursor reaches its last ledger and   *)
(* stays there, also after a rollback or a restart.                        *)
CaughtUp == cursor = Len(chain)
CursorCatchesUp == <>[]CaughtUp

(* The behaviours before the reconciler's ticker first fires. *)
EngineOnly == Init /\ [][\/ CloseLedger \/ EngineStep \/ LoopStep("engine")
                         \/ \E k \in 1..Len(chain) : ReplaceFrom(k)]_vars

(* Claim of ChainReconciler: within the window "the indexer converges to   *)
(* the correct state".  Both loops are idle at the chain's end and the     *)
(* hashes agree, yet the log is not the chain's.                           *)
ReorgConverges ==
  /\ \A l \in Loops : At(l, "idle")
  /\ cursor = Len(chain) /\ skips = 0 /\ crashes = 0
  /\ \A i \in DOMAIN chain : i \in DOMAIN history /\ history[i] = chain[i].hash
  => events = ChainRows
=============================================================================
