---------------------------- MODULE ContractCalls ----------------------------
(***************************************************************************)
(* pkg/stellar/account.go and pkg/stellar/soroban: a contract call takes a *)
(* sequence number from the AccountManager of its process, is simulated,   *)
(* signed, sent and polled.  Several processes (Managers) share one Stellar *)
(* account; with a Redis client they share a lock as well.  The lock has a *)
(* TTL of 5 s and is not renewed, while the Horizon read made under it may *)
(* take 30 s; with Redis the manager's own mutex is not taken, so that two *)
(* calls of one process can be in NextSequence once the lock has lapsed.   *)
(* The deployed server passes no Redis client: each manager then has its   *)
(* mutex and its copy of the number, refreshed after maxDrift.             *)
(* The ledger accepts a transaction whose number is the account's next.    *)
(***************************************************************************)
EXTENDS Integers, FiniteSets

CONSTANTS Calls, Managers, MaxRetries, MaxLapses, MaxFaults, MaxResets

VARIABLES redis,   \* a Redis client was passed to NewAccountManager
          chain,   \* the account's sequence on the ledger
          mgr,     \* manager -> currentSeq and the age of its last fetch
          seqLock, \* the call whose token the Redis key holds, or None
          call,    \* call -> the frame of ExecuteContractCall
          envelope, \* call -> what the network knows of its signed envelope
          lapses, faults, resets
callVars == <<redis, chain, mgr, seqLock, call, envelope, lapses, faults, resets>>

None == "none"
NewAccountManager == [cur |-> 0, fetched |-> "never"]
NoCall == [pc |-> "idle", mgr |-> None, seq |-> 0, stale |-> FALSE,
           attempt |-> 0]

CallInit ==
    /\ redis \in BOOLEAN
    /\ chain = 1
    /\ mgr = [m \in Managers |-> NewAccountManager]
    /\ seqLock = None
    /\ call = [c \in Calls |-> NoCall]
    /\ envelope = [c \in Calls |-> "unsent"]
    /\ lapses = 0 /\ faults = 0 /\ resets = 0

(* One fault of the network, of Redis or of Horizon. *)
Fault == faults < MaxFaults /\ faults' = faults + 1
Goto(c, l) == call' = [call EXCEPT ![c].pc = l]
Ends(c, l) == Goto(c, l) /\ UNCHANGED <<redis, chain, mgr, envelope, lapses, resets>>

(* A call enters NextSequence of the process it runs in. *)
ExecuteContractCall(c, m) ==
    /\ call[c].pc = "idle"
    /\ call' = [call EXCEPT ![c] = [NoCall EXCEPT !.pc = "lock", !.mgr = m]]
    /\ UNCHANGED <<redis, chain, mgr, seqLock, envelope, lapses, faults, resets>>

(* SETNX, retried while another token is there; a Redis error, and an      *)
(* exhausted retry loop, end the call.                                     *)
acquireLock(c) ==
    /\ call[c].pc = "lock" /\ redis
    /\ \/ /\ seqLock = None
          /\ seqLock' = c
          /\ call' = [call EXCEPT ![c].pc = "fetch",
                                  ![c].stale = mgr[call[c].mgr].fetched # "fresh"]
          /\ UNCHANGED <<redis, chain, mgr, envelope, lapses, faults, resets>>
       \/ Fault /\ Ends(c, "error") /\ UNCHANGED seqLock

(* The compare-and-delete of the unlock function. *)
Unlocked(c) == IF seqLock = c THEN None ELSE seqLock

(* The key expires under its holder. *)
LockLapses ==
    /\ seqLock # None /\ lapses < MaxLapses
    /\ lapses' = lapses + 1
    /\ seqLock' = None
    /\ UNCHANGED <<redis, chain, mgr, call, envelope, faults, resets>>

(* GetAccount through the circuit breaker: the ledger's number, or an      *)
(* error (not found, not 200, undecodable, breaker open) after a fault.    *)
GetAccount(answer) ==
    \/ answer = chain /\ UNCHANGED faults
    \/ answer = 0 /\ Fault

(* fetchSequence.  A failed read ends the call when the *)
(* copy is old, and is ignored when it is fresh.                           *)
fetchSequence(c) ==
    /\ call[c].pc = "fetch"
    /\ \E answer \in {chain, 0} :
         /\ GetAccount(answer)
         /\ \/ /\ answer # 0 \/ ~call[c].stale
               /\ call' = [call EXCEPT ![c].pc = "adopt", ![c].seq = answer]
               /\ UNCHANGED seqLock
            \/ /\ answer = 0 /\ call[c].stale
               /\ Goto(c, "error")
               /\ seqLock' = Unlocked(c)
    /\ UNCHANGED <<redis, chain, mgr, envelope, lapses, resets>>

(* "Never go backwards even if chain state races with our cached copy". *)
adopt(c) ==
    /\ call[c].pc = "adopt"
    /\ LET m == call[c].mgr IN
         mgr' = [mgr EXCEPT ![m] =
                   [cur |-> IF call[c].seq > @.cur THEN call[c].seq ELSE @.cur,
                    fetched |-> IF call[c].stale THEN "fresh" ELSE @.fetched]]
    /\ Goto(c, "take")
    /\ UNCHANGED <<redis, chain, seqLock, envelope, lapses, faults, resets>>

(* seq := m.currentSeq *)
take(c) ==
    /\ call[c].pc = "take"
    /\ call' = [call EXCEPT ![c].pc = "bump", ![c].seq = mgr[call[c].mgr].cur]
    /\ UNCHANGED <<redis, chain, mgr, seqLock, envelope, lapses, faults, resets>>

(* m.currentSeq++, then the deferred unlock. *)
bump(c) ==
    /\ call[c].pc = "bump"
    /\ mgr' = [mgr EXCEPT ![call[c].mgr].cur = @ + 1]
    /\ seqLock' = Unlocked(c)
    /\ Goto(c, "simulate")
    /\ UNCHANGED <<redis, chain, envelope, lapses, faults, resets>>

(* Without Redis: the whole function runs under the manager's mutex, and   *)
(* after maxDrift the number on the ledger replaces the manager's own.     *)
nextSequenceLocal(c) ==
    /\ call[c].pc = "lock" /\ ~redis
    /\ LET m == call[c].mgr
           cur == IF mgr[m].fetched = "fresh" THEN mgr[m].cur ELSE chain IN
         \/ /\ mgr' = [mgr EXCEPT ![m] = [cur |-> cur + 1, fetched |-> "fresh"]]
            /\ call' = [call EXCEPT ![c].pc = "simulate", ![c].seq = cur]
            /\ UNCHANGED faults
         \/ /\ mgr[m].fetched # "fresh" /\ Fault
            /\ Goto(c, "error")
            /\ UNCHANGED mgr
    /\ UNCHANGED <<redis, chain, seqLock, envelope, lapses, resets>>

(* The simulation: an error ends the call and its number is not used. *)
SimulateTransaction(c) ==
    /\ call[c].pc = "simulate"
    /\ \/ Goto(c, "send") /\ UNCHANGED faults
       \/ Fault /\ Goto(c, "error")
    /\ UNCHANGED <<redis, chain, mgr, seqLock, envelope, lapses, resets>>

(* sendTransaction: the network has the envelope and answers its hash; or  *)
(* it has it (or not) and the answer is an error.  The status of the       *)
(* answer is not read: a transaction the network refuses is polled too.    *)
sendTransaction(c) ==
    /\ call[c].pc = "send"
    /\ \/ /\ envelope' = [envelope EXCEPT ![c] = IF @ = "unsent" THEN "pending" ELSE @]
          /\ Goto(c, "poll") /\ UNCHANGED faults
       \/ /\ Fault
          /\ envelope' \in {envelope,
                [envelope EXCEPT ![c] = IF @ = "unsent" THEN "pending" ELSE @]}
          /\ Goto(c, "retry") \/ Goto(c, "error")
    /\ UNCHANGED <<redis, chain, mgr, seqLock, lapses, resets>>

(* submitAndPoll's loop: the same signed envelope again. *)
submitAndPoll(c) ==
    /\ call[c].pc = "retry"
    /\ \/ /\ call[c].attempt < MaxRetries
          /\ call' = [call EXCEPT ![c].pc = "send", ![c].attempt = @ + 1]
       \/ /\ call[c].attempt >= MaxRetries
          /\ Goto(c, "error")
    /\ UNCHANGED <<redis, chain, mgr, seqLock, envelope, lapses, faults, resets>>

(* Mutated form: any status but NOT_FOUND is taken for SUCCESS. *)
pollUntilFinalAny(c) ==
    /\ call[c].pc = "poll"
    /\ \/ /\ envelope[c] \in {"success", "failed"} /\ Goto(c, "ok")
          /\ UNCHANGED faults
       \/ envelope[c] \notin {"success", "failed"} /\ Goto(c, "error")
          /\ UNCHANGED faults
       \/ Fault /\ (Goto(c, "retry") \/ Goto(c, "error"))
    /\ UNCHANGED <<redis, chain, mgr, seqLock, envelope, lapses, resets>>

getTransactionStatus(c) ==
    IF envelope[c] \in {"success", "failed"} THEN envelope[c] ELSE "NOT_FOUND"

(* A final status is the result; NOT_FOUND to the last attempt is an       *)
(* error; a failed query ends the polling, and a retryable one (429, 5xx)  *)
(* makes the envelope be sent again.                                       *)
pollUntilFinal(c) ==
    /\ call[c].pc = "poll"
    /\ \/ getTransactionStatus(c) = "success" /\ Goto(c, "ok") /\ UNCHANGED faults
       \/ getTransactionStatus(c) = "failed" /\ Goto(c, "reverted")
          /\ UNCHANGED faults
       \/ getTransactionStatus(c) = "NOT_FOUND" /\ Goto(c, "error")
          /\ UNCHANGED faults
       \/ Fault /\ (Goto(c, "retry") \/ Goto(c, "error"))
    /\ UNCHANGED <<redis, chain, mgr, seqLock, envelope, lapses, resets>>

(* The ledger closes over a pending transaction: with the account's number *)
(* it succeeds or fails and consumes it; with another number it is dropped. *)
LedgerCloses(c) ==
    /\ envelope[c] = "pending"
    /\ \/ /\ call[c].seq = chain
          /\ chain' = chain + 1
          /\ \E s \in {"success", "failed"} : envelope' = [envelope EXCEPT ![c] = s]
       \/ /\ call[c].seq # chain
          /\ envelope' = [envelope EXCEPT ![c] = "dropped"]
          /\ UNCHANGED chain
    /\ UNCHANGED <<redis, mgr, seqLock, call, lapses, faults, resets>>

(* maxDrift (30 s) passes since the manager's last fetch. *)
DriftPasses(m) ==
    /\ mgr[m].fetched = "fresh"
    /\ mgr' = [mgr EXCEPT ![m].fetched = "old"]
    /\ UNCHANGED <<redis, chain, seqLock, call, envelope, lapses, faults, resets>>

(* Reset, which takes no lock when Redis is configured. *)
ResetManager(m) ==
    /\ resets < MaxResets
    /\ resets' = resets + 1
    /\ mgr' = [mgr EXCEPT ![m] = NewAccountManager]
    /\ UNCHANGED <<redis, chain, seqLock, call, envelope, lapses, faults>>

CallNext ==
    \/ \E c \in Calls, m \in Managers : ExecuteContractCall(c, m)
    \/ \E c \in Calls :
         \/ acquireLock(c) \/ nextSequenceLocal(c)
         \/ fetchSequence(c) \/ adopt(c) \/ take(c) \/ bump(c)
         \/ SimulateTransaction(c) \/ sendTransaction(c) \/ submitAndPoll(c)
         \/ pollUntilFinal(c) \/ LedgerCloses(c)
    \/ LockLapses
    \/ \E m \in Managers : DriftPasses(m) \/ ResetManager(m)

CallSpec == CallInit /\ [][CallNext]_callVars

(***************************************************************************)
(* Properties.                                                             *)
(***************************************************************************)
Labels == {"idle", "lock", "fetch", "adopt", "take", "bump", "simulate",
           "send", "retry", "poll", "ok", "reverted", "error"}

(* The values of the frames, and the lock's holder is inside NextSequence. *)
CallTypeOK ==
    /\ chain \in 1 .. 1 + Cardinality(Calls)
    /\ \A m \in Managers : mgr[m].cur \in Nat
                           /\ mgr[m].fetched \in {"never", "fresh", "old"}
    /\ \A c \in Calls :
         /\ call[c].pc \in Labels /\ call[c].attempt \in 0 .. MaxRetries
         /\ envelope[c] \in {"unsent", "pending", "success", "failed", "dropped"}
    /\ seqLock \in Calls \cup {None}
    /\ seqLock # None => call[seqLock].pc \in {"fetch", "adopt", "take", "bump"}

Numbered(c) == call[c].pc \in {"simulate", "send", "retry", "poll", "ok",
                               "reverted"}

(* With the distributed lock NextSequence hands no number out twice within *)
(* a process, although the ledger it reads lags behind the calls in        *)
(* flight: as long as the lock has not lapsed and Reset was not called.    *)
OwnNumbersDistinct ==
    (redis /\ lapses = 0 /\ resets = 0) =>
      \A c, d \in Calls :
        (c # d /\ Numbered(c) /\ Numbered(d) /\ call[c].mgr = call[d].mgr)
          => call[c].seq # call[d].seq

(* What ExecuteContractCall reports is what the ledger did, however often  *)
(* the envelope was sent and whatever answers were lost: a hash without an *)
(* error only for a transaction that succeeded, "transaction failed" only  *)
(* for one that was applied and failed.                                    *)
ResultIsLedgers ==
    \A c \in Calls : /\ call[c].pc = "ok" => envelope[c] = "success"
                     /\ call[c].pc = "reverted" => envelope[c] = "failed"
=============================================================================
