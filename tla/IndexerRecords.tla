--------------------------- MODULE IndexerRecords ---------------------------
(* What the indexer keeps beside the events themselves: the version of the     *)
(* contract each event came from, the transactions it could not process, and   *)
(* the notifications of past events.  Three machines that share no variable.   *)
EXTENDS Integers, Sequences, FiniteSets

-----------------------------------------------------------------------------
(* The contract version the indexer writes beside every contract event         *)
(* (internal/indexer/contract_version.go, processor.go contractVersion).       *)
(* The engine and the reconciler share one caching resolver: the cache entry   *)
(* is read under a mutex, the ledger is asked without it, and the answer is    *)
(* stored under it again, so a contract upgrade, the clock and the other       *)
(* process's lookup all run between the two.  One contract, whose versions are *)
(* numbered in the order they are deployed.                                    *)
CONSTANTS Processors,   \* goroutines that record events
          ttl,          \* clock ticks a resolved version is kept
          failureTTL,   \* clock ticks a failed lookup is kept
          MaxDelay,     \* bound: ticks a lookup may be under way
          MaxVersion,   \* bound: versions deployed
          MaxTime       \* bound: the clock

VARIABLES now,        \* the clock
          deployed,   \* the version the contract runs
          replaced,   \* version -> tick at which its successor was deployed
          entry,      \* the cache: version (0: the lookup failed) and expiry
          lookup,     \* processor -> its lookup: step, answer and start
          failedAt,   \* tick of the last lookup the ledger failed to answer
          row         \* the last contract_events row: version and tick

versionVars == <<now, deployed, replaced, entry, lookup, failedAt, row>>

Unknown == 0   \* ContractVersionUnknown, and the version of a failed lookup
NoRow == [version |-> 1, at |-> 0]
NotAsking == [step |-> "idle", version |-> Unknown, since |-> 0]

VersionInit ==
    /\ now = 0 /\ deployed = 1 /\ replaced = <<>>
    /\ entry = [version |-> Unknown, expires |-> 0]
    /\ lookup = [p \in Processors |-> NotAsking]
    /\ failedAt = 0 /\ row = NoRow

\* persistContractEvent writes what contractVersion answers: a failed lookup is
\* recorded as "unknown" and never fails the write.
contractVersion(version) == row' = [version |-> version, at |-> now]

\* Mutated form: a hit on a version keeps it alive for another ttl.
CachedSliding(p) ==
    /\ lookup[p].step = "idle" /\ now < entry.expires
    /\ entry' = [entry EXCEPT !.expires = IF entry.version = Unknown THEN @ ELSE now + ttl]
    /\ contractVersion(entry.version)
    /\ UNCHANGED <<now, deployed, replaced, lookup, failedAt>>

\* ResolveContractVersion with a fresh entry: its outcome, failure included.
Cached(p) ==
    /\ lookup[p].step = "idle" /\ now < entry.expires
    /\ contractVersion(entry.version)
    /\ UNCHANGED <<now, deployed, replaced, entry, lookup, failedAt>>

\* ... with none, or an expired one: the wrapped resolver is asked.
Expired(p) ==
    /\ lookup[p].step = "idle" /\ now >= entry.expires
    /\ lookup' = [lookup EXCEPT ![p] = [step |-> "ask", version |-> Unknown, since |-> now]]
    /\ UNCHANGED <<now, deployed, replaced, entry, failedAt, row>>

\* GetContractWasmHash: the ledger entry's hash, or one of its many errors
\* (transport, status, RPC error, no entry, no Wasm), all alike to the caller.
GetContractWasmHash(p) ==
    /\ lookup[p].step = "ask"
    /\ \/ /\ lookup' = [lookup EXCEPT ![p].step = "store", ![p].version = deployed]
          /\ UNCHANGED failedAt
       \/ /\ lookup' = [lookup EXCEPT ![p].step = "store"]
          /\ failedAt' = now
    /\ UNCHANGED <<now, deployed, replaced, entry, row>>

\* The answer is cached, a failure for the shorter window, whatever the other
\* processor stored meanwhile; then the event is recorded with it.
Store(p) ==
    LET v == lookup[p].version IN
    /\ lookup[p].step = "store"
    /\ entry' = [version |-> v,
                 expires |-> now + (IF v = Unknown THEN failureTTL ELSE ttl)]
    /\ lookup' = [lookup EXCEPT ![p] = NotAsking]
    /\ contractVersion(v)
    /\ UNCHANGED <<now, deployed, replaced, failedAt>>

\* The contract's owner swaps the code behind its address.
Upgrade ==
    /\ deployed < MaxVersion
    /\ deployed' = deployed + 1
    /\ replaced' = Append(replaced, now)
    /\ UNCHANGED <<now, entry, lookup, failedAt, row>>

\* Time passes; a lookup under way ends within MaxDelay.
Tick ==
    /\ now < MaxTime
    /\ \A p \in Processors : lookup[p].step # "idle" => now - lookup[p].since < MaxDelay
    /\ now' = now + 1
    /\ UNCHANGED <<deployed, replaced, entry, lookup, failedAt, row>>

VersionNext ==
    \/ \E p \in Processors : Cached(p) \/ Expired(p) \/ GetContractWasmHash(p) \/ Store(p)
    \/ Upgrade \/ Tick

VersionSpec == VersionInit /\ [][VersionNext]_versionVars

VersionTypeOK ==
    /\ now \in 0..MaxTime /\ deployed \in 1..MaxVersion
    /\ entry.version \in 0..MaxVersion /\ entry.expires \in Nat
    /\ \A p \in Processors : lookup[p].step \in {"idle", "ask", "store"}
    /\ failedAt \in 0..MaxTime /\ row.version \in 0..MaxVersion

\* A recorded version was still the contract's within one cache lifetime and one
\* lookup of the row being written, however the two processors' lookups overlap
\* (cachingContractVersionResolver.ResolveContractVersion).
VersionStaleBounded ==
    row.version \in 1..(deployed - 1) =>
        row.at <= replaced[row.version] + ttl + MaxDelay

\* A row says "unknown" only within the short failure window, and one lookup, of
\* a lookup that failed: one blip does not blank the log for a whole cache
\* lifetime (failureTTL, "a blip still clears quickly").
UnknownIsRecent ==
    row.version = Unknown => row.at <= failedAt + failureTTL + MaxDelay

-----------------------------------------------------------------------------
(* The indexer's dead letters (internal/indexer/deadletter.go): transactions   *)
(* that could not be processed are recorded by the engine and the reconciler,  *)
(* listed and resolved by administrators (admin_indexer_handler.go).  Each     *)
(* transaction has one row, reopened when it fails again, so failing, listing  *)
(* and resolving interleave on it.                                             *)
CONSTANTS Txns,         \* transactions, by hash
          Admins,       \* administrators' sessions
          Limits,       \* limits an administrator may ask for (0: none given)
          DefaultLimit, \* entries listed when no limit is given
          MaxLimit,     \* largest limit taken as given
          MaxFailures   \* bound: failures of one transaction

VARIABLES rows,      \* transaction -> its row: status, attempts, insertion order
          view,      \* admin -> transactions of its last listing, size reported
          step,      \* admin -> step of its request
          failed,    \* transaction -> failures that were recorded
          latest     \* transaction -> what was last done about it

letterVars == <<rows, view, step, failed, latest>>

NoEntry == [status |-> "none", attempts |-> 0, created |-> 0]

LetterInit ==
    /\ rows = [t \in Txns |-> NoEntry]
    /\ view = [a \in Admins |-> [listed |-> {}, total |-> 0]]
    /\ step = [a \in Admins |-> "idle"]
    /\ failed = [t \in Txns |-> 0]
    /\ latest = [t \in Txns |-> "none"]

Backlog == {t \in Txns : rows[t].status = "dead_letter"}
Recorded == {t \in Txns : rows[t].status # "none"}

\* Record: one upsert by transaction hash, which reopens a resolved row.
Record(t) ==
    rows' = [rows EXCEPT ![t] =
        IF @.status = "none"
        THEN [status |-> "dead_letter", attempts |-> 1, created |-> Cardinality(Recorded) + 1]
        ELSE [@ EXCEPT !.attempts = @ + 1, !.status = "dead_letter"]]

\* Engine.deadLetter: the failure is recorded, or the failing write is only
\* logged and the cycle goes on.
deadLetter(t) ==
    /\ failed[t] < MaxFailures
    /\ \/ /\ Record(t)
          /\ failed' = [failed EXCEPT ![t] = @ + 1]
          /\ latest' = [latest EXCEPT ![t] = "failed"]
       \/ UNCHANGED <<rows, failed, latest>>
    /\ UNCHANGED <<view, step>>

\* Reconciler.recordDeadLetter: the same row, from the other goroutine.
recordDeadLetter(t) == deadLetter(t)

\* List takes a limit out of range as the default one.
effective(limit) == IF limit = 0 \/ limit > MaxLimit THEN DefaultLimit ELSE limit

\* GetDeadLetterEvents, first statement: the newest unresolved rows.
List(a) ==
    /\ step[a] = "idle"
    /\ \E limit \in Limits :
          view' = [view EXCEPT ![a].listed =
              {t \in Backlog : Cardinality({u \in Backlog : rows[u].created > rows[t].created})
                                  < effective(limit)}]
    /\ step' = [step EXCEPT ![a] = "count"]
    /\ UNCHANGED <<rows, failed, latest>>

\* ... and second statement: the size of the backlog, by then another one.
Count(a) ==
    /\ step[a] = "count"
    /\ view' = [view EXCEPT ![a].total = Cardinality(Backlog)]
    /\ step' = [step EXCEPT ![a] = "idle"]
    /\ UNCHANGED <<rows, failed, latest>>

\* Resolve: UPDATE ... WHERE id = $1 AND status = 'dead_letter'.
Resolve(t) == rows' = [rows EXCEPT ![t].status = "resolved"]

\* ResolveDeadLetterEvent on an entry of the administrator's listing: 404 when
\* somebody resolved it in between.
ResolveDeadLetterEvent(a, t) ==
    /\ step[a] = "idle" /\ t \in view[a].listed
    /\ IF t \in Backlog
       THEN Resolve(t) /\ latest' = [latest EXCEPT ![t] = "resolved"]
       ELSE UNCHANGED <<rows, latest>>
    /\ view' = [view EXCEPT ![a].listed = @ \ {t}]
    /\ UNCHANGED <<step, failed>>

LetterNext ==
    \/ \E t \in Txns : deadLetter(t) \/ recordDeadLetter(t)
    \/ \E a \in Admins : \/ List(a) \/ Count(a)
                         \/ \E t \in Txns : ResolveDeadLetterEvent(a, t)

LetterSpec == LetterInit /\ [][LetterNext]_letterVars

LetterTypeOK ==
    /\ rows \in [Txns -> [status : {"none", "dead_letter", "resolved"},
                          attempts : 0..MaxFailures, created : 0..Cardinality(Txns)]]
    /\ view \in [Admins -> [listed : SUBSET Txns, total : 0..Cardinality(Txns)]]
    /\ step \in [Admins -> {"idle", "count"}]

\* A transaction is in the backlog exactly when its last recorded failure is
\* later than the last time somebody resolved it: a failure after a resolution
\* reopens the entry, and no resolution of a stale listing is lost or doubled
\* (deadletter.go Record and Resolve).
BacklogExact == Backlog = {t \in Txns : latest[t] = "failed"}

\* The row still counts every recorded failure of its transaction across
\* resolutions, since "the record of a past failure survives for audit"
\* (deadletter.go Record, attempts + 1, and Resolve).
AttemptsSurvive == \A t \in Txns : rows[t].attempts = failed[t]

-----------------------------------------------------------------------------
(* The one-shot job that writes the notifications of past events               *)
(* (internal/indexer/backfill_notifications.go): events are fetched in batches *)
(* after a checkpoint kept in memory, and the checkpoint moves to every event  *)
(* that was handled.  Creating a notification may fail, which skips the event; *)
(* the checkpoint is then moved by the events behind it, or not at all.        *)
CONSTANTS Events,       \* the event log: a sequence of event types
          batchSize,    \* events fetched at a time
          MaxRefusals   \* bound: failures of the notification store

VARIABLES checkpoint,   \* LastProcessedEventID
          batch,        \* ids still to handle of the batch under way
          jobState,     \* "fetch", "batch", or how Run returned
          notified,     \* event id -> notifications written for it
          tried,        \* ids whose notification could not be written
          failures      \* failures so far

backfillVars == <<checkpoint, batch, jobState, notified, tried, failures>>

Ids == 1..Len(Events)

BackfillInit ==
    /\ checkpoint = 0 /\ batch = <<>> /\ jobState = "fetch"
    /\ notified = [i \in Ids |-> 0]
    /\ tried = {} /\ failures = 0

\* GetEventsSince: at most batchSize events after an id, in id order.
Fetched(after) == [n \in 1..(IF Len(Events) - after < batchSize
                            THEN Len(Events) - after ELSE batchSize) |-> after + n]

\* Run, head of the loop: cancelled, or the batch after the checkpoint, or a
\* failed fetch, which ends the job; no more events completes it.
RunFetch ==
    /\ jobState = "fetch"
    /\ LET got == Fetched(checkpoint) IN
          /\ batch' = got
          /\ jobState' = IF got = <<>> THEN "completed" ELSE "batch"
    /\ UNCHANGED <<checkpoint, notified, tried, failures>>

RunStop ==
    /\ jobState = "fetch"
    /\ jobState' \in {"cancelled", "fetchError"}
    /\ UNCHANGED <<checkpoint, batch, notified, tried, failures>>

\* mapEventTypeToNotification: types without a notification map to "".
mapEventTypeToNotification(type) ==
    type \in {"circle.joined", "circle.payout", "contribution.made", "invite.received"}

\* processEvent: nothing to do, the notification created, or a failure.
processEvent(i, ok) ==
    IF ~mapEventTypeToNotification(Events[i])
    THEN ok /\ UNCHANGED <<notified, tried, failures>>
    ELSE IF ok
    THEN /\ notified' = [notified EXCEPT ![i] = @ + 1]
         /\ UNCHANGED <<tried, failures>>
    ELSE /\ failures < MaxRefusals
         /\ failures' = failures + 1
         /\ tried' = tried \cup {i}
         /\ UNCHANGED notified

\* Run, body of the loop: a handled event is the new checkpoint, a failed one
\* is skipped.
RunEvent ==
    /\ jobState = "batch"
    /\ \E ok \in BOOLEAN :
          /\ processEvent(Head(batch), ok)
          /\ checkpoint' = IF ok THEN Head(batch) ELSE checkpoint
    /\ batch' = Tail(batch)
    /\ jobState' = IF Tail(batch) = <<>> THEN "fetch" ELSE "batch"

BackfillNext == RunFetch \/ RunStop \/ RunEvent

BackfillSpec == BackfillInit /\ [][BackfillNext]_backfillVars

BackfillTypeOK ==
    /\ checkpoint \in 0..Len(Events)
    /\ jobState \in {"fetch", "batch", "completed", "cancelled", "fetchError"}
    /\ notified \in [Ids -> Nat] /\ tried \subseteq Ids /\ failures \in 0..MaxRefusals

\* However failures fall in the batches, no event is notified twice: a failed
\* tail of a batch is fetched again, but never an event before it that was
\* handled (Run, GetEventsSince after LastProcessedEventID).
NotifiedOnce == \A i \in Ids : notified[i] <= 1

\* When the job reports completion, every event that has a notification got it,
\* except those the store refused (Run, "Skip failed events, log and continue").
OnlyFailedSkipped ==
    jobState = "completed" =>
        \A i \in Ids : mapEventTypeToNotification(Events[i]) =>
                          notified[i] = 1 \/ i \in tried
=============================================================================
