# Moistello backend: TLA+ models and proofs

The backend serves rotating savings circles. Members contribute every round,
one member is paid out each round, and the money moves in Soroban contracts on
Stellar. The backend keeps a PostgreSQL copy of that state, takes requests over
REST, and follows the chain with an indexer.

This directory holds models of the parts of that program where several actors
write the same rows, the configurations that check them with TLC, and proofs
checked by TLAPS. Paths in this file are relative to `src/`.

## 1. Inventory

### Processes

| process | what runs in it |
|---|---|
| `cmd/api-server` | REST handlers (any number of replicas), WebSocket hub, swap sweeper, mobile-money reconciler, session cleanup, digest flusher |
| `cmd/indexer` | engine poll loop, reconciler loop, dedup pruner, watchdog, job worker, health server |
| `cmd/migrate` | schema migrations under an advisory lock |
| `cmd/config-validate` | a check of the configuration, no state |

They share PostgreSQL, Redis, RabbitMQ and the external services (Horizon,
Soroban RPC, payment providers). There is no shared memory between processes;
inside the indexer the two loops share the tables and nothing else. The package
`webhook` has dispatchers that no command constructs yet.

### Parts, their state and what is hard about them

| part | state | operations | what is hard |
|---|---|---|---|
| circles (`internal/domain/circle`) | `circles`, `circle_members`, disputes, round snapshots | Create, Update, Start, Cancel, Close, Join, Exit, RemoveMember, RaiseDispute, votes, bids, penalties | read, decide, write the whole row back, while others do the same |
| event handlers (`internal/indexer/processor.go`) | the same rows | one per contract event | events arrive twice, out of order, and from two loops |
| contributions and payouts | `contributions`, `payouts`, the circle's counters | Record (REST), `applyContribution`, `recordPayoutAndAdvance` | two writers with different locking write the same record |
| indexer engine and reconciler | `contract_events`, `indexer_cursor`, in-memory dedup and ledger history | poll, Reconcile, rollback, restart | one cursor, two loops, a chain that may be replaced, crashes |
| governance | proposals, votes, snapshots, cancellation votes | create, vote, execute, cancel | statuses read before and written after other requests |
| job queue | `job_queue` | Enqueue, Dequeue, Complete, Fail, retry | competing workers, a crash with a job in hand |
| swap offers | `swap_offers`, the escrow contract | create, accept, cancel, sweep | the row and the contract cannot change in one step |
| money in and out | deposits, withdrawals, mobile money, daily cap, idempotency keys | provider calls, callbacks, reconciliation | effects before records, callbacks in any order |
| single-flight lock, rate limiter, circuit breaker | Redis keys, breaker state | acquire, renew, release; allow; call | leases that expire under their holder |
| sessions, nonces, two-factor | Redis keys, recovery codes | login, refresh, revoke, verify | check then act on expiring keys |
| realtime | hub rooms, client buffers, Redis channel, notifications, digests, outbox | register, join, broadcast, flush, relay | bounded buffers, shutdown, fallback |
| webhook dispatch | semaphore, retries, job-queue fallback | dispatch, retry, shutdown | work handed over at shutdown |
| communities, invites, incentives, chat | their rows and counters | accept, claim, transfer, send | counters and single-use codes |
| migrations | `schema_migrations` | run | failure between two files |

`PROJECT.json` lists these parts under "components" with their source files and
the places where they can go wrong under "hazards".

### What must be true

1. Circles: an active circle has a round, the round is backed by recorded rows,
   a replayed event is counted once, and membership moves one way.
2. Ledger: no contribution is counted twice, a row and its counters land
   together, no transaction moves the round back, and every event comes to an end.
3. Indexer: the cursor passes only recorded ledgers, moves back only at a fork,
   and reaches the end of the chain.
4. Governance: the tallies are the ballots, the timelock holds, and a
   cancellation has the share of votes it needs.
5. Payments: an offer that is closed has returned its escrow, a key makes one
   transfer, an answer of success has a transfer behind it, a settled row agrees
   with the provider and stays settled, and amounts are exact or refused.
6. Services: nothing accepted for delivery disappears without a recorded reason,
   nothing is delivered more often than its retries explain, and numbers handed
   out are handed out once.
7. Access: what was revoked or logged out stays so; a factor, an address or a
   key in force was confirmed, and what was given up comes back only through a
   stale copy; a reader sees one state.
8. Progress: the loops that run until shutdown finish what they are given.

## 2. Modelling conventions

- A SQL statement is atomic and runs at READ COMMITTED, so a handler is split at
  its statements. Values read in one statement and used in a later one are kept
  in the handler's frame (`frames`, `frame`, `worker`, `client`, `at`) and may
  be stale by then. A read and a decision that nothing can separate are one step.
- A guard that fails in the code (an early return with an error that changes
  nothing) is a disabled action or a step back to the idle frame.
- A crash, a cancelled request or a failed statement ends a handler between two
  of its steps. What it had written stays, unless a transaction was open.
- Data are abstracted to what the properties tell apart: amounts, currencies,
  texts, notifications and audit rows are left out. A transaction hash is a name.
- External services are their answers. Horizon is a sequence of ledgers whose
  end may be replaced. The escrow contract is a three-state record whose calls
  may fail, or succeed and report an error. An executor call succeeds or fails.
- The models follow the Go code and its SQL, against a schema that has the
  tables and columns the SQL names and the uniqueness constraints of the
  migrations. In places the migrations and the SQL disagree: the
  `member_status` enum has no `removed`, `contributions` has no `updated_at`,
  `circle_disputes` has no key for its `ON CONFLICT`, and PostgreSQL refuses the
  `COUNT(*) ... FOR UPDATE` of `GetMemberCount`. Each is modelled as the code
  evidently intends; the count is given no locking effect.
- Redis commands are atomic; a pipeline that is not a `MULTI` is several steps.
  A key with a lifetime may expire between any two steps.
- Go code under one mutex is one step. What a goroutine reads before it releases
  the mutex and uses afterwards is kept in its frame.
- A clock is a counter where the length of a window or a lifetime matters
  (`RateLimit`, `IndexerRecords`, `Credentials`, `MobileMoney`, `Governance`), and
  otherwise an event that may happen at any time.
- Constants that are bounds of the exploration, not of the program, are named
  `Max...` and marked `bound:` where they are declared.
- `Mutated form` definitions are faulty variants of the definition that follows
  them. No specification uses them; each one shows that a property notices the
  fault.

## 3. Modules

| module | models | checked in run |
|---|---|---|
| `CircleService` | one circle, its members and all handlers that write them | `Circles` |
| `CircleCounters` | abstract specification of a circle's counters | `Ledger` |
| `ContributionLedger` | contributions and payouts of one circle, REST and indexer side | `Ledger` |
| `IndexerEngine` | engine, reconciler, cursor, dedup, ledger history, chain | `Indexer`, `Progress` |
| `Governance` | one proposal and the requests on it | `GovernanceVotes` |
| `SwapOffer` | one offer, the escrow contract, requests and sweepers | `Payments`, `Progress` |
| `Transfers` | deposits and withdrawals behind the idempotency middleware | `Payments` |
| `MobileMoney` | the single-flight lock, and the bridge whose reconciler runs under it | `Payments`, `Progress` |
| `Money` | arithmetic of amounts, and their decimal text | `Payments` |
| `SavingsGoals`, `Incentives` | goals; referral codes, grants, claims, streaks | `Payments` |
| `RoundVotes` | votes, bids, fees, penalties of payout rounds | `Payments` |
| `JobQueue` | the `job_queue` table, workers, admin retry | `Services`, `Progress` |
| `Realtime` | hub, clients, broadcaster, Redis bridge, auditor, shutdown | `Services`, `Progress` |
| `Notifications` | digests, deliveries, audit trail | `Services`, `Progress` |
| `WebhookDispatch`, `Outbox` | outgoing webhooks; the relay of saved circle events | `Services` |
| `Chat` | the X3DH key server and both sides of the handshake; numbered messages | `Services` |
| `CircuitBreaker`, `ContractCalls` | the breaker; sequence numbers, submission and polling | `Services` |
| `IndexerRecords` | the indexer's cached version lookup, the transactions it could not process, the one-shot job for past notifications | `Services` |
| `RateLimit` | sliding window, fallback, outage policy, reload | `Services` |
| `Migrations`, `ServerLifecycle` | runs of `cmd/migrate`; start, probes and shutdown of the API server | `Services`, `Progress` |
| `Community` | members, roles, count and announcements of a community | `Services` |
| `Sessions`, `Credentials` | nonces, refresh tokens, cleanup; signing keys, access tokens, admin keys | `Access` |
| `UserAccount`, `EmailAccount` | the `users` row and TOTP on that row; registration and change of address | `Access` |
| `Invites`, `CircleReads` | invite codes; snapshot, export and member list of a circle | `Access` |
| `CircleServiceProofs`, `ContributionLedgerProofs`, `GovernanceProofs`, `IndexerEngineProofs` | theorems about the module each is named after (`IndexerEngineInvariant` has the inductive invariant of the last) | |
| `TransferProofs` | theorems about `Money`, `Transfers` and `MobileMoney` | |
| `MemberProofs` | theorems about `SwapOffer`, `Incentives`, `RoundVotes` and `SavingsGoals` | |
| `ServicesProofs` | theorems about `JobQueue` and `CircuitBreaker` | |
| `MC...` | instances for TLC | |

How they fit together:

- `IndexerEngine` decides which transactions are dispatched, how often and in
  which order. Because it lets a transaction be dispatched again after an expiry,
  a restart or by the other loop, `CircleService`, `ContributionLedger` and
  `RoundVotes` let every event arrive at any time and repeatedly.
- `CircleService` treats the indexer's two locked transactions as single steps.
  `ContributionLedger` opens them up and is shown to implement `CircleCounters`,
  in which they are single steps again.
- In `MobileMoney` a pass of the reconciler and the lease under it are one
  specification. In `UserAccount` the handlers of the profile and those of the
  second factor write the same row.
- `WebhookDispatch` hands failed deliveries to the queue that `JobQueue` models;
  the composition is by what a job promises (it sends at most `max_retries`
  times), which `ServicesProofs` proves.

### One instance for several components

`MCPayments`, `MCServices`, `MCAccess` and `MCProgress` each check several
components that share no state. A variable `part` says which one a behaviour is
about and never changes, so the state space is the sum of the components', not
their product. A property of such an instance says one thing of several
components.

- `MCPayments` extends `TransferProofs` and `MemberProofs`, and with them the
  components: the run and the theorems are about the same definitions, and TLC
  evaluates every assumption of the proofs. The components a behaviour is not
  about stay in their initial states.
- `MCServices` extends `JobQueue` and `CircuitBreaker` for the same reason. The
  variables of its other parts, and of all parts of `MCAccess` and `MCProgress`,
  are `v1`, `v2`, ..., given to a part's module by `INSTANCE ... WITH`; the ones it
  does not need are 0.
- `MCCircleService` and `MCIndexerEngine` use `part` for several bounds of one
  module.

### Circles, ledger, indexer, governance

**CircleService.** State: the `circles` row (status, round, limit, total), one
`circle_members` row per user, the `contributions`, `payouts` and dispute rows,
the snapshot of round 1, and a frame per handler. `Row` copies in frames matter
most: `repo.Update` writes every column of the copy the handler read earlier.
`Update`, `Cancel`, `Close` and `OnCircleCompleted` read and then `Save`. `Start`
reads, counts members, saves and snapshots. `Join` reads the circle, counts,
inserts. `Exit` and `RemoveMember` read the member and set its status.
`RaiseDispute` and `OnDisputeRaised` have three and two statements. The other
event handlers are one statement or one locked transaction. `Abort` ends any
handler between two statements.

**ContributionLedger, CircleCounters.** State: the counters, members, committed
rows, the advisory lock, each indexer worker's open transaction, each API request,
each whole-row editor's copy, and per worker the events its deduplicator knows. An
uncommitted row lives in the worker's frame; an API insert that collides with it
waits, as PostgreSQL's unique index makes it. `Update`, `Close`,
`OnCircleCompleted` and `OnDisputeRaised` read the row, and `SaveRow` writes all of
it back at any later time, counters included (`repo.Update`). An error in a handler
or a statement is logged and the event is not dispatched again by that worker
(`HandlerFails`, `StatementFails`, as `processContractEvents` does); after a restart
the cursor may be at any event the loops were done with (`Crash`).
`CircleCounters` says what `internal/indexer/circle_tx.go` promises beside such
writers: a record is applied once, together with the counters it moves, and an
`Overwrite` takes the counters only to values that the recorded rows and the
contract's closing total account for. The refinement mapping takes the rows
written by the indexer as `credited` and `paid` and the circle's columns as
`round`, `total` and `reported`.

**RoundVotes.** `CastVote` and `SubmitAuctionBid` over their statements, next to
the engine's and the reconciler's handlers of the same facts. `onVoteCast` inserts
unless there is a vote, `onFeeDeposited` counts a fee under its event's key, and
`onDefaultRecorded` reads a score and writes a new snapshot of it.

**CircleReads.** `db` is one circle's rows; `GetSnapshot` runs its four
statements in one REPEATABLE READ transaction, which keeps the `db` of its first
statement, `ExportCircle` reads pages that each see the newest rows, and
`GetMembers` follows `nextCursor`, an offset into the members ordered by position; members may share a
position (two concurrent joins, or one of the indexer), and then their order is open. A list asked for 500 rows serves 20, as
the repositories clamp it. `Contribute`, `PayOut`, `Advance`, `Complete`,
`JoinMember` and `LeaveMember` write between any two of their statements.

**IndexerEngine.** State: the chain (external), the cursor row, the event log, and
per loop a frame and a deduplicator; the engine also has its bounded ledger
history. `ReadCursor`, `CheckReorg`, `DeleteEventsFrom`, `Rewind`, `FetchLedgers`,
`FetchTransactions`, `Dispatch`, `PersistContractEvent`, `EndLedger` and
`UpdateCursor` are the steps of `poll` and `Reconcile`. Errors that the code
returns end the cycle (`FailCycle`). Errors that it logs and steps over are
counted as `skips`.

**IndexerRecords.** The version resolver reads its cache
under the mutex, asks the ledger without it and stores under it again, so an
`Upgrade`, a `Tick` and the other loop's lookup run in between. A dead letter is
one row per transaction, reopened by `Record`; administrators `List`, `Count` and
resolve what they saw earlier. The backfill's `RunFetch`, `RunEvent` and `RunStop`
are the loop of `Run`, with a store that may refuse any event.

**Governance.** State: the proposal row, the weight snapshot, votes, cancellation
votes, live weights (external), a clock and a frame per request. Only the ballot
and its tally share a transaction. `MarkPassed` and `MarkCancelled` are
conditional on the stored status, `Reject` and `MarkExecuted` are not, as in the
code.

### Money

**Transfers.** `Claim` is the middleware's `SETNX`, `TurnAway` its replay or
conflict, `HandlerStep` the handler's steps in order: own cache and caps, the
daily total, the provider, the row, counting the total, the cached answer, and the
middleware's stored answer.
`Die` ends the process at any step. The provider settles what it accepted and
sends notices that `HandleWebhook` gets late, twice or out of order. Payment
references hold the millisecond, so two rows may share one.

**MobileMoney.** A pass lists the pending rows, asks the provider row by
row and writes. `Renew` is a heartbeat that may fail, `Tick` a third of the lease,
and the release at a pass's end compares the token. A request looks its key up, calls the provider
and inserts; it may die in between.

**Money.** `Half` stands for 2^63: sums wrap as the machine's do, and
the checks of `Add` and `Sub` are made on the wrapped value, as in the code.
`roundDiv` is truncated division with its correction. The text of an amount is
parsed and printed digit by digit, with the column in between: `UnmarshalJSON`
takes strings, numbers with and without an exponent and null, and `Scan` text,
integer and floating-point columns. `FromFloat64` prints with seven decimals,
half to even, and parses; a float64 is a value of `Mantissa` digits.

**SwapOffer.** State: the row's status, the contract's state, expiry, and where
every request and sweeper is. Contract calls may fail, or take effect and report
an error. The sweepers' Redis lock is left out on purpose: the claim on the row
has to keep sweepers apart even when a lease has been lost.

**SavingsGoals, Incentives.** A goal's handlers read the row, edit the copy and
write it all back. The incentive service has no transaction: a code is applied in
`FindByReferredID`, `FindByReferralCode`, `UpdateReferralStatus` (conditional) and
`ReferralBonus`; a streak is read and written back.

### Services

**JobQueue.** State: rows, workers and the number of handler runs since a job was
enqueued or reset. `Dequeue` is one transaction with `FOR UPDATE SKIP LOCKED`.
`Fail` is two statements. `Crash` leaves the row in `processing`, since nothing
returns it.

**Realtime.** State: registered clients, the room, send buffers, both pumps of
each client, the broadcaster's and the bridge's position in their loops, the
auditor and the shutdown. A message goes to the local hub and to Redis, and comes
back through the bridge. A full buffer leads to `Evict`, which runs after the
hub's lock was released. The hub is modelled with and without an authorizer
(`auth`); see section 8.

**Notifications.** `shouldDigest` reads the preferences, `Enqueue` or `Insert`
follows, the flusher takes due buckets, summarises and inserts. `Deliver` retries
and writes its audit record; `Stop` ends the process, and what is only in its
memory is gone.

**WebhookDispatch, Outbox.** A goroutine per payload and registration takes the
semaphore, sends, and on failure hands over to the job queue or, if that fails, to
the retry in memory; `Shutdown` waits up to its deadline. A relay fetches pending
events, broadcasts each and marks it; one that was built without a broadcaster
(`deaf`) marks without broadcasting.

**Chat.** A key is the generation that made it and whether its text decodes, which
the server does not look at; a Diffie-Hellman value is the set of the two keys it
combines. `PublishKeys` is three statements, and so is a bundle, the last of which claims a one-time prekey under
`SKIP LOCKED`. `CreateMessage` locks the conversation, computes the next number
and inserts. A reader walks pages backwards.

**CircuitBreaker, ContractCalls.** Requests in flight are a count, since a report
does not say in which state its request was admitted. A call takes a sequence
number with or without the distributed lock, is simulated, sent and polled; the
ledger it reads may lag, answers may be lost and the lock may lapse.

**RateLimit.** The four commands of a check run one by one with the time the
request read; `Outage` switches Redis off, the fallback counts under its mutex,
and `Watch` is a changed configuration file: a file with one bad key, of this
limit or of any other, changes nothing.

**Migrations, ServerLifecycle.** A run takes the advisory lock, plans, with a row of
the older runner standing for every file of its prefix, and executes a transaction
per file; `Stop` may end it anywhere. The older runner may have applied any of the
files that share a prefix. The server's phases and hooks are in the order of
`RunServerWithHooks`; requests, loops, probes, dependencies and the deadline move
between them. A loop that was told to stop may begin one more pass, and a pass may
outlive the wait of its `Stop`.

**Community.** A request reads, checks and executes its statements one by one. The
statement that counts the members reads a snapshot and writes it when it gets the
community's row, so two that overlap may leave the older count.
Two instances: two requests with a failing statement, and one request with
announcements and a failing statement.

### Access

**Sessions.** Redis keys for nonces, sessions, the user's index and the
blocklist; `Refresh` rotates, `Logout` reads the index, drops and bars (a `SET` that
fails is only logged), `RunOnce` to `Del` are the cleanup worker's commands.

**Credentials.** A replica holds the keys it loaded until `Restart`. `RotateJWTKey`
changes the configuration at once; `RotateInSteps` is the operator's rotation that
the public key file allows (publish the next key everywhere, replace the pair, remove
the old key when its tokens have run out). The router gives `AuthMiddleware` the
current public key file and not the previous one. `RotateAdminKey` walks the phases of
`docs/security/admin-key-rotation.md`, and a request passes `AuthMiddleware` and then
`TokenBlocklistMiddleware`, with `Logout` and time in between.

**UserAccount, EmailAccount.** Handlers load the row, change columns and
write all of them; the frame remembers whether the row changed since it was loaded.
A code is the secret it was computed from; failures and the lock are in memory. A change of address goes through a code of the current and one
of the new address.

**Invites.** `AcceptValidate` reads, `IncrementUse` counts without checking again;
`Lapse` and `Revoke` come in between.

## 4. Runs

Passing runs:

| run | instance and bounds | what it shows |
|---|---|---|
| `Circles` | organizer and one user, limit 2. Part `races`: two handlers (symmetric), round 1. Part `events`: one handler next to the contract events, rounds 1 and 2. Part `disputes`: one handler next to all of them, disputes and reported totals included, round 1 | `ActiveHasRound`, `RoundJustified`, `ReplayCountedOnce`, `MembershipOneWay`: no stale write, replay or late event breaks the row or brings a member back |
| `Ledger` | two workers, two contributions over two rounds, one payout. Part `requests`: one client, two users, one failed handler or restart. Part `edits`: one whole-row editor, one user, one reported total | `NoneCountedTwice`, `RefinesCounters`, `EventsSettled`: rows and counters land together and none is counted twice, whatever a stale row puts back, and every event is recorded or logged as failed |
| `Indexer` | batches of 2, window 2, one restart. Part `faults`: two ledgers, two transactions, one failed cycle, one skipped error. Part `reorgs`: three ledgers, one transaction, one replaced end of the chain | `NothingLost`, `RewindOnlyAtFork` |
| `GovernanceVotes` | two voters, two requests, weights 1 and 3, delay 1, one tick of the clock, threshold 51% | `TallyMatchesBallots`, `CancelBacked`, `TimelockHolds` |
| `Payments` | see below | amounts, transfers, offers, goals, grants and votes |
| `Services` | see below | deliveries, calls, limits, migrations, lifecycle, communities |
| `Access` | see below | sessions, factors, addresses, keys, invites, reads |
| `Progress` | small instances of seven components | `CursorCatchesUp`; `WorkSettles` (`JobSettles`, `OfferSettles`, `OnrampSettles`, `DigestArrives`); `EndingsHappen` (`RevokedLeaves`, `ShutdownEnds`) |

`Indexer`, `GovernanceVotes`, `Payments`, `Services` and `Access` also check types
(`TypeOK`, `PartsTypeOK`). The types of `Circles` and `Ledger` are proved, and so are
`OnTimeWithinReached` and `LockedRoundForward` of the ledger (section 6).

The tables below name the invariant of each component. The runs check them under
these names, which say what the components have in common:

| run | property | made of |
|---|---|---|
| `Payments` | `ProviderBacked` | `OneTransferPerKey`, `StatusWasReported`, `AnswerBacked`, `PassesDisjoint`, `SettledAsProvider` |
| | `AmountsExact` | `BalanceExact`, `RefusedRightly`, `RoundsNearest`, `AmountKept`, `RowCanonical` |
| | `RecordsSound` | `ReferralPaidOnce`, `StreakRowCoherent`, `VoteAnnounced`, `FeeOnce`, `CompletedWhole`, `DeletedStays` |
| | `NoStepUndoes` | `OwnRelease`, `KeepsSettled` |
| | `VotesStand` | `KeepsVotes` |
| `Services` | `AtMostOnce` | `ShownOnce`, `NotifiedOnce`, `SendsBounded`, `PreKeyOnce`, `NumberedInOrder`, `OwnNumbersDistinct`, `RepeatsExplained` |
| | `NothingDropped` | `Accounted`, `OnlyFailedSkipped`, `NotGivenUpEarly`, `SavedIsSent`, `WalkComplete`, `BacklogExact`, `AttemptsSurvive` |
| | `AnswersTrue` | `RecordTrue`, `ResultIsLedgers`, `ProbeHonest`, `HandshakeAgrees` |
| | `WindowsHold` | `WindowHolds`, `MemoryWindowHolds`, `VersionStaleBounded`, `UnknownIsRecent` |
| | `ChangesWhole` | `RecordIsSchema`, `InOrder`, `PlanCurrent`, `CountIsMembers`, `AdminIsOwner`, `CreateAllOrNothing` |
| | `StopsCleanly` | `HubConsistent`, `DownIsEmpty`, `PoolsOutliveWork` |
| `Access` | `AccountSound` | `FactorConfirmed`, `DigestHasCadence`, `AddressProved` |
| | `CredentialsHonoured` | `ScrapeAccepted`, `VerifiersAgree`, `RevokedRefused`, `PrunedAreDead`, `UsesCounted`, `OveruseBounded` |
| | `ReadsConsistent` | `SnapshotOneState`, `ExportCutByClamp`, `WalkCoversMembers` |
| | `BarsHold` | `NotEnded`, `KeepsLock` |

`ClosedIsReturned`, `OneSweeperReleases`, `OneWorkerPerJob`, `RunsBounded` and
`NeverStuckHalfOpen` are checked under their own names.

| `Payments`, part | bounds | properties |
|---|---|---|
| `swap` | two requests, two sweepers, one each of: failed call, lost answer, failed finalisation, crash | `ClosedIsReturned`, `OneSweeperReleases` |
| `transfers` | two requests, one key, with or without a key in the body, two milliseconds, one mishap (a death or an expired key) | `OneTransferPerKey`, `StatusWasReported`, `AnswerBacked` |
| `mobile` | two replicas, two requests, one key, lease of three heartbeats; two faults, of which at most two lost heartbeats, one failed statement and one death | `PassesDisjoint`, `OwnRelease`, `SettledAsProvider`, `KeepsSettled` |
| `money` | 5-bit words, all operands, factors -3..3 | `BalanceExact`, `RefusedRightly`, `RoundsNearest` |
| `text` | base 2, two decimals, three digits a side, small exponents, floats of three digits, 5-bit words | `AmountKept`, `RowCanonical` |
| `savings` | two users, one goal, two requests, amounts 0..2 | `CompletedWhole`, `DeletedStays` |
| `incentives`, `streaks` | two requests, one code, two users, two grants; two requests, streaks to 2 | `ReferralPaidOnce`; `StreakRowCoherent` |
| `rounds` | two users, one request, both dispatchers, two rounds, five facts, two deliveries | `KeepsVotes`, `VoteAnnounced`, `FeeOnce` |

| `Services`, part | bounds | properties |
|---|---|---|
| `jobs` | two jobs, two workers, three retries, one crash, one lost outcome, one admin retry | `OneWorkerPerJob`, `RunsBounded` |
| `realtime` | two connections of one user, buffers of one, one message | `HubConsistent`, `DownIsEmpty` |
| `notes` | three events, buckets of two, one change of preferences, one failed statement | `ShownOnce`, `Accounted`, `RecordTrue` |
| `hooks` | two registrations, one payload, one slot, three sends | `NotGivenUpEarly`, `SendsBounded` |
| `chatKeys`, `chat` | two clients, two key ids, two generations, two bundles, keys that decode and keys that do not; two clients, three messages, pages of one | `PreKeyOnce`, `HandshakeAgrees`; `NumberedInOrder`, `WalkComplete` |
| `backfill`, `outbox` | five events, batches of two, three failures; three events, two relays with or without a broadcaster, two faults | `NotifiedOnce`, `OnlyFailedSkipped`; `SavedIsSent`, `RepeatsExplained` |
| `breaker` | thresholds 2, trial of 2, four in flight | `NeverStuckHalfOpen` |
| `calls` | two calls, two managers, one retry, one lapse, two faults, one reset | `OwnNumbersDistinct`, `ResultIsLedgers` |
| `versions`, `letters` | two loops, three versions, six ticks; two transactions, two administrators, three failures | `VersionStaleBounded`, `UnknownIsRecent`; `BacklogExact`, `AttemptsSurvive` |
| `migrations` | four files, one pair with one prefix, up to two prefixes of the older runner, one irreversible, two runners, three runs | `RecordIsSchema`, `InOrder`, `PlanCurrent` |
| `limits` | two requests, window 3, limits 0..2, delay 1, one reload | `WindowHolds`, `MemoryWindowHolds` |
| `life` | one request, the session cleaner, one fault | `PoolsOutliveWork`, `ProbeHonest` |
| `failing`, `posting` | two users, one failing statement; two requests; one request with announcements | `CountIsMembers`, `AdminIsOwner`, `CreateAllOrNothing` |

| `Access`, part | bounds | properties |
|---|---|---|
| `sessions`, `cleanup` | two requests, two tokens, one nonce; one request beside the cleanup worker | `NotEnded`; `PrunedAreDead` |
| `factor`, `profile` | two requests, two secrets, two batches of recovery codes, two failures; two requests, cadences 0..2 | `FactorConfirmed`, `KeepsLock`; `DigestHasCadence` |
| `mail` | two clients, two addresses, one code each, one attempt | `AddressProved` |
| `keys` | two replicas, three key pairs (one whose halves differ), one rotation at once or in steps, lifetime 2, one fault | `ScrapeAccepted`, `RevokedRefused`, `VerifiersAgree` |
| `invites` | three holders, two uses | `UsesCounted`, `OveruseBounded` |
| `snapshot`, `export`, `payouts`, `walk` | one reader; two users and two rounds; two users with three contributions, or three rounds of payouts, and pages clamped to 1; three users and pages of 1 | `SnapshotOneState`; `ExportCutByClamp`; `WalkCoversMembers` |

Runs that end in a counterexample, each against a sentence of the repository:

| run | property | what happens |
|---|---|---|
| `CircleRoundForward` | `RoundForwardOnly` | A handler reads the row, an indexer transaction advances the round, the handler writes its copy back and the round is the older one. `internal/indexer/circle_tx.go:35` says "current_round only ever moves forward". |
| `LedgerCounted` | `HandledIsCounted` | The client's REST report of a contribution is inserted first. The event then conflicts and is taken as handled, and total and round never move. `circle_tx.go:15` says the row and the round state "must land together". |
| `IndexerConverge` | `ReorgConverges` | With the engine alone (`EngineOnly`): after a rollback within the window the hashes are still in the deduplicator, so a transaction that is in the new ledgers too is not recorded again. `internal/indexer/reorg.go:25` says "the indexer converges to the correct state". |
| `GovernanceExecute` | `ExecutedOnce` | Two execute requests both read `passed`, both call the executor, and both write `executed`. `internal/domain/governance/service.go:397` says "a lost race surfaces as a conflict". |

### Why the bounds are enough

- Two handlers, workers, requests, relays, replicas or sweepers give every pairwise
  race, and they meet only in tables, keys or one mutex. The theorems of section 6
  remove the bound for circles, the ledger, the indexer, governance, everything in
  `Payments` but the text of amounts, jobs and the breaker.
- Two users are the smallest circle that can start and the smallest in which one
  member's contribution does not complete a round.
- Two rounds let events arrive out of order and let a late round-1 event meet a
  circle in round 2. `TwoRounds` has such a pair. One editor's copy is as old as any
  that a second one could hold; requests and editors meet only in the circles row,
  so they are separate parts.
- Three ledgers with batch size 2 and window 2 give a batch that ends inside the
  chain, a history that forgets, and a fork inside and at the edge of the window.
- One crash, fault or skip at any step is every single fault. Where each kind has
  its own bound, two faults of different kinds do meet.
- Weights 1 and 3 make the weighted and the unweighted majority differ; 51% of two
  votes rounds up to 2, so rounding matters.
- Buffers, slots and pages of one are full, held and turned at once. Two digest
  entries fill a bucket while a third event is made.
- A 5-bit word has its own most negative amount, both overflows, and halves of
  either sign; every pair of operands is tried. Two decimals and up to three digits
  give short, exact and over-long fractions; more digits repeat them.
- A window of 3 ticks holds two requests and one that has just left it. A cache
  lifetime of 3 and a failure lifetime of 1 tell the two expiries apart.
- Three holders of a code with two uses are one more than the limit.
- `Progress` takes smaller instances than the safety runs, because its graph is
  searched for cycles. What each part needs to go wrong once (a rollback and a
  restart, a lost outcome, a lapsed lease, a failed insert) is still in it.

Handlers, requests and transactions are symmetric where the configuration says
so: no definition names one of them. Runs with liveness properties use no
symmetry. Deadlock is not checked: with all bounded events spent, a model comes
to rest, as the program does when no request comes and the chain stands still.

## 5. Fairness

Only loops the program itself drives are fair, each weakly:

- `Ledger`: the statements of an open transaction (`Transact`), and that some
  worker dispatches an event none of its filters knows (`Dispatch`): both loops run
  on a ticker, go on after an error and follow the ledgers. Nothing makes a worker
  come back to an event it has seen. Clients, editors, members, failures and
  restarts are not fair.
- `Progress`, through `Process(k)`, which is the `k`th fair process of the part:
  - `indexer`, `restarts`: the engine's and the reconciler's steps. The chain is not fair, so
    the property is about a chain that stops changing.
  - `jobs`: the workers, and time passing until a job is due.
  - `swap`: the sweepers, the expiry of the offer, and requests already begun.
  - `mobile`: each replica's passes and heartbeats, and time. A replica's pass is
    started by a ticker; requests and the provider are not fair.
  - `realtime`: the membership auditor, on its ticker.
  - `notes`: the digest flusher, on its ticker.
  - `life`: `RunServerWithHooks` itself and the drain deadline. Requests and loops
    are not fair: a shutdown may not depend on them.

`JobSettles` and `OfferSettles` are conditional. The code has no recovery for a
job whose worker died or whose outcome could not be written, nor for an offer
left in `sweeping`, so the properties say what holds until such an event.
`DigestArrives` allows an event to be lost with a failed insert or with the
process, since the buffer is in memory.

## 6. Proofs

Every theorem holds for all values of the constants that satisfy the named
assumptions of the module, so for any number of users, handlers, workers, events,
crashes and errors. TLC evaluates the assumptions in the runs.

| module | theorem | property |
|---|---|---|
| `CircleServiceProofs` | `TypeCorrect` | `TypeOK` |
| | `ActiveCircleHasRound` | `ActiveHasRound` |
| | `RoundIsJustified` | `RoundJustified` |
| | `ReplaysCountOnce` | `ReplayCountedOnce` |
| | `MembershipMovesOneWay` | `MembershipOneWay` |
| `ContributionLedgerProofs` | `TypeCorrect`, `CountedOnce` | `TypeOK`, `NoneCountedTwice` |
| | `RoundMovesForward` | `LockedRoundForward` |
| | `OnTimeIsReached` | `OnTimeWithinReached` |
| | `ImplementsCounters` | `RefinesCounters` |
| `IndexerEngineProofs` | `TypeCorrect` | `TypeOK` |
| | `NoEventIsLost` | `NothingLost` |
| | `RewindsOnlyAtForks` | `RewindOnlyAtFork` |
| `GovernanceProofs` | `TypeCorrect` | `TypeOK` |
| | `TalliesMatchBallots` | `TallyMatchesBallots` |
| | `CancellationsAreBacked` | `CancelBacked` |
| | `TimelockIsKept` | `TimelockHolds` |
| `TransferProofs` | `TransfersTypesHold` | `TransfersTypeOK`, `MobileTypeOK` |
| | `ProviderIsBacked` | `ProviderBacked` |
| | `NothingIsUndone` | `NoStepUndoes` |
| | `AddIsExact`, `SubIsExact`, `RoundDivNearest` | (of the operators) |
| | `MoneyBalanceExact`, `MoneyRefusedRightly` | `BalanceExact`, `RefusedRightly` |
| `MemberProofs` | `TypeCorrect`, `MemberTypesHold` | `TypeOK` of `SwapOffer`; `IncentivesTypeOK`, `RoundTypeOK`, `SavingsTypeOK` |
| | `ClosedMeansReturned` | `ClosedIsReturned` |
| | `SweepersExclude` | `OneSweeperReleases` |
| | `RecordsAreSound` | `RecordsSound` |
| | `FirstVoteStands` | `VotesStand` |
| `ServicesProofs` | `TypeCorrect`, `OneWorkerAtATime` | `TypeOK`, `OneWorkerPerJob` |
| | `RunsAreBounded` | `RunsBounded` |
| | `BreakerTypeCorrect`, `TrialsAccounted` | `BreakerTypeOK`, `TrialAccounted` |
| | `BreakerNeverStuck` | `TrialCanClose => NeverStuckHalfOpen` |

A theorem about several components has the conjunction of their specifications
as its hypothesis. They share no variable, so this is the specification of the
components side by side, without the restriction of the runs to one part.

**Circles.** Assumptions: users are a finite set with the organizer in it,
disputers are users, limits are between 2 and 100, rounds are a finite set of
positive numbers, and the total a `CircleCompleted` event reports is bounded. None
of the properties is inductive by itself, because a handler may write back a row
it read long ago. `CoherentInv` therefore says of the stored row *and of every row
copy in a frame* that it has a round if it is active, that its round is justified,
and that its total is within the bound. The recorded rounds and contributions only
grow, so what was justified when a copy was read still is when it is written.
Membership needs only `TypeOK` and the two member operations.

**Ledger.** Assumptions: users are finite, the events are records of a user, a
round and a hash, contributions and payouts have different hashes, there is
something to report, and the free lock is no worker. `IInv` has four parts besides
types. `Locked`: a worker in a transaction holds the advisory lock, so there is at
most one. `Pending`: the row it is about to commit is of a known event that no
committed row of the indexer stands for. That was tested at the start of the
transaction and stays true, because only a lock holder adds rows of the indexer.
`Copies`: the circles row *and every copy an editor holds* has a total within what
was reported and recorded, and a round that recorded events opened. Recorded rows
only grow, so what was sound when a copy was read still is when it is written, which
makes every `SaveRow` an `Overwrite` of `CircleCounters`; a commit adds exactly one
row and is one of its applying steps; every other step stutters. `Judged` carries
what a request decided about its row up to the insert: not that the round is still
there, which a whole-row write may have put back, but that recorded events had
opened it.

**Indexer.** Assumptions: batches, window and per-cycle limits are positive, and no
transaction is the absent one. `NothingLost` speaks of the cursor and the log
only. `IInv` adds where each loop is in the chain (`Placements`), that hashes count
replacements and that a transaction is in one ledger. As long as nothing was
replaced or skipped, it adds what a loop in the middle of a cycle relies on
(`Covered`): every ledger below the one in hand is in the log, of that one what is
not on its list is, and a deduplicator knows only transactions whose row is
written or is about to be. The last fact is why a crash has to empty the
deduplicator. `RewindOnlyAtFork` follows from the placement of the engine: between
finding a fork and rewinding to it, the chain at the fork still differs from the
history.

**Governance.** Assumptions: voters are a non-empty finite set, weights are natural
numbers, and the share is between 1 and 100 percent. Only the ballot and its tally
share a transaction, and `UpdateStatus` does not look at the status it overwrites.
`IInv` therefore says what a request between two statements still knows
(`FrameInv`), and these are facts that no other request can undo: the proposal
exists, its timelock had run out, it had left the vote with no more ballots than
the request counted. `UnitsAdd` turns the sum of the weights into a cardinality,
and `ThresholdCovers` shows that rounding the threshold up never asks for less
than the share.

**Transfers.** Assumptions: amounts and bounds are natural numbers. `TransfersInv`
has three parts besides types. `KeyHeld`: whoever got past the middleware's claim
of a key, or has a transfer at the provider, is alone with the key in that life of
it, and the key is taken until it lapses. `StagesKept`: what exists at the provider
and in the table at each step of a handler. `AnswersKept`: a success that the
handler's cache or the middleware remembers goes back to a transfer with a row.
That a key does not lapse under its own request (`Lapse`) is what makes `KeyHeld`
inductive.

**Mobile money.** Assumptions: a lease lasts, and the absent replica and request
are none of the others. `LeaseHeld` measures the lease: a running pass that holds
the lock has as much of the TTL left as heartbeats got through, and one that lost
it has missed at least `TTL - 1`. `OutcomeKnown` says that what a pass is about to
write is what the provider decided, of a row that is there, so that a late
unconditional `UpdateStatus` writes what is there already.

**Incentives, rounds, goals.** Assumptions: the tiers of a streak begin above one
payment; members can be counted; votes of the chain name members and rounds; a
goal may be empty. Each invariant is the types, the properties, and what a frame
carries: an application that is about to pay has moved the referral out of
`pending` itself; an announced vote is recorded, so that the unique key keeps a
second delivery from announcing it; the copy of a goal that `CompleteGoal` is about
to write is whole.

**Jobs.** How often a handler ran is stored nowhere. `IInv` ties it to
`retries_count`: equal while the job waits, one more from the handler's run until
its outcome is recorded, and below `max_retries` until the job is given up.

**Swaps.** `IInv` says what a process between two statements knows: one process at
a time holds a claim, the row then has one of two statuses, and whoever is about
to close the offer has seen the escrow returned, which no call undoes.

**Breaker.** `TrialsAccounted` holds for every configuration: it relates the
requests admitted in a trial to the successes counted and the requests in flight;
reports of calls from before the trial only add to the side that is allowed to be
larger. `BreakerNeverStuck` has `TrialCanClose` as its hypothesis
(`SuccessThreshold <= HalfOpenMaxReqs + 1`), which the default configuration
satisfies and `NewCircuitBreaker` does not check. With a larger threshold a trial
whose calls all succeed admits too few of them to end, and the breaker stays
half-open and refuses every call until `Reset`.

**Money.** Assumption: the word is not empty and the operands are amounts. The
machine's sum is `Wrap(m + o)`; `AddIsExact` shows that comparing it with the
first operand detects exactly the overflows, `SubIsExact` the same with the most
negative amount as operand. `RoundDivNearest` splits on the signs of both numbers.
The two invariants follow from these facts operation by operation.

Only model-checked:

- All liveness (`EventsSettled` and the properties of `Progress`), which is out of
  reach of the installed provers.
- The text of amounts (`TextTypeOK`, `AmountKept`, `RowCanonical`), the numbering and
  paging of `Chat` and the pages of `CircleReads`: these need induction over the
  digits or the rows.
- Of `RoundsNearest`, the rule for ties. That the quotient is a nearest integer is
  `RoundDivNearest`, for every dividend and divisor; that of two equally near ones
  it is the one further from zero is checked on the operands of the instance.
- The other parts of `Services` and the parts of `Access`. Their runs hold several
  components in shared slots, and no theorem is stated about them.

## 7. Not modelled

- Encryption, XDR encoding and signature formats (`internal/stellar`,
  `pkg/crypto`): in `Chat`, `Credentials` and `ContractCalls` a signature or a
  secret is the set of keys it is made from.
- Floating point: reputation formulas and `money.Percent`. Of `FromFloat64` the
  rounding to the precision of a float64 is modelled, in the base of the digits.
- Reads of one statement: lists, summaries, admin queries, cached metrics, health
  of the providers, the indexer's watchdog. They change nothing, and what they
  return was true when they returned it.
- Wiring: routing, configuration, construction of the handlers.
- Code that only tests build: the generic backfill (`internal/indexer/backfill.go`),
  the in-memory governance and queue fallbacks that are used without a database.
- Wallets, tokens, treasury and audit rows, which are written once and not read by
  another step.
- Emergency withdrawals and penalties of circles, one statement each.
- `UpdateVerification` of a contribution, which no production code calls.

Left for later: proofs for the parts of `Access` and for the delivery components of
`Services`; a composition of `Transfers` with `RateLimit`'s outage policy.

## 8. Behaviours met while modelling

The models follow the code in these places, and no property is stated that
depends on them going the other way. They are not runs, and several may be
intended; a reviewer of the code should know of them.

Wiring:

- `cmd/api-server/main.go` builds the WebSocket handler without the circle
  service, so the hub of the deployed server has no authorizer and its auditor
  nothing to check. `RevokedLeaves` is about a hub that has one.
- The webhook dispatcher, the outbox relay, the notification backfill and the
  incentives handler are constructed by no command. `RotateSigningKey`,
  `ValidateJWT`, `invite.Accept` and `Outbox.MarkFailed` are called by none.
- Invites: `Revoke` parses the path's code as a UUID, and joining a circle
  only validates a code.

Races that have no guard in the code:

- Circles: `Cancel` may follow a `Start` it did not see (`circle/service.go:415`);
  two joins may both pass `max_members` (`:525`); a payout may be recorded during a
  dispute (`internal/indexer/circle_tx.go:148`); a round may be advanced by the
  contribution of a member who has left (`:136`). The payout check reads and
  inserts in two statements (`payout/service.go:185`).
- Indexer: a ledger that cannot be fetched is logged and stepped over
  (`engine.go:270`), and so is an event that cannot be decoded (`processor.go:221`);
  the reconciler starts behind a reorganisation deeper than its own history
  (`reconciler.go:191`).
- Governance: weight rows may be written after the proposal
  (`governance/repository_pg.go:34`).
- Swaps: a sweeper that dies with a claim leaves the offer in `sweeping`
  (`swap/repository_pg.go:173`), and an escrow may be asked for twice
  (`swap/service.go:252`).
- Transfers: the daily total is read, and added to later (`deposit_handler.go:423`).
- Sessions: two refreshes within the grace period both succeed. A nonce or a
  recovery code can be used by two requests that read it at once
  (`auth/nonce/service.go:114`, `totp_enrollment_handler.go:265`). Two tokens of one
  user and second are identical.
- Incentives: nothing but the conditional update keeps a referral single;
  `ensureNoIncentive` has no unique index behind it, and `referred_id` is not
  written.
- Rounds: a member who leaves changes whether all have voted, ties follow Go's map
  order, and a replayed older bid overwrites a newer one.
- Circle reads: an export asks for pages of 500 rows (`circle_handler.go:94`), the
  repositories serve 20 when more than 100 are asked for
  (`contribution/repository_pg.go:113`), and the loop counts pages of 500, so of a
  longer table one page is exported. A member walk may miss a member whose position
  another shares. A bulk snapshot fails as a whole for a user who left one circle.
- User row: an overlapping full-row write of a stale copy brings back a used or
  replaced recovery code, or a factor that was disabled
  (`user/repository_pg.go:155`); `totp_enrollment_handler.go:91` says "Each recovery
  code works exactly once" and `:195` "Old codes stop working immediately".
  `FactorConfirmed` says that this is the only way.
- Signing keys: after `JWT_PREVIOUS_*` is configured and a replica restarts, its
  middleware refuses the live tokens of the previous pair, because
  `internal/api/router.go:146` passes the current key only. The jwt service honours
  them, and `middleware/auth_test.go:566` builds the middleware with both.
  `VerifiersAgree` says that no other token is refused, and none in a rotation in
  steps.
- Session cleanup: the sweep counts an index and deletes it in two commands
  (`auth/session/cleanup.go:299`, `:306`), so a login between them loses its entry
  in the index; its session stays alive and a later logout does not list it.
- Logout: a failed `SET` of the user's bar is only logged.
- Communities: two overlapping counts may store the older one
  (`community/repository_pg.go:159`, `:168`) until the next change.
- Ledger: an event whose handler fails is logged and not dispatched again by that
  loop, the cursor passes it, and the other loop meets it only within its own range.
- Transfers: a late notice overwrites a newer status
  (`yellowcard_webhook_handler.go:149`), since `UpdateStatus` has no condition.
- Sequence numbers: `cmd/api-server/main.go:543` gives the account manager no Redis
  client, so two replicas may take one number; the ledger refuses one of the two.
- Chat: a one-time prekey that does not decode is stored, claimed, skipped by the
  initiator and still named in its message (`chat/x3dh.go:113`, `:134`); the two
  sides then derive different secrets.
- Dead letters: an administrator may resolve a failure newer than the one they
  saw; a failing `Record` is only logged.
- Backfill: when the last event of the log keeps failing, `Run` fetches it again
  and again.

Limits:

- Money: `FromFloat64` rounds a half to even, as `strconv.FormatFloat` does;
  `pkg/money/money.go:109` says half away from zero.
- Rate limits: the window that holds is shorter than the configured one by the
  longest delay between reading the clock and running the pipeline. Members of the
  set are nanoseconds, taken to be distinct.
- The breaker admits `HalfOpenMaxReqs + 1` requests in a trial.
- Shutdown: the delay before draining uses up the drain deadline, stopping the pool
  monitor and the flag cache does not wait for them, the membership auditor is not
  stopped, and a listener that fails exits without the hooks.
- Migrations: several prefixes are used by two files (016, 031, 032, 037, 038, 043,
  045, 046), which is what the two-part version of `Migrations` is about;
  `017_passkey_credentials` has no down file. Reverting one of the files that a row
  of the older runner stands for deletes that row, and the next run applies the
  others again, which `migrate.go:172` means to avoid.
