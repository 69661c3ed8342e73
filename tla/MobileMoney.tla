----------------------------- MODULE MobileMoney -----------------------------
(***************************************************************************)
(* The mobile-money bridge: requests that start an on-ramp or an off-ramp  *)
(* with the provider (external), the mobile_money_transactions rows, and   *)
(* the reconciler that every replica runs under the single-flight lock.    *)
(* The requests have passed the idempotency middleware; the key here is    *)
(* the one the service is given, which the body may name.                  *)
(***************************************************************************)
EXTENDS Integers, FiniteSets
-----------------------------------------------------------------------------
(***************************************************************************)
(* The single-flight lock of pkg/redis: a key with a TTL that holds the    *)
(* token of its owner.  A replica runs one pass at a time, so its token is *)
(* the replica.  Time passes in thirds of the TTL, the heartbeat's period. *)
(***************************************************************************)
CONSTANTS
  Replicas,   \* API server replicas
  NoReplica,  \* the absent key
  TTL,        \* the TTL in heartbeats: 3
  MaxMissed   \* bound: heartbeats that fail

VARIABLES
  holder,   \* the token in Redis
  lease,    \* heartbeats left before the key expires
  due,      \* replicas whose heartbeat timer has fired
  missed    \* heartbeats that failed

lockVars == <<holder, lease, due, missed>>

LockInit == holder = NoReplica /\ lease = 0 /\ due = {} /\ missed = 0

(* Acquire: SET NX with the TTL. *)
Acquire(r) ==
  /\ holder = NoReplica /\ holder' = r /\ lease' = TTL
  /\ UNCHANGED <<due, missed>>

(* Release: the heartbeat stops, and the key goes if it is still ours. *)
ReleaseAny(r) ==  \* Mutated form: DEL without the token comparison.
  /\ holder' = NoReplica /\ lease' = 0 /\ due' = due \ {r} /\ UNCHANGED missed
Release(r) ==
  /\ holder' = IF holder = r THEN NoReplica ELSE holder
  /\ lease' = IF holder = r THEN 0 ELSE lease
  /\ due' = due \ {r} /\ UNCHANGED missed

(* heartbeat: the TTL is renewed if the key is still ours, or Redis fails. *)
Heartbeat(r) ==
  /\ r \in due /\ due' = due \ {r}
  /\ \/ lease' = (IF holder = r THEN TTL ELSE lease) /\ UNCHANGED missed
     \/ missed < MaxMissed /\ missed' = missed + 1 /\ UNCHANGED lease
  /\ UNCHANGED holder

(* A third of the TTL passes; running is the set of replicas in With. *)
LockTick(running) ==
  /\ due = {} /\ due' = running
  /\ lease' = IF lease > 0 THEN lease - 1 ELSE 0
  /\ holder' = IF lease <= 1 THEN NoReplica ELSE holder
  /\ UNCHANGED missed

LockTypeOK ==
  /\ holder \in Replicas \cup {NoReplica} /\ lease \in 0..TTL
  /\ due \subseteq Replicas /\ missed \in 0..MaxMissed
-----------------------------------------------------------------------------
(* The bridge. *)
CONSTANTS
  Ramps,          \* initiation requests
  RampKeys,       \* idempotency keys of the user
  NoRamp,
  MaxPollErrors,  \* bound: statements that fail
  MaxDeaths       \* bound: requests or passes cut off

(* A lease lasts, bounds are numbers, and absent values are none of the values. *)
ASSUME MobileAssumption ==
  /\ TTL \in Nat \ {0} /\ MaxMissed \in Nat /\ MaxPollErrors \in Nat /\ MaxDeaths \in Nat
  /\ NoReplica \notin Replicas /\ NoRamp \notin Ramps

Directions == {"onramp", "offramp"}
Final == {"completed", "failed"}

VARIABLES
  ramp,      \* frames of the requests
  ramped,    \* status of the row of each request, "none" before it is there
  old,       \* requests whose row is older than reconcileMinAge
  prov,      \* the provider's transaction of each request
  pass,      \* the reconciliation pass of each replica
  pollErrors, deaths

mobileVars == <<ramp, ramped, old, prov, pass, pollErrors, deaths, lockVars>>

Asleep == [pc |-> "sleep", todo |-> {}, cur |-> NoRamp, saw |-> "none"]
RampGoto(q, pc) == ramp' = [ramp EXCEPT ![q].pc = pc]
Running == {r \in Replicas : pass[r].pc # "sleep"}

MobileInit ==
  /\ ramp = [q \in Ramps |-> [pc |-> "idle", key |-> NoRamp, dir |-> "onramp"]]
  /\ ramped = [q \in Ramps |-> "none"] /\ prov = [q \in Ramps |-> "none"]
  /\ old = {} /\ pass = [r \in Replicas |-> Asleep]
  /\ pollErrors = 0 /\ deaths = 0 /\ LockInit
-----------------------------------------------------------------------------
(* The handlers: an on-ramp needs a wallet to credit. *)
OnrampRequest(q, key, hasWallet) ==
  /\ ramp[q].pc = "idle"
  /\ ramp' = [ramp EXCEPT ![q] = [key |-> key, dir |-> "onramp",
               pc |-> IF hasWallet THEN "lookup" ELSE "done"]]
  /\ UNCHANGED <<ramped, old, prov, pass, pollErrors, deaths, lockVars>>

OfframpRequest(q, key) ==
  /\ ramp[q].pc = "idle"
  /\ ramp' = [ramp EXCEPT ![q] = [key |-> key, dir |-> "offramp", pc |-> "lookup"]]
  /\ UNCHANGED <<ramped, old, prov, pass, pollErrors, deaths, lockVars>>

(* Service.InitiateOnramp, InitiateOfframp: a row with the key is the answer. *)
GetByIdempotencyKey(key) == {p \in Ramps : ramped[p] # "none" /\ ramp[p].key = key}

Lookup(q) ==
  /\ ramp[q].pc = "lookup"
  /\ RampGoto(q, IF GetByIdempotencyKey(ramp[q].key) # {} THEN "done" ELSE "call")
  /\ UNCHANGED <<ramped, old, prov, pass, pollErrors, deaths, lockVars>>

(* The STK push or the disbursement: refused, accepted, or accepted with  *)
(* the answer lost.  Nothing is stored before it.                          *)
CallProvider(q) ==
  \/ RampGoto(q, "done") /\ UNCHANGED prov
  \/ RampGoto(q, "insert") /\ prov' = [prov EXCEPT ![q] = "pending"]
  \/ RampGoto(q, "done") /\ prov' = [prov EXCEPT ![q] = "pending"]
InitiateOnramp(q) ==
  /\ ramp[q].pc = "call" /\ ramp[q].dir = "onramp" /\ CallProvider(q)
  /\ UNCHANGED <<ramped, old, pass, pollErrors, deaths, lockVars>>
InitiateOfframp(q) ==
  /\ ramp[q].pc = "call" /\ ramp[q].dir = "offramp" /\ CallProvider(q)
  /\ UNCHANGED <<ramped, old, pass, pollErrors, deaths, lockVars>>

(* The row, unique for a user and a key; a failure is only reported. *)
Create(q) ==
  /\ ramp[q].pc = "insert" /\ RampGoto(q, "done")
  /\ \/ /\ GetByIdempotencyKey(ramp[q].key) = {}
        /\ ramped' = [ramped EXCEPT ![q] = "pending"] /\ UNCHANGED pollErrors
     \/ GetByIdempotencyKey(ramp[q].key) # {} /\ UNCHANGED <<ramped, pollErrors>>
     \/ pollErrors < MaxPollErrors /\ pollErrors' = pollErrors + 1 /\ UNCHANGED ramped
  /\ UNCHANGED <<old, prov, pass, deaths, lockVars>>

(* The server dies under a request. *)
RequestDies(q) ==
  /\ ramp[q].pc \in {"call", "insert"} /\ deaths < MaxDeaths /\ deaths' = deaths + 1
  /\ RampGoto(q, "done") /\ UNCHANGED <<ramped, old, prov, pass, pollErrors, lockVars>>

(* The customer answers the prompt, or the disbursement ends. *)
ProviderSettles(q, status) ==
  /\ prov[q] = "pending" /\ prov' = [prov EXCEPT ![q] = status]
  /\ UNCHANGED <<ramp, ramped, old, pass, pollErrors, deaths, lockVars>>
-----------------------------------------------------------------------------
(* Reconciler.run and RunOnce: the timer fires and the pass runs if the    *)
(* lock is free; otherwise the tick is skipped and nothing changes.        *)
RunOnce(r) ==
  /\ pass[r].pc = "sleep" /\ Acquire(r)
  /\ pass' = [pass EXCEPT ![r].pc = "list"]
  /\ UNCHANGED <<ramp, ramped, old, prov, pollErrors, deaths>>

(* Reconcile lists the pending rows of at least reconcileMinAge. *)
ListPending(r) ==
  /\ pass[r].pc = "list"
  /\ pass' = [pass EXCEPT ![r].pc = "poll",
                          ![r].todo = {q \in old : ramped[q] = "pending"}]
  /\ UNCHANGED <<ramp, ramped, old, prov, pollErrors, deaths, lockVars>>

(* MPesaProvider.GetStatus: a query about a disbursement, or one that      *)
(* fails, reads as pending.                                                *)
GetStatus(q) == IF ramp[q].dir = "offramp" THEN "pending" ELSE prov[q]

(* Reconcile asks for one of the listed rows and skips it while pending. *)
Poll(r, q) ==
  /\ pass[r].pc = "poll" /\ q \in pass[r].todo
  /\ LET left == pass[r].todo \ {q} IN
     pass' = [pass EXCEPT ![r] =
       IF GetStatus(q) = "pending" THEN [pass[r] EXCEPT !.todo = left]
       ELSE [pc |-> "write", todo |-> left, cur |-> q, saw |-> GetStatus(q)]]
  /\ UNCHANGED <<ramp, ramped, old, prov, pollErrors, deaths, lockVars>>

(* UpdateStatus is not conditional on the row still being pending. *)
UpdateStatus(r) ==
  /\ pass[r].pc = "write"
  /\ pass' = [pass EXCEPT ![r] = [@ EXCEPT !.pc = "poll", !.cur = NoRamp, !.saw = "none"]]
  /\ \/ ramped' = [ramped EXCEPT ![pass[r].cur] = pass[r].saw] /\ UNCHANGED pollErrors
     \/ pollErrors < MaxPollErrors /\ pollErrors' = pollErrors + 1 /\ UNCHANGED ramped
  /\ UNCHANGED <<ramp, old, prov, deaths, lockVars>>

(* The list is done and the lock is released; or the release fails.  *)
EndPass(r) ==
  /\ pass[r].pc = "poll" /\ pass[r].todo = {} /\ Release(r)
  /\ pass' = [pass EXCEPT ![r] = Asleep]
  /\ UNCHANGED <<ramp, ramped, old, prov, pollErrors, deaths>>

(* A replica stops inside a pass and starts again: its key is left to the TTL. *)
ReplicaDies(r) ==
  /\ pass[r].pc # "sleep" /\ deaths < MaxDeaths /\ deaths' = deaths + 1
  /\ pass' = [pass EXCEPT ![r] = Asleep] /\ due' = due \ {r}
  /\ UNCHANGED <<ramp, ramped, old, prov, pollErrors, holder, lease, missed>>

Renew(r) == Heartbeat(r) /\ UNCHANGED <<ramp, ramped, old, prov, pass, pollErrors, deaths>>

(* A third of the lock's TTL passes, longer than reconcileMinAge. *)
Tick ==
  /\ LockTick(Running) /\ old' = {q \in Ramps : ramped[q] # "none"}
  /\ UNCHANGED <<ramp, ramped, prov, pass, pollErrors, deaths>>
-----------------------------------------------------------------------------
PassStep(r) ==
  RunOnce(r) \/ ListPending(r) \/ (\E q \in Ramps : Poll(r, q)) \/ UpdateStatus(r) \/ EndPass(r)

MobileNext ==
  \/ \E q \in Ramps :
       \/ \E key \in RampKeys : \/ \E hasWallet \in BOOLEAN : OnrampRequest(q, key, hasWallet)
                                \/ OfframpRequest(q, key)
       \/ Lookup(q) \/ InitiateOnramp(q) \/ InitiateOfframp(q) \/ Create(q) \/ RequestDies(q)
       \/ \E status \in Final : ProviderSettles(q, status)
  \/ \E r \in Replicas : PassStep(r) \/ ReplicaDies(r) \/ Renew(r)
  \/ Tick

MobileSpec == MobileInit /\ [][MobileNext]_mobileVars

(* The reconciler's loop runs until shutdown on every replica, and time passes. *)
MobileFairness ==
  /\ \A r \in Replicas : WF_mobileVars(PassStep(r)) /\ WF_mobileVars(Renew(r))
  /\ WF_mobileVars(Tick)
-----------------------------------------------------------------------------
MobileTypeOK ==
  /\ ramp \in [Ramps -> [pc : {"idle", "lookup", "call", "insert", "done"},
                           key : RampKeys \cup {NoRamp}, dir : Directions]]
  /\ ramped \in [Ramps -> Final \cup {"none", "pending"}]
  /\ prov \in [Ramps -> Final \cup {"none", "pending"}]
  /\ old \subseteq Ramps
  /\ pass \in [Replicas -> [pc : {"sleep", "list", "poll", "write"},
                            todo : SUBSET Ramps, cur : Ramps \cup {NoRamp},
                            saw : Final \cup {"none"}]]
  /\ pollErrors \in 0..MaxPollErrors /\ deaths \in 0..MaxDeaths /\ LockTypeOK

(* Two replicas reconcile at once only after two heartbeats in a row were  *)
(* lost, which is what lets the key expire under a live pass.              *)
PassesDisjoint ==
  \A r, s \in Running : r # s => missed >= TTL - 1

(* The lock leaves its owner only when the owner's pass ends or when the   *)
(* TTL runs out: a pass that outlived its lease does not release the lock  *)
(* of the replica that took over.                                          *)
OwnRelease ==
  \A r \in Replicas :
    holder = r /\ holder' # r => lease = 1 \/ (r \in Running /\ pass'[r] = Asleep)
OnlyOwnLockReleased == [][OwnRelease]_mobileVars

(* A row that is settled agrees with the provider, however many passes     *)
(* wrote it and from however old a listing.                                *)
SettledAsProvider ==
  \A q \in Ramps : ramped[q] \in Final => prov[q] = ramped[q]

(* A settled row is never reopened or changed, even by a pass that listed   *)
(* it while it was pending and that another replica has overtaken.          *)
Settled(q) == ramped[q] \in Final
KeepsSettled == \A q \in Ramps : Settled(q) => ramped'[q] = ramped[q]
SettledStays == [][KeepsSettled]_mobileVars

(* What the code keeps between its steps, on which the properties above    *)
(* rest.  A live lease: a pass that lost its lock did so because heartbeats*)
(* failed, and one that holds it has as much of the TTL left as heartbeats *)
(* got through.  A known outcome: what a pass is about to write is what    *)
(* the provider decided, of a row that is there.                           *)
OnLease(r, owner, left, timers, failed) ==
  IF owner = r THEN left >= TTL - failed - (IF r \in timers THEN 1 ELSE 0)
  ELSE failed >= TTL - 1
LeaseHeld ==
  /\ holder # NoReplica => lease >= 1
  /\ due \subseteq Running
  /\ \A r \in Running : OnLease(r, holder, lease, due, missed)
RequestKnows(f, status, outcome) ==
  /\ f.pc \in {"idle", "lookup", "call"} => outcome = "none"
  /\ f.pc = "insert" => outcome # "none"
  /\ status # "none" => f.pc = "done" /\ outcome # "none"
  /\ status \in Final => outcome = status
PassKnows(f, statuses, outcomes) ==
  /\ \A q \in f.todo : statuses[q] # "none"
  /\ f.pc = "write" => /\ f.cur \in Ramps /\ statuses[f.cur] # "none"
                       /\ f.saw \in Final /\ outcomes[f.cur] = f.saw
OutcomeKnown ==
  /\ \A q \in Ramps : RequestKnows(ramp[q], ramped[q], prov[q])
  /\ \A r \in Replicas : PassKnows(pass[r], ramped, prov)
MobileInv == MobileTypeOK /\ LeaseHeld /\ OutcomeKnown

(* An on-ramp the provider has settled is settled in the table in the end, *)
(* across lost statements, dead passes and expired locks.                  *)
OnrampDue(q) == ramped[q] = "pending" /\ ramp[q].dir = "onramp" /\ prov[q] \in Final
OnrampSettles == \A q \in Ramps : OnrampDue(q) ~> Settled(q)
=============================================================================
