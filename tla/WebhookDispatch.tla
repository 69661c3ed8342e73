---------------------------- MODULE WebhookDispatch ----------------------------
(***************************************************************************)
(* Outgoing webhooks: registrations, the dispatcher's goroutines under     *)
(* their semaphore, the hand-over of a failed delivery to the job queue or *)
(* to the in-memory retry, and Shutdown.  One goroutine per payload and    *)
(* registration; the job queue's own behaviour is in JobQueue.             *)
(***************************************************************************)
EXTENDS Integers, FiniteSets

CONSTANTS
  Hooks,           \* registrations
  Payloads,        \* dispatched payloads, one DispatchPayload each
  MaxConcurrency,  \* slots of the semaphore: 25 in the code
  maxRetries,      \* as the callers of DispatchPayload give it
  HasJobQueue      \* WithJobQueue was given

VARIABLES
  hooks,      \* rows of webhooks
  call,       \* per payload: the step of its DispatchPayload, the rows it loaded
  go,         \* per payload and registration: the goroutine
  jobs,       \* retry jobs: sends left
  sent,       \* sends, per payload and registration
  got,        \* sends the target answered with 2xx
  closed, stop, waited

hookVars == <<hooks, call, go, jobs, sent, got, closed, stop, waited>>
Sends == Payloads \X Hooks
server == <<closed, stop, waited>>
Running == {s \in Sends : go[s] \notin {"none", "done"}}
holders == {s \in Sends : go[s] \in {"send", "handover", "retry"}}

HookInit ==
  /\ hooks \in SUBSET Hooks
  /\ call = [p \in Payloads |-> "none"]
  /\ go = [s \in Sends |-> "none"] /\ jobs = [s \in Sends |-> 0]
  /\ sent = [s \in Sends |-> 0] /\ got = {}
  /\ closed = FALSE /\ stop = FALSE /\ waited = FALSE

(* RegisterWebhook keeps the hash of a fresh secret; DeleteWebhook and     *)
(* ListDeliveries answer not found to everyone but the owner.              *)
RegisterWebhook(h) ==
  /\ h \notin hooks /\ hooks' = hooks \cup {h} /\ UNCHANGED <<call, go, jobs, sent, got, server>>
DeleteWebhook(h) ==
  /\ h \in hooks /\ hooks' = hooks \ {h} /\ UNCHANGED <<call, go, jobs, sent, got, server>>
-----------------------------------------------------------------------------
(* DispatchPayload: the closed flag is read under its lock, the rows are   *)
(* loaded after it was released.                                           *)
CheckClosed(p) ==
  /\ call[p] = "none" /\ call' = [call EXCEPT ![p] = IF closed THEN "refused" ELSE "load"]
  /\ UNCHANGED <<hooks, go, jobs, sent, got, server>>
GetActiveWebhooks(p) ==
  /\ call[p] = "load"
  /\ \/ /\ call' = [call EXCEPT ![p] = "ok"]
        /\ go' = [s \in Sends |-> IF s[1] = p /\ s[2] \in hooks THEN "slot" ELSE go[s]]
     \/ call' = [call EXCEPT ![p] = "error"] /\ UNCHANGED go
  /\ UNCHANGED <<hooks, jobs, sent, got, server>>

TakeSlotFree(s) ==  \* Mutated form: the delivery does not wait for a slot.
  /\ go[s] = "slot" /\ go' = [go EXCEPT ![s] = "send"]
  /\ UNCHANGED <<hooks, call, jobs, sent, got, server>>
TakeSlot(s) ==
  /\ go[s] = "slot"
  /\ \/ Cardinality(holders) < MaxConcurrency /\ go' = [go EXCEPT ![s] = "send"]
     \/ stop /\ go' = [go EXCEPT ![s] = "done"]
  /\ UNCHANGED <<hooks, call, jobs, sent, got, server>>

(* sendHTTP: an error may come after the target handled the request. *)
sendHTTP(s, ok, failed) ==
  /\ sent' = [sent EXCEPT ![s] = @ + 1]
  /\ \/ ok /\ got' = got \cup {s}
     \/ failed /\ got' \in {got, got \cup {s}}

deliverWithRetry(s) ==
  /\ go[s] = "send"
  /\ sendHTTP(s, go' = [go EXCEPT ![s] = "done"], go' = [go EXCEPT ![s] = "handover"])
  /\ UNCHANGED <<hooks, call, jobs, server>>
HandOver(s) ==
  /\ go[s] = "handover"
  /\ \/ /\ HasJobQueue /\ maxRetries > 1 /\ jobs' = [jobs EXCEPT ![s] = maxRetries]
        /\ go' = [go EXCEPT ![s] = "done"]
     \/ go' = [go EXCEPT ![s] = "retry"] /\ UNCHANGED jobs  \* no queue, or Enqueue failed
  /\ UNCHANGED <<hooks, call, sent, got, server>>

inMemoryRetry(s) ==
  /\ go[s] = "retry"
  /\ \/ /\ stop \/ sent[s] >= maxRetries
        /\ go' = [go EXCEPT ![s] = "done"] /\ UNCHANGED <<sent, got>>
     \/ /\ sent[s] < maxRetries
        /\ sendHTTP(s, go' = [go EXCEPT ![s] = "done"], UNCHANGED go)
  /\ UNCHANGED <<hooks, call, jobs, server>>

(* A worker of the job queue runs the job until it succeeds or is given up. *)
ProcessRetryJob(s) ==
  /\ jobs[s] > 0
  /\ sendHTTP(s, jobs' = [jobs EXCEPT ![s] = 0], jobs' = [jobs EXCEPT ![s] = @ - 1])
  /\ UNCHANGED <<hooks, call, go, server>>
-----------------------------------------------------------------------------
(* Shutdown: no dispatch begins any more; it returns when every goroutine  *)
(* is done, or closes stop when its context ends.                          *)
Shutdown ==
  /\ \/ ~closed /\ closed' = TRUE /\ UNCHANGED <<stop, waited>>
     \/ closed /\ ~waited /\ ~stop /\ Running = {} /\ waited' = TRUE /\ UNCHANGED <<closed, stop>>
     \/ closed /\ ~waited /\ ~stop /\ stop' = TRUE /\ UNCHANGED <<closed, waited>>
  /\ UNCHANGED <<hooks, call, go, jobs, sent, got>>

HookStep(s) == TakeSlot(s) \/ deliverWithRetry(s) \/ HandOver(s) \/ inMemoryRetry(s) \/ ProcessRetryJob(s)
HookNext ==
  \/ \E h \in Hooks : RegisterWebhook(h) \/ DeleteWebhook(h)
  \/ \E p \in Payloads : CheckClosed(p) \/ GetActiveWebhooks(p)
  \/ \E s \in Sends : HookStep(s)
  \/ Shutdown
HookSpec == HookInit /\ [][HookNext]_hookVars
-----------------------------------------------------------------------------
(* Types, and the semaphore's bound on simultaneous deliveries. *)
HookTypeOK ==
  /\ hooks \subseteq Hooks /\ got \subseteq Sends
  /\ Cardinality(holders) <= MaxConcurrency

(* A delivery is only given up after maxRetries sends, or because Shutdown *)
(* ran out of time: the job and the in-memory retry stand in for each      *)
(* other.                                                                  *)
NotGivenUpEarly ==
  \A s \in Sends :
    go[s] = "done" /\ jobs[s] = 0 /\ s \notin got => sent[s] >= maxRetries \/ stop

(* A target is offered a payload once, and then by the job or by the       *)
(* in-memory retry, never by both (an operator may reset a dead job; that   *)
(* is JobQueue's RetryDeadLetterJob, and left out here).                    *)
SendsBounded == \A s \in Sends : sent[s] <= 1 + maxRetries
=============================================================================
