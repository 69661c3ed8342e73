-------------------------- MODULE ServerLifecycle --------------------------
(***************************************************************************)
(* The life of one api-server process: the listener of internal/api        *)
(* (Start, Shutdown), the hooks cmd/api-server gives it, the background    *)
(* loops and the pools they use, and the health probes that run            *)
(* throughout.  Requests, loops, the shutdown deadline and the             *)
(* dependencies move on their own between any two steps.                   *)
(***************************************************************************)
EXTENDS Naturals, Sequences

CONSTANTS
  Requests,   \* HTTP requests
  Loops,      \* the background loops followed here, among those of DrainHooks
  MaxFaults   \* bound: changes of a dependency

VARIABLES
  phase,        \* where RunServerWithHooks is
  hook,         \* the next hook of that phase
  shuttingDown, \* HealthHandler.shuttingDown
  deadline,     \* the context of Shutdown has expired
  forced,       \* Shutdown returned ErrDrainDeadlineExceeded
  req,          \* each request
  loop,         \* each loop's goroutine
  stopping,     \* loops whose stop channel is closed
  abandoned,    \* loops whose Stop gave up waiting
  pools,        \* the pools still open
  dep,          \* what each dependency answers
  probe,        \* the probe being answered
  unhealthy,    \* history: dependencies unhealthy ever since it began
  answer,       \* its status code and body
  faults

lifeVars == <<phase, hook, shuttingDown, deadline, forced, req, loop, stopping,
              abandoned, pools, dep, probe, unhealthy, answer, faults>>
probeVars == <<probe, unhealthy, answer>>
mainVars == <<phase, hook, forced>>

(* RunServerWithHooks adds tracing.Shutdown behind the hooks of main. *)
DrainHooks == <<"hub", "bridge", "monitor", "flags", "reconciler", "flusher",
                "sweeper", "cleaner", "tracing">>
CloseLast == <<"rabbitmq", "redis", "postgres">>
(* Stop waits for the loop's doneCh; stopPoolMonitor and Cache.Stop do not. *)
Awaited == {"reconciler", "flusher", "sweeper", "cleaner"}
Stopped == Awaited \cup {"monitor", "flags"}

Deps == {"postgres", "redis", "rabbitmq", "rpc", "horizon"}
Core == {"postgres", "redis", "rabbitmq"}
Answers == {"ok", "not found", "failed"}

HealthOrder == <<"postgres", "redis", "rpc", "horizon", "rabbitmq">>
ReadyOrder == <<"postgres", "redis", "rabbitmq", "rpc", "horizon">>
NoProbe == [kind |-> "none", at |-> 1, failed |-> {}]
Alive == phase \notin {"new", "failed", "exited"}
-----------------------------------------------------------------------------
checkPostgres == dep["postgres"] = "ok" /\ "postgres" \in pools
checkRedis == dep["redis"] = "ok" /\ "redis" \in pools
checkRabbitMQ == dep["rabbitmq"] = "ok" /\ "rabbitmq" \in pools
checkStellarRPC == dep["rpc"] = "ok"
checkHorizon == dep["horizon"] \in {"ok", "not found"}
Check(d) ==
  CASE d = "postgres" -> checkPostgres
    [] d = "redis" -> checkRedis
    [] d = "rabbitmq" -> checkRabbitMQ
    [] d = "rpc" -> checkStellarRPC
    [] d = "horizon" -> checkHorizon
Idle == probe.kind = "none" /\ Alive /\ phase # "draining"
Begin(kind) ==
  /\ probe' = [kind |-> kind, at |-> 1, failed |-> {}]
  /\ unhealthy' = {d \in Deps : ~Check(d)}
  /\ answer' = "none"

(* One check of the probe in progress: each asks its dependency anew. *)
ProbeStep(order) ==
  LET d == order[probe.at]
  IN  /\ probe.at <= Len(order)
      /\ probe' = [probe EXCEPT !.at = @ + 1,
                     !.failed = IF Check(d) THEN @ ELSE @ \cup {d}]
      /\ UNCHANGED <<unhealthy, answer>>

Health ==
  \/ Idle /\ Begin("health")
  \/ probe.kind = "health" /\ ProbeStep(HealthOrder)
  \/ /\ probe.kind = "health" /\ probe.at > Len(HealthOrder)
     /\ answer' = IF probe.failed \cap Core # {} THEN "503"
                  ELSE IF probe.failed # {} THEN "200 degraded" ELSE "200 ok"
     /\ probe' = NoProbe /\ UNCHANGED unhealthy

Readiness ==
  \/ Idle /\ shuttingDown /\ answer' = "503" /\ UNCHANGED <<probe, unhealthy>>
  \/ Idle /\ ~shuttingDown /\ Begin("ready")
  \/ probe.kind = "ready" /\ ProbeStep(ReadyOrder)
  \/ /\ probe.kind = "ready" /\ probe.at > Len(ReadyOrder)
     /\ answer' = IF probe.failed # {} THEN "503" ELSE "200 ready"
     /\ probe' = NoProbe /\ UNCHANGED unhealthy

Probes ==
  /\ Health \/ Readiness
  /\ UNCHANGED <<mainVars, shuttingDown, deadline, req, loop, stopping, abandoned,
                 pools, dep, faults>>
-----------------------------------------------------------------------------
(* Start binds the listener and the redirect listener, or fails. *)
Start ==
  /\ phase = "new"
  /\ phase' \in {"serving", "failed"}
  /\ UNCHANGED <<hook, forced, shuttingDown, deadline, stopping, abandoned, req, pools>>

(* The signal: BeginShutdown runs before anything else. *)
PreDrain ==
  /\ phase = "serving" /\ phase' = "delaying"
  /\ shuttingDown' = TRUE
  /\ UNCHANGED <<hook, forced, deadline, stopping, abandoned, req, pools>>

(* A serve failure returns at once: no hook runs and main exits. *)
ServeFails ==
  /\ phase = "serving" /\ phase' = "failed"
  /\ UNCHANGED <<hook, forced, shuttingDown, deadline, stopping, abandoned, req, pools>>

(* ShutdownDelay has passed, or the deadline: the listener is closed. *)
StopAccepting ==
  /\ phase = "delaying" /\ phase' = "draining"
  /\ UNCHANGED <<hook, forced, shuttingDown, deadline, stopping, abandoned, req, pools>>

Running == {r \in Requests : req[r] = "running"}
ToHooks == phase' = "hooks" /\ hook' = 1

(* srv.Shutdown, and srv.Close when its context expires first. *)
Drain ==
  /\ phase = "draining" /\ ToHooks
  /\ \/ Running = {} /\ UNCHANGED <<forced, req>>
     \/ /\ deadline /\ Running # {} /\ forced' = TRUE
        /\ req' = [r \in Requests |-> IF r \in Running THEN "cut" ELSE req[r]]
  /\ UNCHANGED <<shuttingDown, deadline, stopping, abandoned, pools>>

NextHook ==
  IF hook < Len(DrainHooks) THEN hook' = hook + 1 /\ UNCHANGED phase
  ELSE phase' = "closing" /\ hook' = 1

(* Mutated form: Stop waits for the loop however long it takes. *)
RunHookPatient ==
  LET l == DrainHooks[hook]
  IN  /\ phase = "hooks"
      /\ \/ /\ l \in Stopped \ stopping
            /\ stopping' = stopping \cup {l} /\ UNCHANGED <<phase, hook>>
         \/ /\ l \notin Stopped \ stopping
            /\ l \in Loops \cap Awaited => loop[l] = "gone"
            /\ NextHook /\ UNCHANGED stopping
      /\ UNCHANGED <<forced, req, shuttingDown, deadline, abandoned, pools>>

(* One drain hook: a Stop closes the loop's channel, then waits for the     *)
(* loop's end or for one interval, which a slow pass outlives.  The hub and *)
(* the tracer give up at the deadline; the bridge's consumer ends when its  *)
(* subscription is closed.                                                  *)
RunHook ==
  LET l == DrainHooks[hook]
  IN  /\ phase = "hooks"
      /\ \/ /\ l \in Stopped \ stopping
            /\ stopping' = stopping \cup {l}
            /\ UNCHANGED <<phase, hook, abandoned>>
         \/ /\ l \notin Stopped \ stopping
            /\ l \in Loops \cap Awaited => loop[l] \in {"gone", "slow"}
            /\ abandoned' = abandoned \cup
                 {x \in {l} \cap Loops \cap Awaited : loop[x] = "slow"}
            /\ NextHook /\ UNCHANGED stopping
      /\ UNCHANGED <<forced, req, shuttingDown, deadline, pools>>

ClosePool ==
  /\ phase = "closing"
  /\ pools' = pools \ {CloseLast[hook]}
  /\ IF hook < Len(CloseLast) THEN hook' = hook + 1 /\ UNCHANGED phase
     ELSE phase' = "exited" /\ hook' = 1
  /\ UNCHANGED <<forced, req, shuttingDown, deadline, stopping, abandoned>>

RunServerWithHooks ==
  /\ Start \/ PreDrain \/ ServeFails \/ StopAccepting \/ Drain \/ RunHook \/ ClosePool
  /\ UNCHANGED <<loop, probeVars, dep, faults>>
-----------------------------------------------------------------------------
Expire ==
  /\ phase \in {"delaying", "draining", "hooks"} /\ ~deadline /\ deadline' = TRUE
  /\ UNCHANGED <<mainVars, shuttingDown, req, loop, stopping, abandoned, pools,
                 dep, probeVars, faults>>

(* Requests come in until the listener is closed. *)
Accept(r) ==
  /\ phase \in {"serving", "delaying"} /\ req[r] = "none"
  /\ req' = [req EXCEPT ![r] = "running"]
Answer(r) ==
  /\ Alive /\ req[r] \in {"running", "cut"}
  /\ req' = [req EXCEPT ![r] = "done"]
RequestStep(r) ==
  /\ Accept(r) \/ Answer(r)
  /\ UNCHANGED <<mainVars, shuttingDown, deadline, loop, stopping, abandoned,
                 pools, dep, probeVars, faults>>

(* The loop's select: with a tick and the stop channel both ready, Go picks *)
(* either.  The ticker holds one tick, so that a pass that begins after the *)
(* stop and is quicker than the interval is the last; a slow one does not   *)
(* end while its Stop waits.                                                *)
LoopTick(l) ==
  /\ loop[l] = "idle"
  /\ \E pass \in {IF l \in stopping THEN "last" ELSE "busy", "slow"} :
        loop' = [loop EXCEPT ![l] = pass]
WaitedFor(l) == phase = "hooks" /\ DrainHooks[hook] = l /\ l \in stopping
LoopDone(l) ==
  /\ loop[l] \in {"busy", "last"} \/ (loop[l] = "slow" /\ ~WaitedFor(l))
  /\ loop' = [loop EXCEPT ![l] = IF @ = "last" THEN "told" ELSE "idle"]
LoopEnds(l) ==
  /\ loop[l] \in {"idle", "told"} /\ l \in stopping
  /\ loop' = [loop EXCEPT ![l] = "gone"]
LoopOnly ==
  UNCHANGED <<mainVars, shuttingDown, deadline, req, stopping, abandoned,
              pools, dep, probeVars, faults>>
LoopStep(l) == Alive /\ (LoopTick(l) \/ LoopDone(l) \/ LoopEnds(l)) /\ LoopOnly

(* What a loop does of itself, unless its pass is a slow one. *)
LoopRuns(l) ==
  Alive /\ loop[l] # "slow" /\ (LoopDone(l) \/ LoopEnds(l)) /\ LoopOnly

DepChanges(d) ==
  /\ Alive /\ faults < MaxFaults /\ faults' = faults + 1
  /\ \E a \in (IF d = "horizon" THEN Answers ELSE {"ok", "failed"}) \ {dep[d]} :
        dep' = [dep EXCEPT ![d] = a]
  /\ UNCHANGED <<mainVars, shuttingDown, deadline, req, loop, stopping, abandoned,
                 pools, probe, answer>>
  /\ unhealthy' = {x \in unhealthy : x # d \/ ~Check(x)'}

LifeInit ==
  /\ phase = "new" /\ hook = 1 /\ shuttingDown = FALSE /\ deadline = FALSE
  /\ forced = FALSE /\ req = [r \in Requests |-> "none"]
  /\ loop = [l \in Loops |-> "idle"] /\ stopping = {} /\ abandoned = {}
  /\ pools = {"rabbitmq", "redis", "postgres"}
  /\ dep = [d \in Deps |-> "ok"] /\ probe = NoProbe /\ unhealthy = {}
  /\ answer = "none" /\ faults = 0

LifeNext ==
  \/ RunServerWithHooks \/ Expire \/ Probes
  \/ \E r \in Requests : RequestStep(r)
  \/ \E l \in Loops : LoopStep(l)
  \/ \E d \in Deps : DepChanges(d)

LifeSpec == LifeInit /\ [][LifeNext]_lifeVars
(* The main goroutine keeps running, the deadline's timer fires, and a loop *)
(* that is not in a slow pass goes on.                                      *)
LifeFairness ==
  /\ WF_lifeVars(RunServerWithHooks) /\ WF_lifeVars(Expire)
  /\ \A l \in Loops : WF_lifeVars(LoopRuns(l))
LifeFairSpec == LifeSpec /\ LifeFairness
-----------------------------------------------------------------------------
LifeTypeOK ==
  /\ phase \in {"new", "serving", "failed", "delaying", "draining", "hooks",
                "closing", "exited"}
  /\ hook \in 1..Len(DrainHooks)
  /\ {shuttingDown, deadline, forced} \subseteq BOOLEAN
  /\ req \in [Requests -> {"none", "running", "cut", "done"}]
  /\ loop \in [Loops -> {"idle", "busy", "slow", "last", "told", "gone"}]
  /\ stopping \subseteq Stopped /\ abandoned \subseteq stopping \cap Awaited
  /\ pools \subseteq {"rabbitmq", "redis", "postgres"}
  /\ probe.at \in 1..6 /\ probe.failed \subseteq Deps /\ unhealthy \subseteq Deps

(* Pools are closed under nobody who was promised them: a request that was  *)
(* not cut off at the deadline, and a loop with a Stop that waits, unless   *)
(* its pass outlived the interval, never run with a pool closed, although a *)
(* loop may begin another pass after it was told to stop (Shutdown's        *)
(* CloseLast stage, which "in-flight work may still need until this point").*)
PoolsOutliveWork ==
  pools # {"rabbitmq", "redis", "postgres"} =>
    /\ Running = {}
    /\ \A l \in (Loops \cap Awaited) \ abandoned : loop[l] = "gone"

(* A 200 means that no dependency that matters was down from the probe's    *)
(* first check to its last, and the listener is never closed before         *)
(* readiness fails.                                                         *)
ProbeHonest ==
  /\ phase \in {"delaying", "draining", "hooks", "closing"} => shuttingDown
  /\ answer = "200 ready" => unhealthy = {}
  /\ answer \in {"200 ok", "200 degraded"} => unhealthy \cap Core = {}

(* Every stage of Shutdown runs even when an earlier one times out, so the  *)
(* pools are always closed in the end.                                      *)
ShutdownBegun == phase = "delaying"
AllClosed == phase = "exited" /\ pools = {}
ShutdownEnds == ShutdownBegun ~> AllClosed
=============================================================================
