------------------------------ MODULE RateLimit ------------------------------
(***************************************************************************)
(* The request limiter: middleware/ratelimit.go over a Redis sorted set,   *)
(* its in-memory fallback, the outage policy, and the limits the reloader  *)
(* may change while requests are in flight.  One key is modelled.  The     *)
(* four commands of a check are a pipeline, not a transaction: those of    *)
(* two requests interleave, and a request may be late with the time it     *)
(* read.  Time advances with every read of the clock (nanoseconds, which   *)
(* are the members of the set, are taken to be distinct).                  *)
(***************************************************************************)
EXTENDS Integers, Sequences, FiniteSets, FiniteSetsExt

CONSTANTS Requests,   \* in-flight requests
          Window,     \* length of the window in ticks
          Limits,     \* values the limit takes in an edited file, 0 invalid
          StartLimit,
          Options,    \* options of the route: "none", "failClosed", "failOpen"
          CfgFailClosed,
          MaxDelay,   \* ticks a check may take: Redis' client gives up then
          MaxTime, MaxReloads

VARIABLES route,    \* the constructor of the route's middleware, and its option
          clock,
          zset,     \* the sorted set of the key: timestamps
          memory,   \* InMemoryRateLimiter.windows of the key
          live,     \* HotReloader.cur: the limit of the route
          redisUp,
          req,      \* the frames
          admitted, \* history: [at, limit, by] of the requests let through
          reloads
limitVars == <<route, clock, zset, memory, live, redisUp, req, admitted, reloads>>

Idle == [pc |-> "idle", now |-> 0, limit |-> 0]
Absent == -1 \* the file does not set the limit

LimitInit ==
    /\ route \in [class : {"global", "auth", "resource"}, opt : Options]
    /\ clock = 0 /\ zset = {} /\ memory = {} /\ redisUp = TRUE
    /\ live = StartLimit
    /\ req = [r \in Requests |-> Idle]
    /\ admitted = {}
    /\ reloads = 0

(* resolveFailClosed: the last option that sets a policy decides. *)
resolveFailClosed(cfg, opts) ==
    LET set == {i \in 1..Len(opts) : opts[i] # "none"}
    IN IF set = {} THEN cfg ELSE opts[Max(set)] = "failClosed"

(* AuthRateLimitMiddleware adds its own option after the caller's;         *)
(* PerResourceRateLimitMiddleware resolves against an empty configuration, *)
(* in which FailClosed is false.                                           *)
AuthRateLimitMiddleware == resolveFailClosed(CfgFailClosed, <<route.opt, "failClosed">>)
PerResourceRateLimitMiddleware == resolveFailClosed(FALSE, <<route.opt>>)
failClosed ==
    CASE route.class = "global" -> resolveFailClosed(CfgFailClosed, <<route.opt>>)
      [] route.class = "auth" -> AuthRateLimitMiddleware
      [] route.class = "resource" -> PerResourceRateLimitMiddleware

(* The clock moves on unless a check would be later than its timeouts. *)
Now == clock + 1
Tick ==
    /\ clock < MaxTime
    /\ \A r \in Requests : req[r].pc # "idle" => Now - req[r].now <= MaxDelay
    /\ clock' = Now

Admit(r, at, by) ==
    /\ admitted' = admitted \cup {[at |-> at, limit |-> req[r].limit, by |-> by]}
    /\ req' = [req EXCEPT ![r] = Idle]
Refuse(r) == req' = [req EXCEPT ![r] = Idle] /\ UNCHANGED admitted

(* RateLimitMiddleware: the live limit is read, then the clock.  A         *)
(* resource keeps the limit of the start.                                  *)
currentLimits == IF route.class = "resource" THEN StartLimit ELSE live
RateLimitMiddleware(r) ==
    /\ req[r].pc = "idle" /\ Tick
    /\ req' = [req EXCEPT ![r] = [pc |-> "zrem", now |-> Now,
                                  limit |-> currentLimits]]
    /\ UNCHANGED <<route, zset, memory, live, redisUp, admitted, reloads>>

(* The pipeline: what left the window goes... *)
ZRemRangeByScore(r) ==
    /\ req[r].pc = "zrem" /\ redisUp
    /\ zset' = {t \in zset : t > req[r].now - Window}
    /\ req' = [req EXCEPT ![r].pc = "zadd"]
    /\ UNCHANGED <<route, clock, memory, live, redisUp, admitted, reloads>>

(* ... the request is added, before it is known whether it may pass... *)
ZAdd(r) ==
    /\ req[r].pc = "zadd" /\ redisUp
    /\ zset' = zset \cup {req[r].now}
    /\ req' = [req EXCEPT ![r].pc = "zcard"]
    /\ UNCHANGED <<route, clock, memory, live, redisUp, admitted, reloads>>

WithinLimit(n, limit) == n <= limit

(* ... and the set is counted; the answers reach the middleware. *)
checkLimitWithWindow(r) ==
    /\ req[r].pc = "zcard" /\ redisUp
    /\ IF WithinLimit(Cardinality(zset), req[r].limit) THEN Admit(r, req[r].now, "redis") ELSE Refuse(r)
    /\ UNCHANGED <<route, clock, zset, memory, live, redisUp, reloads>>

Recent == {t \in memory : t > Now - Window}

(* InMemoryRateLimiter.Check, under its mutex; it reads the clock itself.  *)
(* Unlike the sorted set it does not count the requests it refused.        *)
InMemoryCheck(r) ==
    IF Cardinality(Recent) >= req[r].limit
    THEN memory' = Recent /\ Refuse(r)
    ELSE memory' = Recent \cup {Now} /\ Admit(r, Now, "memory")

(* enforceRateLimit when the pipeline failed: 503, or the memory decides.  *)
enforceRateLimit(r) ==
    /\ req[r].pc \in {"zrem", "zadd", "zcard"} /\ ~redisUp
    /\ IF failClosed
       THEN Refuse(r) /\ UNCHANGED <<clock, memory>>
       ELSE Tick /\ InMemoryCheck(r)
    /\ UNCHANGED <<route, zset, live, redisUp, reloads>>

(* External: Redis goes away and comes back with its data. *)
Outage == redisUp' = ~redisUp /\ UNCHANGED <<route, clock, zset, memory, live, req, admitted, reloads>>

(* HotReloader.Apply: the copy takes every key the file has, and is        *)
(* swapped in when the limit and the keys of the other routes and of the   *)
(* log (`others`) are all valid; a file with one bad key changes nothing.  *)
Valid(f) == (f.limit = Absent \/ f.limit > 0) /\ f.others
Apply(f) == IF Valid(f) /\ f.limit # Absent THEN f.limit ELSE live

(* Watch: the file was edited. *)
Watch(f) ==
    /\ reloads < MaxReloads
    /\ reloads' = reloads + 1
    /\ live' = Apply(f)
    /\ UNCHANGED <<route, clock, zset, memory, redisUp, req, admitted>>

LimitNext ==
    \/ \E r \in Requests :
          \/ RateLimitMiddleware(r)
          \/ ZRemRangeByScore(r) \/ ZAdd(r) \/ checkLimitWithWindow(r)
          \/ enforceRateLimit(r)
    \/ Outage
    \/ \E n \in Limits \cup {Absent}, ok \in BOOLEAN : Watch([limit |-> n, others |-> ok])
LimitSpec == LimitInit /\ [][LimitNext]_limitVars

-----------------------------------------------------------------------------
(* Timestamps do not lie ahead of the clock. *)
LimitTypeOK ==
    /\ clock \in 0..MaxTime
    /\ zset \subseteq 1..clock /\ memory \subseteq 1..clock
    /\ live \in Limits \cup {StartLimit}

InWindow(t, w, by) == {a \in admitted : a.by = by /\ a.at > t - w /\ a.at <= t}
Bounded(A) == A = {} \/ Cardinality(A) <= Max({a.limit : a \in A})

(* However the pipelines of concurrent requests interleave and whatever    *)
(* the reloader does, a window has no more requests admitted by Redis than *)
(* the largest limit one of them was checked against.  A late pipeline may *)
(* remove what a later one should still count, so the window that is       *)
(* guaranteed is shorter than the configured one by the longest delay.     *)
WindowHolds == \A t \in 1..clock : Bounded(InWindow(t, Window - MaxDelay, "redis"))

(* The in-memory fallback reads the clock and counts under one mutex: it   *)
(* keeps the whole window.                                                 *)
MemoryWindowHolds == \A t \in 1..clock : Bounded(InWindow(t, Window, "memory"))
=============================================================================
