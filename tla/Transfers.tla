------------------------------ MODULE Transfers ------------------------------
(***************************************************************************)
(* Yellow Card deposits and withdrawals of one user: the idempotency       *)
(* middleware, the two handlers of DepositHandler, the deposits and        *)
(* withdrawals rows and the provider's notifications about them.  A        *)
(* request is named by the row it may create.  The rate limiter, the       *)
(* wallet lookup and the quote are their answers.                          *)
(***************************************************************************)
EXTENDS Integers, FiniteSets

CONSTANTS
  Callers,     \* HTTP requests that may arrive
  Keys,        \* Idempotency-Key header values
  BodyKeys,    \* idempotencyKey values of the JSON body
  NoKey,       \* an absent key
  Amounts,     \* requested amounts
  MaxAmount,   \* the per-transaction cap
  DailyCap,    \* the daily cap
  MaxMillis,   \* bound: milliseconds that pass (payment references)
  MaxMishaps   \* bound: requests cut off (crash, panic, cancelled context)
               \* and Redis keys whose TTL runs out

(* Amounts are whole cents, and bounds are numbers. *)
ASSUME TransfersAssumption == Amounts \subseteq Nat /\ MaxMillis \in Nat /\ MaxMishaps \in Nat

Kinds == {"deposit", "withdraw"}
Absent == 0      \* no such key in Redis
Processing == 1  \* the marker of a request in flight
OkAnswer == 200  \* the answers with a transfer
Refused == 400   \* every other answer: 400, 409, 428, 429, 500 or 503
Routes == Kinds \X Keys

VARIABLES
  idem,     \* Redis, the middleware's keys: Absent, Processing or a status code
  life,     \* how often each of those keys has lapsed
  cached,   \* Redis, the handlers' own response cache: <<kind, key>> pairs
  daily,    \* Redis, today's total of each kind
  req,      \* the frame of each request
  rows,     \* deposits.status or withdrawals.status of the row of each request
  yc,       \* the provider's transfer for each request
  notices,  \* notifications <<kind, payment reference, status>> the provider posted
  millis, mishaps

transferVars == <<idem, life, cached, daily, req, rows, yc, notices, millis, mishaps>>
redis == <<idem, life, cached, daily>>
mishapVars == <<millis, mishaps>>

NoCall == [pc |-> "idle", kind |-> "deposit", key |-> NoKey, body |-> NoKey,
           amount |-> 0, ref |-> 0, life |-> 0, code |-> 0]
Live(r) == req[r].pc \notin {"idle", "done", "dead"}
Proceed(r, pc) == req' = [req EXCEPT ![r].pc = pc]
Answer(r, code) == req' = [req EXCEPT ![r].pc = "respond", ![r].code = code]
Route(r) == <<req[r].kind, req[r].key>>

(* The key the handler uses: the body's, else the header's. *)
getIdempotencyKey(r) == IF req[r].body # NoKey THEN req[r].body ELSE req[r].key

TransfersInit ==
  /\ idem = [x \in Routes |-> Absent] /\ life = [x \in Routes |-> 0]
  /\ cached = {} /\ daily = [k \in Kinds |-> 0]
  /\ req = [r \in Callers |-> NoCall]
  /\ rows = [r \in Callers |-> "none"] /\ yc = [r \in Callers |-> "none"]
  /\ notices = {} /\ millis = 0 /\ mishaps = 0
-----------------------------------------------------------------------------
(* IdempotencyMiddleware: SET NX claims the key. *)
ClaimableFinished(x) == idem[x] \in {Absent, Processing}  \* Mutated form: a plain look-up of finished answers.
Claimable(x) == idem[x] = Absent

Claim(r, kind, key, body, amount) ==
  LET x == <<kind, key>>
      frame == [NoCall EXCEPT !.kind = kind, !.key = key, !.body = body,
                              !.amount = amount, !.life = life[x]]
  IN /\ req[r].pc = "idle"
     /\ \/ /\ Claimable(x) /\ idem' = [idem EXCEPT ![x] = Processing]
           /\ req' = [req EXCEPT ![r] = [frame EXCEPT !.pc = "check"]]
        \/ /\ ~Claimable(x) /\ UNCHANGED idem
           /\ req' = [req EXCEPT ![r] = [frame EXCEPT !.pc = "replay"]]
     /\ UNCHANGED <<life, cached, daily, rows, yc, notices, mishapVars>>

(* RequireIdempotencyKey turns a request without a key away, and a Redis   *)
(* error in the middleware is answered 503: nothing else happens.          *)
TurnAway(r) ==
  /\ req[r].pc = "idle"
  /\ req' = [req EXCEPT ![r] = [NoCall EXCEPT !.pc = "done", !.code = Refused]]
  /\ UNCHANGED <<redis, rows, yc, notices, mishapVars>>

(* tryReplay: the stored answer, or a conflict while there is none. *)
tryReplay(r) ==
  /\ req[r].pc = "replay"
  /\ req' = [req EXCEPT ![r].pc = "done",
               ![r].code = IF idem[Route(r)] \in {Absent, Processing}
                           THEN Refused ELSE idem[Route(r)]]
  /\ UNCHANGED <<redis, rows, yc, notices, mishapVars>>

(* The answer, whoever gave it, is stored under the key. *)
Respond(r) ==
  /\ req[r].pc = "respond" /\ Proceed(r, "done")
  /\ idem' = [idem EXCEPT ![Route(r)] = req[r].code]
  /\ UNCHANGED <<life, cached, daily, rows, yc, notices, mishapVars>>

(* A crash, a recovered panic or a cancelled request context ends a        *)
(* request without the middleware's last statement.                        *)
Die(r) ==
  /\ Live(r) /\ mishaps < MaxMishaps /\ mishaps' = mishaps + 1
  /\ Proceed(r, "dead")
  /\ UNCHANGED <<redis, rows, yc, notices, millis>>

(* The keys of the middleware and of the handlers live for a day, which no *)
(* request outlasts.                                                       *)
Lapse(x) ==
  /\ idem[x] # Absent /\ mishaps < MaxMishaps
  /\ \A r \in Callers : Live(r) => Route(r) # x
  /\ idem' = [idem EXCEPT ![x] = Absent] /\ life' = [life EXCEPT ![x] = @ + 1]
  /\ mishaps' = mishaps + 1
  /\ UNCHANGED <<cached, daily, req, rows, yc, notices, millis>>

LapseCached(c) ==
  /\ c \in cached /\ mishaps < MaxMishaps
  /\ cached' = cached \ {c} /\ mishaps' = mishaps + 1
  /\ UNCHANGED <<idem, life, daily, req, rows, yc, notices, millis>>
-----------------------------------------------------------------------------
(* perResource("wallet-transfer") and the first part of the handlers: the *)
(* request may be refused (rate, body, currency), answered from the cache, *)
(* or be over the per-transaction cap.                                     *)
currencyCaps(r, known) == known /\ req[r].amount <= MaxAmount
Cached(r) == <<req[r].kind, getIdempotencyKey(r)>> \in cached
Check(r, known) ==
  IF Cached(r) THEN Answer(r, OkAnswer)
  ELSE IF currencyCaps(r, known) THEN Proceed(r, "cap") ELSE Answer(r, Refused)

InitiateDeposit(r) ==
  /\ req[r].pc = "check" /\ req[r].kind = "deposit"
  /\ Answer(r, Refused) \/ \E known \in BOOLEAN : Check(r, known)
  /\ UNCHANGED <<redis, rows, yc, notices, mishapVars>>
(* With the kyc_required flag every withdrawal is refused. *)
InitiateWithdraw(r) ==
  /\ req[r].pc = "check" /\ req[r].kind = "withdraw"
  /\ \E kycRequired, known \in BOOLEAN :
       IF kycRequired THEN Answer(r, Refused) ELSE Answer(r, Refused) \/ Check(r, known)
  /\ UNCHANGED <<redis, rows, yc, notices, mishapVars>>

(* The daily cap is compared with the total as it is now. *)
WithinDailyCap(r) == daily[req[r].kind] + req[r].amount <= DailyCap

ReadDaily(r) ==
  /\ req[r].pc = "cap"
  /\ IF WithinDailyCap(r) THEN Proceed(r, "call") ELSE Answer(r, Refused)
  /\ UNCHANGED <<redis, rows, yc, notices, mishapVars>>

(* Wallet, quote, and CreateReceive or CreateSend with a reference made of *)
(* the current millisecond; the call can fail, or be accepted and have its *)
(* answer lost.                                                            *)
CallYellowCard(r) ==
  \/ Answer(r, Refused) /\ UNCHANGED yc
  \/ /\ yc' = [yc EXCEPT ![r] = "pending"]
     /\ req' = [req EXCEPT ![r].ref = millis, ![r].pc = "persist"]
  \/ /\ yc' = [yc EXCEPT ![r] = "pending"]
     /\ req' = [req EXCEPT ![r].ref = millis, ![r].pc = "respond", ![r].code = Refused]
CreateReceive(r) ==
  /\ req[r].pc = "call" /\ req[r].kind = "deposit" /\ CallYellowCard(r)
  /\ UNCHANGED <<redis, rows, notices, mishapVars>>
CreateSend(r) ==
  /\ req[r].pc = "call" /\ req[r].kind = "withdraw" /\ CallYellowCard(r)
  /\ UNCHANGED <<redis, rows, notices, mishapVars>>

(* payment_ref is unique in each table. *)
RefTaken(r) ==
  \E s \in Callers : /\ rows[s] # "none"
                     /\ req[s].kind = req[r].kind /\ req[s].ref = req[r].ref

(* deposits.Create and withdrawals.Create; a failure is refused. *)
PersistQuiet(r, next) ==  \* Mutated form: a failed insert is only logged.
  /\ Proceed(r, next)
  /\ \/ ~RefTaken(r) /\ rows' = [rows EXCEPT ![r] = "pending"]
     \/ UNCHANGED rows
Persist(r, next) ==
  \/ ~RefTaken(r) /\ rows' = [rows EXCEPT ![r] = "pending"] /\ Proceed(r, next)
  \/ Answer(r, Refused) /\ UNCHANGED rows
DepositsCreate(r) ==
  /\ req[r].pc = "persist" /\ req[r].kind = "deposit" /\ Persist(r, "count")
  /\ UNCHANGED <<redis, yc, notices, mishapVars>>
WithdrawalsCreate(r) ==
  /\ req[r].pc = "persist" /\ req[r].kind = "withdraw" /\ Persist(r, "sendid")
  /\ UNCHANGED <<redis, yc, notices, mishapVars>>

(* UpdateYellowCardTxID also sets the status; its failure is logged. *)
UpdateYellowCardTxID(r) ==
  /\ req[r].pc = "sendid" /\ Proceed(r, "count")
  /\ rows' = [rows EXCEPT ![r] = "converting"] \/ UNCHANGED rows
  /\ UNCHANGED <<redis, yc, notices, mishapVars>>

IncrDaily(r) ==
  /\ req[r].pc = "count" /\ Proceed(r, "remember")
  /\ daily' = [daily EXCEPT ![req[r].kind] = @ + req[r].amount]
  /\ UNCHANGED <<idem, life, cached, rows, yc, notices, mishapVars>>

CacheResponse(r) ==
  /\ req[r].pc = "remember" /\ Answer(r, OkAnswer)
  /\ cached' = cached \cup {<<req[r].kind, getIdempotencyKey(r)>>}
  /\ UNCHANGED <<idem, life, daily, rows, yc, notices, mishapVars>>
-----------------------------------------------------------------------------
(* The provider moves a transfer and posts its new status; a notification  *)
(* may be delivered late, again, out of order or never.                    *)
Advances == [pending |-> {"processing", "failed"}, processing |-> {"completed", "failed"},
             completed |-> {}, failed |-> {}, none |-> {}]
Settle(r, status) ==
  /\ status \in Advances[yc[r]]
  /\ yc' = [yc EXCEPT ![r] = status]
  /\ notices' = notices \cup {<<req[r].kind, req[r].ref, status>>}
  /\ UNCHANGED <<redis, req, rows, mishapVars>>

(* GetByPaymentRef in the table the notification's type names. *)
Matches(r, n) == rows[r] # "none" /\ req[r].kind = n[1] /\ req[r].ref = n[2]

(* What the notification says is written; without a row it is answered 200 *)
(* and dropped.                                                            *)
Reconcile(n) == rows' = [r \in Callers |-> IF Matches(r, n) THEN n[3] ELSE rows[r]]
reconcileDeposit(n) == n[1] = "deposit" /\ Reconcile(n)
reconcileWithdrawal(n) == n[1] = "withdraw" /\ Reconcile(n)
HandleWebhook(n) ==
  /\ reconcileDeposit(n) \/ reconcileWithdrawal(n)
  /\ UNCHANGED <<redis, req, yc, notices, mishapVars>>

(* References are only ever compared, so time passes when one was made of  *)
(* the current millisecond and another is still to be made.                *)
Millisecond ==
  /\ \E r \in Callers : yc[r] # "none" /\ req[r].ref = millis
  /\ \E r \in Callers : req[r].pc \in {"idle", "check", "cap", "call"}
  /\ millis < MaxMillis /\ millis' = millis + 1
  /\ UNCHANGED <<redis, req, rows, yc, notices, mishaps>>

HandlerStep(r) ==
  \/ tryReplay(r) \/ InitiateDeposit(r) \/ InitiateWithdraw(r) \/ ReadDaily(r)
  \/ CreateReceive(r) \/ CreateSend(r) \/ DepositsCreate(r) \/ WithdrawalsCreate(r)
  \/ UpdateYellowCardTxID(r) \/ IncrDaily(r) \/ CacheResponse(r) \/ Respond(r)

TransfersNext ==
  \/ \E r \in Callers, kind \in Kinds, key \in Keys, body \in BodyKeys \cup {NoKey},
        amount \in Amounts : Claim(r, kind, key, body, amount)
  \/ \E r \in Callers : TurnAway(r) \/ HandlerStep(r) \/ Die(r)
  \/ \E x \in Routes : Lapse(x)
  \/ \E c \in cached : LapseCached(c)
  \/ \E r \in Callers, status \in {"processing", "completed", "failed"} : Settle(r, status)
  \/ \E n \in notices : HandleWebhook(n)
  \/ Millisecond

TransfersSpec == TransfersInit /\ [][TransfersNext]_transferVars
-----------------------------------------------------------------------------
AnswerCodes == {OkAnswer, Refused}
CallFrames == [pc : {"idle", "replay", "check", "cap", "call", "persist", "sendid",
                     "count", "remember", "respond", "done", "dead"},
               kind : Kinds, key : Keys \cup {NoKey}, body : BodyKeys \cup {NoKey},
               amount : Nat, ref : Nat, life : Nat, code : AnswerCodes \cup {0}]

(* Types of the Redis keys, the frames, the rows and the notifications. *)
TransfersTypeOK ==
  /\ idem \in [Routes -> {Absent, Processing} \cup AnswerCodes] /\ life \in [Routes -> Nat]
  /\ cached \subseteq Kinds \X (Keys \cup BodyKeys) /\ daily \in [Kinds -> Nat]
  /\ req \in [Callers -> CallFrames]
  /\ rows \in [Callers -> {"none", "pending", "converting", "processing", "completed", "failed"}]
  /\ yc \in [Callers -> DOMAIN Advances]
  /\ notices \subseteq Kinds \X Nat \X {"processing", "completed", "failed"}
  /\ millis \in 0..MaxMillis /\ mishaps \in 0..MaxMishaps

(* While an idempotency key lives, the provider accepts at most one        *)
(* transfer made under it on a route, whatever retries, crashes and lost   *)
(* answers there are (IdempotencyMiddleware).                              *)
OneTransferPerKey ==
  \A r, s \in Callers :
    (r # s /\ yc[r] # "none" /\ yc[s] # "none" /\ Route(r) = Route(s))
      => req[r].life # req[s].life

(* A row says completed or failed only if the provider reported that for   *)
(* a transfer of its kind with its payment reference.                      *)
StatusWasReported ==
  \A r \in Callers : rows[r] \in {"completed", "failed"}
                        => <<req[r].kind, req[r].ref, rows[r]>> \in notices

(* A request answered 200, be it replayed by the middleware or taken from  *)
(* the handler's cache, goes back through the keys it used to a transfer   *)
(* that the provider accepted and that has a row.                          *)
AnswerBacked ==
  \A r \in Callers : (req[r].pc = "done" /\ req[r].code = OkAnswer) =>
    \E t, s \in Callers :
      /\ req[t].kind = req[r].kind /\ req[s].kind = req[r].kind
      /\ req[t].key = req[r].key /\ getIdempotencyKey(s) = getIdempotencyKey(t)
      /\ yc[s] # "none" /\ rows[s] # "none"

(* What the code keeps between its steps, on which the properties above    *)
(* rest.  KeyHeld: whoever got past the middleware's claim of a key, or    *)
(* has a transfer at the provider, is alone with the key in that life of   *)
(* it, and the key is taken until it lapses.  StagesKept: what is there at *)
(* each step of a handler.  AnswersKept: a success that is remembered, by  *)
(* the handler's cache or by the middleware, goes back to a transfer.      *)
Handling == {"check", "cap", "call", "persist", "sendid", "count", "remember", "respond"}
Holds(r) == req[r].pc \in Handling \/ yc[r] # "none"
KeyHeld ==
  /\ \A r \in Callers : Holds(r) =>
       /\ Route(r) \in Routes /\ req[r].life <= life[Route(r)]
       /\ req[r].life = life[Route(r)] => idem[Route(r)] # Absent
  /\ \A r, s \in Callers :
       r # s /\ Holds(r) /\ Holds(s) /\ Route(r) = Route(s) => req[r].life # req[s].life
StageKept(f, transfer, status) ==
  /\ f.pc \in {"idle", "replay", "check", "cap", "call"} => transfer = "none"
  /\ f.pc \in {"idle", "replay", "check", "cap", "call", "persist"} => status = "none"
  /\ f.pc \in {"persist", "sendid", "count", "remember"} => transfer # "none"
  /\ f.pc \in {"sendid", "count", "remember"} => status # "none"
  /\ f.pc = "replay" => <<f.kind, f.key>> \in Routes
  /\ f.pc = "respond" => f.code \in AnswerCodes
StagesKept == \A r \in Callers : StageKept(req[r], yc[r], rows[r])
Carried(s) == yc[s] # "none" /\ rows[s] # "none"
KeyBacked(kind, key) ==
  \E s \in Callers : req[s].kind = kind /\ getIdempotencyKey(s) = key /\ Carried(s)
RouteBacked(x) ==
  \E t \in Callers : /\ req[t].pc # "idle" /\ Route(t) = x
                     /\ KeyBacked(req[t].kind, getIdempotencyKey(t))
AnswersKept ==
  /\ \A c \in cached : KeyBacked(c[1], c[2])
  /\ \A x \in Routes : idem[x] = OkAnswer => RouteBacked(x)
  /\ \A r \in Callers : req[r].pc \in {"respond", "done"} /\ req[r].code = OkAnswer
                           => RouteBacked(Route(r))
TransfersInv ==
  TransfersTypeOK /\ KeyHeld /\ StagesKept /\ AnswersKept /\ StatusWasReported
=============================================================================
