--------------------------- MODULE TransferProofs ---------------------------
EXTENDS Money, Transfers, MobileMoney, TLAPS

-----------------------------------------------------------------------------
(***************************************************************************)
(* For every word size: the overflow checks of Add and Sub are exact, a    *)
(* balance is the exact result of the operations that succeeded, and an    *)
(* operation is refused only when its result does not fit; MulDiv rounds   *)
(* to a nearest integer.                                                   *)
(***************************************************************************)
(* Add succeeds exactly when the sum fits in the word, and then returns    *)
(* it: the comparison of the wrapped sum with the first operand misses no  *)
(* overflow and reports no false one.                                      *)
THEOREM AddIsExact ==
    ASSUME NEW m \in Int64, NEW o \in Int64
    PROVE  Add(m, o) = IF m + o \in Int64 THEN Ok(m + o) ELSE ErrOverflow
<1>1. CASE m + o \in Int64
  <2>1. Wrap(m + o) = m + o
    BY <1>1, MoneyConfig DEF Int64, Wrap
  <2>2. ~((o > 0 /\ m + o < m) \/ (o < 0 /\ m + o > m))
    BY MoneyConfig DEF Int64
  <2> QED BY <1>1, <2>1, <2>2 DEF Add
<1>2. CASE m + o \notin Int64
  <2>1. (o > 0 /\ Wrap(m + o) < m) \/ (o < 0 /\ Wrap(m + o) > m)
    BY <1>2, MoneyConfig DEF Int64, Wrap
  <2> QED BY <1>2, <2>1 DEF Add
<1> QED BY <1>1, <1>2

(* The same of Sub, the smallest amount as its operand included. *)
THEOREM SubIsExact ==
    ASSUME NEW m \in Int64, NEW o \in Int64
    PROVE  Sub(m, o) = IF m - o \in Int64 THEN Ok(m - o) ELSE ErrOverflow
<1>1. CASE m - o \in Int64
  <2>1. Wrap(m - o) = m - o
    BY <1>1, MoneyConfig DEF Int64, Wrap
  <2>2. ~((o < 0 /\ m - o < m) \/ (o > 0 /\ m - o > m))
    BY MoneyConfig DEF Int64
  <2> QED BY <1>1, <2>1, <2>2 DEF Sub
<1>2. CASE m - o \notin Int64
  <2>1. (o < 0 /\ Wrap(m - o) < m) \/ (o > 0 /\ Wrap(m - o) > m)
    BY <1>2, MoneyConfig DEF Int64, Wrap
  <2> QED BY <1>2, <2>1 DEF Sub
<1> QED BY <1>1, <1>2

(* Neg and fromBig are exact as well. *)
LEMMA NegIsExact ==
    ASSUME NEW m \in Int64
    PROVE  Neg(m) = IF -m \in Int64 THEN Ok(-m) ELSE ErrOverflow
BY MoneyConfig DEF Int64, Neg

LEMMA FromBigIsExact ==
    ASSUME NEW v \in Int
    PROVE  fromBig(v) = IF v \in Int64 THEN Ok(v) ELSE ErrOverflow
BY MoneyConfig DEF Int64, fromBig

(* Integer division of natural numbers leaves a remainder below the        *)
(* divisor.                                                                *)
LEMMA DivBounds ==
    ASSUME NEW a \in Nat, NEW b \in Nat \ {0}
    PROVE  a \div b \in Nat /\ (a \div b) * b <= a /\ a < (a \div b) * b + b
BY SMTT(60)

(* MulDiv's rounding returns a nearest integer, for every dividend and     *)
(* divisor: no other integer is nearer to the exact quotient.              *)
THEOREM RoundDivNearest ==
    ASSUME NEW num \in Int, NEW den \in Int \ {0}
    PROVE  2 * Abs(num - roundDiv(num, den) * den) <= Abs(den)
<1> DEFINE a == Abs(num)
           b == Abs(den)
           q == a \div b
<1>1. a \in Nat /\ b \in Nat \ {0}
  BY DEF Abs
<1>2. q \in Nat /\ q * b <= a /\ a < q * b + b
  BY <1>1, DivBounds
<1> HIDE DEF q
<1>3. CASE num < 0 /\ den < 0
  BY <1>3, <1>2 DEF roundDiv, Rem, Quo, Abs, q
<1>4. CASE num < 0 /\ den > 0
  BY <1>4, <1>2 DEF roundDiv, Rem, Quo, Abs, q
<1>5. CASE num >= 0 /\ den < 0
  BY <1>5, <1>2 DEF roundDiv, Rem, Quo, Abs, q
<1>6. CASE num >= 0 /\ den > 0
  BY <1>6, <1>2 DEF roundDiv, Rem, Quo, Abs, q
<1> QED BY <1>3, <1>4, <1>5, <1>6

LEMMA RoundDivInt ==
    ASSUME NEW num \in Int, NEW den \in Int \ {0}
    PROVE  roundDiv(num, den) \in Int
<1>1. Abs(num) \in Nat /\ Abs(den) \in Nat \ {0}
  BY DEF Abs
<1>2. Abs(num) \div Abs(den) \in Int
  BY <1>1, DivBounds
<1>3. Quo(num, den) \in Int
  BY <1>2 DEF Quo
<1> QED BY <1>3 DEF roundDiv

MoneyInv == BalanceExact /\ RefusedRightly /\ exact \in Int

(* An operation that is exact keeps the balance exact. *)
LEMMA KeepExact ==
    ASSUME MoneyInv, NEW e \in Int,
           Keep(IF e \in Int64 THEN Ok(e) ELSE ErrOverflow, e)
    PROVE  MoneyInv'
<1>1. CASE e \in Int64
  <2>1. acc' = e /\ exact' = e /\ refused' = refused
    BY <1>1 DEF Keep, Ok
  <2> QED BY <1>1, <2>1 DEF MoneyInv, BalanceExact, RefusedRightly, Int64
<1>2. CASE e \notin Int64
  <2>1. acc' = acc /\ exact' = exact /\ refused' = {e}
    BY <1>2 DEF Keep, ErrOverflow
  <2> QED BY <1>2, <2>1 DEF MoneyInv, BalanceExact, RefusedRightly, Int64
<1> QED BY <1>1, <1>2

LEMMA MoneyStarts == MoneyInit => MoneyInv
BY MoneyConfig DEF MoneyInit, MoneyInv, BalanceExact, RefusedRightly, Int64

LEMMA MoneyKeeps == MoneyInv /\ [MoneyNext]_moneyVars => MoneyInv'
<1> SUFFICES ASSUME MoneyInv, [MoneyNext]_moneyVars PROVE MoneyInv'
  OBVIOUS
<1>0. acc \in Int64 /\ acc \in Int /\ exact = acc
  BY MoneyConfig DEF MoneyInv, BalanceExact, Int64
<1>1. ASSUME NEW o \in Operands, AddStep(o) PROVE MoneyInv'
  <2>1. o \in Int64 /\ o \in Int
    BY MoneyConfig DEF Int64
  <2>2. Add(acc, o) = IF exact + o \in Int64 THEN Ok(exact + o) ELSE ErrOverflow
    BY <1>0, <2>1, AddIsExact
  <2>3. exact + o \in Int
    BY <1>0, <2>1
  <2> QED BY <1>1, <2>2, <2>3, KeepExact DEF AddStep
<1>2. ASSUME NEW o \in Operands, SubStep(o) PROVE MoneyInv'
  <2>1. o \in Int64 /\ o \in Int
    BY MoneyConfig DEF Int64
  <2>2. Sub(acc, o) = IF exact - o \in Int64 THEN Ok(exact - o) ELSE ErrOverflow
    BY <1>0, <2>1, SubIsExact
  <2>3. exact - o \in Int
    BY <1>0, <2>1
  <2> QED BY <1>2, <2>2, <2>3, KeepExact DEF SubStep
<1>3. CASE NegStep
  <2>1. Neg(acc) = IF -exact \in Int64 THEN Ok(-exact) ELSE ErrOverflow
    BY <1>0, NegIsExact
  <2>2. -exact \in Int
    BY <1>0
  <2> QED BY <1>3, <2>1, <2>2, KeepExact DEF NegStep
<1>4. ASSUME NEW n \in Factors, MulIntStep(n) PROVE MoneyInv'
  <2>1. exact * n \in Int
    BY <1>0, MoneyConfig
  <2>2. MulInt(acc, n) = IF exact * n \in Int64 THEN Ok(exact * n) ELSE ErrOverflow
    BY <1>0, <2>1, FromBigIsExact DEF MulInt
  <2> QED BY <1>4, <2>1, <2>2, KeepExact DEF MulIntStep
<1>6. ASSUME NEW n \in Factors, NEW d \in Factors, MulDivStep(n, d) PROVE MoneyInv'
  <2>1. CASE d = 0
    BY <1>6, <2>1 DEF MulDivStep, moneyVars, MoneyInv, BalanceExact, RefusedRightly
  <2>2. CASE d # 0
    <3>1. exact * n \in Int /\ d \in Int \ {0}
      BY <1>0, <2>2, MoneyConfig
    <3> DEFINE e == roundDiv(exact * n, d)
    <3>2. e \in Int
      BY <3>1, RoundDivInt
    <3> HIDE DEF e
    <3>3. MulDiv(acc, n, d) = IF e \in Int64 THEN Ok(e) ELSE ErrOverflow
      BY <1>0, <2>2, <3>2, FromBigIsExact DEF MulDiv, e
    <3>4. Keep(MulDiv(acc, n, d), e)
      BY <1>6, <2>2 DEF MulDivStep, e
    <3> QED BY <3>2, <3>3, <3>4, KeepExact
  <2> QED BY <2>1, <2>2
<1>5. CASE UNCHANGED moneyVars
  BY <1>5 DEF moneyVars, MoneyInv, BalanceExact, RefusedRightly
<1> QED BY <1>1, <1>2, <1>3, <1>4, <1>5, <1>6 DEF MoneyNext

(* For every word size, every set of operands and every sequence of        *)
(* operations a balance is the exact result of those that succeeded.       *)
THEOREM MoneyBalanceExact == MoneySpec => []BalanceExact
<1>1. MoneyInv => BalanceExact
  BY DEF MoneyInv
<1> QED BY MoneyStarts, MoneyKeeps, <1>1, PTL DEF MoneySpec

(* And no operation is refused whose exact result would have fitted. *)
THEOREM MoneyRefusedRightly == MoneySpec => []RefusedRightly
<1>1. MoneyInv => RefusedRightly
  BY DEF MoneyInv
<1> QED BY MoneyStarts, MoneyKeeps, <1>1, PTL DEF MoneySpec

-----------------------------------------------------------------------------
(***************************************************************************)
(* Deposits and withdrawals.                                               *)
(***************************************************************************)
TransferStages == {"idle", "replay", "check", "cap", "call", "persist", "sendid",
                 "count", "remember", "respond", "done", "dead"}
SameCall(f, g) == f.kind = g.kind /\ f.key = g.key /\ f.body = g.body /\ f.life = g.life
Move(f, pc) == [f EXCEPT !.pc = pc]
End(f, pc, code) == [f EXCEPT !.pc = pc, !.code = code]
Refer(f, ref) == [f EXCEPT !.ref = ref]
LEMMA Moved ==
  ASSUME NEW f \in CallFrames, NEW pc \in TransferStages
  PROVE  /\ Move(f, pc) \in CallFrames /\ Move(f, pc).pc = pc /\ Move(f, pc).ref = f.ref
         /\ Move(f, pc).code = f.code /\ SameCall(Move(f, pc), f)
  BY Zenon DEF Move, CallFrames, TransferStages, SameCall
LEMMA Ended ==
  ASSUME NEW f \in CallFrames, NEW pc \in TransferStages, NEW code \in AnswerCodes
  PROVE  /\ End(f, pc, code) \in CallFrames /\ End(f, pc, code).pc = pc
         /\ End(f, pc, code).ref = f.ref /\ End(f, pc, code).code = code
         /\ SameCall(End(f, pc, code), f)
  <1>1. End(f, pc, code) \in CallFrames
    BY Zenon DEF End, CallFrames, TransferStages
  <1>2. /\ End(f, pc, code).pc = pc /\ End(f, pc, code).ref = f.ref
        /\ End(f, pc, code).code = code
    BY Zenon DEF End, CallFrames
  <1>3. SameCall(End(f, pc, code), f)
    BY Zenon DEF End, CallFrames, SameCall
  <1>4. QED
    BY <1>1, <1>2, <1>3, Zenon
LEMMA Referred ==
  ASSUME NEW f \in CallFrames, NEW ref \in Nat
  PROVE  Refer(f, ref) \in CallFrames /\ Refer(f, ref).pc = f.pc /\ SameCall(Refer(f, ref), f)
  BY Zenon DEF Refer, CallFrames, SameCall

\* A bounded count that has not reached its bound.
LEMMA CountsOn ==
  ASSUME NEW m \in Nat, NEW i \in 0..m, i < m
  PROVE  i + 1 \in 0..m
  OBVIOUS

LEMMA NextLife ==
  ASSUME NEW l \in Nat
  PROVE  l + 1 \in Nat
  OBVIOUS

\* The life of a key that has lapsed since a request took it.
LEMMA Outlived ==
  ASSUME NEW l \in Nat, NEW m \in Nat, l <= m
  PROVE  l <= m + 1 /\ l # m + 1
  OBVIOUS

LEMMA TransfersStarts ==
  ASSUME TransfersInit
  PROVE  TransfersInv
  <1>1. TransfersTypeOK
    BY TransfersAssumption, SMTT(40) DEF TransfersInit, TransfersTypeOK, CallFrames, NoCall, Kinds, Advances, Absent
  <1>2. \A r \in Callers : ~Holds(r) /\ req[r].pc = "idle" /\ rows[r] = "none"
    BY Zenon DEF TransfersInit, Holds, Handling, NoCall
  <1>3. KeyHeld /\ StatusWasReported
    BY <1>2, Zenon DEF KeyHeld, StatusWasReported
  <1>4. StagesKept
    BY <1>2, Zenon DEF StagesKept, StageKept, TransfersInit
  <1>5. AnswersKept
    BY <1>2 DEF AnswersKept, TransfersInit, Absent, OkAnswer
  <1>6. QED
    BY <1>1, <1>3, <1>4, <1>5, Zenon DEF TransfersInv

\* A frame that has been filled keeps its keys, its kind and its life, and what
\* a transfer has it keeps: then what was backed stays backed.
KeysFixed == \A s \in Callers : req[s].pc # "idle" =>
           /\ req'[s].pc # "idle" /\ req'[s].kind = req[s].kind /\ req'[s].key = req[s].key
           /\ req'[s].body = req[s].body /\ (Carried(s) => Carried(s)')

LEMMA BackedStays ==
  ASSUME KeysFixed, StagesKept
  PROVE  /\ \A kind, key : KeyBacked(kind, key) => KeyBacked(kind, key)'
         /\ \A x : RouteBacked(x) => RouteBacked(x)'
  <1>1. \A s \in Callers : Carried(s) => req[s].pc # "idle"
    BY Zenon DEF StagesKept, StageKept, Carried
  <1>2. \A s \in Callers : req[s].pc # "idle" =>
          /\ getIdempotencyKey(s)' = getIdempotencyKey(s) /\ Route(s)' = Route(s)
    BY Zenon DEF KeysFixed, getIdempotencyKey, Route
  <1>3. ASSUME NEW kind, NEW key, KeyBacked(kind, key)
        PROVE  KeyBacked(kind, key)'
    <2>1. PICK s \in Callers : req[s].kind = kind /\ getIdempotencyKey(s) = key /\ Carried(s)
      BY <1>3, Zenon DEF KeyBacked
    <2>2. req'[s].kind = kind /\ getIdempotencyKey(s)' = key /\ Carried(s)'
      BY <1>1, <1>2, <2>1, Zenon DEF KeysFixed
    <2>3. QED
      BY <2>2, Zenon DEF KeyBacked
  <1>4. ASSUME NEW x, RouteBacked(x)
        PROVE  RouteBacked(x)'
    <2>1. PICK t \in Callers : req[t].pc # "idle" /\ Route(t) = x
                                /\ KeyBacked(req[t].kind, getIdempotencyKey(t))
      BY <1>4, Zenon DEF RouteBacked
    <2>2. /\ req'[t].pc # "idle" /\ Route(t)' = x
          /\ req'[t].kind = req[t].kind /\ getIdempotencyKey(t)' = getIdempotencyKey(t)
      BY <1>2, <2>1, Zenon DEF KeysFixed
    <2>3. PICK kind, key : kind = req[t].kind /\ key = getIdempotencyKey(t)
      BY Zenon
    <2>4. KeyBacked(kind, key)'
      BY <1>3, <2>1, <2>3, Zenon
    <2>5. KeyBacked(req[t].kind, getIdempotencyKey(t))'
      BY <2>2, <2>3, <2>4, Zenon DEF KeyBacked
    <2>6. QED
      BY <2>2, <2>5, Zenon DEF RouteBacked
  <1>5. QED
    BY <1>3, <1>4, Zenon

\* A step that refills the frame of one request.  The keys in Redis are the
\* caller's business.
LEMMA TransferFrameKeeps ==
  ASSUME TransfersInv, KeyHeld', NEW r \in Callers, NEW f \in CallFrames, NEW y \in DOMAIN Advances,
         NEW w \in {"none", "pending", "converting", rows[r]},
         req' = [req EXCEPT ![r] = f], yc' = [yc EXCEPT ![r] = y],
         rows' = [rows EXCEPT ![r] = w], UNCHANGED <<life, notices>>,
         idem' \in [Routes -> {Absent, Processing} \cup AnswerCodes], daily' \in [Kinds -> Nat],
         millis' \in 0..MaxMillis, mishaps' \in 0..MaxMishaps,
         f.pc # "idle", StageKept(f, y, w), req[r].pc # "idle" => SameCall(f, req[r]),
         (f.ref = req[r].ref /\ f.kind = req[r].kind) \/ rows[r] = "none",
         yc[r] # "none" => y # "none", rows[r] # "none" => w # "none",
         cached' \subseteq Kinds \X (Keys \cup BodyKeys),
         \A c \in cached' : c \in cached \/ KeyBacked(c[1], c[2])',
         \A x \in Routes : idem'[x] = OkAnswer => idem[x] = OkAnswer \/ RouteBacked(x)',
         f.pc \in {"respond", "done"} /\ f.code = OkAnswer => RouteBacked(Route(r))'
  PROVE  TransfersInv'
  <1>1. /\ req \in [Callers -> CallFrames] /\ yc \in [Callers -> DOMAIN Advances]
        /\ rows \in [Callers -> {"none", "pending", "converting", "processing", "completed",
                                  "failed"}]
    BY Zenon DEF TransfersInv, TransfersTypeOK
  <1>2. \A s \in Callers : /\ req'[s] = IF s = r THEN f ELSE req[s]
                           /\ yc'[s] = IF s = r THEN y ELSE yc[s]
                           /\ rows'[s] = IF s = r THEN w ELSE rows[s]
    BY <1>1, Zenon
  <1>3. TransfersTypeOK'
    BY <1>1, Zenon DEF TransfersInv, TransfersTypeOK
  <1>4. \A s \in Callers : s # r => Route(s)' = Route(s)
    BY <1>2, Zenon DEF Route
  <1>5. Route(r)' = <<f.kind, f.key>>
    BY <1>2, Zenon DEF Route
  <1>6. StagesKept'
    <2>1. ASSUME NEW s \in Callers
          PROVE  StageKept(req'[s], yc'[s], rows'[s])
      <3>1. CASE s = r
        BY <1>2, <3>1, SMTT(30)
      <3>2. CASE s # r
        BY <1>2, <3>2, Zenon DEF TransfersInv, StagesKept
      <3>3. QED
        BY <3>1, <3>2, SMTT(30)
    <2>2. QED
      BY <2>1, Zenon DEF StagesKept
  <1>7. KeysFixed
    BY <1>2 DEF KeysFixed, Carried, SameCall
  <1>8. AnswersKept'
    <2>1. \A c \in cached' : KeyBacked(c[1], c[2])'
      BY <1>7, BackedStays, Zenon DEF TransfersInv, AnswersKept
    <2>2. \A x \in Routes : idem'[x] = OkAnswer => RouteBacked(x)'
      BY <1>7, BackedStays, Zenon DEF TransfersInv, AnswersKept
    <2>3. \A s \in Callers : req'[s].pc \in {"respond", "done"} /\ req'[s].code = OkAnswer
                              => RouteBacked(Route(s))'
      <3>1. ASSUME NEW s \in Callers, s # r, req[s].pc \in {"respond", "done"}, req[s].code = OkAnswer
            PROVE  RouteBacked(Route(s))'
        <4>1. PICK x : x = Route(s) /\ x = Route(s)'
          BY <1>4, <3>1, Zenon
        <4>2. RouteBacked(x)'
          BY <1>7, <3>1, <4>1, BackedStays, Zenon DEF TransfersInv, AnswersKept
        <4>3. QED
          BY <4>1, <4>2, Zenon DEF RouteBacked
      <3>2. QED
        BY <1>2, <3>1
    <2>4. QED
      BY <2>1, <2>2, <2>3, Zenon DEF AnswersKept
  <1>9. StatusWasReported'
    <2>1. \A s \in Callers : rows'[s] \in {"completed", "failed"} =>
            rows'[s] = rows[s] /\ req'[s].kind = req[s].kind /\ req'[s].ref = req[s].ref
      BY <1>2
    <2>2. QED
      BY <2>1, SMTT(30) DEF TransfersInv, StatusWasReported
  <1>10. QED
    BY <1>3, <1>6, <1>8, <1>9, Zenon DEF TransfersInv

\* A step that claims no key and gives none up.
LEMMA KeysUntouched ==
  ASSUME KeyHeld, UNCHANGED <<idem, life>>,
         \A s \in Callers : Holds(s)' =>
            Holds(s) /\ Route(s)' = Route(s) /\ req'[s].life = req[s].life
  PROVE  KeyHeld'
  BY DEF KeyHeld

\* A step of a handler in the middle of its work.
LEMMA HandlerKeeps ==
  ASSUME TransfersInv, NEW r \in Callers, NEW f \in CallFrames, NEW y \in DOMAIN Advances,
         NEW w \in {"none", "pending", "converting", rows[r]},
         req[r].pc \in Handling, f.pc \in Handling \cup {"dead"},
         req' = [req EXCEPT ![r] = f], yc' = [yc EXCEPT ![r] = y],
         rows' = [rows EXCEPT ![r] = w], UNCHANGED <<idem, life, notices, millis>>,
         daily' \in [Kinds -> Nat], mishaps' \in 0..MaxMishaps,
         SameCall(f, req[r]), f.ref = req[r].ref \/ rows[r] = "none", StageKept(f, y, w),
         yc[r] # "none" => y # "none", rows[r] # "none" => w # "none",
         cached' \subseteq Kinds \X (Keys \cup BodyKeys),
         \A c \in cached' : c \in cached \/ KeyBacked(c[1], c[2])',
         f.pc = "respond" /\ f.code = OkAnswer => RouteBacked(Route(r))'
  PROVE  TransfersInv'
  <1>1. /\ req \in [Callers -> CallFrames] /\ yc \in [Callers -> DOMAIN Advances]
        /\ idem \in [Routes -> {Absent, Processing} \cup AnswerCodes] /\ millis \in 0..MaxMillis
        /\ KeyHeld
    BY Zenon DEF TransfersInv, TransfersTypeOK
  <1>2. \A s \in Callers : Holds(s)' =>
          Holds(s) /\ Route(s)' = Route(s) /\ req'[s].life = req[s].life
    BY <1>1, Zenon DEF Holds, Route, SameCall
  <1>3. KeyHeld'
    BY <1>1, <1>2, KeysUntouched, Zenon
  <1>4. f.pc # "idle" /\ f.pc # "replay" /\ f.pc # "done"
    BY Zenon DEF Handling
  <1>5. /\ f.pc \in {"respond", "done"} /\ f.code = OkAnswer => RouteBacked(Route(r))'
        /\ (f.ref = req[r].ref /\ f.kind = req[r].kind) \/ rows[r] = "none"
    BY <1>4, Zenon DEF SameCall
  <1>6. QED
    BY <1>1, <1>3, <1>4, <1>5, TransferFrameKeeps, Zenon

\* The steps of a handler that answer.
LEMMA AnswerKeeps ==
  ASSUME TransfersInv, NEW r \in Callers, NEW code \in AnswerCodes, req[r].pc \in Handling,
         Answer(r, code), UNCHANGED <<idem, life, daily, rows, yc, notices, millis, mishaps>>,
         cached' \subseteq Kinds \X (Keys \cup BodyKeys),
         \A c \in cached' : c \in cached \/ KeyBacked(c[1], c[2])',
         code = OkAnswer => KeyBacked(req[r].kind, getIdempotencyKey(r))
  PROVE  TransfersInv'
  <1>0. PICK g : g = End(req[r], "respond", code)
    BY Zenon
  <1>1. /\ req \in [Callers -> CallFrames] /\ yc \in [Callers -> DOMAIN Advances]
        /\ rows \in [Callers -> {"none", "pending", "converting", "processing", "completed",
                                  "failed"}]
        /\ daily \in [Kinds -> Nat] /\ mishaps \in 0..MaxMishaps /\ StagesKept
    BY Zenon DEF TransfersInv, TransfersTypeOK
  <1>2. req[r] \in CallFrames /\ "respond" \in TransferStages
    BY <1>1, Zenon DEF TransferStages
  <1>3. /\ g \in CallFrames /\ g.pc = "respond" /\ g.code = code /\ g.ref = req[r].ref /\ SameCall(g, req[r])
    BY <1>0, <1>2, Ended
  <1>4. req' = [req EXCEPT ![r] = g]
    BY <1>0, <1>1, Zenon DEF Answer, End
  <1>5. yc' = [yc EXCEPT ![r] = yc[r]] /\ rows' = [rows EXCEPT ![r] = rows[r]]
    BY <1>1, Zenon
  <1>6. code = OkAnswer => RouteBacked(Route(r))'
    <2>1. SUFFICES ASSUME code = OkAnswer PROVE RouteBacked(Route(r))'
      BY Zenon
    <2>2. req'[r] = g /\ \A s \in Callers : s # r => req'[s] = req[s]
      BY <1>1, <1>4, Zenon
    <2>3. KeysFixed
      BY <1>3, <2>2, Zenon DEF KeysFixed, Carried, SameCall
    <2>4. getIdempotencyKey(r)' = getIdempotencyKey(r) /\ req'[r].kind = req[r].kind
      BY <1>3, <2>2, Zenon DEF getIdempotencyKey, SameCall
    <2>5. PICK kind, key : kind = req[r].kind /\ key = getIdempotencyKey(r)
      BY Zenon
    <2>6. KeyBacked(kind, key)'
      BY <1>1, <2>1, <2>3, <2>5, BackedStays, Zenon
    <2>7. KeyBacked(req[r].kind, getIdempotencyKey(r))'
      BY <2>4, <2>5, <2>6, Zenon DEF KeyBacked
    <2>8. req'[r].pc # "idle"
      BY <1>3, <2>2, Zenon
    <2>9. QED
      BY <2>7, <2>8, Zenon DEF RouteBacked
  <1>7. /\ StageKept(g, yc[r], rows[r]) /\ g.pc \in Handling \cup {"dead"}
        /\ yc[r] \in DOMAIN Advances /\ daily' \in [Kinds -> Nat] /\ mishaps' \in 0..MaxMishaps
        /\ rows[r] \in {"none", "pending", "converting", rows[r]}
    BY <1>1, <1>3, Zenon DEF StageKept, Handling
  <1>8. QED
    BY <1>3, <1>4, <1>5, <1>6, <1>7, HandlerKeeps, Zenon

\* A step of a handler to its next stage that leaves Redis alone, except perhaps
\* for the daily total.
LEMMA StageKeeps ==
  ASSUME TransfersInv, NEW r \in Callers, NEW stage \in Handling \ {"respond"},
         NEW w \in {"none", "pending", "converting", rows[r]},
         req[r].pc \in Handling, Proceed(r, stage), rows' = [rows EXCEPT ![r] = w],
         rows[r] # "none" => w # "none", daily' \in [Kinds -> Nat],
         UNCHANGED <<idem, life, cached, yc, notices, millis, mishaps>>,
         stage \in {"check", "cap", "call"} => yc[r] = "none",
         stage \in {"check", "cap", "call", "persist"} => w = "none",
         stage \in {"persist", "sendid", "count", "remember"} => yc[r] # "none",
         stage \in {"sendid", "count", "remember"} => w # "none"
  PROVE  TransfersInv'
  <1>0. PICK g : g = Move(req[r], stage)
    BY Zenon
  <1>1. /\ req \in [Callers -> CallFrames] /\ yc \in [Callers -> DOMAIN Advances]
        /\ mishaps \in 0..MaxMishaps /\ cached \subseteq Kinds \X (Keys \cup BodyKeys)
    BY Zenon DEF TransfersInv, TransfersTypeOK
  <1>2. req[r] \in CallFrames /\ stage \in TransferStages
    BY <1>1, Zenon DEF TransferStages, Handling
  <1>3. g \in CallFrames /\ g.pc = stage /\ g.ref = req[r].ref /\ SameCall(g, req[r])
    BY <1>0, <1>2, Moved, Zenon
  <1>4. req' = [req EXCEPT ![r] = g] /\ yc' = [yc EXCEPT ![r] = yc[r]]
    BY <1>0, <1>1, Zenon DEF Proceed, Move
  <1>5. /\ g.pc # "respond" /\ g.pc \in Handling \cup {"dead"}
        /\ cached' \subseteq Kinds \X (Keys \cup BodyKeys) /\ \A c \in cached' : c \in cached
        /\ yc[r] \in DOMAIN Advances /\ mishaps' \in 0..MaxMishaps
    BY <1>1, <1>3, Zenon
  <1>6. g.pc # "idle" /\ g.pc # "replay"
    BY <1>3, Zenon DEF Handling
  <1>7. StageKept(g, yc[r], w)
    BY <1>3, <1>5, <1>6 DEF StageKept
  <1>8. QED
    BY <1>3, <1>4, <1>5, <1>7, HandlerKeeps, Zenon

\* A step that ends a request that a crash, a panic or a replay ends.
LEMMA EndKeeps ==
  ASSUME TransfersInv, NEW r \in Callers, NEW f \in CallFrames, f.pc \in {"done", "dead"},
         req' = [req EXCEPT ![r] = f], UNCHANGED <<idem, life, cached, daily, rows, yc, notices, millis>>,
         mishaps' \in 0..MaxMishaps,
         req[r].pc # "idle" => SameCall(f, req[r]),
         (f.ref = req[r].ref /\ f.kind = req[r].kind) \/ rows[r] = "none",
         f.pc = "done" /\ f.code = OkAnswer => req[r].pc = "replay" /\ idem[Route(r)] = OkAnswer
  PROVE  TransfersInv'
  <1>1. /\ req \in [Callers -> CallFrames] /\ yc \in [Callers -> DOMAIN Advances]
        /\ rows \in [Callers -> {"none", "pending", "converting", "processing", "completed",
                                  "failed"}]
        /\ idem \in [Routes -> {Absent, Processing} \cup AnswerCodes] /\ daily \in [Kinds -> Nat]
        /\ millis \in 0..MaxMillis /\ cached \subseteq Kinds \X (Keys \cup BodyKeys)
        /\ KeyHeld /\ StagesKept /\ AnswersKept
    BY Zenon DEF TransfersInv, TransfersTypeOK
  <1>2. \A s \in Callers : req'[s] = IF s = r THEN f ELSE req[s]
    BY <1>1, Zenon
  <1>3. \A s \in Callers : Holds(s)' =>
          Holds(s) /\ Route(s)' = Route(s) /\ req'[s].life = req[s].life
    BY <1>1, <1>2, Zenon DEF Holds, Route, Handling, StagesKept, StageKept, SameCall
  <1>4. KeyHeld'
    BY <1>1, <1>3, KeysUntouched, Zenon
  <1>5. yc' = [yc EXCEPT ![r] = yc[r]] /\ rows' = [rows EXCEPT ![r] = rows[r]]
    BY <1>1, Zenon
  <1>6. f.pc \in {"respond", "done"} /\ f.code = OkAnswer => RouteBacked(Route(r))'
    <2>1. SUFFICES ASSUME f.pc = "done", f.code = OkAnswer PROVE RouteBacked(Route(r))'
      BY Zenon
    <2>2. Route(r) \in Routes /\ idem[Route(r)] = OkAnswer /\ req[r].pc = "replay"
      BY <1>1, <2>1, Zenon DEF StagesKept, StageKept, Route
    <2>3. KeysFixed
      BY <1>2, Zenon DEF KeysFixed, Carried, SameCall
    <2>4. PICK x : x = Route(r) /\ x = Route(r)'
      BY <1>2, <2>2, Zenon DEF Route, SameCall
    <2>5. RouteBacked(x)'
      BY <1>1, <2>2, <2>3, <2>4, BackedStays, Zenon DEF AnswersKept
    <2>6. QED
      BY <2>4, <2>5, Zenon DEF RouteBacked
  <1>7. f.pc \notin {"idle", "replay", "check", "cap", "call", "persist", "sendid", "count",
                   "remember", "respond"}
    BY Zenon
  <1>8. /\ cached' \subseteq Kinds \X (Keys \cup BodyKeys) /\ \A c \in cached' : c \in cached
        /\ yc[r] \in DOMAIN Advances /\ millis' \in 0..MaxMillis /\ daily' \in [Kinds -> Nat]
        /\ idem' \in [Routes -> {Absent, Processing} \cup AnswerCodes]
        /\ \A x \in Routes : idem'[x] = OkAnswer => idem[x] = OkAnswer
    BY <1>1, Zenon
  <1>9. f.pc # "idle" /\ StageKept(f, yc[r], rows[r])
    BY <1>7, Zenon DEF StageKept
  <1>10. QED
    BY <1>4, <1>5, <1>6, <1>8, <1>9, TransferFrameKeeps, Zenon

\* The handlers, from the answer of the cache to the answer of the provider.
LEMMA ChecksKeep ==
  ASSUME TransfersInv, NEW r \in Callers,
         InitiateDeposit(r) \/ InitiateWithdraw(r) \/ ReadDaily(r)
  PROVE  TransfersInv'
  <1>1. /\ cached \subseteq Kinds \X (Keys \cup BodyKeys) /\ AnswersKept
        /\ rows \in [Callers -> {"none", "pending", "converting", "processing", "completed",
                                  "failed"}]
        /\ daily \in [Kinds -> Nat] /\ StagesKept
    BY Zenon DEF TransfersInv, TransfersTypeOK
  <1>2. /\ req[r].pc \in {"check", "cap"}
        /\ UNCHANGED <<idem, life, cached, daily, rows, yc, notices, millis, mishaps>>
        /\ \/ Answer(r, Refused)
           \/ Answer(r, OkAnswer) /\ Cached(r)
           \/ Proceed(r, "cap")
           \/ Proceed(r, "call")
    BY Zenon DEF InitiateDeposit, InitiateWithdraw, ReadDaily, Check, redis, mishapVars
  <1>3. /\ req[r].pc \in Handling /\ yc[r] = "none" /\ rows[r] = "none"
        /\ rows' = [rows EXCEPT ![r] = "none"]
        /\ cached' \subseteq Kinds \X (Keys \cup BodyKeys) /\ \A c \in cached' : c \in cached
        /\ daily' \in [Kinds -> Nat]
    BY <1>1, <1>2, Zenon DEF Handling, StagesKept, StageKept
  <1>4. OkAnswer \in AnswerCodes /\ Refused \in AnswerCodes /\ Refused # OkAnswer
    BY DEF OkAnswer, Refused, AnswerCodes
  <1>5. CASE Answer(r, Refused)
    BY <1>2, <1>3, <1>4, <1>5, AnswerKeeps, Zenon
  <1>6. CASE Answer(r, OkAnswer) /\ Cached(r)
    <2>1. KeyBacked(req[r].kind, getIdempotencyKey(r))
      BY <1>1, <1>6, Zenon DEF Cached, AnswersKept
    <2>2. QED
      BY <1>2, <1>3, <1>4, <1>6, <2>1, AnswerKeeps, Zenon
  <1>7. CASE Proceed(r, "cap") \/ Proceed(r, "call")
    <2>1. PICK stage \in {"cap", "call"} : Proceed(r, stage)
      BY <1>7, Zenon
    <2>2. stage \in Handling \ {"respond"} /\ stage \notin {"persist", "sendid", "count", "remember"}
      BY Zenon DEF Handling
    <2>3. QED
      BY <1>2, <1>3, <2>1, <2>2, StageKeeps, Zenon
  <1>8. QED
    BY <1>2, <1>5, <1>6, <1>7, Zenon

LEMMA CallKeeps ==
  ASSUME TransfersInv, NEW r \in Callers, CreateReceive(r) \/ CreateSend(r)
  PROVE  TransfersInv'
  <1>1. /\ req \in [Callers -> CallFrames] /\ yc \in [Callers -> DOMAIN Advances]
        /\ cached \subseteq Kinds \X (Keys \cup BodyKeys) /\ mishaps \in 0..MaxMishaps
        /\ rows \in [Callers -> {"none", "pending", "converting", "processing", "completed",
                                  "failed"}]
        /\ daily \in [Kinds -> Nat] /\ millis \in Nat /\ StagesKept
    BY DEF TransfersInv, TransfersTypeOK
  <1>2. /\ req[r].pc = "call"
        /\ UNCHANGED <<idem, life, cached, daily, rows, notices, millis, mishaps>>
        /\ CallYellowCard(r)
    BY Zenon DEF CreateReceive, CreateSend, redis, mishapVars
  <1>3. /\ req[r].pc \in Handling /\ yc[r] = "none" /\ rows[r] = "none"
        /\ rows' = [rows EXCEPT ![r] = "none"]
        /\ cached' \subseteq Kinds \X (Keys \cup BodyKeys) /\ \A c \in cached' : c \in cached
        /\ daily' \in [Kinds -> Nat] /\ mishaps' \in 0..MaxMishaps
    BY <1>1, <1>2, Zenon DEF Handling, StagesKept, StageKept
  <1>4. Refused \in AnswerCodes /\ Refused # OkAnswer
    BY DEF OkAnswer, Refused, AnswerCodes
  <1>5. CASE Answer(r, Refused) /\ UNCHANGED yc
    BY <1>2, <1>3, <1>4, <1>5, AnswerKeeps, Zenon
  <1>6. CASE /\ yc' = [yc EXCEPT ![r] = "pending"]
             /\ req' = [req EXCEPT ![r].ref = millis, ![r].pc = "persist"]
    <2>0. PICK h, g : h = Refer(req[r], millis) /\ g = Move(h, "persist")
      BY Zenon
    <2>1. h \in CallFrames /\ SameCall(h, req[r])
      BY <1>1, <2>0, Referred, Zenon
    <2>2. req' = [req EXCEPT ![r] = g]
      BY <1>1, <1>6, <2>0, Zenon DEF Refer, Move
    <2>3. g \in CallFrames /\ g.pc = "persist" /\ SameCall(g, h)
      BY <2>0, <2>1, Moved, Zenon DEF TransferStages
    <2>4. /\ g.pc \in Handling \cup {"dead"} /\ "pending" \in DOMAIN Advances
          /\ StageKept(g, "pending", "none") /\ g.pc # "respond"
      BY <2>3 DEF Handling, Advances, StageKept
    <2>5. SameCall(g, req[r])
      BY <2>1, <2>3, Zenon DEF SameCall
    <2>6. QED
      BY <1>2, <1>3, <1>6, <2>2, <2>3, <2>4, <2>5, HandlerKeeps, Zenon
  <1>7. CASE /\ yc' = [yc EXCEPT ![r] = "pending"]
             /\ req' = [req EXCEPT ![r].ref = millis, ![r].pc = "respond", ![r].code = Refused]
    <2>0. PICK h, g : h = Refer(req[r], millis) /\ g = End(h, "respond", Refused)
      BY Zenon
    <2>1. h \in CallFrames /\ SameCall(h, req[r])
      BY <1>1, <2>0, Referred, Zenon
    <2>2. req' = [req EXCEPT ![r] = g]
      BY <1>1, <1>7, <2>0, Zenon DEF Refer, End
    <2>3. g \in CallFrames /\ g.pc = "respond" /\ g.code = Refused /\ SameCall(g, h)
      <3>1. "respond" \in TransferStages
        BY Zenon DEF TransferStages
      <3>2. QED
        BY <1>4, <2>0, <2>1, <3>1, Ended
    <2>4. /\ g.pc \in Handling \cup {"dead"} /\ "pending" \in DOMAIN Advances
          /\ StageKept(g, "pending", "none") /\ g.code # OkAnswer
      BY <1>4, <2>3 DEF Handling, Advances, StageKept
    <2>5. SameCall(g, req[r])
      BY <2>1, <2>3, Zenon DEF SameCall
    <2>6. QED
      BY <1>2, <1>3, <1>7, <2>2, <2>3, <2>4, <2>5, HandlerKeeps, Zenon
  <1>8. QED
    BY <1>2, <1>5, <1>6, <1>7, Zenon DEF CallYellowCard

\* The handlers, from the row to the answer.
LEMMA RecordsKeep ==
  ASSUME TransfersInv, NEW r \in Callers,
         \/ DepositsCreate(r) \/ WithdrawalsCreate(r) \/ UpdateYellowCardTxID(r)
         \/ IncrDaily(r) \/ CacheResponse(r)
  PROVE  TransfersInv'
  <1>1. /\ req \in [Callers -> CallFrames] /\ yc \in [Callers -> DOMAIN Advances]
        /\ cached \subseteq Kinds \X (Keys \cup BodyKeys)
        /\ rows \in [Callers -> {"none", "pending", "converting", "processing", "completed",
                                  "failed"}]
        /\ daily \in [Kinds -> Nat] /\ StagesKept /\ KeyHeld
    BY Zenon DEF TransfersInv, TransfersTypeOK
  <1>2. OkAnswer \in AnswerCodes /\ Refused \in AnswerCodes /\ Refused # OkAnswer
    BY DEF OkAnswer, Refused, AnswerCodes
  <1>3. \A stage \in {"sendid", "count", "remember"} : /\ stage \in Handling \ {"respond"}
          /\ stage \notin {"check", "cap", "call", "persist"}
    BY Zenon DEF Handling
  <1>4. rows = [rows EXCEPT ![r] = rows[r]]
    BY <1>1, Zenon
  <1>5. CASE DepositsCreate(r) \/ WithdrawalsCreate(r)
    <2>1. PICK stage \in {"sendid", "count"} : Persist(r, stage)
      BY <1>5, Zenon DEF DepositsCreate, WithdrawalsCreate
    <2>2. /\ req[r].pc = "persist"
          /\ UNCHANGED <<idem, life, cached, daily, yc, notices, millis, mishaps>>
      BY <1>5, Zenon DEF DepositsCreate, WithdrawalsCreate, redis, mishapVars
    <2>3. /\ req[r].pc \in Handling /\ yc[r] # "none" /\ rows[r] = "none"
          /\ daily' \in [Kinds -> Nat]
          /\ cached' \subseteq Kinds \X (Keys \cup BodyKeys) /\ \A c \in cached' : c \in cached
      BY <1>1, <2>2, Zenon DEF Handling, StagesKept, StageKept
    <2>4. CASE rows' = [rows EXCEPT ![r] = "pending"] /\ Proceed(r, stage)
      BY <1>3, <2>2, <2>3, <2>4, StageKeeps, Zenon
    <2>5. CASE Answer(r, Refused) /\ UNCHANGED rows
      BY <1>2, <2>2, <2>3, <2>5, AnswerKeeps, Zenon
    <2>6. QED
      BY <2>1, <2>4, <2>5, Zenon DEF Persist
  <1>6. CASE UpdateYellowCardTxID(r)
    <2>1. /\ req[r].pc = "sendid" /\ Proceed(r, "count")
          /\ rows' = [rows EXCEPT ![r] = "converting"] \/ UNCHANGED rows
          /\ UNCHANGED <<idem, life, cached, daily, yc, notices, millis, mishaps>>
      BY <1>6, Zenon DEF UpdateYellowCardTxID, redis, mishapVars
    <2>2. /\ req[r].pc \in Handling /\ yc[r] # "none" /\ rows[r] # "none"
          /\ daily' \in [Kinds -> Nat]
      BY <1>1, <2>1, Zenon DEF Handling, StagesKept, StageKept
    <2>3. CASE rows' = [rows EXCEPT ![r] = "converting"]
      BY <1>3, <2>1, <2>2, <2>3, StageKeeps, Zenon
    <2>4. CASE UNCHANGED rows
      BY <1>3, <1>4, <2>1, <2>2, <2>4, StageKeeps, Zenon
    <2>5. QED
      BY <2>1, <2>3, <2>4, Zenon
  <1>7. CASE IncrDaily(r)
    <2>1. /\ req[r].pc = "count" /\ Proceed(r, "remember")
          /\ daily' = [daily EXCEPT ![req[r].kind] = daily[req[r].kind] + req[r].amount]
          /\ UNCHANGED <<idem, life, cached, rows, yc, notices, millis, mishaps>>
      BY <1>7, Zenon DEF IncrDaily, mishapVars
    <2>2. req[r].kind \in Kinds /\ req[r].amount \in Nat
      BY <1>1, Zenon DEF CallFrames
    <2>3. daily' \in [Kinds -> Nat]
      BY <1>1, <2>1, <2>2
    <2>4. req[r].pc \in Handling /\ yc[r] # "none" /\ rows[r] # "none"
      BY <1>1, <2>1, Zenon DEF Handling, StagesKept, StageKept
    <2>5. QED
      BY <1>3, <1>4, <2>1, <2>3, <2>4, StageKeeps, Zenon
  <1>8. CASE CacheResponse(r)
    <2>1. /\ req[r].pc = "remember" /\ Answer(r, OkAnswer)
          /\ cached' = cached \cup {<<req[r].kind, getIdempotencyKey(r)>>}
          /\ UNCHANGED <<idem, life, daily, rows, yc, notices, millis, mishaps>>
      BY <1>8, Zenon DEF CacheResponse, mishapVars
    <2>2. req[r].pc \in Handling /\ Carried(r)
      BY <1>1, <2>1, Zenon DEF Handling, StagesKept, StageKept, Carried
    <2>3. Route(r) \in Routes
      BY <1>1, <2>2, Zenon DEF KeyHeld, Holds
    <2>4. <<req[r].kind, getIdempotencyKey(r)>> \in Kinds \X (Keys \cup BodyKeys)
      BY <1>1, <2>3, Zenon DEF getIdempotencyKey, CallFrames, Route, Routes
    <2>5. KeyBacked(req[r].kind, getIdempotencyKey(r))
      BY <2>2, Zenon DEF KeyBacked
    <2>6. \A c \in cached' : c \in cached \/ KeyBacked(c[1], c[2])'
      <3>1. PICK kind, key : kind = req[r].kind /\ key = getIdempotencyKey(r)
        BY Zenon
      <3>2. req'[r].kind = kind /\ getIdempotencyKey(r)' = key
        <4>1. PICK g : g = End(req[r], "respond", OkAnswer)
          BY Zenon
        <4>2. req[r] \in CallFrames /\ "respond" \in TransferStages /\ req'[r] = g
          BY <1>1, <2>1, <4>1, Zenon DEF TransferStages, Answer, End
        <4>3. SameCall(g, req[r])
          BY <1>2, <4>1, <4>2, Ended
        <4>4. QED
          BY <3>1, <4>2, <4>3, Zenon DEF getIdempotencyKey, SameCall
      <3>3. Carried(r)'
        BY <2>1, <2>2, Zenon DEF Carried
      <3>4. KeyBacked(kind, key)'
        BY <3>2, <3>3, Zenon DEF KeyBacked
      <3>5. \A c \in cached' : c \in cached \/ c = <<kind, key>>
        BY <2>1, <3>1, Zenon
      <3>6. <<kind, key>>[1] = kind /\ <<kind, key>>[2] = key
        BY Zenon
      <3>7. QED
        BY <3>4, <3>5, <3>6, Zenon
    <2>7. cached' \subseteq Kinds \X (Keys \cup BodyKeys)
      BY <1>1, <2>1, <2>4, Zenon
    <2>8. QED
      BY <1>2, <2>1, <2>2, <2>5, <2>6, <2>7, AnswerKeeps, Zenon
  <1>9. QED
    BY <1>5, <1>6, <1>7, <1>8, Zenon

\* The middleware: a request claims its key, is turned away or finds an answer,
\* stores its answer, or is cut off.
LEMMA ClaimKeeps ==
  ASSUME TransfersInv, NEW r \in Callers, NEW kind \in Kinds, NEW key \in Keys,
         NEW body \in BodyKeys \cup {NoKey}, NEW sum \in Amounts,
         Claim(r, kind, key, body, sum)
  PROVE  TransfersInv'
  <1>1. /\ req \in [Callers -> CallFrames] /\ yc \in [Callers -> DOMAIN Advances]
        /\ rows \in [Callers -> {"none", "pending", "converting", "processing", "completed",
                                  "failed"}]
        /\ idem \in [Routes -> {Absent, Processing} \cup AnswerCodes] /\ daily \in [Kinds -> Nat]
        /\ life \in [Routes -> Nat] /\ mishaps \in 0..MaxMishaps
        /\ millis \in 0..MaxMillis /\ cached \subseteq Kinds \X (Keys \cup BodyKeys)
        /\ KeyHeld /\ StagesKept /\ AnswersKept
    BY Zenon DEF TransfersInv, TransfersTypeOK
  <1>2. <<kind, key>> \in Routes
    BY Zenon DEF Routes
  <1>3. PICK x \in Routes : x = <<kind, key>>
    BY <1>2, Zenon
  <1> DEFINE F(pc) == [[NoCall EXCEPT !.kind = kind, !.key = key, !.body = body,
                                    !.amount = sum, !.life = life[x]] EXCEPT !.pc = pc]
  <1>4. PICK pc \in {"check", "replay"} :
          /\ req' = [req EXCEPT ![r] = F(pc)]
          /\ pc = "check" => idem[x] = Absent /\ idem' = [idem EXCEPT ![x] = Processing]
          /\ pc = "replay" => idem' = idem
    <2>1. \/ /\ req' = [req EXCEPT ![r] = F("check")]
             /\ idem[x] = Absent /\ idem' = [idem EXCEPT ![x] = Processing]
          \/ req' = [req EXCEPT ![r] = F("replay")] /\ idem' = idem
      BY <1>3, Zenon DEF Claim, Claimable
    <2> HIDE DEF F
    <2>2. QED
      BY <2>1, Zenon
  <1>f. PICK f : f = F(pc)
    OBVIOUS
  <1>5. /\ req[r].pc = "idle" /\ UNCHANGED <<life, cached, daily, rows, yc, notices, millis, mishaps>>
    BY Zenon DEF Claim, mishapVars
  <1>6. PICK i \in CallFrames : i = NoCall /\ i.code = 0
    <2>1. NoCall \in CallFrames /\ NoCall.code = 0
      BY Zenon DEF CallFrames, NoCall, Kinds
    <2>2. QED
      BY <2>1, Zenon
  <1>7. /\ f.pc = pc /\ f.kind = kind /\ f.key = key /\ f.body = body /\ f.life = life[x]
        /\ f.code = 0 /\ <<f.kind, f.key>> = x /\ f \in CallFrames
    <2>1. sum \in Nat /\ life[x] \in Nat
      BY TransfersAssumption, <1>1, Zenon
    <2>2. f = [i EXCEPT !.kind = kind, !.key = key, !.body = body, !.amount = sum,
                        !.life = life[x], !.pc = pc]
      BY <1>4, <1>f, <1>6, Zenon
    <2>3. f \in CallFrames
      BY <1>6, <2>1, <2>2, Zenon DEF CallFrames
    <2>4. /\ f.pc = pc /\ f.code = 0 /\ f.body = body /\ f.life = life[x]
          /\ f.kind = kind /\ f.key = key
      BY <1>6, <2>1, <2>2, Zenon DEF CallFrames
    <2>5. QED
      BY <1>3, <2>3, <2>4, Zenon
  <1>8. \A s \in Callers : req'[s] = IF s = r THEN f ELSE req[s]
    BY <1>1, <1>4, <1>f, Zenon
  <1>9. yc[r] = "none" /\ rows[r] = "none"
    BY <1>1, <1>5, Zenon DEF StagesKept, StageKept
  <1>10. /\ Route(r)' = x /\ \A s \in Callers : s # r => Route(s)' = Route(s)
    BY <1>7, <1>8, Zenon DEF Route
  <1>11. KeyHeld'
    <2>1. \A s \in Callers : s # r => (Holds(s)' <=> Holds(s)) /\ req'[s].life = req[s].life
      BY <1>5, <1>8, Zenon DEF Holds
    <2>2. CASE pc = "replay"
      <3>1. ~Holds(r)'
        BY <1>5, <1>7, <1>8, <1>9, <2>2, Zenon DEF Holds, Handling
      <3>2. \A s \in Callers : Holds(s)' =>
              Holds(s) /\ Route(s)' = Route(s) /\ req'[s].life = req[s].life
        BY <1>10, <2>1, <3>1, Zenon
      <3>3. UNCHANGED <<idem, life>>
        BY <1>4, <1>5, <2>2, Zenon
      <3>4. QED
        BY <1>1, <3>2, <3>3, KeysUntouched, Zenon
    <2>3. CASE pc = "check"
      <3>1. idem[x] = Absent /\ idem'[x] = Processing /\ \A z \in Routes : z # x => idem'[z] = idem[z]
        BY <1>1, <1>4, <2>3, Zenon
      <3>2. req'[r].life = life[x] /\ life' = life /\ life[x] \in Nat /\ Processing # Absent
        <4>1. Processing # Absent
          BY DEF Processing, Absent
        <4>2. req'[r].life = life[x] /\ life' = life /\ life[x] \in Nat
          BY <1>1, <1>5, <1>7, <1>8, ZenonT(40)
        <4>3. QED
          BY <4>1, <4>2, Zenon
      <3>3. \A s \in Callers : s # r /\ Holds(s) /\ Route(s) = x => req[s].life # life[x]
        BY <1>1, <3>1, Zenon DEF KeyHeld
      <3>4. ASSUME NEW s \in Callers, Holds(s)'
            PROVE  /\ Route(s)' \in Routes /\ req'[s].life <= life'[Route(s)']
                   /\ req'[s].life = life'[Route(s)'] => idem'[Route(s)'] # Absent
        <4>1. CASE s = r
          BY <1>10, <3>1, <3>2, <4>1, SMTT(40)
        <4>2. CASE s # r
          <5>1. Holds(s) /\ Route(s)' = Route(s) /\ req'[s].life = req[s].life
            BY <1>10, <2>1, <3>4, <4>2, Zenon
          <5>2. /\ Route(s) \in Routes /\ req[s].life <= life[Route(s)]
                /\ req[s].life = life[Route(s)] => idem[Route(s)] # Absent
            BY <1>1, <5>1, Zenon DEF KeyHeld
          <5>3. QED
            BY <3>1, <3>2, <5>1, <5>2, Zenon
        <4>3. QED
          BY <4>1, <4>2, Zenon
      <3>5. ASSUME NEW s \in Callers, NEW t \in Callers, s # t, Holds(s)', Holds(t)',
                   Route(s)' = Route(t)'
            PROVE  req'[s].life # req'[t].life
        <4>1. CASE s # r /\ t # r
          BY <1>1, <1>10, <2>1, <3>5, <4>1 DEF KeyHeld
        <4>2. CASE s = r
          BY <1>10, <2>1, <3>2, <3>3, <3>5, <4>2, Zenon
        <4>3. CASE t = r
          BY <1>10, <2>1, <3>2, <3>3, <3>5, <4>3, Zenon
        <4>4. QED
          BY <4>1, <4>2, <4>3, ZenonT(40)
      <3>6. QED
        BY <3>4, <3>5, Zenon DEF KeyHeld
    <2>4. QED
      BY <2>2, <2>3, Zenon
  <1>12. /\ idem' \in [Routes -> {Absent, Processing} \cup AnswerCodes]
         /\ \A z \in Routes : idem'[z] = OkAnswer => idem[z] = OkAnswer
    BY <1>1, <1>4 DEF Processing, OkAnswer
  <1>13. /\ f.pc # "idle" /\ f.pc \notin {"persist", "sendid", "count", "remember", "respond", "done"}
         /\ yc' = [yc EXCEPT ![r] = yc[r]] /\ rows' = [rows EXCEPT ![r] = rows[r]]
         /\ yc[r] \in DOMAIN Advances /\ rows[r] \in {"none", "pending", "converting", rows[r]}
    BY <1>1, <1>5, <1>7, Zenon
  <1>14. /\ cached' \subseteq Kinds \X (Keys \cup BodyKeys) /\ \A c \in cached' : c \in cached
         /\ millis' \in 0..MaxMillis /\ mishaps' \in 0..MaxMishaps /\ daily' \in [Kinds -> Nat]
         /\ UNCHANGED <<life, notices>>
    BY <1>1, <1>5, Zenon
  <1>15. /\ req[r].pc # "idle" => SameCall(f, req[r])
         /\ StageKept(f, yc[r], rows[r])
    BY <1>5, <1>7, <1>9, <1>13 DEF StageKept
  <1>16. QED
    BY <1>4, <1>f, <1>7, <1>9, <1>11, <1>12, <1>13, <1>14, <1>15, TransferFrameKeeps, Zenon

LEMMA RequestEndsKeep ==
  ASSUME TransfersInv, NEW r \in Callers,
         TurnAway(r) \/ tryReplay(r) \/ Die(r)
  PROVE  TransfersInv'
  <1>1. /\ req \in [Callers -> CallFrames] /\ mishaps \in 0..MaxMishaps /\ StagesKept
        /\ idem \in [Routes -> {Absent, Processing} \cup AnswerCodes]
    BY Zenon DEF TransfersInv, TransfersTypeOK
  <1>2. req[r] \in CallFrames
    BY <1>1, Zenon
  <1>3. CASE TurnAway(r)
    <2> DEFINE g == [NoCall EXCEPT !.pc = "done", !.code = Refused]
    <2>1. NoCall \in CallFrames
      BY Zenon DEF CallFrames, NoCall, Kinds
    <2>2. PICK i \in CallFrames : i = NoCall
      BY <2>1, Zenon
    <2>3. g \in CallFrames /\ g.pc = "done" /\ g.code = Refused
      <3>1. g = [i EXCEPT !.pc = "done", !.code = Refused]
        BY <2>2, Zenon
      <3>2. QED
        BY <2>2, <3>1, Zenon DEF CallFrames, AnswerCodes
    <2>4. /\ req[r].pc = "idle" /\ req' = [req EXCEPT ![r] = g]
          /\ UNCHANGED <<idem, life, cached, daily, rows, yc, notices, millis, mishaps>>
      BY <1>3, Zenon DEF TurnAway, redis, mishapVars
    <2> HIDE DEF g
    <2>5. rows[r] = "none" /\ mishaps' \in 0..MaxMishaps
      BY <1>1, <2>4, Zenon DEF StagesKept, StageKept
    <2>6. Refused # OkAnswer
      BY DEF Refused, OkAnswer
    <2>7. QED
      BY <2>3, <2>4, <2>5, <2>6, EndKeeps, Zenon
  <1>4. CASE tryReplay(r)
    <2> DEFINE code == IF idem[Route(r)] \in {Absent, Processing} THEN Refused ELSE idem[Route(r)]
    <2>1. /\ req[r].pc = "replay" /\ mishaps' \in 0..MaxMishaps
          /\ UNCHANGED <<idem, life, cached, daily, rows, yc, notices, millis>>
      BY <1>1, <1>4, Zenon DEF tryReplay, redis, mishapVars
    <2>2. Route(r) \in Routes
      BY <1>1, <2>1, Zenon DEF StagesKept, StageKept, Route
    <2>3. code \in AnswerCodes /\ (code = OkAnswer => idem[Route(r)] = OkAnswer)
      BY <1>1, <2>2 DEF Refused, OkAnswer, AnswerCodes
    <2>4. req' = [req EXCEPT ![r].pc = "done", ![r].code = code]
      BY <1>4, Zenon DEF tryReplay
    <2> HIDE DEF code
    <2>0. PICK g : g = End(req[r], "done", code)
      BY Zenon
    <2>5. req' = [req EXCEPT ![r] = g]
      BY <1>1, <2>0, <2>4, Zenon DEF End
    <2>6. code \in AnswerCodes /\ "done" \in TransferStages
      BY <2>3, Zenon DEF TransferStages
    <2>7. g \in CallFrames /\ g.pc = "done" /\ g.code = code /\ g.ref = req[r].ref /\ SameCall(g, req[r])
      BY <1>2, <2>0, <2>6, Ended
    <2>8. g.kind = req[r].kind /\ g.pc \in {"done", "dead"}
      BY <2>7, Zenon DEF SameCall
    <2>9. QED
      BY <2>1, <2>3, <2>5, <2>7, <2>8, EndKeeps, Zenon
  <1>5. CASE Die(r)
    <2>0. PICK g : g = Move(req[r], "dead")
      BY Zenon
    <2>1. /\ mishaps' \in 0..MaxMishaps
          /\ UNCHANGED <<idem, life, cached, daily, rows, yc, notices, millis>>
      BY TransfersAssumption, <1>1, <1>5 DEF Die, redis
    <2>2. req' = [req EXCEPT ![r] = g]
      BY <1>1, <1>5, <2>0, Zenon DEF Die, Proceed, Move
    <2>3. "dead" \in TransferStages
      BY Zenon DEF TransferStages
    <2>4. g \in CallFrames /\ g.pc = "dead" /\ g.ref = req[r].ref /\ SameCall(g, req[r])
      BY <1>2, <2>0, <2>3, Moved, Zenon
    <2>5. g.kind = req[r].kind /\ g.pc \in {"done", "dead"} /\ g.pc # "done"
      BY <2>4, Zenon DEF SameCall
    <2>6. QED
      BY <2>1, <2>2, <2>4, <2>5, EndKeeps, Zenon
  <1>6. QED
    BY <1>3, <1>4, <1>5, Zenon

LEMMA RespondKeeps ==
  ASSUME TransfersInv, NEW r \in Callers, Respond(r)
  PROVE  TransfersInv'
  <1>0. PICK g : g = Move(req[r], "done")
    BY Zenon
  <1>1. /\ req \in [Callers -> CallFrames] /\ yc \in [Callers -> DOMAIN Advances]
        /\ rows \in [Callers -> {"none", "pending", "converting", "processing", "completed",
                                  "failed"}]
        /\ idem \in [Routes -> {Absent, Processing} \cup AnswerCodes] /\ daily \in [Kinds -> Nat]
        /\ mishaps \in 0..MaxMishaps
        /\ millis \in 0..MaxMillis /\ cached \subseteq Kinds \X (Keys \cup BodyKeys)
        /\ KeyHeld /\ StagesKept /\ AnswersKept
    BY Zenon DEF TransfersInv, TransfersTypeOK
  <1>2. /\ req[r].pc = "respond" /\ idem' = [idem EXCEPT ![Route(r)] = req[r].code]
        /\ Proceed(r, "done") /\ UNCHANGED <<life, cached, daily, rows, yc, notices, millis, mishaps>>
    BY Zenon DEF Respond, mishapVars
  <1>3. req' = [req EXCEPT ![r] = g]
    BY <1>0, <1>1, <1>2, Zenon DEF Proceed, Move
  <1>4. req[r] \in CallFrames /\ "done" \in TransferStages
    BY <1>1, Zenon DEF TransferStages
  <1>5. /\ g \in CallFrames /\ g.pc = "done" /\ g.code = req[r].code /\ g.ref = req[r].ref
        /\ SameCall(g, req[r])
    BY <1>0, <1>4, Moved, Zenon
  <1>6. /\ req[r].code \in AnswerCodes
        /\ \A s \in Callers : req'[s] = IF s = r THEN g ELSE req[s]
    BY <1>1, <1>2, <1>3, Zenon DEF StagesKept, StageKept
  <1>7. PICK x \in Routes : x = Route(r)
    BY <1>1, <1>2, Zenon DEF KeyHeld, Holds, Handling
  <1>8. \A s \in Callers : /\ Route(s)' = Route(s) /\ req'[s].life = req[s].life
                           /\ Holds(s)' => Holds(s)
    BY <1>2, <1>5, <1>6, Zenon DEF Route, Holds, Handling, SameCall
  <1>9. /\ \A z \in Routes : idem'[z] = IF z = x THEN req[r].code ELSE idem[z]
        /\ idem' \in [Routes -> {Absent, Processing} \cup AnswerCodes]
    BY <1>1, <1>2, <1>6, <1>7, Zenon
  <1>10. \A z \in Routes : idem[z] # Absent => idem'[z] # Absent
    BY <1>6, <1>9 DEF AnswerCodes, OkAnswer, Refused, Absent
  <1>11. KeyHeld'
    <2>1. ASSUME NEW s \in Callers, Holds(s)'
          PROVE  /\ Route(s)' \in Routes /\ req'[s].life <= life'[Route(s)']
                 /\ req'[s].life = life'[Route(s)'] => idem'[Route(s)'] # Absent
      <3>1. Holds(s) /\ UNCHANGED life /\ Route(s)' = Route(s) /\ req'[s].life = req[s].life
        BY <1>2, <1>8, <2>1, Zenon
      <3>2. /\ Route(s) \in Routes /\ req[s].life <= life[Route(s)]
            /\ req[s].life = life[Route(s)] => idem[Route(s)] # Absent
        BY <1>1, <3>1, Zenon DEF KeyHeld
      <3>3. PICK z \in Routes : z = Route(s) /\ z = Route(s)'
        BY <3>1, <3>2, Zenon
      <3>4. life'[z] = life[z] /\ (idem[z] # Absent => idem'[z] # Absent)
        BY <1>10, <3>1, Zenon
      <3>5. QED
        BY <3>1, <3>2, <3>3, <3>4, Zenon
    <2>2. ASSUME NEW s \in Callers, NEW t \in Callers, s # t, Holds(s)', Holds(t)',
                 Route(s)' = Route(t)'
          PROVE  req'[s].life # req'[t].life
      BY <1>1, <1>8, <2>2 DEF KeyHeld
    <2>3. QED
      BY <2>1, <2>2, Zenon DEF KeyHeld
  <1>12. req[r].code = OkAnswer => RouteBacked(x)'
    <2>1. KeysFixed
      BY <1>2, <1>5, <1>6, Zenon DEF KeysFixed, Carried, SameCall
    <2>2. QED
      BY <1>1, <1>2, <1>7, <2>1, BackedStays, Zenon DEF AnswersKept
  <1>13. \A z \in Routes : idem'[z] = OkAnswer => idem[z] = OkAnswer \/ RouteBacked(z)'
    BY <1>9, <1>12, Zenon
  <1>14. g.code = OkAnswer => RouteBacked(Route(r))'
    <2>1. Route(r)' = x
      BY <1>7, <1>8, Zenon
    <2>2. QED
      BY <1>5, <1>12, <2>1, Zenon DEF RouteBacked
  <1>15. /\ cached' \subseteq Kinds \X (Keys \cup BodyKeys) /\ \A c \in cached' : c \in cached
         /\ millis' \in 0..MaxMillis /\ mishaps' \in 0..MaxMishaps /\ daily' \in [Kinds -> Nat]
         /\ UNCHANGED <<life, notices>>
         /\ yc' = [yc EXCEPT ![r] = yc[r]] /\ rows' = [rows EXCEPT ![r] = rows[r]]
         /\ yc[r] \in DOMAIN Advances /\ rows[r] \in {"none", "pending", "converting", rows[r]}
    BY <1>1, <1>2, Zenon
  <1>16. g.pc # "idle" /\ StageKept(g, yc[r], rows[r]) /\ g.kind = req[r].kind
    BY <1>5 DEF StageKept, SameCall
  <1>17. QED
    BY <1>3, <1>5, <1>9, <1>11, <1>13, <1>14, <1>15, <1>16, TransferFrameKeeps, Zenon

\* A step that no request takes: what is backed stays backed.
LEMMA AroundKeeps ==
  ASSUME TransfersInv, TransfersTypeOK', KeyHeld', StagesKept', StatusWasReported', UNCHANGED req,
         \A s \in Callers : Carried(s) => Carried(s)',
         cached' \subseteq cached, \A x \in Routes : idem'[x] = OkAnswer => idem[x] = OkAnswer
  PROVE  TransfersInv'
  <1>1. KeysFixed
    BY Zenon DEF KeysFixed
  <1>2. /\ \A kind, key : KeyBacked(kind, key) => KeyBacked(kind, key)'
        /\ \A x : RouteBacked(x) => RouteBacked(x)'
    BY <1>1, BackedStays, Zenon DEF TransfersInv
  <1>3. /\ \A c \in cached' : KeyBacked(c[1], c[2])'
        /\ \A x \in Routes : idem'[x] = OkAnswer => RouteBacked(x)'
    BY <1>2, Zenon DEF TransfersInv, AnswersKept
  <1>4. ASSUME NEW r \in Callers, req'[r].pc \in {"respond", "done"}, req'[r].code = OkAnswer
        PROVE  RouteBacked(Route(r))'
    <2>1. PICK x : x = Route(r) /\ x = Route(r)'
      BY Zenon DEF Route
    <2>2. RouteBacked(x)'
      BY <1>2, <1>4, <2>1, Zenon DEF TransfersInv, AnswersKept
    <2>3. QED
      BY <2>1, <2>2, Zenon DEF RouteBacked
  <1>5. AnswersKept'
    BY <1>3, <1>4, Zenon DEF AnswersKept
  <1>6. QED
    BY <1>5, Zenon DEF TransfersInv

\* Redis drops keys, the provider moves transfers and notifies, time passes.
LEMMA SurroundingsKeep ==
  ASSUME TransfersInv,
         \/ \E x \in Routes : Lapse(x)
         \/ \E c \in cached : LapseCached(c)
         \/ \E r \in Callers, status \in {"processing", "completed", "failed"} : Settle(r, status)
         \/ \E n \in notices : HandleWebhook(n)
         \/ Millisecond
  PROVE  TransfersInv'
  <1>1. TransfersTypeOK /\ KeyHeld /\ StagesKept /\ StatusWasReported
    BY Zenon DEF TransfersInv
  <1>2. UNCHANGED req => \A s \in Callers : Route(s)' = Route(s) /\ req'[s].life = req[s].life
    BY Zenon DEF Route
  <1>3. UNCHANGED <<req, yc>> => \A s \in Callers : Holds(s)' <=> Holds(s)
    BY Zenon DEF Holds
  <1>4. ASSUME NEW x \in Routes, Lapse(x)
        PROVE  TransfersInv'
    <2>1. /\ idem' = [idem EXCEPT ![x] = Absent] /\ life' = [life EXCEPT ![x] = life[x] + 1]
          /\ UNCHANGED <<cached, daily, req, rows, yc, notices, millis>>
          /\ \A r \in Callers : Live(r) => Route(r) # x
          /\ mishaps' = mishaps + 1 /\ mishaps < MaxMishaps
      BY <1>4, Zenon DEF Lapse
    <2>2. TransfersTypeOK'
      <3>1. mishaps' \in 0..MaxMishaps
        BY TransfersAssumption, <1>1, <2>1, CountsOn, Zenon DEF TransfersTypeOK
      <3>2. life' \in [Routes -> Nat] /\ idem' \in [Routes -> {Absent, Processing} \cup AnswerCodes]
        BY <1>1, <2>1, NextLife, Zenon DEF TransfersTypeOK
      <3>3. QED
        BY <1>1, <2>1, <3>1, <3>2, Zenon DEF TransfersTypeOK
    <2>3. \A z \in Routes : /\ life[z] \in Nat
                            /\ life'[z] = IF z = x THEN life[z] + 1 ELSE life[z]
                            /\ idem'[z] = IF z = x THEN Absent ELSE idem[z]
      BY <1>1, <2>1, Zenon DEF TransfersTypeOK
    <2>4. \A s \in Callers : req[s].life \in Nat
      BY <1>1, Zenon DEF TransfersTypeOK, CallFrames
    <2>5. ASSUME NEW s \in Callers, Holds(s)'
          PROVE  /\ Route(s)' \in Routes /\ req'[s].life <= life'[Route(s)']
                 /\ req'[s].life = life'[Route(s)'] => idem'[Route(s)'] # Absent
      <3>1. /\ Route(s) \in Routes /\ req[s].life <= life[Route(s)]
            /\ req[s].life = life[Route(s)] => idem[Route(s)] # Absent
        BY <1>1, <1>3, <2>1, <2>5, Zenon DEF KeyHeld
      <3>2. PICK z \in Routes : z = Route(s) /\ z = Route(s)'
        BY <1>2, <2>1, <3>1, Zenon
      <3>3. req'[s].life = req[s].life /\ req[s].life <= life[z]
            /\ (req[s].life = life[z] => idem[z] # Absent)
        BY <1>2, <2>1, <3>1, <3>2, Zenon
      <3>4. req'[s].life <= life'[z] /\ (req'[s].life = life'[z] => idem'[z] # Absent)
        <4>1. CASE z = x
          <5>1. req[s].life \in Nat /\ life[z] \in Nat /\ req[s].life <= life[z]
            BY <2>3, <2>4, <3>3, Zenon
          <5>2. req[s].life <= life[z] + 1 /\ req[s].life # life[z] + 1
            BY <5>1, Outlived, Zenon
          <5>3. life'[z] = life[z] + 1
            BY <2>3, <4>1, Zenon
          <5>4. QED
            BY <3>3, <5>2, <5>3, Zenon
        <4>2. CASE z # x
          BY <2>3, <3>3, <4>2, Zenon
        <4>3. QED
          BY <4>1, <4>2
      <3>5. QED
        BY <3>2, <3>4, Zenon
    <2>6. KeyHeld'
      <3>1. ASSUME NEW s \in Callers, NEW t \in Callers, s # t, Holds(s)', Holds(t)',
                   Route(s)' = Route(t)'
            PROVE  req'[s].life # req'[t].life
        <4>1. Holds(s) /\ Holds(t) /\ UNCHANGED req
          BY <1>3, <2>1, <3>1, Zenon
        <4>2. Route(s) = Route(t) /\ req'[s].life = req[s].life /\ req'[t].life = req[t].life
          BY <1>2, <3>1, <4>1, Zenon
        <4>3. QED
          BY <1>1, <3>1, <4>1, <4>2, Zenon DEF KeyHeld
      <3>2. QED
        BY <2>5, <3>1, Zenon DEF KeyHeld
    <2>7. StagesKept' /\ StatusWasReported'
      BY <1>1, <1>2, <2>1, Zenon DEF StagesKept, StatusWasReported
    <2>8. \A z \in Routes : idem'[z] = OkAnswer => idem[z] = OkAnswer
      <3>1. Absent # OkAnswer
        BY DEF OkAnswer, Absent
      <3>2. QED
        BY <2>3, <3>1, Zenon
    <2>9. cached' \subseteq cached /\ \A s \in Callers : Carried(s) => Carried(s)'
      BY <2>1, Zenon DEF Carried
    <2>10. QED
      BY <2>1, <2>2, <2>6, <2>7, <2>8, <2>9, AroundKeeps, Zenon
  <1>5. ASSUME UNCHANGED <<idem, life, daily, req, yc, notices>>, TransfersTypeOK', StagesKept',
               StatusWasReported', cached' \subseteq cached, \A s \in Callers : Carried(s) => Carried(s)'
        PROVE  TransfersInv'
    <2>1. KeyHeld'
      BY <1>1, <1>2, <1>3, <1>5, KeysUntouched, Zenon
    <2>2. \A x \in Routes : idem'[x] = OkAnswer => idem[x] = OkAnswer
      BY <1>5, Zenon
    <2>3. QED
      BY <1>5, <2>1, <2>2, AroundKeeps, Zenon
  <1>6. ASSUME NEW c \in cached, LapseCached(c)
        PROVE  TransfersInv'
    <2>1. /\ cached' \subseteq cached /\ mishaps' = mishaps + 1 /\ mishaps < MaxMishaps
          /\ UNCHANGED <<idem, life, daily, req, rows, yc, notices, millis>>
      BY <1>6, ZenonT(40) DEF LapseCached
    <2>2. TransfersTypeOK'
      <3>1. mishaps' \in 0..MaxMishaps
        BY TransfersAssumption, <1>1, <2>1, CountsOn, Zenon DEF TransfersTypeOK
      <3>2. QED
        BY <1>1, <2>1, <3>1, Zenon DEF TransfersTypeOK
    <2>3. StagesKept' /\ StatusWasReported'
      BY <1>1, <1>2, <2>1, Zenon DEF StagesKept, StatusWasReported
    <2>4. \A s \in Callers : Carried(s) => Carried(s)'
      BY <2>1, Zenon DEF Carried
    <2>5. QED
      BY <1>5, <2>1, <2>2, <2>3, <2>4, Zenon
  <1>7. ASSUME NEW r \in Callers, NEW status \in {"processing", "completed", "failed"},
               Settle(r, status)
        PROVE  TransfersInv'
    <2>1. /\ status \in Advances[yc[r]] /\ yc' = [yc EXCEPT ![r] = status]
          /\ notices' = notices \cup {<<req[r].kind, req[r].ref, status>>}
          /\ UNCHANGED <<idem, life, cached, daily, req, rows, millis, mishaps>>
      BY <1>7, Zenon DEF Settle, redis, mishapVars
    <2>2. /\ yc \in [Callers -> DOMAIN Advances] /\ req \in [Callers -> CallFrames]
          /\ notices \subseteq Kinds \X Nat \X {"processing", "completed", "failed"}
      BY <1>1, Zenon DEF TransfersTypeOK
    <2>3. yc[r] # "none" /\ status \in DOMAIN Advances /\ status # "none"
      <3>1. Advances["none"] = {} /\ \A x \in {"processing", "completed", "failed"} :
                                       x \in DOMAIN Advances /\ x # "none"
        BY DEF Advances
      <3>2. QED
        BY <2>1, <3>1, ZenonT(40)
    <2>4. \A s \in Callers : /\ yc'[s] = IF s = r THEN status ELSE yc[s]
                             /\ yc'[s] # "none" <=> yc[s] # "none"
      BY <2>1, <2>2, <2>3, Zenon
    <2>5. yc' \in [Callers -> DOMAIN Advances]
      BY <2>1, <2>2, <2>3, Zenon
    <2>6. notices' \subseteq Kinds \X Nat \X {"processing", "completed", "failed"}
      <3>1. req[r].kind \in Kinds /\ req[r].ref \in Nat
        BY <2>2, Zenon DEF CallFrames
      <3>2. QED
        BY <2>1, <2>2, <3>1, SMTT(40)
    <2>7. TransfersTypeOK'
      BY <1>1, <2>1, <2>5, <2>6, Zenon DEF TransfersTypeOK
    <2>8. \A s \in Callers : Holds(s)' => Holds(s)
      BY <2>1, <2>4, Zenon DEF Holds
    <2>9. KeyHeld'
      BY <1>1, <1>2, <2>1, <2>8, KeysUntouched, Zenon
    <2>10. StagesKept'
      BY <1>1, <1>2, <2>1, <2>4, Zenon DEF StagesKept, StageKept
    <2>11. StatusWasReported'
      BY <1>1, <2>1, Zenon DEF StatusWasReported
    <2>12. /\ cached' \subseteq cached /\ \A x \in Routes : idem'[x] = OkAnswer => idem[x] = OkAnswer
           /\ \A s \in Callers : Carried(s) => Carried(s)'
      BY <2>1, <2>4, Zenon DEF Carried
    <2>13. QED
      BY <2>1, <2>7, <2>9, <2>10, <2>11, <2>12, AroundKeeps, Zenon
  <1>8. ASSUME NEW n \in notices, HandleWebhook(n)
        PROVE  TransfersInv'
    <2>1. /\ rows' = [r \in Callers |-> IF Matches(r, n) THEN n[3] ELSE rows[r]]
          /\ UNCHANGED <<idem, life, cached, daily, req, yc, notices, millis, mishaps>>
      BY <1>8, Zenon DEF HandleWebhook, reconcileDeposit, reconcileWithdrawal, Reconcile, redis, mishapVars
    <2>2. n \in Kinds \X Nat \X {"processing", "completed", "failed"}
      BY <1>1, Zenon DEF TransfersTypeOK
    <2>3. n[3] \in {"processing", "completed", "failed"} /\ n = <<n[1], n[2], n[3]>>
      BY <2>2
    <2>4. /\ \A s \in Callers : rows'[s] = IF Matches(s, n) THEN n[3] ELSE rows[s]
          /\ \A s \in Callers : rows'[s] # "none" <=> rows[s] # "none"
      BY <2>1, <2>3, Zenon DEF Matches
    <2>5. TransfersTypeOK'
      BY <1>1, <2>1, <2>3, Zenon DEF TransfersTypeOK
    <2>6. StagesKept'
      BY <1>1, <1>2, <2>1, <2>4, Zenon DEF StagesKept, StageKept
    <2>7. StatusWasReported'
      <3>1. \A s \in Callers : Matches(s, n) => <<req[s].kind, req[s].ref, n[3]>> = n
        BY <2>3, Zenon DEF Matches
      <3>2. QED
        BY <1>1, <2>1, <2>4, <3>1, Zenon DEF StatusWasReported
    <2>8. cached' \subseteq cached /\ \A s \in Callers : Carried(s) => Carried(s)'
      BY <2>1, <2>4, Zenon DEF Carried
    <2>9. QED
      BY <1>5, <2>1, <2>5, <2>6, <2>7, <2>8, Zenon
  <1>9. ASSUME Millisecond
        PROVE  TransfersInv'
    <2>1. /\ millis' = millis + 1 /\ millis < MaxMillis
          /\ UNCHANGED <<idem, life, cached, daily, req, rows, yc, notices, mishaps>>
      BY <1>9, ZenonT(40) DEF Millisecond, redis
    <2>2. TransfersTypeOK'
      <3>1. millis' \in 0..MaxMillis
        BY TransfersAssumption, <1>1, <2>1, CountsOn, Zenon DEF TransfersTypeOK
      <3>2. QED
        BY <1>1, <2>1, <3>1, Zenon DEF TransfersTypeOK
    <2>3. StagesKept' /\ StatusWasReported'
      BY <1>1, <1>2, <2>1, Zenon DEF StagesKept, StatusWasReported
    <2>4. cached' \subseteq cached /\ \A s \in Callers : Carried(s) => Carried(s)'
      BY <2>1, Zenon DEF Carried
    <2>5. QED
      BY <1>5, <2>1, <2>2, <2>3, <2>4, Zenon
  <1>10. QED
    BY <1>4, <1>6, <1>7, <1>8, <1>9, Zenon

LEMMA TransfersKeeps ==
  ASSUME TransfersInv, TransfersNext
  PROVE  TransfersInv'
  <1>1. ASSUME NEW r \in Callers, TurnAway(r) \/ HandlerStep(r) \/ Die(r)
        PROVE  TransfersInv'
    BY <1>1, RequestEndsKeep, ChecksKeep, CallKeeps, RecordsKeep, RespondKeeps, Zenon DEF HandlerStep
  <1>2. QED
    BY <1>1, ClaimKeeps, SurroundingsKeep, Zenon DEF TransfersNext

\* What the invariant says of the answers.
LEMMA TransfersPromises ==
  ASSUME TransfersInv
  PROVE  OneTransferPerKey /\ StatusWasReported /\ AnswerBacked
  <1>1. OneTransferPerKey
    BY Zenon DEF TransfersInv, KeyHeld, Holds, OneTransferPerKey
  <1>2. ASSUME NEW r \in Callers, req[r].pc = "done", req[r].code = OkAnswer
        PROVE  \E t, s \in Callers :
                 /\ req[t].kind = req[r].kind /\ req[s].kind = req[r].kind
                 /\ req[t].key = req[r].key /\ getIdempotencyKey(s) = getIdempotencyKey(t)
                 /\ yc[s] # "none" /\ rows[s] # "none"
    <2>1. RouteBacked(Route(r))
      BY <1>2, Zenon DEF TransfersInv, AnswersKept
    <2>2. PICK t \in Callers : Route(t) = Route(r) /\ KeyBacked(req[t].kind, getIdempotencyKey(t))
      BY <2>1, Zenon DEF RouteBacked
    <2>3. PICK s \in Callers : /\ req[s].kind = req[t].kind /\ Carried(s)
                               /\ getIdempotencyKey(s) = getIdempotencyKey(t)
      BY <2>2, Zenon DEF KeyBacked
    <2>4. req[t].kind = req[r].kind /\ req[t].key = req[r].key
      BY <2>2, Zenon DEF Route
    <2>5. QED
      BY <2>3, <2>4, Zenon DEF Carried
  <1>3. QED
    BY <1>1, <1>2, Zenon DEF AnswerBacked, TransfersInv

LEMMA TransfersStutters ==
  ASSUME TransfersInv, UNCHANGED transferVars
  PROVE  TransfersInv'
  <1>1. UNCHANGED <<idem, life, cached, daily, req, rows, yc, notices, millis, mishaps>>
    BY Zenon DEF transferVars
  <1>2. TransfersTypeOK' /\ StagesKept' /\ StatusWasReported'
    BY <1>1, Zenon DEF TransfersInv, TransfersTypeOK, StagesKept, StatusWasReported
  <1>3. KeyHeld'
    BY <1>1, Zenon DEF TransfersInv, KeyHeld, Holds, Route
  <1>4. \A s \in Callers : Carried(s) => Carried(s)'
    BY <1>1, Zenon DEF Carried
  <1>5. cached' \subseteq cached /\ \A x \in Routes : idem'[x] = OkAnswer => idem[x] = OkAnswer
    BY <1>1, Zenon
  <1>6. QED
    BY <1>1, <1>2, <1>3, <1>4, <1>5, AroundKeeps, Zenon

-----------------------------------------------------------------------------
(***************************************************************************)
(* Mobile money.                                                           *)
(***************************************************************************)
\* What the lock does to the lease of a pass that runs.
LEMMA LeaseRenewed ==
  ASSUME NEW r, NEW s, NEW h, NEW l \in 0..TTL, NEW D, r \in D, NEW m \in Nat,
         OnLease(s, h, l, D, m)
  PROVE  /\ OnLease(s, h, IF h = r THEN TTL ELSE l, D \ {r}, m)
         /\ OnLease(s, h, l, D \ {r}, m + 1)
  BY MobileAssumption DEF OnLease
LEMMA LeaseTicks ==
  ASSUME NEW s, s # NoReplica, NEW h, NEW l \in 0..TTL, NEW D, s \in D,
         NEW m \in Nat, OnLease(s, h, l, {}, m)
  PROVE  OnLease(s, IF l <= 1 THEN NoReplica ELSE h, IF l > 0 THEN l - 1 ELSE 0, D, m)
  BY MobileAssumption DEF OnLease
LEMMA LeaseTaken ==
  ASSUME NEW s, NEW D, NEW m \in Nat
  PROVE  OnLease(s, s, TTL, D, m)
  BY MobileAssumption DEF OnLease
LEMMA LeaseOfOther ==
  ASSUME NEW s, NEW h, NEW h2, NEW l, NEW l2, NEW D, NEW D2, NEW m, OnLease(s, h, l, D, m),
         h2 = s <=> h = s, h = s => l2 = l, s \in D2 <=> s \in D
  PROVE  OnLease(s, h2, l2, D2, m)
  BY DEF OnLease

\* What is known stays known as long as rows are not taken back and the
\* provider keeps to what it decided.
LEMMA PassKnowsStill ==
  ASSUME NEW f, NEW st, NEW tx, NEW st2, NEW tx2, PassKnows(f, st, tx), f.todo \subseteq Ramps,
         \A q \in Ramps : st[q] # "none" => st2[q] # "none",
         \A q \in Ramps : tx[q] \in Final => tx2[q] = tx[q]
  PROVE  PassKnows(f, st2, tx2)
  BY Zenon DEF PassKnows
LEMMA OutcomeStep ==
  ASSUME MobileInv, \A q \in Ramps : RequestKnows(ramp'[q], ramped'[q], prov'[q]),
         \A q \in Ramps : ramped[q] # "none" => ramped'[q] # "none",
         \A q \in Ramps : prov[q] \in Final => prov'[q] = prov[q],
         \A r \in Replicas : pass'[r] = pass[r] \/ PassKnows(pass'[r], ramped', prov')
  PROVE  OutcomeKnown'
  <1>1. \A r \in Replicas : PassKnows(pass[r], ramped, prov) /\ pass[r].todo \subseteq Ramps
    BY Zenon DEF MobileInv, MobileTypeOK, OutcomeKnown
  <1>2. \A r \in Replicas : PassKnows(pass[r], ramped', prov')
    BY <1>1, PassKnowsStill, Zenon
  <1>3. QED
    BY <1>2, Zenon DEF OutcomeKnown

LEMMA MobileStarts ==
  ASSUME MobileInit
  PROVE  MobileInv
  <1>1. MobileTypeOK
    BY MobileAssumption, SMTT(40) DEF MobileInit, LockInit, MobileTypeOK, LockTypeOK, Asleep, Directions,
           Final
  <1>2. LeaseHeld
    BY Zenon DEF MobileInit, LockInit, LeaseHeld, Running, Asleep
  <1>3. OutcomeKnown
    BY Zenon DEF MobileInit, LockInit, OutcomeKnown, RequestKnows, PassKnows, Asleep, Final
  <1>4. QED
    BY <1>1, <1>2, <1>3, Zenon DEF MobileInv

\* A step that leaves the lock and the passes alone keeps the lease.
LEMMA LeaseUntouched ==
  ASSUME LeaseHeld, UNCHANGED <<pass, lockVars>>
  PROVE  LeaseHeld'
  BY Zenon DEF LeaseHeld, lockVars, Running

\* A step of a request that leaves its row alone and takes it from one stage
\* to the next.
LEMMA RequestStep ==
  ASSUME MobileInv, NEW q \in Ramps, NEW f, NEW p \in Final \cup {"none", "pending"},
         f \in [pc : {"idle", "lookup", "call", "insert", "done"},
                key : RampKeys \cup {NoRamp}, dir : Directions],
         ramp' = [ramp EXCEPT ![q] = f], prov' = [prov EXCEPT ![q] = p],
         f.pc \in {"idle", "lookup", "call"} => p = "none",
         f.pc = "insert" => p # "none",
         ramped[q] = "none", prov[q] \in Final => p = prov[q],
         UNCHANGED <<ramped, old, pass, lockVars>>, pollErrors' = pollErrors,
         deaths' \in 0..MaxDeaths
  PROVE  MobileInv'
  <1>1. MobileTypeOK'
    BY Zenon DEF MobileInv, MobileTypeOK, LockTypeOK, lockVars
  <1>2. LeaseHeld'
    BY LeaseUntouched, Zenon DEF MobileInv
  <1>3. \A s \in Ramps : /\ ramp'[s] = IF s = q THEN f ELSE ramp[s]
                         /\ prov'[s] = IF s = q THEN p ELSE prov[s]
    BY Zenon DEF MobileInv, MobileTypeOK
  <1>4. RequestKnows(f, ramped[q], p) /\ RequestKnows(ramp[q], ramped[q], prov[q])
    BY Zenon DEF MobileInv, OutcomeKnown, RequestKnows, Final
  <1>5. OutcomeKnown'
    <2>1. \A s \in Ramps : RequestKnows(ramp'[s], ramped'[s], prov'[s])
      BY <1>3, <1>4, Zenon DEF MobileInv, OutcomeKnown
    <2>2. \A s \in Ramps : prov[s] \in Final => prov'[s] = prov[s]
      BY <1>3, Zenon
    <2>3. QED
      BY <2>1, <2>2, OutcomeStep, Zenon
  <1>6. QED
    BY <1>1, <1>2, <1>5, Zenon DEF MobileInv

\* A step of a pass that leaves the lock alone.
LEMMA PassStepKeeps ==
  ASSUME MobileInv, NEW r \in Replicas, NEW f,
         f \in [pc : {"list", "poll", "write"}, todo : SUBSET Ramps,
                cur : Ramps \cup {NoRamp}, saw : Final \cup {"none"}],
         pass[r].pc # "sleep", pass' = [pass EXCEPT ![r] = f],
         \A q \in f.todo : ramped[q] # "none",
         f.pc = "write" => /\ f.cur \in Ramps /\ ramped[f.cur] # "none"
                           /\ f.saw \in Final /\ prov[f.cur] = f.saw,
         UNCHANGED <<ramp, ramped, old, prov, pollErrors, deaths, lockVars>>
  PROVE  MobileInv'
  <1>1. MobileTypeOK'
    BY Zenon DEF MobileInv, MobileTypeOK, LockTypeOK, lockVars
  <1>2. \A s \in Replicas : pass'[s] = IF s = r THEN f ELSE pass[s]
    BY Zenon DEF MobileInv, MobileTypeOK
  <1>3. Running' = Running
    BY <1>2, Zenon DEF Running
  <1>4. LeaseHeld'
    BY <1>3, Zenon DEF MobileInv, LeaseHeld, lockVars
  <1>5. OutcomeKnown'
    <2>1. PassKnows(f, ramped', prov')
      BY Zenon DEF PassKnows
    <2>2. \A q \in Ramps : RequestKnows(ramp'[q], ramped'[q], prov'[q])
      BY Zenon DEF MobileInv, OutcomeKnown
    <2>3. QED
      BY <1>2, <2>1, <2>2, OutcomeStep, Zenon
  <1>6. QED
    BY <1>1, <1>4, <1>5, Zenon DEF MobileInv

\* The steps of the requests and of the provider.
LEMMA RequestsKeep ==
  ASSUME MobileInv, NEW q \in Ramps,
         \/ \E key \in RampKeys : \/ \E hasWallet \in BOOLEAN : OnrampRequest(q, key, hasWallet)
                                  \/ OfframpRequest(q, key)
         \/ Lookup(q) \/ InitiateOnramp(q) \/ InitiateOfframp(q) \/ Create(q) \/ RequestDies(q)
         \/ \E status \in Final : ProviderSettles(q, status)
  PROVE  MobileInv'
  <1> USE DEF Directions
  <1>0. /\ ramp[q] \in [pc : {"idle", "lookup", "call", "insert", "done"},
                       key : RampKeys \cup {NoRamp}, dir : Directions]
        /\ prov[q] \in Final \cup {"none", "pending"} /\ deaths \in 0..MaxDeaths
        /\ prov = [prov EXCEPT ![q] = prov[q]]
    BY Zenon DEF MobileInv, MobileTypeOK
  <1>a. /\ ramp[q].pc \in {"idle", "lookup", "call"} => prov[q] = "none"
        /\ ramp[q].pc = "insert" => prov[q] # "none"
        /\ ramp[q].pc # "done" => ramped[q] = "none"
        /\ RequestKnows(ramp[q], ramped[q], prov[q])
    BY Zenon DEF MobileInv, OutcomeKnown, RequestKnows
  <1>1. ASSUME NEW key \in RampKeys, NEW hasWallet \in BOOLEAN, OnrampRequest(q, key, hasWallet)
        PROVE  MobileInv'
    <2> DEFINE f == [key |-> key, dir |-> "onramp",
                     pc |-> IF hasWallet THEN "lookup" ELSE "done"]
    <2>1. /\ ramp' = [ramp EXCEPT ![q] = f] /\ ramp[q].pc = "idle"
          /\ UNCHANGED <<ramped, old, prov, pass, pollErrors, deaths, lockVars>>
      BY <1>1, Zenon DEF OnrampRequest
    <2>2. f \in [pc : {"idle", "lookup", "call", "insert", "done"},
                 key : RampKeys \cup {NoRamp}, dir : Directions] /\ f.pc # "insert"
      BY Zenon
    <2> HIDE DEF f
    <2>3. QED
      BY <1>0, <1>a, <2>1, <2>2, RequestStep, Zenon
  <1>2. ASSUME NEW key \in RampKeys, OfframpRequest(q, key)
        PROVE  MobileInv'
    <2> DEFINE f == [key |-> key, dir |-> "offramp", pc |-> "lookup"]
    <2>1. /\ ramp' = [ramp EXCEPT ![q] = f] /\ ramp[q].pc = "idle"
          /\ UNCHANGED <<ramped, old, prov, pass, pollErrors, deaths, lockVars>>
      BY <1>2, Zenon DEF OfframpRequest
    <2>2. f \in [pc : {"idle", "lookup", "call", "insert", "done"},
                 key : RampKeys \cup {NoRamp}, dir : Directions] /\ f.pc # "insert"
      BY Zenon
    <2> HIDE DEF f
    <2>3. QED
      BY <1>0, <1>a, <2>1, <2>2, RequestStep, Zenon
  <1>3. ASSUME NEW pc \in {"call", "insert", "done"}, NEW p \in {"none", "pending", prov[q]},
               ramp[q].pc \in {"lookup", "call", "insert"}, RampGoto(q, pc),
               prov' = [prov EXCEPT ![q] = p],
               pc = "call" => p = "none", pc = "insert" => p # "none",
               prov[q] \in Final => p = prov[q],
               UNCHANGED <<ramped, old, pass, lockVars>>, pollErrors' = pollErrors,
               deaths' \in 0..MaxDeaths
        PROVE  MobileInv'
    <2> DEFINE f == [ramp[q] EXCEPT !.pc = pc]
    <2>1. ramp' = [ramp EXCEPT ![q] = f]
      BY <1>3, Zenon DEF RampGoto, MobileInv, MobileTypeOK
    <2>2. f \in [pc : {"idle", "lookup", "call", "insert", "done"},
                 key : RampKeys \cup {NoRamp}, dir : Directions] /\ f.pc = pc
      BY <1>0, Zenon
    <2> HIDE DEF f
    <2>3. p \in Final \cup {"none", "pending"}
      BY <1>0, Zenon
    <2>4. ramped[q] = "none"
      BY <1>3, <1>a, Zenon
    <2>5. QED
      BY <1>3, <2>1, <2>2, <2>3, <2>4, RequestStep, Zenon
  <1>4. CASE Lookup(q)
    <2>1. PICK pc \in {"call", "done"} : RampGoto(q, pc)
      BY <1>4, Zenon DEF Lookup
    <2>2. prov[q] = "none" /\ ramp[q].pc = "lookup"
      BY <1>4, <1>a, Zenon DEF Lookup
    <2>3. UNCHANGED <<ramped, old, prov, pass, pollErrors, deaths, lockVars>>
      BY <1>4, Zenon DEF Lookup
    <2>4. QED
      BY <1>0, <1>3, <2>1, <2>2, <2>3, Zenon
  <1>5. CASE InitiateOnramp(q) \/ InitiateOfframp(q)
    <2>1. ramp[q].pc = "call" /\ CallProvider(q)
          /\ UNCHANGED <<ramped, old, pass, pollErrors, deaths, lockVars>>
      BY <1>5, Zenon DEF InitiateOnramp, InitiateOfframp
    <2>2. PICK pc \in {"insert", "done"}, p \in {"none", "pending"} :
             RampGoto(q, pc) /\ prov' = [prov EXCEPT ![q] = p] /\ (pc = "insert" => p # "none")
      BY <1>0, <1>a, <2>1, Zenon DEF CallProvider
    <2>3. prov[q] \notin Final
      BY <1>a, <2>1, Zenon DEF Final
    <2>4. QED
      BY <1>0, <1>3, <2>1, <2>2, <2>3, Zenon
  <1>6. CASE RequestDies(q)
    <2>1. /\ ramp[q].pc \in {"call", "insert"} /\ deaths < MaxDeaths /\ deaths' = deaths + 1
          /\ RampGoto(q, "done") /\ UNCHANGED <<ramped, old, prov, pass, pollErrors, lockVars>>
      BY <1>6, Zenon DEF RequestDies
    <2>2. deaths' \in 0..MaxDeaths
      BY MobileAssumption, <1>0, <2>1
    <2>3. QED
      BY <1>0, <1>3, <2>1, <2>2, Zenon
  <1>7. CASE Create(q)
    <2>1. /\ ramp[q].pc = "insert" /\ RampGoto(q, "done")
          /\ UNCHANGED <<old, prov, pass, deaths, lockVars>>
      BY <1>7, Zenon DEF Create
    <2>a. ramp' \in [Ramps -> [pc : {"idle", "lookup", "call", "insert", "done"},
                                 key : RampKeys \cup {NoRamp}, dir : Directions]]
      <3> DEFINE f == [ramp[q] EXCEPT !.pc = "done"]
      <3>1. f \in [pc : {"idle", "lookup", "call", "insert", "done"},
                   key : RampKeys \cup {NoRamp}, dir : Directions]
        BY <1>0, Zenon
      <3>2. ramp' = [ramp EXCEPT ![q] = f]
        BY <2>1, Zenon DEF RampGoto, MobileInv, MobileTypeOK
      <3> HIDE DEF f
      <3>3. QED
        BY <3>1, <3>2, Zenon DEF MobileInv, MobileTypeOK
    <2>2. CASE ramped' = [ramped EXCEPT ![q] = "pending"] /\ UNCHANGED pollErrors
      <3>1. MobileTypeOK'
        <4>1. ramped' \in [Ramps -> Final \cup {"none", "pending"}]
          BY <2>2, Zenon DEF MobileInv, MobileTypeOK
        <4>3. QED
          BY <2>1, <2>2, <2>a, <4>1, Zenon DEF MobileInv, MobileTypeOK, LockTypeOK, lockVars
      <3>2. LeaseHeld'
        BY <2>1, LeaseUntouched, Zenon DEF MobileInv
      <3>3. \A s \in Ramps : /\ ramp'[s] = IF s = q THEN [ramp[q] EXCEPT !.pc = "done"] ELSE ramp[s]
                             /\ ramped'[s] = IF s = q THEN "pending" ELSE ramped[s]
        BY <2>1, <2>2, Zenon DEF MobileInv, MobileTypeOK, RampGoto
      <3>4. prov[q] # "none" /\ ramp'[q].pc = "done"
        BY <1>0, <1>a, <2>1, <3>3, Zenon
      <3>5. \A s \in Ramps : RequestKnows(ramp'[s], ramped'[s], prov'[s])
        <4>1. RequestKnows(ramp'[q], "pending", prov[q])
          BY <3>4, Zenon DEF RequestKnows, Final
        <4>2. QED
          BY <2>1, <3>3, <4>1, Zenon DEF MobileInv, OutcomeKnown
      <3>6. OutcomeKnown'
        <4>1. \A s \in Ramps : ramped[s] # "none" => ramped'[s] # "none"
          BY <3>3, Zenon
        <4>2. QED
          BY <2>1, <3>5, <4>1, OutcomeStep, Zenon
      <3>7. QED
        BY <3>1, <3>2, <3>6, Zenon DEF MobileInv
    <2>3. CASE UNCHANGED <<ramped, pollErrors>>
      BY <1>0, <1>3, <2>1, <2>3, Zenon
    <2>4. CASE pollErrors < MaxPollErrors /\ pollErrors' = pollErrors + 1 /\ UNCHANGED ramped
      <3>1. MobileTypeOK'
        <4>1. pollErrors \in 0..MaxPollErrors
          BY Zenon DEF MobileInv, MobileTypeOK
        <4>2. pollErrors' \in 0..MaxPollErrors
          BY MobileAssumption, <2>4, <4>1
        <4>3. QED
          BY <2>1, <2>4, <2>a, <4>2, Zenon DEF MobileInv, MobileTypeOK, LockTypeOK, lockVars
      <3>2. LeaseHeld'
        BY <2>1, LeaseUntouched, Zenon DEF MobileInv
      <3>3. \A s \in Ramps : ramp'[s] = IF s = q THEN [ramp[q] EXCEPT !.pc = "done"] ELSE ramp[s]
        BY <2>1, Zenon DEF MobileInv, MobileTypeOK, RampGoto
      <3>4. ramp'[q].pc = "done"
        BY <1>0, <3>3, Zenon
      <3>5. OutcomeKnown'
        <4>1. RequestKnows(ramp'[q], ramped[q], prov[q])
          BY <1>a, <2>1, <3>4, Zenon DEF RequestKnows
        <4>2. \A s \in Ramps : RequestKnows(ramp'[s], ramped'[s], prov'[s])
          BY <2>1, <2>4, <3>3, <4>1, Zenon DEF MobileInv, OutcomeKnown
        <4>3. QED
          BY <2>1, <2>4, <4>2, OutcomeStep, Zenon
      <3>6. QED
        BY <3>1, <3>2, <3>5, Zenon DEF MobileInv
    <2>5. QED
      BY <1>7, <2>2, <2>3, <2>4, Zenon DEF Create
  <1>8. ASSUME NEW status \in Final, ProviderSettles(q, status)
        PROVE  MobileInv'
    <2>1. /\ prov[q] = "pending" /\ prov' = [prov EXCEPT ![q] = status]
          /\ UNCHANGED <<ramp, ramped, old, pass, pollErrors, deaths, lockVars>>
      BY <1>8, Zenon DEF ProviderSettles
    <2>2. MobileTypeOK'
      BY <2>1, Zenon DEF MobileInv, MobileTypeOK, LockTypeOK, lockVars
    <2>3. LeaseHeld'
      BY <2>1, LeaseUntouched, Zenon DEF MobileInv
    <2>4. \A s \in Ramps : prov'[s] = IF s = q THEN status ELSE prov[s]
      BY <2>1, Zenon DEF MobileInv, MobileTypeOK
    <2>5. OutcomeKnown'
      <3>1. RequestKnows(ramp[q], ramped[q], status) /\ prov[q] \notin Final
        BY <1>8, <1>a, <2>1, Zenon DEF RequestKnows, Final
      <3>2. \A s \in Ramps : RequestKnows(ramp'[s], ramped'[s], prov'[s])
        BY <2>1, <2>4, <3>1, Zenon DEF MobileInv, OutcomeKnown
      <3>3. \A s \in Ramps : prov[s] \in Final => prov'[s] = prov[s]
        BY <2>4, <3>1, Zenon
      <3>4. QED
        BY <2>1, <3>2, <3>3, OutcomeStep, Zenon
    <2>6. QED
      BY <2>2, <2>3, <2>5, Zenon DEF MobileInv
  <1>9. QED
    BY <1>1, <1>2, <1>4, <1>5, <1>6, <1>7, <1>8, Zenon

\* The steps of a replica's pass and of its heartbeat.
LEMMA PassesKeep ==
  ASSUME MobileInv, NEW r \in Replicas,
         PassStep(r) \/ ReplicaDies(r) \/ Renew(r)
  PROVE  MobileInv'
  <1>0. /\ pass[r] \in [pc : {"sleep", "list", "poll", "write"}, todo : SUBSET Ramps,
                         cur : Ramps \cup {NoRamp}, saw : Final \cup {"none"}]
        /\ \A q \in pass[r].todo : ramped[q] # "none"
    BY Zenon DEF MobileInv, MobileTypeOK, OutcomeKnown, PassKnows
  <1>a. /\ lease \in 0..TTL /\ missed \in 0..MaxMissed /\ due \subseteq Replicas
        /\ deaths \in 0..MaxDeaths
    BY Zenon DEF MobileInv, MobileTypeOK, LockTypeOK
  <1>b. TTL \in Nat \ {0} /\ TTL \in 0..TTL /\ 0 \in 0..TTL /\ missed \in Nat
    BY MobileAssumption, <1>a
  <1>c. /\ holder \in Replicas \cup {NoReplica} /\ NoReplica \notin Replicas
        /\ \A s \in Running : OnLease(s, holder, lease, due, missed)
        /\ (holder # NoReplica => lease >= 1) /\ due \subseteq Running
    BY MobileAssumption, Zenon DEF MobileInv, MobileTypeOK, LockTypeOK, LeaseHeld
  <1>1. CASE RunOnce(r)
    <2> DEFINE f == [pass[r] EXCEPT !.pc = "list"]
    <2>1. /\ pass[r].pc = "sleep" /\ holder = NoReplica /\ holder' = r /\ lease' = TTL
          /\ UNCHANGED <<due, missed, ramp, ramped, old, prov, pollErrors, deaths>>
      BY <1>1, Zenon DEF RunOnce, Acquire
    <2>2. pass' = [pass EXCEPT ![r] = f]
      BY <1>1, Zenon DEF RunOnce, MobileInv, MobileTypeOK
    <2>3. /\ f \in [pc : {"list"}, todo : SUBSET Ramps,
                     cur : Ramps \cup {NoRamp}, saw : Final \cup {"none"}]
          /\ f.todo = pass[r].todo
      BY <1>0, Zenon
    <2> HIDE DEF f
    <2>4. \A s \in Replicas : pass'[s] = IF s = r THEN f ELSE pass[s]
      BY <2>2, Zenon DEF MobileInv, MobileTypeOK
    <2>5. MobileTypeOK'
      <3>1. f \in [pc : {"sleep", "list", "poll", "write"}, todo : SUBSET Ramps,
                   cur : Ramps \cup {NoRamp}, saw : Final \cup {"none"}]
        BY <2>3, Zenon
      <3>2. pass' \in [Replicas -> [pc : {"sleep", "list", "poll", "write"},
                                    todo : SUBSET Ramps, cur : Ramps \cup {NoRamp},
                                    saw : Final \cup {"none"}]]
        BY <2>2, <3>1, Zenon DEF MobileInv, MobileTypeOK
      <3>3. LockTypeOK'
        BY <1>a, <1>b, <2>1, Zenon DEF LockTypeOK
      <3>4. QED
        BY <2>1, <3>2, <3>3, Zenon DEF MobileInv, MobileTypeOK
    <2>6. Running' = Running \cup {r} /\ r \notin Running /\ Running \subseteq Replicas
      BY <2>1, <2>3, <2>4, Zenon DEF Running
    <2>7. LeaseHeld'
      <3>1. TTL >= 1
        BY <1>b
      <3>2. (due \subseteq Running)' /\ (holder # NoReplica => lease >= 1)'
        BY <1>c, <2>1, <2>6, <3>1, Zenon
      <3>3. OnLease(r, r, TTL, due, missed)
        BY <1>b, LeaseTaken, Zenon
      <3>4. ASSUME NEW s \in Running
            PROVE  OnLease(s, r, TTL, due, missed)
        <4>1. s # r /\ s # NoReplica /\ OnLease(s, NoReplica, lease, due, missed)
          BY <1>c, <2>1, <2>6, Zenon
        <4>2. QED
          BY <4>1, Zenon DEF OnLease
      <3>5. QED
        BY <2>1, <2>6, <3>2, <3>3, <3>4, Zenon DEF LeaseHeld
    <2>8. OutcomeKnown'
      <3>1. PassKnows(f, ramped', prov')
        BY <1>0, <2>1, <2>3, Zenon DEF PassKnows
      <3>2. \A q \in Ramps : RequestKnows(ramp'[q], ramped'[q], prov'[q])
        BY <2>1, Zenon DEF MobileInv, OutcomeKnown
      <3>3. QED
        BY <2>1, <2>4, <3>1, <3>2, OutcomeStep, Zenon
    <2>9. QED
      BY <2>5, <2>7, <2>8, Zenon DEF MobileInv
  <1>2. CASE ListPending(r)
    <2> DEFINE f == [pass[r] EXCEPT !.pc = "poll", !.todo = {q \in old : ramped[q] = "pending"}]
    <2>1. /\ pass[r].pc # "sleep"
          /\ UNCHANGED <<ramp, ramped, old, prov, pollErrors, deaths, lockVars>>
      BY <1>2, Zenon DEF ListPending
    <2>2. pass' = [pass EXCEPT ![r] = f]
      BY <1>2, Zenon DEF ListPending, MobileInv, MobileTypeOK
    <2>3. /\ f \in [pc : {"poll"}, todo : SUBSET Ramps,
                     cur : Ramps \cup {NoRamp}, saw : Final \cup {"none"}]
          /\ \A q \in f.todo : ramped[q] # "none"
      BY <1>0, Zenon DEF MobileInv, MobileTypeOK
    <2> HIDE DEF f
    <2>4. QED
      BY <2>1, <2>2, <2>3, PassStepKeeps, Zenon
  <1>3. ASSUME NEW q \in Ramps, Poll(r, q)
        PROVE  MobileInv'
    <2>1. /\ pass[r].pc = "poll" /\ q \in pass[r].todo /\ ramped[q] # "none"
          /\ UNCHANGED <<ramp, ramped, old, prov, pollErrors, deaths, lockVars>>
      BY <1>0, <1>3, Zenon DEF Poll
    <2> DEFINE f == IF GetStatus(q) = "pending" THEN [pass[r] EXCEPT !.todo = pass[r].todo \ {q}]
                    ELSE [pc |-> "write", todo |-> pass[r].todo \ {q}, cur |-> q,
                          saw |-> GetStatus(q)]
    <2>2. pass' = [pass EXCEPT ![r] = f]
      BY <1>3, Zenon DEF Poll
    <2>3. GetStatus(q) # "pending" => GetStatus(q) \in Final /\ prov[q] = GetStatus(q)
      <3>1. prov[q] \in Final \cup {"none", "pending"} /\ prov[q] # "none"
        BY <2>1, Zenon DEF MobileInv, MobileTypeOK, OutcomeKnown, RequestKnows
      <3>2. QED
        BY <3>1, Zenon DEF GetStatus
    <2>4. /\ f \in [pc : {"poll", "write"}, todo : SUBSET Ramps,
                     cur : Ramps \cup {NoRamp}, saw : Final \cup {"none"}]
          /\ \A p \in f.todo : ramped[p] # "none"
          /\ f.pc = "write" => f.cur = q /\ f.saw = GetStatus(q) /\ GetStatus(q) # "pending"
      BY <1>0, <2>1, <2>3, Zenon
    <2> HIDE DEF f
    <2>5. QED
      BY <2>1, <2>2, <2>3, <2>4, PassStepKeeps, Zenon
  <1>4. CASE UpdateStatus(r)
    <2> DEFINE f == [pass[r] EXCEPT !.pc = "poll", !.cur = NoRamp, !.saw = "none"]
               c == pass[r].cur
    <2>1. /\ pass[r].pc = "write" /\ UNCHANGED <<ramp, old, prov, deaths, lockVars>>
      BY <1>4, Zenon DEF UpdateStatus
    <2>2. pass' = [pass EXCEPT ![r] = f]
      BY <1>4, Zenon DEF UpdateStatus, MobileInv, MobileTypeOK
    <2>3. /\ f \in [pc : {"poll"}, todo : SUBSET Ramps,
                     cur : Ramps \cup {NoRamp}, saw : Final \cup {"none"}]
          /\ f.todo = pass[r].todo
      BY <1>0, Zenon
    <2>4. c \in Ramps /\ ramped[c] # "none" /\ pass[r].saw \in Final /\ prov[c] = pass[r].saw
      BY <2>1, Zenon DEF MobileInv, OutcomeKnown, PassKnows
    <2>5. \/ ramped' = [ramped EXCEPT ![c] = pass[r].saw] /\ UNCHANGED pollErrors
          \/ pollErrors < MaxPollErrors /\ pollErrors' = pollErrors + 1 /\ UNCHANGED ramped
      BY <1>4, Zenon DEF UpdateStatus
    <2> HIDE DEF f, c
    <2>6. MobileTypeOK'
      <3>1. f \in [pc : {"sleep", "list", "poll", "write"}, todo : SUBSET Ramps,
                   cur : Ramps \cup {NoRamp}, saw : Final \cup {"none"}]
        BY <2>3, Zenon
      <3>2. pass' \in [Replicas -> [pc : {"sleep", "list", "poll", "write"},
                                    todo : SUBSET Ramps, cur : Ramps \cup {NoRamp},
                                    saw : Final \cup {"none"}]]
        BY <2>2, <3>1, Zenon DEF MobileInv, MobileTypeOK
      <3>3. ramped' \in [Ramps -> Final \cup {"none", "pending"}]
        BY <2>4, <2>5, Zenon DEF MobileInv, MobileTypeOK
      <3>4. pollErrors \in 0..MaxPollErrors
        BY Zenon DEF MobileInv, MobileTypeOK
      <3>5. pollErrors' \in 0..MaxPollErrors
        BY MobileAssumption, <2>5, <3>4
      <3>6. QED
        BY <2>1, <3>2, <3>3, <3>5, Zenon DEF MobileInv, MobileTypeOK, LockTypeOK, lockVars
    <2>7. \A s \in Replicas : pass'[s] = IF s = r THEN f ELSE pass[s]
      BY <2>2, Zenon DEF MobileInv, MobileTypeOK
    <2>8. Running' = Running
      BY <2>1, <2>3, <2>7, Zenon DEF Running
    <2>9. LeaseHeld'
      BY <2>1, <2>8, Zenon DEF MobileInv, LeaseHeld, lockVars
    <2>10. \A q \in Ramps : \/ ramped'[q] = ramped[q]
                            \/ q = c /\ ramped'[q] \in Final /\ ramped'[q] = prov[q]
      BY <2>4, <2>5, Zenon DEF MobileInv, MobileTypeOK
    <2>11. \A q \in Ramps : ramped[q] # "none" => ramped'[q] # "none"
      BY <2>10, Zenon DEF Final
    <2>12. \A q \in Ramps : RequestKnows(ramp'[q], ramped'[q], prov'[q])
      <3>1. ASSUME NEW q \in Ramps
            PROVE  RequestKnows(ramp[q], ramped'[q], prov[q])
        <4>1. RequestKnows(ramp[q], ramped[q], prov[q])
          BY Zenon DEF MobileInv, OutcomeKnown
        <4>2. CASE ramped'[q] = ramped[q]
          BY <4>1, <4>2, Zenon
        <4>3. CASE q = c /\ ramped'[q] \in Final /\ ramped'[q] = prov[q]
          BY <2>4, <4>1, <4>3, Zenon DEF RequestKnows, Final
        <4>4. QED
          BY <2>10, <4>2, <4>3, Zenon
      <3>2. QED
        BY <2>1, <3>1, Zenon
    <2>13. OutcomeKnown'
      <3>1. PassKnows(f, ramped', prov')
        BY <1>0, <2>3, <2>11, Zenon DEF PassKnows
      <3>2. QED
        BY <2>1, <2>7, <2>11, <2>12, <3>1, OutcomeStep, Zenon
    <2>14. QED
      BY <2>6, <2>9, <2>13, Zenon DEF MobileInv
  <1>5. ASSUME pass[r].pc # "sleep", pass' = [pass EXCEPT ![r] = Asleep],
               due' = due \ {r}, missed' = missed, deaths' \in 0..MaxDeaths,
               UNCHANGED <<ramp, ramped, old, prov, pollErrors>>,
               \/ holder = r /\ holder' = NoReplica /\ lease' = 0
               \/ UNCHANGED <<holder, lease>>
        PROVE  MobileInv'
    <2>1. MobileTypeOK'
      <3>1. Asleep \in [pc : {"sleep", "list", "poll", "write"}, todo : SUBSET Ramps,
                         cur : Ramps \cup {NoRamp}, saw : Final \cup {"none"}]
        BY Zenon DEF Asleep
      <3>2. pass' \in [Replicas -> [pc : {"sleep", "list", "poll", "write"},
                                    todo : SUBSET Ramps, cur : Ramps \cup {NoRamp},
                                    saw : Final \cup {"none"}]]
        BY <1>5, <3>1, Zenon DEF MobileInv, MobileTypeOK
      <3>3. LockTypeOK'
        BY <1>5, <1>a, <1>b, <1>c, Zenon DEF LockTypeOK
      <3>4. QED
        BY <1>5, <3>2, <3>3, Zenon DEF MobileInv, MobileTypeOK
    <2>2. \A s \in Replicas : pass'[s] = IF s = r THEN Asleep ELSE pass[s]
      BY <1>5, Zenon DEF MobileInv, MobileTypeOK
    <2>3. Running' = Running \ {r}
      <3>1. Asleep.pc = "sleep"
        BY Zenon DEF Asleep
      <3>2. QED
        BY <2>2, <3>1, Zenon DEF Running
    <2>4. LeaseHeld'
      <3>1. (holder # NoReplica => lease >= 1)' /\ (due \subseteq Running)'
        BY <1>5, <1>c, <2>3, Zenon
      <3>2. ASSUME NEW s \in Running, s # r
            PROVE  OnLease(s, holder', lease', due', missed)
        <4>1. /\ (s \in due' <=> s \in due) /\ (holder' = s <=> holder = s)
              /\ (holder = s => lease' = lease)
          BY <1>5, <1>c, <3>2, Zenon DEF Running
        <4>2. QED
          BY <1>c, <4>1, LeaseOfOther, Zenon
      <3>3. QED
        BY <1>5, <2>3, <3>1, <3>2, Zenon DEF LeaseHeld
    <2>5. OutcomeKnown'
      <3>1. PassKnows(Asleep, ramped', prov')
        BY Zenon DEF Asleep, PassKnows
      <3>2. \A q \in Ramps : RequestKnows(ramp'[q], ramped'[q], prov'[q])
        BY <1>5, Zenon DEF MobileInv, OutcomeKnown
      <3>3. QED
        BY <1>5, <2>2, <3>1, <3>2, OutcomeStep, Zenon
    <2>6. QED
      BY <2>1, <2>4, <2>5, Zenon DEF MobileInv
  <1>6. CASE EndPass(r)
    <2>1. /\ pass[r].pc # "sleep" /\ pass' = [pass EXCEPT ![r] = Asleep]
          /\ UNCHANGED <<ramp, ramped, old, prov, pollErrors, deaths>>
          /\ due' = due \ {r} /\ missed' = missed
          /\ \/ holder = r /\ holder' = NoReplica /\ lease' = 0
             \/ UNCHANGED <<holder, lease>>
      BY <1>6, Zenon DEF EndPass, Release
    <2>2. deaths' \in 0..MaxDeaths
      BY <2>1, Zenon DEF MobileInv, MobileTypeOK
    <2>3. QED
      BY <1>5, <2>1, <2>2, Zenon
  <1>7. CASE ReplicaDies(r)
    <2>1. /\ pass[r].pc # "sleep" /\ pass' = [pass EXCEPT ![r] = Asleep] /\ due' = due \ {r}
          /\ UNCHANGED <<ramp, ramped, old, prov, pollErrors, holder, lease, missed>>
      BY <1>7, Zenon DEF ReplicaDies
    <2>2. deaths' \in 0..MaxDeaths
      <3>1. deaths < MaxDeaths /\ deaths' = deaths + 1
        BY <1>7, Zenon DEF ReplicaDies
      <3>2. QED
        BY MobileAssumption, <1>a, <3>1
    <2>3. QED
      BY <1>5, <2>1, <2>2, Zenon
  <1>8. CASE Renew(r)
    <2>1. /\ r \in due /\ due' = due \ {r}
          /\ \/ lease' = (IF holder = r THEN TTL ELSE lease) /\ UNCHANGED missed
             \/ missed < MaxMissed /\ missed' = missed + 1 /\ UNCHANGED lease
          /\ UNCHANGED <<holder, ramp, ramped, old, prov, pass, pollErrors, deaths>>
      BY <1>8, Zenon DEF Renew, Heartbeat
    <2>2. MobileTypeOK'
      <3>1. missed < MaxMissed => missed + 1 \in 0..MaxMissed
        BY MobileAssumption, <1>a
      <3>2. LockTypeOK'
        BY <1>a, <1>b, <1>c, <2>1, <3>1, Zenon DEF LockTypeOK
      <3>3. QED
        BY <2>1, <3>2, Zenon DEF MobileInv, MobileTypeOK
    <2>3. Running' = Running
      BY <2>1, Zenon DEF Running
    <2>4. LeaseHeld'
      <3>1. (holder # NoReplica => lease >= 1)' /\ (due \subseteq Running)'
        <4>1. TTL >= 1
          BY <1>b
        <4>2. QED
          BY <1>c, <2>1, <2>3, <4>1, Zenon
      <3>2. \A s \in Running : OnLease(s, holder', lease', due', missed')
        <4>1. ASSUME NEW s \in Running
              PROVE  /\ OnLease(s, holder, IF holder = r THEN TTL ELSE lease, due \ {r}, missed)
                     /\ OnLease(s, holder, lease, due \ {r}, missed + 1)
          <5>1. OnLease(s, holder, lease, due, missed)
            BY <1>c, Zenon
          <5>2. QED
            BY <1>a, <1>b, <2>1, <5>1, LeaseRenewed, Zenon
        <4>2. QED
          BY <2>1, <4>1, Zenon
      <3>3. QED
        BY <2>3, <3>1, <3>2, Zenon DEF LeaseHeld
    <2>5. OutcomeKnown'
      BY <2>1, Zenon DEF MobileInv, OutcomeKnown
    <2>6. QED
      BY <2>2, <2>4, <2>5, Zenon DEF MobileInv
  <1>9. QED
    BY <1>1, <1>2, <1>3, <1>4, <1>6, <1>7, <1>8, Zenon DEF PassStep

LEMMA MobileKeeps ==
  ASSUME MobileInv, MobileNext
  PROVE  MobileInv'
  <1>1. CASE Tick
    <2>1. /\ due = {} /\ due' = Running /\ missed' = missed
          /\ lease' = (IF lease > 0 THEN lease - 1 ELSE 0)
          /\ holder' = (IF lease <= 1 THEN NoReplica ELSE holder)
          /\ old' \subseteq Ramps
          /\ UNCHANGED <<ramp, ramped, prov, pass, pollErrors, deaths>>
      BY <1>1, Zenon DEF Tick, LockTick
    <2>2. Running' = Running /\ Running \subseteq Replicas
      BY <2>1, Zenon DEF Running
    <2>3. /\ lease \in 0..TTL /\ missed \in 0..MaxMissed /\ NoReplica \notin Replicas
          /\ holder \in Replicas \cup {NoReplica} /\ LeaseHeld
      BY MobileAssumption, Zenon DEF MobileInv, MobileTypeOK, LockTypeOK
    <2>a. /\ missed \in Nat /\ (lease > 1 => lease - 1 >= 1 /\ lease > 0)
          /\ (IF lease > 0 THEN lease - 1 ELSE 0) \in 0..TTL
          /\ (~(lease <= 1) => lease > 1)
      BY MobileAssumption, <2>3
    <2>4. MobileTypeOK'
      <3>1. LockTypeOK'
        BY <2>1, <2>2, <2>3, <2>a, Zenon DEF LockTypeOK
      <3>2. QED
        BY <2>1, <3>1, Zenon DEF MobileInv, MobileTypeOK
    <2>5. LeaseHeld'
      <3>1. (holder # NoReplica => lease >= 1)' /\ (due \subseteq Running)'
        BY <2>1, <2>2, <2>a, Zenon
      <3>2. ASSUME NEW s \in Running
            PROVE  OnLease(s, holder', lease', due', missed')
        <4>1. s # NoReplica /\ s \in due' /\ OnLease(s, holder, lease, {}, missed)
          BY <2>1, <2>2, <2>3, <3>2, Zenon DEF LeaseHeld
        <4>2. OnLease(s, IF lease <= 1 THEN NoReplica ELSE holder,
                      IF lease > 0 THEN lease - 1 ELSE 0, due', missed)
          BY <2>3, <2>a, <4>1, LeaseTicks, Zenon
        <4>3. QED
          BY <2>1, <4>2, Zenon
      <3>3. QED
        BY <2>2, <3>1, <3>2, Zenon DEF LeaseHeld
    <2>6. OutcomeKnown'
      BY <2>1, Zenon DEF MobileInv, OutcomeKnown
    <2>7. QED
      BY <2>4, <2>5, <2>6, Zenon DEF MobileInv
  <1>2. QED
    BY <1>1, RequestsKeep, PassesKeep, Zenon DEF MobileNext

LEMMA MobilePromises ==
  ASSUME MobileInv
  PROVE  PassesDisjoint /\ SettledAsProvider
  BY Zenon DEF MobileInv, LeaseHeld, OnLease, OutcomeKnown, RequestKnows, PassesDisjoint,
               SettledAsProvider

LEMMA MobileUndoesNothing ==
  ASSUME MobileInv, MobileNext
  PROVE  OwnRelease /\ KeepsSettled
  <1>1. /\ lease \in 0..TTL /\ TTL \in Nat /\ (holder # NoReplica => lease >= 1)
        /\ NoReplica \notin Replicas
    BY MobileAssumption, Zenon DEF MobileInv, MobileTypeOK, LockTypeOK, LeaseHeld
  <1>2. ASSUME NEW q \in Ramps,
               \/ \E key \in RampKeys : \/ \E hasWallet \in BOOLEAN : OnrampRequest(q, key, hasWallet)
                                        \/ OfframpRequest(q, key)
               \/ Lookup(q) \/ InitiateOnramp(q) \/ InitiateOfframp(q)
               \/ Create(q) \/ RequestDies(q)
               \/ \E status \in Final : ProviderSettles(q, status)
        PROVE  /\ UNCHANGED <<holder, pass>>
               /\ ramped' = ramped \/ (ramp[q].pc = "insert" /\ ramped' = [ramped EXCEPT ![q] = "pending"])
    BY <1>2, Zenon DEF OnrampRequest, OfframpRequest, Lookup, InitiateOnramp, InitiateOfframp,
                 Create, RequestDies, ProviderSettles, lockVars
  <1>3. ASSUME NEW r \in Replicas, PassStep(r) \/ ReplicaDies(r) \/ Renew(r)
        PROVE  /\ holder' = holder \/ holder = NoReplica
                  \/ (holder = r /\ pass[r].pc # "sleep" /\ pass' = [pass EXCEPT ![r] = Asleep])
               /\ ramped' = ramped
                  \/ (pass[r].pc = "write" /\ ramped' = [ramped EXCEPT ![pass[r].cur] = pass[r].saw])
    <2>1. CASE EndPass(r)
      BY <2>1, Zenon DEF EndPass, Release
    <2>2. QED
      BY <1>3, <2>1, Zenon DEF PassStep, RunOnce, ListPending, Poll, UpdateStatus,
             ReplicaDies, Renew, Heartbeat, Acquire, lockVars
  <1>4. ASSUME Tick
        PROVE  ramped' = ramped /\ (lease > 1 => holder' = holder)
    BY <1>1, <1>4 DEF Tick, LockTick
  <1>5. OwnRelease
    <2>1. SUFFICES ASSUME NEW r \in Replicas, holder = r, holder' # r
                   PROVE  lease = 1 \/ (r \in Running /\ pass'[r] = Asleep)
      BY Zenon DEF OwnRelease
    <2>2. ASSUME pass' = [pass EXCEPT ![r] = Asleep]
          PROVE  pass'[r] = Asleep
      BY <2>2, Zenon DEF MobileInv, MobileTypeOK
    <2>3. CASE Tick
      BY <1>1, <1>4, <2>1, <2>3
    <2>4. CASE \E s \in Replicas : PassStep(s) \/ ReplicaDies(s) \/ Renew(s)
      BY <1>1, <1>3, <2>1, <2>2, <2>4, Zenon DEF Running
    <2>5. QED
      BY <1>2, <2>1, <2>3, <2>4, Zenon DEF MobileNext
  <1>6. KeepsSettled
    <2>1. SUFFICES ASSUME NEW q \in Ramps, ramped[q] \in Final
                   PROVE  ramped'[q] = ramped[q]
      BY Zenon DEF KeepsSettled, Settled
    <2>2. ramped \in [Ramps -> Final \cup {"none", "pending"}]
      BY Zenon DEF MobileInv, MobileTypeOK
    <2>3. ASSUME NEW p \in Ramps, ramp[p].pc = "insert", ramped' = [ramped EXCEPT ![p] = "pending"]
          PROVE  ramped'[q] = ramped[q]
      <3>1. ramped[p] = "none"
        BY <2>3, Zenon DEF MobileInv, OutcomeKnown, RequestKnows
      <3>2. QED
        BY <2>1, <2>2, <2>3, <3>1, Zenon DEF Final
    <2>4. ASSUME NEW r \in Replicas, pass[r].pc = "write",
                 ramped' = [ramped EXCEPT ![pass[r].cur] = pass[r].saw]
          PROVE  ramped'[q] = ramped[q]
      <3>1. pass[r].cur \in Ramps /\ prov[pass[r].cur] = pass[r].saw /\ prov[q] = ramped[q]
        BY <2>1, <2>4, Zenon DEF MobileInv, OutcomeKnown, RequestKnows, PassKnows
      <3>2. QED
        BY <2>2, <2>4, <3>1, Zenon
    <2>5. QED
      BY <1>2, <1>3, <1>4, <2>3, <2>4, Zenon DEF MobileNext
  <1>7. QED
    BY <1>5, <1>6, Zenon

LEMMA MobileStutters ==
  ASSUME MobileInv, UNCHANGED mobileVars
  PROVE  MobileInv'
  <1>1. UNCHANGED <<ramp, ramped, old, prov, pass, pollErrors, deaths, holder, lease, due, missed>>
    BY Zenon DEF mobileVars, lockVars
  <1>2. MobileTypeOK'
    BY <1>1, Zenon DEF MobileInv, MobileTypeOK, LockTypeOK
  <1>3. LeaseHeld'
    BY <1>1, LeaseUntouched, Zenon DEF MobileInv, lockVars
  <1>4. OutcomeKnown'
    BY <1>1, Zenon DEF MobileInv, OutcomeKnown
  <1>5. QED
    BY <1>2, <1>3, <1>4, Zenon DEF MobileInv

-----------------------------------------------------------------------------
(***************************************************************************)
(* What the promises are, together.  The components share no variable: the *)
(* bridge has its own table and its own keys, so the server that runs them *)
(* satisfies the conjunction of their specifications.                      *)
(***************************************************************************)

(* What happens again on a retry, a replay or on another replica takes     *)
(* effect once, and the tables and answers say what the provider did.      *)
(* While an idempotency key lives the provider accepts one transfer made   *)
(* under it (IdempotencyMiddleware); a row says completed or failed only   *)
(* if that was reported for a transfer of its kind with its payment        *)
(* reference; a request answered 200, be it replayed by the middleware or  *)
(* taken from the handler's cache, goes back to a transfer that was        *)
(* accepted and that has a row.  Two replicas reconcile at once only after *)
(* two heartbeats in a row were lost (the lock's With), and a row that the *)
(* reconciler settled agrees with the provider, from however old a listing.*)
ProviderBacked ==
  /\ OneTransferPerKey /\ StatusWasReported /\ AnswerBacked
  /\ PassesDisjoint /\ SettledAsProvider

(* No step of the bridge undoes what another actor was promised: the lock  *)
(* leaves its owner only when the owner's pass ends or the TTL runs out,   *)
(* never because of a pass that outlived its lease, and a settled row is   *)
(* not reopened by a pass that listed it before.                           *)
NoStepUndoes == [][OwnRelease /\ KeepsSettled]_mobileVars

LEMMA TransfersInvariant == TransfersSpec => []TransfersInv
<1>1. TransfersInit => TransfersInv
  BY TransfersStarts, Zenon
<1>2. TransfersInv /\ [TransfersNext]_transferVars => TransfersInv'
  BY TransfersKeeps, TransfersStutters, Zenon
<1> QED
  BY <1>1, <1>2, PTL DEF TransfersSpec

LEMMA MobileInvariant == MobileSpec => []MobileInv
<1>1. MobileInit => MobileInv
  BY MobileAssumption, MobileStarts, Zenon
<1>2. MobileInv /\ [MobileNext]_mobileVars => MobileInv'
  BY MobileAssumption, MobileKeeps, MobileStutters, Zenon
<1> QED
  BY <1>1, <1>2, PTL DEF MobileSpec

(* Redis keys, request frames, rows, transfers and the lock keep their     *)
(* types, for any number of requests, keys, replicas and mishaps.          *)
THEOREM TransfersTypesHold == TransfersSpec /\ MobileSpec => [](TransfersTypeOK /\ MobileTypeOK)
<1>1. TransfersInv /\ MobileInv => TransfersTypeOK /\ MobileTypeOK
  BY Zenon DEF TransfersInv, MobileInv
<1> QED
  BY <1>1, TransfersInvariant, MobileInvariant, PTL

(* IdempotencyMiddleware, the deposit and withdrawal handlers, the         *)
(* provider's notifications, the single-flight lock and the reconciler     *)
(* keep tables, answers and provider in agreement, for any number of       *)
(* concurrent requests, keys, lapsed keys, deaths and replicas.            *)
THEOREM ProviderIsBacked == TransfersSpec /\ MobileSpec => []ProviderBacked
<1>1. TransfersInv /\ MobileInv => ProviderBacked
  BY MobileAssumption, TransfersPromises, MobilePromises, Zenon DEF ProviderBacked
<1> QED
  BY <1>1, TransfersInvariant, MobileInvariant, PTL

(* Release compares the token, and UpdateStatus writes what the provider   *)
(* decided: neither takes back what another replica did.                   *)
THEOREM NothingIsUndone == MobileSpec => NoStepUndoes
<1>1. MobileInv /\ [MobileNext]_mobileVars => [OwnRelease /\ KeepsSettled]_mobileVars
  BY MobileAssumption, MobileUndoesNothing, Zenon
<1> QED
  BY <1>1, MobileInvariant, PTL DEF MobileSpec, NoStepUndoes
=============================================================================
