-------------------------------- MODULE Money --------------------------------
(***************************************************************************)
(* pkg/money: amounts of int64 stroops.  Int64 arithmetic wraps: Half is   *)
(* 2^63, and Wrap what the machine makes of a sum.  A balance goes through *)
(* a sequence of operations; `exact` is what unbounded integers say, and   *)
(* an operation that returns an error leaves the balance as it was.        *)
(*                                                                         *)
(* The decimal text of an amount, as the API, the database and the ledger  *)
(* see it, is a second machine.  A digit is a number below Base, any other *)
(* character is the symbol Base; Precision digits follow the point (ten    *)
(* and seven in the code).  A caller sends a text, with or without an      *)
(* exponent, the amount is stored in a column in its canonical form, and   *)
(* is scanned back from there.  A float64 keeps Mantissa digits, in the    *)
(* same base here.                                                         *)
(***************************************************************************)
EXTENDS Integers, Sequences

CONSTANTS Half,      \* 2^63
          Operands,  \* amounts added and subtracted
          Factors,   \* integers multiplied and divided by
          Base, Precision, Mantissa,
          MaxDigits, \* length of the parts of a caller's text
          Exponents  \* exponents a caller may write
ASSUME MoneyConfig == Half \in Nat \ {0} /\ Operands \subseteq -Half..Half - 1
                      /\ Factors \subseteq Int

VARIABLES acc,     \* the balance
          exact,   \* history: the exact value
          refused  \* history: the exact value of the operation last refused, as a
                   \* set: empty when none was
moneyVars == <<acc, exact, refused>>

VARIABLES text,   \* what the caller sent: [form, neg, int, frac, exp]
          amount, \* [ok, v]: the amount, or why there is none
          row,    \* the text in the column
          step
textVars == <<text, amount, row, step>>

Int64 == -Half..Half - 1
Wrap(x) == IF x >= Half THEN x - 2 * Half
           ELSE IF x < -Half THEN x + 2 * Half ELSE x
Abs(x) == IF x < 0 THEN -x ELSE x

Ok(v) == [ok |-> TRUE, v |-> v]
ErrOverflow == [ok |-> FALSE, v |-> 0]

(* Mutated form: the sum is only checked when the operand is positive. *)
AddHalfChecked(m, o) ==
    LET sum == Wrap(m + o) IN IF o > 0 /\ sum < m THEN ErrOverflow ELSE Ok(sum)

(* Add and Sub detect the wrap from the sign of the operand. *)
Add(m, o) ==
    LET sum == Wrap(m + o)
    IN IF (o > 0 /\ sum < m) \/ (o < 0 /\ sum > m) THEN ErrOverflow ELSE Ok(sum)
Sub(m, o) ==
    LET diff == Wrap(m - o)
    IN IF (o < 0 /\ diff < m) \/ (o > 0 /\ diff > m) THEN ErrOverflow ELSE Ok(diff)
Neg(m) == IF m = -Half THEN ErrOverflow ELSE Ok(-m)

(* fromBig: a big integer that does not fit is an error. *)
fromBig(v) == IF v > Half - 1 \/ v < -Half THEN ErrOverflow ELSE Ok(v)
MulInt(m, n) == fromBig(m * n)

(* QuoRem truncates towards zero. *)
Quo(a, b) == IF (a < 0) # (b < 0) THEN -(Abs(a) \div Abs(b)) ELSE Abs(a) \div Abs(b)
Rem(a, b) == a - Quo(a, b) * b

(* roundDiv: to the nearest integer, a half away from zero. *)
roundDiv(num, den) ==
    LET quo == Quo(num, den)
    IN IF 2 * Abs(Rem(num, den)) >= Abs(den)
       THEN IF (num < 0) # (den < 0) THEN quo - 1 ELSE quo + 1
       ELSE quo

(* MulDiv; a zero divisor is an error of its own. *)
MulDiv(m, num, den) == IF den = 0 THEN ErrOverflow ELSE fromBig(roundDiv(m * num, den))

(***************************************************************************)
(* The balance.                                                            *)
(***************************************************************************)
MoneyInit == acc = 0 /\ exact = 0 /\ refused = {}

(* A caller keeps the result, or the old amount when there is an error. *)
Keep(r, e) ==
    \/ r.ok /\ acc' = r.v /\ exact' = e /\ UNCHANGED refused
    \/ ~r.ok /\ refused' = {e} /\ UNCHANGED <<acc, exact>>

AddStep(o) == Keep(Add(acc, o), exact + o)
SubStep(o) == Keep(Sub(acc, o), exact - o)
NegStep == Keep(Neg(acc), -exact)
MulIntStep(n) == Keep(MulInt(acc, n), exact * n)
MulDivStep(num, den) ==
    IF den = 0 THEN UNCHANGED moneyVars
    ELSE Keep(MulDiv(acc, num, den), roundDiv(exact * num, den))

MoneyNext ==
    \/ \E o \in Operands : AddStep(o) \/ SubStep(o)
    \/ NegStep
    \/ \E n \in Factors : MulIntStep(n)
    \/ \E n, d \in Factors : MulDivStep(n, d)
MoneySpec == MoneyInit /\ [][MoneyNext]_moneyVars

(***************************************************************************)
(* The text of an amount.                                                  *)
(***************************************************************************)
NoText == [form |-> "null", neg |-> FALSE, int |-> <<>>, frac |-> <<>>, exp |-> 0]
Power[n \in Nat] == IF n = 0 THEN 1 ELSE Base * Power[n - 1]
StroopsPerUnit == Power[Precision]
Zeros(n) == [i \in 1..n |-> 0]

allDigits(s) == s # <<>> /\ \A i \in 1..Len(s) : s[i] < Base

(* big.Int's SetString of the digits. *)
SetString(s) ==
    LET read[i \in 0..Len(s)] == IF i = 0 THEN 0 ELSE Base * read[i - 1] + s[i]
    IN read[Len(s)]

(* FromString: a text with no digit, with a character that is none, or     *)
(* with too long a fraction is refused; the fraction is filled with zeros  *)
(* and all the digits are read as one integer.                             *)
FromString(t) ==
    IF t.int = <<>> /\ t.frac = <<>> THEN ErrOverflow
    ELSE LET int == IF t.int = <<>> THEN <<0>> ELSE t.int
         IN IF \/ Len(t.frac) > Precision \/ ~allDigits(int)
               \/ t.frac # <<>> /\ ~allDigits(t.frac)
            THEN ErrOverflow
            ELSE LET v == SetString(int \o t.frac \o Zeros(Precision - Len(t.frac)))
                 IN fromBig(IF t.neg THEN -v ELSE v)

(* The digits of a natural number, "0" for zero. *)
Digits(n) ==
    LET size == CHOOSE k \in 1..2 * Half : Power[k] > n /\ (k = 1 \/ Power[k - 1] <= n)
    IN [i \in 1..size |-> (n \div Power[size - i]) % Base]

(* String: sign, whole units, and the fraction padded to Precision digits. *)
String(m) ==
    LET frac == Digits(Abs(m) % StroopsPerUnit)
    IN [form |-> "decimal", neg |-> m < 0, int |-> Digits(Abs(m) \div StroopsPerUnit),
        frac |-> Zeros(Precision - Len(frac)) \o frac, exp |-> 0]

(* strconv rounds to the nearest, and of two equally near to the even one. *)
HalfEven(n, d) ==
    LET q == n \div d
        r == n % d
    IN IF 2 * r > d \/ (2 * r = d /\ q % 2 = 1) THEN q + 1 ELSE q

(* ParseFloat: the digits a float64 keeps, and the place of the last.      *)
ParseFloat(t) ==
    LET v == SetString(t.int \o t.frac)
        size == Len(Digits(v))
        lost == IF size > Mantissa THEN size - Mantissa ELSE 0
    IN [neg |-> t.neg, digits |-> HalfEven(v, Power[lost]) * Power[lost],
        place |-> t.exp - Len(t.frac)]

(* FromFloat64: FormatFloat to Precision decimals, which FromString reads. *)
FromFloat64(f) ==
    LET shift == f.place + Precision
        v == IF shift >= 0 THEN f.digits * Power[shift] ELSE HalfEven(f.digits, Power[-shift])
    IN fromBig(IF f.neg THEN -v ELSE v)

Strings(n) == UNION {[1..k -> 0..Base] : k \in 0..n}
TextInit ==
    /\ text \in {NoText} \cup
         [form : {"decimal"}, neg : BOOLEAN, int : Strings(MaxDigits),
          frac : Strings(Precision + 1), exp : {0}] \cup
         [form : {"exponent"}, neg : BOOLEAN, int : Strings(MaxDigits),
          frac : Strings(Precision + 1), exp : Exponents]
    /\ amount = ErrOverflow /\ row = NoText /\ step = "sent"

(* UnmarshalJSON: null is zero, a text with an exponent goes through a     *)
(* float64, any other is read exactly.                                     *)
Unmarshalled(t) ==
    CASE t.form = "null" -> Ok(0)
      [] t.form = "exponent" -> IF allDigits(t.int \o t.frac) THEN FromFloat64(ParseFloat(t))
                                ELSE ErrOverflow
      [] OTHER -> FromString(t)

UnmarshalJSON ==
    /\ step = "sent"
    /\ amount' = Unmarshalled(text)
    /\ step' = IF Unmarshalled(text).ok THEN "held" ELSE "refused"
    /\ UNCHANGED <<text, row>>

(* Value: the column gets the canonical text. *)
Value ==
    /\ step = "held"
    /\ row' = String(amount.v)
    /\ step' = "stored"
    /\ UNCHANGED <<text, amount>>

(* Scan, by what the driver hands over: nothing for NULL, the text of a    *)
(* NUMERIC column, the integer of an integer column of stroops, the float  *)
(* of a floating-point one.                                                *)
Scanned(kind, src) ==
    CASE kind = "nil" -> Ok(0)
      [] kind = "text" -> FromString(src)
      [] kind = "int64" -> Ok(src)
      [] kind = "float64" -> FromFloat64(src)

Scan ==
    /\ step = "stored"
    /\ \/ amount' = Scanned("text", row) /\ step' = "loaded"
       \/ amount' = Scanned("float64", ParseFloat(row)) /\ step' = "floated"
       \/ amount' = Scanned("int64", amount.v) /\ step' = "loaded"
       \/ amount' = Scanned("nil", 0) /\ step' = "absent"
    /\ UNCHANGED <<text, row>>

TextNext == UnmarshalJSON \/ Value \/ Scan
TextSpec == TextInit /\ [][TextNext]_textVars

-----------------------------------------------------------------------------
(* A balance is always the exact result of the operations that succeeded:  *)
(* Add, Sub, Neg, MulInt and MulDiv never return a wrapped value.          *)
BalanceExact == acc \in Int64 /\ acc = exact

(* An operation is only refused when its exact result does not fit. *)
RefusedRightly == \A e \in refused : e \notin Int64

(* MulDiv's rounding: for every dividend and divisor the quotient is the   *)
(* nearest integer, and of two equally near ones the one further from      *)
(* zero.                                                                   *)
RoundsNearest ==
    \A den \in Factors \ {0}, k \in Factors :
        LET num == acc * k
            q == roundDiv(num, den)
        IN /\ 2 * Abs(num - q * den) <= Abs(den)
           /\ 2 * Abs(num - q * den) = Abs(den) => Abs(q * den) > Abs(num)

(* A text is one of digits and other characters, an amount an int64. *)
TextTypeOK ==
    /\ amount.ok \in BOOLEAN /\ amount.v \in -Half..Half - 1
    /\ step \in {"sent", "held", "refused", "stored", "loaded", "floated", "absent"}

(* Reference: the value of a well-formed text in stroops, digit by digit   *)
(* with the weight of its place, over Scale(t), which is 1 unless the      *)
(* exponent leaves fractions of a stroop.                                  *)
WellFormed(t) ==
    \/ t.form = "null"
    \/ /\ t.int # <<>> \/ t.frac # <<>>
       /\ t.form = "decimal" => Len(t.frac) <= Precision
       /\ \A i \in 1..Len(t.int) : t.int[i] # Base
       /\ \A i \in 1..Len(t.frac) : t.frac[i] # Base
Places(t) == Precision + t.exp - Len(t.frac)
Scale(t) == IF Places(t) < 0 THEN Power[-Places(t)] ELSE 1
Weighed(s, top) ==
    LET sum[i \in 0..Len(s)] == IF i = 0 THEN 0 ELSE sum[i - 1] + s[i] * Power[top - i]
    IN sum[Len(s)]
Stroops(t) ==
    LET zeros == IF Places(t) > 0 THEN Places(t) ELSE 0
        v == Weighed(t.int, Len(t.int) + Len(t.frac) + zeros) + Weighed(t.frac, Len(t.frac) + zeros)
    IN IF t.neg THEN -v ELSE v

(* v is the value n/d to half a stroop and the precision of a float64. *)
Near(v, n, d) ==
    2 * Abs(v * d - n) * Power[Mantissa - 1] <= d * Power[Mantissa - 1] + Abs(n)

(* An amount that goes through the API, the column and back is the one the *)
(* caller's text says, to the last stroop; every decimal text that is well *)
(* formed and fits is accepted, no other is, and what was stored can be    *)
(* read.  Only a text with an exponent, or a floating-point column, may    *)
(* round, and then to the nearest stroop a float64 allows.                 *)
AmountKept ==
    LET n == Stroops(text)
        d == Scale(text)
    IN /\ step \in {"held", "stored", "loaded"} => WellFormed(text) /\ amount.ok
       /\ step \in {"held", "loaded"} =>
            IF text.form = "exponent" THEN Near(amount.v, n, d) ELSE amount.v = n
       /\ step = "floated" =>
            IF amount.ok THEN Near(amount.v, Stroops(row), 1)
                              ELSE Near(Half, Abs(Stroops(row)), 1)
       /\ step = "refused" =>
            \/ ~WellFormed(text)
            \/ n \notin -Half * d..(Half - 1) * d
            \/ text.form = "exponent" /\ Near(Half, Abs(n), d)

(* The stored text is the canonical one: two callers who wrote the same    *)
(* amount differently left the same row, with all its decimals and no      *)
(* leading zero.                                                           *)
RowCanonical ==
    step = "stored" => /\ Len(row.frac) = Precision
                       /\ Len(row.int) > 1 => row.int[1] # 0
                       /\ Stroops(row) = amount.v
=============================================================================
