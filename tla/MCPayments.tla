----------------------------- MODULE MCPayments ------------------------------
(* The components that hold or move money: swap offers, amounts, deposits and *)
(* withdrawals, mobile money, the text of amounts, savings goals, incentives, *)
(* and the votes, bids and fees of payout rounds.  They share no variable, so *)
(* a behaviour is about one part and the other components stay as they start. *)
(* Referrals and streaks, two tables of one component, are parts of their own. *)
EXTENDS TransferProofs, MemberProofs, TLC

CONSTANTS q1, q2

VARIABLE part

(* A 5-bit word: every sum and product meets its limits. *)
Amounts5 == -Half..Half - 1
SmallFactors == -3..3
SmallExponents == {-2, 1}
(* Bound: lost heartbeats, failed statements and deaths of a mobile-money behaviour. *)
MaxFaults == 2

(* What the chain reports of round 1: a vote, a bid, a default, a fee, a late payment. *)
Fact(t, u, to, b) == [type |-> t, user |-> u, to |-> to, bid |-> b, round |-> 1]
Facts == {Fact("vote", "u1", "u2", 0), Fact("bid", "u1", "-", 1), Fact("default", "u1", "-", 0),
          Fact("fee", "-", "-", 0), Fact("late", "u1", "-", 0)}

NoTextSent == text = NoText /\ amount = ErrOverflow /\ row = NoText /\ step = "sent"

PartInit ==
  /\ part \in {"swap", "money", "transfers", "mobile", "text", "savings", "incentives",
               "streaks", "rounds"}
  /\ Init /\ MoneyInit /\ TransfersInit /\ MobileInit /\ SavingsInit /\ IncentivesInit /\ RoundInit
  /\ IF part = "text" THEN TextInit ELSE NoTextSent

PartNext ==
  \/ /\ part = "swap"
     /\ UNCHANGED <<part, moneyVars, transferVars, mobileVars, textVars, savingsVars,
                   incentiveVars, roundVars>>
     /\ Next
  \/ /\ part = "money"
     /\ UNCHANGED <<part, vars, transferVars, mobileVars, textVars, savingsVars,
                   incentiveVars, roundVars>>
     /\ MoneyNext
  \/ /\ part = "transfers"
     /\ UNCHANGED <<part, vars, moneyVars, mobileVars, textVars, savingsVars,
                   incentiveVars, roundVars>>
     /\ TransfersNext
  \/ /\ part = "mobile"
     /\ UNCHANGED <<part, vars, moneyVars, transferVars, textVars, savingsVars,
                   incentiveVars, roundVars>>
     /\ MobileNext /\ missed' + pollErrors' + deaths' <= MaxFaults
  \/ /\ part = "text"
     /\ UNCHANGED <<part, vars, moneyVars, transferVars, mobileVars, savingsVars,
                   incentiveVars, roundVars>>
     /\ TextNext
  \/ /\ part = "savings"
     /\ UNCHANGED <<part, vars, moneyVars, transferVars, mobileVars, textVars,
                   incentiveVars, roundVars>>
     /\ SavingsNext
  \/ /\ part = "incentives"
     /\ UNCHANGED <<part, vars, moneyVars, transferVars, mobileVars, textVars,
                   savingsVars, roundVars>>
     /\ UNCHANGED streak /\ IncentivesNext
  \/ /\ part = "streaks"
     /\ UNCHANGED <<part, vars, moneyVars, transferVars, mobileVars, textVars,
                   savingsVars, roundVars>>
     /\ UNCHANGED <<referrals, incentives>> /\ IncentivesNext
  \/ /\ part = "rounds"
     /\ UNCHANGED <<part, vars, moneyVars, transferVars, mobileVars, textVars,
                   savingsVars, incentiveVars>>
     /\ RoundNext

partVars == <<part, vars, moneyVars, textVars, transferVars, mobileVars, savingsVars,
              incentiveVars, roundVars>>

PartSpec == PartInit /\ [][PartNext]_partVars

Symmetric == Permutations({q1, q2})

(* Every table, key, frame and counter of the components keeps its type. *)
PartsTypeOK ==
  /\ part = "swap" => TypeOK
  /\ part = "transfers" => TransfersTypeOK
  /\ part = "mobile" => MobileTypeOK
  /\ part = "text" => TextTypeOK
  /\ part = "savings" => SavingsTypeOK
  /\ part \in {"incentives", "streaks"} => IncentivesTypeOK
  /\ part = "rounds" => RoundTypeOK

(* Amounts are exact: a balance is the result of the operations that       *)
(* succeeded, none is refused whose result fits, MulDiv gives the nearest  *)
(* integer and of two equally near ones the one further from zero; a       *)
(* decimal text is accepted if and only if it is well formed and fits, is  *)
(* stored in its canonical form, and reads back as the amount the caller   *)
(* wrote, while one with an exponent may round to what a float64 allows.   *)
AmountsExact ==
  /\ part = "money" => BalanceExact /\ RefusedRightly /\ RoundsNearest
  /\ part = "text" => AmountKept /\ RowCanonical
==============================================================================
