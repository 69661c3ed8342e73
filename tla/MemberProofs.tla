---------------------------- MODULE MemberProofs ----------------------------
EXTENDS SwapOffer, Incentives, RoundVotes, SavingsGoals, TLAPS

-----------------------------------------------------------------------------
(***************************************************************************)
(* Safety of SwapOffer for any number of requests, sweepers, failed calls, *)
(* lost answers and crashes.  The inductive invariant says what a process  *)
(* between two statements knows of the row and of the contract: a claim is *)
(* held by one process, and whoever is about to close the offer has seen   *)
(* the escrow returned, which no call undoes.                              *)
(***************************************************************************)

Processes == Requests \cup Sweepers
Accepts == {"acceptCall", "acceptUndo", "acceptDone"}
Sweeps == {"release", "finalize", "handBack"}

(* One process at a time has claimed the row, or inserts it. *)
OneHolder ==
  \A p, q \in Processes :
    \/ at[p] \in Accepts \cup Sweeps /\ at[q] \in Accepts \cup Sweeps
    \/ at[p] = "insert" /\ at[q] = "insert"
    => p = q

(* What the row and the contract are while a process is at a stage. *)
Knows(where) ==
  /\ where = "insert" => status = "none" /\ escrow # "none"
  /\ where \in Accepts => status \in {"accepted", "cancelled"}
  /\ where \in Sweeps => status \in {"sweeping", "cancelled"}
  /\ where \in {"cancelCall", "cancelDone"} => status # "none"
  /\ where \in {"cancelDone", "finalize"} => escrow = "returned"
  /\ where = "acceptDone" => escrow = "swapped"

IInv ==
  /\ TypeOK /\ OneHolder /\ ClosedIsReturned
  /\ \A p \in Processes : Knows(at[p])

LEMMA InitIInv == Init => IInv
<1> SUFFICES ASSUME Init PROVE IInv
  OBVIOUS
<1>1. TypeOK
  <2>1. {expired} \subseteq BOOLEAN
    BY Zenon DEF Init
  <2>2. at \in [Requests \cup Sweepers -> Stage]
    BY DEF Init, Stage
  <2> QED
    BY <2>1, <2>2, BoundsAssumption DEF Init, TypeOK
<1>2. \A p \in Processes : at[p] = "idle"
  BY DEF Init, Processes
<1> QED
  BY <1>1, <1>2 DEF Init, IInv, OneHolder, ClosedIsReturned, Knows, Accepts, Sweeps

LEMMA NextIInv == IInv /\ [Next]_vars => IInv'
<1> SUFFICES ASSUME IInv, [Next]_vars PROVE IInv'
  OBVIOUS
<1> USE BoundsAssumption
<1>0. /\ TypeOK /\ OneHolder /\ ClosedIsReturned
      /\ \A p \in Processes : Knows(at[p])
  BY DEF IInv
<1>1. ASSUME NEW r \in Requests, CreateSwap(r) PROVE IInv'
  <2>1. TypeOK'
    BY <1>0, <1>1 DEF CreateSwap, Goto, bounds, Call, TypeOK, Stage, Processes
  <2>2. OneHolder'
    BY <1>0, <1>1 DEF CreateSwap, Goto, bounds, Call, TypeOK, OneHolder, Knows, Processes, Accepts, Sweeps
  <2>3. ClosedIsReturned'
    BY <1>0, <1>1 DEF CreateSwap, Goto, bounds, Call, ClosedIsReturned, Knows, Processes
  <2>4. ASSUME NEW q \in Processes PROVE Knows(at[q])'
    BY <1>0, <1>1 DEF CreateSwap, Goto, bounds, Call, TypeOK, OneHolder, Knows, Processes, Accepts, Sweeps
  <2> QED
    BY <2>1, <2>2, <2>3, <2>4 DEF IInv
<1>2. ASSUME NEW r \in Requests, CreateSwapOffer(r) PROVE IInv'
  <2>1. TypeOK'
    BY <1>0, <1>2 DEF CreateSwapOffer, Goto, bounds, TypeOK, Stage, Processes
  <2>2. OneHolder'
    BY <1>0, <1>2 DEF CreateSwapOffer, Goto, bounds, TypeOK, OneHolder, Knows, Processes, Accepts, Sweeps
  <2>3. ClosedIsReturned'
    BY <1>0, <1>2 DEF CreateSwapOffer, Goto, bounds, ClosedIsReturned, Knows, Processes
  <2>4. ASSUME NEW q \in Processes PROVE Knows(at[q])'
    BY <1>0, <1>2 DEF CreateSwapOffer, Goto, bounds, TypeOK, OneHolder, Knows, Processes, Accepts, Sweeps
  <2> QED
    BY <2>1, <2>2, <2>3, <2>4 DEF IInv
<1>3. ASSUME NEW r \in Requests, AcceptRead(r) PROVE IInv'
  <2>1. TypeOK'
    BY <1>0, <1>3 DEF AcceptRead, Goto, bounds, TypeOK, Stage, Processes
  <2>2. OneHolder'
    BY <1>0, <1>3 DEF AcceptRead, Goto, bounds, TypeOK, OneHolder, Knows, Processes, Accepts, Sweeps
  <2>3. ClosedIsReturned'
    BY <1>0, <1>3 DEF AcceptRead, Goto, bounds, ClosedIsReturned, Knows, Processes
  <2>4. ASSUME NEW q \in Processes PROVE Knows(at[q])'
    BY <1>0, <1>3 DEF AcceptRead, Goto, bounds, TypeOK, OneHolder, Knows, Processes, Accepts, Sweeps
  <2> QED
    BY <2>1, <2>2, <2>3, <2>4 DEF IInv
<1>4. ASSUME NEW r \in Requests, AcceptClaim(r) PROVE IInv'
  <2>1. TypeOK'
    BY <1>0, <1>4 DEF AcceptClaim, Goto, bounds, TypeOK, Stage, Processes
  <2>2. OneHolder'
    BY <1>0, <1>4 DEF AcceptClaim, Goto, bounds, TypeOK, OneHolder, Knows, Processes, Accepts, Sweeps
  <2>3. ClosedIsReturned'
    BY <1>0, <1>4 DEF AcceptClaim, Goto, bounds, ClosedIsReturned, Knows, Processes
  <2>4. ASSUME NEW q \in Processes PROVE Knows(at[q])'
    BY <1>0, <1>4 DEF AcceptClaim, Goto, bounds, TypeOK, OneHolder, Knows, Processes, Accepts, Sweeps
  <2> QED
    BY <2>1, <2>2, <2>3, <2>4 DEF IInv
<1>5. ASSUME NEW r \in Requests, AcceptSwap(r) PROVE IInv'
  <2>1. TypeOK'
    BY <1>0, <1>5 DEF AcceptSwap, Goto, bounds, Call, TypeOK, Stage, Processes
  <2>2. OneHolder'
    BY <1>0, <1>5 DEF AcceptSwap, Goto, bounds, Call, TypeOK, OneHolder, Knows, Processes, Accepts, Sweeps
  <2>3. ClosedIsReturned'
    BY <1>0, <1>5 DEF AcceptSwap, Goto, bounds, Call, ClosedIsReturned, Knows, Processes
  <2>4. ASSUME NEW q \in Processes PROVE Knows(at[q])'
    BY <1>0, <1>5 DEF AcceptSwap, Goto, bounds, Call, TypeOK, OneHolder, Knows, Processes, Accepts, Sweeps
  <2> QED
    BY <2>1, <2>2, <2>3, <2>4 DEF IInv
<1>6. ASSUME NEW r \in Requests, AcceptUndo(r) PROVE IInv'
  <2>1. TypeOK'
    BY <1>0, <1>6 DEF AcceptUndo, Goto, bounds, TypeOK, Stage, Processes
  <2>2. OneHolder'
    BY <1>0, <1>6 DEF AcceptUndo, Goto, bounds, TypeOK, OneHolder, Knows, Processes, Accepts, Sweeps
  <2>3. ClosedIsReturned'
    BY <1>0, <1>6 DEF AcceptUndo, Goto, bounds, ClosedIsReturned, Knows, Processes
  <2>4. ASSUME NEW q \in Processes PROVE Knows(at[q])'
    BY <1>0, <1>6 DEF AcceptUndo, Goto, bounds, TypeOK, OneHolder, Knows, Processes, Accepts, Sweeps
  <2> QED
    BY <2>1, <2>2, <2>3, <2>4 DEF IInv
<1>7. ASSUME NEW r \in Requests, AcceptDone(r) PROVE IInv'
  <2>1. TypeOK'
    BY <1>0, <1>7 DEF AcceptDone, Goto, bounds, TypeOK, Stage, Processes
  <2>2. OneHolder'
    BY <1>0, <1>7 DEF AcceptDone, Goto, bounds, TypeOK, OneHolder, Knows, Processes, Accepts, Sweeps
  <2>3. ClosedIsReturned'
    BY <1>0, <1>7 DEF AcceptDone, Goto, bounds, ClosedIsReturned, Knows, Processes
  <2>4. ASSUME NEW q \in Processes PROVE Knows(at[q])'
    BY <1>0, <1>7 DEF AcceptDone, Goto, bounds, TypeOK, OneHolder, Knows, Processes, Accepts, Sweeps
  <2> QED
    BY <2>1, <2>2, <2>3, <2>4 DEF IInv
<1>8. ASSUME NEW r \in Requests, CancelRead(r) PROVE IInv'
  <2>1. TypeOK'
    BY <1>0, <1>8 DEF CancelRead, Goto, bounds, TypeOK, Stage, Processes
  <2>2. OneHolder'
    BY <1>0, <1>8 DEF CancelRead, Goto, bounds, TypeOK, OneHolder, Knows, Processes, Accepts, Sweeps
  <2>3. ClosedIsReturned'
    BY <1>0, <1>8 DEF CancelRead, Goto, bounds, ClosedIsReturned, Knows, Processes
  <2>4. ASSUME NEW q \in Processes PROVE Knows(at[q])'
    BY <1>0, <1>8 DEF CancelRead, Goto, bounds, TypeOK, OneHolder, Knows, Processes, Accepts, Sweeps
  <2> QED
    BY <2>1, <2>2, <2>3, <2>4 DEF IInv
<1>9. ASSUME NEW r \in Requests, CancelSwap(r) PROVE IInv'
  <2>1. TypeOK'
    BY <1>0, <1>9 DEF CancelSwap, Goto, bounds, Call, TypeOK, Stage, Processes
  <2>2. OneHolder'
    BY <1>0, <1>9 DEF CancelSwap, Goto, bounds, Call, TypeOK, OneHolder, Knows, Processes, Accepts, Sweeps
  <2>3. ClosedIsReturned'
    BY <1>0, <1>9 DEF CancelSwap, Goto, bounds, Call, ClosedIsReturned, Knows, Processes
  <2>4. ASSUME NEW q \in Processes PROVE Knows(at[q])'
    BY <1>0, <1>9 DEF CancelSwap, Goto, bounds, Call, TypeOK, OneHolder, Knows, Processes, Accepts, Sweeps
  <2> QED
    BY <2>1, <2>2, <2>3, <2>4 DEF IInv
<1>10. ASSUME NEW r \in Requests, CancelDone(r) PROVE IInv'
  <2>1. TypeOK'
    BY <1>0, <1>10 DEF CancelDone, Goto, bounds, TypeOK, Stage, Processes
  <2>2. OneHolder'
    BY <1>0, <1>10 DEF CancelDone, Goto, bounds, TypeOK, OneHolder, Knows, Processes, Accepts, Sweeps
  <2>3. ClosedIsReturned'
    BY <1>0, <1>10 DEF CancelDone, Goto, bounds, ClosedIsReturned, Knows, Processes
  <2>4. ASSUME NEW q \in Processes PROVE Knows(at[q])'
    BY <1>0, <1>10 DEF CancelDone, Goto, bounds, TypeOK, OneHolder, Knows, Processes, Accepts, Sweeps
  <2> QED
    BY <2>1, <2>2, <2>3, <2>4 DEF IInv
<1>11. ASSUME NEW s \in Sweepers, ListExpired(s) PROVE IInv'
  <2>1. TypeOK'
    BY <1>0, <1>11 DEF ListExpired, Goto, bounds, TypeOK, Stage, Processes
  <2>2. OneHolder'
    BY <1>0, <1>11 DEF ListExpired, Goto, bounds, TypeOK, OneHolder, Knows, Processes, Accepts, Sweeps
  <2>3. ClosedIsReturned'
    BY <1>0, <1>11 DEF ListExpired, Goto, bounds, ClosedIsReturned, Knows, Processes
  <2>4. ASSUME NEW q \in Processes PROVE Knows(at[q])'
    BY <1>0, <1>11 DEF ListExpired, Goto, bounds, TypeOK, OneHolder, Knows, Processes, Accepts, Sweeps
  <2> QED
    BY <2>1, <2>2, <2>3, <2>4 DEF IInv
<1>12. ASSUME NEW s \in Sweepers, ClaimOfferForSweep(s) PROVE IInv'
  <2>1. TypeOK'
    BY <1>0, <1>12 DEF ClaimOfferForSweep, Goto, bounds, TypeOK, Stage, Processes
  <2>2. OneHolder'
    BY <1>0, <1>12 DEF ClaimOfferForSweep, Goto, bounds, TypeOK, OneHolder, Knows, Processes, Accepts, Sweeps
  <2>3. ClosedIsReturned'
    BY <1>0, <1>12 DEF ClaimOfferForSweep, Goto, bounds, ClosedIsReturned, Knows, Processes
  <2>4. ASSUME NEW q \in Processes PROVE Knows(at[q])'
    BY <1>0, <1>12 DEF ClaimOfferForSweep, Goto, bounds, TypeOK, OneHolder, Knows, Processes, Accepts, Sweeps
  <2> QED
    BY <2>1, <2>2, <2>3, <2>4 DEF IInv
<1>13. ASSUME NEW s \in Sweepers, ReleaseExpiredOffer(s) PROVE IInv'
  <2>1. TypeOK'
    BY <1>0, <1>13 DEF ReleaseExpiredOffer, Goto, bounds, Call, TypeOK, Stage, Processes
  <2>2. OneHolder'
    BY <1>0, <1>13 DEF ReleaseExpiredOffer, Goto, bounds, Call, TypeOK, OneHolder, Knows, Processes, Accepts, Sweeps
  <2>3. ClosedIsReturned'
    BY <1>0, <1>13 DEF ReleaseExpiredOffer, Goto, bounds, Call, ClosedIsReturned, Knows, Processes
  <2>4. ASSUME NEW q \in Processes PROVE Knows(at[q])'
    BY <1>0, <1>13 DEF ReleaseExpiredOffer, Goto, bounds, Call, TypeOK, OneHolder, Knows, Processes, Accepts, Sweeps
  <2> QED
    BY <2>1, <2>2, <2>3, <2>4 DEF IInv
<1>14. ASSUME NEW s \in Sweepers, FinalizeSweep(s) PROVE IInv'
  <2>1. TypeOK'
    BY <1>0, <1>14 DEF FinalizeSweep, Goto, bounds, TypeOK, Stage, Processes
  <2>2. OneHolder'
    BY <1>0, <1>14 DEF FinalizeSweep, Goto, bounds, TypeOK, OneHolder, Knows, Processes, Accepts, Sweeps
  <2>3. ClosedIsReturned'
    BY <1>0, <1>14 DEF FinalizeSweep, Goto, bounds, ClosedIsReturned, Knows, Processes
  <2>4. ASSUME NEW q \in Processes PROVE Knows(at[q])'
    BY <1>0, <1>14 DEF FinalizeSweep, Goto, bounds, TypeOK, OneHolder, Knows, Processes, Accepts, Sweeps
  <2> QED
    BY <2>1, <2>2, <2>3, <2>4 DEF IInv
<1>15. ASSUME NEW s \in Sweepers, ReleaseSweepClaim(s) PROVE IInv'
  <2>1. TypeOK'
    BY <1>0, <1>15 DEF ReleaseSweepClaim, Goto, bounds, TypeOK, Stage, Processes
  <2>2. OneHolder'
    BY <1>0, <1>15 DEF ReleaseSweepClaim, Goto, bounds, TypeOK, OneHolder, Knows, Processes, Accepts, Sweeps
  <2>3. ClosedIsReturned'
    BY <1>0, <1>15 DEF ReleaseSweepClaim, Goto, bounds, ClosedIsReturned, Knows, Processes
  <2>4. ASSUME NEW q \in Processes PROVE Knows(at[q])'
    BY <1>0, <1>15 DEF ReleaseSweepClaim, Goto, bounds, TypeOK, OneHolder, Knows, Processes, Accepts, Sweeps
  <2> QED
    BY <2>1, <2>2, <2>3, <2>4 DEF IInv
<1>16. ASSUME NEW p \in Processes, Crash(p) PROVE IInv'
  <2>1. TypeOK'
    BY <1>0, <1>16 DEF Crash, Goto, bounds, TypeOK, Stage, Processes
  <2>2. OneHolder'
    BY <1>0, <1>16 DEF Crash, Goto, bounds, TypeOK, OneHolder, Knows, Processes, Accepts, Sweeps
  <2>3. ClosedIsReturned'
    BY <1>0, <1>16 DEF Crash, Goto, bounds, ClosedIsReturned, Knows, Processes
  <2>4. ASSUME NEW q \in Processes PROVE Knows(at[q])'
    BY <1>0, <1>16 DEF Crash, Goto, bounds, TypeOK, OneHolder, Knows, Processes, Accepts, Sweeps
  <2> QED
    BY <2>1, <2>2, <2>3, <2>4 DEF IInv
<1>17. CASE Expire
  BY <1>0, <1>17, SMTT(30) DEF Expire, bounds, IInv, TypeOK, OneHolder, ClosedIsReturned, Knows
<1>18. CASE UNCHANGED vars
  BY <1>0, <1>18 DEF vars, IInv, TypeOK, OneHolder, ClosedIsReturned, Knows
<1> QED
  BY <1>1, <1>2, <1>3, <1>4, <1>5, <1>6, <1>7, <1>8, <1>9,
     <1>10, <1>11, <1>12, <1>13, <1>14, <1>15, <1>16, <1>17, <1>18
     DEF Next, Ongoing, Accepting, Cancelling, Sweep, Processes
-----------------------------------------------------------------------------
(* The row, the contract and every process keep their types. *)
THEOREM TypeCorrect == Spec => []TypeOK
BY InitIInv, NextIInv, PTL DEF Spec, IInv

(* CancelSwapOffer and FinalizeSweep close the row only after the escrow   *)
(* went back, whichever requests and sweepers race them.                   *)
THEOREM ClosedMeansReturned == Spec => []ClosedIsReturned
BY InitIInv, NextIInv, PTL DEF Spec, IInv

(* ClaimOfferForSweep keeps any number of sweepers apart without the lock. *)
THEOREM SweepersExclude == Spec => []OneSweeperReleases
<1>1. IInv => OneSweeperReleases
  BY DEF IInv, OneHolder, Processes, Sweeps, OneSweeperReleases
<1> QED
  BY <1>1, InitIInv, NextIInv, PTL DEF Spec

-----------------------------------------------------------------------------
(***************************************************************************)
(* Referrals, incentives and streaks.                                      *)
(***************************************************************************)
LEMMA IncentivesStarts ==
  ASSUME IncentivesInit
  PROVE  IncentivesInv
  <1>1. NoStreak \in Streaks
    BY IncentivesAssumption DEF NoStreak, Streaks
  <1>2. NoClaim \in ClaimFrames
    BY <1>1, Zenon DEF NoClaim, ClaimFrames
  <1>3. IncentivesTypeOK
    BY <1>1, <1>2, Zenon DEF IncentivesInit, IncentivesTypeOK
  <1>4. OnePayer
    BY Zenon DEF IncentivesInit, OnePayer, Paying, Paid, At, NoIncentive, NoClaim
  <1>5. FramesKnow
    BY Zenon DEF IncentivesInit, FramesKnow, NoClaim
  <1>6. QED
    BY <1>3, <1>4, <1>5, Zenon DEF IncentivesInit, IncentivesInv, StreakRowCoherent

\* What a frame that does not pay out a referral must know.
ClaimKnows(f) ==
  /\ f.pc # "idle" => f.user \in Referrers
  /\ f.op = "apply" => f.ref \in Codes
  /\ f.op = "apply" /\ f.pc \in {"check", "complete", "bonus"} => f.row # NoReferral
  /\ f.pc = "claim" => f.id \in Ids /\ incentives[f.id] # NoIncentive
  /\ f.pc = "update" => f.streak.current >= 1 /\ f.streak.longest >= f.streak.current

\* A step that changes the frame of one request and no table.
LEMMA IncentiveFrameKeeps ==
  ASSUME IncentivesInv, NEW r \in Claimants, NEW f \in ClaimFrames, ClaimKnows(f),
         claim' = [claim EXCEPT ![r] = f], Stays,
         ~(f.op = "apply" /\ f.pc = "bonus")
  PROVE  IncentivesInv'
  <1>1. IncentivesTypeOK'
    BY Zenon DEF IncentivesInv, IncentivesTypeOK, Stays
  <1>2. \A s \in Claimants : claim'[s] = IF s = r THEN f ELSE claim[s]
    BY Zenon DEF IncentivesInv, IncentivesTypeOK
  <1>3. \A s \in Claimants : \A c : Paying(s, c)' => Paying(s, c)
    BY <1>2, Zenon DEF Paying, At
  <1>4. \A i, c : Paid(i, c)' <=> Paid(i, c)
    BY Zenon DEF Paid, Stays
  <1>5. OnePayer'
    BY <1>3, <1>4, Zenon DEF IncentivesInv, OnePayer, Stays
  <1>6. FramesKnow'
    BY <1>2 DEF IncentivesInv, FramesKnow, ClaimKnows, Stays
  <1>7. QED
    BY <1>1, <1>5, <1>6, Zenon DEF IncentivesInv, StreakRowCoherent, Stays

\* The request ends, and at most its write remains: a streak row or none.
LEMMA ClaimEndsKeeps ==
  ASSUME IncentivesInv, NEW r \in Claimants, ClaimEnds(r),
         UNCHANGED <<referrals, incentives>>, streak' \in Streaks, StreakRowCoherent',
         (streak # NoStreak => streak.current >= 1)'
  PROVE  IncentivesInv'
  <1>1. /\ NoClaim \in ClaimFrames /\ NoClaim.pc = "idle" /\ NoClaim.op = "none"
        /\ claim \in [Claimants -> ClaimFrames]
    BY IncentivesAssumption DEF NoClaim, ClaimFrames, NoStreak, Streaks, IncentivesInv, IncentivesTypeOK
  <1>2. claim' = [claim EXCEPT ![r] = NoClaim]
    BY Zenon DEF ClaimEnds
  <1>3. IncentivesTypeOK'
    BY <1>1, <1>2, Zenon DEF IncentivesInv, IncentivesTypeOK
  <1>4. \A s \in Claimants : claim'[s] = IF s = r THEN NoClaim ELSE claim[s]
    BY <1>1, <1>2, Zenon
  <1>5. \A s \in Claimants : \A c : Paying(s, c)' => Paying(s, c)
    BY <1>1, <1>4, Zenon DEF Paying, At
  <1>6. OnePayer'
    BY <1>5 DEF IncentivesInv, OnePayer, Paid
  <1>7. FramesKnow'
    BY <1>1, <1>4, Zenon DEF IncentivesInv, FramesKnow
  <1>8. QED
    BY <1>3, <1>6, <1>7, Zenon DEF IncentivesInv

\* A new row of incentives, by a request that ends with it.
LEMMA GrantKeeps ==
  ASSUME IncentivesInv, NEW r \in Claimants, ClaimEnds(r),
         NEW type \in {"referral", "circle_completion", "first_deposit", "contribution_match"},
         NEW user \in Referrers, NEW ref \in Codes \cup {"none", "circle"},
         CreateIncentive(type, user, ref), UNCHANGED <<referrals, streak>>,
         type = "referral" => Paying(r, ref)
  PROVE  IncentivesInv'
  <1> DEFINE row == [type |-> type, user |-> user, ref |-> ref, status |-> "pending"]
  <1>1. /\ NoClaim \in ClaimFrames /\ NoClaim.pc = "idle" /\ NoClaim.op = "none"
        /\ claim \in [Claimants -> ClaimFrames] /\ incentives \in [Ids -> IncentiveRows \cup {NoIncentive}]
    BY IncentivesAssumption DEF NoClaim, ClaimFrames, NoStreak, Streaks, IncentivesInv, IncentivesTypeOK
  <1>2. PICK i \in Ids : incentives[i] = NoIncentive
                         /\ incentives' = [incentives EXCEPT ![i] = row]
    BY Zenon DEF CreateIncentive
  <1>3. row \in IncentiveRows /\ row # NoIncentive /\ row.type = type /\ row.ref = ref
    BY Zenon DEF IncentiveRows, NoIncentive
  <1> HIDE DEF row
  <1>4. claim' = [claim EXCEPT ![r] = NoClaim]
    BY Zenon DEF ClaimEnds
  <1>5. IncentivesTypeOK'
    BY <1>1, <1>2, <1>3, <1>4, Zenon DEF IncentivesInv, IncentivesTypeOK
  <1>6. /\ \A s \in Claimants : claim'[s] = IF s = r THEN NoClaim ELSE claim[s]
        /\ \A j \in Ids : incentives'[j] = IF j = i THEN row ELSE incentives[j]
    BY <1>1, <1>2, <1>4, Zenon
  <1>7. \A s \in Claimants : \A c : Paying(s, c)' <=> s # r /\ Paying(s, c)
    BY <1>1, <1>6, Zenon DEF Paying, At
  <1>8. \A j \in Ids : \A c : Paid(j, c)' <=> IF j = i THEN type = "referral" /\ c = ref ELSE Paid(j, c)
    BY <1>3, <1>6, Zenon DEF Paid
  <1>9. OnePayer'
    <2>1. SUFFICES ASSUME NEW c \in Codes
                   PROVE  /\ \A j, k \in Ids : Paid(j, c)' /\ Paid(k, c)' => j = k
                          /\ \A s, t \in Claimants : Paying(s, c)' /\ Paying(t, c)' => s = t
                          /\ \A s \in Claimants, j \in Ids : ~(Paying(s, c)' /\ Paid(j, c)')
                          /\ (\E s \in Claimants : Paying(s, c)') \/ (\E j \in Ids : Paid(j, c)')
                               => referrals'[c].status = "completed"
      BY Zenon DEF OnePayer
    <2>2. CASE type = "referral" /\ c = ref
      <3>1. Paying(r, c)
        BY <2>2, Zenon
      <3>2. \A j \in Ids : ~Paid(j, c)
        BY <3>1, Zenon DEF IncentivesInv, OnePayer
      <3>3. \A s \in Claimants : Paying(s, c) => s = r
        BY <3>1, Zenon DEF IncentivesInv, OnePayer
      <3>4. referrals[c].status = "completed"
        BY <3>1, Zenon DEF IncentivesInv, OnePayer
      <3>5. QED
        BY <1>7, <1>8, <3>2, <3>3, <3>4, Zenon
    <2>3. CASE ~(type = "referral" /\ c = ref)
      <3>1. \A j \in Ids : Paid(j, c)' => Paid(j, c)
        BY <1>8, <2>3, Zenon
      <3>2. QED
        BY <1>7, <3>1, Zenon DEF IncentivesInv, OnePayer
    <2>4. QED
      BY <2>2, <2>3, Zenon
  <1>10. FramesKnow'
    BY <1>1, <1>3, <1>6, ZenonT(40) DEF IncentivesInv, FramesKnow
  <1>11. QED
    BY <1>5, <1>9, <1>10, Zenon DEF IncentivesInv, StreakRowCoherent

LEMMA IncentivesKeeps ==
  ASSUME IncentivesInv, NEW r \in Claimants,
        \/ ReferralRequest(r) \/ GrantRequest(r) \/ ClaimRequest(r)
        \/ GenerateReferralCode(r) \/ CreateReferral(r)
        \/ FindByReferredID(r) \/ FindByReferralCode(r) \/ ApplyReferralCode(r)
        \/ UpdateReferralStatus(r) \/ ReferralBonus(r)
        \/ GrantCircleCompletionReward(r) \/ GrantFirstDepositBonus(r)
        \/ GrantContributionMatch(r) \/ GrantStreakBonus(r) \/ Grant(r)
        \/ ClaimIncentive(r) \/ UpdateIncentiveStatus(r)
        \/ FindStreakByUserID(r) \/ CreateSavingsStreak(r) \/ RecordContribution(r)
  PROVE  IncentivesInv'
  <1> DEFINE f == claim[r]
  <1>0. f \in ClaimFrames /\ claim \in [Claimants -> ClaimFrames] /\ streak \in Streaks
        /\ referrals \in [Codes -> Referrals \cup {NoReferral}]
        /\ incentives \in [Ids -> IncentiveRows \cup {NoIncentive}]
    BY Zenon DEF IncentivesInv, IncentivesTypeOK
  <1>a. ClaimKnows(f)
    BY Zenon DEF IncentivesInv, FramesKnow, ClaimKnows
  <1>b. StreakRowCoherent /\ (streak # NoStreak => streak.current >= 1)
    BY Zenon DEF IncentivesInv
  <1>c. Owner \in Referrers
    BY IncentivesAssumption, Zenon DEF Owner
  <1>1. ASSUME NEW op \in {"generate", "apply", "completion", "match", "record", "streakbonus",
                           "first", "claim"},
               NEW u \in Referrers, NEW ref \in Codes \cup {"none", "circle"},
               op = "apply" => ref \in Codes, Submit(r, op, u, ref)
        PROVE  IncentivesInv'
    <2> DEFINE g == [NoClaim EXCEPT !.pc = "start", !.op = op, !.user = u, !.ref = ref]
    <2>1. claim' = [claim EXCEPT ![r] = g] /\ Stays
      BY <1>1, Zenon DEF Submit
    <2>2. NoStreak \in Streaks
      BY IncentivesAssumption DEF NoStreak, Streaks
    <2>3. g \in ClaimFrames /\ g.pc = "start" /\ g.op = op /\ g.user = u /\ g.ref = ref
      BY <2>2, Zenon DEF NoClaim, ClaimFrames
    <2> HIDE DEF g
    <2>4. ClaimKnows(g)
      BY <1>1, <2>3, Zenon DEF ClaimKnows
    <2>5. QED
      BY <2>1, <2>3, <2>4, IncentiveFrameKeeps, Zenon
  <1>2. CASE ReferralRequest(r) \/ GrantRequest(r) \/ ClaimRequest(r)
    <2>1. CASE ReferralRequest(r)
      BY <1>1, <1>c, <2>1, Zenon DEF ReferralRequest
    <2>2. CASE GrantRequest(r)
      BY <1>1, <1>c, <2>2, Zenon DEF GrantRequest
    <2>3. CASE ClaimRequest(r)
      BY <1>1, <1>c, <2>3, Zenon DEF ClaimRequest
    <2>4. QED
      BY <1>2, <2>1, <2>2, <2>3, Zenon
  <1>3. ASSUME ClaimEnds(r), Stays
        PROVE  IncentivesInv'
    BY <1>0, <1>3, <1>b, ClaimEndsKeeps, Zenon DEF Stays, StreakRowCoherent
  <1>4. ASSUME NEW l \in {"insert", "code", "complete", "grant", "create"}, ClaimGoto(r, l), Stays,
               f.pc # "idle", l = "complete" => f.op = "apply" /\ f.pc = "check"
        PROVE  IncentivesInv'
    <2> DEFINE g == [f EXCEPT !.pc = l]
    <2>1. claim' = [claim EXCEPT ![r] = g]
      BY <1>0, <1>4, Zenon DEF ClaimGoto
    <2>2. /\ g \in ClaimFrames /\ g.pc = l /\ g.op = f.op /\ g.user = f.user /\ g.ref = f.ref
          /\ g.row = f.row
      BY <1>0 DEF ClaimFrames
    <2> HIDE DEF f, g
    <2>3. ClaimKnows(g)
      BY <1>4, <1>a, <2>2, Zenon DEF ClaimKnows
    <2>4. QED
      BY <1>4, <2>1, <2>2, <2>3, IncentiveFrameKeeps, Zenon
  <1>5. CASE GenerateReferralCode(r)
    BY <1>3, <1>4, <1>5, Zenon DEF GenerateReferralCode, At
  <1>6. CASE CreateReferral(r)
    <2>1. /\ ClaimEnds(r) /\ UNCHANGED <<incentives, streak>>
          /\ \/ UNCHANGED referrals
             \/ \E c \in Codes :
                  /\ referrals[c] = NoReferral
                  /\ referrals' = [referrals EXCEPT ![c] = [referrer |-> f.user,
                                                            status |-> "pending"]]
          /\ f.pc = "insert"
      BY <1>6, Zenon DEF CreateReferral, At
    <2>2. CASE UNCHANGED referrals
      BY <1>3, <2>1, <2>2, Zenon DEF Stays
    <2>3. ASSUME NEW c \in Codes, referrals[c] = NoReferral,
                 referrals' = [referrals EXCEPT ![c] = [referrer |-> f.user, status |-> "pending"]]
          PROVE  IncentivesInv'
      <3>1. f.user \in Referrers /\ f.pc # "bonus"
        BY <1>a, <2>1, Zenon DEF ClaimKnows
      <3>2. referrals' \in [Codes -> Referrals \cup {NoReferral}]
        BY <1>0, <2>3, <3>1, Zenon DEF Referrals
      <3>3. NoClaim \in ClaimFrames /\ NoClaim.pc = "idle" /\ NoClaim.op = "none"
        BY IncentivesAssumption DEF NoClaim, ClaimFrames, NoStreak, Streaks
      <3>4. \A s \in Claimants : claim'[s] = IF s = r THEN NoClaim ELSE claim[s]
        BY <1>0, <2>1, Zenon DEF ClaimEnds
      <3>5. IncentivesTypeOK'
        BY <1>0, <2>1, <3>2, <3>3, Zenon DEF IncentivesTypeOK, ClaimEnds
      <3>6. \A s \in Claimants : \A d : Paying(s, d)' => Paying(s, d)
        BY <3>3, <3>4, Zenon DEF Paying, At
      <3>7. /\ \A s \in Claimants : ~Paying(s, c)
            /\ \A i \in Ids : ~Paid(i, c)
        <4>1. referrals[c].status # "completed"
          BY <2>3, SMTT(40) DEF NoReferral
        <4>2. QED
          BY <4>1, ZenonT(40) DEF IncentivesInv, OnePayer
      <3>8. \A d \in Codes : d # c => referrals'[d] = referrals[d]
        BY <1>0, <2>3, Zenon
      <3>9. \A i, d : Paid(i, d)' <=> Paid(i, d)
        BY <2>1, Zenon DEF Paid
      <3>10. OnePayer'
        <4>1. \A d \in Codes : (\E s \in Claimants : Paying(s, d)) \/ (\E i \in Ids : Paid(i, d))
                               => referrals'[d].status = "completed"
          BY <3>7, <3>8, Zenon DEF IncentivesInv, OnePayer
        <4>2. QED
          BY <3>6, <3>9, <4>1, Zenon DEF IncentivesInv, OnePayer
      <3>11. FramesKnow'
        BY <2>1, <3>3, <3>4, Zenon DEF IncentivesInv, FramesKnow
      <3>12. QED
        BY <2>1, <3>5, <3>10, <3>11, Zenon DEF IncentivesInv, StreakRowCoherent
    <2>4. QED
      BY <2>1, <2>2, <2>3, Zenon
  <1>7. CASE FindByReferredID(r)
    BY <1>4, <1>7, Zenon DEF FindByReferredID, At
  <1>8. CASE FindByReferralCode(r)
    <2>1. Stays /\ f.op = "apply" /\ f.pc = "code"
      BY <1>8, Zenon DEF FindByReferralCode, At
    <2>2. ASSUME referrals[f.ref] # NoReferral,
                 claim' = [claim EXCEPT ![r].pc = "check", ![r].row = referrals[f.ref]]
          PROVE  IncentivesInv'
      <3> DEFINE g == [f EXCEPT !.pc = "check", !.row = referrals[f.ref]]
      <3>1. claim' = [claim EXCEPT ![r] = g]
        BY <1>0, <2>2, Zenon
      <3>2. f.ref \in Codes /\ f.user \in Referrers
        BY <1>a, <2>1, Zenon DEF ClaimKnows
      <3>3. referrals[f.ref] \in Referrals
        BY <1>0, <2>2, <3>2, Zenon
      <3>4. g \in ClaimFrames /\ g.pc = "check" /\ g.op = "apply" /\ g.user = f.user
            /\ g.ref = f.ref /\ g.row = referrals[f.ref]
        BY <1>0, <2>1, <3>3, Zenon DEF ClaimFrames
      <3> HIDE DEF g
      <3>5. ClaimKnows(g)
        BY <2>2, <3>2, <3>4, Zenon DEF ClaimKnows
      <3>6. QED
        BY <2>1, <3>1, <3>4, <3>5, IncentiveFrameKeeps, Zenon
    <2>3. QED
      BY <1>3, <1>8, <2>1, <2>2, Zenon DEF FindByReferralCode
  <1>9. CASE ApplyReferralCode(r)
    BY <1>3, <1>4, <1>9, Zenon DEF ApplyReferralCode, At
  <1>10. CASE UpdateReferralStatus(r)
    <2>1. /\ f.op = "apply" /\ f.pc = "complete" /\ UNCHANGED <<incentives, streak>>
          /\ \/ /\ referrals[f.ref].status = "pending"
                /\ referrals' = [referrals EXCEPT ![f.ref].status = "completed"]
                /\ ClaimGoto(r, "bonus")
             \/ ClaimEnds(r) /\ UNCHANGED referrals
      BY <1>10, Zenon DEF UpdateReferralStatus, At
    <2>2. CASE ClaimEnds(r) /\ UNCHANGED referrals
      BY <1>3, <2>1, <2>2, Zenon DEF Stays
    <2>3. CASE /\ referrals[f.ref].status = "pending"
               /\ referrals' = [referrals EXCEPT ![f.ref].status = "completed"]
               /\ ClaimGoto(r, "bonus")
      <3> DEFINE g == [f EXCEPT !.pc = "bonus"]
                 c == f.ref
      <3>1. claim' = [claim EXCEPT ![r] = g]
        BY <1>0, <2>3, Zenon DEF ClaimGoto
      <3>2. g \in ClaimFrames /\ g.pc = "bonus" /\ g.op = "apply" /\ g.user = f.user
            /\ g.ref = c /\ g.row = f.row
        BY <1>0, <2>1, Zenon DEF ClaimFrames
      <3>3. c \in Codes /\ f.user \in Referrers /\ f.row # NoReferral
        BY <1>a, <2>1, Zenon DEF ClaimKnows
      <3>4. referrals' \in [Codes -> Referrals \cup {NoReferral}]
            /\ referrals'[c].status = "completed"
            /\ \A d \in Codes : d # c => referrals'[d] = referrals[d]
        <4>1. referrals[c] \in Referrals
          BY <1>0, <2>3, <3>3 DEF NoReferral
        <4>2. [referrals[c] EXCEPT !.status = "completed"] \in Referrals
          BY <4>1, Zenon DEF Referrals
        <4>3. QED
          BY <1>0, <2>3, <3>3, <4>1, <4>2, Zenon DEF Referrals
      <3> HIDE DEF g
      <3>5. \A s \in Claimants : claim'[s] = IF s = r THEN g ELSE claim[s]
        BY <1>0, <3>1, Zenon
      <3>6. IncentivesTypeOK'
        BY <1>0, <2>1, <3>1, <3>2, <3>4, Zenon DEF IncentivesTypeOK
      <3>7. /\ \A s \in Claimants : ~Paying(s, c)
            /\ \A i \in Ids : ~Paid(i, c)
        BY <2>3, <3>3, Zenon DEF IncentivesInv, OnePayer
      <3>8. \A s \in Claimants : \A d : Paying(s, d)' <=> IF s = r THEN d = c ELSE Paying(s, d)
        BY <3>2, <3>5, Zenon DEF Paying, At
      <3>9. ~\E d : Paying(r, d)
        BY <2>1, Zenon DEF Paying, At
      <3>10. \A i, d : Paid(i, d)' <=> Paid(i, d)
        BY <2>1, Zenon DEF Paid
      <3>11. OnePayer'
        <4>1. SUFFICES ASSUME NEW d \in Codes
                       PROVE  /\ \A j, k \in Ids : Paid(j, d)' /\ Paid(k, d)' => j = k
                              /\ \A s, t \in Claimants : Paying(s, d)' /\ Paying(t, d)' => s = t
                              /\ \A s \in Claimants, j \in Ids : ~(Paying(s, d)' /\ Paid(j, d)')
                              /\ (\E s \in Claimants : Paying(s, d)') \/ (\E j \in Ids : Paid(j, d)')
                                   => referrals'[d].status = "completed"
          BY Zenon DEF OnePayer
        <4>2. CASE d = c
          BY <3>4, <3>7, <3>8, <3>10, <4>2, Zenon
        <4>3. CASE d # c
          <5>1. \A s \in Claimants : Paying(s, d)' => Paying(s, d)
            BY <3>8, <4>3, Zenon
          <5>2. QED
            BY <3>4, <3>10, <4>3, <5>1, Zenon DEF IncentivesInv, OnePayer
        <4>4. QED
          BY <4>2, <4>3, Zenon
      <3>12. FramesKnow'
        BY <2>1, <3>2, <3>3, <3>5, Zenon DEF IncentivesInv, FramesKnow
      <3>13. QED
        BY <2>1, <3>6, <3>11, <3>12, Zenon DEF IncentivesInv, StreakRowCoherent
    <2>4. QED
      BY <2>1, <2>2, <2>3, Zenon
  <1>11. CASE ReferralBonus(r)
    <2>1. /\ f.op = "apply" /\ f.pc = "bonus" /\ ClaimEnds(r) /\ UNCHANGED <<referrals, streak>>
          /\ CreateIncentive("referral", f.row.referrer, f.ref) \/ UNCHANGED incentives
      BY <1>11, Zenon DEF ReferralBonus, At
    <2>2. f.ref \in Codes /\ f.row.referrer \in Referrers
      BY <1>0, <1>a, <2>1, Zenon DEF ClaimKnows, ClaimFrames, Referrals
    <2>3. Paying(r, f.ref)
      BY <2>1, Zenon DEF Paying, At
    <2>4. CASE UNCHANGED incentives
      BY <1>3, <2>1, <2>4, Zenon DEF Stays
    <2>5. CASE CreateIncentive("referral", f.row.referrer, f.ref)
      BY <2>1, <2>2, <2>3, <2>5, GrantKeeps, Zenon
    <2>6. QED
      BY <2>1, <2>4, <2>5, Zenon
  <1>12. CASE \/ GrantCircleCompletionReward(r) \/ GrantFirstDepositBonus(r)
              \/ GrantContributionMatch(r) \/ GrantStreakBonus(r)
    <2>1. Stays /\ f.pc = "start" /\ (ClaimEnds(r) \/ ClaimGoto(r, "grant"))
      BY <1>12, Zenon DEF GrantCircleCompletionReward, GrantFirstDepositBonus,
         GrantContributionMatch, GrantStreakBonus, ensureNoIncentive, At
    <2>2. QED
      BY <1>3, <1>4, <2>1, Zenon
  <1>13. CASE Grant(r)
    <2>1. /\ f.pc = "grant" /\ ClaimEnds(r) /\ UNCHANGED <<referrals, streak>>
          /\ CreateIncentive(TypeOf(f.op), f.user, f.ref) \/ UNCHANGED incentives
      BY <1>13, Zenon DEF Grant
    <2>2. f.user \in Referrers /\ f.ref \in Codes \cup {"none", "circle"}
      BY <1>0, <1>a, <2>1, Zenon DEF ClaimKnows, ClaimFrames
    <2>3. TypeOf(f.op) \in {"circle_completion", "first_deposit", "contribution_match"}
      BY Zenon DEF TypeOf
    <2>4. CASE UNCHANGED incentives
      BY <1>3, <2>1, <2>4, Zenon DEF Stays
    <2>5. CASE CreateIncentive(TypeOf(f.op), f.user, f.ref)
      BY <2>1, <2>2, <2>3, <2>5, GrantKeeps, Zenon
    <2>6. QED
      BY <2>1, <2>4, <2>5, Zenon
  <1>14. CASE ClaimIncentive(r)
    <2>1. Stays /\ f.pc = "start" /\ f.op = "claim" /\ f.user \in Referrers
      BY <1>14, <1>a, Zenon DEF ClaimIncentive, At, ClaimKnows
    <2>2. ASSUME NEW i \in Ids, incentives[i].user = f.user,
                 claim' = [claim EXCEPT ![r].pc = "claim", ![r].id = i]
          PROVE  IncentivesInv'
      <3> DEFINE g == [f EXCEPT !.pc = "claim", !.id = i]
      <3>1. claim' = [claim EXCEPT ![r] = g]
        BY <1>0, <2>2, Zenon
      <3>2. g \in ClaimFrames /\ g.pc = "claim" /\ g.op = "claim" /\ g.user = f.user /\ g.id = i
        BY <1>0, <2>1, Zenon DEF ClaimFrames
      <3>3. incentives[i] # NoIncentive
        BY IncentivesAssumption, <2>1, <2>2 DEF NoIncentive
      <3> HIDE DEF g
      <3>4. ClaimKnows(g)
        BY <2>1, <3>2, <3>3, Zenon DEF ClaimKnows
      <3>5. QED
        BY <2>1, <3>1, <3>2, <3>4, IncentiveFrameKeeps, Zenon
    <2>3. QED
      BY <1>3, <1>14, <2>1, <2>2, Zenon DEF ClaimIncentive
  <1>15. CASE UpdateIncentiveStatus(r)
    <2>1. /\ f.pc = "claim" /\ ClaimEnds(r) /\ UNCHANGED <<referrals, streak>>
          /\ incentives' = [incentives EXCEPT ![f.id].status = "claimed"] \/ UNCHANGED incentives
      BY <1>15, Zenon DEF UpdateIncentiveStatus, At
    <2>2. CASE UNCHANGED incentives
      BY <1>3, <2>1, <2>2, Zenon DEF Stays
    <2>3. CASE incentives' = [incentives EXCEPT ![f.id].status = "claimed"]
      <3>1. f.id \in Ids /\ incentives[f.id] \in IncentiveRows
        BY <1>0, <1>a, <2>1, Zenon DEF ClaimKnows
      <3>2. [incentives[f.id] EXCEPT !.status = "claimed"] \in IncentiveRows
        BY <3>1, Zenon DEF IncentiveRows
      <3>3. incentives' \in [Ids -> IncentiveRows \cup {NoIncentive}]
        BY <1>0, <2>3, <3>1, <3>2, Zenon
      <3>4. \A i \in Ids : /\ incentives'[i].type = incentives[i].type
                           /\ incentives'[i].ref = incentives[i].ref
                           /\ incentives[i] # NoIncentive => incentives'[i] # NoIncentive
        BY <1>0, <2>3, <3>1, Zenon DEF IncentiveRows, NoIncentive
      <3>5. NoClaim \in ClaimFrames /\ NoClaim.pc = "idle" /\ NoClaim.op = "none"
        BY IncentivesAssumption DEF NoClaim, ClaimFrames, NoStreak, Streaks
      <3>6. \A s \in Claimants : claim'[s] = IF s = r THEN NoClaim ELSE claim[s]
        BY <1>0, <2>1, Zenon DEF ClaimEnds
      <3>7. IncentivesTypeOK'
        BY <1>0, <2>1, <3>3, <3>5, Zenon DEF IncentivesTypeOK, ClaimEnds
      <3>8. \A s \in Claimants : \A c : Paying(s, c)' => Paying(s, c)
        BY <3>5, <3>6, Zenon DEF Paying, At
      <3>9. \A i \in Ids : \A c : Paid(i, c)' <=> Paid(i, c)
        BY <3>4, Zenon DEF Paid
      <3>10. OnePayer'
        BY <2>1, <3>8, <3>9, Zenon DEF IncentivesInv, OnePayer
      <3>11. FramesKnow'
        BY <3>4, <3>5, <3>6, ZenonT(40) DEF IncentivesInv, FramesKnow
      <3>12. QED
        BY <2>1, <3>7, <3>10, <3>11, Zenon DEF IncentivesInv, StreakRowCoherent
    <2>4. QED
      BY <2>1, <2>2, <2>3, Zenon
  <1>16. CASE FindStreakByUserID(r)
    <2>1. Stays /\ f.pc = "start" /\ f.op = "record" /\ f.user \in Referrers
      BY <1>16, <1>a, Zenon DEF FindStreakByUserID, At, ClaimKnows
    <2>2. ASSUME streak # NoStreak,
                 claim' = [claim EXCEPT ![r].pc = "update", ![r].streak = streak]
          PROVE  IncentivesInv'
      <3> DEFINE g == [f EXCEPT !.pc = "update", !.streak = streak]
      <3>1. claim' = [claim EXCEPT ![r] = g]
        BY <1>0, <2>2, Zenon
      <3>2. g \in ClaimFrames /\ g.pc = "update" /\ g.op = "record" /\ g.user = f.user
            /\ g.streak = streak
        BY <1>0, <2>1, Zenon DEF ClaimFrames
      <3>3. streak.current >= 1 /\ streak.longest >= streak.current
        BY <1>b, <2>2, Zenon DEF StreakRowCoherent
      <3> HIDE DEF g
      <3>4. ClaimKnows(g)
        BY <2>1, <3>2, <3>3, Zenon DEF ClaimKnows
      <3>5. QED
        BY <2>1, <3>1, <3>2, <3>4, IncentiveFrameKeeps, Zenon
    <2>3. QED
      BY <1>3, <1>4, <1>16, <2>1, <2>2, Zenon DEF FindStreakByUserID
  <1>17. CASE CreateSavingsStreak(r)
    <2>1. /\ ClaimEnds(r) /\ UNCHANGED <<referrals, incentives>>
          /\ \/ streak' = [current |-> 1, longest |-> 1, recent |-> TRUE, tier |-> 1]
             \/ UNCHANGED streak
      BY <1>17, Zenon DEF CreateSavingsStreak
    <2>2. CASE UNCHANGED streak
      BY <1>3, <2>1, <2>2, Zenon DEF Stays
    <2>3. CASE streak' = [current |-> 1, longest |-> 1, recent |-> TRUE, tier |-> 1]
      <3>1. streak' \in Streaks /\ streak'.current = 1 /\ streak'.longest = 1 /\ streak'.tier = 1
        BY IncentivesAssumption, <2>3 DEF Streaks
      <3>2. tier(1) = 1
        BY IncentivesAssumption DEF tier
      <3>3. QED
        BY <2>1, <3>1, <3>2, ClaimEndsKeeps DEF StreakRowCoherent
    <2>4. QED
      BY <2>1, <2>2, <2>3, Zenon
  <1>18. CASE RecordContribution(r)
    <2> DEFINE s == f.streak
               w == Continued(s)
    <2>1. /\ ClaimEnds(r) /\ UNCHANGED <<referrals, incentives>> /\ f.pc = "update"
          /\ (s.current < MaxStreak /\ streak' = w) \/ UNCHANGED streak
      BY <1>18, Zenon DEF RecordContribution, At
    <2>2. CASE UNCHANGED streak
      BY <1>3, <2>1, <2>2, Zenon DEF Stays
    <2>3. CASE s.current < MaxStreak /\ streak' = w
      <3>1. s \in Streaks /\ s.current >= 1 /\ s.longest >= s.current /\ MaxStreak \in Nat
        BY IncentivesAssumption, <1>0, <1>a, <2>1, Zenon DEF ClaimKnows, ClaimFrames
      <3> HIDE DEF s
      <3>2. \A n \in Nat : tier(n) \in 0 .. 3
        BY IncentivesAssumption DEF tier
      <3>3. w \in Streaks /\ w.current >= 1 /\ w.longest >= w.current /\ w.tier = tier(w.current)
        <4> DEFINE n == IF s.recent THEN s.current + 1 ELSE 1
                   m == IF s.recent /\ n > s.longest THEN n ELSE s.longest
        <4>1. n \in 0 .. MaxStreak /\ n >= 1 /\ m \in 0 .. MaxStreak /\ m >= n
          BY <2>3, <3>1 DEF Streaks
        <4>2. w = [current |-> n, recent |-> TRUE, tier |-> tier(n), longest |-> m]
          BY Zenon DEF Continued
        <4> HIDE DEF n, m, w
        <4>3. QED
          BY <3>2, <4>1, <4>2 DEF Streaks
      <3> HIDE DEF w
      <3>4. QED
        BY <2>1, <2>3, <3>3, ClaimEndsKeeps, Zenon DEF StreakRowCoherent
    <2>4. QED
      BY <2>1, <2>2, <2>3, Zenon
  <1>19. QED
    BY <1>2, <1>5, <1>6, <1>7, <1>8, <1>9, <1>10, <1>11, <1>12, <1>13, <1>14, <1>15, <1>16,
       <1>17, <1>18, Zenon

LEMMA WindowKeeps ==
  ASSUME IncentivesInv, WindowPasses
  PROVE  IncentivesInv'
  <1>1. /\ streak.recent /\ streak' = [streak EXCEPT !.recent = FALSE] /\ streak \in Streaks
        /\ UNCHANGED <<referrals, incentives, claim>>
    BY Zenon DEF WindowPasses, IncentivesInv, IncentivesTypeOK
  <1>2. /\ streak' \in Streaks /\ streak'.current = streak.current
        /\ streak'.longest = streak.longest /\ streak'.tier = streak.tier
    BY <1>1, Zenon DEF Streaks
  <1>a. streak # NoStreak
    BY <1>1 DEF NoStreak
  <1>3. IncentivesTypeOK'
    BY <1>1, <1>2, Zenon DEF IncentivesInv, IncentivesTypeOK
  <1>b. /\ \A s \in Claimants : \A c : Paying(s, c)' <=> Paying(s, c)
        /\ \A i \in Ids : \A c : Paid(i, c)' <=> Paid(i, c)
    BY <1>1, Zenon DEF Paying, Paid, At
  <1>c. OnePayer'
    BY <1>1, <1>b, Zenon DEF IncentivesInv, OnePayer
  <1>4. OnePayer' /\ FramesKnow'
    BY <1>1, <1>c, Zenon DEF IncentivesInv, FramesKnow
  <1>5. QED
    BY <1>2, <1>3, <1>4, <1>a, Zenon DEF IncentivesInv, StreakRowCoherent

LEMMA ReferralsPaidOnce ==
  ASSUME IncentivesInv
  PROVE  ReferralPaidOnce
  <1> DEFINE paid(c) == {i \in Ids : incentives[i].type = "referral" /\ incentives[i].ref = c}
  <1>1. SUFFICES ASSUME NEW c \in Codes
                 PROVE  /\ \A i, j \in paid(c) : i = j
                        /\ paid(c) # {} => referrals[c].status = "completed"
    BY Zenon DEF ReferralPaidOnce
  <1>2. \A i, j \in paid(c) : i = j
    BY Zenon DEF IncentivesInv, OnePayer, Paid
  <1>3. paid(c) # {} => referrals[c].status = "completed"
    BY Zenon DEF IncentivesInv, OnePayer, Paid
  <1>4. QED
    BY <1>2, <1>3, Zenon

LEMMA IncentivesStutters ==
  ASSUME IncentivesInv, UNCHANGED incentiveVars
  PROVE  IncentivesInv'
  <1>1. UNCHANGED <<referrals, incentives, streak, claim>>
    BY Zenon DEF incentiveVars
  <1>2. IncentivesTypeOK'
    BY <1>1, Zenon DEF IncentivesInv, IncentivesTypeOK
  <1>3. OnePayer'
    <2>1. /\ \A s \in Claimants : \A c : Paying(s, c)' <=> Paying(s, c)
          /\ \A i \in Ids : \A c : Paid(i, c)' <=> Paid(i, c)
      BY <1>1, Zenon DEF Paying, Paid, At
    <2>2. QED
      BY <1>1, <2>1, Zenon DEF IncentivesInv, OnePayer
  <1>4. FramesKnow'
    BY <1>1, Zenon DEF IncentivesInv, FramesKnow
  <1>5. StreakRowCoherent' /\ (streak' # NoStreak => streak'.current >= 1)
    BY <1>1, Zenon DEF IncentivesInv, StreakRowCoherent
  <1>6. QED
    BY <1>2, <1>3, <1>4, <1>5, Zenon DEF IncentivesInv

LEMMA IncentivesPreserved ==
  ASSUME IncentivesInv, IncentivesNext
  PROVE  IncentivesInv'
  BY IncentivesKeeps, WindowKeeps, Zenon DEF IncentivesNext

-----------------------------------------------------------------------------
(***************************************************************************)
(* Votes, bids and fees of payout rounds.                                  *)
(***************************************************************************)
LEMMA RoundStarts ==
  ASSUME RoundInit
  PROVE  RoundInv
  <1>1. RoundTypeOK
    BY RoundAssumption DEF RoundInit, RoundTypeOK, Frames, Dispatches, Idle, NoDispatch
  <1>2. VoteAnnounced /\ FeeOnce /\ AnnouncedIsRecorded
    BY DEF RoundInit, VoteAnnounced, FeeOnce, AnnouncedIsRecorded
  <1>3. QED
    BY <1>1, <1>2, Zenon DEF RoundInv, RoundInit, Idle

\* A step that only changes the frame of one request.
LEMMA AskKeeps ==
  ASSUME RoundInv, NEW q \in Askers, NEW f \in Frames,
         frame' = [frame EXCEPT ![q] = f], UNCHANGED <<round, active, tables, disp>>,
         f.op = "bid" => f.bid <= MaxBid, f.pc \in {"count", "members"} => f.op = "vote"
  PROVE  RoundInv'
  <1>1. RoundTypeOK'
    BY Zenon DEF RoundInv, RoundTypeOK, tables
  <1>2. VoteAnnounced' /\ FeeOnce' /\ AnnouncedIsRecorded'
    BY Zenon DEF RoundInv, VoteAnnounced, FeeOnce, AnnouncedIsRecorded, tables
  <1>3. \A p \in Askers : frame'[p] = IF p = q THEN f ELSE frame[p]
    BY Zenon DEF RoundInv, RoundTypeOK
  <1>4. QED
    BY <1>1, <1>2, <1>3, Zenon DEF RoundInv

\* A step that only changes one dispatcher and the tables it writes.
LEMMA DispatchKeeps ==
  ASSUME RoundInv, NEW d \in Dispatchers, NEW g \in Dispatches,
         disp' = [disp EXCEPT ![d] = g], UNCHANGED <<round, active, frame, votes, sent>>,
         bids' \in [1 .. MaxRounds -> [Users -> 0 .. MaxBid]],
         fees' \in [Events -> 0 .. 1],
         score' \in 0 .. StartScore, moi' \in 0 .. StartScore
  PROVE  RoundInv'
  <1>1. fees' \in [Events -> Nat]
    OBVIOUS
  <1>2. RoundTypeOK'
    BY <1>1, Zenon DEF RoundInv, RoundTypeOK
  <1>3. VoteAnnounced' /\ AnnouncedIsRecorded'
    BY Zenon DEF RoundInv, VoteAnnounced, AnnouncedIsRecorded
  <1>4. FeeOnce'
    BY DEF FeeOnce
  <1>5. QED
    BY <1>2, <1>3, <1>4, Zenon DEF RoundInv

\* A vote that is recorded was not there before; it is announced with it or
\* not at all.
LEMMA VoteKeeps ==
  ASSUME RoundInv, NEW u, NEW to \in Users \cup {NoUser}, NEW n,
         CreateVote(u, to, n),
         \/ UNCHANGED sent
         \/ \E e \in Events : /\ e.type = "vote" /\ e.user = u /\ e.round = n /\ to \in Users
                              /\ Broadcast(e)
  PROVE  /\ votes' \in [1 .. MaxRounds -> [Users -> Users \cup {NoUser}]]
         /\ sent' \in [Events -> Nat] /\ VoteAnnounced' /\ AnnouncedIsRecorded'
  <1>1. /\ votes \in [1 .. MaxRounds -> [Users -> Users \cup {NoUser}]]
        /\ sent \in [Events -> Nat]
    BY Zenon DEF RoundInv, RoundTypeOK
  <1>2. votes[n][u] = NoUser /\ votes' = [votes EXCEPT ![n][u] = to]
    BY Zenon DEF CreateVote
  <1>3. votes' \in [1 .. MaxRounds -> [Users -> Users \cup {NoUser}]]
    BY <1>1, <1>2, Zenon
  <1>4. \A m \in 1 .. MaxRounds, v \in Users :
           votes'[m][v] = IF m = n /\ v = u THEN to ELSE votes[m][v]
    BY <1>1, <1>2, Zenon
  <1>5. \A e \in Events : e.type = "vote" => /\ e.user \in Users /\ e.round \in 1 .. MaxRounds
                                             /\ sent[e] <= 1 /\ sent[e] \in Nat
                                             /\ sent[e] > 0 => votes[e.round][e.user] # NoUser
    BY RoundAssumption, <1>1, Zenon DEF RoundInv, VoteAnnounced, AnnouncedIsRecorded
  <1>6. CASE UNCHANGED sent
    <2>1. VoteAnnounced' /\ sent' \in [Events -> Nat]
      BY <1>1, <1>5, <1>6, Zenon DEF VoteAnnounced
    <2>2. AnnouncedIsRecorded'
      BY <1>2, <1>4, <1>5, <1>6 DEF AnnouncedIsRecorded
    <2>3. QED
      BY <1>3, <2>1, <2>2, Zenon
  <1>7. ASSUME NEW e \in Events, e.type = "vote", e.user = u, e.round = n, to \in Users,
               Broadcast(e)
        PROVE  sent' \in [Events -> Nat] /\ VoteAnnounced' /\ AnnouncedIsRecorded'
    <2>1. sent[e] = 0
      BY <1>2, <1>5, <1>7
    <2>2. sent' \in [Events -> Nat]
          /\ \A x \in Events : sent'[x] = IF x = e THEN 1 ELSE sent[x]
      BY <1>1, <1>7, <2>1 DEF Broadcast
    <2>3. VoteAnnounced'
      BY <1>5, <2>2 DEF VoteAnnounced
    <2>4. votes'[e.round][e.user] # NoUser
      <3>1. e.user \in Users /\ e.round \in 1 .. MaxRounds
        BY <1>5, <1>7, Zenon
      <3>2. votes'[e.round][e.user] = to
        BY <1>4, <1>7, <3>1, Zenon
      <3>3. QED
        BY RoundAssumption, <1>7, <3>2, Zenon
    <2>5. AnnouncedIsRecorded'
      BY <1>2, <1>4, <1>5, <2>2, <2>4 DEF AnnouncedIsRecorded
    <2>6. QED
      BY <2>2, <2>3, <2>5, Zenon
  <1>8. QED
    BY <1>3, <1>6, <1>7, Zenon

LEMMA AsksKeep ==
  ASSUME RoundInv, NEW q \in Askers,
         \/ \E u, to \in Users : Vote(q, u, to)
         \/ \E u \in Users, b \in 0 .. MaxBid : AuctionBid(q, u, b)
         \/ FindMember(q) \/ FindRecipient(q) \/ CastVote(q) \/ SubmitAuctionBid(q)
         \/ GetVotesByRound(q) \/ GetMemberCount(q) \/ Told(q)
  PROVE  RoundInv'
  <1>0. /\ frame[q] \in Frames /\ frame \in [Askers -> Frames] /\ round \in 0 .. MaxRounds
        /\ Idle \in Frames /\ Idle.op = "none" /\ Idle.pc = "idle" /\ MaxBid \in Nat
        /\ (frame[q].op = "bid" => frame[q].bid <= MaxBid)
        /\ (frame[q].pc \in {"count", "members"} => frame[q].op = "vote")
    <2>1. /\ frame \in [Askers -> Frames] /\ round \in 1 .. MaxRounds
          /\ (frame[q].op = "bid" => frame[q].bid <= MaxBid)
          /\ (frame[q].pc \in {"count", "members"} => frame[q].op = "vote")
      BY Zenon DEF RoundInv, RoundTypeOK
    <2>2. frame[q] \in Frames
      BY <2>1, Zenon
    <2>3. MaxRounds \in Nat /\ MaxBid \in Nat
      BY RoundAssumption, Zenon
    <2>4. round \in 0 .. MaxRounds /\ 0 \in 0 .. MaxRounds /\ 0 \in Nat
      BY <2>1, <2>3
    <2>5. Idle \in Frames /\ Idle.op = "none" /\ Idle.pc = "idle"
      BY <2>4, Zenon DEF Idle, Frames
    <2>6. QED
      BY <2>1, <2>2, <2>3, <2>4, <2>5, Zenon
  <1>1. ASSUME NEW u \in Users, NEW to \in Users, Vote(q, u, to)
        PROVE  RoundInv'
    <2> DEFINE f == [Idle EXCEPT !.pc = "member", !.op = "vote", !.user = u, !.to = to,
                                 !.round = round]
    <2>1. frame' = [frame EXCEPT ![q] = f] /\ UNCHANGED <<round, active, tables, disp>>
      BY <1>1, Zenon DEF Vote
    <2>2. f \in Frames /\ f.op = "vote"
      BY <1>0, Zenon DEF Frames, Idle
    <2> HIDE DEF f
    <2>3. QED
      BY <2>1, <2>2, AskKeeps, Zenon
  <1>2. ASSUME NEW u \in Users, NEW b \in 0 .. MaxBid, AuctionBid(q, u, b)
        PROVE  RoundInv'
    <2> DEFINE f == [Idle EXCEPT !.pc = "member", !.op = "bid", !.user = u, !.bid = b,
                                 !.round = round]
    <2>1. frame' = [frame EXCEPT ![q] = f] /\ UNCHANGED <<round, active, tables, disp>>
      BY <1>2, Zenon DEF AuctionBid
    <2>2. b \in Nat /\ b <= MaxBid
      BY <1>0
    <2>3. f \in Frames /\ f.pc = "member" /\ f.bid = b
      BY <1>0, <2>2, Zenon DEF Frames, Idle
    <2> HIDE DEF f
    <2>4. QED
      BY <2>1, <2>2, <2>3, AskKeeps, Zenon
  <1>3. ASSUME frame' = [frame EXCEPT ![q] = Idle], UNCHANGED <<round, active, tables, disp>>
        PROVE  RoundInv'
    BY <1>0, <1>3, AskKeeps, Zenon
  <1>4. ASSUME NEW l \in {"recipient", "write", "told"}, frame' = [frame EXCEPT ![q].pc = l],
               UNCHANGED <<round, active, tables, disp>>
        PROVE  RoundInv'
    <2> DEFINE f == [frame[q] EXCEPT !.pc = l]
    <2>1. frame' = [frame EXCEPT ![q] = f]
      BY <1>0, <1>4, Zenon
    <2>2. f \in Frames /\ f.pc = l /\ f.op = frame[q].op /\ f.bid = frame[q].bid
      BY <1>0, Zenon DEF Frames
    <2> HIDE DEF f
    <2>3. QED
      BY <1>0, <1>4, <2>1, <2>2, AskKeeps, Zenon
  <1>5. CASE FindMember(q)
    <2>1. UNCHANGED <<round, active, tables, disp>>
      BY <1>5, Zenon DEF FindMember, Reads
    <2>2. \/ frame' = [frame EXCEPT ![q] = Idle]
          \/ frame' = [frame EXCEPT ![q].pc = "write"]
          \/ frame' = [frame EXCEPT ![q].pc = "recipient"]
      BY <1>5, Zenon DEF FindMember
    <2>3. QED
      BY <1>3, <1>4, <2>1, <2>2, Zenon
  <1>6. CASE FindRecipient(q)
    <2>1. UNCHANGED <<round, active, tables, disp>>
      BY <1>6, Zenon DEF FindRecipient, Reads
    <2>2. \/ frame' = [frame EXCEPT ![q] = Idle]
          \/ frame' = [frame EXCEPT ![q].pc = "write"]
      BY <1>6, Zenon DEF FindRecipient
    <2>3. QED
      BY <1>3, <1>4, <2>1, <2>2, Zenon
  <1>7. CASE CastVote(q)
    <2>1. /\ UNCHANGED <<round, active, bids, fees, score, moi, sent, disp, delivered, asked>>
          /\ frame[q].op = "vote"
      BY <1>7, Zenon DEF CastVote
    <2>2. CASE frame' = [frame EXCEPT ![q] = Idle] /\ UNCHANGED votes
      BY <1>3, <2>1, <2>2, Zenon DEF tables
    <2>3. CASE CreateVote(frame[q].user, frame[q].to, frame[q].round)
               /\ frame' = [frame EXCEPT ![q].pc = "count"]
      <3>1. /\ votes' \in [1 .. MaxRounds -> [Users -> Users \cup {NoUser}]]
            /\ VoteAnnounced' /\ AnnouncedIsRecorded'
        <4>1. frame[q].to \in Users \cup {NoUser}
          BY <1>0, Zenon DEF Frames
        <4>2. QED
          BY <2>1, <2>3, <4>1, VoteKeeps, Zenon
      <3>2. [frame[q] EXCEPT !.pc = "count"] \in Frames
        BY <1>0, Zenon DEF Frames
      <3>3. RoundTypeOK'
        BY <1>0, <2>1, <2>3, <3>1, <3>2, Zenon DEF RoundInv, RoundTypeOK
      <3>4. FeeOnce'
        BY <2>1, Zenon DEF RoundInv, FeeOnce
      <3>5. \A p \in Askers : /\ frame'[p].op = frame[p].op /\ frame'[p].bid = frame[p].bid
                              /\ frame'[p].pc = IF p = q THEN "count" ELSE frame[p].pc
        BY <1>0, <2>3, Zenon DEF Frames
      <3>6. QED
        BY <2>1, <3>1, <3>3, <3>4, <3>5, Zenon DEF RoundInv
    <2>4. QED
      BY <1>7, <2>2, <2>3, Zenon DEF CastVote
  <1>8. CASE SubmitAuctionBid(q)
    <2>1. /\ frame[q].op = "bid" /\ frame' = [frame EXCEPT ![q] = Idle]
          /\ bids' = [bids EXCEPT ![frame[q].round][frame[q].user] = frame[q].bid]
          /\ UNCHANGED <<round, active, votes, fees, score, moi, sent, disp, delivered, asked>>
      BY <1>8, Zenon DEF SubmitAuctionBid, CreateAuctionBid
    <2>2. frame[q].bid \in 0 .. MaxBid
      BY <1>0, <2>1 DEF Frames
    <2>3. RoundTypeOK'
      BY <1>0, <2>1, <2>2, Zenon DEF RoundInv, RoundTypeOK
    <2>4. VoteAnnounced' /\ FeeOnce' /\ AnnouncedIsRecorded'
      BY <2>1, Zenon DEF RoundInv, VoteAnnounced, FeeOnce, AnnouncedIsRecorded
    <2>5. \A p \in Askers : frame'[p] = IF p = q THEN Idle ELSE frame[p]
      BY <1>0, <2>1, Zenon
    <2>6. QED
      BY <1>0, <2>3, <2>4, <2>5, Zenon DEF RoundInv
  <1>9. CASE GetVotesByRound(q)
    <2>1. UNCHANGED <<round, active, tables, disp>> /\ frame[q].op = "vote"
      BY <1>0, <1>9, Zenon DEF GetVotesByRound, Reads
    <2> DEFINE cast == {u \in Users : votes[frame[q].round][u] # NoUser}
    <2>2. Cardinality(cast) \in Nat
      BY RoundAssumption, Zenon
    <2>3. ASSUME NEW w \in Users,
                 frame' = [frame EXCEPT ![q].pc = "members", ![q].winner = w,
                                        ![q].bid = Cardinality(cast)]
          PROVE  RoundInv'
      <3> DEFINE f == [frame[q] EXCEPT !.pc = "members", !.winner = w, !.bid = Cardinality(cast)]
      <3>1. frame' = [frame EXCEPT ![q] = f]
        BY <1>0, <2>3, Zenon
      <3>2. f \in Frames /\ f.op = "vote"
        BY <1>0, <2>1, <2>2, Zenon DEF Frames
      <3> HIDE DEF f
      <3>3. QED
        BY <2>1, <3>1, <3>2, AskKeeps, Zenon
    <2>4. QED
      BY <1>3, <1>9, <2>1, <2>3, Zenon DEF GetVotesByRound
  <1>10. CASE GetMemberCount(q)
    <2>1. UNCHANGED <<round, active, tables, disp>>
      BY <1>10, Zenon DEF GetMemberCount, Reads
    <2>2. \/ frame' = [frame EXCEPT ![q] = Idle]
          \/ frame' = [frame EXCEPT ![q].pc = "told"]
      BY <1>10, Zenon DEF GetMemberCount
    <2>3. QED
      BY <1>3, <1>4, <2>1, <2>2, Zenon
  <1>11. CASE Told(q)
    BY <1>3, <1>11, Zenon DEF Told, Reads
  <1>12. QED
    BY <1>1, <1>2, <1>5, <1>6, <1>7, <1>8, <1>9, <1>10, <1>11, ZenonT(40)

(* NoEvent is neither a vote nor a bid above the highest. *)
LEMMA NoEventIsNone == NoEvent.type = "none" /\ NoEvent.bid = 0
  BY DEF NoEvent

LEMMA NoneIsNoVote == "none" # "vote"
  OBVIOUS

LEMMA ZeroBid == 0 \in 0 .. MaxBid
  BY RoundAssumption

LEMMA DispatchesKeep ==
  ASSUME RoundInv, NEW d \in Dispatchers,
         \/ \E e \in Events : Deliver(d, e)
         \/ NotApplied(d) \/ onVoteCast(d) \/ onAuctionBid(d) \/ onFeeDeposited(d)
         \/ onLateReported(d)
         \/ GetByUser(d) \/ SaveSnapshot(d) \/ onDefaultRecorded(d)
  PROVE  RoundInv'
  <1>0. /\ disp[d] \in Dispatches /\ disp \in [Dispatchers -> Dispatches]
        /\ NoDispatch \in Dispatches /\ StartScore \in Nat
        /\ bids \in [1 .. MaxRounds -> [Users -> 0 .. MaxBid]]
        /\ fees \in [Events -> 0 .. 1]
        /\ score \in 0 .. StartScore /\ moi \in 0 .. StartScore
        /\ disp[d].ev \in Events \cup {NoEvent} /\ disp[d].score \in 0 .. StartScore
    <2>1. fees \in [Events -> Nat] /\ \A e \in Events : fees[e] <= 1
      BY Zenon DEF RoundInv, RoundTypeOK, FeeOnce
    <2>2. fees \in [Events -> 0 .. 1]
      BY <2>1
    <2>3. NoDispatch \in Dispatches /\ StartScore \in Nat
      <3>1. StartScore \in Nat /\ 0 \in 0 .. StartScore
        BY RoundAssumption
      <3>2. QED
        BY <3>1, Zenon DEF Dispatches, NoDispatch
    <2>4. disp[d] \in Dispatches
      BY Zenon DEF RoundInv, RoundTypeOK
    <2>5. QED
      BY <2>2, <2>3, <2>4, Zenon DEF RoundInv, RoundTypeOK, Dispatches
  <1>1. ASSUME NEW g \in Dispatches, disp' = [disp EXCEPT ![d] = g],
               UNCHANGED <<round, active, frame, tables>>
        PROVE  RoundInv'
    BY <1>0, <1>1, DispatchKeeps, Zenon DEF tables
  <1>2. ASSUME NEW e \in Events, Deliver(d, e)
        PROVE  RoundInv'
    <2> DEFINE g == [NoDispatch EXCEPT !.ev = e, !.pc = "dispatch"]
    <2>1. g \in Dispatches
      BY <1>0, Zenon DEF NoDispatch, Dispatches
    <2>2. UNCHANGED <<round, active, frame, tables>>
      BY <1>2, Zenon DEF Deliver
    <2>3. disp' = [disp EXCEPT ![d] = g] \/ disp' = [disp EXCEPT ![d] = disp[d]]
      BY <1>0, <1>2, Zenon DEF Deliver
    <2> HIDE DEF g
    <2>4. QED
      BY <1>0, <1>1, <2>1, <2>2, <2>3, Zenon
  <1>3. CASE NotApplied(d) \/ onLateReported(d)
    BY <1>0, <1>1, <1>3, Zenon DEF NotApplied, onLateReported, Leaves, Same
  <1>4. CASE onVoteCast(d)
    <2>1. /\ disp' = [disp EXCEPT ![d] = NoDispatch] /\ disp[d].ev.type = "vote"
          /\ UNCHANGED <<round, active, frame, delivered, asked, bids, fees, score, moi>>
      BY <1>4, Zenon DEF onVoteCast, Leaves, Same, Dispatching
    <2>2. CASE UNCHANGED <<votes, sent>>
      BY <1>0, <1>1, <2>1, <2>2, Zenon DEF tables
    <2>3. CASE CreateVote(disp[d].ev.user, disp[d].ev.to, disp[d].ev.round) /\ Broadcast(disp[d].ev)
      <3>1. disp[d].ev \in Events
        BY <1>0, <2>1, NoEventIsNone, NoneIsNoVote, Zenon
      <3>2. disp[d].ev.to \in Users
        BY RoundAssumption, <2>1, <3>1, Zenon
      <3>3. /\ votes' \in [1 .. MaxRounds -> [Users -> Users \cup {NoUser}]]
            /\ sent' \in [Events -> Nat] /\ VoteAnnounced' /\ AnnouncedIsRecorded'
        BY <2>1, <2>3, <3>1, <3>2, VoteKeeps, Zenon
      <3>4. RoundTypeOK'
        BY <1>0, <2>1, <3>3, Zenon DEF RoundInv, RoundTypeOK
      <3>5. FeeOnce'
        BY <2>1, Zenon DEF RoundInv, FeeOnce
      <3>6. \A q \in Askers : /\ frame'[q].op = "bid" => frame'[q].bid <= MaxBid
                              /\ frame'[q].pc \in {"count", "members"} => frame'[q].op = "vote"
        BY <2>1, Zenon DEF RoundInv
      <3>7. QED
        BY <3>3, <3>4, <3>5, <3>6, Zenon DEF RoundInv
    <2>4. QED
      BY <1>4, <2>2, <2>3, Zenon DEF onVoteCast
  <1>5. CASE onAuctionBid(d)
    <2>1. /\ disp' = [disp EXCEPT ![d] = NoDispatch] /\ disp[d].ev.type = "bid"
          /\ bids' = [bids EXCEPT ![disp[d].ev.round][disp[d].ev.user] = disp[d].ev.bid]
          /\ UNCHANGED <<round, active, frame, delivered, asked, votes, fees, score, moi, sent>>
      BY <1>5, Zenon DEF onAuctionBid, Leaves, Same, Dispatching, CreateAuctionBid
    <2>2. disp[d].ev.bid \in 0 .. MaxBid
      BY RoundAssumption, <1>0, NoEventIsNone, ZeroBid, Zenon
    <2>3. bids' \in [1 .. MaxRounds -> [Users -> 0 .. MaxBid]]
      BY <1>0, <2>1, <2>2, Zenon
    <2>4. QED
      BY <1>0, <2>1, <2>3, DispatchKeeps, Zenon
  <1>6. CASE onFeeDeposited(d)
    <2>1. /\ disp' = [disp EXCEPT ![d] = NoDispatch]
          /\ fees' = [fees EXCEPT ![disp[d].ev] = 1] \/ UNCHANGED fees
          /\ UNCHANGED <<round, active, frame, delivered, asked, votes, bids, score, moi, sent>>
      BY <1>6, Zenon DEF onFeeDeposited, Leaves, Same
    <2>2. fees' \in [Events -> 0 .. 1]
      BY <1>0, <2>1
    <2>3. QED
      BY <1>0, <2>1, <2>2, DispatchKeeps, Zenon
  <1>7. CASE GetByUser(d)
    <2> DEFINE g == [disp[d] EXCEPT !.pc = "save", !.score = newScore(score)]
    <2>1. newScore(score) \in 0 .. StartScore
      BY <1>0 DEF newScore
    <2>2. g \in Dispatches
      BY <1>0, <2>1, Zenon DEF Dispatches
    <2>3. disp' = [disp EXCEPT ![d] = g] /\ UNCHANGED <<round, active, frame, tables>>
      BY <1>0, <1>7, Zenon DEF GetByUser, Same
    <2> HIDE DEF g
    <2>4. QED
      BY <1>1, <2>2, <2>3, Zenon
  <1>8. CASE SaveSnapshot(d)
    <2> DEFINE g == [disp[d] EXCEPT !.pc = "moi"]
    <2>1. g \in Dispatches
      BY <1>0, Zenon DEF Dispatches
    <2>2. /\ \/ score' = disp[d].score /\ disp' = [disp EXCEPT ![d] = g]
             \/ UNCHANGED score /\ disp' = [disp EXCEPT ![d] = NoDispatch]
          /\ UNCHANGED <<round, active, frame, delivered, asked, votes, bids, fees, moi, sent>>
      BY <1>0, <1>8, Zenon DEF SaveSnapshot, DispatchGoto, Leaves, Same
    <2> HIDE DEF g
    <2>3. QED
      BY <1>0, <2>1, <2>2, DispatchKeeps, Zenon
  <1>9. CASE onDefaultRecorded(d)
    <2>1. /\ moi' = disp[d].score \/ UNCHANGED moi
          /\ disp' = [disp EXCEPT ![d] = NoDispatch]
          /\ UNCHANGED <<round, active, frame, delivered, asked, votes, bids, fees, score, sent>>
      BY <1>9, Zenon DEF onDefaultRecorded, Leaves, Same
    <2>2. QED
      BY <1>0, <2>1, DispatchKeeps, Zenon
  <1>10. QED
    BY <1>2, <1>3, <1>4, <1>5, <1>6, <1>7, <1>8, <1>9, Zenon

LEMMA RoundKeeps ==
  ASSUME RoundInv, RoundNext
  PROVE  RoundInv'
  <1>1. ASSUME UNCHANGED <<tables, frame, disp>>, round' \in 1 .. MaxRounds, active' \subseteq Users
        PROVE  RoundInv'
    BY <1>1, ZenonT(40) DEF RoundInv, RoundTypeOK, VoteAnnounced, FeeOnce, AnnouncedIsRecorded,
       tables
  <1>2. CASE NextRound
    <2>1. /\ round < MaxRounds /\ round' = round + 1 /\ UNCHANGED <<active, tables, frame, disp>>
          /\ round \in 1 .. MaxRounds /\ active \subseteq Users
      BY <1>2, Zenon DEF NextRound, RoundInv, RoundTypeOK
    <2>2. round' \in 1 .. MaxRounds
      BY RoundAssumption, <2>1
    <2>3. QED
      BY <1>1, <2>1, <2>2, Zenon
  <1>3. CASE \E u \in Users : Leave(u)
    BY <1>1, <1>3, Zenon DEF Leave, RoundInv, RoundTypeOK
  <1>4. QED
    BY <1>2, <1>3, AsksKeep, DispatchesKeep, Zenon DEF RoundNext

LEMMA RoundUndoesNothing ==
  ASSUME RoundInv, RoundNext
  PROVE  KeepsVotes
  <1>1. \/ UNCHANGED votes \/ \E u, to, n : CreateVote(u, to, n)
    BY Zenon DEF RoundNext, NextRound, Leave, Vote, AuctionBid, FindMember, FindRecipient,
       CastVote, SubmitAuctionBid, GetVotesByRound, GetMemberCount, Told, Reads, Deliver,
       NotApplied, onVoteCast, onAuctionBid, onFeeDeposited, onLateReported, GetByUser,
       SaveSnapshot, onDefaultRecorded, Same, tables
  <1>2. votes \in [1 .. MaxRounds -> [Users -> Users \cup {NoUser}]]
    BY Zenon DEF RoundInv, RoundTypeOK
  <1>3. ASSUME NEW u, NEW to, NEW n, CreateVote(u, to, n),
               NEW m \in 1 .. MaxRounds, NEW v \in Users, votes[m][v] # NoUser
        PROVE  votes'[m][v] = votes[m][v]
    <2>1. ~(m = n /\ v = u) /\ votes' = [votes EXCEPT ![n][u] = to]
      BY <1>3, Zenon DEF CreateVote
    <2>2. QED
      BY <1>2, <2>1, Zenon
  <1>4. QED
    BY <1>1, <1>3, Zenon DEF KeepsVotes

LEMMA RoundStutters ==
  ASSUME RoundInv, UNCHANGED roundVars
  PROVE  RoundInv'
  <1>1. UNCHANGED <<round, active, votes, bids, fees, score, moi, sent, frame, disp>>
    BY Zenon DEF roundVars
  <1>2. RoundTypeOK'
    BY <1>1, Zenon DEF RoundInv, RoundTypeOK
  <1>3. VoteAnnounced' /\ FeeOnce' /\ AnnouncedIsRecorded'
    BY <1>1, Zenon DEF RoundInv, VoteAnnounced, FeeOnce, AnnouncedIsRecorded
  <1>4. QED
    BY <1>1, <1>2, <1>3, Zenon DEF RoundInv

-----------------------------------------------------------------------------
(***************************************************************************)
(* Savings goals.                                                          *)
(***************************************************************************)
LEMMA SavingsStarts == SavingsInit => SavingsInv
  <1>1. SUFFICES ASSUME SavingsInit PROVE SavingsInv
    BY Zenon
  <1>2. /\ goals = [g \in Goals |-> NoGoal] /\ edit = [q \in Savers |-> Waiting]
        /\ origin = [g \in Goals |-> "none"] /\ gone = {}
    BY <1>1, Zenon DEF SavingsInit
  <1>3. SavingsTypeOK
    BY <1>2, Zenon DEF SavingsTypeOK
  <1>4. CompletedWhole /\ DeletedStays
    BY <1>2, Zenon DEF CompletedWhole, DeletedStays
  <1>5. \A q \in Savers : edit[q].step # "complete"
    BY <1>2, ZenonT(40) DEF Waiting
  <1>6. QED
    BY <1>3, <1>4, <1>5, Zenon DEF SavingsInv

\* A new frame of one request, the tables left alone.
LEMMA SavingsFrame ==
  ASSUME SavingsInv, NEW q \in Savers, NEW f, UNCHANGED <<goals, origin, gone>>,
         edit' = [edit EXCEPT ![q] = f],
         \/ f = Waiting
         \/ f \in [step : {"update", "complete", "delete"}, goal : Goals, copy : GoalRows],
         f.step = "complete" => f.copy.status = "completed" /\ f.copy.current = f.copy.target
  PROVE  SavingsInv'
  <1>1. SavingsTypeOK'
    BY Zenon DEF SavingsInv, SavingsTypeOK
  <1>2. CompletedWhole' /\ DeletedStays'
    BY Zenon DEF SavingsInv, CompletedWhole, DeletedStays, Exists
  <1>3. \A p \in Savers : edit'[p] = IF p = q THEN f ELSE edit[p]
    BY Zenon DEF SavingsInv, SavingsTypeOK
  <1>4. QED
    BY <1>1, <1>2, <1>3 DEF SavingsInv

LEMMA SavingsKeeps ==
  ASSUME 0 \in Targets, SavingsInv, SavingsNext
  PROVE  SavingsInv'
  <1> USE DEF Waiting, NoGoal
  <1>1. ASSUME NEW q \in Savers, NEW u \in Owners, CreateGoal(q, u)
        PROVE  SavingsInv'
    <2>1. PICK g \in Goals \ gone, amount \in Targets \ {0} :
             /\ goals' = [goals EXCEPT ![g] = [owner |-> u, target |-> amount, current |-> 0,
                                               status |-> "active"]]
             /\ origin' = [origin EXCEPT ![g] = "create"]
      BY <1>1, Zenon DEF CreateGoal
    <2>2. UNCHANGED <<edit, gone>>
      BY <1>1, Zenon DEF CreateGoal
    <2>3. SavingsTypeOK'
      BY <2>1, <2>2, Zenon DEF SavingsInv, SavingsTypeOK, GoalRows
    <2>4. CompletedWhole'
      BY <2>1, <2>2, Zenon DEF SavingsInv, SavingsTypeOK, CompletedWhole, Exists
    <2>5. DeletedStays'
      BY <2>1, <2>2, Zenon DEF SavingsInv, SavingsTypeOK, DeletedStays, Exists
    <2>6. QED
      BY <2>2, <2>3, <2>4, <2>5, Zenon DEF SavingsInv
  <1>2. ASSUME NEW q \in Savers, NEW u \in Owners, NEW g \in Goals, UpdateGoal(q, u, g)
        PROVE  SavingsInv'
    <2>1. goals[g] \in GoalRows
      BY <1>2, Zenon DEF UpdateGoal, MayTouch, Exists, SavingsInv, SavingsTypeOK
    <2>2. PICK target, current \in Targets, outcome \in {"active", "completed"} :
             edit' = [edit EXCEPT ![q] =
                [step |-> "update", goal |-> g,
                 copy |-> [goals[g] EXCEPT !.target = target, !.current = current,
                                           !.status = outcome]]]
      BY <1>2, Zenon DEF UpdateGoal
    <2>3. [goals[g] EXCEPT !.target = target, !.current = current, !.status = outcome] \in GoalRows
      BY <2>1, Zenon DEF GoalRows
    <2>4. UNCHANGED <<goals, origin, gone>>
      BY <1>2, Zenon DEF UpdateGoal
    <2>5. QED
      BY <2>2, <2>3, <2>4, SavingsFrame, Zenon
  <1>3. ASSUME NEW q \in Savers, NEW u \in Owners, NEW g \in Goals, CompleteGoal(q, u, g)
        PROVE  SavingsInv'
    <2> DEFINE c == [goals[g] EXCEPT !.status = "completed", !.current = goals[g].target]
    <2>1. goals[g] \in GoalRows
      BY <1>3, Zenon DEF CompleteGoal, MayTouch, Exists, SavingsInv, SavingsTypeOK
    <2>2. c \in GoalRows /\ c.status = "completed" /\ c.current = c.target
      BY <2>1, Zenon DEF GoalRows
    <2>3. edit' = [edit EXCEPT ![q] = [step |-> "complete", goal |-> g, copy |-> c]]
      BY <1>3, Zenon DEF CompleteGoal
    <2>4. UNCHANGED <<goals, origin, gone>>
      BY <1>3, Zenon DEF CompleteGoal
    <2> HIDE DEF c
    <2>5. QED
      BY <2>2, <2>3, <2>4, SavingsFrame, Zenon
  <1>4. ASSUME NEW q \in Savers, NEW u \in Owners, NEW g \in Goals, DeleteGoal(q, u, g)
        PROVE  SavingsInv'
    <2>1. goals[g] \in GoalRows
      BY <1>4, Zenon DEF DeleteGoal, MayTouch, Exists, SavingsInv, SavingsTypeOK
    <2>2. edit' = [edit EXCEPT ![q] = [step |-> "delete", goal |-> g, copy |-> goals[g]]]
      BY <1>4, Zenon DEF DeleteGoal
    <2>3. UNCHANGED <<goals, origin, gone>>
      BY <1>4, Zenon DEF DeleteGoal
    <2>4. QED
      BY <2>1, <2>2, <2>3, SavingsFrame, Zenon
  <1>5. ASSUME NEW q \in Savers, Update(q)
        PROVE  SavingsInv'
    <2> DEFINE f == edit[q]
    <2>1. f \in [step : {"update", "complete"}, goal : Goals, copy : GoalRows]
      BY <1>5 DEF Update, SavingsInv, SavingsTypeOK
    <2>2. edit' = [edit EXCEPT ![q] = Waiting] /\ UNCHANGED gone
      BY <1>5, Zenon DEF Update
    <2>3. CASE ~Exists(f.goal)
      <3>1. UNCHANGED <<goals, origin, gone>>
        BY <1>5, <2>3, Zenon DEF Update
      <3>2. QED
        BY <2>2, <3>1, SavingsFrame, Zenon
    <2>4. CASE Exists(f.goal)
      <3> DEFINE w == Written(goals[f.goal], f.step, f.copy)
      <3>1. goals[f.goal] \in GoalRows
        BY <2>1, <2>4, Zenon DEF Exists, SavingsInv, SavingsTypeOK
      <3>2. w \in GoalRows /\ w.status = f.copy.status /\ w.current = f.copy.current
                           /\ w.target = f.copy.target
        BY <2>1, <3>1, Zenon DEF Written, GoalRows
      <3>3. /\ goals' = [goals EXCEPT ![f.goal] = w]
            /\ origin' = [origin EXCEPT ![f.goal] = f.step]
        BY <1>5, <2>4, Zenon DEF Update
      <3>4. f.step = "complete" => w.status = "completed" /\ w.current = w.target
        BY <3>2, Zenon DEF SavingsInv
      <3> HIDE DEF w
      <3>5. SavingsTypeOK'
        BY <2>1, <2>2, <3>2, <3>3, Zenon DEF SavingsInv, SavingsTypeOK
      <3>6. CompletedWhole'
        BY <2>1, <3>3, <3>4, Zenon DEF SavingsInv, SavingsTypeOK, CompletedWhole, Exists
      <3>7. DeletedStays'
        BY <2>1, <2>2, <2>4, <3>3, Zenon DEF SavingsInv, SavingsTypeOK, DeletedStays, Exists
      <3>8. \A p \in Savers : edit'[p] = IF p = q THEN Waiting ELSE edit[p]
        BY <2>2, Zenon DEF SavingsInv, SavingsTypeOK
      <3>9. QED
        BY <3>5, <3>6, <3>7, <3>8 DEF SavingsInv
    <2>5. QED
      BY <2>3, <2>4, Zenon
  <1>6. ASSUME NEW q \in Savers, Delete(q)
        PROVE  SavingsInv'
    <2> DEFINE g == edit[q].goal
    <2>1. g \in Goals
      BY <1>6 DEF Delete, SavingsInv, SavingsTypeOK
    <2>2. /\ goals' = [goals EXCEPT ![g] = NoGoal] /\ gone' = gone \cup {g}
          /\ edit' = [edit EXCEPT ![q] = Waiting] /\ UNCHANGED origin
      BY <1>6, Zenon DEF Delete
    <2> HIDE DEF g
    <2>3. SavingsTypeOK'
      BY <2>1, <2>2, Zenon DEF SavingsInv, SavingsTypeOK
    <2>4. CompletedWhole'
      BY <2>1, <2>2, Zenon DEF SavingsInv, SavingsTypeOK, CompletedWhole, Exists
    <2>5. DeletedStays'
      BY <2>1, <2>2, Zenon DEF SavingsInv, SavingsTypeOK, DeletedStays, Exists
    <2>6. \A p \in Savers : edit'[p] = IF p = q THEN Waiting ELSE edit[p]
      BY <2>2, Zenon DEF SavingsInv, SavingsTypeOK
    <2>7. QED
      BY <2>3, <2>4, <2>5, <2>6, SMTT(30) DEF SavingsInv
  <1>7. ASSUME NEW q \in Savers, Fault(q)
        PROVE  SavingsInv'
    <2>1. edit' = [edit EXCEPT ![q] = Waiting] /\ UNCHANGED <<goals, origin, gone>>
      BY <1>7, Zenon DEF Fault
    <2>2. QED
      BY <2>1, SavingsFrame, Zenon
  <1>8. QED
    BY <1>1, <1>2, <1>3, <1>4, <1>5, <1>6, <1>7, Zenon DEF SavingsNext

LEMMA SavingsStutters ==
  ASSUME SavingsInv, UNCHANGED savingsVars
  PROVE  SavingsInv'
  BY Zenon DEF savingsVars, SavingsInv, SavingsTypeOK, CompletedWhole, DeletedStays, Exists

-----------------------------------------------------------------------------
(***************************************************************************)
(* What the promises are, together.  The components share no variable.     *)
(***************************************************************************)

(* What is recorded for a member is recorded once and stays whole.  A      *)
(* referral code earns one bonus, and none before it is completed          *)
(* (UpdateReferralStatus); a streak's tier is that of its current streak   *)
(* and its longest not below it; an on-chain vote is announced once and a  *)
(* fee counted once, however often their events are delivered.  Handlers   *)
(* that write back a whole goal lose each other's changes, but never mix   *)
(* them or bring a row back: a goal that was completed last holds its      *)
(* target, also when the target was being changed meanwhile, and a deleted *)
(* goal stays deleted.                                                     *)
RecordsSound ==
  /\ ReferralPaidOnce /\ StreakRowCoherent
  /\ VoteAnnounced /\ FeeOnce
  /\ CompletedWhole /\ DeletedStays

(* A recorded vote is not replaced by a second request or by the voter's   *)
(* on-chain vote, whichever of CastVote and onVoteCast comes first.        *)
VotesStand == [][KeepsVotes]_roundVars

LEMMA IncentivesInvariant == IncentivesSpec => []IncentivesInv
<1>1. IncentivesInit => IncentivesInv
  BY IncentivesStarts, Zenon
<1>2. IncentivesInv /\ [IncentivesNext]_incentiveVars => IncentivesInv'
  BY IncentivesPreserved, IncentivesStutters, Zenon
<1> QED
  BY <1>1, <1>2, PTL DEF IncentivesSpec

LEMMA RoundInvariant == RoundSpec => []RoundInv
<1>1. RoundInit => RoundInv
  BY RoundStarts, Zenon
<1>2. RoundInv /\ [RoundNext]_roundVars => RoundInv'
  BY RoundKeeps, RoundStutters, Zenon
<1> QED
  BY <1>1, <1>2, PTL DEF RoundSpec

LEMMA SavingsInvariant == SavingsSpec => []SavingsInv
<1>1. SavingsInv /\ [SavingsNext]_savingsVars => SavingsInv'
  BY SavingsAssumption, SavingsKeeps, SavingsStutters, Zenon DEF SavingsAssumption
<1> QED
  BY <1>1, SavingsStarts, PTL DEF SavingsSpec

(* Rows, frames and counters keep their types, for any number of members,  *)
(* codes, goals, requests and deliveries.                                  *)
THEOREM MemberTypesHold ==
  IncentivesSpec /\ RoundSpec /\ SavingsSpec => [](IncentivesTypeOK /\ RoundTypeOK /\ SavingsTypeOK)
<1>1. IncentivesInv /\ RoundInv /\ SavingsInv => IncentivesTypeOK /\ RoundTypeOK /\ SavingsTypeOK
  BY Zenon DEF IncentivesInv, RoundInv, SavingsInv
<1> QED
  BY <1>1, IncentivesInvariant, RoundInvariant, SavingsInvariant, PTL

(* ApplyReferralCode, RecordContribution, the handlers of vote and fee     *)
(* events and the handlers of goals keep their rows sound, for any number  *)
(* of concurrent or repeated requests and deliveries.                      *)
THEOREM RecordsAreSound == IncentivesSpec /\ RoundSpec /\ SavingsSpec => []RecordsSound
<1>1. IncentivesInv /\ RoundInv /\ SavingsInv => RecordsSound
  BY ReferralsPaidOnce, Zenon DEF IncentivesInv, RoundInv, SavingsInv, RecordsSound
<1> QED
  BY <1>1, IncentivesInvariant, RoundInvariant, SavingsInvariant, PTL

(* The key on (circle, voter, round) keeps the first vote of a member. *)
THEOREM FirstVoteStands == RoundSpec => VotesStand
<1>1. RoundInv /\ [RoundNext]_roundVars => [KeepsVotes]_roundVars
  BY RoundUndoesNothing, Zenon
<1> QED
  BY <1>1, RoundInvariant, PTL DEF RoundSpec, VotesStand
=============================================================================
