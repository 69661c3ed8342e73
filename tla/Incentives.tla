----------------------------- MODULE Incentives -----------------------------
(***************************************************************************)
(* internal/domain/incentives: referral codes, grants, claims and savings  *)
(* streaks of one user, under concurrent (or resubmitted) requests.  Each  *)
(* repository call is a statement that commits on its own; nothing here    *)
(* uses Repository.Transact.  A query may fail at any time: the callers    *)
(* treat a failed read in different ways.                                  *)
(***************************************************************************)
EXTENDS Integers

CONSTANTS Claimants, Codes, Referrers, MaxIncentives, MaxStreak, Tier2, Tier3

(* Bounds are numbers, and one payment is not yet a tier. *)
ASSUME IncentivesAssumption ==
  /\ "none" \notin Referrers /\ Referrers # {}
  /\ MaxIncentives \in Nat /\ MaxStreak \in Nat \ {0}
  /\ Tier2 \in Nat /\ Tier3 \in Nat /\ Tier2 > 1 /\ Tier3 > 1

VARIABLES referrals,  \* code -> row of referrals
          incentives, \* id -> row of incentives
          streak,     \* the row of savings_streaks, or NoStreak
          claim
incentiveVars == <<referrals, incentives, streak, claim>>

Ids == 1 .. MaxIncentives
NoReferral == [referrer |-> "none", status |-> "none"]
NoIncentive == [type |-> "none", user |-> "none", ref |-> "none", status |-> "none"]
NoStreak == [current |-> 0, longest |-> 0, recent |-> FALSE, tier |-> 0]
NoClaim == [pc |-> "idle", op |-> "none", user |-> "none", ref |-> "none",
            row |-> NoReferral, streak |-> NoStreak, id |-> 0]

IncentivesInit ==
    /\ referrals = [c \in Codes |-> NoReferral]
    /\ incentives = [i \in Ids |-> NoIncentive]
    /\ streak = NoStreak
    /\ claim = [r \in Claimants |-> NoClaim]

At(r, op, l) == claim[r].op = op /\ claim[r].pc = l
ClaimGoto(r, l) == claim' = [claim EXCEPT ![r].pc = l]
ClaimEnds(r) == claim' = [claim EXCEPT ![r] = NoClaim]
Stays == UNCHANGED <<referrals, incentives, streak>>

(* CreateIncentive: a new pending row.  The metadata is not inserted. *)
CreateIncentive(type, user, ref) ==
    \E i \in Ids :
      /\ incentives[i] = NoIncentive
      /\ \A j \in Ids : j < i => incentives[j] # NoIncentive
      /\ incentives' = [incentives EXCEPT ![i] =
            [type |-> type, user |-> user, ref |-> ref, status |-> "pending"]]

Room == \E i \in Ids : incentives[i] = NoIncentive

Submit(r, op, u, ref) ==
    /\ claim[r].pc = "idle"
    /\ claim' = [claim EXCEPT ![r] = [NoClaim EXCEPT !.pc = "start", !.op = op,
                                                  !.user = u, !.ref = ref]]
    /\ Stays

(* The handlers of IncentivesHandler and ReferralHandler pass the caller    *)
(* and the body to the service.  One user's grants, streak and codes are   *)
(* followed; any user applies a code.                                      *)
Owner == CHOOSE u \in Referrers : TRUE
ReferralRequest(r) ==
    \/ Submit(r, "generate", Owner, "none")
    \/ \E u \in Referrers, c \in Codes : Submit(r, "apply", u, c)
GrantRequest(r) ==
    \/ Submit(r, "completion", Owner, "circle")
    \/ \E op \in {"match", "record", "streakbonus", "first"} : Submit(r, op, Owner, "none")
ClaimRequest(r) == Submit(r, "claim", Owner, "none")

(* FindByReferrerID.  A failed read counts as "no code yet".               *)
GenerateReferralCode(r) ==
    /\ At(r, "generate", "start")
    /\ \/ (\E c \in Codes : referrals[c].referrer = claim[r].user) /\ ClaimEnds(r)
       \/ ClaimGoto(r, "insert")
    /\ Stays

(* CreateReferral: a fresh code; the unique code column refuses a taken    *)
(* one.  (The insert's error is not ErrReferralCodeTaken: it ends the loop.)*)
CreateReferral(r) ==
    /\ At(r, "generate", "insert")
    /\ \/ \E c \in Codes :
            /\ referrals[c] = NoReferral
            /\ referrals' = [referrals EXCEPT ![c] =
                  [referrer |-> claim[r].user, status |-> "pending"]]
       \/ UNCHANGED referrals
    /\ ClaimEnds(r)
    /\ UNCHANGED <<incentives, streak>>

(* ApplyReferralCode first asks for a referral with this referred user.   *)
(* No statement ever writes referred_id, so none is found, and a failed    *)
(* read passes as well.                                                    *)
FindByReferredID(r) == At(r, "apply", "start") /\ ClaimGoto(r, "code") /\ Stays

(* ... then FindByReferralCode, whose row lock ends with the statement ... *)
FindByReferralCode(r) ==
    /\ At(r, "apply", "code")
    /\ \/ /\ referrals[claim[r].ref] # NoReferral
          /\ claim' = [claim EXCEPT ![r].pc = "check",
                                    ![r].row = referrals[claim[r].ref]]
       \/ ClaimEnds(r)
    /\ Stays

(* ... and the checks are made on the row that was read.                   *)
ApplyReferralCode(r) ==
    /\ At(r, "apply", "check")
    /\ \/ /\ claim[r].row.referrer # claim[r].user
          /\ claim[r].row.status = "pending"
          /\ ClaimGoto(r, "complete")
       \/ ClaimEnds(r)
    /\ Stays

(* UpdateReferralStatus: WHERE status = 'pending'; no row is "already      *)
(* used".  The referred user is set on the copy only.                      *)
UpdateReferralStatus(r) ==
    /\ At(r, "apply", "complete")
    /\ \/ /\ referrals[claim[r].ref].status = "pending"
          /\ referrals' = [referrals EXCEPT ![claim[r].ref].status = "completed"]
          /\ ClaimGoto(r, "bonus")
       \/ ClaimEnds(r) /\ UNCHANGED referrals
    /\ UNCHANGED <<incentives, streak>>

(* The referrer's bonus; when the insert fails the code stays completed.   *)
ReferralBonus(r) ==
    /\ At(r, "apply", "bonus")
    /\ \/ CreateIncentive("referral", claim[r].row.referrer, claim[r].ref)
       \/ UNCHANGED incentives
    /\ ClaimEnds(r)
    /\ UNCHANGED <<referrals, streak>>

(* ensureNoIncentive: an incentive of the type (and reference) is there;   *)
(* a failed read ends the grant.                                           *)
Has(u, type, ref) == \E i \in Ids : /\ incentives[i].user = u
                                    /\ incentives[i].type = type
                                    /\ incentives[i].ref = ref
ensureNoIncentive(r, type, ref, l) ==
    \/ ~Has(claim[r].user, type, ref) /\ ClaimGoto(r, l)
    \/ ClaimEnds(r)

GrantCircleCompletionReward(r) ==
    /\ At(r, "completion", "start")
    /\ ensureNoIncentive(r, "circle_completion", claim[r].ref, "grant")
    /\ Stays

(* The deposit may be below the minimum. *)
GrantFirstDepositBonus(r) ==
    /\ At(r, "first", "start")
    /\ ensureNoIncentive(r, "first_deposit", "none", "grant")
    /\ Stays

(* No guard: a match is granted for every call with a positive amount.     *)
GrantContributionMatch(r) ==
    /\ At(r, "match", "start")
    /\ ClaimGoto(r, "grant") \/ ClaimEnds(r)
    /\ Stays

(* GrantStreakBonus: GetConfig reads the tiers' lengths and not their      *)
(* amounts, so that the amount is zero and the call ends.                  *)
GrantStreakBonus(r) ==
    /\ At(r, "streakbonus", "start")
    /\ ClaimEnds(r)
    /\ Stays

TypeOf(op) == CASE op = "completion" -> "circle_completion"
                [] op = "first" -> "first_deposit"
                [] OTHER -> "contribution_match"
Grant(r) ==
    /\ claim[r].pc = "grant"
    /\ \/ CreateIncentive(TypeOf(claim[r].op), claim[r].user, claim[r].ref)
       \/ UNCHANGED incentives
    /\ ClaimEnds(r)
    /\ UNCHANGED <<referrals, streak>>

(* ClaimIncentive: the owner's, not claimed yet when read... *)
ClaimIncentive(r) ==
    /\ At(r, "claim", "start")
    /\ \/ \E i \in Ids :
            /\ incentives[i].user = claim[r].user
            /\ incentives[i].status # "claimed"
            /\ claim' = [claim EXCEPT ![r].pc = "claim", ![r].id = i]
       \/ ClaimEnds(r)
    /\ Stays

(* ... and UpdateIncentiveStatus writes it by id alone. *)
UpdateIncentiveStatus(r) ==
    /\ At(r, "claim", "claim")
    /\ \/ incentives' = [incentives EXCEPT ![claim[r].id].status = "claimed"]
       \/ UNCHANGED incentives
    /\ ClaimEnds(r)
    /\ UNCHANGED <<referrals, streak>>

(* RecordContribution reads the streak; none yet: one is inserted. *)
FindStreakByUserID(r) ==
    /\ At(r, "record", "start")
    /\ \/ streak # NoStreak
          /\ claim' = [claim EXCEPT ![r].pc = "update", ![r].streak = streak]
       \/ streak = NoStreak /\ ClaimGoto(r, "create")
       \/ ClaimEnds(r)
    /\ Stays

(* user_id is unique: the second insert fails. *)
CreateSavingsStreak(r) ==
    /\ At(r, "record", "create")
    /\ \/ /\ streak = NoStreak
          /\ streak' = [current |-> 1, longest |-> 1, recent |-> TRUE, tier |-> 1]
       \/ UNCHANGED streak
    /\ ClaimEnds(r)
    /\ UNCHANGED <<referrals, incentives>>

tier(n) == IF n >= Tier3 THEN 3 ELSE IF n >= Tier2 THEN 2 ELSE 1

(* Within seven days of the last contribution the streak goes on. *)
Continued(s) ==
    LET n == IF s.recent THEN s.current + 1 ELSE 1 IN
    [current |-> n, recent |-> TRUE, tier |-> tier(n),
     longest |-> IF s.recent /\ n > s.longest THEN n ELSE s.longest]

(* UpdateSavingsStreak writes what was computed from the row as read. *)
RecordContribution(r) ==
    /\ At(r, "record", "update")
    /\ \/ /\ claim[r].streak.current < MaxStreak
          /\ streak' = Continued(claim[r].streak)
       \/ UNCHANGED streak
    /\ ClaimEnds(r)
    /\ UNCHANGED <<referrals, incentives>>

(* Seven days pass without a contribution. *)
WindowPasses ==
    /\ streak.recent
    /\ streak' = [streak EXCEPT !.recent = FALSE]
    /\ UNCHANGED <<referrals, incentives, claim>>

IncentivesNext ==
    \/ WindowPasses
    \/ \E r \in Claimants :
        \/ ReferralRequest(r) \/ GrantRequest(r) \/ ClaimRequest(r)
        \/ GenerateReferralCode(r) \/ CreateReferral(r)
        \/ FindByReferredID(r) \/ FindByReferralCode(r) \/ ApplyReferralCode(r)
        \/ UpdateReferralStatus(r) \/ ReferralBonus(r)
        \/ GrantCircleCompletionReward(r) \/ GrantFirstDepositBonus(r)
        \/ GrantContributionMatch(r) \/ GrantStreakBonus(r) \/ Grant(r)
        \/ ClaimIncentive(r) \/ UpdateIncentiveStatus(r)
        \/ FindStreakByUserID(r) \/ CreateSavingsStreak(r) \/ RecordContribution(r)

IncentivesSpec == IncentivesInit /\ [][IncentivesNext]_incentiveVars

Referrals == [referrer : Referrers, status : {"pending", "completed"}]
IncentiveRows == [type : {"referral", "circle_completion", "first_deposit", "contribution_match"},
         user : Referrers, ref : Codes \cup {"none", "circle"}, status : {"pending", "claimed"}]
Streaks == [current : 0 .. MaxStreak, longest : 0 .. MaxStreak, recent : BOOLEAN, tier : 0 .. 3]
ClaimFrames == [pc : {"idle", "start", "insert", "code", "check", "complete", "bonus", "grant",
                 "claim", "update", "create"},
           op : {"none", "generate", "apply", "completion", "match", "record", "streakbonus",
                 "first", "claim"},
           user : Referrers \cup {"none"}, ref : Codes \cup {"none", "circle"},
           row : Referrals \cup {NoReferral}, streak : Streaks, id : Ids \cup {0}]

(* The rows of the three tables and the frames have their types. *)
IncentivesTypeOK ==
    /\ referrals \in [Codes -> Referrals \cup {NoReferral}]
    /\ incentives \in [Ids -> IncentiveRows \cup {NoIncentive}]
    /\ streak \in Streaks
    /\ claim \in [Claimants -> ClaimFrames]

(* However many requests apply the same code at once, its referrer earns   *)
(* one bonus for it, and none before it is completed: UpdateReferralStatus *)
(* lets one of them through, and the checks before it, made on a row that  *)
(* may be stale, decide nothing.                                           *)
ReferralPaidOnce ==
    \A c \in Codes :
      LET paid == {i \in Ids : incentives[i].type = "referral" /\ incentives[i].ref = c} IN
      /\ \A i, j \in paid : i = j
      /\ paid # {} => referrals[c].status = "completed"

(* RecordContribution writes a row whose tier is that of its current       *)
(* streak and whose longest streak is not below it, though concurrent      *)
(* calls overwrite each other's row.                                       *)
StreakRowCoherent ==
    streak # NoStreak => /\ streak.longest >= streak.current
                         /\ streak.tier = tier(streak.current)

(* What the code keeps between its steps, on which the two properties rest. *)
(* A code has one payer at a time: the request that turned it to completed, *)
(* until the bonus is there.  Every frame knows whom it acts for, and a     *)
(* request that applies a code works on a row that was read; one that       *)
(* claims, on a grant that is there; one that continues a streak, on a      *)
(* coherent one.                                                            *)
Paying(r, c) == At(r, "apply", "bonus") /\ claim[r].ref = c
Paid(i, c) == incentives[i].type = "referral" /\ incentives[i].ref = c
OnePayer ==
    \A c \in Codes :
      /\ \A i, j \in Ids : Paid(i, c) /\ Paid(j, c) => i = j
      /\ \A r, s \in Claimants : Paying(r, c) /\ Paying(s, c) => r = s
      /\ \A r \in Claimants, i \in Ids : ~(Paying(r, c) /\ Paid(i, c))
      /\ (\E r \in Claimants : Paying(r, c)) \/ (\E i \in Ids : Paid(i, c))
            => referrals[c].status = "completed"
FramesKnow ==
    \A r \in Claimants :
      LET f == claim[r] IN
      /\ f.pc # "idle" => f.user \in Referrers
      /\ f.op = "apply" => f.ref \in Codes
      /\ f.op = "apply" /\ f.pc \in {"check", "complete", "bonus"} => f.row # NoReferral
      /\ f.pc = "claim" => f.id \in Ids /\ incentives[f.id] # NoIncentive
      /\ f.pc = "update" => f.streak.current >= 1 /\ f.streak.longest >= f.streak.current
IncentivesInv ==
    /\ IncentivesTypeOK /\ OnePayer /\ FramesKnow /\ StreakRowCoherent
    /\ streak # NoStreak => streak.current >= 1
=============================================================================
