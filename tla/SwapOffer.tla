------------------------------ MODULE SwapOffer ------------------------------
(***************************************************************************)
(* One escrowed swap offer: its swap_offers row, the escrow contract       *)
(* (external: a swap is locked until it is swapped or returned, and other  *)
(* calls fail), the API requests that create, accept and cancel it and the *)
(* replicas that sweep it once it expired.  The sweepers' Redis lock is    *)
(* left out: the claim on the row is to hold even when the lock is lost.   *)
(***************************************************************************)
EXTENDS Integers

CONSTANTS
  Requests,    \* API requests in flight
  Sweepers,    \* replicas running the sweep
  MaxErrors,   \* bound: escrow calls that fail without an effect
  MaxLost,     \* bound: escrow calls whose effect is reported as an error
  MaxDbErrors, \* bound: FinalizeSweep statements that fail
  MaxCrashes   \* bound: requests or sweepers that die half-way

ASSUME DisjointAssumption == Requests \cap Sweepers = {}
ASSUME BoundsAssumption == {MaxErrors, MaxLost, MaxDbErrors, MaxCrashes} \subseteq Nat

VARIABLES
  status,    \* swap_offers.status; "none" before the row exists
  escrow,    \* the contract's swap: "none", "locked", "swapped", "returned"
  expired,   \* expires_at has passed
  at,        \* where each request and each sweeper is
  errors, lost, dbErrors, crashes

vars == <<status, escrow, expired, at, errors, lost, dbErrors, crashes>>
bounds == <<errors, lost, dbErrors, crashes>>
Goto(p, where) == at' = [at EXCEPT ![p] = where]

Init ==
  /\ status = "none" /\ escrow = "none" /\ expired = FALSE
  /\ at = [p \in Requests \cup Sweepers |-> "idle"]
  /\ errors = 0 /\ lost = 0 /\ dbErrors = 0 /\ crashes = 0

(* A call of the escrow contract by p: it takes effect if the swap is as   *)
(* the call expects, and may fail, or fail only for the caller.            *)
Call(p, from, to, ok, failed) ==
  \/ escrow = from /\ escrow' = to /\ Goto(p, ok) /\ UNCHANGED bounds
  \/ escrow # from /\ UNCHANGED escrow /\ Goto(p, failed) /\ UNCHANGED bounds
  \/ /\ errors < MaxErrors /\ errors' = errors + 1
     /\ UNCHANGED escrow /\ Goto(p, failed)
     /\ UNCHANGED <<lost, dbErrors, crashes>>
  \/ /\ lost < MaxLost /\ lost' = lost + 1
     /\ escrow = from /\ escrow' = to /\ Goto(p, failed)
     /\ UNCHANGED <<errors, dbErrors, crashes>>
-----------------------------------------------------------------------------
(* CreateSwapOffer: the escrow is funded before the row is inserted. *)
CreateSwap(r) ==
  /\ at[r] = "idle" /\ status = "none" /\ escrow = "none"
  /\ Call(r, "none", "locked", "insert", "idle")
  /\ UNCHANGED <<status, expired>>

CreateSwapOffer(r) ==
  /\ at[r] = "insert" /\ status' = "created" /\ Goto(r, "idle")
  /\ UNCHANGED <<escrow, expired, bounds>>

(* AcceptSwapOffer: CompareAndSwapStatus, the contract, the final status. *)
AcceptRead(r) ==
  /\ at[r] = "idle" /\ status = "created" /\ ~expired
  /\ Goto(r, "acceptClaim")
  /\ UNCHANGED <<status, escrow, expired, bounds>>

AcceptClaim(r) ==
  /\ at[r] = "acceptClaim"
  /\ status' = IF status = "created" THEN "accepted" ELSE status
  /\ Goto(r, IF status = "created" THEN "acceptCall" ELSE "idle")
  /\ UNCHANGED <<escrow, expired, bounds>>

AcceptSwap(r) ==
  /\ at[r] = "acceptCall"
  /\ Call(r, "locked", "swapped", "acceptDone", "acceptUndo")
  /\ UNCHANGED <<status, expired>>

AcceptUndo(r) ==
  /\ at[r] = "acceptUndo"
  /\ status' = IF status = "accepted" THEN "created" ELSE status
  /\ Goto(r, "idle")
  /\ UNCHANGED <<escrow, expired, bounds>>

(* Mutated form: a status the column does not know. *)
AcceptDoneOther(r) ==
  /\ at[r] = "acceptDone" /\ status' = "completed" /\ Goto(r, "idle")
  /\ UNCHANGED <<escrow, expired, bounds>>

AcceptDone(r) ==
  /\ at[r] = "acceptDone" /\ status' = "accepted" /\ Goto(r, "idle")
  /\ UNCHANGED <<escrow, expired, bounds>>

(* CancelSwapOffer: no claim on the row; UpdateSwapOfferStatus is not      *)
(* conditional.                                                            *)
CancelRead(r) ==
  /\ at[r] = "idle" /\ status = "created"
  /\ Goto(r, "cancelCall")
  /\ UNCHANGED <<status, escrow, expired, bounds>>

CancelSwap(r) ==
  /\ at[r] = "cancelCall"
  /\ Call(r, "locked", "returned", "cancelDone", "idle")
  /\ UNCHANGED <<status, expired>>

CancelDone(r) ==
  /\ at[r] = "cancelDone" /\ status' = "cancelled" /\ Goto(r, "idle")
  /\ UNCHANGED <<escrow, expired, bounds>>
-----------------------------------------------------------------------------
(* SweepExpiredOffers: list, claim, release, finalize or hand back. *)
ListExpired(s) ==
  /\ at[s] = "idle" /\ status = "created" /\ expired
  /\ Goto(s, "claim")
  /\ UNCHANGED <<status, escrow, expired, bounds>>

(* Mutated form: the claim trusts the listing. *)
ClaimListed(s) ==
  /\ at[s] = "claim"
  /\ status' = "sweeping"
  /\ Goto(s, "release")
  /\ UNCHANGED <<escrow, expired, bounds>>

ClaimOfferForSweep(s) ==
  LET won == status = "created" /\ expired
  IN /\ at[s] = "claim"
     /\ status' = IF won THEN "sweeping" ELSE status
     /\ Goto(s, IF won THEN "release" ELSE "idle")
     /\ UNCHANGED <<escrow, expired, bounds>>

(* The offeror may also be unresolvable: the claim is handed back. *)
ReleaseExpiredOffer(s) ==
  /\ at[s] = "release"
  /\ Call(s, "locked", "returned", "finalize", "handBack")
  /\ UNCHANGED <<status, expired>>

(* Mutated form: a release that failed is finalized like one that worked. *)
FinalizeAnyway(s) ==
  /\ at[s] \in {"finalize", "handBack"}
  /\ status' = IF status = "sweeping" THEN "expired" ELSE status
  /\ Goto(s, "idle")
  /\ UNCHANGED <<escrow, expired, bounds>>

FinalizeSweep(s) ==
  /\ at[s] = "finalize"
  /\ \/ /\ status' = IF status = "sweeping" THEN "expired" ELSE status
        /\ Goto(s, IF status = "sweeping" THEN "idle" ELSE "handBack")
        /\ UNCHANGED dbErrors
     \/ /\ dbErrors < MaxDbErrors /\ dbErrors' = dbErrors + 1
        /\ Goto(s, "handBack") /\ UNCHANGED status
  /\ UNCHANGED <<escrow, expired, errors, lost, crashes>>

ReleaseSweepClaim(s) ==
  /\ at[s] = "handBack"
  /\ status' = IF status = "sweeping" THEN "created" ELSE status
  /\ Goto(s, "idle")
  /\ UNCHANGED <<escrow, expired, bounds>>
-----------------------------------------------------------------------------
Expire ==
  /\ ~expired /\ status # "none" /\ expired' = TRUE
  /\ UNCHANGED <<status, escrow, at, bounds>>

Crash(p) ==
  /\ at[p] # "idle" /\ crashes < MaxCrashes
  /\ crashes' = crashes + 1 /\ Goto(p, "idle")
  /\ UNCHANGED <<status, escrow, expired, errors, lost, dbErrors>>

Accepting(r) == AcceptClaim(r) \/ AcceptSwap(r) \/ AcceptUndo(r) \/ AcceptDone(r)
Cancelling(r) == CancelSwap(r) \/ CancelDone(r)
Ongoing(r) == CreateSwapOffer(r) \/ Accepting(r) \/ Cancelling(r)
Sweep(s) ==
  \/ ListExpired(s) \/ ClaimOfferForSweep(s) \/ ReleaseExpiredOffer(s)
  \/ FinalizeSweep(s) \/ ReleaseSweepClaim(s)

Next ==
  \/ \E r \in Requests : CreateSwap(r) \/ AcceptRead(r) \/ CancelRead(r) \/ Ongoing(r)
  \/ \E s \in Sweepers : Sweep(s)
  \/ \E p \in Requests \cup Sweepers : Crash(p)
  \/ Expire

Spec == Init /\ [][Next]_vars

(* A started request runs to its end, the sweepers' tickers fire, time     *)
(* passes; clients need not send requests.                                 *)
FairSpec ==
  /\ Spec /\ WF_vars(Expire)
  /\ \A r \in Requests : WF_vars(Ongoing(r))
  /\ \A s \in Sweepers : WF_vars(Sweep(s))
-----------------------------------------------------------------------------
Stage == {"idle", "insert", "acceptClaim", "acceptCall", "acceptUndo", "acceptDone",
          "cancelCall", "cancelDone", "claim", "release", "finalize", "handBack"}

(* The row, the contract and every process keep their types. *)
TypeOK ==
  /\ status \in {"none", "created", "accepted", "cancelled", "sweeping", "expired"}
  /\ escrow \in {"none", "locked", "swapped", "returned"}
  /\ {expired} \subseteq BOOLEAN
  /\ at \in [Requests \cup Sweepers -> Stage]
  /\ errors \in 0..MaxErrors /\ lost \in 0..MaxLost
  /\ dbErrors \in 0..MaxDbErrors /\ crashes \in 0..MaxCrashes

(* A row that says the offer is over without a swap has its escrow         *)
(* returned, whatever call failed, got lost or raced another.              *)
ClosedIsReturned == status \in {"cancelled", "expired"} => escrow = "returned"

(* The claim admits one sweeper at a time to the escrow calls.             *)
OneSweeperReleases ==
  \A s, t \in {p \in Sweepers : at[p] \in {"release", "finalize", "handBack"}} : s = t

(* An offer nobody takes is settled after it expires, also after a failed  *)
(* escrow call, as long as nothing crashes, no answer is lost and          *)
(* FinalizeSweep's statement works.                                        *)
Undisturbed == lost + dbErrors + crashes = 0
Open == status = "created" /\ Undisturbed
Closed == status \in {"accepted", "cancelled", "expired"} \/ ~Undisturbed
OfferSettles == Open ~> Closed
=============================================================================
