-------------------------- MODULE MCCircleService --------------------------
(* Three instances of CircleService for TLC, told apart by part: two        *)
(* handlers that interleave freely over one round, one handler next to the  *)
(* contract events over two rounds, and one next to all of them, disputes   *)
(* and totals included, over one.  A handler's identity is never read, so   *)
(* the handlers are symmetric; the organizer is not like other users.       *)
EXTENDS CircleService, TLC

CONSTANTS org, ann, h1, h2

VARIABLE part

Races == INSTANCE CircleService WITH Disputers <- {}, Rounds <- {1}, MaxEventTotal <- 0
Replays == INSTANCE CircleService WITH Handlers <- {h1}, Disputers <- {}, MaxEventTotal <- 0
Disputing == INSTANCE CircleService WITH Handlers <- {h1}, Rounds <- {1}

PartInit == Init /\ part \in {"races", "events", "disputes"}

PartNext ==
    /\ \/ part = "races" /\ Races!Next
       \/ part = "events" /\ Replays!Next
       \/ part = "disputes" /\ Disputing!Next
    /\ UNCHANGED part

PartSpec == PartInit /\ [][PartNext]_<<vars, part>>

Symmetric == Permutations({h1, h2})
=============================================================================
