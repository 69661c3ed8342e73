------------------------------- MODULE Invites ------------------------------
(* Invite codes of circles (internal/domain/invite, invite_handler.go).  A     *)
(* code has a limit of uses and an expiry.  Validate only reads its row;       *)
(* Accept validates and then counts the use with a second statement that       *)
(* checks nothing again.  Several holders of one code overlap.                 *)
EXTENDS Naturals, FiniteSets

CONSTANTS Holders,    \* requests that present the code
          MaxUses,    \* the code's limit (0: unlimited)
          HasExpiry,  \* whether the code was made with a lifetime
          MaxUseCount \* bound: uses counted

VARIABLES invite,     \* the row: present, uses counted
          past,       \* whether the clock is past the code's expiry
          holding,    \* holder -> its step and the use count it read
          accepted    \* acceptances answered with success

inviteVars == <<invite, past, holding, accepted>>

InviteInit ==
    /\ invite = [present |-> FALSE, uses |-> 0] /\ past = FALSE
    /\ holding = [h \in Holders |-> [step |-> "idle", read |-> 0]]
    /\ accepted = 0

\* Generate: a fresh random code, unused; a revoked code is never made again.
Generate ==
    /\ ~invite.present /\ accepted = 0 /\ ~past
    /\ invite' = [present |-> TRUE, uses |-> 0]
    /\ UNCHANGED <<past, holding, accepted>>

\* The clock passes the code's expiry, if it has one.
Lapse ==
    /\ HasExpiry /\ ~past
    /\ past' = TRUE
    /\ UNCHANGED <<invite, holding, accepted>>

\* Validate: the row exists, has uses left, and has not expired.
Valid == /\ invite.present /\ ~past
         /\ MaxUses > 0 => invite.uses < MaxUses

\* Accept, first statement; an invalid code ends the request.
AcceptValidate(h) ==
    /\ holding[h].step = "idle" /\ Valid
    /\ holding' = [holding EXCEPT ![h] = [step |-> "count", read |-> invite.uses]]
    /\ UNCHANGED <<invite, past, accepted>>

\* use_count = use_count + 1, in the database.
UsesAfter(h) == invite.uses + 1

\* Accept, second statement (IncrementUse): no row is an error, and so is a
\* failing statement.
IncrementUse(h) ==
    /\ holding[h].step = "count" /\ invite.uses < MaxUseCount
    /\ \/ /\ invite.present
          /\ invite' = [invite EXCEPT !.uses = UsesAfter(h)]
          /\ accepted' = accepted + 1
       \/ UNCHANGED <<invite, accepted>>
    /\ holding' = [holding EXCEPT ![h] = [step |-> "idle", read |-> 0]]
    /\ UNCHANGED past

\* Revoke: the row is deleted, whatever is under way.
Revoke ==
    /\ invite.present
    /\ invite' = [invite EXCEPT !.present = FALSE]
    /\ UNCHANGED <<past, holding, accepted>>

InviteNext ==
    \/ Generate \/ Lapse \/ Revoke
    \/ \E h \in Holders : AcceptValidate(h) \/ IncrementUse(h)

InviteSpec == InviteInit /\ [][InviteNext]_inviteVars

InviteTypeOK ==
    /\ invite \in [present : BOOLEAN, uses : 0..MaxUseCount] /\ past \in BOOLEAN
    /\ holding \in [Holders -> [step : {"idle", "count"}, read : 0..MaxUseCount]]
    /\ accepted \in Nat

\* The use counter equals the acceptances that were answered with success,
\* however they overlap ("Increment use count atomically", invite/service.go
\* Accept and IncrementUse).
UsesCounted == invite.present => invite.uses = accepted

\* A code with a limit is over-used by fewer than the requests that can be
\* under way at once: validating and counting are two statements, so each of the
\* others may have validated the last use too, but none can start after it
\* (Validate, IncrementUse).
OveruseBounded ==
    MaxUses > 0 => accepted <= MaxUses + Cardinality(Holders) - 1
=============================================================================
