----------------------------- MODULE UserAccount -----------------------------
(***************************************************************************)
(* The users row of one account and the handlers that load it, change some *)
(* columns and write every column back (user.Repository.Update).  Requests *)
(* overlap, so the copy a handler writes back may be stale.                *)
(***************************************************************************)
EXTENDS Integers, FiniteSets, Sequences

CONSTANTS
  Requests,    \* concurrent requests of the account's owner
  Passwords,
  Emails,      \* e-mail addresses
  Cadences,    \* digest intervals a client may ask for, in and out of bounds
  MinDigest, MaxDigest, DefaultDigest,
  MaxScore     \* bound: moi_score

VARIABLES
  row,   \* the row
  req    \* frames: the step, the operation, its input, its copy of the row,
         \* and whether the row changed since it was loaded

rowVars == <<row, req>>

(* HashEmail: what is stored for an address. *)
HashEmail(a) == <<"sha256", a>>

NoInput == [how |-> "none", secret |-> 0, code |-> <<0, 0>>]
Frame(pc, op, input, copy) ==
  [pc |-> pc, op |-> op, input |-> input, copy |-> copy, old |-> FALSE]
Idle == Frame("idle", "none", NoInput, <<>>)

RowInit(email, password) ==
  /\ row = [email |-> HashEmail(email), verified |-> TRUE, password |-> password,
            secret |-> 0, enabled |-> FALSE, codes |-> {},
            digest |-> FALSE, interval |-> 0, score |-> 0]
  /\ req = [q \in Requests |-> Idle]

Load(q, f) == req[q].pc = "idle" /\ req' = [req EXCEPT ![q] = f]
-----------------------------------------------------------------------------
(* UpdateProfile: display name, phone, country, language and session TTL,  *)
(* none of which another handler reads; an e-mail in the body is refused.  *)
UpdateProfile(q) ==
  /\ Load(q, Frame("save", "profile", NoInput, row)) /\ UNCHANGED row

(* UpdateNotificationPreferences: both digest fields are optional. *)
UpdateNotificationPreferences(q, on, interval) ==
  LET kept == IF interval = 0 THEN row.interval ELSE interval
  IN  /\ interval = 0 \/ interval \in MinDigest..MaxDigest
      /\ Load(q, Frame("save", "prefs", NoInput,
                [row EXCEPT !.digest = on,
                            !.interval = IF on /\ kept = 0 THEN DefaultDigest ELSE kept]))
      /\ UNCHANGED row

(* ChangePassword: the old password is checked against the loaded row. *)
ChangePassword(q, old, new) ==
  /\ row.password = old
  /\ Load(q, Frame("save", "password", NoInput, [row EXCEPT !.password = new]))
  /\ UNCHANGED row

(* Repository.Update writes every column of the copy; the copies the other *)
(* requests hold are old from then on.                                     *)
Update(q) ==
  /\ req[q].pc = "save" /\ row' = req[q].copy
  /\ req' = [p \in Requests |->
               IF p = q THEN Idle
               ELSE [req[p] EXCEPT !.old = @ \/ (req[p].pc # "idle" /\ row' # row)]]

(* UpdateMoiScore, from the indexer, writes one column. *)
UpdateMoiScore(score) == row' = [row EXCEPT !.score = score] /\ UNCHANGED req

RowStep(q) ==
  \/ UpdateProfile(q) \/ Update(q)
  \/ \E on \in BOOLEAN, interval \in Cadences : UpdateNotificationPreferences(q, on, interval)
  \/ \E old, new \in Passwords : ChangePassword(q, old, new)
RowNext == (\E q \in Requests : RowStep(q)) \/ \E score \in 0..MaxScore : UpdateMoiScore(score)

(* A user with digests on has a cadence within the bounds the preferences  *)
(* endpoint reports, whatever stale copies were written in between.        *)
DigestHasCadence == row.digest => row.interval \in MinDigest..MaxDigest
-----------------------------------------------------------------------------
(***************************************************************************)
(* TOTP enrolment, step-up verification, recovery codes and the in-memory  *)
(* lockout, for one account on one server.  A request names the secret its *)
(* code was computed from (0: a wrong code) or a recovery code.  The       *)
(* handlers above write the same row.                                      *)
(***************************************************************************)
CONSTANTS
  MaxSecrets,   \* bound: secrets generated
  MaxBatches,   \* bound: sets of recovery codes generated
  BatchSize,    \* recovery codes of a set: 10 in the code
  maxFailures,  \* failures before a lockout: 5 in the code
  MaxExponent   \* doublings of the lockout: 6 in the code

VARIABLES
  failures,   \* attemptState.failures
  lock,       \* units of initialLockout until lockedUntil, 0 when not locked
  secrets,    \* secrets generated so far
  minted,     \* for each set of recovery codes, the secret it was made for
  confirmed,  \* secrets a code of which was accepted by EnableTOTP
  discarded,  \* recovery codes and secrets used up, replaced or removed so far
  stale       \* a copy was written that was older than the row

factorVars == <<rowVars, failures, lock, secrets, minted, confirmed, discarded, stale>>
memory == <<failures, lock>>
saved == <<row, discarded, stale>>
history == <<secrets, minted, confirmed>>

Batches == 1..MaxBatches
Codes(b) == {<<b, i>> : i \in 1..BatchSize}
AllCodes == UNION {Codes(b) : b \in Batches}
Inputs == {[how |-> "totp", secret |-> s, code |-> <<0, 0>>] : s \in 0..MaxSecrets}
          \cup {[how |-> "recovery", secret |-> 0, code |-> c] : c \in AllCodes}

FactorInit ==
  /\ \E a \in Emails, p \in Passwords : RowInit(a, p)
  /\ failures = 0 /\ lock = 0 /\ secrets = 0 /\ minted = <<>>
  /\ confirmed = {} /\ discarded = {} /\ stale = FALSE
-----------------------------------------------------------------------------
(* EnrollTOTP: a new secret, pending until it is confirmed. *)
EnrollTOTP(q) ==
  /\ ~row.enabled /\ secrets < MaxSecrets /\ secrets' = secrets + 1
  /\ Load(q, Frame("save", "enroll", NoInput,
            [row EXCEPT !.secret = secrets + 1, !.enabled = FALSE, !.codes = {}]))
  /\ UNCHANGED <<saved, memory, minted, confirmed>>

(* The other handlers load the user, then check a code.  Codes being minted *)
(* count against the bound.                                                 *)
Minting == Cardinality({q \in Requests : req[q].pc \in {"check", "match"}
                                          /\ req[q].op \in {"enable", "regenerate"}})
MayMint == Len(minted) + Minting < MaxBatches

challenge(q, op, input) ==
  /\ row.enabled /\ row.secret # 0 /\ Load(q, Frame("check", op, input, row))
  /\ UNCHANGED <<saved, memory, history>>

EnableTOTP(q, input) ==
  /\ ~row.enabled /\ row.secret # 0 /\ input.how = "totp" /\ MayMint
  /\ Load(q, Frame("check", "enable", input, row)) /\ UNCHANGED <<saved, memory, history>>
VerifyTOTP(q, input) == challenge(q, "verify", input)
DisableTOTP(q, input) == challenge(q, "disable", input)
RegenerateTOTPRecoveryCodes(q, input) ==
  input.how = "totp" /\ MayMint /\ challenge(q, "regenerate", input)

(* CheckAccount refuses while the lock is in force. *)
CheckAccount(q) ==
  /\ req[q].pc = "check"
  /\ req' = [req EXCEPT ![q] = IF lock > 0 THEN Idle ELSE [@ EXCEPT !.pc = "match"]]
  /\ UNCHANGED <<saved, memory, history>>

(* ValidateCodeAt and ValidateBackupCode, on the copy that was loaded. *)
ValidateCode(f) == f.input.how = "totp" /\ f.input.secret = f.copy.secret
ValidateBackupCode(f) == f.input.how = "recovery" /\ f.input.code \in f.copy.codes
Valid(f) == ValidateCode(f) \/ ValidateBackupCode(f)

(* RecordFailure: from the limit on every failure locks, for twice as long. *)
RecordFailure(q) ==
  LET n == failures + 1
      exponent == IF n - maxFailures > MaxExponent THEN MaxExponent ELSE n - maxFailures
  IN  /\ req[q].pc = "match" /\ ~Valid(req[q])
      \* Every count above the last doubling behaves alike.
      /\ failures' = IF n > maxFailures + MaxExponent THEN failures ELSE n
      /\ lock' = IF n >= maxFailures THEN 2^exponent ELSE lock
      /\ req' = [req EXCEPT ![q] = Idle] /\ UNCHANGED <<saved, history>>

(* The code is right: ResetAccount, and the handler changes its copy. *)
ResetAccount(q, op) ==
  req[q].pc = "match" /\ req[q].op = op /\ Valid(req[q]) /\ failures' = 0 /\ lock' = 0
ToSave(q, copy) == req' = [req EXCEPT ![q] = [@ EXCEPT !.pc = "save", !.copy = copy]]
GenerateBackupCodes == Codes(Len(minted) + 1)

EnabledByColumns(q) ==  \* Mutated form: only the flag and the codes are taken from this request.
  LET f == req[q] IN
  /\ ResetAccount(q, "enable") /\ minted' = Append(minted, f.copy.secret)
  /\ confirmed' = confirmed \cup {f.copy.secret}
  /\ ToSave(q, [row EXCEPT !.enabled = TRUE, !.codes = GenerateBackupCodes])
  /\ UNCHANGED <<saved, secrets>>
Enabled(q) ==
  LET f == req[q] IN
  /\ ResetAccount(q, "enable") /\ minted' = Append(minted, f.copy.secret)
  /\ confirmed' = confirmed \cup {f.copy.secret}
  /\ ToSave(q, [f.copy EXCEPT !.enabled = TRUE, !.codes = GenerateBackupCodes])
  /\ UNCHANGED <<saved, secrets>>

Verified(q) ==
  /\ ResetAccount(q, "verify")
  /\ IF req[q].input.how = "recovery"
     THEN ToSave(q, [req[q].copy EXCEPT !.codes = @ \ {req[q].input.code}])
     ELSE req' = [req EXCEPT ![q] = Idle]
  /\ UNCHANGED <<saved, history>>

Disabled(q) ==
  /\ ResetAccount(q, "disable")
  /\ ToSave(q, [req[q].copy EXCEPT !.enabled = FALSE, !.secret = 0, !.codes = {}])
  /\ UNCHANGED <<saved, history>>

Regenerated(q) ==
  /\ ResetAccount(q, "regenerate") /\ minted' = Append(minted, req[q].copy.secret)
  /\ ToSave(q, [req[q].copy EXCEPT !.codes = GenerateBackupCodes])
  /\ UNCHANGED <<saved, secrets, confirmed>>

(* The copy is written by Update.  What the row holds and the copy does not *)
(* is discarded, and so is a recovery code that was used.  A profile update *)
(* stands for the handlers of the row: to these columns they do the same.   *)
Held(r) == r.codes \cup {<<s, 0>> : s \in {r.secret} \ {0}}
Write(q) ==
  LET f == req[q] IN
  /\ \/ /\ Update(q) /\ stale' = (stale \/ f.old)
        \* Nothing is claimed of what was discarded after a stale write.
        /\ discarded' = IF stale' THEN {}
                        ELSE discarded \cup (Held(row) \ Held(f.copy))
                             \cup (IF f.input.how = "recovery" THEN {f.input.code} ELSE {})
     \/ UpdateProfile(q) /\ UNCHANGED <<discarded, stale>>
  /\ UNCHANGED <<memory, history>>
TimePasses == lock > 0 /\ lock' = lock - 1 /\ UNCHANGED <<req, saved, failures, history>>

FactorNext ==
  \/ \E q \in Requests :
       \/ EnrollTOTP(q) \/ CheckAccount(q) \/ RecordFailure(q) \/ Write(q)
       \/ Enabled(q) \/ Verified(q) \/ Disabled(q) \/ Regenerated(q)
       \/ \E input \in Inputs : \/ EnableTOTP(q, input) \/ VerifyTOTP(q, input)
                                \/ DisableTOTP(q, input) \/ RegenerateTOTPRecoveryCodes(q, input)
  \/ TimePasses

FactorSpec == FactorInit /\ [][FactorNext]_factorVars
-----------------------------------------------------------------------------
FactorTypeOK ==
  /\ row.secret \in 0..MaxSecrets /\ row.enabled \in BOOLEAN /\ row.codes \subseteq AllCodes
  /\ failures \in 0..(maxFailures + MaxExponent) /\ lock \in 0..2^MaxExponent
  /\ \A q \in Requests : req[q].pc \in {"idle", "check", "match", "save"}

(* The second factor in force is one whose secret was confirmed with a     *)
(* code, and its recovery codes were made for that secret, although        *)
(* enrolments, rotations and profile updates overwrite each other's row.   *)
(* A used or replaced recovery code, or the secret of a disabled factor,   *)
(* is back in the row only after a request wrote a copy it had loaded      *)
(* before another request changed the row.                                 *)
FactorConfirmed ==
  /\ row.enabled => /\ row.secret \in confirmed
                    /\ \A c \in row.codes : minted[c[1]] = row.secret
  /\ ~stale => Held(row) \cap discarded = {}

(* A lock in force ends with time or with a right code of a request that   *)
(* was let through before it; a further wrong code never shortens it.      *)
KeepsLock == lock' < lock => failures' = 0 \/ (lock' = lock - 1 /\ UNCHANGED req)
LockHolds == [][KeepsLock]_factorVars
=============================================================================
