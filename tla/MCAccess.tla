------------------------------ MODULE MCAccess -------------------------------
(* The components that decide who may do what: sessions, the second factor, the*)
(* row of a user, email accounts, signing keys and tokens, invites, and what a*)
(* reader of a circle sees.                                                 *)
(* A behaviour is about one part.  The variables of that part are held in   *)
(* v1, v2, ..., in the order the part declares them; those left over are 0. *)
EXTENDS TLC

CONSTANTS
  Requests,     \* requests, or replicas, that overlap
  Cleaners, Beside,  \* cleanup workers, and the requests that run beside them
  MaxIssued, MaxNonces,
  Owners, Passwords, Cadences, MinDigest, MaxDigest, DefaultDigest, MaxScore,
  MaxSecrets, MaxBatches, BatchSize, maxFailures, MaxExponent,
  Emails, MaxCodes, maxAttempts,
  Material, KidGiven, TTL, MaxTime, MaxFaults, MaxTokens, MaxAtOnce,
  Holders, MaxUses, HasExpiry, MaxUseCount,
  Readers, Pair, Trio, PageSize, MaxLimit, DefaultLimit, MaxContribs, MaxRounds, MaxDbErrors

VARIABLES part, v1, v2, v3, v4, v5, v6, v7, v8, v9, v10

(* Two usable signing keys and one whose public half is too short. *)
KeyPairs == <<[priv |-> "rsa4096", pub |-> "rsa4096"], [priv |-> "p256", pub |-> "p256"],
              [priv |-> "p384", pub |-> "rsa1024"]>>

Ss == INSTANCE Sessions WITH
  Logins <- Requests, Cleaners <- {}, MaxTokens <- MaxIssued, nonce <- v1, nonces <- v2,
  issued <- v3, live <- v4, index <- v5, barred <- v6, ended <- v7, call <- v8,
  sweep <- v9
Sw == INSTANCE Sessions WITH
  Logins <- Beside, MaxTokens <- MaxIssued, nonce <- v1, nonces <- v2, issued <- v3,
  live <- v4, index <- v5, barred <- v6, ended <- v7, call <- v8, sweep <- v9
Ua == INSTANCE UserAccount WITH Emails <- Owners,
  row <- v1, req <- v2, failures <- v3, lock <- v4, secrets <- v5, minted <- v6,
  confirmed <- v7, discarded <- v8, stale <- v9
Em == INSTANCE EmailAccount WITH
  Clients <- Requests, users <- v1, otp <- v2, sent <- v3, pending <- v4, change <- v5,
  call <- v6, proved <- v7
Cr == INSTANCE Credentials WITH
  Replicas <- Requests, conf <- v1, runbook <- v2, scraper <- v3, node <- v4,
  tokens <- v5, blocked <- v6, request <- v7, verdict <- v8, now <- v9, faults <- v10
Iv == INSTANCE Invites WITH
  invite <- v1, past <- v2, holding <- v3, accepted <- v4
Rd == INSTANCE CircleReads WITH
  Kinds <- {"snapshot"}, Users <- Pair, MaxContribs <- 1,
  db <- v1, frame <- v2, dbErrors <- v3
Ex == INSTANCE CircleReads WITH
  Kinds <- {"export"}, Users <- Pair, MaxRounds <- 1,
  db <- v1, frame <- v2, dbErrors <- v3
Ep == INSTANCE CircleReads WITH
  Kinds <- {"export"}, Users <- Pair, MaxContribs <- 0, MaxRounds <- 3,
  db <- v1, frame <- v2, dbErrors <- v3
Wk == INSTANCE CircleReads WITH
  Kinds <- {"walk"}, Users <- Trio, MaxContribs <- 0, MaxRounds <- 1,
  db <- v1, frame <- v2, dbErrors <- v3

slots == <<v1, v2, v3, v4, v5, v6, v7, v8, v9, v10>>

PartInit ==
  \/ part = "sessions" /\ Ss!SessionInit /\ v10 = 0
  \/ part = "cleanup" /\ Sw!SessionInit /\ v10 = 0
  \/ part = "factor" /\ Ua!FactorInit /\ v10 = 0
  \/ part = "profile" /\ (\E a \in Owners, p \in Passwords : Ua!RowInit(a, p)) /\ v3 = 0
     /\ v4 = 0 /\ v5 = 0 /\ v6 = 0 /\ v7 = 0 /\ v8 = 0 /\ v9 = 0 /\ v10 = 0
  \/ part = "mail" /\ Em!MailInit /\ v8 = 0 /\ v9 = 0 /\ v10 = 0
  \/ part = "keys" /\ Cr!CredInit
  \/ part = "invites" /\ Iv!InviteInit /\ v5 = 0 /\ v6 = 0 /\ v7 = 0 /\ v8 = 0 /\ v9 = 0
     /\ v10 = 0
  \/ /\ \/ part = "snapshot" /\ Rd!ReadsInit
        \/ part = "export" /\ Ex!ReadsInit
        \/ part = "payouts" /\ Ep!ReadsInit
        \/ part = "walk" /\ Wk!ReadsInit
     /\ v4 = 0 /\ v5 = 0 /\ v6 = 0 /\ v7 = 0 /\ v8 = 0 /\ v9 = 0 /\ v10 = 0

PartNext ==
  \/ part = "sessions" /\ Ss!SessionNext /\ UNCHANGED <<part, v10>>
  \/ part = "cleanup" /\ Sw!SessionNext /\ UNCHANGED <<part, v10>>
  \/ part = "factor" /\ Ua!FactorNext /\ UNCHANGED <<part, v10>>
  \/ part = "profile" /\ Ua!RowNext /\ UNCHANGED <<part, v3, v4, v5, v6, v7, v8, v9, v10>>
  \/ part = "mail" /\ Em!MailNext /\ UNCHANGED <<part, v8, v9, v10>>
  \/ part = "keys" /\ Cr!CredNext /\ UNCHANGED part
  \/ part = "invites" /\ Iv!InviteNext /\ UNCHANGED <<part, v5, v6, v7, v8, v9, v10>>
  \/ part = "snapshot" /\ Rd!ReadsNext /\ UNCHANGED <<part, v4, v5, v6, v7, v8, v9, v10>>
  \/ part = "export" /\ Ex!ReadsNext /\ UNCHANGED <<part, v4, v5, v6, v7, v8, v9, v10>>
  \/ part = "payouts" /\ Ep!ReadsNext /\ UNCHANGED <<part, v4, v5, v6, v7, v8, v9, v10>>
  \/ part = "walk" /\ Wk!ReadsNext /\ UNCHANGED <<part, v4, v5, v6, v7, v8, v9, v10>>

partVars == <<part, slots>>

PartSpec == PartInit /\ [][PartNext]_partVars

Symmetric == Permutations(Requests)

(* Every table, key, frame and counter of the components keeps its type. *)
PartsTypeOK ==
  /\ part = "sessions" => Ss!SessionTypeOK
  /\ part = "cleanup" => Sw!SessionTypeOK
  /\ part = "factor" => Ua!FactorTypeOK
  /\ part = "mail" => Em!MailTypeOK
  /\ part = "keys" => Cr!CredTypeOK
  /\ part = "invites" => Iv!InviteTypeOK
  /\ part = "snapshot" => Rd!ReadsTypeOK
  /\ part = "export" => Ex!ReadsTypeOK
  /\ part = "payouts" => Ep!ReadsTypeOK
  /\ part = "walk" => Wk!ReadsTypeOK

(* What was shut stays shut: once a logout has barred the user, no token   *)
(* issued before it passes the checks of Refresh, including those of a     *)
(* rotation in flight that the logout did not find in the index; and a     *)
(* lock of the second factor ends with time or with a right code of a      *)
(* request that was let through before it, never with a wrong one.         *)
BarsHold ==
  [][ /\ part = "sessions" => Ss!NotEnded
      /\ part = "factor" => Ua!KeepsLock ]_partVars

(* What stale copies of the row and expired codes may leave behind: the    *)
(* second factor in force was confirmed with a code and its recovery codes *)
(* were made for its secret; a used or replaced code, or the secret of a   *)
(* disabled factor, comes back only through a copy older than the row;     *)
(* digests that are on have a cadence within the bounds of the preferences *)
(* endpoint; an address was proved with a code, at registration or by      *)
(* VerifyNewEmail.                                                         *)
AccountSound ==
  /\ part = "factor" => Ua!FactorConfirmed
  /\ part = "profile" => Ua!DigestHasCadence
  /\ part = "mail" => Em!AddressProved

(* A credential is honoured for as long as it should be.  Through every    *)
(* order of restarts a replica accepts the admin key scrapers are told to  *)
(* use; it accepts what its own jwt service honours, tokens of the         *)
(* previous pair apart, and a rotation in steps refuses no live token; a   *)
(* token on the blocklist is refused for the rest of its life; the cleanup *)
(* worker drops only tokens whose session is gone or that were issued      *)
(* between its SCARD and its DEL; an invite's counter equals the           *)
(* acceptances answered with success, and a limit is exceeded only by      *)
(* requests that were under way at once.                                   *)
CredentialsHonoured ==
  /\ part = "keys" => Cr!ScrapeAccepted /\ Cr!VerifiersAgree /\ Cr!RevokedRefused
  /\ part = "cleanup" => Sw!PrunedAreDead
  /\ part = "invites" => Iv!UsesCounted /\ Iv!OveruseBounded

(* What a reader of a circle gets while it is being written: a snapshot at *)
(* REPEATABLE READ is one state that held during the request, with that    *)
(* state's balances; an export leaves a row out only when the table has    *)
(* more rows than the clamped page; a client that follows nextCursor to    *)
(* the end misses only members whose position another member shares.       *)
ReadsConsistent ==
  /\ part = "snapshot" => Rd!SnapshotOneState
  /\ part = "export" => Ex!ExportCutByClamp
  /\ part = "payouts" => Ep!ExportCutByClamp
  /\ part = "walk" => Wk!WalkCoversMembers
==============================================================================
