------------------------------- MODULE Sessions -------------------------------
(***************************************************************************)
(* Wallet login, refresh-token rotation, logout, revocation and the        *)
(* cleanup worker, for one user.  Refresh tokens are numbered in the order *)
(* they are issued.  Redis commands are atomic, a MULTI or pipeline of     *)
(* deletes is one step, and requests interleave between commands.          *)
(***************************************************************************)
EXTENDS Integers, FiniteSets

CONSTANTS
  Logins,     \* concurrent requests
  Cleaners,   \* replicas running the cleanup job
  MaxTokens,  \* bound: refresh tokens issued
  MaxNonces   \* bound: nonces generated

VARIABLES
  nonce,    \* nonce:<wallet>, 0 when absent
  nonces,   \* nonces generated
  issued,   \* refresh tokens issued
  live,     \* tokens with a session key
  index,    \* user:sessions:<id>
  barred,   \* refresh:blocklist:<id> is set
  ended,    \* tokens issued when the last logout barred the user
  call,     \* requests
  sweep     \* the cleanup worker holding the lock: its step, the members it read,
            \* and the tokens issued when it counted the index

sessionVars == <<nonce, nonces, issued, live, index, barred, ended, call, sweep>>
redis == <<live, index, barred>>

Free == [op |-> "free", pc |-> "free", tok |-> 0, seen |-> {}]
NoSweep == [pc |-> "off", members |-> {}, upto |-> 0]

SessionInit ==
  /\ nonce = 0 /\ nonces = 0 /\ issued = 0 /\ live = {} /\ index = {} /\ barred = FALSE
  /\ ended = {} /\ call = [q \in Logins |-> Free] /\ sweep = NoSweep

Start(q, op, pc, tok) ==
  call[q].pc = "free" /\ call' = [call EXCEPT ![q] = [op |-> op, pc |-> pc, tok |-> tok, seen |-> {}]]
Go(q, pc) == call' = [call EXCEPT ![q].pc = pc]
Finish(q) == call' = [call EXCEPT ![q] = Free]

(* session.Create: one MULTI with the session key and the index.           *)
Create == issued < MaxTokens /\ issued' = issued + 1
          /\ live' = live \cup {issued + 1} /\ index' = index \cup {issued + 1}
-----------------------------------------------------------------------------
(* Nonce: Generate overwrites the wallet's nonce. *)
Generate == nonces < MaxNonces /\ nonces' = nonces + 1 /\ nonce' = nonces + 1
            /\ UNCHANGED <<redis, issued, ended, call, sweep>>

(* Verify: the nonce is read, the signature checked, the nonce deleted, the *)
(* session created.  tok holds the nonce that was read.                     *)
Verify(q) == /\ nonce # 0 /\ Start(q, "login", "spend", nonce)
             /\ UNCHANGED <<redis, nonce, nonces, issued, ended, sweep>>
SpendNonce(q) ==
  /\ call[q].pc = "spend"
  /\ \/ Go(q, "create") /\ nonce' = 0
     \/ Finish(q) /\ UNCHANGED nonce  \* the signature is of another nonce
  /\ UNCHANGED <<redis, nonces, issued, ended, sweep>>
CreateSession(q) == /\ call[q].op = "login" /\ call[q].pc = "create" /\ Create /\ Finish(q)
                    /\ UNCHANGED <<barred, nonce, nonces, ended, sweep>>
-----------------------------------------------------------------------------
(* Refresh: the session is read, the user's blocklist is checked, then the *)
(* new session is created and the old one is given a grace period (it may  *)
(* expire at any time in the model, so Expire has no effect here).         *)
Refresh(q, t) == /\ t \in live /\ Start(q, "refresh", "check", t)
                 /\ UNCHANGED <<redis, nonce, nonces, issued, ended, sweep>>
CheckBlocklist(q) ==
  /\ call[q].pc = "check"
  /\ IF barred THEN live' = live \ {call[q].tok} /\ Finish(q)
               ELSE UNCHANGED live /\ Go(q, "create")
  /\ UNCHANGED <<index, barred, nonce, nonces, issued, ended, sweep>>
Rotate(q) == /\ call[q].op = "refresh" /\ call[q].pc = "create" /\ Create /\ Finish(q)
             /\ UNCHANGED <<barred, nonce, nonces, ended, sweep>>
-----------------------------------------------------------------------------
(* Logout: the members of the index are read, their sessions and the index *)
(* deleted, the user barred for seven days; then the session of a refresh  *)
(* token in the body (tok, 0 without) is deleted.  Each command may fail;  *)
(* the handler goes on and answers success.                                *)
Logout(q, t) == /\ t \in 0..issued /\ Start(q, "logout", "read", t)
                /\ UNCHANGED <<redis, nonce, nonces, issued, ended, sweep>>
ReadMembers(q) ==
  /\ call[q].pc = "read"
  /\ \/ call' = [call EXCEPT ![q] = [@ EXCEPT !.pc = "drop", !.seen = index]]
     \/ call[q].op = "logout" /\ Go(q, "bar")
     \/ call[q].op = "revokeall" /\ Finish(q)
  /\ UNCHANGED <<redis, nonce, nonces, issued, ended, sweep>>
DropSessions(q) ==
  /\ call[q].op = "logout" /\ call[q].pc = "drop" /\ Go(q, "bar")
  /\ \/ live' = live \ call[q].seen /\ index' = {}
     \/ UNCHANGED <<live, index>>
  /\ UNCHANGED <<barred, nonce, nonces, issued, ended, sweep>>

NoBlocklist(q) ==  \* Mutated form: the sessions found are all there is to end.
  /\ call[q].pc = "bar" /\ Go(q, "last") /\ ended' = 1..issued
  /\ UNCHANGED <<redis, nonce, nonces, issued, sweep>>
(* A SET that fails is only logged. *)
BlocklistUserRefreshTokens(q) ==
  /\ call[q].pc = "bar" /\ Go(q, "last")
  /\ \/ barred' = TRUE /\ ended' = 1..issued
     \/ UNCHANGED <<barred, ended>>
  /\ UNCHANGED <<live, index, nonce, nonces, issued, sweep>>
DropGiven(q) == /\ call[q].pc = "last" /\ Finish(q) /\ live' \in {live, live \ {call[q].tok}}
                /\ UNCHANGED <<index, barred, nonce, nonces, issued, ended, sweep>>

(* RevokeAll, after a changed password: every session of the index.  The   *)
(* hash kept back is the access token's, so it matches no refresh token;   *)
(* it is put back into the index as 0.                                     *)
RevokeAll(q) == /\ Start(q, "revokeall", "read", 0)
                /\ UNCHANGED <<redis, nonce, nonces, issued, ended, sweep>>
DropAll(q) ==
  /\ call[q].op = "revokeall" /\ call[q].pc = "drop" /\ Finish(q)
  /\ live' = live \ call[q].seen /\ index' = {0}
  /\ UNCHANGED <<barred, nonce, nonces, issued, ended, sweep>>

RevokeSessionByID(t) == /\ t \in live \cup index /\ live' = live \ {t} /\ index' = index \ {t}
                        /\ UNCHANGED <<barred, nonce, nonces, issued, ended, call, sweep>>
-----------------------------------------------------------------------------
(* Keys expire.  A session lives at most as long as the blocklist (seven   *)
(* days) and no request lasts that long, so the blocklist outlives what    *)
(* was issued before it; the index lives only as long as an access token.  *)
Outlived == live \cap ended = {} /\ \A q \in Logins : call[q].op = "refresh" => call[q].tok \notin ended
Expire ==
  /\ \/ \E t \in live : live' = live \ {t} /\ UNCHANGED <<index, barred, nonce>>
     \/ index # {} /\ index' = {} /\ UNCHANGED <<live, barred, nonce>>
     \/ barred /\ Outlived /\ barred' = FALSE /\ UNCHANGED <<live, index, nonce>>
     \/ nonce # 0 /\ nonce' = 0 /\ UNCHANGED <<live, index, barred>>
  /\ UNCHANGED <<nonces, issued, ended, call, sweep>>

(* pruneSet: SMEMBERS, a pipeline of EXISTS, SREM, SCARD and DEL.  RunOnce *)
(* takes the lock with SETNX; one sweep at a time is modelled.             *)
RunOnce == /\ Cleaners # {} /\ sweep.pc = "off" /\ index # {} /\ sweep' = [NoSweep EXCEPT !.pc = "exists", !.members = index]
           /\ UNCHANGED <<redis, nonce, nonces, issued, ended, call>>
Exists ==
  /\ sweep.pc = "exists"
  /\ LET dangling == sweep.members \ live IN
     sweep' = IF dangling = {} THEN NoSweep ELSE [NoSweep EXCEPT !.pc = "srem", !.members = dangling]
  /\ UNCHANGED <<redis, nonce, nonces, issued, ended, call>>
SRem == /\ sweep.pc = "srem" /\ index' = index \ sweep.members
        /\ sweep' = [sweep EXCEPT !.pc = "scard"]
        /\ UNCHANGED <<live, barred, nonce, nonces, issued, ended, call>>
SCard == /\ sweep.pc = "scard"
         /\ sweep' = IF index = {} THEN [NoSweep EXCEPT !.pc = "del", !.upto = issued] ELSE NoSweep
         /\ UNCHANGED <<redis, nonce, nonces, issued, ended, call>>
Del == /\ sweep.pc = "del" /\ index' = {} /\ sweep' = NoSweep
       /\ UNCHANGED <<live, barred, nonce, nonces, issued, ended, call>>

SessionNext ==
  \/ Generate \/ Expire \/ RunOnce \/ Exists \/ SRem \/ SCard \/ Del
  \/ \E t \in 0..MaxTokens : RevokeSessionByID(t)
  \/ \E q \in Logins :
       \/ Verify(q) \/ SpendNonce(q) \/ CreateSession(q) \/ CheckBlocklist(q) \/ Rotate(q)
       \/ ReadMembers(q) \/ DropSessions(q) \/ BlocklistUserRefreshTokens(q) \/ DropGiven(q)
       \/ RevokeAll(q) \/ DropAll(q)
       \/ \E t \in 0..MaxTokens : Refresh(q, t) \/ Logout(q, t)

SessionSpec == SessionInit /\ [][SessionNext]_sessionVars
-----------------------------------------------------------------------------
(* Types of the Redis keys and the requests. *)
SessionTypeOK ==
  /\ nonce \in 0..MaxNonces /\ issued \in 0..MaxTokens /\ live \subseteq 1..issued
  /\ index \subseteq 0..issued /\ ended \subseteq 1..issued /\ barred \in BOOLEAN

(* Once a logout has barred the user (its SET did not fail), no token      *)
(* issued before it passes the checks of Refresh, including those of a     *)
(* rotation that was in flight and that the logout did not find.           *)
NotEnded ==
  \A q \in Logins :
    call[q].pc = "check" /\ call'[q].pc = "create" => call[q].tok \notin ended
LoggedOutStays == [][NotEnded]_sessionVars

(* Of the index, the cleanup worker's SREM drops only tokens whose session *)
(* is gone, and its DEL drops a live one only if it was issued after SCARD *)
(* had found the index empty.                                              *)
PrunedAreDead ==
  /\ sweep.pc = "srem" => sweep.members \cap live = {}
  /\ sweep.pc = "del" => \A t \in live \cap index : t > sweep.upto
=============================================================================
