----------------------------- MODULE EmailAccount -----------------------------
(***************************************************************************)
(* Registration by e-mail and the two-step change of an account's e-mail.  *)
(* Both prove an address with a one-time code kept in Redis.  A wallet is  *)
(* derived from the address an account registered with, so accounts are    *)
(* indexed by that address.  A client may type any code; a code is a       *)
(* number, 0 is one that was never sent.                                   *)
(***************************************************************************)
EXTENDS Integers, FiniteSets

CONSTANTS
  Clients,      \* concurrent requests
  Emails,       \* e-mail addresses
  MaxCodes,     \* bound: codes sent to an address
  maxAttempts   \* wrong codes before a code is dropped: 5 in the code

VARIABLES
  users,     \* stored e-mail of the account of each wallet, None without account
  otp,       \* otp:code:<key>: the code and its failed attempts
  sent,      \* codes sent to each key
  pending,   \* pending:register:<address>
  change,    \* email-change:<user>: old and new address and OldVerified
  call,      \* requests: the handler, its step and what it holds
  proved     \* keys whose code was typed correctly

mailVars == <<users, otp, sent, pending, change, call, proved>>

(* HashEmail: what registration stores.  RequestEmailChange treats what is *)
(* stored as the current address, so codes are kept for both forms.        *)
HashEmail(a) == <<"sha256", a>>
Plain(a) == <<"plain", a>>
Keys == {Plain(a) : a \in Emails} \cup {HashEmail(a) : a \in Emails}
None == <<"none", "none">>

NoCode == [code |-> 0, attempts |-> 0]
NoChange == [old |-> None, new |-> None, oldVerified |-> FALSE]
Free == [op |-> "free", pc |-> "free", who |-> "none", key |-> None,
         code |-> 0, seen |-> NoCode, state |-> NoChange]
Entered(op, pc, who, key, code, state) ==
  [op |-> op, pc |-> pc, who |-> who, key |-> key, code |-> code, seen |-> NoCode, state |-> state]

MailInit ==
  /\ users = [w \in Emails |-> None] /\ otp = [k \in Keys |-> NoCode]
  /\ sent = [k \in Keys |-> 0] /\ pending = {}
  /\ change = [w \in Emails |-> NoChange] /\ call = [q \in Clients |-> Free] /\ proved = {}

Start(q, f) == call[q].pc = "free" /\ call' = [call EXCEPT ![q] = f]
Go(q, pc) == call' = [call EXCEPT ![q].pc = pc]
Finish(q) == call' = [call EXCEPT ![q] = Free]
-----------------------------------------------------------------------------
(* SendOTP: refused while the resend key of an earlier code lives, which   *)
(* may be until any later time.                                            *)
SendOTP(k) ==
  /\ sent[k] < MaxCodes /\ sent' = [sent EXCEPT ![k] = @ + 1]
  /\ otp' = [otp EXCEPT ![k] = [code |-> sent[k] + 1, attempts |-> 0]]
TooSoon(k) == sent[k] > 0 /\ UNCHANGED <<otp, sent>>

(* VerifyOTP reads the code, then deletes it or writes it back with one    *)
(* more attempt; another request may come between.                         *)
ReadOTPLate(q) ==  \* Mutated form: one attempt too many.
  /\ call[q].pc = "read"
  /\ LET seen == otp[call[q].key] IN
     \/ seen = NoCode /\ Finish(q) /\ UNCHANGED otp
     \/ /\ seen # NoCode /\ seen.attempts > maxAttempts /\ Finish(q)
        /\ otp' = [otp EXCEPT ![call[q].key] = NoCode]
     \/ /\ seen # NoCode /\ seen.attempts <= maxAttempts /\ UNCHANGED otp
        /\ call' = [call EXCEPT ![q] = [@ EXCEPT !.pc = "answer", !.seen = seen]]
  /\ UNCHANGED <<users, sent, pending, change, proved>>
ReadOTP(q) ==
  /\ call[q].pc = "read"
  /\ LET seen == otp[call[q].key] IN
     \/ seen = NoCode /\ Finish(q) /\ UNCHANGED otp
     \/ /\ seen # NoCode /\ seen.attempts >= maxAttempts /\ Finish(q)
        /\ otp' = [otp EXCEPT ![call[q].key] = NoCode]
     \/ /\ seen # NoCode /\ seen.attempts < maxAttempts /\ UNCHANGED otp
        /\ call' = [call EXCEPT ![q] = [@ EXCEPT !.pc = "answer", !.seen = seen]]
  /\ UNCHANGED <<users, sent, pending, change, proved>>

VerifyOTP(q) ==
  LET f == call[q] IN
  /\ f.pc = "answer"
  /\ IF f.code = f.seen.code
     THEN otp' = [otp EXCEPT ![f.key] = NoCode] /\ Go(q, "valid") /\ proved' = proved \cup {f.key}
     ELSE otp' = [otp EXCEPT ![f.key] = [f.seen EXCEPT !.attempts = @ + 1]] /\ Finish(q)
          /\ UNCHANGED proved
  /\ UNCHANGED <<users, sent, pending, change>>

(* otpTTL, the pending registration and the change expire. *)
Expire ==
  /\ \/ \E k \in Keys : otp[k] # NoCode /\ otp' = [otp EXCEPT ![k] = NoCode]
                        /\ UNCHANGED <<pending, change>>
     \/ \E a \in pending : pending' = pending \ {a} /\ UNCHANGED <<otp, change>>
     \/ \E w \in Emails : change[w] # NoChange /\ change' = [change EXCEPT ![w] = NoChange]
                          /\ UNCHANGED <<otp, pending>>
  /\ UNCHANGED <<users, sent, call, proved>>
-----------------------------------------------------------------------------
(* Register: the pending registration is stored even if no code can be     *)
(* sent.                                                                   *)
Register(a) ==
  /\ users[a] = None /\ pending' = pending \cup {a}
  /\ SendOTP(Plain(a)) \/ TooSoon(Plain(a))
  /\ UNCHANGED <<users, change, call, proved>>

RegisterVerify(q, a, code) ==
  Start(q, Entered("register", "read", a, Plain(a), code, NoChange))
  /\ UNCHANGED <<users, otp, sent, pending, change, proved>>

(* GetPendingRegistration, Create, DeletePendingRegistration.  The wallet  *)
(* and the e-mail columns are unique.                                      *)
Create(w, stored) ==
  IF users[w] = None /\ \A v \in Emails : users[v] # stored
  THEN users' = [users EXCEPT ![w] = stored] ELSE UNCHANGED users
Registered(q) ==
  LET a == call[q].who IN
  /\ call[q].op = "register" /\ call[q].pc = "valid" /\ Finish(q)
  /\ IF a \in pending THEN Create(a, HashEmail(a)) ELSE UNCHANGED users
  /\ pending' = IF users' # users THEN pending \ {a} ELSE pending
  /\ UNCHANGED <<otp, sent, change, proved>>
-----------------------------------------------------------------------------
FindByEmail(a) == {w \in Emails : users[w] = HashEmail(a)}
IsEmailTaken(a) == FindByEmail(a) # {}

(* RequestEmailChange: a code is sent to what is stored; when it cannot be *)
(* sent the change is dropped.                                             *)
RequestEmailChange(w, b) ==
  /\ users[w] # None /\ users[w] # Plain(b) /\ ~IsEmailTaken(b)
  /\ \/ /\ SendOTP(users[w])
        /\ change' = [change EXCEPT ![w] = [old |-> users[w], new |-> Plain(b), oldVerified |-> FALSE]]
     \/ TooSoon(users[w]) /\ change' = [change EXCEPT ![w] = NoChange]
  /\ UNCHANGED <<users, pending, call, proved>>

(* loadState: the handler keeps the state it loaded. *)
loadState(q, op, w, key, code) ==
  /\ change[w] # NoChange /\ Start(q, Entered(op, "read", w, key, code, change[w]))
  /\ UNCHANGED <<users, otp, sent, pending, change, proved>>

VerifyCurrentEmail(q, w, code) == loadState(q, "current", w, change[w].old, code)
CurrentVerified(q) ==
  LET f == call[q] IN
  /\ f.op = "current" /\ f.pc = "valid" /\ Finish(q)
  /\ change' = [change EXCEPT ![f.who] = [f.state EXCEPT !.oldVerified = TRUE]]
  /\ SendOTP(f.state.new) \/ TooSoon(f.state.new)
  /\ UNCHANGED <<users, pending, proved>>

VerifyNewEmail(q, w, code) == change[w].oldVerified /\ loadState(q, "new", w, change[w].new, code)

(* VerifyNewEmail: GetByID must still find the old address.  The row it    *)
(* loaded is written with the new one as it was typed, whatever the row    *)
(* holds by then; a taken address is refused by the unique column.         *)
NewVerified(q) ==
  LET f == call[q] IN
  /\ f.op = "new" /\ f.pc = "valid"
  /\ IF users[f.who] = f.state.old THEN Go(q, "write") ELSE Finish(q)
  /\ UNCHANGED <<users, otp, sent, pending, change, proved>>
NewWritten(q) ==
  LET f == call[q]
      free == \A v \in Emails \ {f.who} : users[v] # f.state.new
  IN  /\ f.pc = "write" /\ Finish(q)
      /\ users' = IF free THEN [users EXCEPT ![f.who] = f.state.new] ELSE users
      /\ change' = IF free THEN [change EXCEPT ![f.who] = NoChange] ELSE change
      /\ UNCHANGED <<otp, sent, pending, proved>>

MailNext ==
  \/ Expire
  \/ \E a \in Emails : Register(a) \/ \E b \in Emails : RequestEmailChange(a, b)
  \/ \E q \in Clients :
       \/ ReadOTP(q) \/ VerifyOTP(q) \/ Registered(q) \/ CurrentVerified(q)
       \/ NewVerified(q) \/ NewWritten(q)
       \/ \E a \in Emails, code \in 0..MaxCodes :
            \/ RegisterVerify(q, a, code) \/ VerifyCurrentEmail(q, a, code) \/ VerifyNewEmail(q, a, code)

MailSpec == MailInit /\ [][MailNext]_mailVars
-----------------------------------------------------------------------------
(* Types of the rows, the Redis keys and the requests' frames. *)
MailTypeOK ==
  /\ users \in [Emails -> Keys \cup {None}] /\ pending \subseteq Emails
  /\ \A k \in Keys : otp[k].code \in 0..MaxCodes /\ otp[k].attempts \in 0..maxAttempts
  /\ \A w \in Emails : change[w].old \in Keys \cup {None} /\ change[w].new \in Keys \cup {None}

(* An account only ever holds an address a code of which was typed: the    *)
(* one it registered with, or a new one confirmed by VerifyNewEmail.       *)
AddressProved == \A w \in Emails :
  \/ users[w] = None
  \/ users[w] = HashEmail(w) /\ Plain(w) \in proved
  \/ users[w] \in proved /\ HashEmail(w) \in proved
=============================================================================
