-------------------------------- MODULE Chat --------------------------------
(***************************************************************************)
(* internal/domain/chat: the key server of the X3DH handshake, and the     *)
(* conversations between two users with their numbered messages.  Requests *)
(* of several clients interleave between statements.                       *)
(*                                                                         *)
(* Keys.  The three writes of PublishKeys and the reads of GetBundle are   *)
(* statements that commit on their own; the claim of a one-time prekey is  *)
(* a transaction that holds the row's lock until it commits.  A public key *)
(* is stored as the text that was sent: `gen` is the generation of the     *)
(* Owner's client that made the pair, and the text is `fit` when it        *)
(* decodes to an X25519 key, which the server never looks at.  A name      *)
(* stands for the key pair, and a Diffie-Hellman value for the set of the  *)
(* two names it combines.                                                  *)
(*                                                                         *)
(* Messages.  CreateMessage is a transaction that holds the conversation's *)
(* row from its lock to its commit; the other statements commit on their   *)
(* own.  The envelope (ciphertext, nonce, handshake fields) is opaque to   *)
(* the server: a message is its number and sender.                         *)
(***************************************************************************)
EXTENDS Integers, Sequences, FiniteSets, FiniteSetsExt

CONSTANTS Clients,     \* concurrent requests
          KeyIds,      \* ids of signed and of one-time prekeys
          Pools,       \* the sets of one-time prekey ids a client sends
          MaxGen,      \* generations of the Owner's keys
          MaxBundles,  \* bundles given out
          Users,       \* compared by <: integers stand for the UUIDs
          MaxMsgs, PageLimit, MaxDbErrors

VARIABLES identity, \* x3dh_identity_keys of the Owner: [gen, fit]
          signed,   \* x3dh_signed_prekeys: rows [id, key] in order of created_at
          opk,      \* x3dh_one_time_prekeys: id -> [key, used]
          opkLock,  \* id -> the client whose transaction holds the row
          handed,   \* history: id -> the bundles that carried it, 0: without a prekey
          gen,      \* the generation the Owner's client is at
          convs,    \* chat_conversations: the ordered pairs
          convLock, \* pair -> the client whose transaction holds the row
          messages, \* pair -> the rows of chat_messages in order of arrival
          req,      \* the frames
          dbErrors
keyVars == <<identity, signed, opk, opkLock, handed, gen>>
messageVars == <<convs, convLock, messages>>
chatKeyVars == <<keyVars, req, dbErrors>>
chatVars == <<messageVars, req, dbErrors>>

NoClient == "nobody"
NoPair == <<0, 0>>
NoKey == [gen |-> 0, fit |-> FALSE]
Idle == [pc |-> "idle", ik |-> NoKey, spk |-> NoKey, opk |-> NoKey, id |-> 0,
         user |-> 0, pair |-> NoPair, seq |-> 0, before |-> 0, seen |-> <<>>, had |-> 0]

At(c, l) == req[c].pc = l
Goto(c, l) == req' = [req EXCEPT ![c].pc = l]
Done(c) == req' = [req EXCEPT ![c] = Idle]
DbError == dbErrors < MaxDbErrors /\ dbErrors' = dbErrors + 1
Fails(c) == DbError /\ Done(c)

-----------------------------------------------------------------------------
NoRow == [key |-> NoKey, used |-> FALSE]
ChatKeysInit ==
    /\ identity = NoKey /\ signed = <<>> /\ gen = 0
    /\ opk = [k \in KeyIds |-> NoRow]
    /\ opkLock = [k \in KeyIds |-> NoClient]
    /\ handed = [k \in KeyIds \cup {0} |-> 0]
    /\ req = [c \in Clients |-> Idle]
    /\ dbErrors = 0

(* The service's three writes in order, each ending the request when it    *)
(* fails: identity key, signed prekey, pool.  One of the texts may be      *)
(* malformed: only an empty one is refused.                                *)
Texts == {"identity", "signed", "pool", "none"}
PublishFrame(g, sid, malformed) ==
    LET Key(t) == [gen |-> g, fit |-> t # malformed]
    IN [Idle EXCEPT !.pc = "identity", !.id = sid, !.ik = Key("identity"),
                    !.spk = Key("signed"), !.opk = Key("pool")]

(* PublishKeys: the Owner's client sends its next generation of keys, with *)
(* a signed prekey id of its choice, also while an earlier request of the  *)
(* Owner is still running.                                                 *)
PublishKeys(c) ==
    /\ At(c, "idle") /\ gen < MaxGen
    /\ gen' = gen + 1
    /\ \E sid \in KeyIds, t \in Texts :
         req' = [req EXCEPT ![c] = PublishFrame(gen + 1, sid, t)]
    /\ UNCHANGED <<identity, signed, opk, opkLock, handed, dbErrors>>

UpsertIdentityKey(c) ==
    /\ At(c, "identity")
    /\ \/ identity' = req[c].ik /\ Goto(c, "signed") /\ UNCHANGED dbErrors
       \/ Fails(c) /\ UNCHANGED identity
    /\ UNCHANGED <<signed, opk, opkLock, handed, gen>>

(* A known id has its key replaced and keeps its created_at. *)
UpsertSignedPreKey(c) ==
    /\ At(c, "signed")
    /\ LET row == [id |-> req[c].id, key |-> req[c].spk]
       IN \/ /\ signed' = IF \E i \in DOMAIN signed : signed[i].id = row.id
                          THEN [i \in DOMAIN signed |->
                                  IF signed[i].id = row.id THEN row ELSE signed[i]]
                          ELSE Append(signed, row)
             /\ Goto(c, "pool")
             /\ UNCHANGED dbErrors
          \/ Fails(c) /\ UNCHANGED signed
    /\ UNCHANGED <<identity, opk, opkLock, handed, gen>>

(* AddOneTimePreKeys, one transaction: an id that has a row keeps it. *)
AddOneTimePreKeys(c) ==
    /\ At(c, "pool")
    /\ \E ids \in Pools :
         opk' = [k \in KeyIds |->
                   IF k \in ids /\ opk[k] = NoRow
                   THEN [key |-> req[c].opk, used |-> FALSE] ELSE opk[k]]
    /\ \/ Done(c) /\ UNCHANGED dbErrors
       \/ Fails(c) /\ opk' = opk
    /\ UNCHANGED <<identity, signed, opkLock, handed, gen>>

(* GetBundle reads the identity key, then the newest signed prekey... *)
GetBundle(c) ==
    /\ At(c, "idle") /\ MapThenSumSet(LAMBDA k : handed[k], DOMAIN handed) < MaxBundles
    /\ IF identity = NoKey THEN Done(c)
       ELSE req' = [req EXCEPT ![c] = [Idle EXCEPT !.pc = "bundle", !.ik = identity]]
    /\ UNCHANGED <<keyVars, dbErrors>>

GetSignedPreKey(c) ==
    /\ At(c, "bundle")
    /\ IF signed = <<>> THEN Done(c)
       ELSE req' = [req EXCEPT ![c].pc = "claim", ![c].spk = signed[Len(signed)].key]
    /\ UNCHANGED <<keyVars, dbErrors>>

(* ... and claims the first unused row no other transaction holds... *)
Claimable == {k \in KeyIds : /\ opk[k] # NoRow /\ ~opk[k].used
                             /\ opkLock[k] = NoClient}
ClaimOneTimePreKey(c) ==
    /\ At(c, "claim")
    /\ \/ /\ Claimable # {}
          /\ opkLock' = [opkLock EXCEPT ![Min(Claimable)] = c]
          /\ req' = [req EXCEPT ![c].pc = "commit", ![c].id = Min(Claimable)]
          /\ UNCHANGED dbErrors
       \/ Claimable = {} /\ Goto(c, "commit") /\ UNCHANGED <<opkLock, dbErrors>>
       \/ Fails(c) /\ UNCHANGED opkLock
    /\ UNCHANGED <<identity, signed, opk, handed, gen>>

(* ... which is used once the transaction commits.  The bundle goes out    *)
(* with no one-time prekey when none was left (id 0).                      *)
CommitClaim(c) ==
    /\ At(c, "commit")
    /\ LET id == req[c].id
       IN \/ /\ opk' = [k \in KeyIds |->
                          IF k = id THEN [opk[k] EXCEPT !.used = TRUE] ELSE opk[k]]
             /\ handed' = [handed EXCEPT ![id] = @ + 1]
             /\ req' = [req EXCEPT ![c].pc = "handed",
                                   ![c].opk = IF id = 0 THEN NoKey ELSE opk[id].key]
             /\ UNCHANGED dbErrors
          \/ Fails(c) /\ UNCHANGED <<opk, handed>>
    /\ opkLock' = [k \in KeyIds |-> IF opkLock[k] = c THEN NoClient ELSE opkLock[k]]
    /\ UNCHANGED <<identity, signed, gen>>

(* The initiator has used the bundle. *)
EndBundle(c) ==
    /\ At(c, "handed") /\ Done(c)
    /\ UNCHANGED <<keyVars, dbErrors>>

(***************************************************************************)
(* x3dh.go, on names.  "E" and "I" are the initiator's ephemeral and       *)
(* identity keys; the Owner's keys are <<kind, generation>>.               *)
(***************************************************************************)
ECDH(a, b) == {a, b}
deriveHKDF(secret) == secret

(* InitiateHandshake, from a bundle: a malformed identity key or signed    *)
(* prekey is an error, a malformed one-time prekey is left out silently.   *)
Refused == <<>>
InitiateHandshake(b) ==
    IF ~(b.ik.fit /\ b.spk.fit) THEN Refused
    ELSE deriveHKDF(<<ECDH(<<"I", 0>>, <<"SPK", b.spk.gen>>),
                      ECDH(<<"E", 0>>, <<"IK", b.ik.gen>>),
                      ECDH(<<"E", 0>>, <<"SPK", b.spk.gen>>)>>
                    \o IF b.id # 0 /\ b.opk.fit
                       THEN <<ECDH(<<"E", 0>>, <<"OPK", b.opk.gen>>)>> ELSE <<>>)

(* RespondToHandshake, with the key pairs the Owner chose, the one-time    *)
(* pair (0: none) by the id that the initiator's first message carries.    *)
RespondToHandshake(ik, spk, o) ==
    deriveHKDF(<<ECDH(<<"SPK", spk>>, <<"I", 0>>), ECDH(<<"IK", ik>>, <<"E", 0>>),
                 ECDH(<<"SPK", spk>>, <<"E", 0>>)>>
               \o IF o = 0 THEN <<>> ELSE <<ECDH(<<"OPK", o>>, <<"E", 0>>)>>)

ChatKeysNext ==
    \E c \in Clients :
        \/ PublishKeys(c) \/ UpsertIdentityKey(c) \/ UpsertSignedPreKey(c)
        \/ AddOneTimePreKeys(c) \/ GetBundle(c) \/ GetSignedPreKey(c)
        \/ ClaimOneTimePreKey(c) \/ CommitClaim(c) \/ EndBundle(c)
ChatKeysSpec == ChatKeysInit /\ [][ChatKeysNext]_chatKeyVars
-----------------------------------------------------------------------------
(* orderPair: the same two users always in the same order. *)
orderPair(x, y) == IF x < y THEN <<x, y>> ELSE <<y, x>>
Pairs == {p \in Users \X Users : p[1] # p[2]}
HasParticipant(p, u) == p[1] = u \/ p[2] = u

ChatInit ==
    /\ convs = {}
    /\ convLock = [p \in Pairs |-> NoClient]
    /\ messages = [p \in Pairs |-> <<>>]
    /\ req = [c \in Clients |-> Idle]
    /\ dbErrors = 0

(* CreateConversation: look the pair up, else insert it and reload it. *)
MayStart(u, v) == u # v
CreateConversation(c, u, v) ==
    /\ At(c, "idle") /\ MayStart(u, v)
    /\ LET p == orderPair(u, v)
       IN IF p \in convs THEN Done(c)
          ELSE req' = [req EXCEPT ![c] = [Idle EXCEPT !.pc = "insert", !.user = u,
                                                      !.pair = p]]
    /\ UNCHANGED <<messageVars, dbErrors>>

(* The insert does nothing when another request inserted the pair. *)
GetOrCreateConversation(c) ==
    /\ At(c, "insert")
    /\ \/ convs' = convs \cup {req[c].pair} /\ Done(c) /\ UNCHANGED dbErrors
       \/ Fails(c) /\ UNCHANGED convs
    /\ UNCHANGED <<convLock, messages>>

(* The service serves participants of an existing conversation only; every *)
(* other request ends with not found or forbidden and changes nothing.     *)
MaySend(p, u) == p \in convs /\ HasParticipant(p, u)
SendMessage(c, u) ==
    /\ At(c, "idle")
    /\ \E p \in Pairs :
         /\ MaySend(p, u) /\ Len(messages[p]) < MaxMsgs
         /\ req' = [req EXCEPT ![c] = [Idle EXCEPT !.pc = "lock", !.user = u, !.pair = p]]
    /\ UNCHANGED <<messageVars, dbErrors>>

(* Mutated form: the row is read, not locked. *)
LockConversationNot(c) ==
    /\ At(c, "lock")
    /\ Goto(c, "next")
    /\ UNCHANGED <<messageVars, dbErrors>>

(* CreateMessage locks the conversation's row... *)
LockConversation(c) ==
    /\ At(c, "lock")
    /\ \/ /\ convLock[req[c].pair] = NoClient
          /\ convLock' = [convLock EXCEPT ![req[c].pair] = c]
          /\ Goto(c, "next")
          /\ UNCHANGED dbErrors
       \/ Fails(c) /\ UNCHANGED convLock
    /\ UNCHANGED <<convs, messages>>

SeqsOf(p) == {messages[p][i].seq : i \in 1..Len(messages[p])}
Unlock(c) == convLock' = [p \in Pairs |-> IF convLock[p] = c THEN NoClient ELSE convLock[p]]

(* ... reads MAX(sequence) + 1... *)
NextSequence(c) ==
    /\ At(c, "next")
    /\ \/ /\ req' = [req EXCEPT ![c].pc = "store",
                                ![c].seq = Max({0} \cup SeqsOf(req[c].pair)) + 1]
          /\ UNCHANGED <<convLock, dbErrors>>
       \/ Fails(c) /\ Unlock(c)
    /\ UNCHANGED <<convs, messages>>

(* ... inserts the row, (conversation, sequence) unique, and commits. *)
CreateMessage(c) ==
    /\ At(c, "store")
    /\ LET p == req[c].pair
       IN \/ /\ req[c].seq \notin SeqsOf(p)
             /\ messages' = [messages EXCEPT ![p] =
                               Append(@, [seq |-> req[c].seq, from |-> req[c].user])]
             /\ UNCHANGED dbErrors
          \/ /\ req[c].seq \in SeqsOf(p) \/ dbErrors < MaxDbErrors
             /\ dbErrors' = IF req[c].seq \in SeqsOf(p) THEN dbErrors ELSE dbErrors + 1
             /\ UNCHANGED messages
    /\ Done(c)
    /\ Unlock(c)
    /\ UNCHANGED convs

(* ListMessages: a participant walks back, newest first, PageLimit at a    *)
(* time, passing the last sequence it saw as `before`.                     *)
MayList(p, u) == p \in convs /\ HasParticipant(p, u)
ListMessages(c, u) ==
    /\ At(c, "idle")
    /\ \E p \in Pairs :
         /\ MayList(p, u) /\ messages[p] # <<>>
         /\ req' = [req EXCEPT ![c] = [Idle EXCEPT !.pc = "walk", !.user = u, !.pair = p,
                                                   !.had = Cardinality(SeqsOf(p))]]
    /\ UNCHANGED <<messageVars, dbErrors>>

Before(p, b) == {s \in SeqsOf(p) : b = 0 \/ s < b}
PageDesc(S) ==
    LET top == {s \in S : Cardinality({t \in S : t >= s}) <= PageLimit}
    IN [i \in 1..Cardinality(top) |->
          CHOOSE s \in top : Cardinality({t \in top : t >= s}) = i]
NextPage(c) ==
    /\ At(c, "walk")
    /\ LET page == PageDesc(Before(req[c].pair, req[c].before))
       IN IF page = <<>> THEN Goto(c, "walked")
          ELSE req' = [req EXCEPT ![c].before = page[Len(page)], ![c].seen = @ \o page]
    /\ UNCHANGED <<messageVars, dbErrors>>
EndWalk(c) ==
    /\ At(c, "walked") /\ Done(c)
    /\ UNCHANGED <<messageVars, dbErrors>>

ChatNext ==
    \E c \in Clients :
        \/ \E u, v \in Users : CreateConversation(c, u, v)
        \/ GetOrCreateConversation(c)
        \/ \E u \in Users : SendMessage(c, u) \/ ListMessages(c, u)
        \/ LockConversation(c) \/ NextSequence(c) \/ CreateMessage(c)
        \/ NextPage(c) \/ EndWalk(c)
ChatSpec == ChatInit /\ [][ChatNext]_chatVars

-----------------------------------------------------------------------------
(* Generations, rows and locks stay in range. *)
ChatKeysTypeOK ==
    /\ identity \in [gen : 0..MaxGen, fit : BOOLEAN] /\ gen \in 0..MaxGen
    /\ \A i, j \in DOMAIN signed : signed[i].id = signed[j].id => i = j
    /\ opk \in [KeyIds -> [key : [gen : 0..MaxGen, fit : BOOLEAN], used : BOOLEAN]]
    /\ opkLock \in [KeyIds -> Clients \cup {NoClient}]
    /\ handed \in [KeyIds \cup {0} -> 0..(MaxBundles + Cardinality(Clients))]
    /\ dbErrors \in 0..MaxDbErrors

(* A one-time prekey is given to one initiator: GetBundle claims a row     *)
(* under SKIP LOCKED and marks it in the same transaction, and publishing  *)
(* an id again does not make it usable again.                              *)
PreKeyOnce == \A k \in KeyIds : handed[k] <= 1

(* Whatever publications and other claims happened while a bundle was put  *)
(* together, an initiator that can use it and an Owner that answers with   *)
(* the pairs of the keys handed out derive the same secret exactly when    *)
(* the one-time prekey is absent or well formed: the two sides of x3dh.go  *)
(* mirror each other but for the malformed one-time prekey, which the      *)
(* initiator skips and still names in its message.                         *)
HandshakeAgrees ==
    \A c \in Clients : LET b == req[c] IN
        At(c, "handed") /\ InitiateHandshake(b) # Refused =>
          (InitiateHandshake(b) = RespondToHandshake(b.ik.gen, b.spk.gen, b.opk.gen)
             <=> (b.id = 0 \/ b.opk.fit))

(* A conversation is stored under the ordered pair, locks are clients'.    *)
ChatTypeOK ==
    /\ convs \subseteq {p \in Pairs : p[1] < p[2]}
    /\ convLock \in [Pairs -> Clients \cup {NoClient}]
    /\ \A p \in Pairs : Len(messages[p]) <= MaxMsgs + Cardinality(Clients)
    /\ dbErrors \in 0..MaxDbErrors

(* The messages of a conversation are numbered 1, 2, 3 ... in the order    *)
(* they were stored, whoever sent them, and no send is refused because     *)
(* another took its number: CreateMessage serialises on the conversation's *)
(* row, so the unique constraint on the number never decides.              *)
NumberedInOrder ==
    /\ \A p \in Pairs : \A i \in 1..Len(messages[p]) : messages[p][i].seq = i
    /\ \A c \in Clients : At(c, "store") => req[c].seq \notin SeqsOf(req[c].pair)

(* A client that walks a conversation backwards sees every message that    *)
(* was there when it started, once, however many are sent meanwhile.       *)
WalkComplete ==
    \A c \in Clients : At(c, "walked") =>
        /\ \A i, j \in 1..Len(req[c].seen) : i < j => req[c].seen[i] > req[c].seen[j]
        /\ \A s \in 1..req[c].had : \E i \in 1..Len(req[c].seen) : req[c].seen[i] = s
=============================================================================
