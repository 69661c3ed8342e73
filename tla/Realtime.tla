------------------------------- MODULE Realtime -------------------------------
(***************************************************************************)
(* The WebSocket hub of one API server, its clients' pumps, the            *)
(* broadcaster, the Redis bridge that relays what every server (this one   *)
(* included) publishes, the membership auditor and the shutdown.  There is *)
(* one circle room.  Messages are numbered in the order their one          *)
(* publisher sends them.                                                   *)
(***************************************************************************)
EXTENDS Integers, Sequences, FiniteSets

CONSTANTS
  Conns,       \* connections, numbered: BroadcastToUser picks the smallest id
  Users, UserOf,
  BufferSize,  \* Client.Send: 256 in the code
  QueueSize,   \* RedisBridge.queue: 1024 in the code
  MaxRate,     \* relays per window of the bridge's limiter: 100 in the code
  MaxMissed,   \* maxMissedPings: 2 in the code
  MaxMsgs,     \* bound: messages published
  MaxChanges   \* bound: changes of membership

VARIABLES
  auth,        \* an authorizer is set (NewWebSocketHandler's option)
  member,      \* users that may subscribe
  changes,     \* changes of membership
  registered, gauge, room, closed,   \* Hub.clients, the metric, the room, Hub.closed
  conn,        \* the sockets: "new", "open" or "closed"
  reading, writing,                  \* clients whose pumps run
  closing,     \* clients whose closing channel is closed
  missed,      \* unanswered pings
  buf,         \* Client.Send
  sent,        \* messages published
  pub,         \* the two goroutines that broadcast
  queue,       \* messages in Redis and in the bridge's queue
  relayed,     \* relays the limiter counts in its window
  audit,       \* subscriptions the auditor still has to check
  stop         \* the shutdown: "up", "drain" or "down"

hub == <<registered, gauge, room>>
sockets == <<conn, reading, writing, closing, missed>>
bridge == <<queue, relayed>>
realtimeVars == <<auth, member, changes, hub, closed, sockets, buf, sent, pub, bridge, audit, stop>>

Publishers == {"local", "bridge"}
Quiet == [pc |-> "off", msg |-> 0, todo |-> {}, dropped |-> {}]

RealtimeInit ==
  /\ auth \in BOOLEAN /\ member = Users /\ changes = 0
  /\ registered = {} /\ gauge = 0 /\ room = {} /\ closed = FALSE
  /\ conn = [c \in Conns |-> "new"] /\ reading = {} /\ writing = {} /\ closing = {}
  /\ missed = [c \in Conns |-> 0] /\ buf = [c \in Conns |-> <<>>]
  /\ sent = 0 /\ pub = [p \in Publishers |-> Quiet] /\ queue = <<>> /\ relayed = 0
  /\ audit = {} /\ stop = "up"

others == <<auth, member, changes, sent, pub, bridge, audit, stop>>

(* A send to Client.Send never blocks: it is dropped when the buffer is full. *)
Full(c) == Len(buf[c]) >= BufferSize
Reply(c) == buf' = IF Full(c) THEN buf ELSE [buf EXCEPT ![c] = Append(@, 0)]
-----------------------------------------------------------------------------
(* HandleWebSocket: Register, then both pumps start.  A closed hub refuses *)
(* the client and closes it.                                               *)
Register(c) ==
  /\ conn[c] = "new" /\ conn' = [conn EXCEPT ![c] = "open"]
  /\ reading' = reading \cup {c} /\ writing' = writing \cup {c}
  /\ IF closed THEN closing' = closing \cup {c} /\ UNCHANGED <<registered, gauge>>
     ELSE registered' = registered \cup {c} /\ gauge' = gauge + 1 /\ UNCHANGED closing
  /\ UNCHANGED <<others, room, closed, missed, buf>>

UnregisterTwice(c) ==  \* Mutated form: the gauge is lowered for a client already gone.
  /\ registered' = registered \ {c} /\ room' = room \ {c} /\ gauge' = gauge - 1
Unregister(c) ==
  /\ registered' = registered \ {c} /\ room' = room \ {c}
  /\ gauge' = IF c \in registered THEN gauge - 1 ELSE gauge

(* ReadPump ends when the socket is closed, by either side. *)
ReadPump(c) ==
  /\ c \in reading /\ reading' = reading \ {c} /\ Unregister(c)
  /\ conn' = [conn EXCEPT ![c] = "closed"]
  /\ UNCHANGED <<others, writing, closing, missed, closed, buf>>

(* CanSubscribe: membership in the database. *)
CanSubscribe(c) == UserOf[c] \in member

(* handleMessage: subscribe, unsubscribe and ping. *)
JoinRoom(c) ==
  /\ c \in reading /\ conn[c] = "open"
  /\ IF auth /\ ~(c \in registered /\ CanSubscribe(c))
     THEN Reply(c) /\ UNCHANGED room
     ELSE room' = room \cup ({c} \cap registered) /\ UNCHANGED buf
  /\ missed' = [missed EXCEPT ![c] = 0]
  /\ UNCHANGED <<others, registered, gauge, closed, conn, reading, writing, closing>>
LeaveRoom(c) ==
  /\ c \in reading /\ conn[c] = "open" /\ c \in room /\ room' = room \ {c}
  /\ missed' = [missed EXCEPT ![c] = 0]
  /\ UNCHANGED <<others, registered, gauge, closed, conn, reading, writing, closing, buf>>
Pong(c) ==
  /\ c \in reading /\ conn[c] = "open" /\ missed[c] > 0 /\ missed' = [missed EXCEPT ![c] = 0]
  /\ UNCHANGED <<others, hub, closed, conn, reading, writing, closing, buf>>

(* WritePump: it leaves on closing, on a failed write and after too many   *)
(* unanswered pings, closing the socket.                                   *)
EndWrite(c) == writing' = writing \ {c} /\ conn' = [conn EXCEPT ![c] = "closed"]
WritePump(c) ==
  /\ c \in writing
  /\ \/ c \in closing /\ EndWrite(c) /\ UNCHANGED <<buf, missed>>
     \/ /\ buf[c] # <<>> /\ buf' = [buf EXCEPT ![c] = Tail(@)] /\ UNCHANGED missed
        /\ IF conn[c] = "open" THEN UNCHANGED <<writing, conn>> ELSE EndWrite(c)
     \/ /\ UNCHANGED buf
        /\ IF missed[c] >= MaxMissed \/ conn[c] = "closed"
           THEN EndWrite(c) /\ UNCHANGED missed
           ELSE missed' = [missed EXCEPT ![c] = @ + 1] /\ UNCHANGED <<writing, conn>>
  /\ UNCHANGED <<auth, member, changes, hub, closed, reading, closing, sent, pub, bridge, audit, stop>>

(* Close and Disconnect share a sync.Once. *)
Close(c) == closing' = closing \cup {c} /\ UNCHANGED conn
Disconnect(c) == IF c \in closing THEN UNCHANGED <<closing, conn>>
                 ELSE closing' = closing \cup {c} /\ conn' = [conn EXCEPT ![c] = "closed"]
-----------------------------------------------------------------------------
(* Broadcast takes one client of each user in the room under the lock,     *)
(* sends without it, and evicts the clients whose buffer was full.         *)
OnePerUser(S) == {T \in SUBSET S : \A u \in Users :
                    Cardinality({c \in T : UserOf[c] = u}) = IF \E c \in S : UserOf[c] = u THEN 1 ELSE 0}
Broadcast(p, m) ==
  \E T \in OnePerUser(room) :
    pub' = [pub EXCEPT ![p] = [pc |-> "send", msg |-> m, todo |-> T, dropped |-> {}]]
SmallestOf(S) == {c \in S : \A d \in S : c <= d}
BroadcastToUser(p, u, m) ==
  pub' = [pub EXCEPT ![p] = [pc |-> "send", msg |-> m, dropped |-> {},
                             todo |-> SmallestOf({c \in registered : UserOf[c] = u})]]

SendEach(p) ==
  /\ pub[p].pc = "send"
  /\ IF pub[p].todo = {} THEN pub' = [pub EXCEPT ![p].pc = "evict"] /\ UNCHANGED buf
     ELSE \E c \in pub[p].todo :
            /\ pub' = [pub EXCEPT ![p] = [@ EXCEPT !.todo = @ \ {c},
                         !.dropped = IF Full(c) THEN @ \cup {c} ELSE @]]
            /\ buf' = IF Full(c) THEN buf ELSE [buf EXCEPT ![c] = Append(@, pub[p].msg)]
  /\ UNCHANGED <<auth, member, changes, hub, closed, sockets, sent, bridge, audit, stop>>

(* publish: once the local clients are served the message goes to Redis,   *)
(* which every subscriber receives; the bridge drops it when its queue is  *)
(* full.                                                                   *)
Evict(p) ==
  /\ pub[p].pc = "evict"
  /\ IF pub[p].dropped = {}
     THEN /\ pub' = [pub EXCEPT ![p] = Quiet]
          /\ queue' = IF p = "local" /\ Len(queue) < QueueSize THEN Append(queue, pub[p].msg) ELSE queue
          /\ UNCHANGED <<hub, conn, closing>>
     ELSE \E c \in pub[p].dropped :
            /\ pub' = [pub EXCEPT ![p].dropped = @ \ {c}] /\ Unregister(c) /\ Disconnect(c)
            /\ UNCHANGED queue
  /\ UNCHANGED <<auth, member, changes, closed, reading, writing, missed, buf, sent, relayed, audit, stop>>

(* The broadcaster's events: to the room, or to one user. *)
Publish ==
  /\ stop = "up" /\ sent < MaxMsgs /\ pub["local"].pc = "off" /\ sent' = sent + 1
  /\ Broadcast("local", sent + 1) \/ \E u \in Users : BroadcastToUser("local", u, sent + 1)
  /\ UNCHANGED <<auth, member, changes, hub, closed, sockets, buf, bridge, audit, stop>>

(* handleMessage of the bridge: the limiter, then the hub.  A message of a *)
(* type the bridge does not route to a user goes to the room it names.     *)
Allow == relayed < MaxRate
HandleMessage ==
  /\ stop # "down" /\ queue # <<>> /\ pub["bridge"].pc = "off" /\ queue' = Tail(queue)
  /\ IF Allow THEN /\ relayed' = relayed + 1
                   /\ \/ Broadcast("bridge", Head(queue))
                      \/ \E u \in Users : BroadcastToUser("bridge", u, Head(queue))
              ELSE UNCHANGED <<relayed, pub>>
  /\ UNCHANGED <<auth, member, changes, hub, closed, sockets, buf, sent, audit, stop>>
WindowPasses ==
  /\ relayed > 0 /\ relayed' = 0
  /\ UNCHANGED <<auth, member, changes, hub, closed, sockets, buf, sent, pub, queue, audit, stop>>
-----------------------------------------------------------------------------
ChangeMembership ==
  /\ changes < MaxChanges /\ changes' = changes + 1
  /\ \E u \in Users : member' = IF u \in member THEN member \ {u} ELSE member \cup {u}
  /\ UNCHANGED <<auth, hub, closed, sockets, buf, sent, pub, bridge, audit, stop>>

(* AuditRoomMemberships: the subscriptions are copied under the lock, then *)
(* checked one by one without it.                                          *)
StartAudit ==
  /\ auth /\ audit = {} /\ room # {} /\ audit' = room
  /\ UNCHANGED <<auth, member, changes, hub, closed, sockets, buf, sent, pub, bridge, stop>>
AuditRoomMemberships(c) ==
  /\ c \in audit /\ audit' = audit \ {c}
  /\ IF CanSubscribe(c) THEN UNCHANGED <<room, buf>> ELSE room' = room \ {c} /\ Reply(c)
  /\ UNCHANGED <<auth, member, changes, registered, gauge, closed, sockets, sent, pub, bridge, stop>>

(* Shutdown closes the hub and every client, waits for them to unregister  *)
(* and, at the deadline, closes their sockets and unregisters them.        *)
Shutdown ==
  /\ stop = "up" /\ stop' = "drain" /\ closed' = TRUE /\ closing' = closing \cup registered
  /\ UNCHANGED <<auth, member, changes, hub, conn, reading, writing, missed, buf, sent, pub, bridge, audit>>
Drained ==
  /\ stop = "drain"
  /\ \/ registered = {} /\ UNCHANGED <<conn, hub>>
     \/ /\ registered # {} /\ conn' = [c \in Conns |-> IF c \in registered THEN "closed" ELSE conn[c]]
        /\ registered' = {} /\ room' = {} /\ gauge' = gauge - Cardinality(registered)
  /\ stop' = "down"
  /\ UNCHANGED <<auth, member, changes, closed, reading, writing, closing, missed, buf, sent, pub, bridge, audit>>

Audits == StartAudit \/ \E c \in Conns : AuditRoomMemberships(c)
Pumps(c) == ReadPump(c) \/ WritePump(c)
RealtimeNext ==
  \/ Publish \/ HandleMessage \/ WindowPasses \/ ChangeMembership \/ Audits \/ Shutdown \/ Drained
  \/ \E p \in Publishers : SendEach(p) \/ Evict(p)
  \/ \E c \in Conns : Register(c) \/ JoinRoom(c) \/ LeaveRoom(c) \/ Pong(c) \/ Pumps(c)

RealtimeSpec == RealtimeInit /\ [][RealtimeNext]_realtimeVars
-----------------------------------------------------------------------------
(* Types of the hub, the sockets and the pumps. *)
RealtimeTypeOK ==
  /\ registered \subseteq Conns /\ reading \subseteq Conns /\ writing \subseteq Conns
  /\ \A c \in Conns : Len(buf[c]) <= BufferSize /\ missed[c] \in 0..MaxMissed
  /\ Len(queue) <= QueueSize /\ relayed \in 0..MaxRate

(* A room holds registered clients only, every registered client still has *)
(* a ReadPump to unregister it, and the connection gauge is exact, although *)
(* pumps, evictions and the shutdown unregister the same client.           *)
HubConsistent ==
  /\ room \subseteq registered /\ registered \subseteq reading /\ gauge = Cardinality(registered)

(* When Shutdown has returned no client is registered, nor becomes so. *)
DownIsEmpty == stop = "down" => registered = {}

(* With an authorizer, a client whose membership was revoked does not stay  *)
(* in the room: the auditor puts it out, unless it is admitted again.       *)
Revoked(c) == auth /\ c \in room /\ ~CanSubscribe(c)
RevokedLeaves ==
  \A c \in Conns : Revoked(c) ~> ~Revoked(c)
=============================================================================
