------------------------------- MODULE Outbox -------------------------------
(* The circle outbox (internal/domain/circle/outbox.go): events are saved in   *)
(* the transaction of the change they tell of, and relays broadcast pending    *)
(* events in batches and mark them afterwards.  Two relays may hold the same   *)
(* events, marking may fail, and a relay may die between the two.              *)
EXTENDS Naturals, Sequences, SequencesExt

CONSTANTS Saved,      \* events in the order they are saved: [type, readable]
          Relays,     \* relay processes
          limit,      \* events of a batch
          MaxFaults   \* bound: failed statements and deaths

VARIABLES table,      \* event -> status of its row, or "none" / "deleted"
          inHand,     \* relay -> events of its batch not yet broadcast
          sent,       \* relay -> event it broadcast and has not marked (0: none)
          heard,      \* event -> broadcasts of it
          deaf,       \* the relays that were built without a broadcaster
          faults

outboxVars == <<table, inHand, sent, heard, deaf, faults>>

OutboxEvents == 1..Len(Saved)

OutboxInit ==
    /\ table = [e \in OutboxEvents |-> "none"]
    /\ inHand = [r \in Relays |-> <<>>]
    /\ sent = [r \in Relays |-> 0]
    /\ heard = [e \in OutboxEvents |-> 0]
    /\ deaf \in SUBSET Relays
    /\ faults = 0

\* Save: the event and the circle's change commit together, or neither does.
Save(e) ==
    /\ table[e] = "none" /\ \A d \in 1..(e - 1) : table[d] # "none"
    /\ table' = [table EXCEPT ![e] = "pending"]
    /\ UNCHANGED <<inHand, sent, heard, deaf, faults>>

\* FetchPending's rows: the pending ones, oldest first.
Pending == SelectSeq([e \in OutboxEvents |-> e], LAMBDA e : table[e] = "pending")

\* FetchPending: the head of the pending rows, locked by nobody.
FetchPending(r) ==
    LET pending == Pending IN
    /\ inHand[r] = <<>> /\ sent[r] = 0 /\ pending # <<>>
    /\ inHand' = [inHand EXCEPT ![r] =
          SubSeq(pending, 1, IF Len(pending) < limit THEN Len(pending) ELSE limit)]
    /\ UNCHANGED <<table, sent, heard, deaf, faults>>

\* The events ProcessBatch knows and can read.
Known(e) ==
    Saved[e].type \in {"CircleStatusChanged", "MemberJoined"} /\ Saved[e].readable

\* ProcessBatch, body of the loop: the next event is broadcast, unless its type
\* is unknown, its payload unreadable or there is no broadcaster, and then
\* silently not ...
ProcessEvent(r) ==
    LET e == Head(inHand[r]) IN
    /\ inHand[r] # <<>> /\ sent[r] = 0
    /\ heard' = [heard EXCEPT ![e] = IF Known(e) /\ r \notin deaf THEN @ + 1 ELSE @]
    /\ sent' = [sent EXCEPT ![r] = e]
    /\ inHand' = [inHand EXCEPT ![r] = Tail(@)]
    /\ UNCHANGED <<table, deaf, faults>>

\* Mutated form: the whole batch is marked with its first event.
MarkPublishedBatch(r) ==
    /\ sent[r] # 0
    /\ table' = [e \in OutboxEvents |->
          IF e = sent[r] \/ e \in ToSet(inHand[r]) THEN "published" ELSE table[e]]
    /\ sent' = [sent EXCEPT ![r] = 0]
    /\ UNCHANGED <<inHand, heard, deaf, faults>>

\* ... and marked, by id, whatever its status is by then; a failure to mark it
\* leaves it to the next batch.
MarkPublished(r) ==
    /\ sent[r] # 0
    /\ \/ /\ table' = [table EXCEPT ![sent[r]] = IF @ = "deleted" THEN @ ELSE "published"]
          /\ UNCHANGED faults
       \/ /\ faults < MaxFaults /\ faults' = faults + 1
          /\ UNCHANGED table
    /\ sent' = [sent EXCEPT ![r] = 0]
    /\ UNCHANGED <<inHand, heard, deaf>>

\* The rows DeletePublished matches.
Deletable(e) == table[e] = "published"

DeletePublished ==
    /\ \E e \in OutboxEvents : Deletable(e)
    /\ table' = [e \in OutboxEvents |-> IF Deletable(e) THEN "deleted" ELSE table[e]]
    /\ UNCHANGED <<inHand, sent, heard, deaf, faults>>

\* A relay dies; another run starts from the table.
Die(r) ==
    /\ inHand[r] # <<>> \/ sent[r] # 0
    /\ faults < MaxFaults /\ faults' = faults + 1
    /\ inHand' = [inHand EXCEPT ![r] = <<>>]
    /\ sent' = [sent EXCEPT ![r] = 0]
    /\ UNCHANGED <<table, heard, deaf>>

OutboxNext ==
    \/ \E e \in OutboxEvents : Save(e)
    \/ \E r \in Relays : FetchPending(r) \/ ProcessEvent(r) \/ MarkPublished(r) \/ Die(r)
    \/ DeletePublished

OutboxSpec == OutboxInit /\ [][OutboxNext]_outboxVars

OutboxTypeOK ==
    /\ table \in [OutboxEvents -> {"none", "pending", "published", "deleted"}]
    /\ \A r \in Relays : ToSet(inHand[r]) \subseteq OutboxEvents /\ sent[r] \in 0..Len(Saved)

\* A readable event of a known type leaves the pending rows only after it was
\* broadcast, whichever relay dies and whichever mark fails, as long as every
\* relay has a broadcaster: one without marks what nobody heard
\* (ProcessBatch broadcasts before MarkPublished; DeletePublished).
SavedIsSent ==
    \A e \in OutboxEvents :
        table[e] \in {"published", "deleted"} /\ Known(e) /\ deaf = {} => heard[e] > 0

\* An event is broadcast again only by a relay that fetched it before it was
\* marked, or after a fault: broadcasts exceed one by at most the other relays
\* and the faults (FetchPending locks nothing; MarkPublished may fail).
RepeatsExplained ==
    \A e \in OutboxEvents : heard[e] <= Cardinality(Relays) + faults
=============================================================================
