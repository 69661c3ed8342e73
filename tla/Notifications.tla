----------------------------- MODULE Notifications -----------------------------
(***************************************************************************)
(* Creating notifications for one user: the digest buffer and its flusher, *)
(* the notifications table, and delivery over the external channels with   *)
(* its audit trail.  Events and the digests made of them are notifications *)
(* of the table; an event is a number, a digest the set of its events.     *)
(***************************************************************************)
EXTENDS Integers, FiniteSets

CONSTANTS
  MaxEvents,           \* bound: events
  MaxDigestBatchSize,  \* entries of a bucket: 100 in the code
  Intervals,           \* cadences, in ticks of the flusher
  MaxDbErrors,         \* bound: failed statements
  MaxChanges           \* bound: changes of preferences and of the rows' flags

VARIABLES
  prefs,      \* the user's digest cadence (0: disabled), and the channel's permission
  changes,
  made,       \* per event: the step of its Create
  bucket,     \* digestBucket: entries, interval, age of the window
  taken,      \* entries TakeDue handed to the flush in progress
  rows,       \* the notifications table: sets of events
  flags,      \* rows marked read, rows archived
  sending,    \* per event: its delivery goroutine
  accepted,   \* deliveries the provider took, per event
  records,    \* notification_deliveries
  lost,       \* events lost with a failed statement or with the process
  dbErrors

noteVars == <<prefs, changes, made, bucket, taken, rows, flags, sending, accepted, records, lost, dbErrors>>
Events == 1..MaxEvents
NoBucket == [entries |-> {}, interval |-> 0, age |-> 0]
Off == [pc |-> "off", attempt |-> 0]
maxAttempts == 2

NoteInit ==
  /\ prefs \in [cadence : Intervals \cup {0}, allowed : BOOLEAN] /\ changes = 0
  /\ made = [e \in Events |-> "none"] /\ bucket = NoBucket /\ taken = {}
  /\ rows = {} /\ flags = [read |-> {}, archived |-> {}]
  /\ sending = [e \in Events |-> Off] /\ accepted = [e \in Events |-> 0]
  /\ records = {} /\ lost = {} /\ dbErrors = 0

Fails == dbErrors < MaxDbErrors /\ dbErrors' = dbErrors + 1
delivery == <<sending, accepted, records>>

ChangePreferences ==
  /\ changes < MaxChanges /\ changes' = changes + 1
  /\ prefs' \in [cadence : Intervals \cup {0}, allowed : BOOLEAN]
  /\ UNCHANGED <<made, bucket, taken, rows, flags, delivery, lost, dbErrors>>
-----------------------------------------------------------------------------
(* Create and shouldDigest: an urgent event, disabled digests and a failed *)
(* lookup all mean immediate delivery.  The cadence read goes to Enqueue.  *)
shouldDigest(e) ==
  /\ made[e] = "none" /\ \A d \in 1..(e - 1) : made[d] # "none"
  /\ \E IsUrgent \in BOOLEAN :
     \/ /\ ~IsUrgent /\ prefs.cadence # 0 /\ UNCHANGED dbErrors
        /\ made' = [made EXCEPT ![e] = IF prefs.cadence = 1 THEN "enqueue1" ELSE "enqueue2"]
     \/ /\ IsUrgent \/ prefs.cadence = 0
        /\ made' = [made EXCEPT ![e] = "insert"] /\ UNCHANGED dbErrors
     \/ ~IsUrgent /\ Fails /\ made' = [made EXCEPT ![e] = "insert"]
  /\ UNCHANGED <<prefs, changes, bucket, taken, rows, flags, delivery, lost>>

Cadence(e) == IF made[e] = "enqueue1" THEN 1 ELSE 2
Enqueue(e) ==
  /\ made[e] \in {"enqueue1", "enqueue2"}
  /\ LET b == IF bucket.entries = {} THEN [NoBucket EXCEPT !.interval = Cadence(e)] ELSE bucket IN
     IF Cardinality(b.entries) >= MaxDigestBatchSize
     THEN made' = [made EXCEPT ![e] = "insert"] /\ UNCHANGED bucket
     ELSE made' = [made EXCEPT ![e] = "done"] /\ bucket' = [b EXCEPT !.entries = @ \cup {e}]
  /\ UNCHANGED <<prefs, changes, taken, rows, flags, delivery, lost, dbErrors>>

(* repo.Create; on success the delivery goroutine of an external channel   *)
(* starts (an in-app notification has none).                               *)
Insert(e) ==
  /\ made[e] = "insert"
  /\ \/ /\ made' = [made EXCEPT ![e] = "done"] /\ rows' = rows \cup {{e}}
        /\ sending' \in {sending, [sending EXCEPT ![e].pc = "lookup"]} /\ UNCHANGED dbErrors
     \/ /\ Fails /\ made' = [made EXCEPT ![e] = "error"] /\ UNCHANGED <<rows, sending>>
  /\ UNCHANGED <<prefs, changes, bucket, taken, flags, accepted, records, lost>>
-----------------------------------------------------------------------------
(* TakeDue removes the bucket under the lock Enqueue takes. *)
Tick ==
  /\ bucket.entries # {} /\ bucket.age < bucket.interval /\ bucket' = [bucket EXCEPT !.age = @ + 1]
  /\ UNCHANGED <<prefs, changes, made, taken, rows, flags, delivery, lost, dbErrors>>
TakeDue ==
  /\ taken = {} /\ bucket.entries # {} /\ bucket.age >= bucket.interval
  /\ taken' = bucket.entries /\ bucket' = NoBucket
  /\ UNCHANGED <<prefs, changes, made, rows, flags, delivery, lost, dbErrors>>

(* FlushDueDigests: one summary of what was taken; a failed insert is      *)
(* logged and the entries are gone.  A digest is in-app only.              *)
FlushDueDigests ==
  /\ taken # {} /\ taken' = {}
  /\ \/ rows' = rows \cup {taken} /\ UNCHANGED <<dbErrors, lost>>
     \/ Fails /\ lost' = lost \cup taken /\ UNCHANGED rows
  /\ UNCHANGED <<prefs, changes, made, bucket, flags, delivery>>

(* The process stops: what is only in memory is gone. *)
Stop ==
  /\ lost' = lost \cup bucket.entries \cup taken /\ lost' # lost
  /\ bucket' = NoBucket /\ taken' = {} /\ sending' = [e \in Events |-> Off]
  /\ made' = [e \in Events |-> IF made[e] \in {"none", "done", "error"} THEN made[e] ELSE "error"]
  /\ UNCHANGED <<prefs, changes, rows, flags, accepted, records, dbErrors>>

MarkRead(n) == n \in rows /\ flags' = [flags EXCEPT !.read = @ \cup {n}]
MarkAllRead == flags' = [flags EXCEPT !.read = rows]
BulkArchive(S, archived) ==
  S \subseteq rows /\ flags' = [flags EXCEPT !.archived = IF archived THEN @ \cup S ELSE @ \ S]
Flag ==
  /\ changes < MaxChanges /\ changes' = changes + 1
  /\ rows # {} /\ (MarkAllRead \/ \E n \in rows : MarkRead(n) \/ \E a \in BOOLEAN : BulkArchive({n}, a))
  /\ UNCHANGED <<prefs, made, bucket, taken, rows, delivery, lost, dbErrors>>
-----------------------------------------------------------------------------
(* dispatchDelivery: at most one retry; every outcome is recorded, unless  *)
(* the audit insert itself fails.                                          *)
Record(e, status, attempts) ==
  /\ sending' = [sending EXCEPT ![e] = Off]
  /\ \/ records' = records \cup {<<e, status, attempts>>} /\ UNCHANGED dbErrors
     \/ Fails /\ UNCHANGED records

FindRecipient(e) ==
  /\ sending[e].pc = "lookup"
  /\ \/ /\ prefs.allowed /\ sending' = [sending EXCEPT ![e] = [pc |-> "send", attempt |-> 1]]
        /\ UNCHANGED <<records, dbErrors>>
     \/ ~prefs.allowed /\ Record(e, "skipped", 0)
     \/ Record(e, "failed", 1)
  /\ UNCHANGED <<prefs, changes, made, bucket, taken, rows, flags, accepted, lost>>

Deliver(e) ==
  /\ sending[e].pc = "send"
  /\ \/ accepted' = [accepted EXCEPT ![e] = @ + 1] /\ Record(e, "sent", sending[e].attempt)
     \/ /\ accepted' \in {accepted, [accepted EXCEPT ![e] = @ + 1]}  \* an error after the provider took it
        /\ IF sending[e].attempt < maxAttempts
           THEN sending' = [sending EXCEPT ![e].attempt = @ + 1] /\ UNCHANGED <<records, dbErrors>>
           ELSE Record(e, "failed", maxAttempts)
  /\ UNCHANGED <<prefs, changes, made, bucket, taken, rows, flags, lost>>

Flusher == Tick \/ TakeDue \/ FlushDueDigests
NoteNext ==
  \/ ChangePreferences \/ Flusher \/ Stop \/ Flag
  \/ \E e \in Events : shouldDigest(e) \/ Enqueue(e) \/ Insert(e) \/ FindRecipient(e) \/ Deliver(e)

NoteSpec == NoteInit /\ [][NoteNext]_noteVars
-----------------------------------------------------------------------------
(* Types of the buffer, the table and the goroutines. *)
NoteTypeOK ==
  /\ rows \subseteq SUBSET Events /\ flags.read \subseteq rows /\ flags.archived \subseteq rows
  /\ Cardinality(bucket.entries) <= MaxDigestBatchSize /\ taken \subseteq Events
  /\ \A e \in Events : sending[e].attempt \in 0..maxAttempts

(* TakeDue: an event is summarised in exactly one digest or never enqueued, *)
(* so no two rows of the table show the same event.                         *)
ShownOnce == \A m, n \in rows : m # n => m \cap n = {}

(* Every event whose Create succeeded is in the table, buffered or being   *)
(* flushed, or it was lost with a failed insert or the process.            *)
Accounted ==
  \A e \in Events : made[e] = "done" => e \in bucket.entries \cup taken \cup lost \cup UNION rows

(* The audit trail is true: sent means that the provider took it, skipped  *)
(* that it was never offered.                                              *)
RecordTrue ==
  \A r \in records : /\ r[2] = "sent" => accepted[r[1]] > 0
                     /\ r[2] = "skipped" => accepted[r[1]] = 0

(* A buffered event is summarised, or lost, once its cadence has elapsed.  *)
Buffered(e) == e \in bucket.entries
Ended(e) == e \in lost \cup UNION rows
DigestArrives == \A e \in Events : Buffered(e) ~> Ended(e)
=============================================================================
