------------------------------ MODULE JobQueue ------------------------------
(***************************************************************************)
(* The job_queue table and its workers (pkg/jobqueue, PostgreSQL side).    *)
(* A worker dequeues a job in one transaction, runs its handler and        *)
(* records the outcome, each a step of its own; another worker, an admin   *)
(* and a crash may come in between.  Time is left out: a job whose         *)
(* scheduled_at lies ahead becomes due by itself.                          *)
(***************************************************************************)
EXTENDS Integers, FiniteSets

CONSTANTS
  Jobs,       \* job ids
  Workers,    \* worker loops, one per process
  MaxRetries, \* max_retries of every job: what the caller gave, or 3
  NoJob,      \* a worker with nothing in hand
  MaxAdmin,   \* bound: RetryDeadLetterJob calls
  MaxCrashes, \* bound: workers killed with a job in hand
  MaxErrors   \* bound: outcomes that could not be recorded

ASSUME RetriesAssumption == MaxRetries \in Nat \ {0}
ASSUME NoJobAssumption == NoJob \notin Jobs
ASSUME BoundsAssumption == {MaxAdmin, MaxCrashes, MaxErrors} \subseteq Nat

VARIABLES
  job,      \* each job's row
  worker,   \* each worker's job and what comes next for it
  runs,     \* handler runs of each job since it was enqueued or reset
  admin, crashes, errors

vars == <<job, worker, runs, admin, crashes, errors>>
bounds == <<admin, crashes, errors>>

Status == {"none", "pending", "processing", "completed", "dead_letter"}
NoRow == [status |-> "none", retries |-> 0, due |-> FALSE]
Resting == [at |-> "idle", id |-> NoJob, retries |-> 0]
At(w, where) == worker[w].at = where
Moves(w, f) == worker' = [worker EXCEPT ![w] = f]
SetJob(j, row) == job' = [job EXCEPT ![j] = row]

Init ==
  /\ job = [j \in Jobs |-> NoRow]
  /\ worker = [w \in Workers |-> Resting]
  /\ runs = [j \in Jobs |-> 0]
  /\ admin = 0 /\ crashes = 0 /\ errors = 0
-----------------------------------------------------------------------------
Enqueue(j) ==
  /\ job[j].status = "none"
  /\ SetJob(j, [status |-> "pending", retries |-> 0, due |-> TRUE])
  /\ UNCHANGED <<worker, runs, bounds>>

(* scheduled_at <= NOW() from here on. *)
BecomeDue(j) ==
  /\ job[j].status = "pending" /\ ~job[j].due
  /\ SetJob(j, [job[j] EXCEPT !.due = TRUE])
  /\ UNCHANGED <<worker, runs, bounds>>

(* Mutated form: the row is not locked, nor its status checked again. *)
DequeueUnlocked(w, j) ==
  /\ At(w, "idle") /\ job[j].status \in {"pending", "processing"} /\ job[j].due
  /\ SetJob(j, [job[j] EXCEPT !.status = "processing"])
  /\ Moves(w, [Resting EXCEPT !.at = "handle", !.id = j])
  /\ UNCHANGED <<runs, bounds>>

(* Dequeue: SELECT ... FOR UPDATE SKIP LOCKED and the UPDATE commit        *)
(* together.                                                               *)
Dequeue(w, j) ==
  /\ At(w, "idle") /\ job[j].status = "pending" /\ job[j].due
  /\ SetJob(j, [job[j] EXCEPT !.status = "processing"])
  /\ Moves(w, [Resting EXCEPT !.at = "handle", !.id = j])
  /\ UNCHANGED <<runs, bounds>>

(* process: the handler succeeds or returns an error. *)
Handle(w) ==
  LET j == worker[w].id
  IN /\ At(w, "handle")
     /\ runs' = [runs EXCEPT ![j] = @ + 1]
     /\ \E next \in {"complete", "failRead"} : Moves(w, [worker[w] EXCEPT !.at = next])
     /\ UNCHANGED <<job, bounds>>

Complete(w) ==
  LET j == worker[w].id
  IN /\ At(w, "complete")
     /\ SetJob(j, [job[j] EXCEPT !.status = "completed"])
     /\ Moves(w, Resting)
     /\ UNCHANGED <<runs, bounds>>

(* Fail reads the count, and writes it back in a second statement. *)
FailRead(w) ==
  /\ At(w, "failRead")
  /\ Moves(w, [worker[w] EXCEPT !.at = "failWrite", !.retries = job[worker[w].id].retries])
  /\ UNCHANGED <<job, runs, bounds>>

(* Mutated form: the job is given up one failure too late. *)
FailWriteLate(w) ==
  LET f == worker[w]
  IN /\ At(w, "failWrite")
     /\ SetJob(f.id, IF f.retries >= MaxRetries
          THEN [status |-> "dead_letter", retries |-> f.retries + 1, due |-> job[f.id].due]
          ELSE [status |-> "pending", retries |-> f.retries + 1, due |-> FALSE])
     /\ Moves(w, Resting)
     /\ UNCHANGED <<runs, bounds>>

(* Mutated form: a failed job stays with the worker that failed it. *)
FailWriteKeeps(w) ==
  LET f == worker[w]
  IN /\ At(w, "failWrite")
     /\ SetJob(f.id, [job[f.id] EXCEPT !.retries = f.retries + 1])
     /\ Moves(w, Resting)
     /\ UNCHANGED <<runs, bounds>>

FailWrite(w) ==
  LET f == worker[w]
      tried == f.retries + 1
  IN /\ At(w, "failWrite")
     /\ SetJob(f.id, IF tried >= MaxRetries
          THEN [status |-> "dead_letter", retries |-> tried, due |-> job[f.id].due]
          ELSE [status |-> "pending", retries |-> tried, due |-> FALSE])
     /\ Moves(w, Resting)
     /\ UNCHANGED <<runs, bounds>>

(* The outcome could not be written: logged, and the row stays. *)
OutcomeLost(w) ==
  /\ worker[w].at \in {"complete", "failRead", "failWrite"}
  /\ errors < MaxErrors /\ errors' = errors + 1
  /\ Moves(w, Resting)
  /\ UNCHANGED <<job, runs, admin, crashes>>

RetryDeadLetterJob(j) ==
  /\ job[j].status = "dead_letter"
  /\ admin < MaxAdmin /\ admin' = admin + 1
  /\ SetJob(j, [status |-> "pending", retries |-> 0, due |-> TRUE])
  /\ runs' = [runs EXCEPT ![j] = 0]
  /\ UNCHANGED <<worker, crashes, errors>>

(* The process dies; nothing returns its job to pending. *)
Crash(w) ==
  /\ ~At(w, "idle")
  /\ crashes < MaxCrashes /\ crashes' = crashes + 1
  /\ Moves(w, Resting)
  /\ UNCHANGED <<job, runs, admin, errors>>
-----------------------------------------------------------------------------
WorkerStep(w) ==
  \/ \E j \in Jobs : Dequeue(w, j)
  \/ Handle(w) \/ Complete(w) \/ FailRead(w) \/ FailWrite(w)

Next ==
  \/ \E j \in Jobs : Enqueue(j) \/ BecomeDue(j) \/ RetryDeadLetterJob(j)
  \/ \E w \in Workers : WorkerStep(w) \/ OutcomeLost(w) \/ Crash(w)

Spec == Init /\ [][Next]_vars

(* The worker's ticker fires, time passes. *)
FairSpec ==
  /\ Spec
  /\ \A w \in Workers : WF_vars(WorkerStep(w))
  /\ \A j \in Jobs : WF_vars(BecomeDue(j))
-----------------------------------------------------------------------------
Holds(w, j) == worker[w].id = j
Stage == {"idle", "handle", "complete", "failRead", "failWrite"}

(* Rows and workers keep their types. *)
TypeOK ==
  /\ job \in [Jobs -> [status: Status, retries: 0..MaxRetries, due: BOOLEAN]]
  /\ worker \in [Workers -> [at: Stage, id: Jobs \cup {NoJob}, retries: 0..MaxRetries]]
  /\ \A w \in Workers : At(w, "idle") <=> worker[w].id = NoJob
  /\ runs \in [Jobs -> Nat]
  /\ admin \in 0..MaxAdmin /\ crashes \in 0..MaxCrashes /\ errors \in 0..MaxErrors

(* A job in a worker's hands is marked processing and is in nobody else's: *)
(* Dequeue's row lock keeps two workers apart until the outcome is in.     *)
OneWorkerPerJob ==
  \A w \in Workers, j \in Jobs : Holds(w, j) =>
    /\ job[j].status = "processing"
    /\ \A x \in Workers : Holds(x, j) => x = w

(* A job's handler runs at most max_retries times before an admin resets   *)
(* it, and a job given up has run exactly that often.                      *)
RunsBounded ==
  \A j \in Jobs : /\ runs[j] <= MaxRetries
                  /\ job[j].status = "dead_letter" => runs[j] = MaxRetries

(* Every job is finished or given up, as long as no worker dies with it    *)
(* and every outcome is recorded.                                          *)
Awaited(j) == crashes + errors = 0 /\ job[j].status = "pending"
Settled(j) == job[j].status \in {"completed", "dead_letter"} \/ crashes + errors > 0
JobSettles == \A j \in Jobs : Awaited(j) ~> Settled(j)
=============================================================================
