-------------------------- MODULE ServicesProofs ---------------------------
(* Proofs about the job queue and the circuit breaker. *)
EXTENDS JobQueue, CircuitBreaker, TLAPS

-----------------------------------------------------------------------------
(***************************************************************************)
(* Safety of JobQueue for any number of jobs, workers, crashes and lost    *)
(* outcomes.  How often a handler ran is not stored anywhere, so the       *)
(* inductive invariant ties it to the stored retries_count: they are equal *)
(* while a job waits, and one apart from a run to the record of its        *)
(* outcome.                                                                *)
(***************************************************************************)

Accounted(j) ==
  /\ job[j].status = "none" => job[j].retries = 0
  /\ job[j].status \in {"none", "pending"} => runs[j] = job[j].retries
  /\ job[j].status \in {"none", "pending", "processing"} => job[j].retries < MaxRetries
  /\ runs[j] <= MaxRetries
  /\ job[j].status = "dead_letter" => runs[j] = MaxRetries

InHand(w) ==
  LET j == worker[w].id
  IN /\ At(w, "handle") => runs[j] = job[j].retries
     /\ worker[w].at \in {"complete", "failRead", "failWrite"} => runs[j] = job[j].retries + 1
     /\ At(w, "failWrite") => worker[w].retries = job[j].retries

IInv ==
  /\ TypeOK /\ OneWorkerPerJob
  /\ \A j \in Jobs : Accounted(j)
  /\ \A w \in Workers : InHand(w)

LEMMA InitIInv == Init => IInv
BY RetriesAssumption, NoJobAssumption, BoundsAssumption
   DEF Init, IInv, TypeOK, OneWorkerPerJob, Accounted, InHand, At, Holds, Resting, NoRow,
       Status, Stage

(* A worker at rest has no job, and the others keep theirs. *)
LEMMA HandsFull ==
  ASSUME IInv, NEW w \in Workers, ~At(w, "idle")
  PROVE  /\ worker[w].id \in Jobs
         /\ job[worker[w].id].status = "processing"
         /\ job[worker[w].id].retries < MaxRetries
         /\ \A x \in Workers : worker[x].id = worker[w].id => x = w
BY DEF IInv, TypeOK, OneWorkerPerJob, Accounted, Holds, At

JobRow == [status: Status, retries: 0..MaxRetries, due: BOOLEAN]
WorkerRec == [at: Stage, id: Jobs \cup {NoJob}, retries: 0..MaxRetries]

LEMMA RowChanges ==
  ASSUME NEW row \in JobRow
  PROVE  /\ \A s \in Status : [row EXCEPT !.status = s] \in JobRow
         /\ [row EXCEPT !.due = TRUE] \in JobRow
BY DEF JobRow

LEMMA WorkerChanges ==
  ASSUME NEW f \in WorkerRec, NEW s \in Stage
  PROVE  /\ [f EXCEPT !.at = s] \in WorkerRec
         /\ [f EXCEPT !.at = s].at = s /\ [f EXCEPT !.at = s].id = f.id
BY DEF WorkerRec

LEMMA NextIInv == IInv /\ [Next]_vars => IInv'
<1> SUFFICES ASSUME IInv, [Next]_vars PROVE IInv'
  OBVIOUS
<1> USE RetriesAssumption, NoJobAssumption, BoundsAssumption
<1>0. /\ TypeOK /\ OneWorkerPerJob
      /\ \A j \in Jobs : Accounted(j)
      /\ \A w \in Workers : InHand(w)
  BY DEF IInv
<1>00. job \in [Jobs -> JobRow] /\ worker \in [Workers -> WorkerRec]
  BY <1>0 DEF TypeOK, JobRow, WorkerRec
<1>1. ASSUME NEW j \in Jobs, Enqueue(j) PROVE IInv'
  <2>1. TypeOK'
    BY <1>0, <1>1 DEF Enqueue, SetJob, bounds, TypeOK, At, Status, Stage
  <2>2. OneWorkerPerJob'
    BY <1>0, <1>1 DEF Enqueue, SetJob, bounds, OneWorkerPerJob, Holds, At, TypeOK
  <2>3. ASSUME NEW i \in Jobs PROVE Accounted(i)'
    BY <1>0, <1>1 DEF Enqueue, SetJob, bounds, Accounted, InHand, At, TypeOK
  <2>4. ASSUME NEW x \in Workers PROVE InHand(x)'
    BY <1>0, <1>1 DEF Enqueue, SetJob, bounds, InHand, At, TypeOK, OneWorkerPerJob, Holds, Accounted
  <2> QED
    BY <2>1, <2>2, <2>3, <2>4 DEF IInv
<1>2. ASSUME NEW j \in Jobs, BecomeDue(j) PROVE IInv'
  <2>1. TypeOK'
    <3> DEFINE row == [job[j] EXCEPT !.due = TRUE]
    <3>1. row \in JobRow
      <4>1. job[j] \in JobRow
        BY <1>00
      <4> QED BY <4>1, RowChanges
    <3>2. job' = [job EXCEPT ![j] = row] /\ UNCHANGED <<worker, runs, admin, crashes, errors>>
      BY <1>2 DEF BecomeDue, SetJob, bounds
    <3> HIDE DEF row
    <3> QED
      BY <1>0, <3>1, <3>2 DEF TypeOK, At, JobRow
  <2>2. OneWorkerPerJob'
    BY <1>0, <1>2 DEF BecomeDue, SetJob, bounds, OneWorkerPerJob, Holds, At, TypeOK
  <2>3. ASSUME NEW i \in Jobs PROVE Accounted(i)'
    BY <1>0, <1>2 DEF BecomeDue, SetJob, bounds, Accounted, InHand, At, TypeOK
  <2>4. ASSUME NEW x \in Workers PROVE InHand(x)'
    BY <1>0, <1>2 DEF BecomeDue, SetJob, bounds, InHand, At, TypeOK, OneWorkerPerJob, Holds, Accounted
  <2> QED
    BY <2>1, <2>2, <2>3, <2>4 DEF IInv
<1>3. ASSUME NEW j \in Jobs, RetryDeadLetterJob(j) PROVE IInv'
  <2>1. TypeOK'
    BY <1>0, <1>3 DEF RetryDeadLetterJob, SetJob, TypeOK, At, Status, Stage
  <2>2. OneWorkerPerJob'
    BY <1>0, <1>3 DEF RetryDeadLetterJob, SetJob, OneWorkerPerJob, Holds, At, TypeOK
  <2>3. ASSUME NEW i \in Jobs PROVE Accounted(i)'
    BY <1>0, <1>3 DEF RetryDeadLetterJob, SetJob, Accounted, InHand, At, TypeOK
  <2>4. ASSUME NEW x \in Workers PROVE InHand(x)'
    BY <1>0, <1>3 DEF RetryDeadLetterJob, SetJob, InHand, At, TypeOK, OneWorkerPerJob, Holds, Accounted
  <2> QED
    BY <2>1, <2>2, <2>3, <2>4 DEF IInv
<1>4. ASSUME NEW w \in Workers, NEW j \in Jobs, Dequeue(w, j) PROVE IInv'
  <2>1. TypeOK'
    <3> DEFINE row == [job[j] EXCEPT !.status = "processing"]
               f == [Resting EXCEPT !.at = "handle", !.id = j]
    <3>1. row \in JobRow
      BY <1>00, RowChanges DEF Status
    <3>2. /\ f \in [at: Stage, id: Jobs \cup {NoJob}, retries: 0..MaxRetries]
          /\ f.at = "handle" /\ f.id = j
      <4>1. Resting \in [at: Stage, id: Jobs \cup {NoJob}, retries: 0..MaxRetries]
        BY DEF Resting, Stage
      <4> QED
        BY <4>1 DEF Stage
    <3>3. /\ job' = [job EXCEPT ![j] = row] /\ worker' = [worker EXCEPT ![w] = f]
          /\ UNCHANGED <<runs, admin, crashes, errors>>
      BY <1>4 DEF Dequeue, SetJob, Moves, bounds
    <3> HIDE DEF row, f
    <3> QED
      BY <1>0, <3>1, <3>2, <3>3 DEF TypeOK, At, JobRow
  <2>2. OneWorkerPerJob'
    BY <1>0, <1>4 DEF Dequeue, SetJob, Moves, Resting, bounds, OneWorkerPerJob, Holds, At, TypeOK
  <2>3. ASSUME NEW i \in Jobs PROVE Accounted(i)'
    BY <1>0, <1>4 DEF Dequeue, SetJob, Moves, Resting, bounds, Accounted, InHand, At, TypeOK
  <2>4. ASSUME NEW x \in Workers PROVE InHand(x)'
    BY <1>0, <1>4 DEF Dequeue, SetJob, Moves, Resting, bounds, InHand, At, TypeOK, OneWorkerPerJob, Holds, Accounted
  <2> QED
    BY <2>1, <2>2, <2>3, <2>4 DEF IInv
<1>5. ASSUME NEW w \in Workers, Handle(w) PROVE IInv'
  <2>0. /\ worker[w].id \in Jobs
        /\ job[worker[w].id].status = "processing"
        /\ job[worker[w].id].retries < MaxRetries
        /\ \A x \in Workers : worker[x].id = worker[w].id => x = w
    BY <1>5, HandsFull DEF Handle, At
  <2>1. TypeOK'
    <3>1. PICK s \in {"complete", "failRead"} : Moves(w, [worker[w] EXCEPT !.at = s])
      BY <1>5 DEF Handle
    <3> DEFINE f == [worker[w] EXCEPT !.at = s]
    <3>2. f \in WorkerRec /\ f.at = s /\ f.id = worker[w].id
      <4>1. worker[w] \in WorkerRec /\ s \in Stage
        BY <1>00 DEF Stage
      <4> QED BY <4>1, WorkerChanges
    <3>3. /\ worker' = [worker EXCEPT ![w] = f]
          /\ runs' = [runs EXCEPT ![worker[w].id] = @ + 1]
          /\ UNCHANGED <<job, admin, crashes, errors>>
      BY <1>5, <3>1 DEF Handle, Moves, bounds
    <3> HIDE DEF f
    <3> QED
      BY <1>0, <2>0, <3>2, <3>3 DEF TypeOK, At, WorkerRec
  <2>2. OneWorkerPerJob'
    BY <1>0, <1>5, <2>0 DEF Handle, Moves, bounds, OneWorkerPerJob, Holds, At, TypeOK
  <2>3. ASSUME NEW i \in Jobs PROVE Accounted(i)'
    BY <1>0, <1>5, <2>0 DEF Handle, Moves, bounds, Accounted, InHand, At, TypeOK
  <2>4. ASSUME NEW x \in Workers PROVE InHand(x)'
    BY <1>0, <1>5, <2>0 DEF Handle, Moves, bounds, InHand, At, TypeOK
  <2> QED
    BY <2>1, <2>2, <2>3, <2>4 DEF IInv
<1>6. ASSUME NEW w \in Workers, Complete(w) PROVE IInv'
  <2>0. /\ worker[w].id \in Jobs
        /\ job[worker[w].id].status = "processing"
        /\ job[worker[w].id].retries < MaxRetries
        /\ \A x \in Workers : worker[x].id = worker[w].id => x = w
    BY <1>6, HandsFull DEF Complete, At
  <2>1. TypeOK'
    <3> DEFINE row == [job[worker[w].id] EXCEPT !.status = "completed"]
    <3>1. row \in JobRow
      BY <1>00, <2>0, RowChanges DEF Status
    <3>2. /\ job' = [job EXCEPT ![worker[w].id] = row]
          /\ worker' = [worker EXCEPT ![w] = Resting]
          /\ UNCHANGED <<runs, admin, crashes, errors>>
      BY <1>6 DEF Complete, SetJob, Moves, bounds
    <3> HIDE DEF row
    <3> QED
      BY <1>0, <2>0, <3>1, <3>2 DEF TypeOK, At, Resting, Stage, JobRow
  <2>2. OneWorkerPerJob'
    BY <1>0, <1>6, <2>0 DEF Complete, SetJob, Moves, Resting, bounds, OneWorkerPerJob, Holds, At, TypeOK
  <2>3. ASSUME NEW i \in Jobs PROVE Accounted(i)'
    BY <1>0, <1>6, <2>0 DEF Complete, SetJob, Moves, Resting, bounds, Accounted, InHand, At, TypeOK
  <2>4. ASSUME NEW x \in Workers PROVE InHand(x)'
    BY <1>0, <1>6, <2>0 DEF Complete, SetJob, Moves, Resting, bounds, InHand, At, TypeOK
  <2> QED
    BY <2>1, <2>2, <2>3, <2>4 DEF IInv
<1>7. ASSUME NEW w \in Workers, FailRead(w) PROVE IInv'
  <2>0. /\ worker[w].id \in Jobs
        /\ job[worker[w].id].status = "processing"
        /\ job[worker[w].id].retries < MaxRetries
        /\ \A x \in Workers : worker[x].id = worker[w].id => x = w
    BY <1>7, HandsFull DEF FailRead, At
  <2>1. TypeOK'
    BY <1>0, <1>7, <2>0 DEF FailRead, Moves, bounds, TypeOK, At, Status, Stage
  <2>2. OneWorkerPerJob'
    BY <1>0, <1>7, <2>0 DEF FailRead, Moves, bounds, OneWorkerPerJob, Holds, At, TypeOK
  <2>3. ASSUME NEW i \in Jobs PROVE Accounted(i)'
    BY <1>0, <1>7, <2>0 DEF FailRead, Moves, bounds, Accounted, InHand, At, TypeOK
  <2>4. ASSUME NEW x \in Workers PROVE InHand(x)'
    BY <1>0, <1>7, <2>0 DEF FailRead, Moves, bounds, InHand, At, TypeOK
  <2> QED
    BY <2>1, <2>2, <2>3, <2>4 DEF IInv
<1>8. ASSUME NEW w \in Workers, FailWrite(w) PROVE IInv'
  <2>0. /\ worker[w].id \in Jobs
        /\ job[worker[w].id].status = "processing"
        /\ job[worker[w].id].retries < MaxRetries
        /\ \A x \in Workers : worker[x].id = worker[w].id => x = w
    BY <1>8, HandsFull DEF FailWrite, At
  <2>1. TypeOK'
    BY <1>0, <1>8, <2>0 DEF FailWrite, SetJob, Moves, Resting, bounds, TypeOK, At, Status, Stage, InHand
  <2>2. OneWorkerPerJob'
    BY <1>0, <1>8, <2>0 DEF FailWrite, SetJob, Moves, Resting, bounds, OneWorkerPerJob, Holds, At, TypeOK
  <2>3. ASSUME NEW i \in Jobs PROVE Accounted(i)'
    BY <1>0, <1>8, <2>0 DEF FailWrite, SetJob, Moves, Resting, bounds, Accounted, InHand, At, TypeOK
  <2>4. ASSUME NEW x \in Workers PROVE InHand(x)'
    BY <1>0, <1>8, <2>0 DEF FailWrite, SetJob, Moves, Resting, bounds, InHand, At, TypeOK
  <2> QED
    BY <2>1, <2>2, <2>3, <2>4 DEF IInv
<1>9. ASSUME NEW w \in Workers, OutcomeLost(w) PROVE IInv'
  <2>0. /\ worker[w].id \in Jobs
        /\ job[worker[w].id].status = "processing"
        /\ job[worker[w].id].retries < MaxRetries
        /\ \A x \in Workers : worker[x].id = worker[w].id => x = w
    BY <1>9, HandsFull DEF OutcomeLost, At
  <2>1. TypeOK'
    BY <1>0, <1>9, <2>0 DEF OutcomeLost, Moves, Resting, TypeOK, At, Status, Stage
  <2>2. OneWorkerPerJob'
    BY <1>0, <1>9, <2>0 DEF OutcomeLost, Moves, Resting, OneWorkerPerJob, Holds, At, TypeOK
  <2>3. ASSUME NEW i \in Jobs PROVE Accounted(i)'
    BY <1>0, <1>9, <2>0 DEF OutcomeLost, Moves, Resting, Accounted, InHand, At, TypeOK
  <2>4. ASSUME NEW x \in Workers PROVE InHand(x)'
    BY <1>0, <1>9, <2>0 DEF OutcomeLost, Moves, Resting, InHand, At, TypeOK
  <2> QED
    BY <2>1, <2>2, <2>3, <2>4 DEF IInv
<1>10. ASSUME NEW w \in Workers, Crash(w) PROVE IInv'
  <2>0. /\ worker[w].id \in Jobs
        /\ job[worker[w].id].status = "processing"
        /\ job[worker[w].id].retries < MaxRetries
        /\ \A x \in Workers : worker[x].id = worker[w].id => x = w
    BY <1>10, HandsFull DEF Crash, At
  <2>1. TypeOK'
    BY <1>0, <1>10, <2>0 DEF Crash, Moves, Resting, TypeOK, At, Status, Stage
  <2>2. OneWorkerPerJob'
    BY <1>0, <1>10, <2>0 DEF Crash, Moves, Resting, OneWorkerPerJob, Holds, At, TypeOK
  <2>3. ASSUME NEW i \in Jobs PROVE Accounted(i)'
    BY <1>0, <1>10, <2>0 DEF Crash, Moves, Resting, Accounted, InHand, At, TypeOK
  <2>4. ASSUME NEW x \in Workers PROVE InHand(x)'
    BY <1>0, <1>10, <2>0 DEF Crash, Moves, Resting, InHand, At, TypeOK
  <2> QED
    BY <2>1, <2>2, <2>3, <2>4 DEF IInv
<1>11. CASE UNCHANGED vars
  BY <1>0, <1>11 DEF vars, IInv, TypeOK, OneWorkerPerJob, Accounted, InHand, At, Holds
<1> QED
  BY <1>1, <1>2, <1>3, <1>4, <1>5, <1>6, <1>7, <1>8, <1>9, <1>10, <1>11 DEF Next, WorkerStep
-----------------------------------------------------------------------------
(* Rows, workers and counters keep their types. *)
THEOREM TypeCorrect == Spec => []TypeOK
BY InitIInv, NextIInv, PTL DEF Spec, IInv

(* Dequeue's row lock gives a job to one worker until its outcome is in,   *)
(* whatever other workers, admins and crashes do.                          *)
THEOREM OneWorkerAtATime == Spec => []OneWorkerPerJob
BY InitIInv, NextIInv, PTL DEF Spec, IInv

(* Fail gives a job up after exactly max_retries runs of its handler.      *)
THEOREM RunsAreBounded == Spec => []RunsBounded
<1>1. IInv => RunsBounded
  BY DEF IInv, Accounted, RunsBounded
<1> QED
  BY <1>1, InitIInv, NextIInv, PTL DEF Spec

-----------------------------------------------------------------------------
(***************************************************************************)
(* The breaker is never shut for good in the half-open state, for every    *)
(* configuration with SuccessThreshold <= HalfOpenMaxReqs + 1 and any      *)
(* number of concurrent requests.                                          *)
(***************************************************************************)
BreakerInv == BreakerTypeOK /\ TrialAccounted

(* NewCircuitBreaker starts closed, with no request in flight.             *)
LEMMA BreakerStarts == BreakerInit => BreakerInv
  BY BreakerConfig
  DEF BreakerInit, NewCircuitBreaker, BreakerInv, BreakerTypeOK, TrialAccounted

(* Admitting a request adds one to both sides of TrialAccounted, except    *)
(* the request that opens the trial, which is in flight and not counted.   *)
LEMMA AdmitKeeps == BreakerInv /\ beforeRequest => BreakerInv'
  <1> SUFFICES ASSUME BreakerInv, beforeRequest PROVE BreakerInv'
    OBVIOUS
  <1>1. CASE cbState = "closed"
    BY <1>1, BreakerConfig
    DEF BreakerInv, BreakerTypeOK, TrialAccounted, beforeRequest
  <1>2. CASE cbState = "open"
    <2>1. /\ inFlight < MaxInFlight /\ inFlight' = inFlight + 1
          /\ cbState' = "half-open"
          /\ failures' = failures /\ successes' = 0 /\ halfOpenReqs' = 0
      BY <1>2 DEF beforeRequest, transitionTo
    <2>t. timedOut' \in BOOLEAN
      BY <1>2 DEF beforeRequest, transitionTo
    <2> QED
      BY <2>1, <2>t, BreakerConfig DEF BreakerInv, BreakerTypeOK, TrialAccounted
  <1>3. CASE cbState = "half-open"
    BY <1>3, BreakerConfig
    DEF BreakerInv, BreakerTypeOK, TrialAccounted, beforeRequest
  <1> QED
    BY <1>1, <1>2, <1>3 DEF BreakerInv, BreakerTypeOK

(* A report takes a request out of flight; a success in the trial is       *)
(* counted, and a failure ends the trial.                                  *)
LEMMA ReportKeeps == BreakerInv /\ afterRequest => BreakerInv'
  <1> SUFFICES ASSUME BreakerInv, afterRequest PROVE BreakerInv'
    OBVIOUS
  <1>0. inFlight > 0 /\ inFlight' = inFlight - 1
    BY DEF afterRequest
  <1>t. timedOut' \in BOOLEAN
    BY DEF BreakerInv, BreakerTypeOK, afterRequest, reportFailure,
           reportSuccess, transitionTo
  <1>1. CASE reportFailure
    <2>1. /\ cbState' \in {"closed", "open"}
          /\ failures' \in {failures, failures + 1}
          /\ successes' = successes /\ halfOpenReqs' = halfOpenReqs
          /\ cbState' = "closed" =>
               cbState = "closed" /\ failures' < FailureThreshold
          /\ failures' = failures + 1 => cbState = "closed"
      BY <1>1, BreakerConfig
      DEF BreakerInv, BreakerTypeOK, reportFailure, transitionTo
    <2> QED
      BY <1>0, <1>t, <2>1, BreakerConfig
      DEF BreakerInv, BreakerTypeOK, TrialAccounted
  <1>2. CASE reportSuccess
    <2>1. CASE cbState = "half-open"
      <3>1. /\ halfOpenReqs' = halfOpenReqs /\ successes' = successes + 1
            /\ \/ /\ successes + 1 < SuccessThreshold
                  /\ cbState' = cbState /\ failures' = failures
               \/ cbState' = "closed" /\ failures' = 0
        BY <1>2, <2>1 DEF reportSuccess
      <3> QED
        BY <1>0, <1>t, <2>1, <3>1, BreakerConfig
        DEF BreakerInv, BreakerTypeOK, TrialAccounted
    <2>2. CASE cbState # "half-open"
      <3>1. /\ halfOpenReqs' = halfOpenReqs /\ successes' = successes
            /\ cbState' = cbState /\ failures' \in {0, failures}
        BY <1>2, <2>2 DEF reportSuccess
      <3> QED
        BY <1>0, <1>t, <2>2, <3>1, BreakerConfig
        DEF BreakerInv, BreakerTypeOK, TrialAccounted
    <2> QED
      BY <2>1, <2>2
  <1> QED
    BY <1>1, <1>2 DEF afterRequest

(* The accounting of a trial holds in every state.                         *)
THEOREM BreakerInvariant == BreakerSpec => []BreakerInv
  <1>1. BreakerInv /\ [BreakerNext]_cbVars => BreakerInv'
    <2> SUFFICES ASSUME BreakerInv, [BreakerNext]_cbVars PROVE BreakerInv'
      OBVIOUS
    <2>1. CASE beforeRequest
      BY <2>1, AdmitKeeps
    <2>2. CASE afterRequest
      BY <2>2, ReportKeeps
    <2>3. CASE ResetBreaker
      BY <2>3, BreakerConfig
      DEF BreakerInv, BreakerTypeOK, TrialAccounted, ResetBreaker
    <2>4. CASE OpenTimeoutPasses
      BY <2>4, BreakerConfig
      DEF BreakerInv, BreakerTypeOK, TrialAccounted, OpenTimeoutPasses
    <2>5. CASE UNCHANGED cbVars
      BY <2>5 DEF BreakerInv, BreakerTypeOK, TrialAccounted, cbVars
    <2> QED
      BY <2>1, <2>2, <2>3, <2>4, <2>5 DEF BreakerNext
  <1> QED
    BY <1>1, BreakerStarts, PTL DEF BreakerSpec

(* In a configuration whose trials can close the breaker (TrialCanClose),  *)
(* a half-open breaker that turns requests away always has a request in    *)
(* flight whose report will move it: since fewer than SuccessThreshold     *)
(* successes are counted, one of the HalfOpenMaxReqs + 1 admitted requests *)
(* has not reported.                                                       *)
THEOREM BreakerNeverStuck == TrialCanClose => (BreakerSpec => []NeverStuckHalfOpen)
  <1> SUFFICES ASSUME TrialCanClose PROVE BreakerSpec => []NeverStuckHalfOpen
    OBVIOUS
  <1>1. BreakerInv => NeverStuckHalfOpen
    BY BreakerConfig
    DEF TrialCanClose, BreakerInv, BreakerTypeOK, TrialAccounted, NeverStuckHalfOpen
  <1> QED
    BY <1>1, BreakerInvariant, PTL

(* In every configuration, whatever earlier requests report and whenever   *)
(* it is reset, each request a trial admitted has reported a success that  *)
(* is counted or is still in flight.                                       *)
THEOREM TrialsAccounted == BreakerSpec => []TrialAccounted
  <1>1. BreakerInv => TrialAccounted
    BY DEF BreakerInv
  <1> QED
    BY <1>1, BreakerInvariant, PTL

(* The counters of the breaker keep their ranges.                          *)
THEOREM BreakerTypeCorrect == BreakerSpec => []BreakerTypeOK
  <1>1. BreakerInv => BreakerTypeOK
    BY DEF BreakerInv
  <1> QED
    BY <1>1, BreakerInvariant, PTL
=============================================================================
