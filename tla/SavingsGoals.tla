---------------------------- MODULE SavingsGoals ----------------------------
(* Personal savings goals (internal/domain/savings, savings_handler.go).       *)
(* Every change of a goal reads its row, edits the copy and writes all of its  *)
(* columns back by id, with nothing held in between, so requests on one goal   *)
(* overlap freely.                                                             *)
EXTENDS Naturals

CONSTANTS Owners, Goals,  \* callers and goal ids
          Savers,         \* requests in flight
          Targets         \* amounts a request may carry

\* A goal starts with nothing saved.
ASSUME SavingsAssumption == 0 \in Targets

VARIABLES goals,    \* id -> row, or NoGoal
          edit,     \* request -> its step, goal and copy of the row
          origin,   \* id -> the kind of request that wrote the row last
          gone      \* ids whose row was deleted

savingsVars == <<goals, edit, origin, gone>>

NoGoal == [owner |-> "none", target |-> 0, current |-> 0, status |-> "none"]
Waiting == [step |-> "idle", goal |-> "none", copy |-> NoGoal]

SavingsInit ==
    /\ goals = [g \in Goals |-> NoGoal]
    /\ edit = [q \in Savers |-> Waiting]
    /\ origin = [g \in Goals |-> "none"]
    /\ gone = {}

Exists(g) == goals[g] # NoGoal

\* CreateGoal: a positive target, nothing saved yet; the database picks the id.
CreateGoal(q, u) ==
    /\ edit[q] = Waiting
    /\ \E g \in Goals \ gone, amount \in Targets \ {0} :
          /\ ~Exists(g)
          /\ goals' = [goals EXCEPT ![g] = [owner |-> u, target |-> amount, current |-> 0,
                                            status |-> "active"]]
          /\ origin' = [origin EXCEPT ![g] = "create"]
    /\ UNCHANGED <<edit, gone>>

\* FindByID and the caller's id against the row's: "goal not found" otherwise.
MayTouch(g, u) == Exists(g) /\ goals[g].owner = u

\* UpdateGoal and CompleteGoal up to the write: the columns the request names
\* are replaced in the copy that was read (its own values: those it leaves out).
UpdateGoal(q, u, g) ==
    /\ edit[q] = Waiting /\ MayTouch(g, u)
    /\ \E target, current \in Targets, status \in {"active", "completed"} :
          edit' = [edit EXCEPT ![q] =
              [step |-> "update", goal |-> g,
               copy |-> [goals[g] EXCEPT !.target = target, !.current = current,
                                         !.status = status]]]
    /\ UNCHANGED <<goals, origin, gone>>

CompleteGoal(q, u, g) ==
    /\ edit[q] = Waiting /\ MayTouch(g, u)
    /\ edit' = [edit EXCEPT ![q] =
          [step |-> "complete", goal |-> g,
           copy |-> [goals[g] EXCEPT !.status = "completed", !.current = goals[g].target]]]
    /\ UNCHANGED <<goals, origin, gone>>

DeleteGoal(q, u, g) ==
    /\ edit[q] = Waiting /\ MayTouch(g, u)
    /\ edit' = [edit EXCEPT ![q] = [step |-> "delete", goal |-> g, copy |-> goals[g]]]
    /\ UNCHANGED <<goals, origin, gone>>

\* Mutated form: completing writes only the columns it computed.
WrittenTorn(old, step, new) ==
    IF step = "complete" THEN [old EXCEPT !.status = new.status, !.current = new.current] ELSE new

\* The columns of UPDATE savings_goals SET: all that the handler can change.
Written(old, step, new) == [new EXCEPT !.owner = old.owner]

\* Update: WHERE id; no row matched is no error, and the request succeeds.
Update(q) ==
    LET f == edit[q] IN
    /\ f.step \in {"update", "complete"}
    /\ IF Exists(f.goal)
       THEN /\ goals' = [goals EXCEPT ![f.goal] = Written(@, f.step, f.copy)]
            /\ origin' = [origin EXCEPT ![f.goal] = f.step]
       ELSE UNCHANGED <<goals, origin>>
    /\ edit' = [edit EXCEPT ![q] = Waiting]
    /\ UNCHANGED gone

Delete(q) ==
    LET f == edit[q] IN
    /\ f.step = "delete"
    /\ goals' = [goals EXCEPT ![f.goal] = NoGoal]
    /\ gone' = gone \cup {f.goal}
    /\ edit' = [edit EXCEPT ![q] = Waiting]
    /\ UNCHANGED origin

\* The write fails.
Fault(q) ==
    /\ edit[q].step # "idle"
    /\ edit' = [edit EXCEPT ![q] = Waiting]
    /\ UNCHANGED <<goals, origin, gone>>

SavingsNext ==
    \E q \in Savers :
       \/ \E u \in Owners : CreateGoal(q, u)
       \/ \E u \in Owners, g \in Goals : \/ UpdateGoal(q, u, g) \/ CompleteGoal(q, u, g)
                                         \/ DeleteGoal(q, u, g)
       \/ Update(q) \/ Delete(q) \/ Fault(q)

SavingsSpec == SavingsInit /\ [][SavingsNext]_savingsVars

GoalRows == [owner : Owners, target : Targets, current : Targets,
         status : {"active", "completed"}]

SavingsTypeOK ==
    /\ goals \in [Goals -> GoalRows \cup {NoGoal}]
    /\ edit \in [Savers -> {Waiting} \cup
                    [step : {"update", "complete", "delete"}, goal : Goals, copy : GoalRows]]
    /\ origin \in [Goals -> {"none", "create", "update", "complete"}]
    /\ gone \subseteq Goals

\* A goal that was completed last holds a completed row whose saved amount is
\* its target, also when the target was being changed meanwhile: overlapping
\* requests lose each other's changes but never mix into one row (CompleteGoal,
\* and Update writing every column of the copy that was read).
CompletedWhole ==
    \A g \in Goals : Exists(g) /\ origin[g] = "complete" =>
        goals[g].status = "completed" /\ goals[g].current = goals[g].target

\* A deleted goal never comes back, even by a request that had read the row
\* before it was deleted (DeleteGoal; Update matches no row then).
DeletedStays == \A g \in gone : ~Exists(g)

\* What the code keeps between its steps, on which the two properties rest: a
\* request that is about to complete a goal holds a row that is whole.
SavingsInv ==
    /\ SavingsTypeOK /\ CompletedWhole /\ DeletedStays
    /\ \A q \in Savers : edit[q].step = "complete" =>
          edit[q].copy.status = "completed" /\ edit[q].copy.current = edit[q].copy.target
=============================================================================
