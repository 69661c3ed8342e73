----------------------------- MODULE Migrations -----------------------------
(***************************************************************************)
(* cmd/migrate: runs of the migration command against one database.  A     *)
(* version is <<prefix, name>>, "016_widen" is <<16, 2>>; the row an older *)
(* runner wrote for a whole prefix is <<prefix, 0>>.  A run pins one       *)
(* connection, takes the advisory lock, plans and then executes one        *)
(* transaction per file; a crash or a failing statement may end it at any  *)
(* point, and the database then drops its lock and its open transaction.   *)
(***************************************************************************)
EXTENDS Integers, Sequences, FiniteSets, SequencesExt

CONSTANTS Files,        \* the up files in lexicographic order: versions
          Irreversible, \* the versions with no down file
          Legacy,       \* prefixes an older runner may have recorded
          Runners,      \* processes that run the command
          MaxRuns

VARIABLES rows,    \* schema_migrations
          schema,  \* the versions whose DDL is in force
          lock,    \* the run that holds the advisory lock
          run,     \* the frames
          started,
          legacy   \* the prefixes the older runner recorded
migrateVars == <<rows, schema, lock, run, started, legacy>>

NoRunner == "nobody"
NoTarget == <<0, 0>>
Ended == [pc |-> "ended", dir |-> "up", to |-> NoTarget, count |-> 0, todo |-> <<>>]

prefixOf(v) == v[1]
Bare(v) == <<v[1], 0>>
Index(v) == CHOOSE i \in 1..Len(Files) : Files[i] = v
Covered(p) == {v \in Range(Files) : prefixOf(v) = p}

(* A new database, or one an older runner brought to some prefix: of the   *)
(* files that share a prefix it may have applied any, with one row.        *)
MigrateInit ==
    /\ legacy \in {{p \in Legacy : p <= last} : last \in {0} \cup Legacy}
    /\ rows = {<<p, 0>> : p \in legacy}
    /\ schema \in {S \in SUBSET UNION {Covered(p) : p \in legacy} :
                    \A p \in legacy : S \cap Covered(p) # {}}
    /\ lock = NoRunner
    /\ run = [r \in Runners |-> Ended]
    /\ started = 0

(* Options.Validate: a target and a count exclude each other. *)
Validate(to, count) == to = NoTarget \/ count = 0

(* resolveTargetIndex: the full version, or a prefix that one file has;    *)
(* 0 when the target is unknown or ambiguous.                              *)
resolveTargetIndex(to) ==
    IF to \in Range(Files) THEN Index(to)
    ELSE IF Cardinality(Covered(prefixOf(to))) = 1
         THEN Index(CHOOSE v \in Covered(prefixOf(to)) : TRUE)
         ELSE 0

(* expandLegacyRows: a bare prefix stands for every file that carries it. *)
expandLegacyRows(raw) ==
    raw \cup UNION {Covered(v[1]) : v \in {w \in raw : w[2] = 0}}

Take(s, n) == IF n = 0 THEN s ELSE SubSeq(s, 1, IF n < Len(s) THEN n ELSE Len(s))

(* selectUpFiles: the pending files in order, through the target. *)
selectUpFiles(applied, to, count) ==
    LET last == IF to = NoTarget THEN Len(Files) ELSE resolveTargetIndex(to)
        pending == SelectSeq(Files, LAMBDA v : v \notin applied /\ Index(v) <= last)
    IN Take(pending, count)

(* selectDownFiles: the applied files that can be reverted, newest first,  *)
(* down to the target, which stays applied.                                *)
selectDownFiles(applied, to, count) ==
    LET first == IF to = NoTarget THEN 0 ELSE resolveTargetIndex(to)
        back == SelectSeq(Reverse(Files), LAMBDA v :
                  v \in applied /\ v \notin Irreversible /\ Index(v) > first)
    IN Take(back, count)

(* Run: a process is started with its options and asks for the lock. *)
Run(r, dir, to, count) ==
    /\ run[r].pc = "ended" /\ started < MaxRuns
    /\ Validate(to, count)
    /\ run' = [run EXCEPT ![r] = [pc |-> "wait", dir |-> dir, to |-> to,
                                  count |-> count, todo |-> <<>>]]
    /\ started' = started + 1
    /\ UNCHANGED <<rows, schema, lock, legacy>>

(* Mutated form: the advisory lock is not taken. *)
ensureMigrationsTableOnly(r) ==
    /\ run[r].pc = "wait"
    /\ run' = [run EXCEPT ![r].pc = "plan"]
    /\ UNCHANGED <<rows, schema, lock, started, legacy>>

(* ensureMigrationsTable: the table, then the lock, which waits. *)
ensureMigrationsTable(r) ==
    /\ run[r].pc = "wait" /\ lock = NoRunner
    /\ lock' = r
    /\ run' = [run EXCEPT ![r].pc = "plan"]
    /\ UNCHANGED <<rows, schema, started, legacy>>

(* releaseAdvisoryLock: an error, the end of the work, or the connection's *)
(* loss.                                                                   *)
releaseAdvisoryLock(r) ==
    /\ lock' = IF lock = r THEN NoRunner ELSE lock
    /\ run' = [run EXCEPT ![r] = Ended]

(* runMigrationsUp and runMigrationsDown up to the loop: the rows are read *)
(* and the files chosen; a target that does not resolve ends the run.      *)
runMigrationsUp(r) == selectUpFiles(expandLegacyRows(rows), run[r].to, run[r].count)
runMigrationsDown(r) == selectDownFiles(expandLegacyRows(rows), run[r].to, run[r].count)
Plan(r) ==
    /\ run[r].pc = "plan"
    /\ IF run[r].to # NoTarget /\ resolveTargetIndex(run[r].to) = 0
       THEN releaseAdvisoryLock(r)
       ELSE /\ run' = [run EXCEPT ![r].pc = "exec", ![r].todo =
                         IF run[r].dir = "up" THEN runMigrationsUp(r)
                                              ELSE runMigrationsDown(r)]
            /\ UNCHANGED lock
    /\ UNCHANGED <<rows, schema, started, legacy>>

recordApplied(v) == (rows \cup {v}) \ {Bare(v)}
removeApplied(v) == rows \ {v, Bare(v)}

(* executeMigration: the file's statements and its record, one transaction.*)
executeMigration(r) ==
    /\ run[r].todo # <<>>
    /\ LET v == Head(run[r].todo)
       IN IF run[r].dir = "up"
          THEN schema' = schema \cup {v} /\ rows' = recordApplied(v)
          ELSE schema' = schema \ {v} /\ rows' = removeApplied(v)
    /\ run' = [run EXCEPT ![r].todo = Tail(@)]
    /\ UNCHANGED <<lock, started, legacy>>

(* readMigrations: the files one by one, then the lock is released. *)
readMigrations(r) ==
    /\ run[r].pc = "exec"
    /\ \/ executeMigration(r)
       \/ run[r].todo = <<>> /\ releaseAdvisoryLock(r) /\ UNCHANGED <<rows, schema, started, legacy>>

(* A statement fails, or the process dies: nothing of the open transaction *)
(* stays.                                                                  *)
Stop(r) ==
    /\ run[r].pc # "ended"
    /\ releaseAdvisoryLock(r)
    /\ UNCHANGED <<rows, schema, started, legacy>>

Targets == {NoTarget} \cup Range(Files) \cup {Bare(v) : v \in Range(Files)}
MigrateNext ==
    \E r \in Runners :
        \/ \E dir \in {"up", "down"}, to \in Targets, count \in 0..Len(Files) :
               Run(r, dir, to, count)
        \/ ensureMigrationsTable(r) \/ Plan(r) \/ readMigrations(r) \/ Stop(r)
MigrateSpec == MigrateInit /\ [][MigrateNext]_migrateVars

-----------------------------------------------------------------------------
(* Rows are versions or bare prefixes of files, plans are files. *)
MigrateTypeOK ==
    /\ rows \subseteq Range(Files) \cup {Bare(v) : v \in Range(Files)}
    /\ schema \subseteq Range(Files)
    /\ lock \in Runners \cup {NoRunner}
    /\ \A r \in Runners : Range(run[r].todo) \subseteq Range(Files)

(* Files of a prefix that the older runner recorded with one row for       *)
(* several: which of them are in force is not known.                       *)
Doubtful(v) == prefixOf(v) \in legacy /\ Cardinality(Covered(prefixOf(v))) > 1

(* At every moment, whatever runs were stopped and wherever, the schema    *)
(* has exactly the migrations that schema_migrations says are applied, the *)
(* older runner's rows included.  Of the files one such row stands for     *)
(* together, those with a row of their own are in force: reverting one     *)
(* deletes the row of all (removeApplied), and its siblings are no longer  *)
(* recorded though they may be in force.                                   *)
RecordIsSchema ==
    /\ rows \cap Range(Files) \subseteq schema
    /\ \A v \in Range(Files) : v \in expandLegacyRows(rows) /\ ~Doubtful(v) => v \in schema
    /\ \A v \in schema : v \in expandLegacyRows(rows) \/ Doubtful(v)

(* Migrations are in force in order: below one that can be reverted        *)
(* nothing is missing, below one that cannot no other such one is.         *)
InOrder ==
    \A i, j \in 1..Len(Files) :
        /\ i < j /\ ~Doubtful(Files[i]) /\ ~Doubtful(Files[j])
        /\ Files[j] \in schema
        /\ Files[j] \notin Irreversible \/ Files[i] \in Irreversible
        => Files[i] \in schema

(* No statement runs twice: what a run is still going to apply is not in   *)
(* force, what it is going to revert is, although it planned before it     *)
(* executed and other runs are waiting; and nothing is applied of a prefix *)
(* the older runner recorded while that row is there (expandLegacyRows).   *)
PlanCurrent ==
    \A r \in Runners : \A v \in Range(run[r].todo) :
        /\ ~Doubtful(v) => (v \in schema <=> run[r].dir = "down")
        /\ run[r].dir = "up" => Bare(v) \notin rows
=============================================================================
