----------------------------- MODULE Migrations -----------------------------
(***************************************************************************)
(* landro-index/src/migrations.rs: programs of different releases open one *)
(* index database, perhaps at the same time, and migrate it to the version *)
(* each of them wants.                                                     *)
(*                                                                         *)
(* A migration is its version: its statements and the row it adds to       *)
(* schema_version are one SQLite transaction.  version is the primary key  *)
(* of that table.                                                          *)
(***************************************************************************)
EXTENDS FiniteSetsExt, Naturals

CONSTANTS
    Programs,
    MaxVersion,     \* versions (bound)
    Irreversible    \* migrations without `down' statements

(* A Migration is its version; those in Irreversible have no way down. *)
Migration == 1..MaxVersion

ASSUME MigrationAssumption == MaxVersion \in Nat /\ Irreversible \subseteq Migration

VARIABLES
    schema_version, \* the versions in the table
    running,        \* each program: [at, up, todo, target]
    crossed,        \* observation: an upgrade and a downgrade ran at the same time
    beheaded        \* observation: a downgrade began below the version of the database

gvars == <<schema_version, running, crossed, beheaded>>

Stopped == [at |-> "stopped", up |-> TRUE, todo |-> {}, target |-> 0]

MigrationInit ==
    /\ schema_version = {}
    /\ running = [p \in Programs |-> Stopped]
    /\ crossed = FALSE /\ beheaded = FALSE

get_current_version == IF schema_version = {} THEN 0 ELSE Max(schema_version)

(* Versions from 1 without a gap, the target among them. *)
validate(registered, target) ==
    /\ registered = 1..Cardinality(registered)
    /\ registered # {} => target \in registered

(* migrate_up in ascending, migrate_down in descending order. *)
UnsortedVersion(todo, up) == Max(todo)
NextVersion(todo, up) == IF up THEN Min(todo) ELSE Max(todo)

-----------------------------------------------------------------------------
(* What migrate_up applies and migrate_down rolls back: decided once, by   *)
(* the version read at the start.                                          *)
Pending(registered, from, to) == {v \in registered : v > from /\ v <= to}
Undone(registered, from, to) == {v \in registered : v <= from /\ v > to}

(* run_migrations of a program that knows the registered migrations.  One  *)
(* that knows none has nothing to do and succeeds.  One that knows some,   *)
(* but not the latest of the database, rolls back from the middle.         *)
run_migrations(p, registered, target) ==
    LET from == get_current_version
        up == from <= target
        todo == IF up THEN Pending(registered, from, target) ELSE Undone(registered, from, target)
    IN  /\ running[p].at # "migrating" /\ validate(registered, target)
        /\ running' = [running EXCEPT ![p] =
               [at |-> IF todo = {} THEN "ok" ELSE "migrating", up |-> up, todo |-> todo, target |-> target]]
        /\ crossed' = (crossed \/ \E q \in Programs \ {p} :
               running[q].at = "migrating" /\ todo # {} /\ running[q].up # up)
        /\ beheaded' = (beheaded \/ (todo # {} /\ ~ up /\ from \notin registered))
        /\ UNCHANGED schema_version

Advance(p, version) ==
    LET rest == running[p].todo \ {version}
    IN  running' = [running EXCEPT ![p].todo = rest, ![p].at = IF rest = {} THEN "ok" ELSE "migrating"]

apply(p) ==
    LET version == NextVersion(running[p].todo, TRUE)
    IN  /\ running[p].at = "migrating" /\ running[p].up
        /\ version \notin schema_version
        /\ schema_version' = schema_version \cup {version}
        /\ Advance(p, version)
        /\ UNCHANGED <<crossed, beheaded>>

(* Deleting a row that is not there is no error. *)
rollback(p) ==
    LET version == NextVersion(running[p].todo, FALSE)
    IN  /\ running[p].at = "migrating" /\ ~running[p].up
        /\ version \notin Irreversible
        /\ schema_version' = schema_version \ {version}
        /\ Advance(p, version)
        /\ UNCHANGED <<crossed, beheaded>>

(* A statement fails, the version is there already, the rollback is not    *)
(* supported, or the program dies: the transaction is undone.              *)
MigrationFails(p) ==
    /\ running[p].at = "migrating"
    /\ running' = [running EXCEPT ![p].at = "error", ![p].todo = {}]
    /\ UNCHANGED <<schema_version, crossed, beheaded>>

MigrationNext ==
    \E p \in Programs :
        \/ \E registered \in SUBSET Migration, target \in 0..MaxVersion :
            run_migrations(p, registered, target)
        \/ apply(p) \/ rollback(p) \/ MigrationFails(p)

-----------------------------------------------------------------------------
MigrationSpec == MigrationInit /\ [][MigrationNext]_gvars

(* Wherever migrations stop, and although every program decides once what  *)
(* it will apply: the recorded versions have no gap, so that their maximum *)
(* tells what the database has.  Only an upgrade beside a downgrade can    *)
(* leave one, or a downgrade by a program that does not know the latest    *)
(* migration of the database.                                              *)
VersionsHaveNoGap ==
    ~ crossed /\ ~ beheaded => schema_version = 1..Cardinality(schema_version)
=============================================================================
