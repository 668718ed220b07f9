----------------------------- MODULE SchemaSetup -----------------------------
(***************************************************************************)
(* How the derived index gets its schema (database.py): storage init makes *)
(* the tables of a new state.db, storage migrate adds those of version 3   *)
(* to one of version 1, and every other command opens what validate_schema *)
(* accepts.  Both begin a transaction, but executescript commits it before *)
(* its first statement and then every statement commits on its own.        *)
(* Processes run at the same time, wait for each other's locks or give up, *)
(* and may die between any two steps.  Journal modes are SqliteFiles'.     *)
(***************************************************************************)
EXTENDS Naturals, Sequences, FiniteSets

CONSTANTS Processes,
          Legacy,     \* whether a version 1 index may or must be there at first
          Patient,    \* no lock is held longer than others wait for it
          MaxDeaths   \* bound: processes that die

DeathsAreBounded == MaxDeaths \in Nat /\ Legacy \subseteq BOOLEAN /\ Patient \in BOOLEAN /\ IsFiniteSet(Processes)

VARIABLES exists,   \* state.db is there
          tables,   \* its tables
          records,  \* the versions recorded in schema_metadata
          lock,     \* the processes inside a write transaction: none or one
          op,       \* what each process does
          logged,   \* committed rows are still in the WAL of a dead writer
          backup,   \* the last copy made before a migration
          deaths

vars == <<exists, tables, records, lock, op, logged, backup, deaths>>

SCHEMA_VERSION == 3
BaseTables == <<"schema_metadata", "runs", "evidence_records">>
V2Tables == <<"snapshots", "snapshot_entries", "snapshot_diffs", "snapshot_diff_entries">>
Names(script) == {script[k] : k \in 1..Len(script)}
AllTables == Names(BaseTables) \cup Names(V2Tables)

Idle == [at |-> "idle", command |-> "none", script |-> <<>>]
NoBackup == [made |-> FALSE, whole |-> FALSE]

Init ==
    /\ exists \in Legacy
    /\ tables = IF exists THEN Names(BaseTables) ELSE {}
    /\ records = IF exists THEN <<1>> ELSE <<>>
    /\ lock = {} /\ op = [p \in Processes |-> Idle]
    /\ logged \in IF exists THEN BOOLEAN ELSE {FALSE}
    /\ backup = NoBackup /\ deaths = 0

-----------------------------------------------------------------------------
(* validate_schema: the three base tables and one record of this version.   *)
Valid == /\ Names(BaseTables) \subseteq tables
         /\ records = <<SCHEMA_VERSION>>

At(p, step) == op[p].at = step
Goto(p, step) == op' = [op EXCEPT ![p].at = step]
Finish(p) == op' = [op EXCEPT ![p] = Idle]
Run(p, command, step, script) == op' = [op EXCEPT ![p] = [at |-> step, command |-> command, script |-> script]]

(* open_initialized connects and validates; nothing changes but the WAL,    *)
(* which is recovered by the first connection and checkpointed by the last. *)
Use(p) ==
    /\ At(p, "idle") /\ exists
    /\ logged' = FALSE
    /\ UNCHANGED <<exists, tables, records, lock, op, backup, deaths>>

-----------------------------------------------------------------------------
(* initialize: an existing path is only validated.                          *)
InitStorage(p) ==
    /\ At(p, "idle") /\ ~ exists
    /\ Run(p, "init", "connect", BaseTables)
    /\ UNCHANGED <<exists, tables, records, lock, logged, backup, deaths>>

Connect(p) ==
    /\ At(p, "connect") /\ exists' = TRUE /\ Goto(p, "begin")
    /\ UNCHANGED <<tables, records, lock, logged, backup, deaths>>

(* BEGIN IMMEDIATE                                                          *)
Begin(p) ==
    /\ At(p, "begin") /\ lock = {} /\ lock' = {p} /\ Goto(p, "commit")
    /\ UNCHANGED <<exists, tables, records, logged, backup, deaths>>

KeepTransaction(p) ==  \* deviation: the script runs inside the transaction
    /\ At(p, "commit") /\ Goto(p, "script")
    /\ UNCHANGED <<exists, tables, records, lock, logged, backup, deaths>>

(* executescript ends the transaction it finds.                             *)
ScriptCommits(p) ==
    /\ At(p, "commit") /\ lock' = lock \ {p} /\ Goto(p, "script")
    /\ UNCHANGED <<exists, tables, records, logged, backup, deaths>>

CreateIfMissing(p) ==  \* deviation: CREATE TABLE IF NOT EXISTS
    /\ At(p, "script") /\ op[p].script # <<>> /\ lock = {}
    /\ tables' = tables \cup {Head(op[p].script)} /\ op' = [op EXCEPT ![p].script = Tail(@)]
    /\ UNCHANGED <<exists, records, lock, logged, backup, deaths>>

(* A statement of the script; a table that is there already is an error,    *)
(* and there is nothing left to roll back.                                  *)
CreateTable(p) ==
    /\ At(p, "script") /\ op[p].script # <<>> /\ lock = {}
    /\ IF Head(op[p].script) \in tables
       THEN Finish(p) /\ UNCHANGED tables
       ELSE tables' = tables \cup {Head(op[p].script)} /\ op' = [op EXCEPT ![p].script = Tail(@)]
    /\ UNCHANGED <<exists, records, lock, logged, backup, deaths>>

RecordEarly(p) ==  \* deviation: the version is recorded before the tables of version 2
    /\ At(p, "script") /\ op[p].script = <<>>
    /\ IF Names(V2Tables) \cap tables = {} /\ op[p].command = "init" /\ records = <<>>
       THEN records' = <<SCHEMA_VERSION>> /\ op' = [op EXCEPT ![p].script = V2Tables]
       ELSE UNCHANGED records /\ Goto(p, "record")
    /\ UNCHANGED <<exists, tables, lock, logged, backup, deaths>>

(* init goes on with _v2_tables; after them the version is recorded.        *)
ScriptEnds(p) ==
    /\ At(p, "script") /\ op[p].script = <<>>
    /\ IF op[p].command = "init"
       THEN Run(p, "init tables", "script", V2Tables)
       ELSE Goto(p, "record")
    /\ UNCHANGED <<exists, tables, records, lock, logged, backup, deaths>>

(* INSERT by init, UPDATE by migrate, each in a transaction of its own.     *)
Record(p) ==
    /\ At(p, "record") /\ lock = {} /\ Finish(p)
    /\ records' = IF op[p].command = "migrate" THEN [k \in 1..Len(records) |-> SCHEMA_VERSION]
                                               ELSE Append(records, SCHEMA_VERSION)
    /\ UNCHANGED <<exists, tables, lock, logged, backup, deaths>>

(* The lock is waited for 5 s; "database is locked" ends the command.       *)
GiveUp(p) ==
    /\ ~ Patient /\ op[p].at \in {"begin", "script", "record"} /\ lock \ {p} # {} /\ Finish(p)
    /\ UNCHANGED <<exists, tables, records, lock, logged, backup, deaths>>

-----------------------------------------------------------------------------
(* migrate_storage copies state.db, not its WAL.                            *)
Migrate(p) ==
    /\ At(p, "idle") /\ exists
    /\ backup' = [made |-> TRUE, whole |-> ~ logged]
    /\ Run(p, "migrate", "version", V2Tables)
    /\ UNCHANGED <<exists, tables, records, lock, logged, deaths>>

(* migrate_v1_to_v2 reads the version before it begins its transaction.     *)
ReadVersion(p) ==
    /\ At(p, "version") /\ logged' = FALSE
    /\ IF "schema_metadata" \in tables /\ records = <<1>> THEN Goto(p, "begin") ELSE Finish(p)
    /\ UNCHANGED <<exists, tables, records, lock, backup, deaths>>

Die(p) ==
    /\ ~ At(p, "idle") /\ deaths < MaxDeaths /\ deaths' = deaths + 1
    /\ Finish(p) /\ lock' = lock \ {p}
    /\ UNCHANGED <<exists, tables, records, logged, backup>>

Continue(p) == \/ Connect(p) \/ Begin(p) \/ ScriptCommits(p) \/ CreateTable(p) \/ ScriptEnds(p)
               \/ Record(p) \/ ReadVersion(p)

Next == \E p \in Processes : \/ Use(p) \/ InitStorage(p) \/ Migrate(p) \/ Continue(p) \/ GiveUp(p) \/ Die(p)

Spec == Init /\ [][Next]_vars

(* A command that began goes on until it ends or dies: one that waits for a *)
(* lock looks again and again for 5 s, and the others hold it only from     *)
(* BEGIN to the script's COMMIT.  The operator tries again as long as the   *)
(* index is not usable.                                                     *)
SetupSpec == /\ Spec
             /\ \A p \in Processes : /\ SF_vars(Continue(p))
                                     /\ WF_vars(InitStorage(p))
                                     /\ WF_vars(~ Valid /\ Migrate(p))

-----------------------------------------------------------------------------
(* Tables that the scripts made in their order, without a gap.              *)
InOrder(made) ==
    /\ \A script \in {BaseTables, V2Tables} : \A k, l \in 1..Len(script) :
         k < l /\ script[l] \in made => script[k] \in made
    /\ made \cap Names(V2Tables) # {} => Names(BaseTables) \subseteq made

(* Whichever commands race and die, the tables that are there come in the   *)
(* order of the scripts: an index left half-made lacks the last tables and  *)
(* no others.  A lock has one owner.                                        *)
SetupTypeOK ==
    /\ tables \subseteq AllTables /\ InOrder(tables)
    /\ Cardinality(lock) <= 1 /\ \A p \in lock : At(p, "commit")
    /\ (tables # {} => exists) /\ (records # <<>> => "schema_metadata" \in tables)
    /\ deaths \in 0..MaxDeaths

(* Whatever died or raced before, an index that validate_schema accepts has *)
(* every table: the version is recorded last, and validation never looks at *)
(* the four tables of version 2 itself.                                     *)
ValidIsWhole == Valid => tables = AllTables

(* Two commands that set up the same index leave one version record, or     *)
(* validate_schema would refuse it for ever.                                *)
OneRecord == Len(records) <= 1

(* The tables and the version agree, whoever set them up and died.          *)
SetupIsWhole == ValidIsWhole /\ OneRecord

(* Without a crash, and when no lock outlasts the waiting of others,        *)
(* commands that race leave a usable index, and none spoils it later.       *)
SetupEnds == <>[]Valid

-----------------------------------------------------------------------------
(* cli.py:597, "Explicitly migrate a supported legacy derived index to the  *)
(* current schema": an index of version 1 is migrated in the end.           *)
MigrationCompletes == <>[]Valid

(* storage.py:205, "Back up and explicitly migrate": the copy holds every   *)
(* committed row.                                                           *)
BackupIsWhole == backup.made => backup.whole

=============================================================================
