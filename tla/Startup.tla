------------------------------- MODULE Startup -------------------------------
(***************************************************************************)
(* How MootOS comes up on its SQLite file: backend/db.py,                  *)
(* backend/migrations.py and backend/db_backup.py.                         *)
(*                                                                         *)
(* Processes of an older and a newer release boot, serve, write and die on *)
(* one file.  A boot takes the write lock, applies its release's           *)
(* migrations to a private copy (the transaction) and commits them all or  *)
(* none.  An operator may back the file up while it is being written, and  *)
(* restore the backup when nobody serves.                                  *)
(*                                                                         *)
(* The database is what the migrations distinguish: its recorded version,  *)
(* its tables, the columns added later, the rows of builder_events (a      *)
(* table one migration rebuilds) and how many memories have a status.      *)
(***************************************************************************)
EXTENDS Naturals, FiniteSets

CONSTANTS Procs,         \* processes that may boot
          Latest,        \* LATEST_SCHEMA_VERSION of each one's release
          OnRailway,     \* whether the deployment is on Railway
          FirstVersions, \* versions the file may have at first; 0 is no file
          Retries,       \* LOCK_RETRY_ATTEMPTS
          MaxInserts,     \* bound: rows written
          MaxCrashes,    \* bound: processes killed
          MaxRestores    \* bound: restores

ASSUME StartupAssumption ==
  /\ "free" \notin Procs
  /\ Latest \in [Procs -> 1 .. 7]
  /\ OnRailway \in BOOLEAN
  /\ FirstVersions \subseteq 0 .. 7
  /\ Retries \in Nat \ {0}
  /\ {MaxInserts, MaxCrashes, MaxRestores} \subseteq Nat

VARIABLES db,        \* the committed database
          lock,      \* who holds SQLite's write lock, or "free"
          proc,      \* each process: down, connecting, migrating, serving, refused
          tx,        \* its open transaction
          tries,     \* its attempts at run_migrations
          confirmed, \* MOOTOS_MIGRATION_BACKUP_CONFIRMED
          backup,    \* the backup file: absent, copied, verified, failed
          acked,     \* history: rows whose writer was told they are stored
          inserts, crashes, restores

bounds == <<inserts, crashes, restores>>
startupVars ==
  <<db, lock, proc, tx, tries, confirmed, backup, acked, inserts, crashes, restores>>

NoDatabase == [version |-> 0, tables |-> {}, columns |-> {}, events |-> 0, bare |-> 0]

----------------------------------------------------------------------------
(* The migrations.  CREATE TABLE IF NOT EXISTS and the column checks make  *)
(* each one a union.                                                       *)

InitialSchema(d) ==
  [d EXCEPT !.tables = @ \cup {"projects", "memories", "conversations", "messages"}]

MemoryLifecycle(d) ==
  [d EXCEPT !.columns = @ \cup {"memories.status", "memories.links"}, !.bare = 0]

ModelRuns(d) == [d EXCEPT !.tables = @ \cup {"runs"}]

TasksTable(d) == [d EXCEPT !.tables = @ \cup {"tasks"}]

ToolSystem(d) ==
  [d EXCEPT !.tables = @ \cup {"tool_operations"}, !.columns = @ \cup {"runs.tool"}]

BuilderState(d) ==
  [d EXCEPT !.tables =
     @ \cup {"blueprints", "slices", "events", "attempts", "leases", "idempotency", "artifacts"}]

LoseEvents(d) ==
  [d EXCEPT !.columns = @ \cup {"leases.identity", "events.attempt"}, !.events = 0,
            !.tables = @ \cup {"reconciliations"}]

\* builder_events is copied into a table with one more foreign key, dropped
\* and replaced, unless it has that key already.  The copy takes every row, or
\* raises at a row whose attempt is not there (MigrationFails): either way it
\* leaves none out.
BuilderHardening(d) ==
  [d EXCEPT !.columns = @ \cup {"leases.identity", "events.attempt"},
            !.tables = @ \cup {"reconciliations"}]

Apply(version, d) ==
  CASE version = 1 -> InitialSchema(d)
    [] version = 2 -> MemoryLifecycle(d)
    [] version = 3 -> ModelRuns(d)
    [] version = 4 -> TasksTable(d)
    [] version = 5 -> ToolSystem(d)
    [] version = 6 -> BuilderState(d)
    [] version = 7 -> BuilderHardening(d)

\* What the migrations up to a version make of an empty file, and what the
\* release of that version requires.
Schema(v) ==
  [version |-> v,
   tables  |-> UNION {Apply(k, NoDatabase).tables : k \in 1 .. v},
   columns |-> UNION {Apply(k, NoDatabase).columns : k \in 1 .. v},
   events  |-> 0, bare |-> 0]

\* _verify_schema: tables and columns are there, every memory has a status.
VerifySchema(d, latest) ==
  /\ Schema(latest).tables \subseteq d.tables
  /\ Schema(latest).columns \subseteq d.columns
  /\ d.bare = 0

\* A file of an earlier release, and the one from before migrations: its
\* tables are there, schema_migrations is not.
Unversioned == [InitialSchema(NoDatabase) EXCEPT !.bare = 1]

StartupInit ==
  /\ db \in {Schema(v) : v \in FirstVersions} \cup {Unversioned}
  /\ lock = "free"
  /\ proc = [p \in Procs |-> "down"]
  /\ tx = [p \in Procs |-> NoDatabase]
  /\ tries = [p \in Procs |-> 0]
  /\ confirmed = FALSE
  /\ backup = [state |-> "absent", db |-> NoDatabase]
  /\ acked = 0
  /\ inserts = 0 /\ crashes = 0 /\ restores = 0

----------------------------------------------------------------------------
(* Booting.                                                                *)

\* The settings that choose the file: an explicit path (absolute, and with
\* the unsafe override, or not), and whether the volume is mounted.
Environments ==
  [explicit : BOOLEAN, absolute : BOOLEAN, unsafe : BOOLEAN, mounted : BOOLEAN]

DatabasePath(e) ==
  IF e.explicit THEN "explicit" ELSE IF e.mounted THEN "volume" ELSE "local"

ConfigurationAccepted(e) ==
  OnRailway => IF e.explicit THEN e.unsafe /\ e.absolute ELSE e.mounted

\* A process whose settings choose another file than this one is not ours.
Boot(p, e) ==
  /\ proc[p] = "down"
  /\ ConfigurationAccepted(e) => DatabasePath(e) = (IF OnRailway THEN "volume" ELSE "local")
  /\ proc' = [proc EXCEPT ![p] = IF ConfigurationAccepted(e) THEN "connecting" ELSE "refused"]
  /\ tries' = [tries EXCEPT ![p] = 0]
  /\ UNCHANGED <<db, lock, tx, confirmed, backup, acked, bounds>>

LockedStartsOver(p) ==
  /\ proc[p] = "connecting"
  /\ \/ lock # "free"
     \/ db = NoDatabase /\ \E q \in Procs \ {p} : proc[q] = "connecting"
  /\ tries' = [tries EXCEPT ![p] = (@ + 1) % Retries]
  /\ UNCHANGED <<db, lock, proc, tx, confirmed, backup, acked, bounds>>

\* "database is locked": somebody else has the lock for longer than the
\* timeout, or both convert a new file to WAL.  The last attempt raises.
Locked(p) ==
  /\ proc[p] = "connecting"
  /\ \/ lock # "free"
     \/ db = NoDatabase /\ \E q \in Procs \ {p} : proc[q] = "connecting"
  /\ IF tries[p] + 1 < Retries
       THEN tries' = [tries EXCEPT ![p] = @ + 1] /\ UNCHANGED proc
       ELSE proc' = [proc EXCEPT ![p] = "refused"] /\ UNCHANGED tries
  /\ UNCHANGED <<db, lock, tx, confirmed, backup, acked, bounds>>

\* The schema is newer than the release, or a migration is due on Railway
\* and nobody said there is a backup.
MustRefuse(p) ==
  \/ db.version > Latest[p]
  \/ db.version < Latest[p] /\ OnRailway /\ ~confirmed

BeginImmediate(p) ==
  /\ proc[p] = "connecting" /\ lock = "free"
  /\ IF MustRefuse(p)
       THEN proc' = [proc EXCEPT ![p] = "refused"] /\ UNCHANGED <<lock, tx>>
       ELSE /\ lock' = p
            /\ tx' = [tx EXCEPT ![p] = db]
            /\ proc' = [proc EXCEPT ![p] = "migrating"]
  /\ UNCHANGED <<db, tries, confirmed, backup, acked, bounds>>

Migrated(d) == [Apply(d.version + 1, d) EXCEPT !.version = d.version + 1]

ApplyNext(p) ==
  /\ proc[p] = "migrating" /\ tx[p].version < Latest[p]
  /\ tx' = [tx EXCEPT ![p] = Migrated(@)]
  /\ UNCHANGED <<db, lock, proc, tries, confirmed, backup, acked, bounds>>

\* A migration raises: a row that the new table's keys refuse, a full disk.
\* The transaction is rolled back with the migrations before it, and nothing
\* tries again: the error is not a lock's.
MigrationFails(p) ==
  /\ proc[p] = "migrating" /\ tx[p].version < Latest[p]
  /\ lock' = "free"
  /\ proc' = [proc EXCEPT ![p] = "refused"]
  /\ UNCHANGED <<db, tx, tries, confirmed, backup, acked, bounds>>

\* _verify_schema, then commit and serve; or rollback and raise.
Finish(p) ==
  /\ proc[p] = "migrating" /\ tx[p].version = Latest[p]
  /\ lock' = "free"
  /\ IF VerifySchema(tx[p], Latest[p])
       THEN db' = tx[p] /\ proc' = [proc EXCEPT ![p] = "serving"]
       ELSE proc' = [proc EXCEPT ![p] = "refused"] /\ UNCHANGED db
  /\ UNCHANGED <<tx, tries, confirmed, backup, acked, bounds>>

\* A killed process leaves no open transaction behind.
Crash(p) ==
  /\ crashes < MaxCrashes /\ proc[p] \in {"connecting", "migrating", "serving"}
  /\ proc' = [proc EXCEPT ![p] = "down"]
  /\ lock' = IF lock = p THEN "free" ELSE lock
  /\ crashes' = crashes + 1
  /\ UNCHANGED <<db, tx, tries, confirmed, backup, acked, inserts, restores>>

----------------------------------------------------------------------------
(* Serving.                                                                *)

\* database_connection commits or rolls back; the row counts once committed.
WriteEvent(p) ==
  /\ proc[p] = "serving" /\ lock = "free" /\ inserts < MaxInserts
  /\ "events" \in db.tables
  /\ db' = [db EXCEPT !.events = @ + 1]
  /\ acked' = acked + 1
  /\ inserts' = inserts + 1
  /\ UNCHANGED <<lock, proc, tx, tries, confirmed, backup, crashes, restores>>

\* check_database_readiness, asked by the platform of a serving process
IsReady(p) == proc[p] = "serving" /\ db.version = Latest[p]

\* The platform takes down what does not get ready.
RetireUnready(p) ==
  /\ proc[p] \in {"serving", "refused"} /\ ~IsReady(p)
  /\ proc' = [proc EXCEPT ![p] = "down"]
  /\ UNCHANGED <<db, lock, tx, tries, confirmed, backup, acked, bounds>>

----------------------------------------------------------------------------
(* The operator.                                                           *)

\* The online backup API copies a committed database, writers or not.
CopyBackup ==
  /\ backup.state = "absent" /\ db # NoDatabase
  /\ backup' = [state |-> "copied", db |-> db]
  /\ UNCHANGED <<db, lock, proc, tx, tries, confirmed, acked, bounds>>

\* Tables and row counts are compared with the source of this later moment.
\* A failed backup stays where it is, and its path refuses another one.
VerifyBackup ==
  /\ backup.state = "copied"
  /\ backup' = [backup EXCEPT !.state =
       IF backup.db.tables = db.tables /\ backup.db.events = db.events
         THEN "verified" ELSE "failed"]
  /\ UNCHANGED <<db, lock, proc, tx, tries, confirmed, acked, bounds>>

\* Only a flag: nothing ties it to a backup.
ConfirmBackup ==
  /\ ~confirmed
  /\ confirmed' = TRUE
  /\ UNCHANGED <<db, lock, proc, tx, tries, backup, acked, bounds>>

RestoreUnderServers ==
  /\ backup.state = "verified" /\ restores < MaxRestores
  /\ db' = backup.db
  /\ acked' = backup.db.events
  /\ restores' = restores + 1
  /\ UNCHANGED <<lock, proc, tx, tries, confirmed, backup, inserts, crashes>>

\* Onto a path where no file is: the operator has stopped every process and
\* moved the file aside.
RestoreBackup ==
  /\ backup.state = "verified" /\ restores < MaxRestores
  /\ \A p \in Procs : proc[p] \in {"down", "refused"}
  /\ db' = backup.db
  /\ acked' = backup.db.events
  /\ restores' = restores + 1
  /\ UNCHANGED <<lock, proc, tx, tries, confirmed, backup, inserts, crashes>>

----------------------------------------------------------------------------

BootStep(p) ==
  Locked(p) \/ BeginImmediate(p) \/ ApplyNext(p) \/ MigrationFails(p) \/ Finish(p)

StartupNext ==
  \/ \E p \in Procs :
       \/ \E e \in Environments : Boot(p, e)
       \/ BootStep(p) \/ Crash(p) \/ WriteEvent(p) \/ RetireUnready(p)
  \/ CopyBackup \/ VerifyBackup \/ ConfirmBackup \/ RestoreBackup

StartupSpec == StartupInit /\ [][StartupNext]_startupVars

----------------------------------------------------------------------------
(* Properties.                                                             *)

(* Whoever boots together, whichever is killed between two migrations, and *)
(* whatever was restored: a recorded version always stands for the whole   *)
(* of its schema ("migrations never corrupt or partially apply the         *)
(* schema"), and what was stored in a table that a migration rebuilds is   *)
(* still there, once.                                                      *)
SchemaIsWhole ==
  /\ db.version > 0 => VerifySchema(db, db.version)
  /\ db.events = acked

(* No release works on a schema that lacks what it needs: a process that   *)
(* serves finds all its tables and columns, also after another release     *)
(* has migrated the file under it.                                         *)
ServedSchemaSuffices ==
  \A p \in Procs : proc[p] = "serving" => VerifySchema(db, Latest[p])

(* Losing the race for the lock only delays a boot: it ends, serving or    *)
(* refused, unless its process is killed.                                  *)
BootEnds == \A p \in Procs : proc[p] = "connecting" ~> proc[p] \in {"serving", "refused", "down"}
=============================================================================
