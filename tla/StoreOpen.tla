----------------------------- MODULE StoreOpen -----------------------------
(***************************************************************************)
(* Opening a store: the constructor of LocalStore in                       *)
(* src/src/libstore/local-store.cc, with getSchema(), openDB() and         *)
(* upgradeDBSchema().  Several processes open the store at once, each      *)
(* creates or upgrades the database if need be, and any of them may be     *)
(* killed at any step.  They exclude each other with the file big-lock,    *)
(* which is locked with flock(): changing a lock releases it first.        *)
(***************************************************************************)
EXTENDS Integers, FiniteSets

CONSTANTS
  Opener,     \* processes that open the store
  ReadOnly,   \* those of them that open it with read-only = true
  OldSchemas, \* the schema versions the store may be found with; 0: none
  MaxKills    \* bound: how many processes are killed

Version == 10            \* nixSchemaVersion
Legacy  == {8, 9, 10}    \* the versions that legacy migrations lead to
Absent  == 0             \* no schema file: getSchema() returns 0
Empty   == -1            \* a schema file that has been truncated

ASSUME SchemasAssumption == OldSchemas \subseteq 0..Version + 1

VARIABLES
  schemaFile, \* the version in the file schema, Absent or Empty
  columns,    \* the legacy migrations that the tables show
  migrations, \* the table SchemaMigrations: "missing", "empty" or "done"
  sharers,    \* processes with a shared lock on big-lock
  owner,      \* the process with the exclusive lock
  opc,        \* opc[p]: where p is in the constructor
  curSchema,  \* curSchema[p]
  failure,    \* failure[p]: what the constructor threw
  kills,      \* how many processes have been killed
  isNew       \* history: the store did not exist in the initial state

openVars == <<schemaFile, columns, migrations, sharers, owner, opc,
              curSchema, failure, kills, isNew>>
tables == <<schemaFile, columns, migrations>>
locks  == <<sharers, owner>>

Nobody0 == "none"

ASSUME OpenerAssumption == Nobody0 \notin Opener

OpenInit ==
  /\ schemaFile \in OldSchemas
  /\ columns = {v \in Legacy : v <= schemaFile}
  /\ migrations \in IF schemaFile = Version THEN {"missing", "empty", "done"}
                    ELSE {"missing"}
  /\ sharers = {}
  /\ owner = Nobody0
  /\ opc = [p \in Opener |-> "start"]
  /\ curSchema = [p \in Opener |-> 0]
  /\ failure = [p \in Opener |-> "none"]
  /\ kills = 0
  /\ isNew = (schemaFile = Absent)

OpenGoto(p, label) == opc' = [opc EXCEPT ![p] = label]

\* The destructors of the locked descriptors.
Unlock(p) ==
  /\ sharers' = sharers \ {p}
  /\ owner' = IF owner = p THEN Nobody0 ELSE owner

\* An exception leaves the constructor.
OpenThrow(p, why) ==
  /\ OpenGoto(p, "failed")
  /\ failure' = [failure EXCEPT ![p] = why]
  /\ Unlock(p)

\* The directories are made before any lock is taken (not modelled), then the
\* lock is taken in shared mode, unless the store is opened read-only.
ShareLock(p) ==
  /\ opc[p] = "start"
  /\ IF p \in ReadOnly THEN UNCHANGED locks
     ELSE /\ owner = Nobody0
          /\ sharers' = sharers \cup {p}
          /\ UNCHANGED owner
  /\ OpenGoto(p, "schema")
  /\ UNCHANGED <<tables, curSchema, failure, kills, isNew>>

\* getSchema() and the decision what to do about the version.
GetSchema(p) ==
  /\ opc[p] = "schema"
  /\ curSchema' = [curSchema EXCEPT ![p] = schemaFile]
  /\ \/ /\ schemaFile = Empty
        /\ OpenThrow(p, "corrupt")
     \/ /\ schemaFile # Empty
        /\ p \in ReadOnly /\ schemaFile < Version
        /\ OpenThrow(p, "read-only")
     \/ /\ schemaFile > Version \/ schemaFile \in 1..5
        /\ p \notin ReadOnly \/ schemaFile > Version
        /\ OpenThrow(p, "unsupported")
     \/ /\ schemaFile = Absent /\ p \notin ReadOnly
        /\ OpenGoto(p, "create") /\ UNCHANGED <<locks, failure>>
     \/ /\ schemaFile \in 6..(Version - 1) /\ p \notin ReadOnly
        /\ OpenGoto(p, "promote") /\ UNCHANGED <<locks, failure>>
     \/ /\ schemaFile = Version
        /\ OpenGoto(p, "opened") /\ UNCHANGED <<locks, failure>>
  /\ UNCHANGED <<tables, kills, isNew>>

\* openDB(create): the statements of schema.sql are all `if not exists'.
CreateDB(p) ==
  /\ opc[p] = "create"
  /\ columns' = Legacy
  /\ OpenGoto(p, "truncate")
  /\ UNCHANGED <<schemaFile, migrations, locks, curSchema, failure, kills,
                 isNew>>

\* writeFile(schemaPath): the file is truncated, then written.
TruncateSchema(p) ==
  /\ opc[p] = "truncate"
  /\ schemaFile' = Empty
  /\ OpenGoto(p, "write")
  /\ UNCHANGED <<columns, migrations, locks, curSchema, failure, kills, isNew>>

WriteSchema(p) ==
  /\ opc[p] = "write"
  /\ schemaFile' = Version
  /\ OpenGoto(p, IF owner = p THEN "downgrade" ELSE "opened")
  /\ UNCHANGED <<columns, migrations, locks, curSchema, failure, kills, isNew>>

-----------------------------------------------------------------------------
(* acquireWriteLock(), and the way back.                                   *)

\* As Exclusive, for a lock that is requested in the wrong mode.
NotExclusive(p) == owner = Nobody0

\* An exclusive lock may be granted.
Exclusive(p) == owner = Nobody0 /\ sharers \subseteq {p}

\* The labels at which acquireWriteLock() is called, and where it returns to.
AfterLock(label) == IF label \in {"promote", "wait"} THEN "legacy0" ELSE "table"

\* The lock is asked for without blocking; if that fails, the shared lock is
\* released and the exclusive one awaited.
TryWriteLock(p) ==
  /\ opc[p] \in {"promote", "promote2"}
  /\ sharers' = sharers \ {p}
  /\ IF Exclusive(p)
     THEN /\ owner' = p
          /\ OpenGoto(p, AfterLock(opc[p]))
     ELSE /\ OpenGoto(p, IF opc[p] = "promote" THEN "wait" ELSE "wait2")
          /\ UNCHANGED owner
  /\ UNCHANGED <<tables, curSchema, failure, kills, isNew>>

WaitWriteLock(p) ==
  /\ opc[p] \in {"wait", "wait2"}
  /\ Exclusive(p)
  /\ owner' = p
  /\ OpenGoto(p, AfterLock(opc[p]))
  /\ UNCHANGED <<tables, sharers, curSchema, failure, kills, isNew>>

\* lockFile(ltRead) gives up the exclusive lock before it gets the shared one.
Downgrade(p) ==
  /\ opc[p] \in {"downgrade", "downgrade2"}
  /\ \/ /\ owner = p
        /\ owner' = Nobody0
        /\ UNCHANGED <<sharers, opc>>
     \/ /\ owner = Nobody0
        /\ sharers' = sharers \cup {p}
        /\ OpenGoto(p, IF opc[p] = "downgrade" THEN "opened" ELSE "using")
        /\ UNCHANGED owner
  /\ UNCHANGED <<tables, curSchema, failure, kills, isNew>>

-----------------------------------------------------------------------------
(* The migrations.                                                         *)

\* As SchemaNow, without a second look at the file.
SchemaThen(p) == curSchema[p]

\* ``Get the schema version again, because another process may have performed
\* the upgrade already.''
SchemaNow(p) == schemaFile

GetSchemaAgain(p) ==
  /\ opc[p] = "legacy0"
  /\ curSchema' = [curSchema EXCEPT ![p] = SchemaNow(p)]
  /\ IF SchemaNow(p) = Empty
     THEN OpenThrow(p, "corrupt")
     ELSE OpenGoto(p, "legacy") /\ UNCHANGED <<locks, failure>>
  /\ UNCHANGED <<tables, kills, isNew>>

\* One legacy migration, a transaction of its own: altering a table that has
\* been altered already is an error.
LegacyMigration(p) ==
  LET due == {v \in Legacy : v > curSchema[p]}
      v == CHOOSE w \in due : \A u \in due : w <= u
  IN  /\ opc[p] = "legacy"
      /\ IF due = {}
         THEN OpenGoto(p, "truncate")
              /\ UNCHANGED <<columns, curSchema, locks, failure>>
         ELSE IF v \in columns
              THEN OpenThrow(p, "duplicate") /\ UNCHANGED <<columns, curSchema>>
              ELSE /\ columns' = columns \cup {v}
                   /\ curSchema' = [curSchema EXCEPT ![p] = v]
                   /\ UNCHANGED <<opc, locks, failure>>
      /\ UNCHANGED <<schemaFile, migrations, kills, isNew>>

\* upgradeDBSchema(dryRun): is there anything to do?  (Not when read-only.)
DryRun(p) ==
  /\ opc[p] = "opened"
  /\ OpenGoto(p, IF p \in ReadOnly \/ migrations = "done" THEN "using"
                 ELSE "promote2")
  /\ UNCHANGED <<tables, locks, curSchema, failure, kills, isNew>>

\* upgradeDBSchema(): the table is created, then each migration that is not
\* in it runs and is entered into it in one transaction.
MigrationTable(p) ==
  /\ opc[p] = "table"
  /\ migrations' = IF migrations = "missing" THEN "empty" ELSE migrations
  /\ OpenGoto(p, "migrate")
  /\ UNCHANGED <<schemaFile, columns, locks, curSchema, failure, kills, isNew>>

Migrate(p) ==
  /\ opc[p] = "migrate"
  /\ migrations' = "done"
  /\ OpenGoto(p, "downgrade2")
  /\ UNCHANGED <<schemaFile, columns, locks, curSchema, failure, kills, isNew>>

\* The destructor.
CloseStore(p) ==
  /\ opc[p] = "using"
  /\ Unlock(p)
  /\ OpenGoto(p, "closed")
  /\ UNCHANGED <<tables, curSchema, failure, kills, isNew>>

KillOpener(p) ==
  /\ opc[p] \notin {"start", "failed", "closed", "killed"}
  /\ kills < MaxKills
  /\ kills' = kills + 1
  /\ Unlock(p)
  /\ OpenGoto(p, "killed")
  /\ UNCHANGED <<tables, curSchema, failure, isNew>>

OpenStep(p) ==
  \/ ShareLock(p) \/ GetSchema(p) \/ CreateDB(p) \/ TruncateSchema(p)
  \/ WriteSchema(p) \/ TryWriteLock(p) \/ WaitWriteLock(p) \/ Downgrade(p)
  \/ GetSchemaAgain(p) \/ LegacyMigration(p) \/ DryRun(p) \/ MigrationTable(p)
  \/ Migrate(p) \/ CloseStore(p)

OpenNext == \E p \in Opener : OpenStep(p) \/ KillOpener(p)

OpenSpec == OpenInit /\ [][OpenNext]_openVars

-----------------------------------------------------------------------------

OpenLabel == {"start", "schema", "create", "truncate", "write", "promote",
              "wait", "legacy0", "legacy", "downgrade", "opened", "promote2",
              "wait2", "table", "migrate", "downgrade2", "using", "closed",
              "failed", "killed"}

\* The types of the variables; the exclusive lock excludes the shared ones.
OpenTypeOK ==
  /\ schemaFile \in -1..(Version + 1)
  /\ columns \subseteq Legacy
  /\ migrations \in {"missing", "empty", "done"}
  /\ sharers \subseteq Opener
  /\ owner \in Opener \cup {Nobody0}
  /\ owner # Nobody0 => sharers = {}
  /\ opc \in [Opener -> OpenLabel]
  /\ curSchema \in [Opener -> -1..(Version + 1)]

\* No process uses the store while another one migrates its tables, and one
\* that uses it finds them migrated: the exclusive lock is held from the
\* second look at the version to the last migration, and the shared lock for
\* as long as the store is open (the comments ``to make sure that no schema
\* upgrade is in progress'' and ``hold to prevent other processes from
\* upgrading the schema while we're using the store'').
UpgradeAlone ==
  /\ OpenTypeOK
  /\ \A p \in Opener \ ReadOnly : opc[p] = "using" =>
       /\ columns = Legacy /\ migrations = "done"
       /\ \A q \in Opener : opc[q] \notin {"legacy", "table", "migrate"}

\* A process that only opens the store fails to do so over the state of the
\* database only after another one was killed half-way, or, for a store that
\* is being created, because it reads the schema file while the creator,
\* which has only a shared lock too, is writing it, or because it opens the
\* store read-only, without a lock.
OpenFailsOnlyAfterKill ==
  \A p \in Opener :
    /\ failure[p] = "duplicate" => kills > 0
    /\ failure[p] = "corrupt" => kills > 0 \/ isNew \/ p \in ReadOnly
=============================================================================
