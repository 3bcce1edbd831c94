-------------------------- MODULE LocalStore_proofs --------------------------
(***************************************************************************)
(* Proofs about local-store.cc: opening a store (StoreOpen), for any set   *)
(* of processes, whichever of them open it read-only, any versions it may  *)
(* be found with and any number of kills, and the streaming import         *)
(* (ImportPipeline), for any archive and any length of the queues.         *)
(***************************************************************************)
EXTENDS StoreOpen, ImportPipeline, TLAPS

(***************************************************************************)
(* StoreOpen                                                               *)
(***************************************************************************)

\* The labels at which every legacy migration is known to have been done.
Upgraded == {"truncate", "write", "downgrade", "opened", "promote2", "wait2",
             "table", "migrate", "downgrade2", "using"}

\* Which lock a process has where.
LockInv ==
  \A p \in Opener :
    /\ opc[p] \in {"legacy0", "legacy", "table", "migrate"} => owner = p
    /\ opc[p] \in {"create", "truncate", "write"} => p \in sharers \/ owner = p
    /\ opc[p] \in {"schema", "opened", "using"} => p \in sharers \cup ReadOnly
    /\ opc[p] \in {"wait", "wait2"} => p \notin sharers

\* The tables have what the schema file says, and what a process that has
\* looked at it, or has migrated them, may rely on.
TableInv ==
  /\ {v \in Legacy : v <= schemaFile} \subseteq columns
  /\ \A p \in Opener :
       /\ opc[p] = "legacy" =>
            {v \in Legacy : v <= curSchema[p]} \subseteq columns
       /\ opc[p] \in Upgraded => Legacy \subseteq columns
       /\ opc[p] = "downgrade2" => migrations = "done"
       /\ opc[p] = "using" => p \in ReadOnly \/ migrations = "done"

\* A store that is being created is not upgraded, and one that was there is not
\* created.
NewInv ==
  /\ isNew => schemaFile \in {Absent, Empty, Version}
  /\ ~isNew => schemaFile # Absent
  /\ \A p \in Opener :
       /\ opc[p] \in {"promote", "wait", "legacy0", "legacy"} => ~isNew
       /\ opc[p] = "create" => isNew
       /\ opc[p] \in {"truncate", "write"} => isNew \/ owner = p

\* As long as no process has been killed, an old store has an empty schema
\* file only while that is written, and no migration that the schema file
\* does not tell of, except while these are made.
WholeInv ==
  kills = 0 /\ ~isNew =>
    /\ schemaFile = Empty => \E q \in Opener : opc[q] = "write"
    /\ (\A q \in Opener : opc[q] \notin {"legacy", "truncate", "write"})
         => columns \subseteq {v \in Legacy : v <= schemaFile}
    /\ \A p \in Opener :
         opc[p] = "legacy" =>
           columns \subseteq {v \in Legacy : v <= curSchema[p]}

FailInv == /\ kills \in Nat
           /\ failure \in [Opener -> {"none", "corrupt", "read-only",
                                      "unsupported", "duplicate"}]
           /\ OpenFailsOnlyAfterKill

IInv == OpenTypeOK /\ LockInv /\ TableInv /\ NewInv /\ WholeInv /\ FailInv
-----------------------------------------------------------------------------
\* The migration that comes next is the least one that is due.
LEMMA LeastDue ==
  ASSUME NEW c \in Int, {v \in Legacy : v > c} # {}
  PROVE  LET due == {v \in Legacy : v > c}
             w == CHOOSE w \in due : \A u \in due : w <= u
         IN  w \in due /\ \A u \in due : w <= u
<1> DEFINE due == {v \in Legacy : v > c}
<1>1. \E w \in due : \A u \in due : w <= u
  <2>1. CASE c < 8
    <3>1. 8 \in due  BY <2>1 DEF Legacy
    <3> WITNESS 8 \in due
    <3> QED  BY <2>1 DEF Legacy
  <2>2. CASE c = 8
    <3>1. 9 \in due  BY <2>2 DEF Legacy
    <3> WITNESS 9 \in due
    <3> QED  BY <2>2 DEF Legacy
  <2>3. CASE c > 8
    <3>1. 10 \in due  BY <2>3 DEF Legacy
    <3> WITNESS 10 \in due
    <3> QED  BY <2>3 DEF Legacy
  <2> QED  BY <2>1, <2>2, <2>3
<1> HIDE DEF due
<1>2. LET w == CHOOSE w \in due : \A u \in due : w <= u
      IN  w \in due /\ \A u \in due : w <= u
  BY <1>1, Zenon
<1> QED  BY <1>2 DEF due

\* The inductive invariant holds initially.
LEMMA IInvInit == OpenInit => IInv
<1> SUFFICES ASSUME OpenInit PROVE IInv
  OBVIOUS
<1> USE DEF OpenInit, Version, Absent, Empty, Nobody0
<1>1. OpenTypeOK
  BY SchemasAssumption DEF OpenTypeOK, OpenLabel
<1>2. LockInv
  BY DEF LockInv
<1>3. TableInv
  BY DEF TableInv, Upgraded
<1>4. NewInv
  BY DEF NewInv
<1>5. WholeInv
  BY SchemasAssumption DEF WholeInv
<1>6. FailInv
  BY DEF FailInv, OpenFailsOnlyAfterKill
<1> QED  BY <1>1, <1>2, <1>3, <1>4, <1>5, <1>6 DEF IInv
\* Every step preserves the inductive invariant.
LEMMA IInvNext == IInv /\ [OpenNext]_openVars => IInv'
<1> SUFFICES ASSUME IInv, [OpenNext]_openVars PROVE IInv'
  OBVIOUS
<1>0. CASE UNCHANGED openVars
  BY <1>0 DEF openVars, IInv, OpenTypeOK, LockInv, TableInv, NewInv, WholeInv,
              FailInv, OpenFailsOnlyAfterKill
<1> SUFFICES ASSUME NEW p \in Opener, OpenStep(p) \/ KillOpener(p)
             PROVE  IInv'
  BY <1>0 DEF OpenNext
<1> USE OpenerAssumption
    DEF IInv, OpenTypeOK, Version, Absent, Empty, OpenGoto, tables, locks
<1>1. CASE ShareLock(p)
  <2>1. OpenTypeOK'
    BY <1>1 DEF ShareLock, OpenLabel
  <2>2. LockInv'
    BY <1>1 DEF ShareLock, LockInv
  <2>3. TableInv'
    BY <1>1 DEF ShareLock, TableInv, Upgraded
  <2>4. NewInv'
    BY <1>1 DEF ShareLock, NewInv
  <2>5. WholeInv'
    BY <1>1 DEF ShareLock, WholeInv
  <2>6. FailInv'
    BY <1>1 DEF ShareLock, FailInv, OpenFailsOnlyAfterKill
  <2> QED  BY <2>1, <2>2, <2>3, <2>4, <2>5, <2>6
<1>2. CASE GetSchema(p)
  <2>1. OpenTypeOK'
    BY <1>2 DEF GetSchema, OpenThrow, Unlock, OpenLabel
  <2>2. LockInv'
    BY <1>2 DEF GetSchema, OpenThrow, Unlock, LockInv
  <2>3. TableInv'
    BY <1>2 DEF GetSchema, OpenThrow, Unlock, TableInv, Legacy, Upgraded
  <2>4. NewInv'
    BY <1>2 DEF GetSchema, OpenThrow, Unlock, LockInv, NewInv
  <2>5. WholeInv'
    BY <1>2 DEF GetSchema, OpenThrow, Unlock, LockInv, NewInv, WholeInv, Legacy
  <2>6. FailInv'
    BY <1>2 DEF GetSchema, OpenThrow, LockInv, NewInv, WholeInv, FailInv,
       OpenFailsOnlyAfterKill
  <2> QED  BY <2>1, <2>2, <2>3, <2>4, <2>5, <2>6
<1>3. CASE CreateDB(p)
  <2>1. OpenTypeOK'
    BY <1>3 DEF CreateDB, OpenLabel
  <2>2. LockInv'
    BY <1>3 DEF CreateDB, LockInv
  <2>3. TableInv'
    BY <1>3 DEF CreateDB, TableInv, Legacy, Upgraded
  <2>4. NewInv'
    BY <1>3 DEF CreateDB, LockInv, NewInv
  <2>5. WholeInv'
    BY <1>3 DEF CreateDB, LockInv, NewInv, WholeInv, Legacy
  <2>6. FailInv'
    BY <1>3 DEF CreateDB, FailInv, OpenFailsOnlyAfterKill
  <2> QED  BY <2>1, <2>2, <2>3, <2>4, <2>5, <2>6
<1>4. CASE TruncateSchema(p)
  <2>1. OpenTypeOK'
    BY <1>4 DEF TruncateSchema, OpenLabel
  <2>2. LockInv'
    BY <1>4 DEF TruncateSchema, LockInv
  <2>3. TableInv'
    BY <1>4 DEF TruncateSchema, TableInv, Upgraded
  <2>4. NewInv'
    BY <1>4 DEF TruncateSchema, LockInv, NewInv
  <2>5. WholeInv'
    BY <1>4 DEF TruncateSchema, LockInv, NewInv, WholeInv, Legacy
  <2>6. FailInv'
    BY <1>4 DEF TruncateSchema, FailInv, OpenFailsOnlyAfterKill
  <2> QED  BY <2>1, <2>2, <2>3, <2>4, <2>5, <2>6
<1>5. CASE WriteSchema(p)
  <2>1. OpenTypeOK'
    BY <1>5 DEF WriteSchema, OpenLabel
  <2>2. LockInv'
    BY <1>5 DEF WriteSchema, LockInv
  <2>3. TableInv'
    BY <1>5 DEF WriteSchema, LockInv, TableInv, Legacy, Upgraded
  <2>4. NewInv'
    BY <1>5 DEF WriteSchema, LockInv, NewInv
  <2>5. WholeInv'
    BY <1>5 DEF WriteSchema, LockInv, NewInv, WholeInv, Legacy
  <2>6. FailInv'
    BY <1>5 DEF WriteSchema, FailInv, OpenFailsOnlyAfterKill
  <2> QED  BY <2>1, <2>2, <2>3, <2>4, <2>5, <2>6
<1>6. CASE TryWriteLock(p)
  <2>1. OpenTypeOK'
    BY <1>6 DEF TryWriteLock, Exclusive, AfterLock, OpenLabel, LockInv
  <2>2. LockInv'
    BY <1>6 DEF TryWriteLock, Exclusive, AfterLock, LockInv
  <2>3. TableInv'
    BY <1>6 DEF TryWriteLock, AfterLock, TableInv, Upgraded
  <2>4. NewInv'
    BY <1>6 DEF TryWriteLock, Exclusive, AfterLock, LockInv, NewInv
  <2>5. WholeInv'
    BY <1>6 DEF TryWriteLock, AfterLock, WholeInv
  <2>6. FailInv'
    BY <1>6 DEF TryWriteLock, FailInv, OpenFailsOnlyAfterKill
  <2> QED  BY <2>1, <2>2, <2>3, <2>4, <2>5, <2>6
<1>7. CASE WaitWriteLock(p)
  <2>1. OpenTypeOK'
    BY <1>7 DEF WaitWriteLock, Exclusive, AfterLock, OpenLabel, LockInv
  <2>2. LockInv'
    BY <1>7 DEF WaitWriteLock, Exclusive, AfterLock, LockInv
  <2>3. TableInv'
    BY <1>7 DEF WaitWriteLock, AfterLock, TableInv, Upgraded
  <2>4. NewInv'
    BY <1>7 DEF WaitWriteLock, Exclusive, AfterLock, LockInv, NewInv
  <2>5. WholeInv'
    BY <1>7 DEF WaitWriteLock, AfterLock, WholeInv
  <2>6. FailInv'
    BY <1>7 DEF WaitWriteLock, FailInv, OpenFailsOnlyAfterKill
  <2> QED  BY <2>1, <2>2, <2>3, <2>4, <2>5, <2>6
<1>8. CASE Downgrade(p)
  <2>1. OpenTypeOK'
    BY <1>8 DEF Downgrade, OpenLabel
  <2>2. LockInv'
    BY <1>8 DEF Downgrade, LockInv
  <2>3. TableInv'
    BY <1>8 DEF Downgrade, TableInv, Upgraded
  <2>4. NewInv'
    BY <1>8 DEF Downgrade, LockInv, NewInv
  <2>5. WholeInv'
    BY <1>8 DEF Downgrade, WholeInv
  <2>6. FailInv'
    BY <1>8 DEF Downgrade, FailInv, OpenFailsOnlyAfterKill
  <2> QED  BY <2>1, <2>2, <2>3, <2>4, <2>5, <2>6
<1>9. CASE GetSchemaAgain(p)
  <2>1. OpenTypeOK'
    BY <1>9 DEF GetSchemaAgain, OpenThrow, Unlock, SchemaNow, OpenLabel
  <2>2. LockInv'
    BY <1>9 DEF GetSchemaAgain, OpenThrow, Unlock, SchemaNow, LockInv
  <2>3. TableInv'
    BY <1>9 DEF GetSchemaAgain, OpenThrow, Unlock, SchemaNow, TableInv,
       Upgraded
  <2>4. NewInv'
    BY <1>9 DEF GetSchemaAgain, OpenThrow, Unlock, SchemaNow, LockInv, NewInv
  <2>5. WholeInv'
    BY <1>9 DEF GetSchemaAgain, OpenThrow, Unlock, SchemaNow, LockInv, NewInv,
       WholeInv, Legacy
  <2>6. FailInv'
    BY <1>9 DEF GetSchemaAgain, OpenThrow, SchemaNow, LockInv, NewInv,
       WholeInv, FailInv, OpenFailsOnlyAfterKill
  <2> QED  BY <2>1, <2>2, <2>3, <2>4, <2>5, <2>6
<1>10. CASE LegacyMigration(p)
  <2> DEFINE due == {v \in Legacy : v > curSchema[p]}
             least == CHOOSE w \in due : \A u \in due : w <= u
  <2>1. curSchema[p] \in -1..11
    OBVIOUS
  <2>2. CASE due = {}
    <3> USE <1>10, <2>1, <2>2 DEF LegacyMigration
    <3>1. OpenTypeOK'
      BY DEF OpenLabel
    <3>2. LockInv'
      BY DEF LockInv
    <3>3. TableInv'
      BY DEF TableInv, Legacy, Upgraded
    <3>4. NewInv'
      BY DEF LockInv, NewInv
    <3>5. WholeInv'
      BY DEF LockInv, NewInv, WholeInv
    <3>6. FailInv'
      BY DEF FailInv, OpenFailsOnlyAfterKill
    <3> QED  BY <3>1, <3>2, <3>3, <3>4, <3>5, <3>6
  <2>3. CASE due # {}
    <3>1. least \in due /\ \A u \in due : least <= u
      <4>1. curSchema[p] \in Int
        BY <2>1
      <4> QED  BY <4>1, <2>3, LeastDue, Zenon
    <3> HIDE DEF least
    <3>2. CASE least \in columns
      <4>1. /\ opc[p] = "legacy" /\ OpenThrow(p, "duplicate")
            /\ UNCHANGED <<tables, curSchema, kills, isNew>>
        BY <1>10, <2>3, <3>2 DEF LegacyMigration, least
      <4>2. kills \in Nat /\ kills > 0
        <5>1. ~isNew
          BY <4>1 DEF NewInv
        <5>2. kills # 0
          BY <2>1, <3>1, <3>2, <4>1, <5>1 DEF WholeInv, Legacy
        <5> QED  BY <5>2 DEF FailInv
      <4> USE <4>1 DEF OpenThrow, Unlock
      <4>3. OpenTypeOK'
        BY DEF OpenLabel
      <4>4. LockInv'
        BY DEF LockInv
      <4>5. TableInv'
        BY DEF TableInv, Upgraded
      <4>6. NewInv'
        BY DEF LockInv, NewInv
      <4>7. WholeInv'
        BY <4>2 DEF WholeInv
      <4>8. FailInv'
        BY <4>2 DEF FailInv, OpenFailsOnlyAfterKill
      <4> QED  BY <4>3, <4>4, <4>5, <4>6, <4>7, <4>8
    <3>3. CASE least \notin columns
      <4>1. /\ opc[p] = "legacy" /\ columns' = columns \cup {least}
            /\ curSchema' = [curSchema EXCEPT ![p] = least]
            /\ UNCHANGED <<schemaFile, migrations, locks, opc, failure, kills,
                           isNew>>
        BY <1>10, <2>3, <3>3 DEF LegacyMigration, least
      <4> USE <4>1
      <4>0. least \in Legacy /\ least \in {8, 9, 10} /\ least > curSchema[p]
        BY <3>1, Zenon DEF Legacy
      <4>2. OpenTypeOK'
        <5>1. columns' \subseteq Legacy
          BY <4>0
        <5>2. least \in -1..(Version + 1)
          BY <4>0
        <5>3. curSchema' \in [Opener -> -1..(Version + 1)]
          BY <5>2
        <5> QED  BY <5>1, <5>3
      <4>3. LockInv'
        BY DEF LockInv
      <4>4. TableInv'
        <5>1. {v \in Legacy : v <= least} \subseteq columns'
          BY <2>1, <3>1 DEF TableInv, Legacy
        <5> QED  BY <5>1 DEF TableInv, Legacy, Upgraded
      <4>5. NewInv'
        BY DEF NewInv
      <4>6. WholeInv'
        <5>1. \A q \in Opener : opc[q] = "legacy" => q = p
          BY DEF LockInv
        <5>2. kills = 0 /\ ~isNew =>
                columns' \subseteq {v \in Legacy : v <= least}
          <6>1. ASSUME kills = 0, ~isNew, NEW v \in columns
                PROVE  v \in Legacy /\ v <= least
            <7>1. v \in Legacy /\ v <= curSchema[p]
              BY <6>1 DEF WholeInv
            <7>2. v \in Int
              BY <7>1 DEF Legacy
            <7> QED  BY <2>1, <4>0, <7>1, <7>2
          <6>2. least <= least
            BY <4>0
          <6>3. columns' = columns \cup {least}
            OBVIOUS
          <6> QED  BY <4>0, <6>1, <6>2, <6>3, Zenon
        <5> QED  BY <5>1, <5>2 DEF WholeInv
      <4>7. FailInv'
        BY DEF FailInv, OpenFailsOnlyAfterKill
      <4> QED  BY <4>2, <4>3, <4>4, <4>5, <4>6, <4>7
    <3> QED  BY <3>2, <3>3
  <2> QED  BY <2>2, <2>3
<1>11. CASE DryRun(p)
  <2>1. OpenTypeOK'
    BY <1>11 DEF DryRun, OpenLabel
  <2>2. LockInv'
    BY <1>11 DEF DryRun, LockInv
  <2>3. TableInv'
    BY <1>11 DEF DryRun, LockInv, TableInv, Upgraded
  <2>4. NewInv'
    BY <1>11 DEF DryRun, NewInv
  <2>5. WholeInv'
    BY <1>11 DEF DryRun, WholeInv
  <2>6. FailInv'
    BY <1>11 DEF DryRun, FailInv, OpenFailsOnlyAfterKill
  <2> QED  BY <2>1, <2>2, <2>3, <2>4, <2>5, <2>6
<1>12. CASE MigrationTable(p)
  <2>1. OpenTypeOK'
    BY <1>12 DEF MigrationTable, OpenLabel
  <2>2. LockInv'
    BY <1>12 DEF MigrationTable, LockInv
  <2>3. TableInv'
    BY <1>12 DEF MigrationTable, TableInv, Upgraded
  <2>4. NewInv'
    BY <1>12 DEF MigrationTable, NewInv
  <2>5. WholeInv'
    BY <1>12 DEF MigrationTable, WholeInv
  <2>6. FailInv'
    BY <1>12 DEF MigrationTable, FailInv, OpenFailsOnlyAfterKill
  <2> QED  BY <2>1, <2>2, <2>3, <2>4, <2>5, <2>6
<1>13. CASE Migrate(p)
  <2>1. OpenTypeOK'
    BY <1>13 DEF Migrate, OpenLabel
  <2>2. LockInv'
    BY <1>13 DEF Migrate, LockInv
  <2>3. TableInv'
    BY <1>13 DEF Migrate, TableInv, Upgraded
  <2>4. NewInv'
    BY <1>13 DEF Migrate, NewInv
  <2>5. WholeInv'
    BY <1>13 DEF Migrate, WholeInv
  <2>6. FailInv'
    BY <1>13 DEF Migrate, FailInv, OpenFailsOnlyAfterKill
  <2> QED  BY <2>1, <2>2, <2>3, <2>4, <2>5, <2>6
<1>14. CASE CloseStore(p)
  <2>1. OpenTypeOK'
    BY <1>14 DEF CloseStore, Unlock, OpenLabel
  <2>2. LockInv'
    BY <1>14 DEF CloseStore, Unlock, LockInv
  <2>3. TableInv'
    BY <1>14 DEF CloseStore, TableInv, Upgraded
  <2>4. NewInv'
    BY <1>14 DEF CloseStore, Unlock, LockInv, NewInv
  <2>5. WholeInv'
    BY <1>14 DEF CloseStore, WholeInv
  <2>6. FailInv'
    BY <1>14 DEF CloseStore, FailInv, OpenFailsOnlyAfterKill
  <2> QED  BY <2>1, <2>2, <2>3, <2>4, <2>5, <2>6
<1>15. CASE KillOpener(p)
  <2>1. OpenTypeOK'
    BY <1>15 DEF KillOpener, Unlock, OpenLabel
  <2>2. LockInv'
    BY <1>15 DEF KillOpener, Unlock, LockInv
  <2>3. TableInv'
    BY <1>15 DEF KillOpener, TableInv, Upgraded
  <2>4. NewInv'
    BY <1>15 DEF KillOpener, Unlock, LockInv, NewInv
  <2>5. WholeInv'
    BY <1>15 DEF KillOpener, FailInv, WholeInv
  <2>6. FailInv'
    BY <1>15 DEF KillOpener, FailInv, OpenFailsOnlyAfterKill
  <2> QED  BY <2>1, <2>2, <2>3, <2>4, <2>5, <2>6
<1> QED
  BY <1>1, <1>2, <1>3, <1>4, <1>5, <1>6, <1>7, <1>8, <1>9, <1>10, <1>11, <1>12,
       <1>13, <1>14, <1>15 DEF OpenStep
-----------------------------------------------------------------------------
\* The inductive invariant holds in every reachable state, however many
\* processes open the store at once (the constructor of LocalStore).
THEOREM Invariance == OpenSpec => []IInv
<1> QED  BY IInvInit, IInvNext, PTL DEF OpenSpec

\* For any number of processes: while one uses the store that it has opened
\* for writing, its tables are the ones this program works with and no other
\* process migrates them (the locks on big-lock, local-store.cc).
THEOREM UpgradesExclusive == OpenSpec => []UpgradeAlone
<1>1. IInv => UpgradeAlone
  <2> SUFFICES ASSUME IInv, NEW p \in Opener, p \notin ReadOnly,
                      opc[p] = "using"
               PROVE  /\ columns = Legacy /\ migrations = "done"
                      /\ \A q \in Opener :
                           opc[q] \notin {"legacy", "table", "migrate"}
    BY DEF IInv, UpgradeAlone
  <2>1. columns = Legacy /\ migrations = "done"
    BY DEF IInv, TableInv, OpenTypeOK, Upgraded
  <2>2. p \in sharers /\ owner = Nobody0
    BY DEF IInv, LockInv, OpenTypeOK
  <2>3. \A q \in Opener : opc[q] \notin {"legacy", "table", "migrate"}
    BY <2>2, OpenerAssumption DEF IInv, LockInv
  <2> QED  BY <2>1, <2>3
<1> QED  BY Invariance, <1>1, PTL

\* For any number of processes and kills: a process that opens the store finds
\* no migration done that the schema file does not tell of, and, if the store
\* is not new and not opened read-only, no half-written schema file, unless a
\* process was killed (getSchema() and the legacy migrations).
THEOREM OpeningFailsOnlyAfterKill == OpenSpec => []OpenFailsOnlyAfterKill
<1>1. IInv => OpenFailsOnlyAfterKill
  BY DEF IInv, FailInv
<1> QED  BY Invariance, <1>1, PTL

(***************************************************************************)
(* ImportPipeline                                                          *)
(***************************************************************************)

\* Where the importing thread is.
ReadPCs == {"read", "push-nar", "full-nar"}
RestorePCs == {"restore", "push-file", "full-file", "apply"}
ImportPCs == ReadPCs \cup RestorePCs \cup
  {"close-file", "join-file", "close-nar", "join-nar", "delete", "move", "registered", "failed"}

\* What a queue or a digest holds, and the positions of the archive it is about.
Elems(s) == {s[i] : i \in 1..Len(s)}
Positions == 1..Len(Archive)

\* The record of a hasher thread; it works on one item, and returns only once its
\* queue is closed and drained.
ThreadRec == [pc : ThreadPCs, queue : Seq(Positions), closed : BOOLEAN, item : Int,
              failure : BOOLEAN, hashed : Seq(Positions), key : Paths \cup {"none"}]

ThreadOK(t) ==
  /\ t \in ThreadRec
  /\ Len(t.queue) <= MaxQueued
  /\ t.pc = "work" => t.item \in Positions
  /\ t.pc = "returned" => t.closed /\ t.queue = <<>>

\* The types of the variables.
ImportTypeInv ==
  /\ inMemory \in BOOLEAN /\ thrown \in BOOLEAN /\ gone \in BOOLEAN
  /\ ppc \in ImportPCs
  /\ next \in 1..Len(Archive) + 1
  /\ tree \in [IFiles -> Seq(Positions)]
  /\ buffer \in Seq(Positions)
  /\ stamped \subseteq Paths
  /\ deferred \in Seq(Paths)
  /\ DOMAIN files = IFiles
  /\ DOMAIN thread = Hasher /\ \A h \in Hasher : ThreadOK(thread[h])

\* How far the importing thread is, and what an exception does to that.
StageInv ==
  /\ ppc \in ReadPCs \cup RestorePCs \cup {"move", "registered"} => ~thrown
  /\ ppc \in {"delete", "failed"} => thrown
  /\ ppc \in (ReadPCs \ {"read"}) \cup RestorePCs => next <= Len(Archive)
  /\ ~thrown /\ ppc \notin ReadPCs \cup RestorePCs => next = Len(Archive) + 1
  /\ ppc \in {"push-file", "full-file"} => next \in At(FileTags)
  /\ gone => thrown /\ ppc \in {"close-nar", "join-nar", "failed"}

\* An archive in memory is hashed before it is restored.
Buffering == inMemory /\ ppc \in ReadPCs \cup {"close-nar", "join-nar"}
\* The file hasher is at work, and has been joined.
FilePhase == ~Buffering /\ ppc \in ReadPCs \cup RestorePCs \cup {"close-file"}
FileJoined == ppc \in {"move", "registered"} \/ (~Buffering /\ ppc \in {"close-nar", "join-nar"})
NarJoined == ppc \in {"move", "registered", "failed"}
             \/ (inMemory /\ ppc \in RestorePCs \cup {"close-file", "join-file"})

\* Which thread is closed and joined at which point of the caller: a digest is
\* read only after its thread has returned.
JoinInv ==
  /\ Buffering /\ ~thrown => thread["file"] = [NewThread EXCEPT !.pc = "none"]
  /\ FilePhase => ~thread["file"].closed
  /\ ppc \in {"close-nar", "join-nar", "delete", "move", "registered", "failed"} =>
       thread["file"].pc \in {"none", "returned"}
  /\ FileJoined /\ ~thrown => thread["file"].pc = "returned" /\ ~thread["file"].failure
  /\ NarJoined => thread["nar"].pc = "returned"
  /\ ppc = "delete" => ~thread["nar"].closed \/ thread["nar"].pc = "returned"
  /\ ~NarJoined /\ ppc \notin {"join-nar", "delete"} => ~thread["nar"].closed

\* The positions that the hash sink was sent: it has hashed them, or has them.
NarSent == IF ppc \notin RestorePCs THEN next - 1 ELSE IF inMemory THEN Len(Archive) ELSE next
Taken(t) == IF t.pc = "work" THEN Len(t.hashed) + 1 ELSE Len(t.hashed)
NarFlow(t) ==
  /\ \A i \in 1..Len(t.hashed) : t.hashed[i] = i
  /\ t.pc = "work" => t.item = Taken(t)
  /\ \A i \in 1..Len(t.queue) : t.queue[i] = Taken(t) + i
  /\ Taken(t) + Len(t.queue) = NarSent
NarInv ==
  ~thrown =>
    /\ ~thread["nar"].failure => NarFlow(thread["nar"])
    /\ NarJoined => digest = [n \in Positions |-> n]

\* What was restored, and sent to the file hasher, comes before this.
Restored == IF Buffering THEN 1 ELSE next
FileSent == IF ppc = "apply" THEN next + 1 ELSE Restored
WithinFile(n) == n \in At(FileTags \ {"end"})

\* The file hasher is through with what it was sent up to d.
FileTodo(t) == Elems(t.queue) \cup (IF t.pc = "work" THEN {t.item} ELSE {})
FileFlow(t, d) ==
  /\ InOrder(t.queue)
  /\ t.pc = "work" => \A i \in 1..Len(t.queue) : t.item < t.queue[i]
  /\ FileTodo(t) = {n \in At(FileTags) : d < n /\ n < FileSent}
Collected(s, n) ==
  WithinFile(n) => InOrder(s) /\ Elems(s) = {m \in PartsOf(Archive[n].path) : m <= n}
FilesHashed(t, d) ==
  ~t.failure =>
    /\ WithinFile(d) => t.key = Archive[d].path
    /\ Collected(t.hashed, d)
    /\ \A n \in At({"end"}) : n <= d => IsContent(files[Archive[n].path], Archive[n].path)
FileInv ==
  ~thrown => \E d \in 0..FileSent - 1 :
    FileFlow(thread["file"], d) /\ FilesHashed(thread["file"], d)

\* Without an exception, a file of the tree is empty or has all of its content, the
\* files restored so far have it, and the buffer has gathered what was applied of the
\* file being restored.
TreeInv ==
  ~thrown =>
    /\ \A f \in IFiles : tree[f] = <<>> \/ IsContent(tree[f], f)
    /\ \A n \in At({"end"}) : n < Restored => IsContent(tree[Archive[n].path], Archive[n].path)
    /\ Collected(buffer, Restored - 1)

\* Without an exception, the directories that were left are the deferred ones, and
\* they are stamped once the file hasher, which may touch them, is joined; the root is
\* stamped before the path is registered.
Ended(n) == {Archive[m].path : m \in {k \in At({"enddir"}) : k < n}}
DirInv ==
  ~thrown =>
    /\ Elems(deferred) = Ended(Restored)
    /\ FileJoined => Ended(next) \subseteq stamped
    /\ ppc = "registered" => Archive[1].path \in stamped

ImportInv == /\ ImportTypeInv /\ StageInv /\ JoinInv /\ NarInv /\ FileInv /\ TreeInv /\ DirInv

-----------------------------------------------------------------------------
\* Lists of positions.
LEMMA NothingListed ==
  <<>> \in Seq(Positions) /\ Len(<<>>) = 0 /\ Elems(<<>>) = {} /\ InOrder(<<>>)
BY DEF Elems, InOrder

\* What Append() does to a list of positions.
LEMMA AppendListed ==
  ASSUME NEW s \in Seq(Positions), NEW n \in Positions
  PROVE  /\ Append(s, n) \in Seq(Positions) /\ Len(s) \in Nat
         /\ Len(Append(s, n)) = Len(s) + 1
         /\ Append(s, n)[Len(s) + 1] = n
         /\ \A i \in 1..Len(s) : Append(s, n)[i] = s[i]
         /\ Elems(Append(s, n)) = Elems(s) \cup {n}
         /\ InOrder(s) /\ (\A m \in Elems(s) : m < n) => InOrder(Append(s, n))
<1>1. /\ Append(s, n) \in Seq(Positions) /\ Len(s) \in Nat
      /\ Len(Append(s, n)) = Len(s) + 1
      /\ Append(s, n)[Len(s) + 1] = n
      /\ \A i \in 1..Len(s) : Append(s, n)[i] = s[i]
  OBVIOUS
<1>2. Elems(Append(s, n)) = Elems(s) \cup {n}
  BY <1>1 DEF Elems
<1>3. ASSUME InOrder(s), \A m \in Elems(s) : m < n
      PROVE  InOrder(Append(s, n))
  <2> SUFFICES ASSUME NEW i \in 1..Len(s) + 1, NEW j \in 1..Len(s) + 1, i < j
               PROVE  Append(s, n)[i] < Append(s, n)[j]
    BY <1>1 DEF InOrder
  <2>1. i \in 1..Len(s) /\ Append(s, n)[i] = s[i] /\ s[i] \in Elems(s)
    BY <1>1 DEF Elems
  <2>2. CASE j = Len(s) + 1
    BY <1>1, <1>3, <2>1, <2>2
  <2>3. CASE j \in 1..Len(s)
    BY <1>1, <1>3, <2>1, <2>3 DEF InOrder
  <2> QED  BY <1>1, <2>2, <2>3
<1> QED  BY <1>1, <1>2, <1>3

\* Consecutive positions stay so when the next one is appended.
LEMMA NextAppended ==
  ASSUME NEW q \in Seq(Positions), NEW n \in Positions, NEW k \in Nat,
         \A i \in 1..Len(q) : q[i] = k + i, n - 1 = k + Len(q)
  PROVE  /\ \A i \in 1..Len(Append(q, n)) : Append(q, n)[i] = k + i
         /\ k + Len(Append(q, n)) = n
<1>1. /\ Len(q) \in Nat /\ n \in Int
      /\ Len(Append(q, n)) = Len(q) + 1
      /\ Append(q, n)[Len(q) + 1] = n
      /\ \A i \in 1..Len(q) : Append(q, n)[i] = q[i]
  BY AppendListed DEF Positions
<1>2. ASSUME NEW i \in 1..Len(q) + 1 PROVE Append(q, n)[i] = k + i
  <2>1. CASE i \in 1..Len(q)
    BY <1>1, <2>1
  <2>2. CASE i = Len(q) + 1
    BY <1>1, <2>2
  <2> QED  BY <1>1, <2>1, <2>2
<1> QED  BY <1>1, <1>2

\* What Tail() does to a list of positions.
LEMMA TailListed ==
  ASSUME NEW s \in Seq(Positions), s # <<>>
  PROVE  /\ Tail(s) \in Seq(Positions) /\ Len(s) \in Nat \ {0}
         /\ Len(Tail(s)) = Len(s) - 1
         /\ \A i \in 1..Len(s) - 1 : Tail(s)[i] = s[i + 1]
         /\ Head(s) = s[1] /\ s[1] \in Positions
         /\ Elems(s) = Elems(Tail(s)) \cup {Head(s)}
         /\ InOrder(s) => /\ InOrder(Tail(s))
                          /\ \A i \in 1..Len(Tail(s)) : Head(s) < Tail(s)[i]
<1>1. /\ Tail(s) \in Seq(Positions) /\ Len(s) \in Nat \ {0}
      /\ Len(Tail(s)) = Len(s) - 1
      /\ \A i \in 1..Len(s) - 1 : Tail(s)[i] = s[i + 1]
      /\ Head(s) = s[1] /\ s[1] \in Positions
  OBVIOUS
<1>2. Elems(Tail(s)) \cup {Head(s)} \subseteq Elems(s)
  BY <1>1 DEF Elems
<1>3. ASSUME NEW i \in 1..Len(s)
      PROVE  s[i] \in Elems(Tail(s)) \cup {Head(s)}
  <2>1. CASE i = 1
    BY <1>1, <2>1
  <2>2. CASE i # 1
    <3>1. i - 1 \in 1..Len(Tail(s)) /\ Tail(s)[i - 1] = s[i]
      BY <1>1, <2>2
    <3> QED  BY <3>1 DEF Elems
  <2> QED  BY <2>1, <2>2
<1>4. Elems(s) \subseteq Elems(Tail(s)) \cup {Head(s)}
  BY <1>3 DEF Elems
<1>5. ASSUME InOrder(s)
      PROVE  InOrder(Tail(s)) /\ \A i \in 1..Len(Tail(s)) : Head(s) < Tail(s)[i]
  BY <1>1, <1>5 DEF InOrder
<1> QED  BY <1>1, <1>2, <1>4, <1>5

-----------------------------------------------------------------------------
\* The archive.
LEMMA EventsTyped ==
  /\ Len(Archive) \in Nat \ {0}
  /\ \A n \in Positions : Archive[n].path \in Paths
BY ArchiveAssumption DEF Paths, Positions

\* An event of a file is between a "begin" and an "end".
LEMMA SpanOf ==
  ASSUME NEW n \in At(FileTags)
  PROVE  \E b, e \in Positions : b <= n /\ n <= e /\ FileSpan(b, e)
BY ArchiveAssumption DEF Positions

\* What is between the events of a file belongs to it.
LEMMA PreviousEvent ==
  ASSUME NEW n \in At(FileTags), Archive[n].tag # "begin"
  PROVE  WithinFile(n - 1) /\ Archive[n - 1].path = Archive[n].path
<1>1. PICK b \in Positions, e \in Positions : b <= n /\ n <= e /\ FileSpan(b, e)
  BY SpanOf
<1>2. b < n /\ n \in Positions /\ n - 1 \in Positions /\ n - 1 < e
  BY <1>1, EventsTyped DEF FileSpan, At, Positions
<1>3. n - 1 \in b..e /\ n \in b..e
  BY <1>1, <1>2 DEF Positions
<1>4. Archive[n - 1].path = Archive[n].path
  BY <1>1, <1>3 DEF FileSpan
<1>5. Archive[n - 1].tag \in FileTags \ {"end"}
  <2>1. CASE n - 1 = b
    BY <1>1, <2>1 DEF FileSpan, FileTags
  <2>2. CASE n - 1 \in b + 1..e - 1
    BY <1>1, <2>2 DEF FileSpan, FileTags
  <2> QED  BY <1>2, <1>3, <2>1, <2>2 DEF Positions
<1> QED  BY <1>2, <1>4, <1>5 DEF WithinFile, At, Positions

\* An event of a file names a file.
LEMMA FileOfEvent ==
  ASSUME NEW n \in At(FileTags)
  PROVE  Archive[n].path \in IFiles
<1>1. PICK b \in Positions, e \in Positions : b <= n /\ n <= e /\ FileSpan(b, e)
  BY SpanOf
<1>2. n \in b..e /\ b \in At({"begin"})
  BY <1>1 DEF FileSpan, At, Positions
<1>3. Archive[n].path = Archive[b].path
  BY <1>1, <1>2 DEF FileSpan
<1> QED  BY <1>2, <1>3 DEF IFiles

\* Every file has an "end".
LEMMA FileEnds ==
  ASSUME NEW f \in IFiles
  PROVE  \E n \in At({"end"}) : Archive[n].path = f
<1>1. PICK m \in At({"begin"}) : Archive[m].path = f
  BY DEF IFiles
<1>2. m \in At(FileTags)
  BY DEF At, FileTags
<1>3. PICK b \in Positions, e \in Positions : b <= m /\ m <= e /\ FileSpan(b, e)
  BY <1>2, SpanOf
<1>4. m \in b..e /\ e \in b..e /\ e \in At({"end"})
  BY <1>3, <1>2 DEF FileSpan, At, Positions
<1>5. Archive[e].path = Archive[b].path /\ Archive[m].path = Archive[b].path
  BY <1>3, <1>4 DEF FileSpan
<1> QED  BY <1>1, <1>4, <1>5

\* The parts of a file are between its first and its last event.
LEMMA PartsWithin ==
  ASSUME NEW n \in At(FileTags), NEW m \in PartsOf(Archive[n].path)
  PROVE  /\ m \in Positions
         /\ Archive[n].tag = "begin" => n < m
         /\ Archive[n].tag = "end" => m < n
<1>1. m \in At(FileTags) /\ m \in Positions /\ n \in Positions /\ Archive[m].path = Archive[n].path
  BY DEF PartsOf, IsPart, At, FileTags, Positions
<1>2. PICK b \in Positions, e \in Positions : b <= n /\ n <= e /\ FileSpan(b, e)
  BY SpanOf
<1>3. PICK c \in Positions, g \in Positions : c <= m /\ m <= g /\ FileSpan(c, g)
  BY <1>1, SpanOf
<1>4. n \in b..e /\ m \in c..g
  BY <1>1, <1>2, <1>3 DEF Positions
<1>5. Archive[b].path = Archive[c].path
  BY <1>1, <1>2, <1>3, <1>4 DEF FileSpan
<1>6. b \in At({"begin"}) /\ c \in At({"begin"})
  BY <1>2, <1>3 DEF FileSpan, At, Positions
<1>7. b = c
  BY <1>5, <1>6, ArchiveAssumption
<1>8. Archive[m].tag \in {"exec", "data"}
  BY DEF PartsOf, IsPart
<1>9. m # b /\ m # g
  BY <1>2, <1>3, <1>8 DEF FileSpan
<1>10. ASSUME Archive[n].tag = "begin" PROVE n = b
  <2>1. n # e
    BY <1>2, <1>10 DEF FileSpan
  <2>2. n \notin b + 1..e - 1
    BY <1>2, <1>10 DEF FileSpan
  <2> QED  BY <1>2, <1>1, <2>1, <2>2 DEF Positions
<1>11. ASSUME Archive[n].tag = "end" PROVE n = e /\ g = e
  <2>1. n # b /\ n \notin b + 1..e - 1
    BY <1>2, <1>11 DEF FileSpan
  <2>2. n = e
    BY <1>2, <1>1, <2>1 DEF Positions
  <2>3. g \notin b + 1..e - 1 /\ e \notin c + 1..g - 1
    BY <1>2, <1>3 DEF FileSpan
  <2>4. b < e /\ c < g
    BY <1>2, <1>3 DEF FileSpan
  <2> QED  BY <1>7, <2>2, <2>3, <2>4 DEF Positions
<1> QED  BY <1>1, <1>3, <1>7, <1>9, <1>10, <1>11 DEF Positions

\* What a hasher, or the buffer, makes of the next event of a file.
Gathered(s, n) ==
  IF Archive[n].tag = "begin" THEN <<>> ELSE IF IsPart(n) THEN Append(s, n) ELSE s

\* With the events of a file in their order all parts are gathered by the "end".
LEMMA Gathering ==
  ASSUME NEW s \in Seq(Positions), NEW n \in At(FileTags),
         Archive[n].tag # "begin" => Collected(s, n - 1)
  PROVE  /\ Gathered(s, n) \in Seq(Positions)
         /\ Collected(Gathered(s, n), n)
         /\ Archive[n].tag = "end" => IsContent(s, Archive[n].path)
<1>0. n \in Positions
  BY DEF At, Positions
<1>1. CASE Archive[n].tag = "begin"
  <2>1. {m \in PartsOf(Archive[n].path) : m <= n} = {}
    <3>1. ASSUME NEW m \in PartsOf(Archive[n].path) PROVE ~(m <= n)
      BY <1>0, <1>1, PartsWithin DEF Positions
    <3> QED  BY <3>1
  <2> QED  BY <1>1, <2>1, NothingListed DEF Gathered, Collected
<1>2. CASE Archive[n].tag # "begin"
  <2>1. WithinFile(n - 1) /\ Archive[n - 1].path = Archive[n].path
    BY <1>2, PreviousEvent
  <2>2. InOrder(s) /\ Elems(s) = {m \in PartsOf(Archive[n].path) : m <= n - 1}
    BY <1>2, <2>1 DEF Collected
  <2>3. \A m \in PartsOf(Archive[n].path) : m \in Positions
    BY PartsWithin
  <2>4. CASE IsPart(n)
    <3>1. n \in PartsOf(Archive[n].path)
      BY <1>0, <2>4 DEF PartsOf, Positions
    <3>2. ASSUME NEW m \in Elems(s) PROVE m < n
      <4>1. m \in PartsOf(Archive[n].path) /\ m <= n - 1
        BY <2>2
      <4> QED  BY <1>0, <2>3, <4>1 DEF Positions
    <3>3. {m \in PartsOf(Archive[n].path) : m <= n} = Elems(s) \cup {n}
      BY <1>0, <2>2, <2>3, <3>1 DEF Positions
    <3>4. Gathered(s, n) = Append(s, n) /\ Archive[n].tag # "end"
      BY <1>2, <2>4 DEF Gathered, IsPart
    <3>5. /\ Append(s, n) \in Seq(Positions)
          /\ Elems(Append(s, n)) = Elems(s) \cup {n}
          /\ InOrder(Append(s, n))
      BY <1>0, <2>2, <3>2, AppendListed
    <3> QED  BY <3>3, <3>4, <3>5 DEF Collected
  <2>5. CASE ~IsPart(n)
    <3>1. n \notin PartsOf(Archive[n].path)
      BY <2>5 DEF PartsOf
    <3>2. {m \in PartsOf(Archive[n].path) : m <= n} = Elems(s)
      BY <1>0, <2>2, <2>3, <3>1 DEF Positions
    <3>3. Gathered(s, n) = s
      BY <1>2, <2>5 DEF Gathered
    <3>4. ASSUME Archive[n].tag = "end" PROVE Elems(s) = PartsOf(Archive[n].path)
      BY <1>0, <2>2, <2>3, <3>4, PartsWithin DEF Positions
    <3> QED  BY <2>2, <3>2, <3>3, <3>4 DEF Collected, IsContent, Elems
  <2> QED  BY <2>4, <2>5
<1> QED  BY <1>1, <1>2

-----------------------------------------------------------------------------
\* What stays as it is.

\* A hashing thread has the same work as before.
SameWork(t, u) ==
  /\ u.queue = t.queue /\ u.item = t.item /\ u.failure = t.failure
  /\ u.hashed = t.hashed /\ u.key = t.key
  /\ u.pc = "work" <=> t.pc = "work"

\* The hash sink is not concerned.
LEMMA NarKept ==
  ASSUME NarInv,
         ~thrown' => /\ ~thrown /\ SameWork(thread["nar"], thread'["nar"])
                     /\ NarSent' = NarSent /\ (NarJoined' => NarJoined) /\ digest' = digest
  PROVE  NarInv'
<1> SUFFICES ASSUME ~thrown'
             PROVE  /\ ~thread'["nar"].failure => NarFlow(thread["nar"])'
                    /\ NarJoined' => digest' = [n \in Positions |-> n]
  BY DEF NarInv
<1>1. ASSUME ~thread'["nar"].failure PROVE NarFlow(thread["nar"])'
  <2>1. NarFlow(thread["nar"])
    BY <1>1 DEF NarInv, SameWork
  <2>2. Taken(thread["nar"])' = Taken(thread["nar"])
    BY DEF Taken, SameWork
  <2> QED  BY <2>1, <2>2 DEF NarFlow, SameWork
<1>2. ASSUME NarJoined' PROVE digest' = [n \in Positions |-> n]
  BY <1>2 DEF NarInv
<1> QED  BY <1>1, <1>2

\* The file hasher is not concerned, or was sent nothing.
LEMMA FileKept ==
  ASSUME FileInv, FileSent \in Nat, FileSent' \in Nat,
         ~thrown' => /\ ~thrown /\ SameWork(thread["file"], thread'["file"]) /\ files' = files
                     /\ FileSent <= FileSent'
                     /\ \A n \in At(FileTags) : n < FileSent' => n < FileSent
  PROVE  FileInv'
<1> SUFFICES ASSUME ~thrown'
             PROVE  \E d \in 0..FileSent' - 1 :
                      FileFlow(thread["file"], d)' /\ FilesHashed(thread["file"], d)'
  BY DEF FileInv
<1>1. PICK d \in 0..FileSent - 1 : FileFlow(thread["file"], d) /\ FilesHashed(thread["file"], d)
  BY DEF FileInv
<1>2. d \in 0..FileSent' - 1
  <2>1. FileSent <= FileSent'
    BY Zenon
  <2>2. \A i, j \in Nat : i <= j => \A k \in 0..i - 1 : k \in 0..j - 1
    OBVIOUS
  <2> QED  BY <2>1, <2>2, Zenon
<1>3. FileTodo(thread["file"])' = FileTodo(thread["file"])
  BY DEF FileTodo, SameWork
<1>4. {n \in At(FileTags) : d < n /\ n < FileSent'} = {n \in At(FileTags) : d < n /\ n < FileSent}
  <2>1. \A n \in At(FileTags) : n \in Int
    BY DEF At
  <2> QED  BY <2>1
<1>5. FileFlow(thread["file"], d)'
  BY <1>1, <1>3, <1>4 DEF FileFlow, SameWork
<1>6. FilesHashed(thread["file"], d)'
  BY <1>1 DEF FilesHashed, SameWork
<1> QED  BY <1>2, <1>5, <1>6

\* What was restored is not concerned.
LEMMA TreeKept ==
  ASSUME TreeInv,
         ~thrown' => ~thrown /\ tree' = tree /\ buffer' = buffer /\ Restored' = Restored
  PROVE  TreeInv'
BY DEF TreeInv

\* The directories are not concerned.
LEMMA DirKept ==
  ASSUME DirInv, ppc' # "registered",
         ~thrown' => /\ ~thrown /\ deferred' = deferred /\ Restored' = Restored
                     /\ FileJoined' => FileJoined /\ next' = next /\ stamped \subseteq stamped'
  PROVE  DirInv'
BY DEF DirInv

\* How far things are, is a number.
LEMMA Numbers ==
  ASSUME ImportTypeInv
  PROVE  /\ next \in Nat /\ Len(Archive) \in Nat /\ Restored \in Nat /\ Restored > 0
         /\ FileSent \in Nat /\ FileSent > 0 /\ NarSent \in Nat
BY EventsTyped DEF ImportTypeInv, Restored, FileSent, NarSent

-----------------------------------------------------------------------------
(* The importing thread.                                                   *)

\* Reading throws: from here on only control states matter.
LEMMA ReadFailsStep == ASSUME ImportInv, ReadFails PROVE ImportInv'
<1> USE DEF ReadFails, Throw
<1>1. thrown' /\ ~gone
  BY DEF ImportInv, StageInv, ImportTypeInv
<1>2. ImportTypeInv'
  BY <1>1 DEF ImportInv, ImportTypeInv, ImportPCs
<1>3. StageInv'
  BY <1>1 DEF ImportInv, StageInv, ReadPCs, RestorePCs
<1>4. JoinInv'
  BY <1>1 DEF ImportInv, JoinInv, StageInv, ReadPCs, RestorePCs, Buffering, FilePhase,
              FileJoined, NarJoined, NewThread
<1> QED  BY <1>1, <1>2, <1>3, <1>4 DEF ImportInv, NarInv, FileInv, TreeInv, DirInv

\* The importing thread reads on.
LEMMA ReadStep == ASSUME ImportInv, Read PROVE ImportInv'
<1> USE DEF Read
<1>1. UNCHANGED <<inMemory, next, thrown, tree, buffer, stamped, deferred, gone, digest, files, thread>>
      /\ ~thrown /\ ~gone
  BY DEF ImportInv, StageInv, ImportTypeInv, ReadPCs
<1>2. ImportTypeInv'
  BY <1>1 DEF ImportInv, ImportTypeInv, ImportPCs, ReadPCs, RestorePCs
<1>3. StageInv'
  BY <1>1, Numbers DEF ImportInv, StageInv, ImportTypeInv, ReadPCs, RestorePCs
<1>4. JoinInv'
  BY <1>1 DEF ImportInv, JoinInv, ReadPCs, RestorePCs, Buffering, FilePhase,
              FileJoined, NarJoined, NewThread
<1>5. Restored' = Restored /\ FileSent' = FileSent /\ NarSent' = NarSent
  BY <1>1 DEF Restored, FileSent, NarSent, Buffering, ReadPCs, RestorePCs
<1>6. NarInv'
  <2>1. ~NarJoined'
    BY <1>1 DEF NarJoined, RestorePCs
  <2> QED  BY <1>1, <1>5, <2>1, NarKept DEF ImportInv, SameWork
<1>7. FileInv'
  BY <1>1, <1>5, Numbers, FileKept DEF ImportInv, SameWork
<1>8. TreeInv'
  BY <1>1, <1>5, TreeKept DEF ImportInv
<1>9. DirInv'
  BY <1>1, <1>5, DirKept DEF ImportInv, FileJoined, Buffering, ReadPCs
<1> QED  BY <1>2, <1>3, <1>4, <1>6, <1>7, <1>8, <1>9 DEF ImportInv

\* A step that changes what one hashing thread has.
LEMMA OneThread ==
  ASSUME ImportTypeInv, NEW h \in Hasher, NEW r, ThreadOK(r),
         thread' = [thread EXCEPT ![h] = r]
  PROVE  /\ DOMAIN thread' = Hasher /\ \A g \in Hasher : ThreadOK(thread'[g])
         /\ thread'[h] = r
         /\ \A g \in Hasher : g # h => thread'[g] = thread[g]
BY DEF ImportTypeInv

\* An item is appended to a queue, and a worker that sleeps is woken.
LEMMA PushEffect ==
  ASSUME NEW t, ThreadOK(t), t.pc # "returned", NEW n \in Positions, Len(t.queue) < MaxQueued
  PROVE  LET u == Notified([t EXCEPT !.queue = Append(@, n)])
         IN  /\ ThreadOK(u)
             /\ u.queue = Append(t.queue, n) /\ u.item = t.item /\ u.failure = t.failure
             /\ u.hashed = t.hashed /\ u.key = t.key /\ u.closed = t.closed
             /\ u.pc = "work" <=> t.pc = "work"
             /\ u.pc # "returned"
<1> DEFINE v == [t EXCEPT !.queue = Append(@, n)]
           u == Notified(v)
<1>1. t \in ThreadRec
  BY DEF ThreadOK
<1>2. /\ Append(t.queue, n) \in Seq(Positions) /\ Len(Append(t.queue, n)) = Len(t.queue) + 1
      /\ Len(t.queue) \in Nat
  BY <1>1, AppendListed DEF ThreadRec
<1>3. v \in ThreadRec /\ v.pc = t.pc
      /\ v.queue = Append(t.queue, n) /\ v.item = t.item /\ v.failure = t.failure
      /\ v.hashed = t.hashed /\ v.key = t.key /\ v.closed = t.closed
  BY <1>1, <1>2 DEF ThreadRec
<1> HIDE DEF v
<1>4. /\ u \in ThreadRec
      /\ u.queue = v.queue /\ u.item = v.item /\ u.failure = v.failure
      /\ u.hashed = v.hashed /\ u.key = v.key /\ u.closed = v.closed
      /\ u.pc = IF v.pc = "asleep" THEN "loop" ELSE v.pc
  BY <1>3 DEF ThreadRec, Notified, ThreadPCs
<1> HIDE DEF u
<1>5. ThreadOK(u)
  BY <1>2, <1>3, <1>4, MaxQueuedAssumption DEF ThreadOK
<1> QED  BY <1>3, <1>4, <1>5 DEF u, v

\* push(), whether the queue is full or not.
LEMMA PushNextEffect ==
  ASSUME ImportTypeInv, NEW h \in Hasher, NEW then, Push(h, then),
         next \in Positions, thread[h].pc # "returned", then \in ImportPCs
  PROVE  /\ ImportTypeInv'
         /\ \A g \in Hasher : g # h => thread'[g] = thread[g]
         /\ thread'[h].failure = thread[h].failure /\ thread'[h].closed = thread[h].closed
         /\ thread'[h].hashed = thread[h].hashed /\ thread'[h].key = thread[h].key
         /\ thread'[h].item = thread[h].item
         /\ thread'[h].pc = "work" <=> thread[h].pc = "work"
         /\ thread'[h].pc # "returned"
         /\ \/ /\ ppc' = FullAt(h) /\ thread' = thread /\ next' = next
            \/ /\ ppc' = then
               /\ thread'[h].queue = Append(thread[h].queue, next)
               /\ next' = IF then = "read" THEN next + 1 ELSE next
<1>0. ThreadOK(thread[h]) /\ DOMAIN thread = Hasher
  BY DEF ImportTypeInv
<1>1. CASE Len(thread[h].queue) < MaxQueued
  <2> DEFINE r == Notified([thread[h] EXCEPT !.queue = Append(@, next)])
  <2>1. thread' = [thread EXCEPT ![h] = r]
    BY <1>1 DEF Push
  <2>2. /\ ThreadOK(r)
        /\ r.queue = Append(thread[h].queue, next) /\ r.item = thread[h].item
        /\ r.failure = thread[h].failure /\ r.hashed = thread[h].hashed
        /\ r.key = thread[h].key /\ r.closed = thread[h].closed
        /\ r.pc = "work" <=> thread[h].pc = "work"
        /\ r.pc # "returned"
    BY <1>0, <1>1, PushEffect
  <2> HIDE DEF r
  <2>3. /\ DOMAIN thread' = Hasher /\ \A g \in Hasher : ThreadOK(thread'[g])
        /\ thread'[h] = r
        /\ \A g \in Hasher : g # h => thread'[g] = thread[g]
    BY <2>1, <2>2, OneThread
  <2>4. ppc' = then /\ next' = IF then = "read" THEN next + 1 ELSE next
    BY <1>1 DEF Push
  <2>5. UNCHANGED <<inMemory, thrown, tree, buffer, stamped, deferred, gone, digest, files>>
    BY DEF Push
  <2>6. next' \in 1..Len(Archive) + 1
    BY <2>4, EventsTyped DEF Positions
  <2>7. ImportTypeInv'
    BY <2>3, <2>4, <2>5, <2>6 DEF ImportTypeInv
  <2> QED  BY <2>2, <2>3, <2>4, <2>7
<1>2. CASE ~(Len(thread[h].queue) < MaxQueued)
  <2>1. ppc' = FullAt(h) /\ thread' = thread /\ next' = next
    BY <1>2 DEF Push
  <2>2. UNCHANGED <<inMemory, thrown, tree, buffer, stamped, deferred, gone, digest, files>>
    BY DEF Push
  <2>3. ImportTypeInv'
    BY <2>1, <2>2 DEF ImportTypeInv, ImportPCs, ReadPCs, RestorePCs, FullAt
  <2> QED  BY <2>1, <2>3
<1> QED  BY <1>1, <1>2

\* The hash sink is sent what was read.
LEMMA PushChunkStep == ASSUME ImportInv, PushChunk PROVE ImportInv'
<1> DEFINE then == IF inMemory THEN "read" ELSE "restore"
           t == thread["nar"]
<1>1. /\ Push("nar", then) /\ ppc = "push-nar" /\ ~thrown /\ ~gone /\ next <= Len(Archive)
      /\ UNCHANGED <<inMemory, thrown, tree, buffer, stamped, deferred, gone, digest, files>>
  BY DEF ImportInv, StageInv, ImportTypeInv, ReadPCs, PushChunk, Push, PushAt
<1>2. ~t.closed /\ t.pc # "returned" /\ next \in Positions /\ then \in ImportPCs /\ "nar" \in Hasher /\ ThreadOK(t)
  BY <1>1, EventsTyped
     DEF ImportInv, JoinInv, NarJoined, ReadPCs, RestorePCs, ImportPCs, Hasher, Positions,
     ImportTypeInv, ThreadOK
<1>3. /\ ImportTypeInv'
      /\ thread'["file"] = thread["file"]
      /\ thread'["nar"].failure = t.failure /\ thread'["nar"].closed = t.closed
      /\ thread'["nar"].hashed = t.hashed /\ thread'["nar"].key = t.key
      /\ thread'["nar"].item = t.item
      /\ thread'["nar"].pc = "work" <=> t.pc = "work"
      /\ thread'["nar"].pc # "returned"
      /\ \/ /\ ppc' = "full-nar" /\ thread' = thread /\ next' = next
         \/ /\ ppc' = then
            /\ thread'["nar"].queue = Append(t.queue, next)
            /\ next' = IF then = "read" THEN next + 1 ELSE next
  <2>1. "file" \in Hasher /\ "file" # "nar" /\ FullAt("nar") = "full-nar" /\ ImportTypeInv
    BY DEF Hasher, FullAt, ImportInv
  <2> HIDE DEF then
  <2> QED  BY <1>1, <1>2, <2>1, PushNextEffect
<1>4. StageInv'
  BY <1>1, <1>2, <1>3 DEF ImportInv, StageInv, ReadPCs, RestorePCs, Positions
<1>5. JoinInv'
  BY <1>1, <1>2, <1>3 DEF ImportInv, JoinInv, ReadPCs, RestorePCs, Buffering, FilePhase,
              FileJoined, NarJoined
<1>6. Restored' = Restored /\ FileSent' = FileSent
  BY <1>1, <1>3 DEF Restored, FileSent, Buffering, ReadPCs, RestorePCs
<1>7. NarInv'
  <2>1. ~NarJoined'
    BY <1>1, <1>3 DEF NarJoined, RestorePCs
  <2>2. ASSUME ~thread'["nar"].failure PROVE NarFlow(thread["nar"])'
    <3>1. NarFlow(t)
      BY <1>1, <1>3, <2>2 DEF ImportInv, NarInv
    <3>2. CASE ppc' = "full-nar" /\ thread' = thread /\ next' = next
      BY <3>1, <3>2, <1>1 DEF NarFlow, NarSent, RestorePCs
    <3>3. CASE /\ ppc' = then
               /\ thread'["nar"].queue = Append(t.queue, next)
               /\ next' = IF then = "read" THEN next + 1 ELSE next
      <4>1. NarSent = next - 1 /\ NarSent' = next
        BY <1>1, <1>2, <3>3 DEF NarSent, RestorePCs, Positions
      <4>2. t.queue \in Seq(Positions) /\ t.hashed \in Seq(Positions)
        BY <1>2 DEF ThreadOK, ThreadRec
      <4>3. Taken(t) \in Nat /\ Taken(thread["nar"])' = Taken(t)
        BY <1>3, <4>2 DEF Taken
      <4>4. next - 1 = Taken(t) + Len(t.queue)
            /\ \A i \in 1..Len(t.queue) : t.queue[i] = Taken(t) + i
        BY <3>1, <4>1, Zenon DEF NarFlow
      <4>5. /\ \A i \in 1..Len(Append(t.queue, next)) : Append(t.queue, next)[i] = Taken(t) + i
            /\ Taken(t) + Len(Append(t.queue, next)) = next
        BY <1>2, <4>2, <4>3, <4>4, NextAppended, Zenon
      <4> QED  BY <1>3, <3>1, <3>3, <4>1, <4>3, <4>5 DEF NarFlow
    <3> QED  BY <1>3, <3>2, <3>3
  <2> QED  BY <2>1, <2>2 DEF NarInv
<1>8. FileInv'
  BY <1>1, <1>3, <1>6, Numbers, FileKept DEF ImportInv, SameWork
<1>9. TreeInv'
  BY <1>1, <1>6, TreeKept DEF ImportInv
<1>10. DirInv'
  BY <1>1, <1>3, <1>6, DirKept DEF ImportInv, FileJoined
<1> QED  BY <1>3, <1>4, <1>5, <1>7, <1>8, <1>9, <1>10 DEF ImportInv

\* Only events of files go to the file hasher.
LEMMA DispatchStep == ASSUME ImportInv, Dispatch PROVE ImportInv'
<1> USE DEF Dispatch
<1>1. /\ UNCHANGED <<inMemory, next, thrown, tree, buffer, stamped, deferred, gone, digest, files, thread>>
      /\ ~thrown /\ ~gone /\ next <= Len(Archive) /\ next \in Positions
  BY Numbers DEF ImportInv, StageInv, ImportTypeInv, RestorePCs, Positions
<1>2. ImportTypeInv'
  BY <1>1 DEF ImportInv, ImportTypeInv, ImportPCs, ReadPCs, RestorePCs
<1>3. StageInv'
  BY <1>1 DEF ImportInv, StageInv, ReadPCs, RestorePCs, At, Entry, Positions
<1>4. JoinInv'
  BY <1>1 DEF ImportInv, JoinInv, ReadPCs, RestorePCs, Buffering, FilePhase,
              FileJoined, NarJoined
<1>5. Restored' = Restored /\ NarSent' = NarSent
  BY <1>1 DEF Restored, NarSent, Buffering, ReadPCs, RestorePCs
<1>6. NarInv'
  <2>1. NarJoined' => NarJoined
    BY <1>1 DEF NarJoined, RestorePCs
  <2> QED  BY <1>1, <1>5, <2>1, NarKept DEF ImportInv, SameWork
<1>7. FileInv'
  <2>1. FileSent = next /\ FileSent' = IF ppc' = "apply" THEN next + 1 ELSE next
    BY <1>1 DEF Restored, FileSent, Buffering, ReadPCs
  <2>2. FileSent <= FileSent' /\ FileSent \in Nat /\ FileSent' \in Nat
    BY <1>1, <2>1 DEF Positions
  <2>3. ASSUME NEW n \in At(FileTags), n < FileSent' PROVE n < FileSent
    <3>1. n = next => ppc' # "apply"
      BY DEF Entry, At
    <3>2. n \in Positions
      BY DEF At, Positions
    <3> QED  BY <1>1, <2>1, <2>3, <3>1, <3>2 DEF Positions
  <2> QED  BY <1>1, <2>2, <2>3, FileKept DEF ImportInv, SameWork
<1>8. TreeInv'
  BY <1>1, <1>5, TreeKept DEF ImportInv
<1>9. DirInv'
  BY <1>1, <1>5, DirKept DEF ImportInv, FileJoined
<1> QED  BY <1>2, <1>3, <1>4, <1>6, <1>7, <1>8, <1>9 DEF ImportInv

\* The file hasher is sent an event.
LEMMA PushEventStep == ASSUME ImportInv, PushEvent PROVE ImportInv'
<1> DEFINE t == thread["file"]
<1>1. /\ Push("file", "apply") /\ ppc = "push-file" /\ ~thrown /\ ~gone /\ next <= Len(Archive)
      /\ next \in At(FileTags)
      /\ UNCHANGED <<inMemory, thrown, tree, buffer, stamped, deferred, gone, digest, files>>
  BY DEF ImportInv, StageInv, ImportTypeInv, RestorePCs, PushEvent, Push, PushAt
<1>2. /\ ~t.closed /\ t.pc # "returned" /\ next \in Positions /\ "apply" \in ImportPCs
      /\ "file" \in Hasher /\ ThreadOK(t)
  BY <1>1
     DEF ImportInv, JoinInv, FilePhase, Buffering, ReadPCs, RestorePCs, ImportPCs, Hasher,
     Positions, At, ImportTypeInv, ThreadOK
<1>3. /\ ImportTypeInv'
      /\ thread'["nar"] = thread["nar"]
      /\ thread'["file"].failure = t.failure /\ thread'["file"].closed = t.closed
      /\ thread'["file"].hashed = t.hashed /\ thread'["file"].key = t.key
      /\ thread'["file"].item = t.item
      /\ thread'["file"].pc = "work" <=> t.pc = "work"
      /\ thread'["file"].pc # "returned"
      /\ next' = next
      /\ \/ ppc' = "full-file" /\ thread' = thread
         \/ ppc' = "apply" /\ thread'["file"].queue = Append(t.queue, next)
  <2>1. "nar" \in Hasher /\ "nar" # "file" /\ FullAt("file") = "full-file" /\ ImportTypeInv
    BY DEF Hasher, FullAt, ImportInv
  <2> QED  BY <1>1, <1>2, <2>1, PushNextEffect
<1>4. StageInv'
  BY <1>1, <1>2, <1>3 DEF ImportInv, StageInv, ReadPCs, RestorePCs
<1>5. JoinInv'
  BY <1>1, <1>2, <1>3 DEF ImportInv, JoinInv, ReadPCs, RestorePCs, Buffering, FilePhase,
              FileJoined, NarJoined
<1>6. Restored' = Restored /\ NarSent' = NarSent /\ FileSent = next
  BY <1>1, <1>3 DEF Restored, FileSent, NarSent, Buffering, ReadPCs, RestorePCs
<1>7. NarInv'
  <2>1. NarJoined' => NarJoined
    BY <1>1, <1>3 DEF NarJoined, RestorePCs
  <2> QED  BY <1>1, <1>3, <1>6, <2>1, NarKept DEF ImportInv, SameWork
<1>8. FileInv'
  <2>1. CASE ppc' = "full-file" /\ thread' = thread
    <3>1. FileSent' = FileSent
      BY <1>1, <1>3, <1>6, <2>1 DEF FileSent
    <3> QED  BY <1>1, <1>3, <2>1, <3>1, Numbers, FileKept DEF ImportInv, SameWork
  <2>2. CASE ppc' = "apply" /\ thread'["file"].queue = Append(t.queue, next)
    <3> DEFINE u == thread'["file"]
    <3>1. FileSent' = next + 1 /\ next \in Nat
      BY <1>2, <1>3, <2>2 DEF FileSent, Positions
    <3>2. PICK d \in 0..FileSent - 1 : FileFlow(t, d) /\ FilesHashed(t, d)
      BY <1>1 DEF ImportInv, FileInv
    <3>3. d \in 0..FileSent' - 1 /\ d < next
      BY <1>6, <3>1
    <3>4. t.queue \in Seq(Positions)
      BY <1>2 DEF ThreadOK, ThreadRec
    <3>5. \A m \in FileTodo(t) : m < next
      BY <1>6, <3>2 DEF FileFlow
    <3>6. Elems(t.queue) \subseteq FileTodo(t)
      BY DEF FileTodo
    <3>7. InOrder(u.queue) /\ Elems(u.queue) = Elems(t.queue) \cup {next}
          /\ Len(u.queue) = Len(t.queue) + 1 /\ Len(t.queue) \in Nat
          /\ u.queue[Len(t.queue) + 1] = next
          /\ \A i \in 1..Len(t.queue) : u.queue[i] = t.queue[i]
      BY <1>2, <2>2, <3>2, <3>4, <3>5, <3>6, AppendListed DEF FileFlow
    <3>8. FileTodo(u) = FileTodo(t) \cup {next}
      BY <1>3, <3>7 DEF FileTodo
    <3>9. {n \in At(FileTags) : d < n /\ n < next + 1} = {n \in At(FileTags) : d < n /\ n < next} \cup {next}
      <4>1. ASSUME NEW n \in At(FileTags) PROVE n < next + 1 <=> n < next \/ n = next
        BY <3>1 DEF At
      <4> QED  BY <1>1, <3>3, <4>1
    <3>10. ASSUME u.pc = "work", NEW i \in 1..Len(u.queue) PROVE u.item < u.queue[i]
      <4>1. u.item = t.item /\ t.pc = "work" /\ t.item \in FileTodo(t)
        BY <1>3, <3>10 DEF FileTodo
      <4>2. CASE i = Len(t.queue) + 1
        BY <3>5, <3>7, <4>1, <4>2
      <4>3. CASE i \in 1..Len(t.queue)
        BY <3>2, <3>7, <4>1, <4>3 DEF FileFlow
      <4>4. i \in 1..Len(t.queue) + 1
        BY <3>7
      <4>5. i = Len(t.queue) + 1 \/ i \in 1..Len(t.queue)
        BY <3>7, <4>4
      <4> QED  BY <4>2, <4>3, <4>5, Zenon
    <3>11. FileFlow(thread["file"], d)'
      <4>1. FileTodo(u) = {n \in At(FileTags) : d < n /\ n < next + 1}
        BY <1>6, <3>2, <3>8, <3>9 DEF FileFlow
      <4> QED  BY <3>1, <3>7, <3>10, <4>1 DEF FileFlow
    <3>12. FilesHashed(thread["file"], d)'
      BY <1>1, <1>3, <3>2 DEF FilesHashed
    <3> QED  BY <3>3, <3>11, <3>12 DEF FileInv
  <2> QED  BY <1>3, <2>1, <2>2
<1>9. TreeInv'
  BY <1>1, <1>6, TreeKept DEF ImportInv
<1>10. DirInv'
  BY <1>1, <1>3, <1>6, DirKept DEF ImportInv, FileJoined
<1> QED  BY <1>3, <1>4, <1>5, <1>7, <1>8, <1>9, <1>10 DEF ImportInv

\* Restoring throws.
LEMMA ApplyFailsStep == ASSUME ImportInv, ApplyFails PROVE ImportInv'
<1> USE DEF ApplyFails, Throw
<1>1. thrown' /\ ~gone
  BY DEF ImportInv, StageInv, ImportTypeInv
<1>2. ImportTypeInv'
  BY <1>1 DEF ImportInv, ImportTypeInv, ImportPCs
<1>3. StageInv'
  BY <1>1 DEF ImportInv, StageInv, ReadPCs, RestorePCs
<1>4. JoinInv'
  BY <1>1 DEF ImportInv, JoinInv, StageInv, ReadPCs, RestorePCs, Buffering, FilePhase,
              FileJoined, NarJoined
<1> QED  BY <1>1, <1>2, <1>3, <1>4 DEF ImportInv, NarInv, FileInv, TreeInv, DirInv

\* An event is restored: at the "end" of a file the buffer has all its parts.
LEMMA ApplyStep == ASSUME ImportInv, Apply PROVE ImportInv'
<1>1. /\ UNCHANGED <<inMemory, thrown, gone, digest, files, thread, stamped>>
      /\ ppc = "apply" /\ ~thrown /\ ~gone /\ next \in Positions /\ next' = next + 1
      /\ ppc' = IF ~inMemory THEN "read" ELSE IF next < Len(Archive) THEN "restore" ELSE "close-file"
  <2>1. ~thrown /\ ~gone /\ next \in Positions
    BY Numbers DEF ImportInv, StageInv, ImportTypeInv, RestorePCs, Positions, Apply
  <2> QED  BY <2>1 DEF Apply, NextEntry, FinishCanonical
<1>2. /\ deferred' = IF Entry.tag = "enddir" THEN Append(deferred, Entry.path) ELSE deferred
      /\ buffer' = IF Entry.tag = "begin" THEN <<>>
                   ELSE IF IsPart(next) THEN Append(buffer, next) ELSE buffer
      /\ tree' = IF Entry.tag = "end"
                 THEN [tree EXCEPT ![Entry.path] = IF @ = <<>> THEN buffer ELSE @]
                 ELSE tree
  BY DEF Apply, FinishCanonical
<1>3. next \in Nat /\ Len(Archive) \in Nat /\ next <= Len(Archive)
  BY <1>1, EventsTyped DEF Positions
<1>4. Restored = next /\ Restored' = next + 1 /\ FileSent = next + 1 /\ FileSent' = next + 1
  BY <1>1 DEF Restored, FileSent, Buffering, ReadPCs
<1>5. buffer \in Seq(Positions) /\ tree \in [IFiles -> Seq(Positions)] /\ deferred \in Seq(Paths)
  BY DEF ImportInv, ImportTypeInv
<1>6. next \in At(FileTags) <=> Entry.tag \in FileTags
  BY <1>1 DEF At, Entry, Positions
<1>7. TreeInv
  BY DEF ImportInv
<1>8. buffer' = Gathered(buffer, next) /\ Entry = Archive[next]
  BY <1>2 DEF Gathered, Entry
<1>9. ASSUME next \in At(FileTags)
      PROVE  /\ buffer' \in Seq(Positions) /\ Collected(buffer', next)
             /\ Entry.tag = "end" => IsContent(buffer, Entry.path)
             /\ Entry.path \in IFiles
  <2>1. Collected(buffer, next - 1)
    BY <1>1, <1>4, <1>7 DEF TreeInv
  <2> QED  BY <1>5, <1>8, <1>9, <2>1, Gathering, FileOfEvent
<1>10. ASSUME next \notin At(FileTags)
       PROVE  buffer' = buffer /\ tree' = tree /\ Collected(buffer', next)
  <2>1. Entry.tag \notin FileTags
    BY <1>6, <1>10
  <2>2. buffer' = buffer /\ tree' = tree
    BY <1>2, <2>1 DEF Entry, IsPart, FileTags
  <2>3. ~WithinFile(next)
    BY <2>1 DEF WithinFile, At, Entry
  <2> QED  BY <2>2, <2>3 DEF Collected
<1>11. ASSUME NEW f \in IFiles
       PROVE  /\ tree'[f] \in Seq(Positions)
              /\ tree'[f] = <<>> \/ IsContent(tree'[f], f)
              /\ IsContent(tree[f], f) => IsContent(tree'[f], f)
              /\ (Entry.tag = "end" /\ Entry.path = f) => IsContent(tree'[f], f)
  <2>1. tree[f] \in Seq(Positions) /\ (tree[f] = <<>> \/ IsContent(tree[f], f))
    BY <1>1, <1>5, <1>7 DEF TreeInv
  <2>2. CASE Entry.tag = "end" /\ Entry.path = f
    <3>1. tree'[f] = IF tree[f] = <<>> THEN buffer ELSE tree[f]
      BY <1>2, <1>5, <2>2
    <3>2. IsContent(buffer, f)
      BY <1>6, <1>9, <2>2 DEF FileTags
    <3> QED  BY <1>5, <2>1, <3>1, <3>2
  <2>3. CASE ~(Entry.tag = "end" /\ Entry.path = f)
    <3>1. tree'[f] = tree[f]
      BY <1>2, <1>5, <2>3
    <3> QED  BY <2>1, <2>3, <3>1
  <2> QED  BY <2>2, <2>3
<1>12. Collected(buffer', next) /\ buffer' \in Seq(Positions)
  BY <1>5, <1>9, <1>10
<1>13. TreeInv'
  <2>1. ASSUME NEW n \in At({"end"}), n < next + 1
        PROVE  IsContent(tree'[Archive[n].path], Archive[n].path)
    <3>1. n \in At(FileTags) /\ n \in Positions
      BY DEF At, FileTags, Positions
    <3>2. Archive[n].path \in IFiles
      BY <3>1, FileOfEvent
    <3>3. CASE n = next
      BY <1>8, <1>11, <3>2, <3>3 DEF At
    <3>4. CASE n < next
      <4>1. IsContent(tree[Archive[n].path], Archive[n].path)
        BY <1>1, <1>4, <1>7, <3>4 DEF TreeInv
      <4> QED  BY <1>11, <3>2, <4>1
    <3> QED  BY <1>3, <2>1, <3>1, <3>3, <3>4 DEF Positions
  <2>2. Restored' - 1 = next
    BY <1>3, <1>4
  <2> QED  BY <1>4, <1>11, <1>12, <2>1, <2>2 DEF TreeInv
<1>14. ImportTypeInv'
  <2>1. tree' \in [IFiles -> Seq(Positions)]
    <3>1. CASE Entry.tag = "end"
      <4>1. DOMAIN tree' = IFiles /\ tree' = [f \in IFiles |-> tree'[f]]
        BY <1>2, <1>5, <3>1
      <4> QED  BY <1>11, <4>1
    <3>2. CASE Entry.tag # "end"
      BY <1>2, <1>5, <3>2
    <3> QED  BY <3>1, <3>2
  <2>2. deferred' \in Seq(Paths)
    BY <1>1, <1>2, <1>5, <1>8, EventsTyped
  <2>3. next' \in 1..Len(Archive) + 1
    BY <1>1, <1>3
  <2> QED  BY <1>1, <1>12, <2>1, <2>2, <2>3
              DEF ImportInv, ImportTypeInv, ImportPCs, ReadPCs, RestorePCs
<1>15. StageInv'
  BY <1>1, <1>3 DEF ImportInv, StageInv, ReadPCs, RestorePCs
<1>16. JoinInv'
  BY <1>1 DEF ImportInv, JoinInv, ReadPCs, RestorePCs, Buffering, FilePhase,
              FileJoined, NarJoined
<1>17. NarInv'
  <2>1. NarJoined' => NarJoined
    BY <1>1 DEF NarJoined, RestorePCs
  <2>2. NarSent' = NarSent
    BY <1>1, <1>3 DEF NarSent, RestorePCs
  <2> QED  BY <1>1, <2>1, <2>2, NarKept DEF ImportInv, SameWork
<1>18. FileInv'
  BY <1>1, <1>3, <1>4, FileKept DEF ImportInv, SameWork
<1>19. DirInv'
  <2>1. Elems(deferred) = Ended(next)
    BY <1>1, <1>4 DEF ImportInv, DirInv
  <2>2. CASE Entry.tag = "enddir"
    <3>1. Elems(deferred') = Elems(deferred) \cup {Entry.path}
      <4>1. deferred' = Append(deferred, Entry.path) /\ Entry.path \in Paths
        BY <1>1, <1>2, <1>8, <2>2, EventsTyped
      <4>2. /\ Len(deferred') = Len(deferred) + 1 /\ Len(deferred) \in Nat
            /\ deferred'[Len(deferred) + 1] = Entry.path
            /\ \A i \in 1..Len(deferred) : deferred'[i] = deferred[i]
        BY <1>5, <4>1
      <4> QED  BY <4>2 DEF Elems
    <3>2. Ended(next + 1) = Ended(next) \cup {Entry.path}
      <4>1. next \in At({"enddir"}) /\ Entry.path = Archive[next].path
        BY <1>1, <1>8, <2>2 DEF At, Positions
      <4>2. ASSUME NEW k \in At({"enddir"}) PROVE k < next + 1 <=> k < next \/ k = next
        BY <1>3 DEF At
      <4> QED  BY <4>1, <4>2 DEF Ended
    <3> QED  BY <1>1, <1>4, <2>1, <3>1, <3>2 DEF DirInv, FileJoined
  <2>3. CASE Entry.tag # "enddir"
    <3>1. deferred' = deferred
      BY <1>2, <2>3
    <3>2. Ended(next + 1) = Ended(next)
      <4>1. next \notin At({"enddir"})
        BY <1>8, <2>3 DEF At
      <4>2. ASSUME NEW k \in At({"enddir"}) PROVE k < next + 1 <=> k < next
        BY <1>3, <4>1 DEF At
      <4> QED  BY <4>2 DEF Ended
    <3> QED  BY <1>1, <1>4, <2>1, <3>1, <3>2 DEF DirInv, FileJoined
  <2> QED  BY <2>2, <2>3
<1> QED  BY <1>13, <1>14, <1>15, <1>16, <1>17, <1>18, <1>19 DEF ImportInv

\* A queue is closed, and a worker that sleeps is woken.
LEMMA CloseEffect ==
  ASSUME NEW t, ThreadOK(t)
  PROVE  LET u == Notified([t EXCEPT !.closed = TRUE])
         IN  ThreadOK(u) /\ SameWork(t, u) /\ u.closed
             /\ (t.pc \in {"none", "returned"} => u.pc = t.pc)
<1> DEFINE v == [t EXCEPT !.closed = TRUE]
           u == Notified(v)
<1>1. t \in ThreadRec
  BY DEF ThreadOK
<1>2. v \in ThreadRec /\ v.pc = t.pc /\ v.queue = t.queue /\ v.item = t.item
      /\ v.failure = t.failure /\ v.hashed = t.hashed /\ v.key = t.key /\ v.closed = TRUE
  BY <1>1 DEF ThreadRec
<1> HIDE DEF v
<1>3. /\ u \in ThreadRec
      /\ u.queue = v.queue /\ u.item = v.item /\ u.failure = v.failure
      /\ u.hashed = v.hashed /\ u.key = v.key /\ u.closed = v.closed
      /\ u.pc = IF v.pc = "asleep" THEN "loop" ELSE v.pc
  BY <1>2 DEF ThreadRec, Notified, ThreadPCs
<1> HIDE DEF u
<1>4. ThreadOK(u)
  BY <1>2, <1>3 DEF ThreadOK
<1>5. SameWork(t, u)
  BY <1>2, <1>3 DEF SameWork
<1> QED  BY <1>2, <1>3, <1>4, <1>5 DEF u, v

\* close() leaves the queue to the worker.
LEMMA CloseStep == ASSUME ImportInv, NEW h \in Hasher, Close(h) PROVE ImportInv'
<1> DEFINE r == Notified([thread[h] EXCEPT !.closed = TRUE])
<1>1. /\ UNCHANGED <<inMemory, next, thrown, tree, buffer, stamped, deferred, gone, digest, files>>
      /\ thread' = [thread EXCEPT ![h] = r]
      /\ ppc = CloseAt(h) /\ ppc' = JoinAt(h)
  BY DEF Close
<1>2. ImportTypeInv
  BY DEF ImportInv
<1>3. /\ ThreadOK(r) /\ SameWork(thread[h], r) /\ r.closed
      /\ thread[h].pc \in {"none", "returned"} => r.pc = thread[h].pc
  BY <1>2, CloseEffect DEF ImportTypeInv
<1> HIDE DEF r
<1>4. /\ DOMAIN thread' = Hasher /\ \A g \in Hasher : ThreadOK(thread'[g])
      /\ thread'[h] = r
      /\ \A g \in Hasher : g # h => thread'[g] = thread[g]
  BY <1>1, <1>2, <1>3, OneThread
<1>5. ASSUME NEW g \in Hasher PROVE SameWork(thread[g], thread'[g])
  BY <1>3, <1>4 DEF SameWork
<1>6. "nar" \in Hasher /\ "file" \in Hasher /\ h \in {"nar", "file"} /\ "nar" # "file"
  BY DEF Hasher
<1>7. ImportTypeInv'
  BY <1>1, <1>2, <1>4 DEF ImportTypeInv, ImportPCs, ReadPCs, RestorePCs, JoinAt
<1>8. StageInv'
  BY <1>1, <1>6 DEF ImportInv, StageInv, ReadPCs, RestorePCs, CloseAt, JoinAt
<1>9. JoinInv'
  <2>1. CASE h = "nar"
    <3>1. thread'["file"] = thread["file"] /\ ppc = "close-nar" /\ ppc' = "join-nar"
      BY <1>1, <1>4, <1>6, <2>1 DEF CloseAt, JoinAt
    <3> QED  BY <1>1, <3>1
                DEF ImportInv, JoinInv, ReadPCs, RestorePCs, Buffering, FilePhase,
                                FileJoined, NarJoined
  <2>2. CASE h = "file"
    <3>1. thread'["nar"] = thread["nar"] /\ ppc = "close-file" /\ ppc' = "join-file"
      BY <1>1, <1>4, <1>6, <2>2 DEF CloseAt, JoinAt
    <3> QED  BY <1>1, <3>1
                DEF ImportInv, JoinInv, ReadPCs, RestorePCs, Buffering, FilePhase,
                                FileJoined, NarJoined
  <2> QED  BY <1>6, <2>1, <2>2
<1>10. /\ Restored' = Restored /\ FileSent' = FileSent /\ NarSent' = NarSent
       /\ NarJoined' => NarJoined
       /\ FileJoined' => FileJoined
       /\ ppc' # "registered"
  BY <1>1, <1>6
     DEF Restored, FileSent, NarSent, NarJoined, FileJoined, Buffering, ReadPCs, RestorePCs,
     CloseAt, JoinAt
<1>11. NarInv'
  BY <1>1, <1>5, <1>6, <1>10, NarKept DEF ImportInv
<1>12. FileInv'
  BY <1>1, <1>2, <1>5, <1>6, <1>10, Numbers, FileKept DEF ImportInv
<1>13. TreeInv'
  BY <1>1, <1>10, TreeKept DEF ImportInv
<1>14. DirInv'
  BY <1>1, <1>10, DirKept DEF ImportInv
<1> QED  BY <1>7, <1>8, <1>9, <1>11, <1>12, <1>13, <1>14 DEF ImportInv

\* What was restored is deleted.
LEMMA DeleteTreeStep == ASSUME ImportInv, DeleteTree PROVE ImportInv'
<1> USE DEF DeleteTree
<1>1. thrown' /\ thrown
  BY DEF ImportInv, StageInv
<1>2. ImportTypeInv'
  BY DEF ImportInv, ImportTypeInv, ImportPCs
<1>3. StageInv'
  BY <1>1 DEF ImportInv, StageInv, ReadPCs, RestorePCs
<1>4. JoinInv'
  BY <1>1 DEF ImportInv, JoinInv, ReadPCs, RestorePCs, Buffering, FilePhase,
              FileJoined, NarJoined
<1> QED  BY <1>1, <1>2, <1>3, <1>4 DEF ImportInv, NarInv, FileInv, TreeInv, DirInv

\* The path is registered.
LEMMA RegisterStep == ASSUME ImportInv, Register PROVE ImportInv'
<1> USE DEF Register
<1>1. ~thrown /\ ~thrown' /\ ~gone /\ Archive[1].path \in Paths
  BY EventsTyped DEF ImportInv, StageInv, Positions, ImportTypeInv
<1>2. ImportTypeInv'
  BY <1>1 DEF ImportInv, ImportTypeInv, ImportPCs
<1>3. StageInv'
  BY <1>1 DEF ImportInv, StageInv, ReadPCs, RestorePCs
<1>4. JoinInv'
  BY <1>1 DEF ImportInv, JoinInv, ReadPCs, RestorePCs, Buffering, FilePhase,
              FileJoined, NarJoined
<1>5. Restored' = Restored /\ FileSent' = FileSent /\ NarSent' = NarSent /\ NarJoined
      /\ FileJoined
  BY
     DEF Restored, FileSent, NarSent, Buffering, ReadPCs, RestorePCs, NarJoined, FileJoined
<1>6. NarInv'
  BY <1>1, <1>5, NarKept DEF ImportInv, SameWork
<1>7. FileInv'
  BY <1>1, <1>5, Numbers, FileKept DEF ImportInv, SameWork
<1>8. TreeInv'
  BY <1>1, <1>5, TreeKept DEF ImportInv
<1>9. DirInv'
  BY <1>1, <1>5 DEF ImportInv, DirInv
<1> QED  BY <1>2, <1>3, <1>4, <1>6, <1>7, <1>8, <1>9 DEF ImportInv

\* The file hasher is joined, and the directories are stamped.
LEMMA JoinFileHasherStep == ASSUME ImportInv, JoinFileHasher PROVE ImportInv'
<1> DEFINE fails == thrown \/ thread["file"].failure
<1>1. /\ UNCHANGED <<inMemory, next, tree, buffer, deferred, gone, digest, files, thread>>
      /\ ppc = "join-file" /\ thread["file"].pc = "returned"
      /\ thrown' = fails
      /\ ppc' = IF fails THEN "delete" ELSE IF inMemory THEN "move" ELSE "close-nar"
      /\ stamped' = IF fails THEN stamped ELSE stamped \cup Elems(deferred)
      /\ ~gone
  BY DEF JoinFileHasher, Elems, ImportInv, StageInv, ImportTypeInv
<1>2. thread["file"].failure \in BOOLEAN /\ thrown \in BOOLEAN /\ deferred \in Seq(Paths)
  BY DEF ImportInv, ImportTypeInv, ThreadOK, ThreadRec, Hasher
<1>3. Elems(deferred) \subseteq Paths
  BY <1>2 DEF Elems
<1>4. ImportTypeInv'
  BY <1>1, <1>2, <1>3 DEF ImportInv, ImportTypeInv, ImportPCs
<1>5. StageInv'
  BY <1>1 DEF ImportInv, StageInv, ReadPCs, RestorePCs
<1>6. JoinInv'
  <2>1. CASE fails
    BY <1>1, <2>1 DEF ImportInv, JoinInv, ReadPCs, RestorePCs, Buffering, FilePhase,
              FileJoined, NarJoined
  <2>2. CASE ~fails
    BY <1>1, <2>2 DEF ImportInv, JoinInv, ReadPCs, RestorePCs, Buffering, FilePhase,
              FileJoined, NarJoined
  <2> QED  BY <2>1, <2>2
<1>7. CASE fails
  BY <1>1, <1>4, <1>5, <1>6, <1>7 DEF ImportInv, NarInv, FileInv, TreeInv, DirInv
<1>8. CASE ~fails
  <2>1. /\ Restored' = Restored /\ Restored = next /\ FileSent' = FileSent /\ NarSent' = NarSent
        /\ NarJoined' => NarJoined
        /\ ~thrown /\ ~thrown' /\ next' = next
    BY <1>1, <1>8
       DEF Restored, FileSent, NarSent, Buffering, ReadPCs, RestorePCs, NarJoined
  <2>2. NarInv'
    BY <1>1, <2>1, NarKept DEF ImportInv, SameWork
  <2>3. FileInv'
    BY <1>1, <2>1, Numbers, FileKept DEF ImportInv, SameWork
  <2>4. TreeInv'
    BY <1>1, <2>1, TreeKept DEF ImportInv
  <2>5. DirInv'
    <3>1. Elems(deferred) = Ended(next)
      BY <2>1 DEF ImportInv, DirInv
    <3>2. stamped' = stamped \cup Ended(next) /\ ppc' # "registered" /\ deferred' = deferred
      BY <1>1, <1>8, <3>1
    <3> QED  BY <2>1, <3>1, <3>2 DEF DirInv
  <2> QED  BY <1>4, <1>5, <1>6, <2>2, <2>3, <2>4, <2>5 DEF ImportInv
<1> QED  BY <1>7, <1>8

\* All that was sent has been hashed when the queue is empty at the end.
LEMMA WholeDigest ==
  ASSUME ImportInv, ~thrown, ppc = "join-nar", thread["nar"].pc = "returned",
         ~thread["nar"].failure
  PROVE  thread["nar"].hashed = [n \in Positions |-> n]
<1> DEFINE t == thread["nar"]
<1>1. ThreadOK(t) /\ t.hashed \in Seq(Positions) /\ t.queue = <<>>
  BY DEF ImportInv, ImportTypeInv, Hasher, ThreadOK, ThreadRec
<1>2. NarFlow(t) /\ NarSent = next - 1 /\ next = Len(Archive) + 1
  BY DEF ImportInv, NarInv, NarSent, StageInv, ReadPCs, RestorePCs
<1>3. Taken(t) = Len(t.hashed) /\ Len(t.queue) = 0 /\ Len(t.hashed) \in Nat
  BY <1>1 DEF Taken
<1>4. Len(t.hashed) = Len(Archive)
  BY <1>2, <1>3, EventsTyped DEF NarFlow
<1>5. \A i \in Positions : t.hashed[i] = i
  BY <1>2, <1>4 DEF NarFlow, Positions
<1>6. t.hashed = [i \in 1..Len(t.hashed) |-> t.hashed[i]]
  BY <1>1
<1> HIDE DEF t
<1>7. t.hashed = [n \in Positions |-> n]
  BY <1>4, <1>5, <1>6 DEF Positions
<1> QED  BY <1>7 DEF t

\* The hash sink is joined, and an archive in memory is restored.
LEMMA JoinHashSinkStep == ASSUME ImportInv, JoinHashSink PROVE ImportInv'
<1> DEFINE fails == thrown \/ thread["nar"].failure
<1>1. /\ UNCHANGED <<inMemory, tree, buffer, stamped, deferred, gone, files>>
      /\ ppc = "join-nar" /\ thread["nar"].pc = "returned"
      /\ thrown' = fails
      /\ ppc' = IF thrown THEN "failed" ELSE IF fails THEN "delete"
                ELSE IF inMemory THEN "restore" ELSE "move"
      /\ digest' = IF fails THEN digest ELSE thread["nar"].hashed
      /\ next' = IF inMemory /\ ~fails THEN 1 ELSE next
      /\ thread' = IF inMemory /\ ~fails THEN [thread EXCEPT !["file"].pc = "loop"] ELSE thread
  BY DEF JoinHashSink
<1>2. /\ thread["nar"].failure \in BOOLEAN /\ thrown \in BOOLEAN /\ ImportTypeInv
      /\ "nar" \in Hasher /\ "file" \in Hasher /\ "nar" # "file"
  BY DEF ImportInv, ImportTypeInv, ThreadOK, ThreadRec, Hasher
<1>3. Len(Archive) \in Nat /\ Len(Archive) > 0 /\ next \in Nat
  BY <1>2, EventsTyped, Numbers
<1>4. CASE fails
  <2>1. thrown' /\ ppc' \in {"failed", "delete"} /\ next' = next /\ thread' = thread
        /\ (ppc' = "failed" <=> thrown)
    BY <1>1, <1>4
  <2>2. ImportTypeInv'
    BY <1>1, <1>2, <2>1 DEF ImportTypeInv, ImportPCs
  <2>3. StageInv'
    <3>1. ppc' = "delete" => ~gone
      BY <1>1, <2>1 DEF ImportInv, StageInv
    <3> QED  BY <1>1, <2>1, <3>1 DEF ImportInv, StageInv, ReadPCs, RestorePCs
  <2>4. JoinInv'
    BY <1>1, <2>1 DEF ImportInv, JoinInv, ReadPCs, RestorePCs, Buffering, FilePhase,
              FileJoined, NarJoined
  <2> QED  BY <2>1, <2>2, <2>3, <2>4 DEF ImportInv, NarInv, FileInv, TreeInv, DirInv
<1>5. CASE ~fails /\ ~inMemory
  <2>1. ~thrown /\ ~thrown' /\ ppc' = "move" /\ next' = next /\ thread' = thread
        /\ digest' = [n \in Positions |-> n]
    BY <1>1, <1>5, WholeDigest
  <2>2. ImportTypeInv'
    BY <1>1, <1>2, <2>1 DEF ImportTypeInv, ImportPCs
  <2>3. StageInv'
    BY <1>1, <2>1 DEF ImportInv, StageInv, ReadPCs, RestorePCs
  <2>4. JoinInv'
    BY <1>1, <1>5, <2>1
       DEF ImportInv, JoinInv, ReadPCs, RestorePCs, Buffering, FilePhase,
              FileJoined, NarJoined
  <2>5. Restored' = Restored /\ FileSent' = FileSent /\ NarSent' = NarSent /\ FileJoined
    BY <1>1, <1>5, <2>1
       DEF Restored, FileSent, NarSent, Buffering, ReadPCs, RestorePCs, FileJoined
  <2>6. NarInv'
    <3>1. ~thread["nar"].failure => NarFlow(thread["nar"])
      BY <2>1 DEF ImportInv, NarInv
    <3> QED  BY <2>1, <2>5, <3>1 DEF NarInv, NarFlow
  <2>7. FileInv'
    BY <1>1, <1>2, <2>1, <2>5, Numbers, FileKept DEF ImportInv, SameWork
  <2>8. TreeInv'
    BY <1>1, <2>1, <2>5, TreeKept DEF ImportInv
  <2>9. DirInv'
    BY <1>1, <2>1, <2>5, DirKept DEF ImportInv
  <2> QED  BY <2>2, <2>3, <2>4, <2>6, <2>7, <2>8, <2>9 DEF ImportInv
<1>6. CASE ~fails /\ inMemory
  <2>1. ~thrown /\ ~thrown' /\ ppc' = "restore" /\ next' = 1 /\ inMemory'
        /\ digest' = [n \in Positions |-> n] /\ ~gone
        /\ thread' = [thread EXCEPT !["file"].pc = "loop"]
    <3>1. ~gone
      BY <1>6 DEF ImportInv, StageInv
    <3> QED  BY <1>1, <1>6, <3>1, WholeDigest
  <2> DEFINE t == thread["file"]
             u == [t EXCEPT !.pc = "loop"]
  <2>2. t = [NewThread EXCEPT !.pc = "none"] /\ ThreadOK(t)
    BY <1>1, <1>2, <1>6 DEF ImportInv, JoinInv, Buffering, ImportTypeInv
  <2>3. ThreadOK(u) /\ SameWork(t, u) /\ ~u.closed /\ u.pc = "loop"
    <3>1. t \in ThreadRec /\ t.closed = FALSE /\ t.pc = "none"
      BY <2>2 DEF ThreadOK, NewThread
    <3> HIDE DEF t
    <3>2. u \in ThreadRec /\ u.pc = "loop" /\ u.queue = t.queue /\ u.item = t.item
          /\ u.failure = t.failure /\ u.hashed = t.hashed /\ u.key = t.key /\ u.closed = t.closed
      BY <3>1 DEF ThreadRec, ThreadPCs
    <3> QED  BY <2>2, <3>1, <3>2 DEF ThreadOK, SameWork
  <2>4. thread' = [thread EXCEPT !["file"] = u]
    BY <2>1
  <2> HIDE DEF u
  <2>5. /\ DOMAIN thread' = Hasher /\ \A g \in Hasher : ThreadOK(thread'[g])
        /\ thread'["file"] = u
        /\ thread'["nar"] = thread["nar"]
    BY <1>2, <2>3, <2>4, OneThread
  <2>6. ImportTypeInv'
    <3>1. thrown' \in BOOLEAN
      BY <1>1, <1>2, Zenon
    <3>2. next' \in 1..Len(Archive) + 1
      BY <1>3, <2>1
    <3> QED  BY <1>1, <1>2, <2>1, <2>5, <3>1, <3>2
                DEF ImportTypeInv, ImportPCs, RestorePCs
  <2>7. StageInv'
    BY <1>1, <1>3, <2>1 DEF ImportInv, StageInv, ReadPCs, RestorePCs
  <2>8. JoinInv'
    BY <1>1, <1>6, <2>1, <2>3, <2>5
       DEF ImportInv, JoinInv, ReadPCs, RestorePCs, Buffering,
       FilePhase, FileJoined, NarJoined
  <2>9. Restored' = 1 /\ Restored = 1 /\ FileSent' = 1 /\ FileSent = 1 /\ NarSent' = NarSent
    BY <1>1, <1>3, <1>6, <2>1
       DEF Restored, FileSent, NarSent, Buffering, ReadPCs, RestorePCs,
       ImportInv, StageInv
  <2>10. NarInv'
    <3>1. ~thread["nar"].failure => NarFlow(thread["nar"])
      BY <2>1 DEF ImportInv, NarInv
    <3> QED  BY <2>1, <2>5, <2>9, <3>1 DEF NarInv, NarFlow, Taken
  <2>11. FileInv'
    BY <1>1, <2>1, <2>3, <2>5, <2>9, FileKept DEF ImportInv
  <2>12. TreeInv'
    BY <1>1, <2>1, <2>9, TreeKept DEF ImportInv
  <2>13. DirInv'
    BY <1>1, <2>1, <2>9, DirKept DEF ImportInv, FileJoined
  <2> QED  BY <2>6, <2>7, <2>8, <2>10, <2>11, <2>12, <2>13 DEF ImportInv
<1> QED  BY <1>4, <1>5, <1>6

-----------------------------------------------------------------------------
(* The hashing threads.                                                    *)

\* A step of a hashing thread does not move the importing thread, except out of
\* the wait for room in the queue.
LEMMA WorkerFrame ==
  ASSUME ImportInv, NEW h \in Hasher, NEW r, ThreadOK(r), thread' = [thread EXCEPT ![h] = r],
         thread[h].pc \in {"loop", "work"}, r.closed = thread[h].closed,
         ppc' = ppc \/ (ppc = FullAt(h) /\ ppc' = PushAt(h)),
         UNCHANGED <<inMemory, next, thrown, buffer, deferred, gone, digest>>,
         tree' \in [IFiles -> Seq(Positions)], DOMAIN files' = IFiles,
         stamped' \subseteq stamped, h # "file" => stamped' = stamped
  PROVE  /\ ImportTypeInv' /\ StageInv' /\ JoinInv' /\ DirInv'
         /\ thread'[h] = r /\ \A g \in Hasher : g # h => thread'[g] = thread[g]
         /\ Restored' = Restored /\ FileSent' = FileSent /\ NarSent' = NarSent
         /\ NarJoined' <=> NarJoined
<1>1. ImportTypeInv /\ "nar" \in Hasher /\ "file" \in Hasher /\ h \in {"nar", "file"} /\ "nar" # "file"
  BY DEF ImportInv, Hasher
<1>2. /\ DOMAIN thread' = Hasher /\ \A g \in Hasher : ThreadOK(thread'[g])
      /\ thread'[h] = r /\ \A g \in Hasher : g # h => thread'[g] = thread[g]
  BY <1>1, OneThread
<1>3. ppc' = ppc \/ (ppc = "full-nar" /\ ppc' = "push-nar") \/ (ppc = "full-file" /\ ppc' = "push-file")
  BY <1>1 DEF FullAt, PushAt
<1>4. ImportTypeInv'
  BY <1>1, <1>2, <1>3 DEF ImportTypeInv, ImportPCs, ReadPCs, RestorePCs
<1>5. StageInv'
  BY <1>3 DEF ImportInv, StageInv, ReadPCs, RestorePCs
<1>6. /\ Restored' = Restored /\ FileSent' = FileSent /\ NarSent' = NarSent
      /\ Buffering' <=> Buffering
      /\ NarJoined' <=> NarJoined
      /\ FilePhase' <=> FilePhase
      /\ FileJoined' <=> FileJoined
  BY <1>3
     DEF Restored, FileSent, NarSent, Buffering, FilePhase, NarJoined, FileJoined, ReadPCs, RestorePCs
<1>7. JoinInv'
  <2>1. JoinInv
    BY DEF ImportInv
  <2>2. CASE h = "nar"
    <3>1. thread'["file"] = thread["file"] /\ thread'["nar"].closed = thread["nar"].closed
          /\ thread["nar"].pc \in {"loop", "work"}
      BY <1>1, <1>2, <2>2
    <3>2. ~NarJoined
      BY <2>1, <3>1 DEF JoinInv
    <3> QED  BY <1>3, <1>6, <2>1, <3>1, <3>2 DEF JoinInv
  <2>3. CASE h = "file"
    <3>1. thread'["nar"] = thread["nar"] /\ thread'["file"].closed = thread["file"].closed
          /\ thread["file"].pc \in {"loop", "work"}
      BY <1>1, <1>2, <2>3
    <3>2. ~(Buffering /\ ~thrown)
      BY <2>1, <3>1 DEF JoinInv, NewThread
    <3>3. ~(FileJoined /\ ~thrown)
          /\ ppc \notin {"close-nar", "join-nar", "delete", "move", "registered", "failed"}
      BY <2>1, <3>1 DEF JoinInv
    <3> QED  BY <1>3, <1>6, <2>1, <3>1, <3>2, <3>3 DEF JoinInv
  <2> QED  BY <1>1, <2>2, <2>3
<1>8. DirInv'
  <2>1. JoinInv /\ DirInv
    BY DEF ImportInv
  <2>2. CASE h = "nar"
    BY <1>3, <1>6, <2>1, <2>2 DEF DirInv
  <2>3. CASE h = "file"
    <3>1. ~(FileJoined /\ ~thrown) /\ ppc # "registered"
      BY <2>1, <2>3 DEF JoinInv
    <3> QED  BY <1>3, <1>6, <2>1, <3>1 DEF DirInv
  <2> QED  BY <1>1, <2>2, <2>3
<1> QED  BY <1>2, <1>4, <1>5, <1>6, <1>7, <1>8

\* The other thread, and what it hashes, is not concerned.
LEMMA WorkerAlone ==
  ASSUME ImportInv, NEW h \in Hasher, NEW r, ThreadOK(r), thread' = [thread EXCEPT ![h] = r],
         thread[h].pc \in {"loop", "work"}, r.closed = thread[h].closed,
         ppc' = ppc \/ (ppc = FullAt(h) /\ ppc' = PushAt(h)),
         UNCHANGED <<inMemory, next, thrown, tree, buffer, stamped, deferred, gone, digest, files>>
  PROVE  /\ ImportTypeInv' /\ StageInv' /\ JoinInv' /\ DirInv' /\ TreeInv'
         /\ h = "nar" => FileInv'
         /\ h = "file" => NarInv'
         /\ SameWork(thread[h], r) => ImportInv'
         /\ thread'[h] = r
         /\ FileSent' = FileSent /\ NarSent' = NarSent
         /\ NarJoined' <=> NarJoined
<1>1. "nar" \in Hasher /\ "file" \in Hasher /\ h \in {"nar", "file"} /\ "nar" # "file"
  BY DEF Hasher
<1>2. /\ tree' \in [IFiles -> Seq(Positions)] /\ DOMAIN files' = IFiles
      /\ stamped' \subseteq stamped /\ stamped' = stamped
  BY DEF ImportInv, ImportTypeInv
<1>3. /\ ImportTypeInv' /\ StageInv' /\ JoinInv' /\ DirInv'
      /\ thread'[h] = r /\ \A g \in Hasher : g # h => thread'[g] = thread[g]
      /\ Restored' = Restored /\ FileSent' = FileSent /\ NarSent' = NarSent
      /\ NarJoined' <=> NarJoined
  BY <1>2, WorkerFrame
<1>4. TreeInv'
  BY <1>3, TreeKept DEF ImportInv
<1>5. FileSent \in Nat /\ FileSent' \in Nat
  BY <1>3, Numbers DEF ImportInv
<1>6. ASSUME SameWork(thread["file"], thread'["file"]) PROVE FileInv'
  BY <1>3, <1>5, <1>6, FileKept DEF ImportInv
<1>7. ASSUME SameWork(thread["nar"], thread'["nar"]) PROVE NarInv'
  BY <1>3, <1>7, NarKept DEF ImportInv
<1>8. ASSUME h = "nar" PROVE FileInv'
  <2>1. thread'["file"] = thread["file"]
    BY <1>1, <1>3, <1>8
  <2> QED  BY <1>6, <2>1 DEF SameWork
<1>9. ASSUME h = "file" PROVE NarInv'
  <2>1. thread'["nar"] = thread["nar"]
    BY <1>1, <1>3, <1>9
  <2> QED  BY <1>7, <2>1 DEF SameWork
<1>10. ASSUME SameWork(thread[h], r) PROVE ImportInv'
  <2>1. NarInv' /\ FileInv'
    BY <1>1, <1>3, <1>6, <1>7, <1>8, <1>9, <1>10
  <2> QED  BY <1>3, <1>4, <2>1 DEF ImportInv
<1> QED  BY <1>3, <1>4, <1>8, <1>9, <1>10

\* A worker takes an item, sleeps or returns.
LEMMA TakeStep == ASSUME ImportInv, NEW h \in Hasher, Take(h) PROVE ImportInv'
<1> DEFINE t == thread[h]
<1>1. /\ UNCHANGED <<inMemory, next, thrown, tree, buffer, stamped, deferred, gone, digest, files>>
      /\ t.pc = "loop" /\ t.pc \in {"loop", "work"}
      /\ ppc' = ppc \/ (ppc = FullAt(h) /\ ppc' = PushAt(h))
  BY DEF Take
<1>2. ThreadOK(t) /\ t \in ThreadRec /\ h \in {"nar", "file"}
  BY DEF ImportInv, ImportTypeInv, ThreadOK, Hasher
<1>3. CASE Leaves(t)
  <2> DEFINE r == [t EXCEPT !.pc = "returned"]
  <2>1. thread' = [thread EXCEPT ![h] = r]
    BY <1>3 DEF Take
  <2>2. ThreadOK(r) /\ SameWork(t, r) /\ r.closed = t.closed
    BY <1>1, <1>2, <1>3 DEF ThreadOK, ThreadRec, ThreadPCs, SameWork, Leaves
  <2> HIDE DEF r
  <2> QED  BY <1>1, <2>1, <2>2, WorkerAlone
<1>4. CASE ~Leaves(t) /\ t.queue = <<>>
  <2> DEFINE r == [t EXCEPT !.pc = "asleep"]
  <2>1. thread' = [thread EXCEPT ![h] = r]
    BY <1>4 DEF Take
  <2>2. ThreadOK(r) /\ SameWork(t, r) /\ r.closed = t.closed
    BY <1>1, <1>2, <1>4 DEF ThreadOK, ThreadRec, ThreadPCs, SameWork
  <2> HIDE DEF r
  <2> QED  BY <1>1, <2>1, <2>2, WorkerAlone
<1>5. CASE ~Leaves(t) /\ t.queue # <<>>
  <2> DEFINE r == [t EXCEPT !.pc = "work", !.item = Head(t.queue), !.queue = Tail(t.queue)]
  <2>1. thread' = [thread EXCEPT ![h] = r]
    BY <1>5 DEF Take
  <2>2. /\ Tail(t.queue) \in Seq(Positions) /\ Len(t.queue) \in Nat \ {0} /\ t.queue \in Seq(Positions)
        /\ Len(Tail(t.queue)) = Len(t.queue) - 1
        /\ \A i \in 1..Len(t.queue) - 1 : Tail(t.queue)[i] = t.queue[i + 1]
        /\ Head(t.queue) = t.queue[1] /\ t.queue[1] \in Positions
        /\ Elems(t.queue) = Elems(Tail(t.queue)) \cup {Head(t.queue)}
        /\ InOrder(t.queue) => /\ InOrder(Tail(t.queue))
                               /\ \A i \in 1..Len(Tail(t.queue)) : Head(t.queue) < Tail(t.queue)[i]
    <3>1. t.queue \in Seq(Positions)
      BY <1>2 DEF ThreadRec
    <3> QED  BY <1>5, <3>1, TailListed
  <2>3. Head(t.queue) \in Int
    BY <2>2 DEF Positions
  <2>4. /\ r \in ThreadRec /\ r.pc = "work" /\ r.item = Head(t.queue) /\ r.queue = Tail(t.queue)
        /\ r.closed = t.closed /\ r.failure = t.failure /\ r.hashed = t.hashed /\ r.key = t.key
    BY <1>2, <2>2, <2>3 DEF ThreadRec, ThreadPCs
  <2> HIDE DEF r
  <2>5. ThreadOK(r)
    BY <1>2, <2>2, <2>4, MaxQueuedAssumption DEF ThreadOK
  <2>6. /\ ImportTypeInv' /\ StageInv' /\ JoinInv' /\ DirInv' /\ TreeInv'
        /\ h = "nar" => FileInv'
        /\ h = "file" => NarInv'
        /\ thread'[h] = r
        /\ FileSent' = FileSent /\ NarSent' = NarSent
        /\ NarJoined' <=> NarJoined
    BY <1>1, <2>1, <2>4, <2>5, WorkerAlone
  <2>7. CASE h = "nar"
    <3>1. ASSUME ~thrown, ~t.failure PROVE NarFlow(thread["nar"])'
      <4>1. NarFlow(t)
        BY <2>7, <3>1 DEF ImportInv, NarInv
      <4>2. Taken(t) = Len(t.hashed) /\ Taken(r) = Len(t.hashed) + 1 /\ Len(t.hashed) \in Nat
        BY <1>1, <1>2, <2>4 DEF Taken, ThreadRec
      <4>3. r.item = Taken(r)
        BY <2>2, <2>4, <4>1, <4>2 DEF NarFlow
      <4>4. \A i \in 1..Len(r.queue) : r.queue[i] = Taken(r) + i
        <5> SUFFICES ASSUME NEW i \in 1..Len(t.queue) - 1 PROVE t.queue[i + 1] = Taken(r) + i
          BY <2>2, <2>4
        <5>1. i + 1 \in 1..Len(t.queue)
          BY <2>2
        <5> QED  BY <4>1, <4>2, <5>1 DEF NarFlow
      <4>5. Taken(r) + Len(r.queue) = NarSent
        <5>1. Len(t.hashed) + Len(t.queue) = NarSent
          BY <4>1, <4>2, Zenon DEF NarFlow
        <5>2. Len(r.queue) = Len(t.queue) - 1 /\ Len(t.queue) \in Nat
          BY <2>2, <2>4
        <5>3. \A i, j \in Int : (i + 1) + (j - 1) = i + j
          OBVIOUS
        <5>4. NarSent = (Len(t.hashed) + 1) + (Len(t.queue) - 1)
          <6>1. Len(t.hashed) \in Int /\ Len(t.queue) \in Int
            BY <4>2, <5>2
          <6> QED  BY <5>1, <5>3, <6>1, Zenon
        <5> QED  BY <4>2, <5>2, <5>4, Zenon
      <4> QED  BY <2>4, <2>6, <2>7, <4>1, <4>3, <4>4, <4>5 DEF NarFlow
    <3>2. NarInv'
      BY <1>1, <2>4, <2>6, <2>7, <3>1 DEF ImportInv, NarInv
    <3> QED  BY <2>6, <2>7, <3>2 DEF ImportInv
  <2>8. CASE h = "file"
    <3>1. ASSUME ~thrown PROVE FileInv'
      <4>1. PICK d \in 0..FileSent - 1 : FileFlow(t, d) /\ FilesHashed(t, d)
        BY <2>8, <3>1 DEF ImportInv, FileInv
      <4>2. FileTodo(r) = FileTodo(t)
        BY <1>1, <2>2, <2>4 DEF FileTodo
      <4>3. FileFlow(thread["file"], d)'
        BY <2>2, <2>4, <2>6, <2>8, <4>1, <4>2 DEF FileFlow
      <4>4. FilesHashed(thread["file"], d)'
        BY <1>1, <2>4, <2>6, <2>8, <4>1 DEF FilesHashed
      <4> QED  BY <2>6, <4>1, <4>3, <4>4 DEF FileInv
    <3>2. FileInv'
      BY <1>1, <3>1 DEF FileInv
    <3> QED  BY <2>6, <2>8, <3>2 DEF ImportInv
  <2> QED  BY <1>2, <2>7, <2>8
<1> QED  BY <1>3, <1>4, <1>5

\* The item at hand is the first that is left; afterwards it is not.
LEMMA ItemDone ==
  ASSUME ImportInv, NEW t, ThreadOK(t), t.pc = "work", NEW d \in 0..FileSent - 1, FileFlow(t, d),
         NEW u, u.queue = t.queue, u.pc = "loop"
  PROVE  /\ t.item \in At(FileTags) /\ t.item \in Positions
         /\ t.item \in 0..FileSent - 1
         /\ FileFlow(u, t.item)
         /\ \A n \in At(FileTags) : n <= t.item => n <= d \/ n = t.item
         /\ Archive[t.item].tag # "begin" => d = t.item - 1
<1>1. FileSent \in Nat /\ t.item \in Positions /\ \A n \in At(FileTags) : n \in Positions
  BY Numbers DEF ImportInv, ThreadOK, At, Positions
<1>2. t.item \in FileTodo(t) /\ FileTodo(t) = {n \in At(FileTags) : d < n /\ n < FileSent}
  BY DEF FileTodo, FileFlow
<1>3. t.item \in At(FileTags) /\ d < t.item /\ t.item < FileSent
  BY <1>2
<1>4. ASSUME NEW n \in At(FileTags), d < n, n < FileSent, n # t.item
      PROVE  n \in Elems(t.queue) /\ t.item < n
  <2>1. n \in Elems(t.queue)
    BY <1>2, <1>4 DEF FileTodo
  <2>2. PICK i \in 1..Len(t.queue) : n = t.queue[i]
    BY <2>1 DEF Elems
  <2> QED  BY <2>1, <2>2 DEF FileFlow
<1>5. ASSUME NEW n \in At(FileTags), n <= t.item PROVE n <= d \/ n = t.item
  <2>1. n < FileSent
    BY <1>1, <1>3, <1>5 DEF Positions
  <2>2. CASE d < n /\ n # t.item
    <3>1. t.item < n
      BY <1>4, <2>1, <2>2
    <3> QED  BY <1>1, <1>5, <3>1 DEF Positions
  <2> QED  BY <1>1, <2>2 DEF Positions
<1>6. ASSUME Archive[t.item].tag # "begin" PROVE d = t.item - 1
  <2>1. t.item - 1 \in At(FileTags)
    BY <1>3, <1>6, PreviousEvent DEF WithinFile, At
  <2>2. t.item - 1 <= d
    BY <1>1, <1>5, <2>1 DEF Positions
  <2> QED  BY <1>1, <1>3, <2>2 DEF Positions
<1>7. FileTodo(u) = {n \in At(FileTags) : t.item < n /\ n < FileSent}
  <2>1. FileTodo(u) = Elems(t.queue)
    BY DEF FileTodo
  <2>2. ASSUME NEW n \in Elems(t.queue)
        PROVE  n \in At(FileTags) /\ t.item < n /\ n < FileSent
    <3>1. n \in At(FileTags) /\ n < FileSent
      BY <1>2 DEF FileTodo
    <3>2. PICK i \in 1..Len(t.queue) : n = t.queue[i]
      BY DEF Elems
    <3> QED  BY <3>1, <3>2 DEF FileFlow
  <2>3. ASSUME NEW n \in At(FileTags), t.item < n, n < FileSent
        PROVE  n \in Elems(t.queue)
    <3>1. d < n /\ n # t.item
      BY <1>1, <1>3, <2>3 DEF Positions
    <3> QED  BY <1>4, <2>3, <3>1
  <2> QED  BY <2>1, <2>2, <2>3
<1>8. FileFlow(u, t.item)
  BY <1>7 DEF FileFlow
<1>9. t.item \in 0..FileSent - 1
  BY <1>1, <1>3 DEF Positions
<1> QED  BY <1>1, <1>3, <1>5, <1>6, <1>8, <1>9

\* After a failure nothing is claimed but the order of the items.
LEMMA ItemLost ==
  ASSUME ImportInv, NEW h \in Hasher, NEW r, thread' = [thread EXCEPT ![h] = r],
         thread[h].pc = "work", ThreadOK(r), r.failure, r.pc = "loop",
         r.queue = thread[h].queue, r.closed = thread[h].closed,
         UNCHANGED <<inMemory, next, ppc, thrown, tree, buffer, stamped, deferred, gone, digest, files>>
  PROVE  ImportInv'
<1>1. /\ ImportTypeInv' /\ StageInv' /\ JoinInv' /\ DirInv' /\ TreeInv'
      /\ h = "nar" => FileInv'
      /\ h = "file" => NarInv'
      /\ thread'[h] = r
      /\ FileSent' = FileSent
      /\ NarJoined' <=> NarJoined
  BY WorkerAlone
<1>2. CASE h = "nar"
  <2>1. NarInv'
    BY <1>1, <1>2 DEF ImportInv, NarInv
  <2> QED  BY <1>1, <1>2, <2>1 DEF ImportInv
<1>3. CASE h = "file"
  <2>1. ASSUME ~thrown PROVE FileInv'
    <3> DEFINE t == thread["file"]
    <3>1. PICK d \in 0..FileSent - 1 : FileFlow(t, d)
      BY <2>1 DEF ImportInv, FileInv
    <3>2. ThreadOK(t)
      BY DEF ImportInv, ImportTypeInv, Hasher
    <3>3. PICK n \in 0..FileSent - 1 : FileFlow(r, n)
      BY <1>3, <3>1, <3>2, ItemDone
    <3>4. FileFlow(thread["file"], n)'
      BY <1>1, <1>3, <3>3 DEF FileFlow
    <3>5. FilesHashed(thread["file"], n)'
      BY <1>1, <1>3 DEF FilesHashed
    <3> QED  BY <1>1, <3>3, <3>4, <3>5 DEF FileInv
  <2>2. FileInv'
    BY <2>1 DEF FileInv
  <2> QED  BY <1>1, <1>3, <2>2 DEF ImportInv
<1> QED  BY <1>2, <1>3 DEF Hasher

\* Hashing throws.
LEMMA FailStep == ASSUME ImportInv, NEW h \in Hasher, Fail(h) PROVE ImportInv'
<1> DEFINE t == thread[h]
           r == [t EXCEPT !.pc = "loop", !.failure = TRUE]
<1>1. /\ UNCHANGED <<inMemory, next, ppc, thrown, tree, buffer, stamped, deferred, gone, digest, files>>
      /\ t.pc = "work" /\ thread' = [thread EXCEPT ![h] = r]
  BY DEF Fail, ImportInv, ImportTypeInv
<1>2. ThreadOK(t)
  BY DEF ImportInv, ImportTypeInv
<1>3. ThreadOK(r) /\ r.failure /\ r.pc = "loop" /\ r.queue = t.queue /\ r.closed = t.closed
  BY <1>2 DEF ThreadOK, ThreadRec, ThreadPCs
<1> HIDE DEF r
<1> QED  BY <1>1, <1>3, ItemLost

\* A worker that has failed drops its item.
LEMMA DropStep == ASSUME ImportInv, NEW h \in Hasher, Drop(h) PROVE ImportInv'
<1> DEFINE t == thread[h]
           r == [t EXCEPT !.pc = "loop"]
<1>1. /\ UNCHANGED <<inMemory, next, ppc, thrown, tree, buffer, stamped, deferred, gone, digest, files>>
      /\ t.pc = "work" /\ t.failure /\ thread' = [thread EXCEPT ![h] = r]
  BY DEF Drop, ImportInv, ImportTypeInv
<1>2. ThreadOK(t)
  BY DEF ImportInv, ImportTypeInv
<1>3. ThreadOK(r) /\ r.failure = t.failure /\ r.pc = "loop" /\ r.queue = t.queue /\ r.closed = t.closed
  BY <1>2 DEF ThreadOK, ThreadRec, ThreadPCs
<1> HIDE DEF r
<1> QED  BY <1>1, <1>3, ItemLost

\* A chunk of the archive is hashed.
LEMMA HashChunkStep == ASSUME ImportInv, NEW h \in Hasher, HashChunk(h) PROVE ImportInv'
<1> DEFINE t == thread["nar"]
           r == [t EXCEPT !.pc = "loop", !.hashed = Append(@, t.item)]
<1>1. /\ UNCHANGED <<inMemory, next, ppc, thrown, tree, buffer, stamped, deferred, gone, digest, files>>
      /\ t.pc = "work" /\ ~t.failure /\ thread' = [thread EXCEPT !["nar"] = r] /\ "nar" \in Hasher
  BY DEF HashChunk, Hasher
<1>2. ThreadOK(t) /\ t \in ThreadRec /\ t.item \in Positions /\ t.hashed \in Seq(Positions)
  BY <1>1 DEF ImportInv, ImportTypeInv, ThreadOK, ThreadRec
<1>3. /\ Append(t.hashed, t.item) \in Seq(Positions) /\ Len(t.hashed) \in Nat
      /\ Len(Append(t.hashed, t.item)) = Len(t.hashed) + 1
      /\ Append(t.hashed, t.item)[Len(t.hashed) + 1] = t.item
      /\ \A i \in 1..Len(t.hashed) : Append(t.hashed, t.item)[i] = t.hashed[i]
  BY <1>2, AppendListed
<1>4. /\ r \in ThreadRec /\ r.pc = "loop" /\ r.hashed = Append(t.hashed, t.item)
      /\ r.closed = t.closed /\ r.failure = t.failure /\ r.queue = t.queue
  BY <1>2, <1>3 DEF ThreadRec, ThreadPCs
<1> HIDE DEF r
<1>5. ThreadOK(r)
  BY <1>2, <1>4 DEF ThreadOK
<1>6. /\ ImportTypeInv' /\ StageInv' /\ JoinInv' /\ DirInv' /\ TreeInv' /\ FileInv'
      /\ thread'["nar"] = r /\ NarSent' = NarSent
      /\ NarJoined' <=> NarJoined
  BY <1>1, <1>4, <1>5, WorkerAlone
<1>7. ASSUME ~thrown PROVE NarFlow(thread["nar"])'
  <2>1. NarFlow(t)
    BY <1>1, <1>7 DEF ImportInv, NarInv
  <2>2. Taken(t) = Len(t.hashed) + 1 /\ Taken(r) = Taken(t)
    BY <1>1, <1>3, <1>4 DEF Taken
  <2>3. ASSUME NEW i \in 1..Len(r.hashed) PROVE r.hashed[i] = i
    <3>1. CASE i \in 1..Len(t.hashed)
      BY <1>3, <1>4, <2>1, <3>1 DEF NarFlow
    <3>2. CASE i = Len(t.hashed) + 1
      BY <1>1, <1>3, <1>4, <2>1, <2>2, <3>2 DEF NarFlow
    <3>3. i \in 1..Len(t.hashed) + 1
      BY <1>3, <1>4
    <3> QED  BY <1>3, <3>1, <3>2, <3>3
  <2> QED  BY <1>4, <1>6, <2>1, <2>2, <2>3 DEF NarFlow
<1>8. NarInv'
  BY <1>1, <1>6, <1>7 DEF ImportInv, NarInv
<1> QED  BY <1>6, <1>8 DEF ImportInv

\* An event before the "end" of a file is hashed.
LEMMA HashEventStep == ASSUME ImportInv, NEW h \in Hasher, HashEvent(h) PROVE ImportInv'
<1> DEFINE t == thread["file"]
           e == Archive[t.item]
           r == [t EXCEPT !.pc = "loop",
                          !.key = IF e.tag = "begin" THEN e.path ELSE @,
                          !.hashed = IF e.tag = "begin" THEN <<>>
                                     ELSE IF IsPart(t.item) THEN Append(@, t.item) ELSE @]
<1>1. /\ UNCHANGED <<inMemory, next, ppc, thrown, tree, buffer, stamped, deferred, gone, digest, files>>
      /\ t.pc = "work" /\ ~t.failure /\ e.tag # "end"
      /\ thread' = [thread EXCEPT !["file"] = r] /\ "file" \in Hasher
  BY DEF HashEvent, Hasher
<1>2. ThreadOK(t) /\ t \in ThreadRec /\ t.item \in Positions /\ t.hashed \in Seq(Positions)
  BY <1>1 DEF ImportInv, ImportTypeInv, ThreadOK, ThreadRec
<1>3. Gathered(t.hashed, t.item) \in Seq(Positions) /\ e.path \in Paths
  BY <1>2, NothingListed, AppendListed, EventsTyped DEF Gathered
<1>4. /\ r \in ThreadRec /\ r.pc = "loop" /\ r.hashed = Gathered(t.hashed, t.item)
      /\ r.key = IF e.tag = "begin" THEN e.path ELSE t.key
      /\ r.closed = t.closed /\ r.failure = t.failure /\ r.queue = t.queue
  <2>1. r.hashed = Gathered(t.hashed, t.item)
    BY <1>2 DEF Gathered, ThreadRec
  <2>2. r = [t EXCEPT !.pc = "loop", !.key = IF e.tag = "begin" THEN e.path ELSE t.key,
                      !.hashed = Gathered(t.hashed, t.item)]
    BY <1>2 DEF Gathered, ThreadRec
  <2> QED  BY <1>2, <1>3, <2>1, <2>2 DEF ThreadRec, ThreadPCs
<1> HIDE DEF r
<1>5. ThreadOK(r)
  BY <1>2, <1>4 DEF ThreadOK
<1>6. /\ ImportTypeInv' /\ StageInv' /\ JoinInv' /\ DirInv' /\ TreeInv' /\ NarInv'
      /\ thread'["file"] = r /\ FileSent' = FileSent
  BY <1>1, <1>4, <1>5, WorkerAlone
<1>7. ASSUME ~thrown PROVE FileInv'
  <2>1. PICK d \in 0..FileSent - 1 : FileFlow(t, d) /\ FilesHashed(t, d)
    BY <1>7 DEF ImportInv, FileInv
  <2>2. PICK n : n = t.item
    OBVIOUS
  <2>3. /\ n \in At(FileTags) /\ n \in 0..FileSent - 1 /\ FileFlow(r, n)
        /\ \A m \in At(FileTags) : m <= n => m <= d \/ m = n
        /\ Archive[n].tag # "begin" => d = n - 1
    BY <1>1, <1>2, <1>4, <2>1, <2>2, ItemDone
  <2>4. /\ WithinFile(d) => t.key = Archive[d].path
        /\ Collected(t.hashed, d)
        /\ \A m \in At({"end"}) : m <= d => IsContent(files[Archive[m].path], Archive[m].path)
    BY <1>1, <2>1 DEF FilesHashed
  <2>5. Collected(r.hashed, n)
    <3>1. Archive[n].tag # "begin" => Collected(t.hashed, n - 1)
      BY <2>3, <2>4
    <3> QED  BY <1>2, <1>4, <2>2, <2>3, <3>1, Gathering
  <2>6. r.key = Archive[n].path
    <3>1. CASE Archive[n].tag = "begin"
      BY <1>4, <2>2, <3>1
    <3>2. CASE Archive[n].tag # "begin"
      BY <1>4, <2>2, <2>3, <2>4, <3>2, PreviousEvent
    <3> QED  BY <3>1, <3>2
  <2>7. ASSUME NEW m \in At({"end"}), m <= n
        PROVE  IsContent(files[Archive[m].path], Archive[m].path)
    <3>1. m \in At(FileTags) /\ m # n
      BY <1>1, <2>2 DEF At, FileTags
    <3> QED  BY <2>3, <2>4, <2>7, <3>1
  <2>8. FileFlow(thread["file"], n)'
    BY <1>6, <2>3 DEF FileFlow
  <2>9. FilesHashed(thread["file"], n)'
    BY <1>1, <1>6, <2>5, <2>6, <2>7 DEF FilesHashed
  <2> QED  BY <1>6, <2>3, <2>8, <2>9 DEF FileInv
<1>8. FileInv'
  BY <1>1, <1>7 DEF FileInv
<1> QED  BY <1>6, <1>8 DEF ImportInv

\* The hash of a file is complete, and the file may be replaced by its like.
LEMMA HashEndStep == ASSUME ImportInv, NEW h \in Hasher, HashEnd(h) PROVE ImportInv'
<1> DEFINE t == thread["file"]
           f == t.key
           r == [t EXCEPT !.pc = "loop", !.hashed = <<>>, !.key = "none"]
<1>1. /\ UNCHANGED <<inMemory, next, ppc, thrown, buffer, deferred, gone, digest>>
      /\ t.pc = "work" /\ ~t.failure /\ Archive[t.item].tag = "end"
      /\ tree' = [tree EXCEPT ![f] = t.hashed] \/ tree' = tree
      /\ stamped' \subseteq stamped
      /\ files' = [files EXCEPT ![f] = t.hashed]
      /\ thread' = [thread EXCEPT !["file"] = r] /\ "file" \in Hasher /\ "nar" \in Hasher
  BY DEF HashEnd, Hasher
<1>2. /\ ThreadOK(t) /\ t \in ThreadRec /\ t.item \in Positions /\ t.hashed \in Seq(Positions)
      /\ DOMAIN files = IFiles /\ tree \in [IFiles -> Seq(Positions)]
  BY <1>1 DEF ImportInv, ImportTypeInv, ThreadOK, ThreadRec
<1>3. /\ r \in ThreadRec /\ r.pc = "loop"
      /\ r.closed = t.closed /\ r.failure = t.failure /\ r.queue = t.queue
  BY <1>2, NothingListed DEF ThreadRec, ThreadPCs
<1> HIDE DEF r
<1>4. ThreadOK(r)
  BY <1>2, <1>3 DEF ThreadOK
<1>5. tree' \in [IFiles -> Seq(Positions)] /\ DOMAIN files' = IFiles
  BY <1>1, <1>2
<1>6. /\ ImportTypeInv' /\ StageInv' /\ JoinInv' /\ DirInv'
      /\ thread'["file"] = r /\ thread'["nar"] = thread["nar"]
      /\ Restored' = Restored /\ FileSent' = FileSent /\ NarSent' = NarSent
      /\ NarJoined' <=> NarJoined
  BY <1>1, <1>3, <1>4, <1>5, WorkerFrame
<1>7. NarInv'
  BY <1>1, <1>6, NarKept DEF ImportInv, SameWork
<1>8. ASSUME ~thrown PROVE FileInv' /\ TreeInv'
  <2>1. PICK d \in 0..FileSent - 1 : FileFlow(t, d) /\ FilesHashed(t, d)
    BY <1>8 DEF ImportInv, FileInv
  <2>2. PICK n : n = t.item
    OBVIOUS
  <2>3. /\ n \in At(FileTags) /\ n \in 0..FileSent - 1 /\ FileFlow(r, n)
        /\ \A m \in At(FileTags) : m <= n => m <= d \/ m = n
        /\ d = n - 1 /\ Archive[n].tag = "end"
    BY <1>1, <1>2, <1>3, <2>1, <2>2, ItemDone
  <2>4. /\ WithinFile(d) => f = Archive[d].path
        /\ Collected(t.hashed, d)
        /\ \A m \in At({"end"}) : m <= d => IsContent(files[Archive[m].path], Archive[m].path)
    BY <1>1, <2>1 DEF FilesHashed
  <2>5. f = Archive[n].path /\ f \in IFiles
    BY <2>3, <2>4, PreviousEvent, FileOfEvent
  <2>6. IsContent(t.hashed, f)
    BY <1>2, <2>3, <2>4, <2>5, Gathering
  <2>7. files'[f] = t.hashed /\ \A g \in IFiles : g # f => files'[g] = files[g]
    BY <1>1, <1>2, <2>5
  <2>8. ASSUME NEW m \in At({"end"}), m <= n
        PROVE  IsContent(files'[Archive[m].path], Archive[m].path)
    <3>1. m \in At(FileTags)
      BY DEF At, FileTags
    <3>2. Archive[m].path \in IFiles
      BY <3>1, FileOfEvent
    <3>3. CASE Archive[m].path = f
      BY <2>6, <2>7, <3>3
    <3>4. CASE Archive[m].path # f
      <4>1. m <= d
        BY <2>3, <2>5, <2>8, <3>1, <3>4
      <4> QED  BY <2>4, <2>7, <3>2, <3>4, <4>1
    <3> QED  BY <3>3, <3>4
  <2>9. FileFlow(thread["file"], n)'
    BY <1>6, <2>3 DEF FileFlow
  <2>10. ~WithinFile(n)
    BY <2>3 DEF WithinFile, At
  <2>11. FilesHashed(thread["file"], n)'
    BY <2>8, <2>10 DEF FilesHashed, Collected
  <2>12. FileInv'
    BY <1>6, <2>3, <2>9, <2>11 DEF FileInv
  <2>13. ASSUME NEW g \in IFiles
         PROVE  tree'[g] = tree[g] \/ IsContent(tree'[g], g)
    BY <1>1, <1>2, <2>5, <2>6
  <2>14. TreeInv
    BY DEF ImportInv
  <2>15. TreeInv'
    <3>1. \A g \in IFiles : tree'[g] = <<>> \/ IsContent(tree'[g], g)
      BY <1>8, <2>13, <2>14 DEF TreeInv
    <3>2. ASSUME NEW m \in At({"end"}), m < Restored
          PROVE  IsContent(tree'[Archive[m].path], Archive[m].path)
      <4>1. Archive[m].path \in IFiles
        BY FileOfEvent DEF At, FileTags
      <4> QED  BY <1>8, <2>13, <2>14, <3>2, <4>1 DEF TreeInv
    <3>3. Collected(buffer, Restored - 1)
      BY <1>8, <2>14 DEF TreeInv
    <3> QED  BY <1>1, <1>6, <3>1, <3>2, <3>3 DEF TreeInv
  <2> QED  BY <2>12, <2>15
<1>9. FileInv' /\ TreeInv'
  <2>1. CASE thrown
    BY <1>1, <2>1 DEF FileInv, TreeInv
  <2> QED  BY <1>8, <2>1
<1> QED  BY <1>6, <1>7, <1>9 DEF ImportInv

-----------------------------------------------------------------------------
\* Before the archive is read.
LEMMA ImportInvInit == ImportInit => ImportInv
<1> SUFFICES ASSUME ImportInit PROVE ImportInv
  OBVIOUS
<1> USE DEF ImportInit
<1>1. /\ NewThread \in ThreadRec
      /\ NewThread.pc = "loop" /\ NewThread.queue = <<>> /\ ~NewThread.closed /\ ~NewThread.failure
      /\ NewThread.hashed = <<>> /\ NewThread.key = "none"
  BY NothingListed DEF NewThread, ThreadRec, ThreadPCs
<1> DEFINE idle == [NewThread EXCEPT !.pc = "none"]
<1>2. idle.pc = "none" /\ idle.queue = <<>> /\ ~idle.closed /\ ~idle.failure /\ idle.hashed = <<>>
  BY DEF NewThread
<1>3. ThreadOK(NewThread) /\ ThreadOK(idle)
  <2>1. idle \in ThreadRec
    BY <1>1 DEF ThreadRec, ThreadPCs
  <2> QED  BY <1>1, <1>2, <2>1, NothingListed, MaxQueuedAssumption DEF ThreadOK
<1>4. /\ DOMAIN thread = Hasher /\ thread["nar"] = NewThread
      /\ thread["file"] = IF inMemory THEN idle ELSE NewThread
  BY DEF Hasher
<1> HIDE DEF idle
<1>5. inMemory \in BOOLEAN /\ ppc = "read" /\ next = 1 /\ thrown = FALSE /\ gone = FALSE
  OBVIOUS
<1>6. ImportTypeInv
  <2>1. \A h \in Hasher : ThreadOK(thread[h])
    BY <1>3, <1>4 DEF Hasher
  <2>2. tree \in [IFiles -> Seq(Positions)] /\ DOMAIN files = IFiles /\ buffer \in Seq(Positions)
    BY NothingListed
  <2>3. deferred \in Seq(Paths) /\ stamped \subseteq Paths /\ next \in 1..Len(Archive) + 1
    BY EventsTyped
  <2> QED  BY <1>4, <1>5, <2>1, <2>2, <2>3 DEF ImportTypeInv, ImportPCs, ReadPCs
<1>7. StageInv
  BY <1>5 DEF StageInv, ReadPCs, RestorePCs
<1>8. JoinInv
  BY <1>1, <1>2, <1>4, <1>5
     DEF JoinInv, ReadPCs, RestorePCs, Buffering, FilePhase, FileJoined, NarJoined, idle
<1>9. Restored = 1 /\ FileSent = 1 /\ NarSent = 0 /\ ~NarJoined /\ ~FileJoined
  BY <1>5 DEF Restored, FileSent, NarSent, NarJoined, FileJoined, ReadPCs, RestorePCs
<1>10. NarInv
  <2>1. Taken(thread["nar"]) = 0 /\ Len(thread["nar"].queue) = 0 /\ Len(thread["nar"].hashed) = 0
        /\ thread["nar"].pc # "work"
    BY <1>1, <1>4, NothingListed DEF Taken
  <2>2. NarFlow(thread["nar"])
    BY <1>9, <2>1 DEF NarFlow
  <2> QED  BY <1>9, <2>2 DEF NarInv
<1>11. /\ thread["file"].queue = <<>> /\ thread["file"].pc # "work"
       /\ \A n \in At(FileTags) : n \in Int /\ n > 0
  BY <1>1, <1>2, <1>4 DEF At
<1>12. FileInv
  <2>1. FileTodo(thread["file"]) = {}
    BY <1>11, NothingListed DEF FileTodo
  <2>2. {n \in At(FileTags) : 0 < n /\ n < 1} = {}
    BY <1>11
  <2>3. FileFlow(thread["file"], 0)
    BY <1>9, <1>11, <2>1, <2>2, NothingListed DEF FileFlow
  <2>4. ~WithinFile(0) /\ \A n \in At({"end"}) : ~(n <= 0)
    BY DEF WithinFile, At
  <2>5. FilesHashed(thread["file"], 0)
    BY <2>4 DEF FilesHashed, Collected
  <2> QED  BY <1>9, <2>3, <2>5 DEF FileInv
<1>13. TreeInv
  <2>1. ~WithinFile(0) /\ \A n \in At({"end"}) : ~(n < 1)
    BY DEF WithinFile, At
  <2> QED  BY <1>9, <2>1 DEF TreeInv, Collected
<1>14. DirInv
  <2>1. Ended(1) = {} /\ Elems(deferred) = {}
    BY NothingListed DEF Ended, At
  <2> QED  BY <1>5, <1>9, <2>1 DEF DirInv
<1> QED  BY <1>6, <1>7, <1>8, <1>10, <1>12, <1>13, <1>14 DEF ImportInv

\* Every step of the import keeps the invariant.
LEMMA ImportInvNext == ImportInv /\ [ImportNext]_importVars => ImportInv'
<1> SUFFICES ASSUME ImportInv, [ImportNext]_importVars PROVE ImportInv'
  OBVIOUS
<1>1. CASE ImportThread
  BY <1>1, ReadFailsStep, ReadStep, PushChunkStep, DispatchStep, PushEventStep,
     ApplyStep,
     ApplyFailsStep, CloseStep, JoinFileHasherStep, JoinHashSinkStep, DeleteTreeStep, RegisterStep
     DEF ImportThread
<1>2. CASE \E h \in Hasher : Worker(h)
  BY <1>2, TakeStep, FailStep, DropStep, HashChunkStep, HashEventStep, HashEndStep
     DEF Worker
<1>3. CASE UNCHANGED importVars
  BY <1>3
     DEF importVars, ImportInv, ImportTypeInv, StageInv, JoinInv, NarInv, FileInv, TreeInv,
     DirInv, Buffering, FilePhase, FileJoined, NarJoined, NarSent, NarFlow, Restored, FileSent,
     FileFlow, FilesHashed
<1> QED  BY <1>1, <1>2, <1>3 DEF ImportNext, ImportOver

\* What is registered is what the archive says.
LEMMA RegisteredExactly == ImportInv => ImportIsExact
<1> SUFFICES ASSUME ImportInv PROVE ImportIsExact
  OBVIOUS
<1>1. ImportTypeOK
  <2>1. ASSUME NEW h \in Hasher
        PROVE  /\ thread[h].pc \in ThreadPCs
               /\ Len(thread[h].queue) <= MaxQueued
               /\ \A n \in 1..Len(thread[h].queue) : thread[h].queue[n] \in 1..Len(Archive)
    BY DEF ImportInv, ImportTypeInv, ThreadOK, ThreadRec, Positions
  <2> QED  BY <2>1 DEF ImportInv, ImportTypeInv, ImportTypeOK
<1>2. WorkersJoined
  BY DEF ImportInv, JoinInv, StageInv, WorkersJoined, NarJoined
<1>3. ASSUME ppc = "registered"
      PROVE  ~thrown /\ next = Len(Archive) + 1 /\ NarJoined /\ FileJoined
  BY <1>3 DEF ImportInv, StageInv, NarJoined, FileJoined, ReadPCs, RestorePCs
<1>4. ASSUME ppc = "registered" PROVE Restored = next /\ FileSent = next
  BY <1>4 DEF Restored, FileSent, Buffering, ReadPCs
<1>5. ImportedExactly
  <2> SUFFICES ASSUME ppc = "registered"
               PROVE  /\ digest = [n \in 1..Len(Archive) |-> n]
                      /\ \A f \in IFiles : IsContent(tree[f], f) /\ IsContent(files[f], f)
    BY DEF ImportedExactly
  <2>1. digest = [n \in 1..Len(Archive) |-> n]
    BY <1>3 DEF ImportInv, NarInv, Positions
  <2>2. thread["file"].pc = "returned" /\ ~thread["file"].failure /\ thread["file"].queue = <<>>
    <3>1. thread["file"].pc = "returned" /\ ~thread["file"].failure
      BY <1>3 DEF ImportInv, JoinInv
    <3> QED  BY <3>1 DEF ImportInv, ImportTypeInv, ThreadOK, Hasher
  <2>3. PICK d \in 0..FileSent - 1 : FileFlow(thread["file"], d) /\ FilesHashed(thread["file"], d)
    BY <1>3 DEF ImportInv, FileInv
  <2>4. {n \in At(FileTags) : d < n /\ n < FileSent} = {}
    BY <2>2, <2>3, NothingListed DEF FileFlow, FileTodo
  <2>5. ASSUME NEW f \in IFiles PROVE IsContent(tree[f], f) /\ IsContent(files[f], f)
    <3>1. PICK n \in At({"end"}) : Archive[n].path = f
      BY FileEnds
    <3>2. n \in At(FileTags) /\ n \in 1..Len(Archive)
      BY DEF At, FileTags
    <3>3. n < FileSent /\ n < Restored /\ n <= d
      BY <1>3, <1>4, <2>3, <2>4, <3>2, EventsTyped
    <3>4. IsContent(tree[f], f)
      BY <1>3, <3>1, <3>3 DEF ImportInv, TreeInv
    <3>5. IsContent(files[f], f)
      BY <2>2, <2>3, <3>1, <3>3 DEF FilesHashed
    <3> QED  BY <3>4, <3>5
  <2> QED  BY <2>1, <2>5
<1>6. DirsStamped
  <2> SUFFICES ASSUME ppc = "registered", NEW n \in At({"mkdir"})
               PROVE  Archive[n].path \in stamped
    BY DEF DirsStamped, IDirs
  <2>1. Ended(next) \subseteq stamped /\ Archive[1].path \in stamped
    BY <1>3 DEF ImportInv, DirInv
  <2>2. CASE n = 1
    BY <2>1, <2>2
  <2>3. CASE n # 1
    <3>1. PICK m \in At({"enddir"}) : Archive[m].path = Archive[n].path
      BY <2>3, ArchiveAssumption
    <3>2. m < next
      BY <1>3, EventsTyped DEF At
    <3> QED  BY <2>1, <3>1, <3>2 DEF Ended
  <2> QED  BY <2>2, <2>3
<1> QED  BY <1>1, <1>2, <1>5, <1>6 DEF ImportIsExact

\* addToStoreFromDump(): whatever the archive and the length of the queues, and
\* whenever a thread fails, a path is registered with the digest of the whole
\* archive, with the content and the hash of each file, and with canonical
\* directories, and both hashing threads are gone.
THEOREM ImportExact == ImportSpec => []ImportIsExact
<1> QED  BY ImportInvInit, ImportInvNext, RegisteredExactly, PTL DEF ImportSpec

-----------------------------------------------------------------------------
(* Nobody waits for somebody who waits for him.                            *)

\* What is said of a hashing thread t while the importing thread is at p.
WakeOK(h, p, t) ==
  /\ t.pc = "asleep" => t.queue = <<>> /\ ~t.closed
  /\ p = FullAt(h) => t.queue # <<>> /\ t.pc \in {"loop", "work"}
  /\ p = JoinAt(h) => t.closed /\ t.pc \in {"loop", "work", "returned"}

\* The file hasher of an archive in memory is not made before it is needed.
EarlyPCs == ReadPCs \cup {"close-nar", "join-nar", "delete", "failed"}
WakeInv ==
  /\ \A h \in Hasher : WakeOK(h, ppc, thread[h])
  /\ thread["nar"].pc # "none"
  /\ thread["file"].pc = "none" => inMemory /\ ppc \in EarlyPCs

WaitPCs == {"full-nar", "full-file", "join-nar", "join-file"}

\* Where the importing thread waits for thread h, and where it does not.
LEMMA WaitPCsOf ==
  /\ Hasher = {"nar", "file"}
  /\ \A h \in Hasher : FullAt(h) \in WaitPCs /\ JoinAt(h) \in WaitPCs
  /\ \A g, h \in Hasher : g # h =>
       FullAt(g) # FullAt(h) /\ FullAt(g) # JoinAt(h) /\ JoinAt(g) # JoinAt(h) /\ JoinAt(g) # FullAt(h)
  /\ \A h \in Hasher : PushAt(h) \notin WaitPCs /\ FullAt(h) # JoinAt(h)
BY DEF Hasher, FullAt, JoinAt, PushAt, WaitPCs

\* A step of the importing thread alone that does not begin to wait.
LEMMA ThreadsAlone ==
  ASSUME WakeInv, thread' = thread, ppc' \notin WaitPCs,
         thread["file"].pc = "none" => inMemory' /\ ppc' \in EarlyPCs
  PROVE  WakeInv'
BY WaitPCsOf DEF WakeInv, WakeOK

\* A step that changes one hashing thread.
LEMMA OneThreadWakes ==
  ASSUME ImportInv, WakeInv, NEW h \in Hasher, NEW r, thread' = [thread EXCEPT ![h] = r],
         WakeOK(h, ppc', r), r.pc # "none",
         \A g \in Hasher : g # h => ppc' = ppc \/ (ppc' # FullAt(g) /\ ppc' # JoinAt(g)),
         h = "nar" /\ thread["file"].pc = "none" => inMemory' /\ ppc' \in EarlyPCs
  PROVE  WakeInv'
<1>1. thread'[h] = r /\ \A g \in Hasher : g # h => thread'[g] = thread[g]
  BY DEF ImportInv, ImportTypeInv
<1>2. ASSUME NEW g \in Hasher PROVE WakeOK(g, ppc', thread'[g])
  BY <1>1, <1>2 DEF WakeInv, WakeOK
<1>3. h = "nar" \/ h = "file"
  BY DEF Hasher
<1> QED  BY <1>1, <1>2, <1>3, WaitPCsOf DEF WakeInv

\* push(): a thread that is woken does not sleep on, and one whose queue is full
\* is awake.
LEMMA PushWakes ==
  ASSUME ImportInv, WakeInv, NEW h \in Hasher, NEW then, Push(h, then), then \notin WaitPCs,
         h = "nar" => then = IF inMemory THEN "read" ELSE "restore"
  PROVE  WakeInv'
<1> DEFINE t == thread[h]
<1>0. /\ ThreadOK(t) /\ t \in ThreadRec /\ ppc = PushAt(h) /\ inMemory' = inMemory
      /\ Len(t.queue) \in Nat /\ WakeOK(h, ppc, t) /\ (h = "nar" \/ h = "file")
  BY DEF ImportInv, ImportTypeInv, ThreadOK, ThreadRec, Push, WakeInv, Hasher
<1>1. t.pc # "none"
  BY <1>0 DEF WakeInv, PushAt, EarlyPCs, ReadPCs
<1>2. CASE Len(t.queue) < MaxQueued
  <2> DEFINE v == [t EXCEPT !.queue = Append(@, next)]
             r == Notified(v)
  <2>1. thread' = [thread EXCEPT ![h] = r] /\ ppc' = then
    BY <1>2 DEF Push
  <2>2. v.pc = t.pc /\ v \in [DOMAIN t -> {v[x] : x \in DOMAIN t}]
    BY <1>0 DEF ThreadRec
  <2>3. r.pc # "asleep" /\ r.pc # "none"
    BY <1>0, <1>1, <2>2 DEF Notified, ThreadRec
  <2>4. WakeOK(h, ppc', r)
    BY <2>1, <2>3, WaitPCsOf DEF WakeOK
  <2>5. h = "nar" /\ thread["file"].pc = "none" => inMemory' /\ ppc' \in EarlyPCs
    BY <1>0, <2>1 DEF WakeInv, EarlyPCs, ReadPCs
  <2> HIDE DEF r
  <2> QED  BY <2>1, <2>3, <2>4, <2>5, WaitPCsOf, OneThreadWakes
<1>3. CASE ~(Len(t.queue) < MaxQueued)
  <2>1. ppc' = FullAt(h) /\ thread' = thread
    BY <1>3 DEF Push
  <2>2. t.queue # <<>>
    BY <1>0, <1>3, MaxQueuedAssumption
  <2>3. t.pc \in {"loop", "work"}
    BY <1>0, <1>1, <2>2 DEF WakeOK, ThreadOK, ThreadRec, ThreadPCs
  <2>4. \A g \in Hasher : WakeOK(g, ppc', thread'[g])
    BY <2>1, <2>2, <2>3, WaitPCsOf DEF WakeInv, WakeOK
  <2>5. thread'["file"].pc = "none" => inMemory' /\ ppc' \in EarlyPCs
    BY <1>0, <1>1, <2>1 DEF WakeInv, EarlyPCs, ReadPCs, FullAt
  <2> QED  BY <2>1, <2>4, <2>5 DEF WakeInv
<1> QED  BY <1>2, <1>3

\* close(): the thread that is to be joined is awake and will find its queue closed.
LEMMA CloseWakes ==
  ASSUME ImportInv, WakeInv, NEW h \in Hasher, Close(h)
  PROVE  WakeInv'
<1> DEFINE t == thread[h]
           v == [t EXCEPT !.closed = TRUE]
           r == Notified(v)
<1>0. /\ ThreadOK(t) /\ t \in ThreadRec /\ ppc = CloseAt(h) /\ (h = "nar" \/ h = "file")
      /\ inMemory' = inMemory
  BY DEF ImportInv, ImportTypeInv, ThreadOK, Close, Hasher
<1>1. thread' = [thread EXCEPT ![h] = r] /\ ppc' = JoinAt(h)
  BY DEF Close
<1>2. t.pc # "none"
  BY <1>0 DEF WakeInv, CloseAt, EarlyPCs, ReadPCs
<1>3. v \in ThreadRec /\ v.pc = t.pc /\ v.closed
  BY <1>0 DEF ThreadRec
<1> HIDE DEF v
<1>4. r.closed /\ r.pc \in {"loop", "work", "returned"}
  BY <1>0, <1>2, <1>3 DEF Notified, ThreadRec, ThreadPCs
<1> HIDE DEF r
<1>5. WakeOK(h, ppc', r)
  BY <1>1, <1>4, WaitPCsOf DEF WakeOK
<1>6. h = "nar" /\ thread["file"].pc = "none" => inMemory' /\ ppc' \in EarlyPCs
  BY <1>0, <1>1 DEF WakeInv, EarlyPCs, JoinAt
<1>7. r.pc # "none"
  BY <1>4
<1> QED  BY <1>1, <1>5, <1>6, <1>7, WaitPCsOf, OneThreadWakes

\* finish() or the destructor of the hash sink; the file hasher may be made now.
LEMMA JoinHashSinkWakes ==
  ASSUME ImportInv, WakeInv, JoinHashSink
  PROVE  WakeInv'
<1>1. /\ ppc = "join-nar" /\ inMemory' = inMemory
      /\ ppc' \in {"failed", "delete", "restore", "move"}
      /\ ppc' \in {"restore", "move"} => ~(thrown \/ thread["nar"].failure)
      /\ thread' = IF inMemory /\ ~(thrown \/ thread["nar"].failure)
                   THEN [thread EXCEPT !["file"].pc = "loop"] ELSE thread
  BY DEF JoinHashSink
<1>2. ppc' \notin WaitPCs
  BY <1>1 DEF WaitPCs
<1>3. CASE inMemory /\ ~(thrown \/ thread["nar"].failure)
  <2> DEFINE t == thread["file"]
             r == [t EXCEPT !.pc = "loop"]
  <2>1. thread' = [thread EXCEPT !["file"] = r] /\ "file" \in Hasher
    BY <1>1, <1>3 DEF Hasher
  <2>2. r.pc = "loop"
    BY DEF ImportInv, ImportTypeInv, ThreadOK, ThreadRec, Hasher
  <2> HIDE DEF r
  <2>3. WakeOK("file", ppc', r)
    BY <1>2, <2>1, <2>2, WaitPCsOf DEF WakeOK
  <2> QED  BY <1>2, <2>1, <2>2, <2>3, WaitPCsOf, OneThreadWakes
<1>4. CASE ~(inMemory /\ ~(thrown \/ thread["nar"].failure))
  <2>1. thread' = thread
    BY <1>1, <1>4
  <2>2. thread["file"].pc = "none" => inMemory' /\ ppc' \in EarlyPCs
    BY <1>1, <1>4 DEF WakeInv, EarlyPCs
  <2> QED  BY <1>2, <2>1, <2>2, ThreadsAlone
<1> QED  BY <1>3, <1>4

\* The other steps of the importing thread.
LEMMA ImporterWakes ==
  ASSUME ImportInv, WakeInv,
         \/ ReadFails \/ Read \/ Dispatch \/ Apply \/ ApplyFails \/ JoinFileHasher
         \/ DeleteTree \/ Register
  PROVE  WakeInv'
<1>1. thread' = thread /\ inMemory' = inMemory
  BY Zenon DEF ReadFails, Read, Dispatch, Apply, ApplyFails, JoinFileHasher, DeleteTree, Register
<1>2. ppc' \notin WaitPCs
  BY DEF ReadFails, Read, Dispatch, Apply, ApplyFails, JoinFileHasher, DeleteTree, Register,
         Throw, NextEntry, WaitPCs
<1>3. ASSUME thread["file"].pc = "none" PROVE inMemory /\ ppc' \in EarlyPCs
  <2>1. inMemory /\ ppc \in EarlyPCs
    BY <1>3 DEF WakeInv
  <2>2. ReadFails \/ Read \/ DeleteTree
    BY <1>3, <2>1 DEF Dispatch, Apply, ApplyFails, JoinFileHasher, Register, EarlyPCs, ReadPCs
  <2> QED  BY <2>1, <2>2 DEF ReadFails, Read, DeleteTree, Throw, EarlyPCs, ReadPCs
<1> QED  BY <1>1, <1>2, <1>3, ThreadsAlone

\* A worker takes an item, and makes room by that, or sleeps, or returns.
LEMMA TakeWakes ==
  ASSUME ImportInv, WakeInv, NEW h \in Hasher, Take(h)
  PROVE  WakeInv'
<1> DEFINE t == thread[h]
<1>0. /\ t \in ThreadRec /\ t.pc = "loop" /\ inMemory' = inMemory /\ WakeOK(h, ppc, t)
      /\ (h = "nar" \/ h = "file")
  BY DEF ImportInv, ImportTypeInv, ThreadOK, Take, WakeInv, Hasher
<1>1. CASE Leaves(t)
  <2> DEFINE r == [t EXCEPT !.pc = "returned"]
  <2>1. thread' = [thread EXCEPT ![h] = r] /\ ppc' = ppc
    BY <1>1 DEF Take, Leaves
  <2>2. r.pc = "returned" /\ r.queue = t.queue /\ r.closed = t.closed
    BY <1>0 DEF ThreadRec
  <2> HIDE DEF r
  <2>3. WakeOK(h, ppc', r)
    BY <1>0, <1>1, <2>1, <2>2 DEF WakeOK, Leaves
  <2>4. h = "nar" /\ thread["file"].pc = "none" => inMemory' /\ ppc' \in EarlyPCs
    BY <1>0, <2>1 DEF WakeInv
  <2> QED  BY <2>1, <2>2, <2>3, <2>4, OneThreadWakes
<1>2. CASE ~Leaves(t) /\ t.queue = <<>>
  <2> DEFINE r == [t EXCEPT !.pc = "asleep"]
  <2>1. thread' = [thread EXCEPT ![h] = r] /\ ppc' = ppc
    BY <1>2 DEF Take
  <2>2. r.pc = "asleep" /\ r.queue = t.queue /\ r.closed = t.closed
    BY <1>0 DEF ThreadRec
  <2> HIDE DEF r
  <2>3. WakeOK(h, ppc', r)
    BY <1>0, <1>2, <2>1, <2>2 DEF WakeOK, Leaves
  <2>4. h = "nar" /\ thread["file"].pc = "none" => inMemory' /\ ppc' \in EarlyPCs
    BY <1>0, <2>1 DEF WakeInv
  <2> QED  BY <2>1, <2>2, <2>3, <2>4, OneThreadWakes
<1>3. CASE ~Leaves(t) /\ t.queue # <<>>
  <2> DEFINE r == [t EXCEPT !.pc = "work", !.item = Head(t.queue), !.queue = Tail(t.queue)]
  <2>1. /\ thread' = [thread EXCEPT ![h] = r]
        /\ ppc' = IF ppc = FullAt(h) THEN PushAt(h) ELSE ppc
    BY <1>3 DEF Take
  <2>2. r.pc = "work" /\ r.closed = t.closed
    BY <1>0 DEF ThreadRec
  <2> HIDE DEF r
  <2>3. ppc' # FullAt(h) /\ (ppc' = JoinAt(h) => ppc = JoinAt(h))
    BY <2>1, WaitPCsOf
  <2>4. WakeOK(h, ppc', r)
    BY <1>0, <2>2, <2>3 DEF WakeOK
  <2>5. \A g \in Hasher : g # h => ppc' = ppc \/ (ppc' # FullAt(g) /\ ppc' # JoinAt(g))
    BY <2>1, WaitPCsOf
  <2>6. h = "nar" /\ thread["file"].pc = "none" => inMemory' /\ ppc' \in EarlyPCs
    BY <1>0, <2>1 DEF WakeInv, EarlyPCs, ReadPCs, PushAt
  <2> QED  BY <2>1, <2>2, <2>4, <2>5, <2>6, OneThreadWakes
<1> QED  BY <1>1, <1>2, <1>3

\* A worker is done with an item, hashed, dropped or failed.
LEMMA WorkWakes ==
  ASSUME ImportInv, WakeInv, NEW h \in Hasher,
         Fail(h) \/ Drop(h) \/ HashChunk(h) \/ HashEvent(h) \/ HashEnd(h)
  PROVE  WakeInv'
<1> DEFINE t == thread[h]
<1>0. /\ t \in ThreadRec /\ t.pc = "work" /\ ppc' = ppc /\ inMemory' = inMemory
      /\ WakeOK(h, ppc, t) /\ DOMAIN thread = Hasher
  BY DEF ImportInv, ImportTypeInv, ThreadOK, Fail, Drop, HashChunk, HashEvent, HashEnd, WakeInv
<1>1. PICK r : /\ thread' = [thread EXCEPT ![h] = r]
               /\ r.pc = "loop" /\ r.queue = t.queue /\ r.closed = t.closed
  <2>1. CASE Fail(h)
    <3> DEFINE r == [t EXCEPT !.pc = "loop", !.failure = TRUE]
    <3>1. thread' = [thread EXCEPT ![h] = r]
      BY <1>0, <2>1 DEF Fail
    <3>2. r.pc = "loop" /\ r.queue = t.queue /\ r.closed = t.closed
      BY <1>0 DEF ThreadRec
    <3> HIDE DEF r
    <3> QED  BY <3>1, <3>2
  <2>2. CASE Drop(h)
    <3> DEFINE r == [t EXCEPT !.pc = "loop"]
    <3>1. thread' = [thread EXCEPT ![h] = r]
      BY <1>0, <2>2 DEF Drop
    <3>2. r.pc = "loop" /\ r.queue = t.queue /\ r.closed = t.closed
      BY <1>0 DEF ThreadRec
    <3> HIDE DEF r
    <3> QED  BY <3>1, <3>2
  <2>3. CASE HashChunk(h)
    <3> DEFINE r == [t EXCEPT !.pc = "loop", !.hashed = Append(@, t.item)]
    <3>1. thread' = [thread EXCEPT ![h] = r]
      BY <2>3 DEF HashChunk
    <3>2. r.pc = "loop" /\ r.queue = t.queue /\ r.closed = t.closed
      BY <1>0 DEF ThreadRec
    <3> HIDE DEF r
    <3> QED  BY <3>1, <3>2
  <2>4. CASE HashEvent(h)
    <3> DEFINE e == Archive[t.item]
               r == [t EXCEPT !.pc = "loop",
                              !.key = IF e.tag = "begin" THEN e.path ELSE @,
                              !.hashed = IF e.tag = "begin" THEN <<>>
                                         ELSE IF IsPart(t.item) THEN Append(@, t.item) ELSE @]
    <3>1. thread' = [thread EXCEPT ![h] = r]
      BY <2>4 DEF HashEvent
    <3>2. r.pc = "loop" /\ r.queue = t.queue /\ r.closed = t.closed
      BY <1>0 DEF ThreadRec
    <3> HIDE DEF r
    <3> QED  BY <3>1, <3>2
  <2>5. CASE HashEnd(h)
    <3> DEFINE r == [t EXCEPT !.pc = "loop", !.hashed = <<>>, !.key = "none"]
    <3>1. thread' = [thread EXCEPT ![h] = r]
      BY <2>5 DEF HashEnd
    <3>2. r.pc = "loop" /\ r.queue = t.queue /\ r.closed = t.closed
      BY <1>0 DEF ThreadRec
    <3> HIDE DEF r
    <3> QED  BY <3>1, <3>2
  <2> QED  BY <2>1, <2>2, <2>3, <2>4, <2>5
<1>2. WakeOK(h, ppc', r)
  BY <1>0, <1>1 DEF WakeOK
<1>3. h = "nar" /\ thread["file"].pc = "none" => inMemory' /\ ppc' \in EarlyPCs
  BY <1>0 DEF WakeInv
<1> QED  BY <1>0, <1>1, <1>2, <1>3, OneThreadWakes

\* Every step of the three threads.
LEMMA WakeInvNext == ImportInv /\ WakeInv /\ [ImportNext]_importVars => WakeInv'
<1> SUFFICES ASSUME ImportInv, WakeInv, [ImportNext]_importVars PROVE WakeInv'
  OBVIOUS
<1>1. CASE PushChunk
  <2>1. Push("nar", IF inMemory THEN "read" ELSE "restore") /\ "nar" \in Hasher
    BY <1>1 DEF PushChunk, Hasher
  <2>2. (IF inMemory THEN "read" ELSE "restore") \notin WaitPCs
    BY DEF WaitPCs
  <2> QED  BY <2>1, <2>2, PushWakes
<1>2. CASE PushEvent
  <2>1. Push("file", "apply") /\ "file" \in Hasher /\ "apply" \notin WaitPCs
    BY <1>2 DEF PushEvent, Hasher, WaitPCs
  <2> QED  BY <2>1, PushWakes
<1>3. CASE ImportThread /\ ~PushChunk /\ ~PushEvent
  BY <1>3, ImporterWakes, CloseWakes, JoinHashSinkWakes DEF ImportThread
<1>4. ASSUME NEW h \in Hasher, Worker(h) PROVE WakeInv'
  BY <1>4, TakeWakes, WorkWakes DEF Worker
<1>5. CASE UNCHANGED importVars
  BY <1>5 DEF importVars, WakeInv, WakeOK
<1> QED  BY <1>1, <1>2, <1>3, <1>4, <1>5 DEF ImportNext, ImportOver

\* The importing thread and its hashing threads never wait for each other, for any
\* archive and any length of the queues, also when a hashing thread has failed and
\* while an exception unwinds the stack.
THEOREM ImportWakes == ImportSpec => []ImportWakesEnough
<1>1. ImportInit => WakeInv
  <2> SUFFICES ASSUME ImportInit PROVE WakeInv
    OBVIOUS
  <2>1. \A h \in Hasher : thread[h].pc \in {"loop", "none"} /\ (thread[h].pc = "none" => h = "file" /\ inMemory)
    BY DEF ImportInit, NewThread
  <2>2. ppc = "read"
    BY DEF ImportInit
  <2> QED  BY <2>1, <2>2, WaitPCsOf DEF WakeInv, WakeOK, EarlyPCs, ReadPCs, WaitPCs
<1>2. WakeInv => ImportWakesEnough
  BY DEF WakeInv, WakeOK, ImportWakesEnough
<1>3. ImportSpec => []ImportInv
  BY ImportInvInit, ImportInvNext, PTL DEF ImportSpec
<1> QED  BY <1>1, <1>2, <1>3, WakeInvNext, PTL DEF ImportSpec
==============================================================================
