--------------------------- MODULE SharedDatabase ---------------------------
(***************************************************************************)
(* The one sqlite file that boxlet, boxapi and boxproxy open.  Each of the *)
(* three runs sqlite.Open when it starts: it configures the connection,    *)
(* creates the migrations table and applies the migrations that the file   *)
(* has not recorded, each in a transaction of its own.  systemd starts the *)
(* three together and restarts the one that exits, so they migrate the     *)
(* same file at the same time.  The write lock of the file and the         *)
(* rollback of an open transaction are sqlite's.                           *)
(***************************************************************************)
EXTENDS Integers

CONSTANTS
    Procs,          \* the processes that open the file
    Latest,         \* the version of the last entry of migrations
    MaxFaults       \* bound: crashes and lock timeouts in one behaviour

ASSUME LatestAssumption == Latest \in Nat \ {0}

Nobody == "nobody"
ASSUME NobodyAssumption == Nobody \notin Procs

VARIABLES
    pc,         \* process -> where its start is; "serve" once Open returned
    next,       \* process -> the migration its loop is at
    wal,        \* the file is in WAL mode
    table,      \* schema_migrations exists
    schema,     \* the last migration whose statements the schema holds
    recorded,   \* the versions in schema_migrations
    holder,     \* the process that holds the file's write lock
    draft,      \* what the open transaction changed: [schema, recorded]
    faults      \* faults so far

dbVars == <<wal, table, schema, recorded>>
startVars == <<pc, next, wal, table, schema, recorded, holder, draft, faults>>

NoDraft == [schema |-> 0, recorded |-> {}]

\* A new file, or one that an earlier release left at some version.
DatabaseInit ==
    /\ pc = [p \in Procs |-> "down"]
    /\ next = [p \in Procs |-> 1]
    /\ wal \in BOOLEAN
    /\ table = wal
    /\ schema \in IF wal THEN 0..Latest ELSE {0}
    /\ recorded = 1..schema
    /\ holder = Nobody
    /\ draft = NoDraft
    /\ faults = 0

Goto(p, label) == pc' = [pc EXCEPT ![p] = label]

\* sqlite.Open failed: New returns the error and the process exits.
Exit(p) == Goto(p, "down")

-----------------------------------------------------------------------------
(* configure.                                                               *)

\* systemd: Restart=always.
Start(p) ==
    /\ pc[p] = "down"
    /\ Goto(p, "configure")
    /\ UNCHANGED <<next, dbVars, holder, draft, faults>>

\* PRAGMA journal_mode = WAL on a file that is in that mode already.
KeepMode(p) ==
    /\ pc[p] = "configure"
    /\ wal
    /\ Goto(p, "create")
    /\ UNCHANGED <<next, dbVars, holder, draft, faults>>

\* On a new file the pragma needs the file for itself.
BeginSwitch(p) ==
    /\ pc[p] = "configure"
    /\ ~wal
    /\ holder = Nobody
    /\ holder' = p
    /\ Goto(p, "switch")
    /\ UNCHANGED <<next, dbVars, draft, faults>>

\* busy_timeout is the third pragma: the first one does not wait for a lock.
RefuseSwitch(p) ==
    /\ pc[p] = "configure"
    /\ ~wal
    /\ holder # Nobody
    /\ Exit(p)
    /\ UNCHANGED <<next, dbVars, holder, draft, faults>>

EndSwitch(p) ==
    /\ pc[p] = "switch"
    /\ wal' = TRUE
    /\ holder' = Nobody
    /\ Goto(p, "create")
    /\ UNCHANGED <<next, table, schema, recorded, draft, faults>>

-----------------------------------------------------------------------------
(* migrate.                                                                 *)

\* CREATE TABLE IF NOT EXISTS schema_migrations writes only a missing table.
CreateTable(p) ==
    /\ pc[p] = "create"
    /\ table \/ holder = Nobody
    /\ table' = TRUE
    /\ next' = [next EXCEPT ![p] = 1]
    /\ Goto(p, "look")
    /\ UNCHANGED <<wal, schema, recorded, holder, draft, faults>>

\* Slip: the loop ends one migration early.
LookShort(p) ==
    /\ pc[p] = "look"
    /\ IF next[p] >= Latest THEN Goto(p, "serve") /\ UNCHANGED next
       ELSE IF next[p] \in recorded
            THEN next' = [next EXCEPT ![p] = @ + 1] /\ UNCHANGED pc
            ELSE Goto(p, "apply") /\ UNCHANGED next
    /\ UNCHANGED <<dbVars, holder, draft, faults>>

\* hasMigration reads what is committed, outside any transaction: another
\* process may apply the same version before this one does.
Look(p) ==
    /\ pc[p] = "look"
    /\ IF next[p] > Latest THEN Goto(p, "serve") /\ UNCHANGED next
       ELSE IF next[p] \in recorded
            THEN next' = [next EXCEPT ![p] = @ + 1] /\ UNCHANGED pc
            ELSE Goto(p, "apply") /\ UNCHANGED next
    /\ UNCHANGED <<dbVars, holder, draft, faults>>

\* The statements of a version succeed on the schema of the version before.
Applies(p) == schema = next[p] - 1

\* Slip: the statements run outside a transaction.
ExecAutocommit(p) ==
    /\ pc[p] = "apply"
    /\ holder = Nobody
    /\ Applies(p)
    /\ schema' = next[p]
    /\ holder' = p
    /\ draft' = [schema |-> next[p], recorded |-> recorded]
    /\ Goto(p, "record")
    /\ UNCHANGED <<next, wal, table, recorded, faults>>

\* The transaction takes the write lock with its first statement.
Exec(p) ==
    /\ pc[p] = "apply"
    /\ holder = Nobody
    /\ Applies(p)
    /\ holder' = p
    /\ draft' = [schema |-> next[p], recorded |-> recorded]
    /\ Goto(p, "record")
    /\ UNCHANGED <<next, dbVars, faults>>

\* Another process applied the version since Look: the table or the column
\* exists, the statement fails, and so does Open.
ExecFails(p) ==
    /\ pc[p] = "apply"
    /\ holder = Nobody
    /\ ~Applies(p)
    /\ Exit(p)
    /\ UNCHANGED <<next, dbVars, holder, draft, faults>>

Record(p) ==
    /\ pc[p] = "record"
    /\ draft' = [draft EXCEPT !.recorded = @ \union {next[p]}]
    /\ Goto(p, "commit")
    /\ UNCHANGED <<next, dbVars, holder, faults>>

Commit(p) ==
    /\ pc[p] = "commit"
    /\ schema' = draft.schema
    /\ recorded' = draft.recorded
    /\ draft' = NoDraft
    /\ holder' = Nobody
    /\ next' = [next EXCEPT ![p] = @ + 1]
    /\ Goto(p, "look")
    /\ UNCHANGED <<wal, table, faults>>

-----------------------------------------------------------------------------
(* The faults.                                                              *)

\* The lock stays taken for the five seconds of busy_timeout.
LockTimeout(p) ==
    /\ faults < MaxFaults
    /\ pc[p] = "apply" \/ (pc[p] = "create" /\ ~table)
    /\ holder # Nobody
    /\ faults' = faults + 1
    /\ Exit(p)
    /\ UNCHANGED <<next, dbVars, holder, draft>>

\* The process dies; sqlite drops its lock and its open transaction.
Crash(p) ==
    /\ faults < MaxFaults
    /\ pc[p] # "down"
    /\ faults' = faults + 1
    /\ Goto(p, "down")
    /\ IF holder = p THEN holder' = Nobody /\ draft' = NoDraft
                     ELSE UNCHANGED <<holder, draft>>
    /\ UNCHANGED <<next, dbVars>>

\* What a process does on its own, as long as it runs.
Opens(p) ==
    \/ Start(p)       \/ KeepMode(p)  \/ BeginSwitch(p) \/ RefuseSwitch(p)
    \/ EndSwitch(p)   \/ CreateTable(p) \/ Look(p)
    \/ Exec(p)        \/ ExecFails(p) \/ Record(p)      \/ Commit(p)

DatabaseNext ==
    \E p \in Procs : Opens(p) \/ LockTimeout(p) \/ Crash(p)

DatabaseSpec == DatabaseInit /\ [][DatabaseNext]_startVars

-----------------------------------------------------------------------------
(* Properties.                                                              *)

\* sqlite.Open: whatever processes migrate the file together and wherever
\* they die, the file records exactly the migrations its schema holds, and a
\* process that serves has a file with all of them.
SchemaSound ==
    /\ recorded = 1..schema
    /\ \A p \in Procs : pc[p] = "serve" => schema = Latest

\* The units restart a process that lost a race or died, and the retry finds
\* a file it can open: at last all three serve, and go on serving.
EveryoneServes == <>[](\A p \in Procs : pc[p] = "serve")

=============================================================================
