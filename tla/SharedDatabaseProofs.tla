------------------------ MODULE SharedDatabaseProofs ------------------------
(***************************************************************************)
(* The shared file is never half migrated: for any processes, any number   *)
(* of migrations and any faults, DatabaseSpec keeps SchemaSound.           *)
(***************************************************************************)
EXTENDS SharedDatabase, TLAPS

Labels == {"down", "configure", "switch", "create", "look", "apply",
           "record", "commit", "serve"}

FileInv ==
    /\ schema \in 0..Latest
    /\ recorded = 1..schema

\* A process that changes the file holds its lock, so at most one does.
LockInv ==
    \A p \in Procs : pc[p] \in {"switch", "record", "commit"} => holder = p

\* What p knows of the file: the migrations before next[p] are in it, and an
\* open transaction adds exactly the next one.
ProcInv(p) ==
    /\ next[p] \in Nat \ {0}
    /\ pc[p] \in {"look", "apply"} => next[p] <= Latest + 1 /\ next[p] <= schema + 1
    /\ pc[p] = "apply" => next[p] <= Latest
    /\ pc[p] \in {"record", "commit"} => next[p] = schema + 1 /\ next[p] <= Latest
    /\ pc[p] = "record" => draft = [schema |-> next[p], recorded |-> recorded]
    /\ pc[p] = "commit" =>
           draft = [schema |-> next[p], recorded |-> recorded \union {next[p]}]
    /\ pc[p] = "serve" => schema = Latest

DatabaseInv ==
    /\ pc \in [Procs -> Labels]
    /\ DOMAIN next = Procs
    /\ FileInv
    /\ LockInv
    /\ \A p \in Procs : ProcInv(p)

USE LatestAssumption, NobodyAssumption

\* A file of any version that nobody has opened satisfies the invariant.
LEMMA InitInv == DatabaseInit => DatabaseInv
  BY DEF DatabaseInit, DatabaseInv, FileInv, LockInv, ProcInv, Labels

\* A step that leaves the file and the other processes alone, and the
\* transaction too or ends it, keeps the invariant if it keeps p's own part.
LEMMA StepInv ==
    ASSUME NEW p \in Procs, DatabaseInv,
           NEW label \in Labels, Goto(p, label),
           DOMAIN next' = Procs,
           \A q \in Procs \ {p} : next'[q] = next[q],
           UNCHANGED <<schema, recorded>>,
           UNCHANGED draft \/ holder = p \/ holder = Nobody,
           UNCHANGED holder \/ holder = p \/ holder = Nobody,
           label \in {"switch", "record", "commit"} => holder' = p,
           ProcInv(p)'
    PROVE  DatabaseInv'
<1>1. pc' \in [Procs -> Labels] /\ pc'[p] = label
  BY DEF DatabaseInv, Goto
<1>2. \A q \in Procs \ {p} : pc'[q] = pc[q]
  BY DEF DatabaseInv, Goto
<1>3. FileInv'
  BY DEF DatabaseInv, FileInv
<1>4. ASSUME NEW q \in Procs \ {p}, pc[q] \in {"switch", "record", "commit"}
      PROVE  holder = q /\ UNCHANGED <<holder, draft>>
  BY <1>4 DEF DatabaseInv, LockInv
<1>5. LockInv'
  BY <1>1, <1>2, <1>4 DEF LockInv
<1>6. ASSUME NEW q \in Procs \ {p} PROVE ProcInv(q)'
  <2>1. ProcInv(q) /\ pc'[q] = pc[q] /\ next'[q] = next[q]
    BY <1>2 DEF DatabaseInv
  <2>2. pc[q] \in {"record", "commit"} => draft' = draft
    BY <1>4
  <2> QED
    BY <2>1, <2>2 DEF ProcInv
<1> QED
  BY <1>1, <1>3, <1>5, <1>6 DEF DatabaseInv

\* A commit adds the version its transaction was for, and nobody else's
\* transaction is open.
LEMMA CommitInv ==
    ASSUME NEW p \in Procs, DatabaseInv, Commit(p)
    PROVE  DatabaseInv'
<1>1. /\ holder = p /\ ProcInv(p) /\ FileInv
      /\ next[p] = schema + 1 /\ next[p] <= Latest
      /\ draft = [schema |-> next[p], recorded |-> recorded \union {next[p]}]
  BY DEF DatabaseInv, LockInv, ProcInv, Commit
<1>2. schema' = schema + 1 /\ recorded' = recorded \union {schema + 1}
  BY <1>1 DEF Commit
<1>3. FileInv'
  BY <1>1, <1>2 DEF FileInv
<1>4. pc' \in [Procs -> Labels] /\ pc'[p] = "look"
  BY DEF DatabaseInv, Commit, Goto, Labels
<1>5. DOMAIN next' = Procs /\ next'[p] = next[p] + 1
  BY DEF DatabaseInv, Commit
<1>6. ASSUME NEW q \in Procs \ {p}
      PROVE  /\ pc'[q] = pc[q] /\ next'[q] = next[q]
             /\ pc[q] \notin {"switch", "record", "commit"}
  BY <1>1 DEF DatabaseInv, LockInv, Commit, Goto
<1>7. LockInv'
  BY <1>4, <1>6 DEF LockInv
<1>8. ProcInv(p)'
  BY <1>1, <1>2, <1>4, <1>5 DEF ProcInv, FileInv
<1>9. ASSUME NEW q \in Procs \ {p} PROVE ProcInv(q)'
  <2>1. ProcInv(q)
    BY DEF DatabaseInv
  <2>2. pc[q] # "serve"
    BY <1>1, <2>1 DEF ProcInv, FileInv
  <2> QED
    BY <1>1, <1>2, <1>6, <2>1, <2>2 DEF ProcInv, FileInv
<1> QED
  BY <1>3, <1>4, <1>5, <1>7, <1>8, <1>9 DEF DatabaseInv

\* No step of a process that migrates or serves breaks the invariant.
LEMMA NextInv == DatabaseInv /\ [DatabaseNext]_startVars => DatabaseInv'
<1> SUFFICES ASSUME DatabaseInv, [DatabaseNext]_startVars PROVE DatabaseInv'
  OBVIOUS
<1> USE DEF dbVars
<1>1. CASE UNCHANGED startVars
  BY <1>1 DEF startVars, DatabaseInv, FileInv, LockInv, ProcInv
<1>2. ASSUME NEW p \in Procs, Opens(p) \/ LockTimeout(p) \/ Crash(p)
      PROVE  DatabaseInv'
  <2>0. ProcInv(p) /\ FileInv /\ DOMAIN next = Procs /\ pc \in [Procs -> Labels]
    BY DEF DatabaseInv
  <2>1. CASE Start(p)
    BY <2>0, <2>1, StepInv DEF Start, Goto, ProcInv, Labels
  <2>2. CASE KeepMode(p)
    BY <2>0, <2>2, StepInv DEF KeepMode, Goto, ProcInv, Labels
  <2>3. CASE BeginSwitch(p)
    BY <2>0, <2>3, StepInv DEF BeginSwitch, Goto, ProcInv, Labels
  <2>4. CASE RefuseSwitch(p)
    BY <2>0, <2>4, StepInv DEF RefuseSwitch, Exit, Goto, ProcInv, Labels
  <2>5. CASE EndSwitch(p)
    <3>1. holder = p
      BY <2>5 DEF DatabaseInv, LockInv, EndSwitch
    <3> QED
      BY <2>0, <2>5, <3>1, StepInv DEF EndSwitch, Goto, ProcInv, Labels
  <2>6. CASE CreateTable(p)
    <3>1. pc'[p] = "look" /\ next'[p] = 1 /\ DOMAIN next' = Procs
      BY <2>0, <2>6 DEF CreateTable, Goto
    <3>2. ProcInv(p)'
      BY <2>0, <2>6, <3>1 DEF CreateTable, ProcInv, FileInv
    <3> QED
      BY <2>0, <2>6, <3>1, <3>2, StepInv DEF CreateTable, Labels
  <2>7. CASE Look(p)
    <3>1. CASE next[p] > Latest
      BY <2>0, <2>7, <3>1, StepInv DEF Look, Goto, ProcInv, Labels, FileInv
    <3>2. CASE next[p] <= Latest /\ next[p] \in recorded
      <4>1. Goto(p, "look")
        BY <2>0, <2>7, <3>2 DEF Look, Goto, ProcInv, FileInv
      <4>2. /\ next'[p] = next[p] + 1 /\ DOMAIN next' = Procs
            /\ \A q \in Procs \ {p} : next'[q] = next[q]
        BY <2>0, <2>7, <3>2 DEF Look, ProcInv, FileInv
      <4>3. ProcInv(p)'
        BY <2>0, <2>7, <3>2, <4>1, <4>2 DEF Look, Goto, ProcInv, FileInv
      <4> QED
        BY <2>0, <2>7, <3>2, <4>1, <4>2, <4>3, StepInv DEF Look, Labels
    <3>3. CASE next[p] <= Latest /\ next[p] \notin recorded
      BY <2>0, <2>7, <3>3, StepInv DEF Look, Goto, ProcInv, Labels, FileInv
    <3> QED
      BY <2>0, <3>1, <3>2, <3>3 DEF ProcInv, FileInv
  <2>8. CASE Exec(p)
    <3>1. ProcInv(p)'
      BY <2>0, <2>8 DEF Exec, Applies, Goto, ProcInv, FileInv
    <3> QED
      BY <2>0, <2>8, <3>1, StepInv DEF Exec, Labels
  <2>9. CASE ExecFails(p)
    BY <2>0, <2>9, StepInv DEF ExecFails, Exit, Goto, ProcInv, Labels
  <2>10. CASE Record(p)
    <3>1. holder = p
      BY <2>10 DEF DatabaseInv, LockInv, Record
    <3>2. draft' = [schema |-> next[p], recorded |-> recorded \union {next[p]}]
      BY <2>0, <2>10 DEF Record, ProcInv
    <3>3. pc'[p] = "commit" /\ next[p] = schema + 1 /\ next[p] <= Latest
      BY <2>0, <2>10 DEF Record, Goto, ProcInv
    <3>4. ProcInv(p)'
      BY <2>0, <2>10, <3>2, <3>3 DEF Record, ProcInv
    <3> QED
      BY <2>0, <2>10, <3>1, <3>4, StepInv DEF Record, Labels
  <2>11. CASE Commit(p)
    BY <2>11, CommitInv
  <2>12. CASE LockTimeout(p)
    BY <2>0, <2>12, StepInv DEF LockTimeout, Exit, Goto, ProcInv, Labels
  <2>13. CASE Crash(p)
    BY <2>0, <2>13, StepInv DEF Crash, Goto, ProcInv, Labels
  <2> QED
    BY <1>2, <2>1, <2>2, <2>3, <2>4, <2>5, <2>6, <2>7, <2>8, <2>9, <2>10, <2>11,
       <2>12, <2>13 DEF Opens
<1> QED
  BY <1>1, <1>2 DEF DatabaseNext

\* Whatever processes open the file together and wherever they die, it records
\* exactly the migrations its schema holds, and who serves has them all
\* (sqlite.Open, migrate, applyMigration).
THEOREM FileSound == DatabaseSpec => []SchemaSound
<1>1. DatabaseInv => SchemaSound
  BY DEF DatabaseInv, FileInv, ProcInv, SchemaSound
<1> QED
  BY <1>1, InitInv, NextInv, PTL DEF DatabaseSpec

=============================================================================
