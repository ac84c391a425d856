---------------------------- MODULE SandboxStore ----------------------------
(***************************************************************************)
(* The sandbox tables of the sqlite store: one row per sandbox (its        *)
(* lifecycle state and its network slot) and the snapshot records.  Each   *)
(* action is one statement or one transaction of                           *)
(* internal/storage/store/sqlite; the store runs them one at a time        *)
(* (SetMaxOpenConns(1)), and this specification lets its clients issue any *)
(* of them, for any sandbox, in any order.  It is therefore what the store *)
(* promises whatever the services above it do.                             *)
(***************************************************************************)
EXTENDS Integers, FiniteSets

CONSTANTS
    Sandboxes,      \* the sandbox identifiers
    MaxSlot         \* MaxSlots(): the last network slot of the host's CIDRs

ASSUME MaxSlotAssumption == MaxSlot \in Nat \ {0}

Slots == 1..MaxSlot

\* internal/sandbox/types.go; StateUnknown is declared there and never written.
States == {"creating", "running", "pausing", "paused", "resuming",
           "stopping", "stopped", "starting", "rebooting",
           "killing", "killed", "failed"}

\* States a handler writes before its work and must replace after it.
Transitional == {"creating", "pausing", "resuming", "stopping", "starting",
                 "rebooting", "killing"}

NoRow == [state |-> "absent", slot |-> 0]

VARIABLES
    rows,           \* the sandboxes table, NoRow where there is no row
    snaps           \* the sandboxes that have records in the snapshots table

storeVars == <<rows, snaps>>

HasRow(s) == rows[s] # NoRow

\* Slip: the query lists the slots of running sandboxes only.
UsedSlotsOfRunning ==
    {rows[t].slot : t \in {u \in Sandboxes : rows[u].state = "running"}} \ {0}

UsedSlots == {rows[t].slot : t \in Sandboxes} \ {0}
FreeSlots == Slots \ UsedSlots

StoreInit ==
    /\ rows = [s \in Sandboxes |-> NoRow]
    /\ snaps = {}

-----------------------------------------------------------------------------
(* The statements.                                                          *)

\* INSERT INTO sandboxes: the primary key refuses a second row.
InsertRow(s) ==
    /\ ~HasRow(s)
    /\ rows' = [rows EXCEPT ![s] = [state |-> "creating", slot |-> 0]]
    /\ UNCHANGED snaps

\* UPDATE ... SET state = to WHERE state = from, in one transaction with the
\* state_transitions entry.
UpdateState(s, from, to) ==
    /\ rows[s].state = from
    /\ rows' = [rows EXCEPT ![s].state = to]
    /\ UNCHANGED snaps

\* Slip: the search for a free slot runs one past maxSlot.
AssignSlotPastEnd(s) ==
    /\ HasRow(s)
    /\ rows[s].slot = 0
    /\ \E n \in (1..MaxSlot + 1) \ UsedSlots : rows' = [rows EXCEPT ![s].slot = n]
    /\ UNCHANGED snaps

\* A sandbox that has a slot keeps it; otherwise the lowest free one.
AssignSlot(s) ==
    /\ HasRow(s)
    /\ \/ rows[s].slot > 0 /\ UNCHANGED rows
       \/ /\ rows[s].slot = 0
          /\ \E n \in FreeSlots :
                /\ \A m \in FreeSlots : n <= m
                /\ rows' = [rows EXCEPT ![s].slot = n]
    /\ UNCHANGED snaps

FreeSlot(s) ==
    /\ HasRow(s)
    /\ rows' = [rows EXCEPT ![s].slot = 0]
    /\ UNCHANGED snaps

DeleteRow(s) ==
    /\ HasRow(s)
    /\ rows' = [rows EXCEPT ![s] = NoRow]
    /\ UNCHANGED snaps

\* No foreign key ties a snapshot record to a sandbox row.
InsertSnapshot(s) == snaps' = snaps \union {s} /\ UNCHANGED rows

DeleteSnapshots(s) == snaps' = snaps \ {s} /\ UNCHANGED rows

StoreNext ==
    \E s \in Sandboxes :
        \/ InsertRow(s)
        \/ \E from, to \in States : UpdateState(s, from, to)
        \/ AssignSlot(s)
        \/ FreeSlot(s)
        \/ DeleteRow(s)
        \/ InsertSnapshot(s)
        \/ DeleteSnapshots(s)

StoreSpec == StoreInit /\ [][StoreNext]_storeVars

-----------------------------------------------------------------------------
(* What the store promises.                                                 *)

\* A row is NoRow or a state with a slot of the host's range (0 for none);
\* the type of what sqlite/sandbox.go scans back.
StoreTypeOK ==
    /\ rows \in [Sandboxes -> [state : States, slot : 0..MaxSlot] \union {NoRow}]
    /\ snaps \subseteq Sandboxes

\* Two sandboxes never hold the same network slot, whatever order the
\* assignments, releases and deletions come in (AssignSandboxNetworkSlot).
SlotExclusive ==
    \A s, t \in Sandboxes :
        s # t /\ rows[s].slot > 0 => rows[s].slot # rows[t].slot

=============================================================================
