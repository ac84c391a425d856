------------------------- MODULE SandboxStoreProofs -------------------------
(***************************************************************************)
(* Proofs of what the sandbox tables promise to any client.                *)
(***************************************************************************)
EXTENDS SandboxStore, TLAPS

\* Records of a row that exists.
RowRecords == [state : States, slot : 0..MaxSlot]

\* NoRow is not a row, and every row has a state that is not "absent".
LEMMA RowShape ==
    /\ NoRow \notin RowRecords
    /\ "absent" \notin States
    /\ "creating" \in States
  BY DEF NoRow, RowRecords, States

\* Every statement of the store keeps the types of its tables: a slot is one of
\* the host's range (AssignSandboxNetworkSlot), a state one of the declared ones.
THEOREM StoreTypeStep == StoreTypeOK /\ [StoreNext]_storeVars => StoreTypeOK'
<1> SUFFICES ASSUME StoreTypeOK, [StoreNext]_storeVars
             PROVE  StoreTypeOK'
  OBVIOUS
<1> USE MaxSlotAssumption DEF StoreTypeOK
<1>1. CASE UNCHANGED storeVars
  BY <1>1 DEF storeVars
<1>2. ASSUME NEW s \in Sandboxes, InsertRow(s)
      PROVE  StoreTypeOK'
  BY <1>2, RowShape DEF InsertRow
<1>3. ASSUME NEW s \in Sandboxes, NEW from \in States, NEW to \in States,
             UpdateState(s, from, to)
      PROVE  StoreTypeOK'
  <2>1. rows[s] \in RowRecords
    BY <1>3, RowShape DEF UpdateState, RowRecords, NoRow
  <2>2. [rows[s] EXCEPT !.state = to] \in RowRecords
    BY <2>1 DEF RowRecords
  <2> QED
    BY <1>3, <2>2 DEF UpdateState, RowRecords
<1>4. ASSUME NEW s \in Sandboxes, AssignSlot(s)
      PROVE  StoreTypeOK'
  <2>1. rows[s] \in RowRecords
    BY <1>4 DEF AssignSlot, HasRow, RowRecords
  <2>2. CASE UNCHANGED rows
    BY <1>4, <2>2 DEF AssignSlot
  <2>3. ASSUME NEW n \in FreeSlots, rows' = [rows EXCEPT ![s].slot = n]
        PROVE  StoreTypeOK'
    <3>1. [rows[s] EXCEPT !.slot = n] \in RowRecords
      BY <2>1 DEF RowRecords, FreeSlots, Slots
    <3> QED
      BY <1>4, <2>3, <3>1 DEF AssignSlot, RowRecords
  <2> QED
    BY <1>4, <2>2, <2>3 DEF AssignSlot
<1>5. ASSUME NEW s \in Sandboxes, FreeSlot(s)
      PROVE  StoreTypeOK'
  <2>1. rows[s] \in RowRecords
    BY <1>5 DEF FreeSlot, HasRow, RowRecords
  <2>2. [rows[s] EXCEPT !.slot = 0] \in RowRecords
    BY <2>1 DEF RowRecords
  <2> QED
    BY <1>5, <2>2 DEF FreeSlot, RowRecords
<1>6. ASSUME NEW s \in Sandboxes, DeleteRow(s)
      PROVE  StoreTypeOK'
  BY <1>6 DEF DeleteRow
<1>7. ASSUME NEW s \in Sandboxes, InsertSnapshot(s) \/ DeleteSnapshots(s)
      PROVE  StoreTypeOK'
  BY <1>7 DEF InsertSnapshot, DeleteSnapshots
<1> QED
  BY <1>1, <1>2, <1>3, <1>4, <1>5, <1>6, <1>7 DEF StoreNext

\* The tables hold what sqlite/sandbox.go can scan back, always.
THEOREM StoreTypes == StoreSpec => []StoreTypeOK
<1>1. StoreInit => StoreTypeOK
  BY DEF StoreInit, StoreTypeOK
<1> QED
  BY <1>1, StoreTypeStep, PTL DEF StoreSpec

\* A step keeps slots exclusive: only AssignSlot gives a sandbox a slot, and that
\* slot is one no row holds.
THEOREM SlotExclusiveStep ==
    StoreTypeOK /\ SlotExclusive /\ [StoreNext]_storeVars => SlotExclusive'
<1> SUFFICES ASSUME StoreTypeOK, SlotExclusive, [StoreNext]_storeVars,
                    NEW a \in Sandboxes, NEW b \in Sandboxes,
                    a # b, rows'[a].slot > 0
             PROVE  rows'[a].slot # rows'[b].slot
  BY DEF SlotExclusive
<1> USE MaxSlotAssumption
<1>0. \A t \in Sandboxes : rows[t].slot \in 0..MaxSlot
  BY DEF StoreTypeOK, NoRow
<1>1. CASE UNCHANGED storeVars
  BY <1>1 DEF storeVars, SlotExclusive
<1>2. ASSUME NEW s \in Sandboxes, \A t \in Sandboxes \ {s} : rows'[t] = rows[t],
             rows'[s].slot \in {0, rows[s].slot}
      PROVE  rows'[a].slot # rows'[b].slot
  BY <1>0, <1>2 DEF SlotExclusive
<1>3. ASSUME NEW s \in Sandboxes, InsertRow(s)
      PROVE  rows'[a].slot # rows'[b].slot
  BY <1>2, <1>3 DEF InsertRow, StoreTypeOK
<1>4. ASSUME NEW s \in Sandboxes, NEW from \in States, NEW to \in States,
             UpdateState(s, from, to)
      PROVE  rows'[a].slot # rows'[b].slot
  <2>1. rows'[s].slot = rows[s].slot
    BY <1>4, RowShape DEF UpdateState, StoreTypeOK, NoRow
  <2> QED
    BY <1>2, <1>4, <2>1 DEF UpdateState, StoreTypeOK
<1>5. ASSUME NEW s \in Sandboxes, AssignSlot(s)
      PROVE  rows'[a].slot # rows'[b].slot
  <2>1. CASE UNCHANGED rows
    BY <2>1 DEF SlotExclusive
  <2>2. ASSUME NEW n \in FreeSlots, rows' = [rows EXCEPT ![s].slot = n]
        PROVE  rows'[a].slot # rows'[b].slot
    <3>1. n > 0 /\ \A t \in Sandboxes : rows[t].slot # n
      BY DEF FreeSlots, UsedSlots, Slots
    <3>2. rows'[s].slot = n /\ \A t \in Sandboxes \ {s} : rows'[t] = rows[t]
      BY <2>2 DEF StoreTypeOK, NoRow
    <3> QED
      BY <3>1, <3>2 DEF SlotExclusive
  <2> QED
    BY <1>5, <2>1, <2>2 DEF AssignSlot
<1>6. ASSUME NEW s \in Sandboxes, FreeSlot(s)
      PROVE  rows'[a].slot # rows'[b].slot
  <2>1. rows'[s].slot = 0
    BY <1>6 DEF FreeSlot, StoreTypeOK, NoRow
  <2> QED
    BY <1>2, <1>6, <2>1 DEF FreeSlot, StoreTypeOK
<1>7. ASSUME NEW s \in Sandboxes, DeleteRow(s)
      PROVE  rows'[a].slot # rows'[b].slot
  BY <1>2, <1>7 DEF DeleteRow, StoreTypeOK, NoRow
<1>8. ASSUME NEW s \in Sandboxes, InsertSnapshot(s) \/ DeleteSnapshots(s)
      PROVE  rows'[a].slot # rows'[b].slot
  BY <1>8 DEF InsertSnapshot, DeleteSnapshots, SlotExclusive
<1> QED
  BY <1>1, <1>3, <1>4, <1>5, <1>6, <1>7, <1>8 DEF StoreNext

\* No two sandboxes ever hold the same slot, for any number of sandboxes, slots
\* and clients of the store.
THEOREM SlotsAreExclusive == StoreSpec => []SlotExclusive
<1>1. StoreInit => SlotExclusive
  BY DEF StoreInit, SlotExclusive, NoRow
<1> QED
  BY <1>1, StoreTypes, SlotExclusiveStep, PTL DEF StoreSpec

=============================================================================
