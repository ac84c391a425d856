------------------------ MODULE SandboxServiceProofs ------------------------
(***************************************************************************)
(* Proofs about boxlet's sandbox handlers: the types of the service's      *)
(* state, and that the handlers, however they interleave and whatever      *)
(* fails, use the store only as SandboxStore lets them; and that none of   *)
(* them leaves a sandbox in a transition, unless it is cut off.            *)
(***************************************************************************)
EXTENDS SandboxService, SandboxStoreProofs, SequenceTheorems

\* The steps a handler is written with are steps.
LEMMA StepTypes ==
    /\ \A x \in States, e \in Errors : Set(x, e) \in Steps /\ Cas(x, e) \in Steps
    /\ \A m \in Methods, e \in Errors : Rpc(m, e) \in Steps
    /\ \A k \in {"assign", "files", "net", "shim", "bgkill", "agent", "snapshot",
                 "cleanup", "free", "reread", "mount", "unmount", "remove",
                 "terminate", "delsnaps", "delrow", "rmdir"}, e \in Errors :
          Do(k, e) \in Steps
<1>1. \A x \in States, e \in Errors : Set(x, e) \in Steps /\ Cas(x, e) \in Steps
  BY DEF Steps, Set, Cas
<1>2. \A m \in Methods, e \in Errors : Rpc(m, e) \in Steps
  BY DEF Steps, Rpc
<1>3. \A k \in {"assign", "files", "net", "shim", "bgkill", "agent", "snapshot",
                "cleanup", "free", "reread", "mount", "unmount", "remove",
                "terminate", "delsnaps", "delrow", "rmdir"}, e \in Errors :
         Do(k, e) \in Steps
  BY DEF Steps, Do
<1> QED
  BY <1>1, <1>2, <1>3

\* Every handler is a list of steps.
LEMMA HandlerTypes == \A op \in OpNames, s \in Sandboxes : StepsOf(op, s) \in Seq(Steps)
<1> USE StepTypes DEF Errors, Methods, States
<1>1. \A e \in Errors : Release(e) \in Seq(Steps)
  BY DEF Release
<1>2. CreateSteps \in Seq(Steps)
  BY DEF CreateSteps
<1>3. PauseSteps \in Seq(Steps)
  <2>1. <<Set("pausing", "return"), Rpc("Pause", "setFailed"),
          Do("snapshot", "return"), Set("paused", "return")>> \in Seq(Steps)
    OBVIOUS
  <2> QED
    BY <1>1, <2>1, ConcatProperties DEF PauseSteps
<1>4. ResumeSteps \in Seq(Steps)
  BY DEF ResumeSteps
<1>5. RebootSteps \in Seq(Steps)
  BY DEF RebootSteps
<1>6. ASSUME NEW s \in Sandboxes
      PROVE  StartSteps(s) \in Seq(Steps)
  <2>1. <<Set("starting", "return"), Do("assign", "setFailed")>> \in Seq(Steps)
    OBVIOUS
  <2>2. (IF s \in Containers THEN <<Do("mount", "setAbandon")>> ELSE <<>>) \in Seq(Steps)
    OBVIOUS
  <2>3. <<Do("net", "setAbandon"), Rpc("Start", "setAbandon"),
          Do("agent", "setAbandon"), Set("running", "return")>> \in Seq(Steps)
    OBVIOUS
  <2> QED
    BY <2>1, <2>2, <2>3, ConcatProperties DEF StartSteps
<1>7. ASSUME NEW s \in Sandboxes
      PROVE  StopSteps(s) \in Seq(Steps)
  <2>1. <<Set("stopping", "return"), Rpc("Stop", "setFailed"),
          Set("stopped", "return")>> \in Seq(Steps)
    OBVIOUS
  <2>2. (IF s \in Containers THEN <<Do("reread", "return"), Do("unmount", "return")>>
                             ELSE <<>>) \in Seq(Steps)
    OBVIOUS
  <2> QED
    BY <1>1, <2>1, <2>2, ConcatProperties DEF StopSteps
<1>8. ASSUME NEW s \in Sandboxes
      PROVE  KillSteps(s) \in Seq(Steps)
  <2>1. <<Set("killing", "return"), Rpc("Kill", "ignore"), Do("terminate", "ignore")>>
        \in Seq(Steps)
    OBVIOUS
  <2>2. (IF s \in Containers THEN <<Do("remove", "return")>> ELSE <<>>) \in Seq(Steps)
    OBVIOUS
  <2>3. <<Set("killed", "return"), Do("delsnaps", "return"),
          Do("delrow", "return"), Do("rmdir", "return")>> \in Seq(Steps)
    OBVIOUS
  <2> QED
    BY <1>1, <2>1, <2>2, <2>3, ConcatProperties DEF KillSteps
<1> QED
  BY <1>2, <1>3, <1>4, <1>5, <1>6, <1>7, <1>8 DEF StepsOf, OpNames

\* So is every error branch.
LEMMA RecoveryTypes == \A e \in Errors \ {"ignore"} : Recovery(e) \in Seq(Steps)
<1> USE StepTypes DEF Errors, Methods, States
<1>1. Release("ignore") \in Seq(Steps)
  BY DEF Release
<1>2. /\ <<Cas("failed", "ignore")>> \in Seq(Steps)
      /\ <<Do("bgkill", "ignore"), Cas("failed", "ignore")>> \in Seq(Steps)
      /\ <<Set("failed", "ignore")>> \in Seq(Steps)
      /\ <<>> \in Seq(Steps)
  OBVIOUS
<1>3. /\ <<Cas("failed", "ignore")>> \o Release("ignore") \in Seq(Steps)
      /\ <<Do("bgkill", "ignore"), Cas("failed", "ignore")>> \o Release("ignore")
         \in Seq(Steps)
      /\ <<Set("failed", "ignore")>> \o Release("ignore") \in Seq(Steps)
  BY <1>1, <1>2, ConcatProperties
<1> HIDE DEF Methods, States
<1> QED
  BY <1>2, <1>3 DEF Recovery

-----------------------------------------------------------------------------
(* The types of the service's state.                                        *)

\* A call with work left to do works on a sandbox.
BoxesKnown ==
    \A c \in Callers :
        call[c].todo # <<>> \/ call[c].undo # "none" => call[c].box \in Sandboxes

CallsOK == call \in [Callers -> CallRecords] /\ BoxesKnown

\* What a call may become: a typed record whose work, if any, is on a sandbox.
Continuations ==
    {k \in CallRecords : k.todo # <<>> \/ k.undo # "none" => k.box \in Sandboxes}

\* A caller that executes nothing holds a typed record.
LEMMA IdleTyped == Idle \in Continuations
  BY EmptySeq, MaxSlotAssumption DEF Idle, Continuations, CallRecords, States

\* A call that goes on as a typed record leaves the calls typed.
LEMMA BecomeTyped ==
    ASSUME CallsOK, NEW c \in Callers, NEW k \in Continuations, Become(c, k)
    PROVE  CallsOK'
<1>1. (IF k.todo = <<>> /\ k.undo = "none" THEN Idle ELSE k) \in Continuations
  BY IdleTyped
<1> QED
  BY <1>1 DEF CallsOK, BoxesKnown, Become, Continuations

\* The step at the head of a call, and what is left after it.
LEMMA HeadTyped ==
    ASSUME CallsOK, NEW c \in Callers, call[c].todo # <<>>
    PROVE  /\ Head(call[c].todo) \in Steps
           /\ Tail(call[c].todo) \in Seq(Steps)
           /\ call[c].box \in Sandboxes
           /\ Stepped(c) \in Continuations
           /\ Err(c) \in Errors
<1>1. call[c].todo \in Seq(Steps) /\ call[c] \in CallRecords /\ call[c].box \in Sandboxes
  BY DEF CallsOK, CallRecords, BoxesKnown
<1>2. Head(call[c].todo) \in Steps /\ Tail(call[c].todo) \in Seq(Steps)
  BY <1>1, HeadTailProperties
<1>3. Stepped(c) \in Continuations
  BY <1>1, <1>2 DEF Stepped, Continuations, CallRecords
<1>4. Err(c) \in Errors
  BY <1>2 DEF Err, Steps
<1> QED
  BY <1>1, <1>2, <1>3, <1>4

\* A step that succeeds or fails leaves the calls typed.
LEMMA OutcomeTyped ==
    ASSUME CallsOK, NEW c \in Callers, call[c].todo # <<>>, Succeed(c) \/ Fail(c)
    PROVE  CallsOK'
<1>1. CASE Succeed(c)
  BY <1>1, HeadTyped, BecomeTyped DEF Succeed
<1>2. CASE Fail(c)
  <2> DEFINE rest == IF Err(c) = "ignore" THEN Tail(call[c].todo) ELSE Recovery(Err(c))
  <2>1. rest \in Seq(Steps)
    BY HeadTyped, RecoveryTypes
  <2>2. [call[c] EXCEPT !.todo = rest] \in Continuations
    BY ZenonT(40), <2>1, HeadTyped DEF CallsOK, CallRecords, Continuations
  <2> QED
    BY <1>2, <2>2, BecomeTyped DEF Fail
<1> QED
  BY <1>1, <1>2

-----------------------------------------------------------------------------
(* The handlers and the store.                                              *)

ServiceInv == StoreTypeOK /\ CallsOK

\* Every step of the service is a statement of the store or leaves its tables
\* alone, and leaves the calls typed.
LEMMA CallStep ==
    ASSUME ServiceInv, NEW c \in Callers, Step(c)
    PROVE  CallsOK' /\ [StoreNext]_storeVars
<1> USE DEF ServiceInv
<1>0. ASSUME NEW kind, At(c, kind)
      PROVE  call[c].todo # <<>> /\ Box(c) \in Sandboxes
  BY <1>0, HeadTyped DEF At, Box
<1>1. CASE ReadState(c)
  <2>1. rows[Box(c)] \in RowRecords \union {NoRow}
    BY <1>0, <1>1 DEF ReadState, StoreTypeOK, RowRecords
  <2>2. Head(call[c].todo) \in Steps /\ Arg(c) \in States /\ Err(c) \in Errors
    BY <1>0, <1>1, HeadTyped DEF ReadState, At, Arg, Steps
  <2>3. ASSUME rows[Box(c)] # NoRow,
               Become(c, [call[c] EXCEPT !.seen = rows[Box(c)].state,
                                         !.todo = <<Cas(Arg(c), Err(c))>> \o Tail(@)])
        PROVE  CallsOK'
    <3> DEFINE rest == <<Cas(Arg(c), Err(c))>> \o Tail(call[c].todo)
               k == [call[c] EXCEPT !.seen = rows[Box(c)].state, !.todo = rest]
    <3>1. <<Cas(Arg(c), Err(c))>> \in Seq(Steps) /\ Tail(call[c].todo) \in Seq(Steps)
      BY <1>0, <1>1, <2>2, HeadTyped, StepTypes DEF ReadState
    <3>2. rest \in Seq(Steps)
      BY <3>1, ConcatProperties
    <3>3. rows[Box(c)].state \in States
      BY <2>1, <2>3 DEF RowRecords
    <3> HIDE DEF rest
    <3>4. k \in Continuations
      BY <1>0, <1>1, <3>2, <3>3 DEF ReadState, CallsOK, CallRecords, Continuations, Box
    <3>5. Become(c, k)
      BY <2>3 DEF rest
    <3> QED
      BY <3>4, <3>5, BecomeTyped
  <2>4. ASSUME Become(c, [Stepped(c) EXCEPT
                             !.undo = IF Arg(c) = "running" THEN "none" ELSE @])
        PROVE  CallsOK'
    <3>1. Stepped(c) \in Continuations
      BY <1>0, <1>1, HeadTyped DEF ReadState
    <3>2. [Stepped(c) EXCEPT !.undo = IF Arg(c) = "running" THEN "none" ELSE @]
          \in Continuations
      BY <3>1 DEF Continuations, CallRecords
    <3> QED
      BY <2>4, <3>2, BecomeTyped
  <2> QED
    BY <1>0, <1>1, <2>3, <2>4, OutcomeTyped DEF ReadState
<1>2. CASE CompareAndSet(c)
  <2>1. Head(call[c].todo) \in Steps /\ Arg(c) \in States /\ call[c].seen \in States
    BY <1>0, <1>2, HeadTyped DEF CompareAndSet, At, Arg, Steps, CallsOK, CallRecords
  <2>2. Stepped(c) \in Continuations
    BY <1>0, <1>2, HeadTyped DEF CompareAndSet
  <2>3. [Stepped(c) EXCEPT !.undo = IF Arg(c) = "running" THEN "none" ELSE @]
        \in Continuations
    BY <2>2 DEF Continuations, CallRecords
  <2> QED
    BY <1>0, <1>2, <2>1, <2>3, BecomeTyped, OutcomeTyped
    DEF CompareAndSet, StoreNext, storeVars, UpdateState
<1>3. CASE Assign(c)
  <2>1. ASSUME AssignSlot(Box(c)),
               Become(c, [Stepped(c) EXCEPT !.slot = rows'[Box(c)].slot])
        PROVE  CallsOK' /\ StoreNext
    <3>1. Box(c) \in Sandboxes /\ Stepped(c) \in Continuations
      BY <1>0, <1>3, HeadTyped DEF Assign
    <3>2. StoreNext
      BY <2>1, <3>1 DEF StoreNext
    <3>3. rows'[Box(c)].slot \in 0..MaxSlot
      BY <3>1, <3>2, StoreTypeStep, MaxSlotAssumption DEF StoreTypeOK, NoRow
    <3>4. [Stepped(c) EXCEPT !.slot = rows'[Box(c)].slot] \in Continuations
      BY <3>1, <3>3 DEF Continuations, CallRecords
    <3> QED
      BY <2>1, <3>2, <3>4, BecomeTyped
  <2> QED
    BY <1>0, <1>3, <2>1, OutcomeTyped DEF Assign, storeVars
<1>4. CASE Free(c)
  BY <1>0, <1>4, OutcomeTyped DEF Free, StoreNext, storeVars
<1>5. CASE RecordSnapshot(c)
  BY <1>0, <1>5, OutcomeTyped DEF RecordSnapshot, StoreNext, storeVars
<1>6. CASE DropSnapshots(c)
  BY <1>0, <1>6, OutcomeTyped DEF DropSnapshots, StoreNext, storeVars
<1>7. CASE DropRow(c)
  BY <1>0, <1>7, OutcomeTyped DEF DropRow, StoreNext, storeVars
<1>8. CASE Reread(c)
  BY <1>0, <1>8, OutcomeTyped DEF Reread
<1>9. CASE PrepareNetwork(c) \/ CleanupNetwork(c)
  BY <1>0, <1>9, OutcomeTyped DEF PrepareNetwork, CleanupNetwork
<1>10. CASE CallRuntime(c) \/ KillUnready(c)
  BY <1>0, <1>10, OutcomeTyped DEF CallRuntime, KillUnready
<1>11. CASE EnsureShim(c) \/ TerminateShim(c) \/ RemoveDirectory(c)
  BY <1>0, <1>11, OutcomeTyped DEF EnsureShim, TerminateShim, RemoveDirectory
<1>12. CASE RefreshAgent(c)
  BY <1>0, <1>12, OutcomeTyped DEF RefreshAgent
<1>13. CASE PrepareFiles(c)
  <2>1. [Stepped(c) EXCEPT !.undo = "remove"] \in Continuations
    BY <1>0, <1>13, HeadTyped DEF PrepareFiles, Continuations, CallRecords, Stepped
  <2> QED
    BY <1>0, <1>13, <2>1, BecomeTyped, OutcomeTyped DEF PrepareFiles
<1>14. CASE MountRootfs(c)
  <2>1. [Stepped(c) EXCEPT !.undo = "unmount"] \in Continuations
    BY <1>0, <1>14, HeadTyped DEF MountRootfs, Continuations, CallRecords, Stepped
  <2> QED
    BY <1>0, <1>14, <2>1, BecomeTyped, OutcomeTyped DEF MountRootfs
<1>15. CASE UnmountRootfs(c) \/ RemoveRootfs(c)
  BY <1>0, <1>15, OutcomeTyped DEF UnmountRootfs, RemoveRootfs
<1>16. CASE RollBack(c)
  BY <1>16, IdleTyped DEF RollBack, CallsOK, BoxesKnown, Continuations
<1> QED
  BY <1>1, <1>2, <1>3, <1>4, <1>5, <1>6, <1>7, <1>8, <1>9, <1>10, <1>11, <1>12,
     <1>13, <1>14, <1>15, <1>16 DEF Step

\* The same for every other step, a call's arrival included.
LEMMA ServiceStep ==
    ASSUME ServiceInv, [Next]_vars
    PROVE  CallsOK' /\ [StoreNext]_storeVars
<1> USE DEF ServiceInv
<1>1. ASSUME NEW c \in Callers, NEW op \in Ops, NEW s \in Sandboxes, Begin(c, op, s)
      PROVE  CallsOK' /\ [StoreNext]_storeVars
  <2> DEFINE k == [Idle EXCEPT !.op = op, !.box = s, !.slot = rows[s].slot,
                               !.todo = StepsOf(op, s)]
  <2>1. op \in OpNames /\ StepsOf(op, s) \in Seq(Steps)
    BY ServiceAssumption, HandlerTypes
  <2>2. rows[s].slot \in 0..MaxSlot
    BY MaxSlotAssumption DEF StoreTypeOK, NoRow
  <2>3. k \in CallRecords /\ k.box \in Sandboxes
    BY <2>1, <2>2 DEF Idle, CallRecords, States
  <2>4. call' = [call EXCEPT ![c] = k]
    BY <1>1 DEF Begin
  <2>5. CallsOK'
    BY <2>3, <2>4 DEF CallsOK, BoxesKnown
  <2>6. InsertRow(s) \/ UNCHANGED storeVars
    BY <1>1 DEF Begin
  <2> QED
    BY <2>5, <2>6 DEF StoreNext
<1>2. ASSUME NEW c \in Callers, Cancel(c)
      PROVE  CallsOK' /\ [StoreNext]_storeVars
  BY <1>2 DEF Cancel, CallsOK, BoxesKnown, CallRecords
<1>3. CASE Crash
  BY <1>3, IdleTyped DEF Crash, CallsOK, BoxesKnown, Continuations
<1>4. ASSUME NEW s \in Sandboxes, RuntimeExits(s)
      PROVE  CallsOK' /\ [StoreNext]_storeVars
  BY <1>4 DEF RuntimeExits, CallsOK, BoxesKnown
<1>5. CASE UNCHANGED vars \/ Quiet
  BY <1>5 DEF Quiet, vars, storeVars, CallsOK, BoxesKnown
<1> QED
  BY <1>1, <1>2, <1>3, <1>4, <1>5, CallStep DEF Next

\* The state of the store and of the calls is typed, always.
THEOREM ServiceInvariant == Spec => []ServiceInv
<1>1. Init => ServiceInv
  BY IdleTyped DEF Init, ServiceInv, StoreInit, StoreTypeOK, CallsOK, BoxesKnown,
                   Continuations
<1>2. ServiceInv /\ [Next]_vars => ServiceInv'
  BY ServiceStep, StoreTypeStep DEF ServiceInv
<1> QED
  BY <1>1, <1>2, PTL DEF Spec

\* The handlers implement the store's specification: whatever calls interleave,
\* fail, are cancelled or die, the tables only ever take the steps of SandboxStore.
THEOREM ServiceImplementsStore == Spec => ImplementsStore
<1>1. Init => StoreInit
  BY DEF Init
<1>2. ServiceInv /\ [Next]_vars => [StoreNext]_storeVars
  BY ServiceStep
<1> QED
  BY <1>1, <1>2, ServiceInvariant, PTL DEF Spec, ImplementsStore, StoreSpec

\* So two sandboxes of a host never hold the same network slot, for any number of
\* sandboxes, slots and concurrent calls.
THEOREM ServiceSlotsExclusive == Spec => []SlotExclusive
  BY ServiceImplementsStore, SlotsAreExclusive, PTL DEF ImplementsStore

-----------------------------------------------------------------------------
(* The types of the host.                                                   *)

Handles == {"none", "empty", "live", "dead", "idle"}

FaultsOK == faults \in [n : Nat, kinds : SUBSET FaultNames]

HostOK ==
    /\ handle \in [Sandboxes -> Handles]
    /\ stray \subseteq Sandboxes
    /\ netns \subseteq Sandboxes
    /\ route \in [Slots -> Sandboxes \union {Nobody}]
    /\ rootfs \in [Sandboxes -> {"none", "unmounted", "mounted"}]

CountsOK == used \subseteq Sandboxes /\ calls \in Nat /\ FaultsOK

\* A fault is one more of a known kind.
LEMMA FaultTyped ==
    ASSUME FaultsOK, NEW kind, Fault(kind)
    PROVE  FaultsOK'
  BY ServiceAssumption DEF FaultsOK, Fault

\* Whatever the runtime answers, its driver is left in a known condition.
LEMMA ReplyTyped ==
    ASSUME HostOK, NEW s \in Sandboxes, NEW m \in Methods,
           NEW r \in Mishaps(s, m) \union {Answer(s, m)}
    PROVE  r.handle \in Handles
<1> USE DEF HostOK, Handles, Reply, Refuse, LoadFailed
<1>1. ASSUME r \in Mishaps(s, m)
      PROVE  r.handle \in Handles
  BY <1>1 DEF Mishaps, Ended
<1>2. Answer(s, m).handle \in Handles
  BY DEF Answer, Methods, CreateReply, PauseReply, ResumeReply, StopReply,
         RebootReply, KillReply
<1> QED
  BY <1>1, <1>2

\* A driver that takes a reply leaves the host typed.
LEMMA ReceiveTyped ==
    ASSUME HostOK, NEW s \in Sandboxes, NEW r, r.handle \in Handles, Receive(s, r),
           UNCHANGED <<netns, route, rootfs>>
    PROVE  HostOK'
  BY DEF HostOK, Receive

\* So does a network that is set up.
LEMMA RewireTyped ==
    ASSUME HostOK, NEW s \in Sandboxes, NEW n, Rewire(s, n),
           UNCHANGED <<handle, stray, rootfs>>
    PROVE  HostOK'
  BY DEF HostOK, Rewire

\* Every step of a call leaves the host typed.
LEMMA CallHostStep ==
    ASSUME ServiceInv, HostOK, CountsOK, NEW c \in Callers, Step(c)
    PROVE  HostOK' /\ CountsOK'
<1> USE DEF ServiceInv
<1>0. ASSUME NEW kind, At(c, kind)
      PROVE  Box(c) \in Sandboxes
  BY <1>0, HeadTyped DEF At, Box
<1>1. CASE ReadState(c) \/ CompareAndSet(c) \/ Assign(c) \/ Free(c) \/ RecordSnapshot(c)
           \/ DropSnapshots(c) \/ DropRow(c) \/ Reread(c) \/ RefreshAgent(c)
  <2>1. UNCHANGED <<hostVars, used, calls>>
    BY <1>1 DEF ReadState, CompareAndSet, Assign, Free, RecordSnapshot, DropSnapshots,
                DropRow, Reread, RefreshAgent
  <2>2. FaultsOK'
    BY <1>1, FaultTyped
    DEF ReadState, CompareAndSet, Assign, Free, RecordSnapshot, DropSnapshots,
        DropRow, Reread, RefreshAgent, Sound, Broken, CountsOK, FaultsOK
  <2> QED
    BY <2>1, <2>2 DEF HostOK, CountsOK, hostVars
<1>2. CASE PrepareNetwork(c)
  <2>1. HostOK'
    BY <1>0, <1>2, RewireTyped DEF PrepareNetwork, HostOK
  <2> QED
    BY <1>2, <2>1, FaultTyped DEF PrepareNetwork, Sound, Broken, CountsOK, FaultsOK
<1>3. CASE CleanupNetwork(c)
  BY <1>3 DEF CleanupNetwork, HostOK, CountsOK, FaultsOK
<1>4. CASE CallRuntime(c)
  <2>1. Box(c) \in Sandboxes /\ Arg(c) \in Methods
    BY <1>0, <1>4, HeadTyped DEF CallRuntime, At, Arg, Steps
  <2>2. \E r \in Mishaps(Box(c), Arg(c)) \union {Answer(Box(c), Arg(c))} : Receive(Box(c), r)
    BY <1>4 DEF CallRuntime
  <2>3. HostOK'
    BY <1>4, <2>1, <2>2, ReplyTyped, ReceiveTyped DEF CallRuntime
  <2> QED
    BY <1>4, <2>3, FaultTyped DEF CallRuntime, Sound, CountsOK, FaultsOK
<1>5. CASE KillUnready(c)
  <2>1. Box(c) \in Sandboxes /\ "Kill" \in Methods
    BY <1>0, <1>5 DEF KillUnready, Methods
  <2>2. \E r \in Mishaps(Box(c), "Kill") \union {Answer(Box(c), "Kill")} :
            Receive(Box(c), r)
    BY <1>5 DEF KillUnready
  <2>3. HostOK'
    BY <1>5, <2>1, <2>2, ReplyTyped, ReceiveTyped DEF KillUnready
  <2> QED
    BY <1>5, <2>3, FaultTyped DEF KillUnready, CountsOK, FaultsOK
<1>6. CASE EnsureShim(c)
  <2>1. HostOK'
    BY <1>0, <1>6 DEF EnsureShim, HostOK, Handles
  <2> QED
    BY <1>6, <2>1, FaultTyped DEF EnsureShim, Sound, Broken, CountsOK, FaultsOK
<1>7. CASE TerminateShim(c) \/ RemoveDirectory(c)
  <2>1. Box(c) \in Sandboxes
    BY <1>0, <1>7 DEF TerminateShim, RemoveDirectory
  <2>2. HostOK'
    BY <1>7, <2>1 DEF TerminateShim, RemoveDirectory, LoseShim, HostOK, Handles
  <2> QED
    BY <1>7, <2>2, FaultTyped DEF TerminateShim, RemoveDirectory, CountsOK, FaultsOK
<1>8. CASE PrepareFiles(c) \/ MountRootfs(c)
  <2>1. HostOK'
    BY <1>8 DEF PrepareFiles, MountRootfs, SetRootfs, HostOK
  <2> QED
    BY <1>8, <2>1, FaultTyped DEF PrepareFiles, MountRootfs, Sound, Broken, CountsOK, FaultsOK
<1>9. CASE UnmountRootfs(c) \/ RemoveRootfs(c)
  <2>1. Box(c) \in Sandboxes
    BY <1>0, <1>9 DEF UnmountRootfs, RemoveRootfs
  <2>2. HostOK'
    BY <1>9, <2>1 DEF UnmountRootfs, RemoveRootfs, SetRootfs, Unmounted, HostOK
  <2> QED
    BY <1>9, <2>2, FaultTyped DEF UnmountRootfs, RemoveRootfs, Sound, Broken, CountsOK, FaultsOK
<1>10. CASE RollBack(c)
  <2>1. Box(c) \in Sandboxes
    BY <1>10 DEF RollBack, CallsOK, BoxesKnown, Box
  <2>2. HostOK'
    BY <1>10, <2>1 DEF RollBack, SetRootfs, Unmounted, HostOK
  <2> QED
    BY <1>10, <2>2, FaultTyped DEF RollBack, CountsOK, FaultsOK
<1> QED
  BY <1>1, <1>2, <1>3, <1>4, <1>5, <1>6, <1>7, <1>8, <1>9, <1>10 DEF Step

\* All the state of the service is typed, always: in particular a slot that a
\* call remembers stays one of the host's, whatever becomes of the row it is from.
THEOREM ServiceTypes == Spec => []TypeOK
<1> DEFINE HInv == HostOK /\ CountsOK
<1>1. Init => HInv
  BY DEF Init, HostOK, Handles, CountsOK, FaultsOK
<1>2. ServiceInv /\ HInv /\ [Next]_vars => HInv'
  <2> SUFFICES ASSUME ServiceInv, HInv, [Next]_vars PROVE HInv'
    OBVIOUS
  <2>1. ASSUME NEW c \in Callers, NEW op \in Ops, NEW s \in Sandboxes, Begin(c, op, s)
        PROVE  HInv'
    BY <2>1 DEF Begin, HostOK, CountsOK, FaultsOK, hostVars
  <2>2. ASSUME NEW c \in Callers, Cancel(c)
        PROVE  HInv'
    BY <2>2, FaultTyped DEF Cancel, HostOK, CountsOK, hostVars
  <2>3. CASE Crash
    BY <2>3, FaultTyped DEF Crash, HostOK, CountsOK, hostVars
  <2>4. ASSUME NEW s \in Sandboxes, RuntimeExits(s)
        PROVE  HInv'
    BY <2>4, FaultTyped DEF RuntimeExits, HostOK, CountsOK, Handles
  <2>5. CASE UNCHANGED vars \/ Quiet
    BY <2>5 DEF Quiet, vars, hostVars, HostOK, CountsOK, FaultsOK
  <2> QED
    BY <2>1, <2>2, <2>3, <2>4, <2>5, CallHostStep DEF Next
<1>3. ServiceInv /\ HInv => TypeOK
  BY DEF ServiceInv, TypeOK, CallsOK, HostOK, Handles, CountsOK, FaultsOK
<1> QED
  BY <1>1, <1>2, <1>3, ServiceInvariant, PTL DEF Spec
-----------------------------------------------------------------------------
(* How a call goes on.                                                      *)

\* Call c goes on with the steps t, and remembers the state x.
Turns(c, t, x) ==
    /\ call'[c].todo = t
    /\ t # <<>> => call'[c].seen = x /\ call'[c].box = call[c].box /\ call'[c].op = call[c].op
    /\ call'[c] = Idle \/ (call'[c].op = call[c].op /\ call'[c].box = call[c].box)
    /\ call'[c].op = "none" => t = <<>>
    /\ call'[c].cancelled => call[c].cancelled

Passes(c)    == Turns(c, Tail(call[c].todo), call[c].seen)
Recovers(c)  == Err(c) # "ignore" /\ Turns(c, Recovery(Err(c)), call[c].seen)
Looks(c) ==
    /\ At(c, "set") /\ rows[Box(c)] # NoRow /\ rows[Box(c)].state # Arg(c) /\ UNCHANGED rows
    /\ Turns(c, <<Cas(Arg(c), Err(c))>> \o Tail(call[c].todo), rows[Box(c)].state)

\* A fault of this kind cannot happen to call c.
Immune(c, kind) == ~call[c].cancelled /\ kind \notin Faults

\* A call that becomes a record with the steps t keeps its operation and sandbox.
LEMMA BecomeTurns ==
    ASSUME CallsOK, NEW c \in Callers, NEW k \in CallRecords, Become(c, k),
           k.op = call[c].op, k.box = call[c].box, k.cancelled = call[c].cancelled,
           call[c].op # "none"
    PROVE  /\ Turns(c, k.todo, k.seen)
           /\ \A d \in Callers \ {c} : call'[d] = call[d]
<1>1. call'[c] = IF k.todo = <<>> /\ k.undo = "none" THEN Idle ELSE k
  BY DEF Become, CallsOK
<1> QED
  BY <1>1 DEF Become, CallsOK, Turns, Idle

\* A call with steps left is one of an operation.
Serving == \A c \in Callers : call[c].op = "none" => call[c].todo = <<>>

\* A step that succeeds is followed by the next one, a step that fails by its error branch.
LEMMA OutcomeTurns ==
    ASSUME CallsOK, Serving, NEW c \in Callers, call[c].todo # <<>>
    PROVE  /\ Succeed(c) => Passes(c) /\ \A d \in Callers \ {c} : call'[d] = call[d]
           /\ Fail(c) => /\ (Passes(c) /\ Err(c) = "ignore") \/ Recovers(c)
                         /\ \A d \in Callers \ {c} : call'[d] = call[d]
<1>1. call[c].op # "none" /\ call[c] \in CallRecords /\ Stepped(c) \in CallRecords
  BY HeadTyped DEF Serving, CallsOK, Continuations
<1>2. ASSUME Succeed(c)
      PROVE  Passes(c) /\ \A d \in Callers \ {c} : call'[d] = call[d]
  <2>1. Stepped(c).op = call[c].op /\ Stepped(c).box = call[c].box /\ Stepped(c).seen = call[c].seen
        /\ Stepped(c).cancelled = call[c].cancelled /\ Stepped(c).todo = Tail(call[c].todo)
    BY <1>1 DEF Stepped, CallRecords
  <2> QED  BY <1>1, <1>2, <2>1, BecomeTurns DEF Succeed, Passes
<1>3. ASSUME Fail(c)
      PROVE  ((Passes(c) /\ Err(c) = "ignore") \/ Recovers(c)) /\ \A d \in Callers \ {c} : call'[d] = call[d]
  <2> DEFINE rest == IF Err(c) = "ignore" THEN Tail(call[c].todo) ELSE Recovery(Err(c))
             k == [call[c] EXCEPT !.todo = rest]
  <2>1. rest \in Seq(Steps)
    BY HeadTyped, RecoveryTypes
  <2> HIDE DEF rest
  <2>2. k \in CallRecords /\ k.todo = rest /\ k.seen = call[c].seen /\ k.cancelled = call[c].cancelled
        /\ k.op = call[c].op /\ k.box = call[c].box
    BY <1>1, <2>1 DEF CallRecords
  <2>3. Become(c, k)
    BY <1>3 DEF Fail, rest
  <2> HIDE DEF k
  <2>4. Turns(c, rest, call[c].seen) /\ \A d \in Callers \ {c} : call'[d] = call[d]
    BY <1>1, <2>2, <2>3, BecomeTurns
  <2> QED  BY <2>4 DEF Passes, Recovers, rest
<1> QED  BY <1>2, <1>3

\* The states of the rows after a step of c: those of before, but at a write.
SameStates == \A s \in Sandboxes : rows'[s].state = rows[s].state
Moves(c)   == /\ rows' = [rows EXCEPT ![Box(c)].state = Arg(c)] /\ rows[Box(c)].state = call[c].seen

\* Every step of a call passes on, goes to its error branch, or has read a row; and only a
\* compare-and-set and the deletion write states.
LEMMA StepTurns ==
    ASSUME ServiceInv, Serving, NEW c \in Callers, Step(c)
    PROVE  /\ \A d \in Callers \ {c} : call'[d] = call[d]
           /\ \/ call[c].todo = <<>> /\ call'[c] = Idle /\ UNCHANGED storeVars
              \/ /\ call[c].todo # <<>>
                 /\ \/ Passes(c) /\ Head(call[c].todo).do \notin {"set", "cas", "delrow"} /\ SameStates
                    \/ Passes(c) /\ At(c, "delrow") /\ rows' = [rows EXCEPT ![Box(c)] = NoRow]
                    \/ Passes(c) /\ At(c, "cas") /\ Moves(c)
                    \/ Passes(c) /\ At(c, "set") /\ rows[Box(c)].state = Arg(c) /\ UNCHANGED rows
                    \/ Passes(c) /\ Err(c) = "ignore" /\ ~Immune(c, "db") /\ UNCHANGED rows
                    \/ Passes(c) /\ Err(c) = "ignore" /\ At(c, "set") /\ rows[Box(c)] = NoRow /\ UNCHANGED rows
                    \/ /\ Passes(c) /\ Err(c) = "ignore" /\ At(c, "cas") /\ rows[Box(c)].state # call[c].seen
                       /\ UNCHANGED rows
                    \/ /\ Recovers(c) /\ UNCHANGED rows
                       /\ Head(call[c].todo).do \in {"snapshot", "free", "delsnaps"} => ~Immune(c, "db")
                       /\ At(c, "set") => ~Immune(c, "db") \/ rows[Box(c)] = NoRow
                       /\ At(c, "cas") => ~Immune(c, "db") \/ rows[Box(c)].state # call[c].seen
                    \/ Looks(c)
<1> USE DEF ServiceInv
<1>0. ASSUME NEW kind, At(c, kind)
      PROVE  /\ call[c].todo # <<>> /\ Box(c) \in Sandboxes /\ call[c].op # "none"
             /\ call[c] \in CallRecords /\ Stepped(c) \in CallRecords
             /\ Stepped(c).op = call[c].op /\ Stepped(c).box = call[c].box /\ Stepped(c).seen = call[c].seen
             /\ Stepped(c).cancelled = call[c].cancelled /\ Stepped(c).todo = Tail(call[c].todo)
  <2>1. call[c].todo # <<>> /\ Box(c) \in Sandboxes /\ call[c].op # "none" /\ call[c] \in CallRecords
        /\ Stepped(c) \in CallRecords
    BY <1>0, HeadTyped DEF At, Box, Serving, Continuations, CallsOK
  <2> QED  BY <2>1 DEF Stepped, CallRecords
<1>r. Box(c) \in Sandboxes => rows[Box(c)] \in RowRecords \union {NoRow} /\ DOMAIN rows = Sandboxes
  BY DEF StoreTypeOK, RowRecords
<1>1. CASE PrepareNetwork(c) \/ CleanupNetwork(c) \/ CallRuntime(c) \/ KillUnready(c) \/ EnsureShim(c)
           \/ TerminateShim(c) \/ RemoveDirectory(c) \/ RefreshAgent(c) \/ UnmountRootfs(c) \/ RemoveRootfs(c)
           \/ Reread(c)
  <2>1. UNCHANGED storeVars /\ (Succeed(c) \/ Fail(c))
        /\ \E kind \in {"net", "cleanup", "rpc", "bgkill", "shim", "terminate", "rmdir", "agent",
                        "unmount", "remove", "reread"} : At(c, kind)
    BY <1>1 DEF PrepareNetwork, CleanupNetwork, CallRuntime, KillUnready, EnsureShim, TerminateShim,
                RemoveDirectory, RefreshAgent, UnmountRootfs, RemoveRootfs, Reread
  <2> QED  BY <1>0, <2>1, OutcomeTurns DEF At, storeVars, SameStates
<1>2. CASE ReadState(c)
  <2>1. CASE rows[Box(c)] # NoRow /\ rows[Box(c)].state # Arg(c)
             /\ Become(c, [call[c] EXCEPT !.seen = rows[Box(c)].state,
                                          !.todo = <<Cas(Arg(c), Err(c))>> \o Tail(@)])
    <3> DEFINE rest == <<Cas(Arg(c), Err(c))>> \o Tail(call[c].todo)
               k == [call[c] EXCEPT !.seen = rows[Box(c)].state, !.todo = rest]
    <3>0. Head(call[c].todo) \in Steps /\ Arg(c) \in States /\ Err(c) \in Errors
      BY <1>0, <1>2, HeadTyped DEF ReadState, At, Arg, Steps
    <3>1. <<Cas(Arg(c), Err(c))>> \in Seq(Steps) /\ Tail(call[c].todo) \in Seq(Steps)
      BY <1>0, <1>2, <3>0, HeadTyped, StepTypes DEF ReadState
    <3>2. rest \in Seq(Steps)
      BY <3>1, ConcatProperties
    <3>3. rows[Box(c)].state \in States
      BY <1>0, <1>r, <1>2, <2>1 DEF RowRecords, ReadState
    <3> HIDE DEF rest
    <3>4. k \in CallRecords /\ k.todo = rest /\ k.seen = rows[Box(c)].state
          /\ k.op = call[c].op /\ k.box = call[c].box /\ k.cancelled = call[c].cancelled
      BY <1>0, <1>2, <3>2, <3>3 DEF ReadState, CallRecords
    <3>5. Become(c, k)
      BY <2>1 DEF rest
    <3> HIDE DEF k
    <3>6. Turns(c, rest, rows[Box(c)].state) /\ \A d \in Callers \ {c} : call'[d] = call[d]
      BY <1>0, <1>2, <3>4, <3>5, BecomeTurns DEF ReadState
    <3> QED  BY <1>0, <1>2, <2>1, <3>6 DEF ReadState, storeVars, Looks, rest
  <2>2. CASE rows[Box(c)].state = Arg(c)
             /\ Become(c, [Stepped(c) EXCEPT !.undo = IF Arg(c) = "running" THEN "none" ELSE @])
    <3> DEFINE k == [Stepped(c) EXCEPT !.undo = IF Arg(c) = "running" THEN "none" ELSE @]
    <3>1. k \in CallRecords /\ k.todo = Tail(call[c].todo) /\ k.seen = call[c].seen
          /\ k.op = call[c].op /\ k.box = call[c].box /\ k.cancelled = call[c].cancelled
      BY <1>0, <1>2 DEF ReadState, CallRecords
    <3>2. Become(c, k)
      BY <2>2
    <3> HIDE DEF k
    <3> QED  BY <1>0, <1>2, <2>2, <3>1, <3>2, BecomeTurns DEF ReadState, Passes, storeVars
  <2>3. CASE Fail(c) /\ (rows[Box(c)] = NoRow \/ Broken(c, "db"))
    <3>1. ((Passes(c) /\ Err(c) = "ignore") \/ Recovers(c)) /\ \A d \in Callers \ {c} : call'[d] = call[d]
      BY <1>0, <1>2, <2>3, OutcomeTurns DEF ReadState
    <3>2. At(c, "set") /\ UNCHANGED rows /\ call[c].todo # <<>>
      BY <1>0, <1>2 DEF ReadState, storeVars
    <3>3. Broken(c, "db") => ~Immune(c, "db")
      BY DEF Broken, Fault, Immune
    <3> QED  BY <2>3, <3>1, <3>2, <3>3 DEF At
  <2> QED  BY <1>2, <2>1, <2>2, <2>3 DEF ReadState
<1>3. CASE CompareAndSet(c)
  <2>1. CASE UpdateState(Box(c), call[c].seen, Arg(c))
             /\ Become(c, [Stepped(c) EXCEPT !.undo = IF Arg(c) = "running" THEN "none" ELSE @])
    <3> DEFINE k == [Stepped(c) EXCEPT !.undo = IF Arg(c) = "running" THEN "none" ELSE @]
    <3>1. k \in CallRecords /\ k.todo = Tail(call[c].todo) /\ k.seen = call[c].seen
          /\ k.op = call[c].op /\ k.box = call[c].box /\ k.cancelled = call[c].cancelled
      BY <1>0, <1>3 DEF CompareAndSet, CallRecords
    <3>2. Become(c, k)
      BY <2>1
    <3> HIDE DEF k
    <3> QED  BY <1>0, <1>3, <2>1, <3>1, <3>2, BecomeTurns DEF CompareAndSet, Passes, Moves, UpdateState
  <2>2. CASE Fail(c) /\ UNCHANGED storeVars /\ (rows[Box(c)].state # call[c].seen \/ Broken(c, "db"))
    <3>1. ((Passes(c) /\ Err(c) = "ignore") \/ Recovers(c)) /\ \A d \in Callers \ {c} : call'[d] = call[d]
      BY <1>0, <1>3, <2>2, OutcomeTurns DEF CompareAndSet
    <3>2. At(c, "cas") /\ UNCHANGED rows /\ call[c].todo # <<>>
      BY <1>0, <1>3, <2>2 DEF CompareAndSet, storeVars
    <3>3. Broken(c, "db") => ~Immune(c, "db")
      BY DEF Broken, Fault, Immune
    <3> QED  BY <2>2, <3>1, <3>2, <3>3 DEF At
  <2> QED  BY <1>3, <2>1, <2>2 DEF CompareAndSet
<1>4. CASE Assign(c)
  <2>1. CASE AssignSlot(Box(c)) /\ Become(c, [Stepped(c) EXCEPT !.slot = rows'[Box(c)].slot])
    <3> DEFINE k == [Stepped(c) EXCEPT !.slot = rows'[Box(c)].slot]
    <3>0. StoreTypeOK'
      BY <1>0, <1>4, ServiceStep, StoreTypeStep DEF Next
    <3>1. k \in CallRecords /\ k.todo = Tail(call[c].todo) /\ k.seen = call[c].seen
          /\ k.op = call[c].op /\ k.box = call[c].box /\ k.cancelled = call[c].cancelled
      BY SMTT(30), <1>0, <1>4, <3>0, MaxSlotAssumption DEF Assign, CallRecords, StoreTypeOK, NoRow
    <3>2. Become(c, k)
      BY <2>1
    <3>3. SameStates
      BY <1>r, <2>1, <1>0, <1>4 DEF AssignSlot, SameStates, Assign, StoreTypeOK, NoRow
    <3> HIDE DEF k
    <3> QED  BY <1>0, <1>4, <3>1, <3>2, <3>3, BecomeTurns DEF Assign, Passes, At
  <2>2. CASE Fail(c) /\ UNCHANGED storeVars
    <3>1. At(c, "assign") /\ call[c].todo # <<>>
      BY <1>0, <1>4 DEF Assign
    <3> QED  BY <2>2, <3>1, OutcomeTurns DEF At, storeVars, SameStates
  <2> QED  BY <1>4, <2>1, <2>2 DEF Assign
<1>5. CASE Free(c) \/ RecordSnapshot(c) \/ DropSnapshots(c)
  <2>1. /\ call[c].todo # <<>> /\ Box(c) \in Sandboxes
        /\ Head(call[c].todo).do \in {"free", "snapshot", "delsnaps"}
    BY <1>0, <1>5 DEF Free, RecordSnapshot, DropSnapshots, At
  <2>2. CASE Succeed(c)
    <3>1. SameStates
      <4>1. UNCHANGED rows \/ rows' = [rows EXCEPT ![Box(c)].slot = 0]
        BY <1>5 DEF Free, RecordSnapshot, DropSnapshots, FreeSlot, InsertSnapshot, DeleteSnapshots, storeVars
      <4> QED  BY <1>r, <2>1, <4>1 DEF SameStates, StoreTypeOK, NoRow
    <3> QED  BY <2>1, <2>2, <3>1, OutcomeTurns
  <2>3. CASE Fail(c) /\ UNCHANGED storeVars /\ Broken(c, "db")
    BY <2>1, <2>3, OutcomeTurns DEF At, storeVars, Broken, Fault, Immune
  <2> QED  BY <1>5, <2>2, <2>3 DEF Free, RecordSnapshot, DropSnapshots
<1>6. CASE DropRow(c)
  <2>1. call[c].todo # <<>> /\ Box(c) \in Sandboxes /\ At(c, "delrow")
    BY <1>0, <1>6 DEF DropRow
  <2>2. CASE DeleteRow(Box(c)) /\ Succeed(c)
    BY <2>1, <2>2, OutcomeTurns DEF DeleteRow
  <2>3. CASE Fail(c) /\ UNCHANGED storeVars /\ ~HasRow(Box(c))
    <3>1. Recovers(c) \/ (Passes(c) /\ Err(c) = "ignore")
      BY <2>1, <2>3, OutcomeTurns
    <3>2. rows' = [rows EXCEPT ![Box(c)] = NoRow]
      BY <1>r, <2>1, <2>3 DEF HasRow, storeVars, StoreTypeOK
    <3> QED  BY <2>1, <2>3, <3>1, <3>2, OutcomeTurns DEF At, storeVars
  <2>4. CASE Fail(c) /\ UNCHANGED storeVars /\ Broken(c, "db")
    BY <2>1, <2>4, OutcomeTurns DEF At, storeVars, Broken, Fault, Immune
  <2> QED  BY <1>6, <2>2, <2>3, <2>4 DEF DropRow
<1>7. CASE PrepareFiles(c) \/ MountRootfs(c)
  <2>1. call[c].todo # <<>> /\ Head(call[c].todo).do \in {"files", "mount"} /\ UNCHANGED storeVars
    BY <1>0, <1>7 DEF PrepareFiles, MountRootfs, At
  <2>2. CASE \E u \in {"remove", "unmount"} : Become(c, [Stepped(c) EXCEPT !.undo = u])
    <3> PICK u \in {"remove", "unmount"} : Become(c, [Stepped(c) EXCEPT !.undo = u])
      BY <2>2
    <3> DEFINE k == [Stepped(c) EXCEPT !.undo = u]
    <3>1. k \in CallRecords /\ k.todo = Tail(call[c].todo) /\ k.seen = call[c].seen
          /\ k.op = call[c].op /\ k.box = call[c].box /\ k.cancelled = call[c].cancelled
      BY <1>0, <1>7 DEF PrepareFiles, MountRootfs, CallRecords
    <3>2. Become(c, k)
      OBVIOUS
    <3> HIDE DEF k
    <3>3. call[c].op # "none"
      BY <1>0, <1>7 DEF PrepareFiles, MountRootfs
    <3> QED  BY <2>1, <3>1, <3>2, <3>3, BecomeTurns DEF Passes, storeVars, SameStates
  <2>3. CASE Succeed(c) \/ Fail(c)
    BY <2>1, <2>3, OutcomeTurns DEF At, storeVars, SameStates
  <2> QED  BY <1>7, <2>2, <2>3 DEF PrepareFiles, MountRootfs
<1>8. CASE RollBack(c)
  BY <1>8 DEF RollBack, CallsOK
<1> QED  BY <1>1, <1>2, <1>3, <1>4, <1>5, <1>6, <1>7, <1>8 DEF Step
-----------------------------------------------------------------------------
(* Lists of steps.                                                          *)

\* A step that writes a state; one that opens a transition, and one that ends it.
Writes(x)  == x.do \in {"set", "cas"}
Opens(x)   == Writes(x) /\ x.arg \in Transitional
Settles(x) == Writes(x) /\ x.arg \notin Transitional

\* A step between the two: if it fails, the handler goes on to write failed.
SetSafe(x) == ~Writes(x) /\ (x.do = "snapshot" \/ x.err \in {"ignore", "setFailed", "setAbandon"})
CasSafe(x) == ~Writes(x) /\ x.err \in {"ignore", "casFailed", "casAbandon", "killAbandon"}

\* A list that ends a transition whatever happens on the way: with a setSandboxState,
\* which reads the state first, or by comparing with the state that was seen.
SetAhead(q) == \E i \in DOMAIN q :
    q[i].do = "set" /\ Settles(q[i]) /\ \A j \in 1..i - 1 : SetSafe(q[j])
CasAhead(q) == \E i \in DOMAIN q :
    q[i].do = "cas" /\ Settles(q[i]) /\ \A j \in 1..i - 1 : CasSafe(q[j])

\* The transitions that always end.
Ending(s) == Transitional \ {x \in {"killing"} : s \in Containers}

\* Only the first step of a list opens a transition, and the rest of it ends it.
Careful(s, q) ==
    /\ \A i \in DOMAIN q : i > 1 => ~Opens(q[i])
    /\ q # <<>> /\ Opens(q[1]) /\ q[1].arg \in Ending(s) => SetAhead(Tail(q))

\* The lists of the handlers and of the error branches, written out.
PauseList ==
  <<Set("pausing", "return"), Rpc("Pause", "setFailed"), Do("snapshot", "return"),
    Set("paused", "return"), Do("cleanup", "return"), Do("free", "return")>>
StartList ==
  <<Set("starting", "return"), Do("assign", "setFailed"), Do("net", "setAbandon"),
    Rpc("Start", "setAbandon"), Do("agent", "setAbandon"), Set("running", "return")>>
BootList ==
  <<Set("starting", "return"), Do("assign", "setFailed"), Do("mount", "setAbandon"),
    Do("net", "setAbandon"), Rpc("Start", "setAbandon"), Do("agent", "setAbandon"),
    Set("running", "return")>>
StopList ==
  <<Set("stopping", "return"), Rpc("Stop", "setFailed"), Set("stopped", "return"),
    Do("cleanup", "return"), Do("free", "return")>>
HaltList ==
  <<Set("stopping", "return"), Rpc("Stop", "setFailed"), Set("stopped", "return"),
    Do("cleanup", "return"), Do("free", "return"), Do("reread", "return"), Do("unmount", "return")>>
KillList ==
  <<Set("killing", "return"), Rpc("Kill", "ignore"), Do("terminate", "ignore"),
    Set("killed", "return"), Do("delsnaps", "return"), Do("delrow", "return"),
    Do("rmdir", "return"), Do("cleanup", "ignore"), Do("free", "ignore")>>
EndList ==
  <<Set("killing", "return"), Rpc("Kill", "ignore"), Do("terminate", "ignore"),
    Do("remove", "return"), Set("killed", "return"), Do("delsnaps", "return"),
    Do("delrow", "return"), Do("rmdir", "return"), Do("cleanup", "ignore"), Do("free", "ignore")>>
FailList ==
  <<Set("failed", "ignore"), Do("cleanup", "ignore"), Do("free", "ignore")>>
DropList ==
  <<Cas("failed", "ignore"), Do("cleanup", "ignore"), Do("free", "ignore")>>
QuitList ==
  <<Do("bgkill", "ignore"), Cas("failed", "ignore"), Do("cleanup", "ignore"), Do("free", "ignore")>>

\* That is what they are.
LEMMA Written ==
    /\ PauseSteps = PauseList
    /\ \A s \in Sandboxes : /\ StartSteps(s) = IF s \in Containers THEN BootList ELSE StartList
                            /\ StopSteps(s) = IF s \in Containers THEN HaltList ELSE StopList
                            /\ KillSteps(s) = IF s \in Containers THEN EndList ELSE KillList
    /\ Recovery("setAbandon") = FailList
    /\ Recovery("casAbandon") = DropList
    /\ Recovery("killAbandon") = QuitList
<1> USE StepTypes DEF Errors, Methods, States
<1>1. PauseSteps = PauseList
  <2> DEFINE p == PauseSteps
  <2>1. /\ <<Set("pausing", "return"), Rpc("Pause", "setFailed"), Do("snapshot", "return"),
           Set("paused", "return")>> \in Seq(Steps)
        /\ <<Do("cleanup", "return"), Do("free", "return")>> \in Seq(Steps)
    OBVIOUS
  <2>2. /\ p \in Seq(Steps) /\ Len(p) = 6
        /\ p[1] = Set("pausing", "return") /\ p[2] = Rpc("Pause", "setFailed")
        /\ p[3] = Do("snapshot", "return")
        /\ p[4] = Set("paused", "return") /\ p[5] = Do("cleanup", "return") /\ p[6] = Do("free", "return")
    BY <2>1, EmptySeq, ConcatProperties DEF PauseSteps, Release
  <2> HIDE DEF p
  <2>3. p = PauseList
    BY <2>2 DEF PauseList
  <2> QED  BY <2>3 DEF p
<1>2. ASSUME NEW s \in Sandboxes, s \notin Containers
      PROVE  StartSteps(s) = StartList
  <2> DEFINE p == StartSteps(s)
  <2>1. /\ <<Set("starting", "return"), Do("assign", "setFailed")>> \in Seq(Steps)
        /\ <<Do("net", "setAbandon"), Rpc("Start", "setAbandon"), Do("agent", "setAbandon"),
           Set("running", "return")>> \in Seq(Steps)
    OBVIOUS
  <2>2. /\ p \in Seq(Steps) /\ Len(p) = 6
        /\ p[1] = Set("starting", "return") /\ p[2] = Do("assign", "setFailed")
        /\ p[3] = Do("net", "setAbandon")
        /\ p[4] = Rpc("Start", "setAbandon") /\ p[5] = Do("agent", "setAbandon")
        /\ p[6] = Set("running", "return")
    BY <1>2, <2>1, EmptySeq, ConcatProperties DEF StartSteps
  <2> HIDE DEF p
  <2>3. p = StartList
    BY <2>2 DEF StartList
  <2> QED  BY <2>3 DEF p
<1>3. ASSUME NEW s \in Sandboxes, s \in Containers
      PROVE  StartSteps(s) = BootList
  <2> DEFINE p == StartSteps(s)
  <2>1. /\ <<Set("starting", "return"), Do("assign", "setFailed")>> \in Seq(Steps)
        /\ <<Do("mount", "setAbandon")>> \in Seq(Steps)
        /\ <<Do("net", "setAbandon"), Rpc("Start", "setAbandon"), Do("agent", "setAbandon"),
           Set("running", "return")>> \in Seq(Steps)
    OBVIOUS
  <2>2. /\ p \in Seq(Steps) /\ Len(p) = 7
        /\ p[1] = Set("starting", "return") /\ p[2] = Do("assign", "setFailed")
        /\ p[3] = Do("mount", "setAbandon")
        /\ p[4] = Do("net", "setAbandon") /\ p[5] = Rpc("Start", "setAbandon")
        /\ p[6] = Do("agent", "setAbandon")
        /\ p[7] = Set("running", "return")
    BY <1>3, <2>1, EmptySeq, ConcatProperties DEF StartSteps
  <2> HIDE DEF p
  <2>3. p = BootList
    BY <2>2 DEF BootList
  <2> QED  BY <2>3 DEF p
<1>4. ASSUME NEW s \in Sandboxes, s \notin Containers
      PROVE  StopSteps(s) = StopList
  <2> DEFINE p == StopSteps(s)
  <2>1. /\ <<Set("stopping", "return"), Rpc("Stop", "setFailed"), Set("stopped", "return")>> \in Seq(Steps)
        /\ <<Do("cleanup", "return"), Do("free", "return")>> \in Seq(Steps)
    OBVIOUS
  <2>2. /\ p \in Seq(Steps) /\ Len(p) = 5
        /\ p[1] = Set("stopping", "return") /\ p[2] = Rpc("Stop", "setFailed")
        /\ p[3] = Set("stopped", "return")
        /\ p[4] = Do("cleanup", "return") /\ p[5] = Do("free", "return")
    BY <1>4, <2>1, EmptySeq, ConcatProperties DEF StopSteps, Release
  <2> HIDE DEF p
  <2>3. p = StopList
    BY <2>2 DEF StopList
  <2> QED  BY <2>3 DEF p
<1>5. ASSUME NEW s \in Sandboxes, s \in Containers
      PROVE  StopSteps(s) = HaltList
  <2> DEFINE p == StopSteps(s)
  <2>1. /\ <<Set("stopping", "return"), Rpc("Stop", "setFailed"), Set("stopped", "return")>> \in Seq(Steps)
        /\ <<Do("cleanup", "return"), Do("free", "return")>> \in Seq(Steps)
        /\ <<Do("reread", "return"), Do("unmount", "return")>> \in Seq(Steps)
    OBVIOUS
  <2>2. /\ p \in Seq(Steps) /\ Len(p) = 7
        /\ p[1] = Set("stopping", "return") /\ p[2] = Rpc("Stop", "setFailed")
        /\ p[3] = Set("stopped", "return")
        /\ p[4] = Do("cleanup", "return") /\ p[5] = Do("free", "return") /\ p[6] = Do("reread", "return")
        /\ p[7] = Do("unmount", "return")
    BY <1>5, <2>1, EmptySeq, ConcatProperties DEF StopSteps, Release
  <2> HIDE DEF p
  <2>3. p = HaltList
    BY <2>2 DEF HaltList
  <2> QED  BY <2>3 DEF p
<1>6. ASSUME NEW s \in Sandboxes, s \notin Containers
      PROVE  KillSteps(s) = KillList
  <2> DEFINE p == KillSteps(s)
  <2>1. /\ <<Set("killing", "return"), Rpc("Kill", "ignore"), Do("terminate", "ignore")>> \in Seq(Steps)
        /\ <<Set("killed", "return"), Do("delsnaps", "return"), Do("delrow", "return"),
           Do("rmdir", "return")>> \in Seq(Steps)
        /\ <<Do("cleanup", "ignore"), Do("free", "ignore")>> \in Seq(Steps)
    OBVIOUS
  <2>2. /\ p \in Seq(Steps) /\ Len(p) = 9
        /\ p[1] = Set("killing", "return") /\ p[2] = Rpc("Kill", "ignore") /\ p[3] = Do("terminate", "ignore")
        /\ p[4] = Set("killed", "return") /\ p[5] = Do("delsnaps", "return") /\ p[6] = Do("delrow", "return")
        /\ p[7] = Do("rmdir", "return") /\ p[8] = Do("cleanup", "ignore") /\ p[9] = Do("free", "ignore")
    BY <1>6, <2>1, EmptySeq, ConcatProperties DEF KillSteps, Release
  <2> HIDE DEF p
  <2>3. p = KillList
    BY <2>2 DEF KillList
  <2> QED  BY <2>3 DEF p
<1>7. ASSUME NEW s \in Sandboxes, s \in Containers
      PROVE  KillSteps(s) = EndList
  <2> DEFINE p == KillSteps(s)
  <2>1. /\ <<Set("killing", "return"), Rpc("Kill", "ignore"), Do("terminate", "ignore")>> \in Seq(Steps)
        /\ <<Do("remove", "return")>> \in Seq(Steps)
        /\ <<Set("killed", "return"), Do("delsnaps", "return"), Do("delrow", "return"),
           Do("rmdir", "return")>> \in Seq(Steps)
        /\ <<Do("cleanup", "ignore"), Do("free", "ignore")>> \in Seq(Steps)
    OBVIOUS
  <2>2. /\ p \in Seq(Steps) /\ Len(p) = 10
        /\ p[1] = Set("killing", "return") /\ p[2] = Rpc("Kill", "ignore") /\ p[3] = Do("terminate", "ignore")
        /\ p[4] = Do("remove", "return") /\ p[5] = Set("killed", "return") /\ p[6] = Do("delsnaps", "return")
        /\ p[7] = Do("delrow", "return") /\ p[8] = Do("rmdir", "return") /\ p[9] = Do("cleanup", "ignore")
        /\ p[10] = Do("free", "ignore")
    BY <1>7, <2>1, EmptySeq, ConcatProperties DEF KillSteps, Release
  <2> HIDE DEF p
  <2>3. p = EndList
    BY <2>2 DEF EndList
  <2> QED  BY <2>3 DEF p
<1>8. Recovery("setAbandon") = FailList
  <2> DEFINE p == Recovery("setAbandon")
  <2>1. /\ <<Set("failed", "ignore")>> \in Seq(Steps)
        /\ <<Do("cleanup", "ignore"), Do("free", "ignore")>> \in Seq(Steps)
    OBVIOUS
  <2>2. /\ p \in Seq(Steps) /\ Len(p) = 3
        /\ p[1] = Set("failed", "ignore") /\ p[2] = Do("cleanup", "ignore") /\ p[3] = Do("free", "ignore")
    BY <2>1, EmptySeq, ConcatProperties DEF Recovery, Release
  <2> HIDE DEF p
  <2>3. p = FailList
    BY <2>2 DEF FailList
  <2> QED  BY <2>3 DEF p
<1>9. Recovery("casAbandon") = DropList
  <2> DEFINE p == Recovery("casAbandon")
  <2>1. /\ <<Cas("failed", "ignore")>> \in Seq(Steps)
        /\ <<Do("cleanup", "ignore"), Do("free", "ignore")>> \in Seq(Steps)
    OBVIOUS
  <2>2. /\ p \in Seq(Steps) /\ Len(p) = 3
        /\ p[1] = Cas("failed", "ignore") /\ p[2] = Do("cleanup", "ignore") /\ p[3] = Do("free", "ignore")
    BY <2>1, EmptySeq, ConcatProperties DEF Recovery, Release
  <2> HIDE DEF p
  <2>3. p = DropList
    BY <2>2 DEF DropList
  <2> QED  BY <2>3 DEF p
<1>10. Recovery("killAbandon") = QuitList
  <2> DEFINE p == Recovery("killAbandon")
  <2>1. /\ <<Do("bgkill", "ignore"), Cas("failed", "ignore")>> \in Seq(Steps)
        /\ <<Do("cleanup", "ignore"), Do("free", "ignore")>> \in Seq(Steps)
    OBVIOUS
  <2>2. /\ p \in Seq(Steps) /\ Len(p) = 4
        /\ p[1] = Do("bgkill", "ignore") /\ p[2] = Cas("failed", "ignore") /\ p[3] = Do("cleanup", "ignore")
        /\ p[4] = Do("free", "ignore")
    BY <2>1, EmptySeq, ConcatProperties DEF Recovery, Release
  <2> HIDE DEF p
  <2>3. p = QuitList
    BY <2>2 DEF QuitList
  <2> QED  BY <2>3 DEF p
<1> QED  BY <1>1, <1>2, <1>3, <1>4, <1>5, <1>6, <1>7, <1>8, <1>9, <1>10
\* They are lists of steps.
LEMMA ListTypes ==
    /\ PauseList \in Seq(Steps) /\ Len(PauseList) = 6 /\ DOMAIN PauseList = 1..6
    /\ ResumeSteps \in Seq(Steps) /\ Len(ResumeSteps) = 6 /\ DOMAIN ResumeSteps = 1..6
    /\ StartList \in Seq(Steps) /\ Len(StartList) = 6 /\ DOMAIN StartList = 1..6
    /\ BootList \in Seq(Steps) /\ Len(BootList) = 7 /\ DOMAIN BootList = 1..7
    /\ StopList \in Seq(Steps) /\ Len(StopList) = 5 /\ DOMAIN StopList = 1..5
    /\ HaltList \in Seq(Steps) /\ Len(HaltList) = 7 /\ DOMAIN HaltList = 1..7
    /\ RebootSteps \in Seq(Steps) /\ Len(RebootSteps) = 3 /\ DOMAIN RebootSteps = 1..3
    /\ KillList \in Seq(Steps) /\ Len(KillList) = 9 /\ DOMAIN KillList = 1..9
<1> USE StepTypes DEF Errors, Methods, States
<1>1. PauseList \in Seq(Steps) /\ Len(PauseList) = 6 /\ DOMAIN PauseList = 1..6
  BY DEF PauseList
<1>2. ResumeSteps \in Seq(Steps) /\ Len(ResumeSteps) = 6 /\ DOMAIN ResumeSteps = 1..6
  BY DEF ResumeSteps
<1>3. StartList \in Seq(Steps) /\ Len(StartList) = 6 /\ DOMAIN StartList = 1..6
  BY DEF StartList
<1>4. BootList \in Seq(Steps) /\ Len(BootList) = 7 /\ DOMAIN BootList = 1..7
  BY DEF BootList
<1>5. StopList \in Seq(Steps) /\ Len(StopList) = 5 /\ DOMAIN StopList = 1..5
  BY DEF StopList
<1>6. HaltList \in Seq(Steps) /\ Len(HaltList) = 7 /\ DOMAIN HaltList = 1..7
  BY DEF HaltList
<1>7. RebootSteps \in Seq(Steps) /\ Len(RebootSteps) = 3 /\ DOMAIN RebootSteps = 1..3
  BY DEF RebootSteps
<1>8. KillList \in Seq(Steps) /\ Len(KillList) = 9 /\ DOMAIN KillList = 1..9
  BY DEF KillList
<1> QED  BY <1>1, <1>2, <1>3, <1>4, <1>5, <1>6, <1>7, <1>8

-----------------------------------------------------------------------------
(* A transition ends.                                                       *)

\* The rest of a list that ends a transition, after a step that does not.
LEMMA AheadTail ==
    ASSUME NEW q \in Seq(Steps)
    PROVE  /\ SetAhead(q) => \/ q # <<>> /\ q[1].do = "set" /\ Settles(q[1])
                             \/ q # <<>> /\ SetSafe(q[1]) /\ SetAhead(Tail(q))
           /\ CasAhead(q) => \/ q # <<>> /\ q[1].do = "cas" /\ Settles(q[1])
                             \/ q # <<>> /\ CasSafe(q[1]) /\ CasAhead(Tail(q))
<1>0. Len(q) \in Nat /\ DOMAIN q = 1..Len(q)
  BY LenProperties
<1>t. q # <<>> => /\ Len(Tail(q)) = Len(q) - 1 /\ DOMAIN Tail(q) = 1..Len(q) - 1
                  /\ \A i \in 1..Len(q) - 1 : Tail(q)[i] = q[i + 1]
  BY HeadTailProperties, LenProperties
<1>1. ASSUME SetAhead(q)
      PROVE  \/ q # <<>> /\ q[1].do = "set" /\ Settles(q[1])
             \/ q # <<>> /\ SetSafe(q[1]) /\ SetAhead(Tail(q))
  <2>1. PICK i \in DOMAIN q : q[i].do = "set" /\ Settles(q[i]) /\ \A j \in 1..i - 1 : SetSafe(q[j])
    BY <1>1 DEF SetAhead
  <2>2. q # <<>>
    BY <1>0, <2>1
  <2>3. CASE i = 1
    BY <2>1, <2>2, <2>3
  <2>4. CASE i # 1
    <3>1. i - 1 \in 1..Len(q) - 1 /\ Tail(q)[i - 1] = q[i]
      BY <1>0, <1>t, <2>1, <2>2, <2>4
    <3>2. \A j \in 1..(i - 1) - 1 : SetSafe(Tail(q)[j])
      BY <1>0, <1>t, <2>1, <2>2, <2>4
    <3>3. SetSafe(q[1])
      BY <1>0, <2>1, <2>4
    <3> QED  BY <1>t, <2>1, <2>2, <3>1, <3>2, <3>3 DEF SetAhead
  <2> QED  BY <2>3, <2>4
<1>2. ASSUME CasAhead(q)
      PROVE  \/ q # <<>> /\ q[1].do = "cas" /\ Settles(q[1])
             \/ q # <<>> /\ CasSafe(q[1]) /\ CasAhead(Tail(q))
  <2>1. PICK i \in DOMAIN q : q[i].do = "cas" /\ Settles(q[i]) /\ \A j \in 1..i - 1 : CasSafe(q[j])
    BY <1>2 DEF CasAhead
  <2>2. q # <<>>
    BY <1>0, <2>1
  <2>3. CASE i = 1
    BY <2>1, <2>2, <2>3
  <2>4. CASE i # 1
    <3>1. i - 1 \in 1..Len(q) - 1 /\ Tail(q)[i - 1] = q[i]
      BY <1>0, <1>t, <2>1, <2>2, <2>4
    <3>2. \A j \in 1..(i - 1) - 1 : CasSafe(Tail(q)[j])
      BY <1>0, <1>t, <2>1, <2>2, <2>4
    <3>3. CasSafe(q[1])
      BY <1>0, <2>1, <2>4
    <3> QED  BY <1>t, <2>1, <2>2, <3>1, <3>2, <3>3 DEF CasAhead
  <2> QED  BY <2>3, <2>4
<1> QED  BY <1>1, <1>2

\* The rest of a careful list is careful, and so is a list with its reading done.
LEMMA CarefulTail ==
    ASSUME NEW s, NEW q \in Seq(Steps), q # <<>>, Careful(s, q)
    PROVE  /\ Careful(s, Tail(q)) /\ \A i \in DOMAIN Tail(q) : ~Opens(Tail(q)[i])
           /\ q[1].do = "set" => Careful(s, <<Cas(q[1].arg, q[1].err)>> \o Tail(q))
<1>0. Len(q) \in Nat /\ Len(q) > 0 /\ DOMAIN q = 1..Len(q) /\ q[1] \in Steps
  BY LenProperties, EmptySeq
<1>t. /\ Tail(q) \in Seq(Steps) /\ Len(Tail(q)) = Len(q) - 1 /\ DOMAIN Tail(q) = 1..Len(q) - 1
      /\ \A i \in 1..Len(q) - 1 : Tail(q)[i] = q[i + 1]
  BY HeadTailProperties, LenProperties
<1>1. ASSUME NEW i \in DOMAIN Tail(q)
      PROVE  ~Opens(Tail(q)[i])
  <2>1. i + 1 \in DOMAIN q /\ i + 1 > 1 /\ Tail(q)[i] = q[i + 1]
    BY <1>0, <1>t
  <2> QED  BY <2>1 DEF Careful
<1>2. Careful(s, Tail(q))
  <2>1. Tail(q) # <<>> => 1 \in DOMAIN Tail(q)
    BY <1>0, <1>t
  <2> QED  BY <1>1, <2>1 DEF Careful
<1>3. ASSUME q[1].do = "set"
      PROVE  Careful(s, <<Cas(q[1].arg, q[1].err)>> \o Tail(q))
  <2> DEFINE x == Cas(q[1].arg, q[1].err)
             r == <<x>> \o Tail(q)
  <2>1. x \in Steps /\ x.do = "cas" /\ x.arg = q[1].arg
    BY <1>0, <1>3 DEF Cas, Steps
  <2>2. <<x>> \in Seq(Steps) /\ Len(<<x>>) = 1 /\ <<x>>[1] = x
    BY <2>1
  <2>3. /\ r \in Seq(Steps) /\ Len(r) = Len(q) /\ r[1] = x /\ \A i \in 2..Len(q) : r[i] = q[i]
    BY <1>0, <1>t, <2>2, ConcatProperties
  <2>4. Tail(r) = Tail(q)
    <3>1. r # <<>>
      BY <1>0, <2>3
    <3>2. Tail(r) \in Seq(Steps) /\ Len(Tail(r)) = Len(q) - 1 /\ \A i \in 1..Len(q) - 1 : Tail(r)[i] = r[i + 1]
      BY <2>3, <3>1, HeadTailProperties
    <3> HIDE DEF r
    <3>3. \A i \in 1..Len(q) - 1 : Tail(r)[i] = Tail(q)[i]
      BY <1>0, <1>t, <2>3, <3>2
    <3> QED  BY <1>t, <3>2, <3>3, SeqEqual
  <2>5. DOMAIN r = DOMAIN q
    BY <1>0, <2>3, LenProperties
  <2> HIDE DEF r, x
  <2>6. \A i \in DOMAIN r : i > 1 => ~Opens(r[i])
    BY <1>0, <2>3, <2>5 DEF Careful
  <2>7. Opens(r[1]) /\ r[1].arg \in Ending(s) => SetAhead(Tail(r))
    BY <1>3, <2>1, <2>3, <2>4 DEF Careful, Opens, Writes
  <2> QED  BY <2>6, <2>7 DEF Careful, r, x
<1> QED  BY <1>1, <1>2, <1>3

\* An error branch ends the transition it is the error branch of, and opens none.
LEMMA RecoveryAhead ==
    /\ \A e \in {"setFailed", "setAbandon"} : SetAhead(Recovery(e))
    /\ \A e \in {"casFailed", "casAbandon", "killAbandon"} : CasAhead(Recovery(e))
    /\ \A e \in Errors \ {"ignore"} : \A s : Careful(s, Recovery(e))
<1> USE DEF Do, Set, Cas, Writes, Opens, Settles, SetSafe, CasSafe, Transitional
<1>1. Recovery("return") = <<>> /\ Recovery("setFailed") = <<Set("failed", "ignore")>>
      /\ Recovery("casFailed") = <<Cas("failed", "ignore")>>
  BY DEF Recovery
<1>2. SetAhead(Recovery("setFailed")) /\ CasAhead(Recovery("casFailed"))
  BY <1>1 DEF SetAhead, CasAhead
<1>3. DOMAIN FailList = 1..3 /\ DOMAIN DropList = 1..3 /\ DOMAIN QuitList = 1..4
  BY DEF FailList, DropList, QuitList
<1>4. /\ FailList[1].do = "set" /\ Settles(FailList[1]) /\ ~Opens(FailList[2]) /\ ~Opens(FailList[3])
      /\ DropList[1].do = "cas" /\ Settles(DropList[1]) /\ ~Opens(DropList[2]) /\ ~Opens(DropList[3])
  BY DEF FailList, DropList
<1>5. /\ CasSafe(QuitList[1]) /\ QuitList[2].do = "cas" /\ Settles(QuitList[2])
      /\ ~Opens(QuitList[1]) /\ ~Opens(QuitList[3]) /\ ~Opens(QuitList[4])
  BY DEF QuitList
<1> HIDE DEF Do, Set, Cas, SetSafe, CasSafe, Writes, Opens, Settles
<1>r. \A x : Settles(x) => ~Opens(x)
  BY DEF Settles, Opens
<1>a. SetAhead(FailList) /\ CasAhead(DropList)
  <2>1. 1 \in DOMAIN FailList /\ 1 \in DOMAIN DropList /\ \A j \in 1..1 - 1 : FALSE
    BY <1>3, <1>4
  <2> QED  BY <1>3, <1>4, <2>1 DEF SetAhead, CasAhead
<1>b. CasAhead(QuitList)
  <2>1. 2 \in DOMAIN QuitList /\ \A j \in 1..2 - 1 : CasSafe(QuitList[j])
    BY <1>3, <1>5
  <2> QED  BY <1>5, <2>1 DEF CasAhead
<1>6. ASSUME NEW s
      PROVE  /\ Careful(s, <<>>) /\ Careful(s, <<Set("failed", "ignore")>>)
             /\ Careful(s, <<Cas("failed", "ignore")>>)
             /\ Careful(s, FailList) /\ Careful(s, DropList) /\ Careful(s, QuitList)
  <2>1. /\ \A i \in DOMAIN FailList : ~Opens(FailList[i])
        /\ \A i \in DOMAIN DropList : ~Opens(DropList[i])
        /\ \A i \in DOMAIN QuitList : ~Opens(QuitList[i])
    BY <1>3, <1>4, <1>5, <1>r
  <2>2. 1 \in DOMAIN FailList /\ 1 \in DOMAIN DropList /\ 1 \in DOMAIN QuitList
    BY <1>3, <1>4, <1>5
  <2>3. Careful(s, <<>>) /\ Careful(s, <<Set("failed", "ignore")>>) /\ Careful(s, <<Cas("failed", "ignore")>>)
    BY DEF Careful, Opens, Writes, Set, Cas
  <2> QED  BY <2>1, <2>2, <2>3 DEF Careful
<1>7. ASSUME NEW s, NEW e \in Errors \ {"ignore"}
      PROVE  Careful(s, Recovery(e))
  BY <1>1, <1>6, Written DEF Errors
<1> QED  BY <1>2, <1>a, <1>b, <1>7, Written

\* Every handler ends the transition that it opens, and Create that of its row.
LEMMA HandlersAhead ==
    /\ \A op \in OpNames, s \in Sandboxes : Careful(s, StepsOf(op, s))
    /\ CasAhead(CreateSteps)
<1> USE DEF Do, Set, Cas, Rpc, Writes, Opens, Settles, SetSafe, CasSafe, Transitional
<1>1. CasAhead(CreateSteps) /\ \A s : Careful(s, CreateSteps)
  <2>1. DOMAIN CreateSteps = 1..7 /\ CreateSteps[7].do = "cas" /\ Settles(CreateSteps[7])
    BY DEF CreateSteps
  <2>c. /\ CasSafe(CreateSteps[1]) /\ CasSafe(CreateSteps[2]) /\ CasSafe(CreateSteps[3])
        /\ CasSafe(CreateSteps[4]) /\ CasSafe(CreateSteps[5]) /\ CasSafe(CreateSteps[6])
    BY DEF CreateSteps
  <2>d. \A x : CasSafe(x) \/ Settles(x) => ~Opens(x)
    BY DEF CasSafe
  <2> HIDE DEF CasSafe, Settles, Opens, Writes, Do, Set, Cas, Rpc
  <2>2. 7 \in DOMAIN CreateSteps /\ \A j \in 1..7 - 1 : CasSafe(CreateSteps[j])
    BY <2>1, <2>c
  <2>3. \A i \in DOMAIN CreateSteps : ~Opens(CreateSteps[i])
    BY <2>1, <2>c, <2>d
  <2>4. 1 \in DOMAIN CreateSteps
    BY <2>1
  <2> QED  BY <2>1, <2>2, <2>3, <2>4 DEF Careful, CasAhead
<1>2. ASSUME NEW q \in Seq(Steps), NEW n \in 2..Len(q), q[n].do = "set", Settles(q[n]),
             \A j \in 2..n - 1 : SetSafe(q[j]), \A i \in DOMAIN q : i > 1 => ~Opens(q[i])
      PROVE  \A s : Careful(s, q)
  <2>1. /\ Tail(q) \in Seq(Steps) /\ Len(Tail(q)) = Len(q) - 1 /\ DOMAIN Tail(q) = 1..Len(q) - 1
        /\ \A i \in 1..Len(q) - 1 : Tail(q)[i] = q[i + 1]
    BY HeadTailProperties, LenProperties, EmptySeq
  <2>2. Len(q) \in Nat
    BY LenProperties
  <2>3. n - 1 \in DOMAIN Tail(q) /\ Tail(q)[n - 1] = q[n]
    BY <2>1, <2>2
  <2>4. \A j \in 1..(n - 1) - 1 : Tail(q)[j] = q[j + 1] /\ j + 1 \in 2..n - 1
    BY <2>1, <2>2
  <2>5. SetAhead(Tail(q))
    BY <1>2, <2>3, <2>4 DEF SetAhead
  <2> QED  BY <1>2, <2>5 DEF Careful
<1>r. \A x : ~Writes(x) \/ Settles(x) \/ SetSafe(x) => ~Opens(x)
  BY DEF Opens
<1>3. \A s : Careful(s, PauseList)
  <2>1. PauseList \in Seq(Steps) /\ Len(PauseList) = 6 /\ DOMAIN PauseList = 1..6
    BY ListTypes
  <2>2. /\ PauseList[4].do = "set" /\ Settles(PauseList[4])
        /\ SetSafe(PauseList[2]) /\ SetSafe(PauseList[3])
    BY DEF PauseList
  <2>3. /\ ~Writes(PauseList[5]) /\ ~Writes(PauseList[6])
    BY DEF PauseList
  <2> HIDE DEF Do, Set, Rpc, Writes, Settles, SetSafe
  <2>4. 4 \in 2..Len(PauseList) /\ (\A j \in 2..4 - 1 : SetSafe(PauseList[j]))
        /\ \A i \in DOMAIN PauseList : i > 1 => ~Opens(PauseList[i])
    BY <2>1, <2>2, <2>3, <1>r
  <2> QED  BY <2>1, <2>2, <2>4, <1>2
<1>4. \A s : Careful(s, ResumeSteps)
  <2>1. ResumeSteps \in Seq(Steps) /\ Len(ResumeSteps) = 6 /\ DOMAIN ResumeSteps = 1..6
    BY ListTypes
  <2>2. /\ ResumeSteps[6].do = "set" /\ Settles(ResumeSteps[6])
        /\ SetSafe(ResumeSteps[2]) /\ SetSafe(ResumeSteps[3]) /\ SetSafe(ResumeSteps[4])
        /\ SetSafe(ResumeSteps[5])
    BY DEF ResumeSteps
  <2> HIDE DEF Do, Set, Rpc, Writes, Settles, SetSafe
  <2>4. 6 \in 2..Len(ResumeSteps) /\ (\A j \in 2..6 - 1 : SetSafe(ResumeSteps[j]))
        /\ \A i \in DOMAIN ResumeSteps : i > 1 => ~Opens(ResumeSteps[i])
    BY <2>1, <2>2, <1>r
  <2> QED  BY <2>1, <2>2, <2>4, <1>2
<1>5. \A s : Careful(s, StartList)
  <2>1. StartList \in Seq(Steps) /\ Len(StartList) = 6 /\ DOMAIN StartList = 1..6
    BY ListTypes
  <2>2. /\ StartList[6].do = "set" /\ Settles(StartList[6])
        /\ SetSafe(StartList[2]) /\ SetSafe(StartList[3]) /\ SetSafe(StartList[4]) /\ SetSafe(StartList[5])
    BY DEF StartList
  <2> HIDE DEF Do, Set, Rpc, Writes, Settles, SetSafe
  <2>4. 6 \in 2..Len(StartList) /\ (\A j \in 2..6 - 1 : SetSafe(StartList[j]))
        /\ \A i \in DOMAIN StartList : i > 1 => ~Opens(StartList[i])
    BY <2>1, <2>2, <1>r
  <2> QED  BY <2>1, <2>2, <2>4, <1>2
<1>6. \A s : Careful(s, BootList)
  <2>1. BootList \in Seq(Steps) /\ Len(BootList) = 7 /\ DOMAIN BootList = 1..7
    BY ListTypes
  <2>2. /\ BootList[7].do = "set" /\ Settles(BootList[7])
        /\ SetSafe(BootList[2]) /\ SetSafe(BootList[3]) /\ SetSafe(BootList[4]) /\ SetSafe(BootList[5])
        /\ SetSafe(BootList[6])
    BY DEF BootList
  <2> HIDE DEF Do, Set, Rpc, Writes, Settles, SetSafe
  <2>4. 7 \in 2..Len(BootList) /\ (\A j \in 2..7 - 1 : SetSafe(BootList[j]))
        /\ \A i \in DOMAIN BootList : i > 1 => ~Opens(BootList[i])
    BY <2>1, <2>2, <1>r
  <2> QED  BY <2>1, <2>2, <2>4, <1>2
<1>7. \A s : Careful(s, StopList)
  <2>1. StopList \in Seq(Steps) /\ Len(StopList) = 5 /\ DOMAIN StopList = 1..5
    BY ListTypes
  <2>2. /\ StopList[3].do = "set" /\ Settles(StopList[3])
        /\ SetSafe(StopList[2])
    BY DEF StopList
  <2>3. /\ ~Writes(StopList[4]) /\ ~Writes(StopList[5])
    BY DEF StopList
  <2> HIDE DEF Do, Set, Rpc, Writes, Settles, SetSafe
  <2>4. 3 \in 2..Len(StopList) /\ (\A j \in 2..3 - 1 : SetSafe(StopList[j]))
        /\ \A i \in DOMAIN StopList : i > 1 => ~Opens(StopList[i])
    BY <2>1, <2>2, <2>3, <1>r
  <2> QED  BY <2>1, <2>2, <2>4, <1>2
<1>8. \A s : Careful(s, HaltList)
  <2>1. HaltList \in Seq(Steps) /\ Len(HaltList) = 7 /\ DOMAIN HaltList = 1..7
    BY ListTypes
  <2>2. /\ HaltList[3].do = "set" /\ Settles(HaltList[3])
        /\ SetSafe(HaltList[2])
    BY DEF HaltList
  <2>3. /\ ~Writes(HaltList[4]) /\ ~Writes(HaltList[5]) /\ ~Writes(HaltList[6]) /\ ~Writes(HaltList[7])
    BY DEF HaltList
  <2> HIDE DEF Do, Set, Rpc, Writes, Settles, SetSafe
  <2>4. 3 \in 2..Len(HaltList) /\ (\A j \in 2..3 - 1 : SetSafe(HaltList[j]))
        /\ \A i \in DOMAIN HaltList : i > 1 => ~Opens(HaltList[i])
    BY <2>1, <2>2, <2>3, <1>r
  <2> QED  BY <2>1, <2>2, <2>4, <1>2
<1>9. \A s : Careful(s, RebootSteps)
  <2>1. RebootSteps \in Seq(Steps) /\ Len(RebootSteps) = 3 /\ DOMAIN RebootSteps = 1..3
    BY ListTypes
  <2>2. /\ RebootSteps[3].do = "set" /\ Settles(RebootSteps[3])
        /\ SetSafe(RebootSteps[2])
    BY DEF RebootSteps
  <2> HIDE DEF Do, Set, Rpc, Writes, Settles, SetSafe
  <2>4. 3 \in 2..Len(RebootSteps) /\ (\A j \in 2..3 - 1 : SetSafe(RebootSteps[j]))
        /\ \A i \in DOMAIN RebootSteps : i > 1 => ~Opens(RebootSteps[i])
    BY <2>1, <2>2, <1>r
  <2> QED  BY <2>1, <2>2, <2>4, <1>2
<1>10. \A s : Careful(s, KillList)
  <2>1. KillList \in Seq(Steps) /\ Len(KillList) = 9 /\ DOMAIN KillList = 1..9
    BY ListTypes
  <2>2. /\ KillList[4].do = "set" /\ Settles(KillList[4])
        /\ SetSafe(KillList[2]) /\ SetSafe(KillList[3])
    BY DEF KillList
  <2>3. /\ ~Writes(KillList[5]) /\ ~Writes(KillList[6]) /\ ~Writes(KillList[7]) /\ ~Writes(KillList[8])
        /\ ~Writes(KillList[9])
    BY DEF KillList
  <2> HIDE DEF Do, Set, Rpc, Writes, Settles, SetSafe
  <2>4. 4 \in 2..Len(KillList) /\ (\A j \in 2..4 - 1 : SetSafe(KillList[j]))
        /\ \A i \in DOMAIN KillList : i > 1 => ~Opens(KillList[i])
    BY <2>1, <2>2, <2>3, <1>r
  <2> QED  BY <2>1, <2>2, <2>4, <1>2
<1>11. \A s \in Containers : Careful(s, EndList)
  <2>1. DOMAIN EndList = 1..10 /\ EndList[1].arg = "killing"
    BY DEF EndList
  <2>2. /\ ~Opens(EndList[2]) /\ ~Opens(EndList[3]) /\ ~Opens(EndList[4]) /\ ~Opens(EndList[5])
        /\ ~Opens(EndList[6]) /\ ~Opens(EndList[7]) /\ ~Opens(EndList[8]) /\ ~Opens(EndList[9])
        /\ ~Opens(EndList[10])
    BY DEF EndList, Opens
  <2> HIDE DEF Opens
  <2>3. \A i \in DOMAIN EndList : i > 1 => ~Opens(EndList[i])
    BY <2>1, <2>2
  <2> QED  BY <2>1, <2>3 DEF Careful, Ending
<1> QED
  BY <1>1, <1>3, <1>4, <1>5, <1>6, <1>7, <1>8, <1>9, <1>10, <1>11, Written DEF StepsOf, OpNames

\* Call c will take the row of its sandbox out of the transitional state x.
Owes(c, x) == SetAhead(call[c].todo) \/ (CasAhead(call[c].todo) /\ call[c].seen = x)

\* Calls are careful, and whoever wrote a transitional state last, or a call that has
\* overtaken it, has still to write another.
SettledInv ==
    /\ Serving
    /\ \A c \in Callers : ~call[c].cancelled /\ Careful(Box(c), call[c].todo)
    /\ \A s \in Sandboxes : rows[s].state \in Ending(s) =>
          \E c \in Callers : Box(c) = s /\ Owes(c, rows[s].state)

\* Statements do not fail, requests are not cancelled and boxlet does not die.
NoLoss == Faults \intersect {"db", "cancel", "crash"} = {}

\* A call that owes a transition its end still owes it after its step, or has ended it.
LEMMA OwesStep ==
    ASSUME ServiceInv, SettledInv, NoLoss, NEW c \in Callers, Step(c), Box(c) \in Sandboxes,
           NEW x \in Ending(Box(c)), rows[Box(c)].state = x, Owes(c, x), rows'[Box(c)].state = x
    PROVE  call'[c].todo # <<>> /\ Owes(c, x)'
<1> DEFINE q == call[c].todo
<1>0. /\ q \in Seq(Steps) /\ x \in Transitional /\ x \in States /\ Immune(c, "db")
      /\ rows[Box(c)] # NoRow /\ rows[Box(c)] \in RowRecords
  BY DEF ServiceInv, CallsOK, CallRecords, Ending, Transitional, SettledInv, NoLoss, Immune, StoreTypeOK,
         RowRecords, NoRow, States
<1>e. SetAhead(<<>>) = FALSE /\ CasAhead(<<>>) = FALSE
  BY DEF SetAhead, CasAhead
<1>1. q # <<>>
  BY <1>e DEF Owes
<1>2. q[1] = Head(q) /\ Tail(q) \in Seq(Steps) /\ q[1] \in Steps /\ Err(c) = q[1].err /\ Arg(c) = q[1].arg
  BY <1>0, <1>1, HeadTailProperties DEF Err, Arg
<1>s. \/ /\ Passes(c)
         /\ \/ q[1].do \notin {"set", "cas"}
            \/ q[1].do = "cas" /\ Moves(c)
            \/ q[1].do = "set" /\ rows[Box(c)].state = Arg(c)
            \/ q[1].do = "cas" /\ rows[Box(c)].state # call[c].seen
      \/ /\ Recovers(c) /\ q[1].do \notin {"snapshot", "set"}
         /\ q[1].do = "cas" => rows[Box(c)].state # call[c].seen
      \/ Looks(c) /\ q[1].do = "set"
  BY <1>0, <1>1, <1>2, StepTurns DEF SettledInv, At, Looks
<1>3. CASE SetAhead(q)
  <2>1. CASE q[1].do = "set" /\ Settles(q[1])
    <3>1. Looks(c)
      BY <1>0, <1>2, <1>s, <2>1 DEF Settles
    <3>2. Cas(Arg(c), Err(c)) \in Steps /\ Cas(Arg(c), Err(c)).do = "cas" /\ Cas(Arg(c), Err(c)).arg = q[1].arg
      BY <1>2, <2>1 DEF Cas, Steps
    <3> DEFINE t == <<Cas(Arg(c), Err(c))>> \o Tail(q)
    <3>3. 1 \in DOMAIN t /\ t[1] = Cas(Arg(c), Err(c)) /\ t # <<>>
      <4>1. <<Cas(Arg(c), Err(c))>> \in Seq(Steps) /\ Len(<<Cas(Arg(c), Err(c))>>) = 1
        BY <3>2
      <4>2. t \in Seq(Steps) /\ Len(t) = 1 + Len(Tail(q)) /\ Len(Tail(q)) \in Nat /\ t[1] = Cas(Arg(c), Err(c))
        BY <1>2, <4>1, ConcatProperties, LenProperties
      <4> QED  BY <4>2, LenProperties
    <3> HIDE DEF t
    <3>4. CasAhead(t)
      <4>1. \A j \in 1..1 - 1 : CasSafe(t[j])
        OBVIOUS
      <4> QED  BY <2>1, <3>2, <3>3, <4>1 DEF CasAhead, Settles, Writes
    <3>5. call'[c].todo = t /\ call'[c].seen = x
      BY <3>1, <3>3 DEF Looks, Turns, t
    <3> QED  BY <3>3, <3>4, <3>5 DEF Owes
  <2>2. CASE SetSafe(q[1]) /\ SetAhead(Tail(q))
    <3>1. CASE Passes(c)
      BY <1>e, <2>2, <3>1 DEF Passes, Turns, Owes
    <3>2. CASE Recovers(c) /\ q[1].do # "snapshot"
      <4>1. Err(c) \in {"setFailed", "setAbandon"}
        BY <1>2, <2>2, <3>2 DEF SetSafe, Recovers
      <4> QED  BY <1>e, <3>2, <4>1, RecoveryAhead DEF Recovers, Turns, Owes
    <3> QED  BY <1>s, <2>2, <3>1, <3>2 DEF SetSafe, Writes
  <2> QED  BY <1>0, <1>3, <2>1, <2>2, AheadTail
<1>4. CASE CasAhead(q) /\ call[c].seen = x
  <2>1. CASE q[1].do = "cas" /\ Settles(q[1])
    <3>1. Moves(c)
      BY <1>4, <1>s, <2>1
    <3>2. rows'[Box(c)].state = Arg(c)
      BY <1>0, <3>1 DEF Moves, ServiceInv, StoreTypeOK, RowRecords
    <3> QED  BY <1>0, <1>2, <2>1, <3>2 DEF Settles
  <2>2. CASE CasSafe(q[1]) /\ CasAhead(Tail(q))
    <3>1. CASE Passes(c)
      BY <1>e, <1>4, <2>2, <3>1 DEF Passes, Turns, Owes
    <3>2. CASE Recovers(c)
      <4>1. Err(c) \in {"casFailed", "casAbandon", "killAbandon"}
        BY <1>2, <2>2, <3>2 DEF CasSafe, Recovers
      <4> QED  BY <1>e, <1>4, <3>2, <4>1, RecoveryAhead DEF Recovers, Turns, Owes
    <3> QED  BY <1>s, <2>2, <3>1, <3>2 DEF CasSafe, Writes
  <2> QED  BY <1>0, <1>4, <2>1, <2>2, AheadTail
<1> QED  BY <1>3, <1>4 DEF Owes

\* A step of a call leaves every call careful.
LEMMA CarefulStep ==
    ASSUME ServiceInv, SettledInv, NEW c \in Callers, Step(c), NEW d \in Callers
    PROVE  /\ call'[d].op = "none" => call'[d].todo = <<>>
           /\ ~call'[d].cancelled /\ Careful(Box(d)', call'[d].todo)
<1>0. call[c].todo \in Seq(Steps) /\ Careful(Box(c), call[c].todo) /\ ~call[c].cancelled
      /\ \A s : Careful(s, <<>>)
  BY DEF ServiceInv, CallsOK, CallRecords, SettledInv, Careful
<1>1. CASE d # c
  <2>1. call'[d] = call[d]
    BY <1>1, StepTurns DEF SettledInv
  <2> QED  BY <2>1 DEF SettledInv, Serving, Box
<1>2. ASSUME NEW t, NEW x, Turns(c, t, x), \A s : s = Box(c) => Careful(s, t)
      PROVE  /\ call'[c].op = "none" => call'[c].todo = <<>>
             /\ ~call'[c].cancelled /\ Careful(Box(c)', call'[c].todo)
  BY <1>0, <1>2 DEF Turns, Box
<1>3. CASE d = c /\ call[c].todo # <<>>
  <2>1. Passes(c) \/ Recovers(c) \/ Looks(c)
    BY <1>3, StepTurns DEF SettledInv
  <2>2. Careful(Box(c), Tail(call[c].todo))
    BY <1>0, <1>3, CarefulTail
  <2>3. CASE Passes(c)
    BY <1>2, <1>3, <2>2, <2>3 DEF Passes
  <2>4. CASE Recovers(c)
    <3>1. Err(c) \in Errors \ {"ignore"}
      BY <1>3, <2>4, HeadTyped DEF Recovers, ServiceInv
    <3>2. \A s : Careful(s, Recovery(Err(c)))
      BY <3>1, RecoveryAhead
    <3> QED  BY <1>2, <1>3, <2>4, <3>2 DEF Recovers
  <2>5. CASE Looks(c)
    <3>1. Careful(Box(c), <<Cas(Arg(c), Err(c))>> \o Tail(call[c].todo))
      <4>1. call[c].todo[1] = Head(call[c].todo)
        BY <1>0, <1>3, HeadTailProperties
      <4> QED  BY <1>0, <1>3, <2>5, <4>1, CarefulTail DEF Looks, At, Arg, Err
    <3> QED  BY <1>2, <1>3, <2>5, <3>1 DEF Looks
  <2> QED  BY <2>1, <2>3, <2>4, <2>5
<1>4. CASE d = c /\ call[c].todo = <<>>
  <2>1. call'[c] = Idle
    BY <1>4, StepTurns DEF SettledInv
  <2> QED  BY <1>0, <1>4, <2>1 DEF Idle, Box
<1> QED  BY <1>1, <1>3, <1>4

\* Only a call with steps left owes anything, so its sandbox is one.
LEMMA OwerActive ==
    ASSUME ServiceInv, NEW c \in Callers, NEW x, Owes(c, x)
    PROVE  call[c].todo # <<>> /\ Box(c) \in Sandboxes
<1>1. call[c].todo # <<>>
  BY DEF Owes, SetAhead, CasAhead
<1> QED  BY <1>1, HeadTyped DEF ServiceInv, Box

\* The invariant is kept by every step of a call.
LEMMA SettledStep ==
    ASSUME ServiceInv, SettledInv, NoLoss, NEW c \in Callers, Step(c)
    PROVE  SettledInv'
<1>1. ASSUME NEW s \in Sandboxes, NEW x \in Ending(s), rows'[s].state = x
      PROVE  \E d \in Callers : Box(d)' = s /\ Owes(d, x)'
  <2>0. x \in Transitional /\ x \in States /\ "absent" \notin Transitional
    BY <1>1 DEF Ending, Transitional, States
  <2>1. CASE rows[s].state = x
    <3>1. PICK d \in Callers : Box(d) = s /\ Owes(d, x)
      BY <1>1, <2>1 DEF SettledInv
    <3>2. CASE d # c
      <4>1. call'[d] = call[d]
        BY <3>2, StepTurns DEF SettledInv
      <4>2. Box(d)' = s /\ Owes(d, x)'
        BY <3>1, <4>1 DEF Box, Owes
      <4> QED  BY <4>2
    <3>3. CASE d = c
      <4>1. call'[c].todo # <<>> /\ Owes(c, x)'
        BY <1>1, <2>1, <3>1, <3>3, OwesStep
      <4>2. call[c].todo # <<>>
        BY <3>1, <3>3, OwerActive
      <4>3. call'[c].box = call[c].box
        BY <4>1, <4>2, StepTurns DEF SettledInv, Passes, Recovers, Looks, Turns
      <4>4. Box(c)' = s
        BY <3>1, <3>3, <4>3 DEF Box
      <4> QED  BY <4>1, <4>4
    <3> QED  BY <3>2, <3>3
  <2>2. CASE rows[s].state # x
    <3>1. call[c].todo # <<>>
      BY <1>1, <2>2, StepTurns DEF SettledInv, storeVars
    <3>2. Box(c) \in Sandboxes /\ DOMAIN rows = Sandboxes /\ call[c].todo \in Seq(Steps)
      BY <3>1, HeadTyped DEF ServiceInv, StoreTypeOK, Box, CallsOK, CallRecords
    <3>3. Passes(c) /\ At(c, "cas") /\ Moves(c)
      <4>1. rows' # [rows EXCEPT ![Box(c)] = NoRow]
        BY <1>1, <2>0, <2>2, <3>2 DEF NoRow
      <4> QED  BY <1>1, <2>2, <3>1, <4>1, StepTurns DEF SettledInv, SameStates, Looks
    <3>4. s = Box(c) /\ Arg(c) = x
      BY <1>1, <2>2, <3>2, <3>3 DEF Moves, ServiceInv, StoreTypeOK, NoRow
    <3>5. call[c].todo[1] = Head(call[c].todo)
      BY <3>1, <3>2, HeadTailProperties
    <3>6. SetAhead(Tail(call[c].todo))
      BY <1>1, <2>0, <3>1, <3>3, <3>4, <3>5 DEF SettledInv, Careful, Opens, Writes, At, Arg
    <3>7. Tail(call[c].todo) # <<>>
      BY <3>6 DEF SetAhead
    <3>8. Owes(c, x)' /\ Box(c)' = s
      BY <3>3, <3>4, <3>6, <3>7 DEF Passes, Turns, Owes, Box
    <3> QED  BY <3>8
  <2> QED  BY <2>1, <2>2
<1>2. Serving'
  BY CarefulStep DEF Serving
<1>3. \A d \in Callers : ~call'[d].cancelled /\ Careful(Box(d)', call'[d].todo)
  BY CarefulStep
<1>4. \A s \in Sandboxes : rows'[s].state \in Ending(s) =>
         \E d \in Callers : Box(d)' = s /\ Owes(d, rows[s].state)'
  BY <1>1 DEF Owes
<1> QED  BY <1>2, <1>3, <1>4 DEF SettledInv

\* And by a call's arrival: a new row's create owes the end of its transition.
LEMMA SettledBegin ==
    ASSUME ServiceInv, SettledInv, NEW c \in Callers, NEW op \in Ops, NEW s \in Sandboxes, Begin(c, op, s)
    PROVE  SettledInv'
<1> DEFINE k == [Idle EXCEPT !.op = op, !.box = s, !.slot = rows[s].slot, !.todo = StepsOf(op, s)]
<1>0. /\ call' = [call EXCEPT ![c] = k] /\ DOMAIN call = Callers /\ op \in OpNames /\ "none" \notin OpNames
      /\ ~Active(c) /\ (op = "create" => InsertRow(s)) /\ (op # "create" => UNCHANGED rows)
      /\ DOMAIN rows = Sandboxes
  BY ServiceAssumption DEF Begin, ServiceInv, CallsOK, StoreTypeOK, storeVars, OpNames
<1>1. k.op = op /\ k.box = s /\ k.todo = StepsOf(op, s) /\ k.seen = "creating" /\ ~k.cancelled
  BY DEF Idle
<1> HIDE DEF k
<1>2. call'[c] = k /\ \A d \in Callers \ {c} : call'[d] = call[d]
  BY <1>0
<1>3. \A d \in Callers : d # c => call'[d] = call[d]
  BY <1>2
<1>4. \A d \in Callers : /\ call'[d].op = "none" => call'[d].todo = <<>>
                         /\ ~call'[d].cancelled /\ Careful(Box(d)', call'[d].todo)
  BY <1>0, <1>1, <1>2, <1>3, HandlersAhead DEF SettledInv, Serving, Box
<1>5. ASSUME NEW u \in Sandboxes, NEW x \in Ending(u), rows'[u].state = x
      PROVE  \E d \in Callers : Box(d)' = u /\ Owes(d, x)'
  <2>1. CASE rows'[u] = rows[u]
    <3>1. PICK d \in Callers : Box(d) = u /\ Owes(d, x)
      BY <1>5, <2>1 DEF SettledInv
    <3>2. d # c
      BY <1>0, <3>1, OwerActive DEF SettledInv, Serving, Active
    <3>3. Box(d)' = u /\ Owes(d, x)'
      BY <1>3, <3>1, <3>2 DEF Box, Owes
    <3> QED  BY <3>3
  <2>2. CASE rows'[u] # rows[u]
    <3>1. op = "create" /\ u = s /\ x = "creating"
      BY <1>0, <1>5, <2>2 DEF InsertRow
    <3>2. call'[c].todo = CreateSteps /\ call'[c].seen = x /\ Box(c)' = s
      BY <1>1, <1>2, <3>1 DEF Box, StepsOf
    <3>3. Owes(c, x)'
      BY <3>2, HandlersAhead DEF Owes
    <3> QED  BY <3>1, <3>2, <3>3
  <2> QED  BY <2>1, <2>2
<1>6. \A u \in Sandboxes : rows'[u].state \in Ending(u) =>
         \E d \in Callers : Box(d)' = u /\ Owes(d, rows[u].state)'
  BY <1>5 DEF Owes
<1> QED  BY <1>4, <1>6 DEF SettledInv, Serving

\* A sandbox nobody works on is never left in a transitional state, however calls interleave
\* and whatever else fails, as long as statements do not fail, no request is cancelled and
\* boxlet does not die: for any sandboxes, callers and clients.
THEOREM TransitionsSettle == NoLoss => (Spec => []NoStuckTransition)
<1> SUFFICES ASSUME NoLoss PROVE Spec => []NoStuckTransition
  OBVIOUS
<1>1. Init => SettledInv
  BY DEF Init, StoreInit, SettledInv, Serving, Idle, NoRow, Careful, Ending, Transitional
<1>2. ServiceInv /\ SettledInv /\ [Next]_vars => SettledInv'
  <2> SUFFICES ASSUME ServiceInv, SettledInv, [Next]_vars PROVE SettledInv'
    OBVIOUS
  <2>1. CASE \E c \in Callers, op \in Ops, s \in Sandboxes : Begin(c, op, s)
    BY <2>1, SettledBegin
  <2>2. CASE \E c \in Callers : Step(c)
    BY <2>2, SettledStep
  <2>3. CASE (\E c \in Callers : Cancel(c)) \/ Crash
    BY <2>3 DEF Cancel, Crash, Fault, NoLoss
  <2>4. CASE UNCHANGED <<rows, call>>
    BY <2>4 DEF SettledInv, Serving, Box, Owes
  <2> QED  BY <2>1, <2>2, <2>3, <2>4 DEF Next, RuntimeExits, Quiet, vars, storeVars
<1>3. SettledInv => NoStuckTransition
  BY DEF SettledInv, NoStuckTransition, Quiescent, Ending
<1> QED  BY <1>1, <1>2, <1>3, ServiceInvariant, PTL DEF Spec
-----------------------------------------------------------------------------
(* Slots of parked sandboxes.                                               *)

Parked == {"paused", "stopped"}

\* A step that writes a parked state, and one without which it is not written.
Parks(x)   == Writes(x) /\ x.arg \in Parked
Suspends(x) == x.do = "rpc" /\ x.arg \in {"Pause", "Stop"} /\ x.err # "ignore"

\* A list that gives the slot back next, and one that writes a state in which a sandbox
\* may have a slot, whatever happens on the way.
FreeAhead(q) ==
    \/ q # <<>> /\ q[1].do = "free"
    \/ Len(q) > 1 /\ q[1].do = "cleanup" /\ q[2].do = "free"
MoveAhead(q) == \E i \in DOMAIN q :
    q[i].do = "set" /\ q[i].arg \notin Parked /\ \A j \in 1..i - 1 : SetSafe(q[j])

\* After a write of a parked state the slot is given back; but for that of a new sandbox,
\* a slot is taken only before a write of another state.
Tidy(q) ==
    /\ \A i \in DOMAIN q : Parks(q[i]) =>
          i + 2 \in DOMAIN q /\ q[i + 1].do = "cleanup" /\ q[i + 2].do = "free"
    /\ \A i \in DOMAIN q : q[i].do = "assign" /\ q[i].err # "casFailed" =>
          \E k \in DOMAIN q : /\ k > i /\ q[k].do = "set" /\ q[k].arg \notin Parked
                              /\ \A j \in i + 1..k - 1 : SetSafe(q[j])

\* Only a create makes a shim, and takes a slot without reading the row; it does that first.
Natal(op, q) ==
    \A i \in DOMAIN q :
        /\ q[i].do = "assign" => (op = "create" /\ i = 1) \/ (op # "create" /\ q[i].err # "casFailed")
        /\ q[i].do = "shim" => op = "create"

\* A list that parks a sandbox without asking its runtime.
Parking(q) == \E i \in DOMAIN q : Parks(q[i]) /\ \A k \in 1..i - 1 : ~Suspends(q[k])

\* A new sandbox has no slot yet, and no shim.
Unborn(c) == call[c].op = "create" /\ At(c, "assign")

\* Call c will take the slot of its sandbox or the row out of the parked state x.
Clears(c, x) ==
    \/ FreeAhead(call[c].todo)
    \/ MoveAhead(call[c].todo)
    \/ At(c, "cas") /\ Arg(c) \notin Parked /\ call[c].seen = x

ParkedInv ==
    /\ Serving
    /\ \A c \in Callers :
         /\ ~call[c].cancelled
         /\ Tidy(call[c].todo) /\ Natal(call[c].op, call[c].todo)
         /\ call[c].op # "none" => Box(c) \in used
    /\ \A s \in Sandboxes \ used : rows[s] = NoRow /\ handle[s] = "none"
    /\ \A c, d \in Callers : c # d /\ call[c].op = "create" /\ call[d].op = "create" => Box(c) # Box(d)
    /\ \A c \in Callers : Unborn(c) =>
         /\ handle[Box(c)] = "none" /\ rows[Box(c)].state \notin Parked
         /\ \A d \in Callers : Box(d) = Box(c) => ~Parking(call[d].todo)
    /\ \A s \in Sandboxes : rows[s].state \in Parked /\ rows[s].slot > 0 =>
          \E c \in Callers : Box(c) = s /\ Clears(c, rows[s].state)

-----------------------------------------------------------------------------
\* The rest of a tidy list, and a list with its reading done.
LEMMA TidyTail ==
    ASSUME NEW q \in Seq(Steps), q # <<>>, NEW op
    PROVE  /\ Tidy(q) => Tidy(Tail(q))
           /\ Natal(op, q) =>
                 Natal(op, Tail(q)) /\ (op = "create" => Tail(q) = <<>> \/ Tail(q)[1].do # "assign")
           /\ Tidy(q) /\ Parks(q[1]) => FreeAhead(Tail(q))
           /\ Tidy(q) /\ q[1].do = "assign" /\ q[1].err # "casFailed" => MoveAhead(Tail(q))
           /\ MoveAhead(q) => \/ q[1].do = "set" /\ q[1].arg \notin Parked
                              \/ SetSafe(q[1]) /\ MoveAhead(Tail(q))
           /\ FreeAhead(q) => q[1].do = "free" \/ (q[1].do = "cleanup" /\ FreeAhead(Tail(q)))
           /\ Parking(Tail(q)) /\ ~Suspends(q[1]) => Parking(q)
<1>0. Len(q) \in Nat /\ Len(q) > 0 /\ DOMAIN q = 1..Len(q)
  BY LenProperties, EmptySeq
<1>t. /\ Tail(q) \in Seq(Steps) /\ Len(Tail(q)) = Len(q) - 1 /\ DOMAIN Tail(q) = 1..Len(q) - 1
      /\ \A i \in 1..Len(q) - 1 : Tail(q)[i] = q[i + 1]
  BY HeadTailProperties, LenProperties
<1>1. ASSUME Tidy(q) PROVE Tidy(Tail(q))
  <2>1. ASSUME NEW i \in DOMAIN Tail(q), Parks(Tail(q)[i])
        PROVE  i + 2 \in DOMAIN Tail(q) /\ Tail(q)[i + 1].do = "cleanup" /\ Tail(q)[i + 2].do = "free"
    <3>1. i + 1 \in DOMAIN q /\ Parks(q[i + 1])
      BY <1>0, <1>t, <2>1
    <3>2. (i + 1) + 2 \in DOMAIN q /\ q[(i + 1) + 1].do = "cleanup" /\ q[(i + 1) + 2].do = "free"
      BY <1>1, <3>1 DEF Tidy
    <3> QED  BY <1>0, <1>t, <3>2
  <2>2. ASSUME NEW i \in DOMAIN Tail(q), Tail(q)[i].do = "assign", Tail(q)[i].err # "casFailed"
        PROVE  \E k \in DOMAIN Tail(q) : /\ k > i /\ Tail(q)[k].do = "set" /\ Tail(q)[k].arg \notin Parked
                                         /\ \A j \in i + 1..k - 1 : SetSafe(Tail(q)[j])
    <3>1. i + 1 \in DOMAIN q /\ q[i + 1] = Tail(q)[i]
      BY <1>0, <1>t
    <3>2. PICK k \in DOMAIN q : /\ k > i + 1 /\ q[k].do = "set" /\ q[k].arg \notin Parked
                                /\ \A j \in (i + 1) + 1..k - 1 : SetSafe(q[j])
      BY <1>1, <2>2, <3>1 DEF Tidy
    <3>3. k - 1 \in DOMAIN Tail(q) /\ k - 1 > i /\ Tail(q)[k - 1] = q[k]
      BY <1>0, <1>t, <3>2
    <3>4. \A j \in i + 1..(k - 1) - 1 : SetSafe(Tail(q)[j])
      BY <1>0, <1>t, <3>2
    <3> QED  BY <3>2, <3>3, <3>4
  <2> QED  BY <2>1, <2>2 DEF Tidy
<1>2. ASSUME Natal(op, q)
      PROVE  Natal(op, Tail(q)) /\ (op = "create" => Tail(q) = <<>> \/ Tail(q)[1].do # "assign")
  <2>1. ASSUME NEW i \in DOMAIN Tail(q)
        PROVE  /\ Tail(q)[i].do = "assign" => op # "create" /\ Tail(q)[i].err # "casFailed"
               /\ Tail(q)[i].do = "shim" => op = "create"
    <3>1. i + 1 \in DOMAIN q /\ q[i + 1] = Tail(q)[i] /\ i + 1 # 1
      BY <1>0, <1>t
    <3> QED  BY <1>2, <3>1 DEF Natal
  <2>2. Tail(q) # <<>> => 1 \in DOMAIN Tail(q)
    BY <1>0, <1>t
  <2> QED  BY <2>1, <2>2 DEF Natal
<1>3. Tidy(q) /\ Parks(q[1]) => FreeAhead(Tail(q))
  <2>1. 1 \in DOMAIN q
    BY <1>0
  <2>2. 3 \in DOMAIN q /\ q[2].do = "cleanup" /\ q[3].do = "free" => FreeAhead(Tail(q))
    BY <1>0, <1>t DEF FreeAhead
  <2> QED  BY <2>1, <2>2 DEF Tidy
<1>4. ASSUME Tidy(q), q[1].do = "assign", q[1].err # "casFailed" PROVE MoveAhead(Tail(q))
  <2>1. PICK k \in DOMAIN q : /\ k > 1 /\ q[k].do = "set" /\ q[k].arg \notin Parked
                              /\ \A j \in 1 + 1..k - 1 : SetSafe(q[j])
    BY <1>0, <1>4 DEF Tidy
  <2>2. k - 1 \in DOMAIN Tail(q) /\ Tail(q)[k - 1] = q[k]
    BY <1>0, <1>t, <2>1
  <2>3. \A j \in 1..(k - 1) - 1 : SetSafe(Tail(q)[j])
    BY <1>0, <1>t, <2>1
  <2> QED  BY <2>1, <2>2, <2>3 DEF MoveAhead
<1>5. ASSUME MoveAhead(q)
      PROVE  \/ q[1].do = "set" /\ q[1].arg \notin Parked
             \/ SetSafe(q[1]) /\ MoveAhead(Tail(q))
  <2>1. PICK i \in DOMAIN q : q[i].do = "set" /\ q[i].arg \notin Parked /\ \A j \in 1..i - 1 : SetSafe(q[j])
    BY <1>5 DEF MoveAhead
  <2>2. CASE i = 1
    BY <2>1, <2>2
  <2>3. CASE i # 1
    <3>1. i - 1 \in DOMAIN Tail(q) /\ Tail(q)[i - 1] = q[i]
      BY <1>0, <1>t, <2>1, <2>3
    <3>2. \A j \in 1..(i - 1) - 1 : SetSafe(Tail(q)[j])
      BY <1>0, <1>t, <2>1, <2>3
    <3>3. SetSafe(q[1])
      BY <1>0, <2>1, <2>3
    <3> QED  BY <2>1, <3>1, <3>2, <3>3 DEF MoveAhead
  <2> QED  BY <2>2, <2>3
<1>6. FreeAhead(q) => q[1].do = "free" \/ (q[1].do = "cleanup" /\ FreeAhead(Tail(q)))
  <2>1. ASSUME Len(q) > 1 PROVE Tail(q) # <<>> /\ Tail(q)[1] = q[2]
    <3>1. Tail(q) # <<>>
      <4> DEFINE r == Tail(q)
      <4>1. r \in Seq(Steps) /\ Len(r) # 0
        BY <1>0, <1>t, <2>1
      <4> HIDE DEF r
      <4>2. r # <<>>
        BY <4>1, EmptySeq
      <4> QED  BY <4>2 DEF r
    <3>2. 1 \in 1..Len(q) - 1 /\ 1 + 1 = 2
      BY <1>0, <2>1
    <3> QED  BY <1>t, <3>1, <3>2
  <2> QED  BY <2>1 DEF FreeAhead
<1>7. ASSUME Parking(Tail(q)), ~Suspends(q[1]) PROVE Parking(q)
  <2>1. PICK i \in DOMAIN Tail(q) : Parks(Tail(q)[i]) /\ \A k \in 1..i - 1 : ~Suspends(Tail(q)[k])
    BY <1>7 DEF Parking
  <2>2. i + 1 \in DOMAIN q /\ Parks(q[i + 1])
    BY <1>0, <1>t, <2>1
  <2>3. ASSUME NEW k \in 1..(i + 1) - 1 PROVE ~Suspends(q[k])
    <3>1. CASE k = 1
      BY <1>7, <3>1
    <3>2. CASE k # 1
      <4>1. k - 1 \in 1..i - 1 /\ k - 1 \in 1..Len(q) - 1 /\ q[(k - 1) + 1] = q[k]
        BY <1>0, <1>t, <2>1, <3>2
      <4> QED  BY <1>t, <2>1, <4>1
    <3> QED  BY <3>1, <3>2
  <2> QED  BY <2>2, <2>3 DEF Parking
<1> QED  BY <1>1, <1>2, <1>3, <1>4, <1>5, <1>6, <1>7

\* A list with its reading done.
LEMMA TidyRead ==
    ASSUME NEW q \in Seq(Steps), q # <<>>, q[1].do = "set", NEW op
    PROVE  LET r == <<Cas(q[1].arg, q[1].err)>> \o Tail(q)
           IN  /\ r # <<>> /\ r[1] = Cas(q[1].arg, q[1].err)
               /\ Tidy(q) => Tidy(r)
               /\ Natal(op, q) => Natal(op, r)
               /\ Parking(r) => Parking(q)
<1> DEFINE x == Cas(q[1].arg, q[1].err)
           r == <<x>> \o Tail(q)
<1>0. Len(q) \in Nat /\ Len(q) > 0 /\ DOMAIN q = 1..Len(q) /\ q[1] \in Steps
  BY LenProperties, EmptySeq
<1>t. /\ Tail(q) \in Seq(Steps) /\ Len(Tail(q)) = Len(q) - 1
      /\ \A i \in 1..Len(q) - 1 : Tail(q)[i] = q[i + 1]
  BY HeadTailProperties
<1>1. x \in Steps /\ x.do = "cas" /\ x.arg = q[1].arg
  BY <1>0 DEF Cas, Steps
<1>2. <<x>> \in Seq(Steps) /\ Len(<<x>>) = 1 /\ <<x>>[1] = x
  BY <1>1
<1>3. r \in Seq(Steps) /\ Len(r) = Len(q) /\ r[1] = x /\ \A i \in 2..Len(q) : r[i] = q[i]
  BY <1>0, <1>t, <1>2, ConcatProperties
<1>4. DOMAIN r = DOMAIN q /\ r # <<>>
  BY <1>0, <1>3, LenProperties, EmptySeq
<1>5. Parks(r[1]) <=> Parks(q[1])
  BY <1>1, <1>3 DEF Parks, Writes
<1> HIDE DEF r, x
<1>6. ASSUME Tidy(q) PROVE Tidy(r)
  <2>1. ASSUME NEW i \in DOMAIN r, Parks(r[i])
        PROVE  i + 2 \in DOMAIN r /\ r[i + 1].do = "cleanup" /\ r[i + 2].do = "free"
    <3>1. i \in DOMAIN q /\ Parks(q[i])
      BY <1>0, <1>3, <1>4, <1>5, <2>1
    <3>2. i + 2 \in DOMAIN q /\ q[i + 1].do = "cleanup" /\ q[i + 2].do = "free"
      BY <1>6, <3>1 DEF Tidy
    <3> QED  BY <1>0, <1>3, <1>4, <3>1, <3>2
  <2>2. ASSUME NEW i \in DOMAIN r, r[i].do = "assign", r[i].err # "casFailed"
        PROVE  \E k \in DOMAIN r : /\ k > i /\ r[k].do = "set" /\ r[k].arg \notin Parked
                                   /\ \A j \in i + 1..k - 1 : SetSafe(r[j])
    <3>1. i \in DOMAIN q /\ q[i] = r[i]
      BY <1>0, <1>1, <1>3, <1>4, <2>2
    <3>2. PICK k \in DOMAIN q : /\ k > i /\ q[k].do = "set" /\ q[k].arg \notin Parked
                                /\ \A j \in i + 1..k - 1 : SetSafe(q[j])
      BY <1>6, <2>2, <3>1 DEF Tidy
    <3>3. r[k] = q[k] /\ \A j \in i + 1..k - 1 : r[j] = q[j]
      BY <1>0, <1>3, <3>1, <3>2
    <3> QED  BY <1>4, <3>2, <3>3
  <2> QED  BY <2>1, <2>2 DEF Tidy
<1>7. Natal(op, q) => Natal(op, r)
  <2>1. \A i \in DOMAIN r : i \in DOMAIN q /\ (r[i] = q[i] \/ r[i].do = "cas")
    BY <1>0, <1>1, <1>3, <1>4
  <2> QED  BY <2>1 DEF Natal
<1>8. ASSUME Parking(r) PROVE Parking(q)
  <2>1. PICK i \in DOMAIN r : Parks(r[i]) /\ \A k \in 1..i - 1 : ~Suspends(r[k])
    BY <1>8 DEF Parking
  <2>2. i \in DOMAIN q /\ Parks(q[i])
    BY <1>0, <1>3, <1>4, <1>5, <2>1
  <2>3. \A k \in 1..i - 1 : k = 1 \/ r[k] = q[k]
    BY <1>0, <1>3, <2>2
  <2>4. ~Suspends(q[1])
    BY DEF Suspends
  <2>5. \A k \in 1..i - 1 : ~Suspends(q[k])
    BY <2>1, <2>3, <2>4
  <2> QED  BY <2>2, <2>5 DEF Parking
<1> QED  BY <1>3, <1>4, <1>6, <1>7, <1>8 DEF r, x

\* A step that neither writes a parked state, nor takes a slot, nor makes a shim.
Plain(x) == ~Parks(x) /\ x.do \notin {"assign", "shim"}

\* No list of an error branch takes a slot or parks a sandbox; the ones that write failed
\* whatever the row says move it on.
LEMMA RecoveryTidy ==
    /\ \A e \in Errors \ {"ignore"} :
          Tidy(Recovery(e)) /\ ~Parking(Recovery(e)) /\ (\A op : Natal(op, Recovery(e)))
          /\ (Recovery(e) # <<>> => Recovery(e)[1].do # "assign")
    /\ \A e \in {"setFailed", "setAbandon"} : MoveAhead(Recovery(e))
<1>p. ASSUME NEW q, \A i \in DOMAIN q : Plain(q[i])
      PROVE  Tidy(q) /\ ~Parking(q) /\ \A op : Natal(op, q)
  BY <1>p DEF Plain, Tidy, Parking, Natal
<1> USE DEF Do, Set, Cas, Writes, Parks, Plain, Parked
<1>1. Recovery("return") = <<>> /\ Recovery("setFailed") = <<Set("failed", "ignore")>>
      /\ Recovery("casFailed") = <<Cas("failed", "ignore")>>
  BY DEF Recovery
<1>2. DOMAIN FailList = 1..3 /\ DOMAIN DropList = 1..3 /\ DOMAIN QuitList = 1..4
  BY DEF FailList, DropList, QuitList
<1>3. Plain(FailList[1]) /\ Plain(FailList[2]) /\ Plain(FailList[3])
      /\ FailList[1].do = "set" /\ FailList[1].arg \notin Parked
  BY DEF FailList
<1>4. Plain(DropList[1]) /\ Plain(DropList[2]) /\ Plain(DropList[3]) /\ DropList[1].do = "cas"
  BY DEF DropList
<1>5. Plain(QuitList[1]) /\ Plain(QuitList[2]) /\ Plain(QuitList[3]) /\ Plain(QuitList[4])
      /\ QuitList[1].do = "bgkill"
  BY DEF QuitList
<1>6. /\ \A i \in DOMAIN <<>> : Plain(<<>>[i])
      /\ \A i \in DOMAIN <<Set("failed", "ignore")>> : Plain(<<Set("failed", "ignore")>>[i])
      /\ \A i \in DOMAIN <<Cas("failed", "ignore")>> : Plain(<<Cas("failed", "ignore")>>[i])
  OBVIOUS
<1>7. /\ <<Set("failed", "ignore")>>[1].do = "set" /\ <<Set("failed", "ignore")>>[1].arg \notin Parked
      /\ <<Cas("failed", "ignore")>>[1].do = "cas" /\ 1 \in DOMAIN <<Set("failed", "ignore")>>
  OBVIOUS
<1> HIDE DEF Do, Set, Cas, Writes, Parks, Plain, Parked
<1>8. /\ \A i \in DOMAIN FailList : Plain(FailList[i])
      /\ \A i \in DOMAIN DropList : Plain(DropList[i])
      /\ \A i \in DOMAIN QuitList : Plain(QuitList[i])
  BY <1>2, <1>3, <1>4, <1>5
<1>9. ASSUME NEW e \in Errors \ {"ignore"}
      PROVE  Tidy(Recovery(e)) /\ ~Parking(Recovery(e)) /\ (\A op : Natal(op, Recovery(e)))
             /\ (Recovery(e) # <<>> => Recovery(e)[1].do # "assign")
  <2>1. \A i \in DOMAIN Recovery(e) : Plain(Recovery(e)[i])
    BY <1>1, <1>6, <1>8, Written DEF Errors
  <2>2. Recovery(e) # <<>> => Recovery(e)[1].do # "assign"
    BY <1>1, <1>3, <1>4, <1>5, <1>7, Written DEF Errors
  <2> QED  BY <1>p, <2>1, <2>2
<1>10. 1 \in DOMAIN FailList /\ \A j \in 1..1 - 1 : FALSE
  BY <1>2
<1>11. MoveAhead(FailList) /\ MoveAhead(<<Set("failed", "ignore")>>)
  BY <1>3, <1>7, <1>10 DEF MoveAhead
<1> QED  BY <1>1, <1>9, <1>11, Written

\* No handler parks a sandbox without asking its runtime, or takes a slot for a sandbox
\* that it leaves parked.
LEMMA HandlersTidy ==
    \A op \in OpNames, s \in Sandboxes :
        Tidy(StepsOf(op, s)) /\ Natal(op, StepsOf(op, s)) /\ ~Parking(StepsOf(op, s))
<1>p. ASSUME NEW q, \A i \in DOMAIN q : Plain(q[i])
      PROVE  Tidy(q) /\ ~Parking(q) /\ \A op : Natal(op, q)
  BY <1>p DEF Plain, Tidy, Parking, Natal
<1>a. ASSUME NEW q, NEW m \in DOMAIN q, m \in Int, m > 2, q[m].do = "set", q[m].arg \notin Parked,
             \A j \in 2 + 1..m - 1 : SetSafe(q[j]), q[2].err # "casFailed",
             \A i \in DOMAIN q : i # 2 => Plain(q[i]), q[2].do = "assign"
      PROVE  Tidy(q) /\ ~Parking(q) /\ \A op \in {"resume", "start"} : Natal(op, q)
  BY <1>a DEF Plain, Tidy, Parking, Natal, Parks, Writes
<1> DEFINE Gives(q, m) == m + 2 \in DOMAIN q /\ q[m + 1].do = "cleanup" /\ q[m + 2].do = "free"
<1>k. ASSUME NEW q, NEW m \in DOMAIN q, m \in Int, m > 2, Gives(q, m),
             Suspends(q[2]), DOMAIN q \subseteq Int, \A i \in DOMAIN q : q[i].do \notin {"assign", "shim"},
             \A i \in DOMAIN q : i # m => ~Parks(q[i])
      PROVE  Tidy(q) /\ ~Parking(q) /\ \A op : Natal(op, q)
  BY <1>k DEF Tidy, Parking, Natal
<1> HIDE DEF Gives
<1> USE DEF Do, Set, Cas, Rpc, Writes, Parks, Plain, Parked, Suspends, SetSafe

<1>c. Tidy(CreateSteps) /\ ~Parking(CreateSteps) /\ Natal("create", CreateSteps)
  <2>1. DOMAIN CreateSteps = 1..7
    BY DEF CreateSteps
  <2>2. CreateSteps[1].do = "assign" /\ CreateSteps[1].err = "casFailed"
    BY DEF CreateSteps
  <2>3. /\ CreateSteps[2].do # "assign" /\ CreateSteps[3].do # "assign" /\ CreateSteps[4].do # "assign"
        /\ CreateSteps[5].do # "assign" /\ CreateSteps[6].do # "assign" /\ CreateSteps[7].do # "assign"
    BY DEF CreateSteps
  <2>4. /\ ~Parks(CreateSteps[1]) /\ ~Parks(CreateSteps[2]) /\ ~Parks(CreateSteps[3]) /\ ~Parks(CreateSteps[4])
        /\ ~Parks(CreateSteps[5]) /\ ~Parks(CreateSteps[6]) /\ ~Parks(CreateSteps[7])
    BY DEF CreateSteps
  <2> HIDE DEF Do, Set, Cas, Rpc, Writes, Parks, Plain, Parked, Suspends, SetSafe
  <2>5. \A i \in DOMAIN CreateSteps : ~Parks(CreateSteps[i]) /\ (i # 1 => CreateSteps[i].do # "assign")
    BY <2>1, <2>3, <2>4
  <2> QED  BY <2>2, <2>5 DEF Tidy, Parking, Natal
<1>1. Tidy(PauseList) /\ ~Parking(PauseList) /\ \A op : Natal(op, PauseList)
  <2>1. DOMAIN PauseList = 1..6
    BY DEF PauseList
  <2>2. /\ Suspends(PauseList[2]) /\ PauseList[4].do = "set"
        /\ PauseList[5].do = "cleanup" /\ PauseList[6].do = "free"
    BY DEF PauseList
  <2>3. Plain(PauseList[1]) /\ Plain(PauseList[2]) /\ Plain(PauseList[3]) /\ Plain(PauseList[5])
    BY DEF PauseList
  <2>4. Plain(PauseList[6])
    BY DEF PauseList
  <2>5. \A x : Plain(x) => ~Parks(x) /\ x.do \notin {"assign", "shim"}
    BY DEF Plain
  <2> HIDE DEF Do, Set, Cas, Rpc, Writes, Parks, Plain, Parked, Suspends, SetSafe
  <2>6. 4 \in DOMAIN PauseList /\ Gives(PauseList, 4)
        /\ (\A i \in DOMAIN PauseList : PauseList[i].do \notin {"assign", "shim"})
        /\ DOMAIN PauseList \subseteq Int
        /\ (\A i \in DOMAIN PauseList : i # 4 => ~Parks(PauseList[i]))
    BY <2>1, <2>2, <2>3, <2>4, <2>5 DEF Gives
  <2> QED  BY <2>2, <2>6, <1>k
<1>2. Tidy(ResumeSteps) /\ ~Parking(ResumeSteps) /\ \A op \in {"resume", "start"} : Natal(op, ResumeSteps)
  <2>1. DOMAIN ResumeSteps = 1..6
    BY DEF ResumeSteps
  <2>2. /\ ResumeSteps[2].do = "assign" /\ ResumeSteps[2].err # "casFailed"
        /\ ResumeSteps[6].do = "set" /\ ResumeSteps[6].arg \notin Parked
    BY DEF ResumeSteps
  <2>3. SetSafe(ResumeSteps[3]) /\ SetSafe(ResumeSteps[4]) /\ SetSafe(ResumeSteps[5])
    BY DEF ResumeSteps
  <2>4. Plain(ResumeSteps[1]) /\ Plain(ResumeSteps[3]) /\ Plain(ResumeSteps[4]) /\ Plain(ResumeSteps[5])
    BY DEF ResumeSteps
  <2>5. Plain(ResumeSteps[6])
    BY DEF ResumeSteps
  <2> HIDE DEF Do, Set, Cas, Rpc, Writes, Parks, Plain, Parked, Suspends, SetSafe
  <2>6. 6 \in DOMAIN ResumeSteps /\ (\A j \in 2 + 1..6 - 1 : SetSafe(ResumeSteps[j]))
        /\ \A i \in DOMAIN ResumeSteps : i # 2 => Plain(ResumeSteps[i])
    BY <2>1, <2>3, <2>4, <2>5
  <2> QED  BY <2>2, <2>6, <1>a
<1>3. Tidy(StartList) /\ ~Parking(StartList) /\ \A op \in {"resume", "start"} : Natal(op, StartList)
  <2>1. DOMAIN StartList = 1..6
    BY DEF StartList
  <2>2. /\ StartList[2].do = "assign" /\ StartList[2].err # "casFailed"
        /\ StartList[6].do = "set" /\ StartList[6].arg \notin Parked
    BY DEF StartList
  <2>3. SetSafe(StartList[3]) /\ SetSafe(StartList[4]) /\ SetSafe(StartList[5])
    BY DEF StartList
  <2>4. Plain(StartList[1]) /\ Plain(StartList[3]) /\ Plain(StartList[4]) /\ Plain(StartList[5])
    BY DEF StartList
  <2>5. Plain(StartList[6])
    BY DEF StartList
  <2> HIDE DEF Do, Set, Cas, Rpc, Writes, Parks, Plain, Parked, Suspends, SetSafe
  <2>6. 6 \in DOMAIN StartList /\ (\A j \in 2 + 1..6 - 1 : SetSafe(StartList[j]))
        /\ \A i \in DOMAIN StartList : i # 2 => Plain(StartList[i])
    BY <2>1, <2>3, <2>4, <2>5
  <2> QED  BY <2>2, <2>6, <1>a
<1>4. Tidy(BootList) /\ ~Parking(BootList) /\ \A op \in {"resume", "start"} : Natal(op, BootList)
  <2>1. DOMAIN BootList = 1..7
    BY DEF BootList
  <2>2. /\ BootList[2].do = "assign" /\ BootList[2].err # "casFailed"
        /\ BootList[7].do = "set" /\ BootList[7].arg \notin Parked
    BY DEF BootList
  <2>3. SetSafe(BootList[3]) /\ SetSafe(BootList[4]) /\ SetSafe(BootList[5]) /\ SetSafe(BootList[6])
    BY DEF BootList
  <2>4. Plain(BootList[1]) /\ Plain(BootList[3]) /\ Plain(BootList[4]) /\ Plain(BootList[5])
    BY DEF BootList
  <2>5. Plain(BootList[6]) /\ Plain(BootList[7])
    BY DEF BootList
  <2> HIDE DEF Do, Set, Cas, Rpc, Writes, Parks, Plain, Parked, Suspends, SetSafe
  <2>6. 7 \in DOMAIN BootList /\ (\A j \in 2 + 1..7 - 1 : SetSafe(BootList[j]))
        /\ \A i \in DOMAIN BootList : i # 2 => Plain(BootList[i])
    BY <2>1, <2>3, <2>4, <2>5
  <2> QED  BY <2>2, <2>6, <1>a
<1>5. Tidy(StopList) /\ ~Parking(StopList) /\ \A op : Natal(op, StopList)
  <2>1. DOMAIN StopList = 1..5
    BY DEF StopList
  <2>2. Suspends(StopList[2]) /\ StopList[3].do = "set" /\ StopList[4].do = "cleanup" /\ StopList[5].do = "free"
    BY DEF StopList
  <2>3. Plain(StopList[1]) /\ Plain(StopList[2]) /\ Plain(StopList[4]) /\ Plain(StopList[5])
    BY DEF StopList
  <2>4. \A x : Plain(x) => ~Parks(x) /\ x.do \notin {"assign", "shim"}
    BY DEF Plain
  <2> HIDE DEF Do, Set, Cas, Rpc, Writes, Parks, Plain, Parked, Suspends, SetSafe
  <2>5. 3 \in DOMAIN StopList /\ Gives(StopList, 3)
        /\ (\A i \in DOMAIN StopList : StopList[i].do \notin {"assign", "shim"})
        /\ DOMAIN StopList \subseteq Int
        /\ (\A i \in DOMAIN StopList : i # 3 => ~Parks(StopList[i]))
    BY <2>1, <2>2, <2>3, <2>4 DEF Gives
  <2> QED  BY <2>2, <2>5, <1>k
<1>6. Tidy(HaltList) /\ ~Parking(HaltList) /\ \A op : Natal(op, HaltList)
  <2>1. DOMAIN HaltList = 1..7
    BY DEF HaltList
  <2>2. Suspends(HaltList[2]) /\ HaltList[3].do = "set" /\ HaltList[4].do = "cleanup" /\ HaltList[5].do = "free"
    BY DEF HaltList
  <2>3. Plain(HaltList[1]) /\ Plain(HaltList[2]) /\ Plain(HaltList[4]) /\ Plain(HaltList[5])
    BY DEF HaltList
  <2>4. Plain(HaltList[6]) /\ Plain(HaltList[7])
    BY DEF HaltList
  <2>5. \A x : Plain(x) => ~Parks(x) /\ x.do \notin {"assign", "shim"}
    BY DEF Plain
  <2> HIDE DEF Do, Set, Cas, Rpc, Writes, Parks, Plain, Parked, Suspends, SetSafe
  <2>6. 3 \in DOMAIN HaltList /\ Gives(HaltList, 3)
        /\ (\A i \in DOMAIN HaltList : HaltList[i].do \notin {"assign", "shim"})
        /\ DOMAIN HaltList \subseteq Int
        /\ (\A i \in DOMAIN HaltList : i # 3 => ~Parks(HaltList[i]))
    BY <2>1, <2>2, <2>3, <2>4, <2>5 DEF Gives
  <2> QED  BY <2>2, <2>6, <1>k
<1>7. Tidy(RebootSteps) /\ ~Parking(RebootSteps) /\ \A op : Natal(op, RebootSteps)
  <2>1. DOMAIN RebootSteps = 1..3
    BY DEF RebootSteps
  <2>2. Plain(RebootSteps[1]) /\ Plain(RebootSteps[2]) /\ Plain(RebootSteps[3])
    BY DEF RebootSteps
  <2> HIDE DEF Do, Set, Cas, Rpc, Writes, Parks, Plain, Parked, Suspends, SetSafe
  <2>3. \A i \in DOMAIN RebootSteps : Plain(RebootSteps[i])
    BY <2>1, <2>2
  <2> QED  BY <2>3, <1>p
<1>8. Tidy(KillList) /\ ~Parking(KillList) /\ \A op : Natal(op, KillList)
  <2>1. DOMAIN KillList = 1..9
    BY DEF KillList
  <2>2. Plain(KillList[1]) /\ Plain(KillList[2]) /\ Plain(KillList[3]) /\ Plain(KillList[4])
    BY DEF KillList
  <2>3. Plain(KillList[5]) /\ Plain(KillList[6]) /\ Plain(KillList[7]) /\ Plain(KillList[8])
    BY DEF KillList
  <2>4. Plain(KillList[9])
    BY DEF KillList
  <2> HIDE DEF Do, Set, Cas, Rpc, Writes, Parks, Plain, Parked, Suspends, SetSafe
  <2>5. \A i \in DOMAIN KillList : Plain(KillList[i])
    BY <2>1, <2>2, <2>3, <2>4
  <2> QED  BY <2>5, <1>p
<1>9. Tidy(EndList) /\ ~Parking(EndList) /\ \A op : Natal(op, EndList)
  <2>1. DOMAIN EndList = 1..10
    BY DEF EndList
  <2>2. Plain(EndList[1]) /\ Plain(EndList[2]) /\ Plain(EndList[3]) /\ Plain(EndList[4])
    BY DEF EndList
  <2>3. Plain(EndList[5]) /\ Plain(EndList[6]) /\ Plain(EndList[7]) /\ Plain(EndList[8])
    BY DEF EndList
  <2>4. Plain(EndList[9]) /\ Plain(EndList[10])
    BY DEF EndList
  <2> HIDE DEF Do, Set, Cas, Rpc, Writes, Parks, Plain, Parked, Suspends, SetSafe
  <2>5. \A i \in DOMAIN EndList : Plain(EndList[i])
    BY <2>1, <2>2, <2>3, <2>4
  <2> QED  BY <2>5, <1>p
<1> HIDE DEF Do, Set, Cas, Rpc, Writes, Parks, Plain, Parked, Suspends, SetSafe, Tidy, Natal, Parking
<1> QED
  BY <1>c, <1>1, <1>2, <1>3, <1>4, <1>5, <1>6, <1>7, <1>8, <1>9, Written DEF StepsOf, OpNames

\* A driver without a shim gets none from what is asked of it, and refuses to pause or stop.
LEMMA NoneStays ==
    ASSUME NEW s \in Sandboxes, handle[s] = "none", NEW m \in Methods
    PROVE  /\ \A r \in Mishaps(s, m) \union {Answer(s, m)} : r.handle = "none"
           /\ m \in {"Pause", "Stop"} => ~Answer(s, m).ok
<1> USE DEF Reply, Refuse, LoadFailed
<1>1. Answer(s, m).handle = "none" /\ (m \in {"Pause", "Stop"} => ~Answer(s, m).ok)
  BY DEF Answer, Methods, CreateReply, PauseReply, ResumeReply, StopReply, RebootReply, KillReply, CanBoot,
     Known
<1>2. ASSUME NEW r \in Mishaps(s, m) PROVE r.handle = "none"
  BY <1>2 DEF Mishaps, Ended, Ends
<1> QED  BY <1>1, <1>2

\* Only ensureShim gives a sandbox without one a shim; a pause or a stop of it fails.
LEMMA ShimStep ==
    ASSUME ServiceInv, TypeOK, NEW c \in Callers, Step(c), NEW s \in Sandboxes, handle[s] = "none"
    PROVE  /\ handle'[s] = "none" \/ (At(c, "shim") /\ s = Box(c))
           /\ s = Box(c) /\ call[c].todo # <<>> /\ Suspends(Head(call[c].todo)) => Fail(c)
<1> USE DEF ServiceInv
<1>0. DOMAIN handle = Sandboxes
  BY DEF TypeOK
<1>b. ASSUME NEW kind, At(c, kind)
      PROVE  Box(c) \in Sandboxes /\ Head(call[c].todo) \in Steps
  BY <1>b, HeadTyped DEF At, Box
<1>n. ASSUME NEW kind, kind # "rpc", At(c, kind)
      PROVE  ~Suspends(Head(call[c].todo))
  BY <1>n DEF At, Suspends
<1>1. CASE ReadState(c) \/ CompareAndSet(c) \/ Assign(c) \/ Free(c) \/ RecordSnapshot(c)
           \/ DropSnapshots(c) \/ DropRow(c) \/ Reread(c) \/ RefreshAgent(c) \/ PrepareNetwork(c)
           \/ CleanupNetwork(c) \/ PrepareFiles(c) \/ MountRootfs(c) \/ UnmountRootfs(c) \/ RemoveRootfs(c)
  <2>1. UNCHANGED handle
    BY <1>1 DEF ReadState, CompareAndSet, Assign, Free, RecordSnapshot, DropSnapshots, DropRow, Reread,
                RefreshAgent, PrepareNetwork, CleanupNetwork, PrepareFiles, MountRootfs, UnmountRootfs,
                RemoveRootfs, hostVars
  <2>2. \E kind : kind # "rpc" /\ At(c, kind)
    BY <1>1 DEF ReadState, CompareAndSet, Assign, Free, RecordSnapshot, DropSnapshots, DropRow, Reread,
                RefreshAgent, PrepareNetwork, CleanupNetwork, PrepareFiles, MountRootfs, UnmountRootfs,
                RemoveRootfs
  <2> QED  BY <1>n, <2>1, <2>2
<1>2. CASE CallRuntime(c)
  <2>1. Box(c) \in Sandboxes /\ Arg(c) \in Methods
    BY <1>b, <1>2, HeadTyped DEF CallRuntime, At, Arg, Steps
  <2>2. PICK r \in Mishaps(Box(c), Arg(c)) \union {Answer(Box(c), Arg(c))} : Receive(Box(c), r)
    BY <1>2 DEF CallRuntime
  <2>3. handle'[s] = "none"
    BY <1>0, <2>1, <2>2, NoneStays DEF Receive
  <2>4. Answer(Box(c), Arg(c)).ok \/ Fail(c)
    BY <1>2 DEF CallRuntime
  <2>5. s = Box(c) /\ Suspends(Head(call[c].todo)) => ~Answer(Box(c), Arg(c)).ok
    BY <2>1, NoneStays DEF Suspends, Arg
  <2> QED  BY <2>3, <2>4, <2>5
<1>3. CASE KillUnready(c)
  <2>1. Box(c) \in Sandboxes /\ "Kill" \in Methods
    BY <1>b, <1>3 DEF KillUnready, Methods
  <2>2. PICK r \in Mishaps(Box(c), "Kill") \union {Answer(Box(c), "Kill")} : Receive(Box(c), r)
    BY <1>3 DEF KillUnready
  <2>3. handle'[s] = "none"
    BY <1>0, <2>1, <2>2, NoneStays DEF Receive
  <2> QED  BY <1>3, <1>n, <2>3 DEF KillUnready
<1>4. CASE EnsureShim(c)
  <2>1. handle'[s] = handle[s] \/ s = Box(c)
    BY <1>0, <1>4 DEF EnsureShim
  <2> QED  BY <1>4, <1>n, <2>1 DEF EnsureShim
<1>5. CASE TerminateShim(c) \/ RemoveDirectory(c)
  <2>1. handle'[s] = "none"
    BY <1>0, <1>5 DEF TerminateShim, RemoveDirectory, LoseShim
  <2> QED  BY <1>5, <1>n, <2>1 DEF TerminateShim, RemoveDirectory
<1>6. CASE RollBack(c)
  BY <1>6 DEF RollBack
<1> QED  BY <1>1, <1>2, <1>3, <1>4, <1>5, <1>6 DEF Step

\* What a step does to the row of its sandbox.
LEMMA RowStep ==
    ASSUME ServiceInv, Serving, NoLoss, NEW c \in Callers, ~call[c].cancelled, Step(c)
    PROVE  /\ At(c, "cleanup") => Passes(c)
           /\ At(c, "free") =>
                 (rows[Box(c)] = NoRow /\ UNCHANGED rows) \/ rows' = [rows EXCEPT ![Box(c)].slot = 0]
           /\ At(c, "assign") =>
                 UNCHANGED rows \/ (Passes(c) /\ \E n : rows' = [rows EXCEPT ![Box(c)].slot = n])
           /\ At(c, "cas") => UNCHANGED rows \/ Moves(c)
           /\ At(c, "delrow") => UNCHANGED rows \/ rows' = [rows EXCEPT ![Box(c)] = NoRow]
           /\ (\A kind \in {"assign", "free", "cas", "delrow"} : ~At(c, kind)) => UNCHANGED rows
<1> USE DEF ServiceInv
<1>0. ASSUME NEW kind, At(c, kind)
      PROVE  call[c].todo # <<>> /\ (Succeed(c) => Passes(c))
  BY <1>0, OutcomeTurns DEF At
<1>i. ~Broken(c, "db")
  BY DEF Broken, Fault, NoLoss
<1>h. HasRow(Box(c)) <=> rows[Box(c)] # NoRow
  BY DEF HasRow
<1>1. CASE PrepareNetwork(c) \/ CleanupNetwork(c) \/ CallRuntime(c) \/ KillUnready(c) \/ EnsureShim(c)
           \/ TerminateShim(c) \/ RemoveDirectory(c) \/ RefreshAgent(c) \/ UnmountRootfs(c) \/ RemoveRootfs(c)
           \/ Reread(c) \/ ReadState(c) \/ RecordSnapshot(c) \/ DropSnapshots(c) \/ PrepareFiles(c)
           \/ MountRootfs(c)
  <2>1. UNCHANGED rows /\ (At(c, "cleanup") => Succeed(c)) /\ ~At(c, "free")
    BY <1>1 DEF PrepareNetwork, CleanupNetwork, CallRuntime, KillUnready, EnsureShim, TerminateShim,
                RemoveDirectory, RefreshAgent, UnmountRootfs, RemoveRootfs, Reread, ReadState, RecordSnapshot,
                DropSnapshots, PrepareFiles, MountRootfs, At, storeVars, InsertSnapshot, DeleteSnapshots
  <2> QED  BY <1>0, <2>1
<1>2. CASE CompareAndSet(c)
  <2>1. At(c, "cas") /\ (UNCHANGED rows \/ Moves(c))
    BY <1>2 DEF CompareAndSet, UpdateState, Moves, storeVars
  <2> QED  BY <2>1 DEF At
<1>3. CASE Assign(c)
  <2>1. At(c, "assign")
    BY <1>3 DEF Assign
  <2>2. UNCHANGED rows \/ \E n : rows' = [rows EXCEPT ![Box(c)].slot = n]
    BY <1>3 DEF Assign, AssignSlot, storeVars
  <2>3. UNCHANGED rows \/ Passes(c)
    BY <1>0, <2>1, StepTurns DEF At, Looks, storeVars
  <2> QED  BY <2>1, <2>2, <2>3 DEF At
<1>4. CASE Free(c)
  <2>1. At(c, "free") /\ (FreeSlot(Box(c)) \/ (~HasRow(Box(c)) /\ UNCHANGED rows))
    BY <1>4, <1>i DEF Free, storeVars
  <2> QED  BY <2>1, <1>h DEF At, FreeSlot
<1>5. CASE DropRow(c)
  <2>1. At(c, "delrow") /\ (UNCHANGED rows \/ rows' = [rows EXCEPT ![Box(c)] = NoRow])
    BY <1>5 DEF DropRow, DeleteRow, storeVars
  <2> QED  BY <2>1 DEF At
<1>6. CASE RollBack(c)
  BY <1>6 DEF RollBack, At, storeVars
<1> QED  BY <1>1, <1>2, <1>3, <1>4, <1>5, <1>6 DEF Step

\* A call's own step leaves it tidy, and it no longer has the slot of a new sandbox to take.
LEMMA OwnStep ==
    ASSUME ServiceInv, TypeOK, ParkedInv, NEW c \in Callers, Step(c)
    PROVE  /\ call'[c].op = "none" => call'[c].todo = <<>>
           /\ ~call'[c].cancelled /\ Tidy(call'[c].todo) /\ Natal(call'[c].op, call'[c].todo)
           /\ call'[c] = Idle \/ (call'[c].op = call[c].op /\ call'[c].box = call[c].box)
           /\ ~Unborn(c)'
           /\ (Box(c) \in Sandboxes => handle[Box(c)] = "none") /\ ~Parking(call[c].todo) =>
                 ~Parking(call'[c].todo)
<1> DEFINE q == call[c].todo
           Born(t) == call[c].op = "create" => t = <<>> \/ t[1].do # "assign"
           Calm(t) == (Box(c) \in Sandboxes => handle[Box(c)] = "none") /\ ~Parking(q) => ~Parking(t)
<1>0. q \in Seq(Steps) /\ Tidy(q) /\ Natal(call[c].op, q) /\ ~call[c].cancelled
  BY DEF ServiceInv, CallsOK, CallRecords, ParkedInv
<1>e. Tidy(<<>>) /\ ~Parking(<<>>) /\ \A op : Natal(op, <<>>)
  BY DEF Tidy, Parking, Natal
<1>1. ASSUME q = <<>>
      PROVE  call'[c] = Idle
  BY <1>1, StepTurns DEF ParkedInv
<1>2. ASSUME NEW t \in Seq(Steps), NEW x, Turns(c, t, x), Tidy(t), Natal(call[c].op, t), Born(t), Calm(t)
      PROVE  /\ call'[c].op = "none" => call'[c].todo = <<>>
             /\ ~call'[c].cancelled /\ Tidy(call'[c].todo) /\ Natal(call'[c].op, call'[c].todo)
             /\ call'[c] = Idle \/ (call'[c].op = call[c].op /\ call'[c].box = call[c].box)
             /\ ~Unborn(c)'
             /\ Calm(call'[c].todo)
  <2>1. call'[c].todo = t /\ (t # <<>> => call'[c].op = call[c].op) /\ (call'[c].op = "none" => t = <<>>)
        /\ ~call'[c].cancelled
        /\ (call'[c] = Idle \/ (call'[c].op = call[c].op /\ call'[c].box = call[c].box))
    BY <1>0, <1>2 DEF Turns
  <2>2. Natal(call'[c].op, t)
    BY <1>2, <1>e, <2>1
  <2>3. ~Unborn(c)'
    <3>1. t # <<>> => Head(t) = t[1]
      OBVIOUS
    <3> QED  BY <1>2, <2>1, <3>1 DEF Unborn, At
  <2> QED  BY <1>2, <2>1, <2>2, <2>3
<1>3. CASE q # <<>>
  <2>h. q[1] = Head(q) /\ q[1] \in Steps /\ Tail(q) \in Seq(Steps) /\ Err(c) = q[1].err /\ Arg(c) = q[1].arg
        /\ Box(c) \in Sandboxes
    BY <1>0, <1>3, HeadTyped, HeadTailProperties DEF Err, Arg, Box, ServiceInv
  <2>1. CASE Recovers(c)
    <3>1. Err(c) \in Errors \ {"ignore"}
      BY <1>3, <2>1, HeadTyped DEF Recovers, ServiceInv
    <3>2. Recovery(Err(c)) \in Seq(Steps) /\ Born(Recovery(Err(c))) /\ Calm(Recovery(Err(c)))
          /\ Tidy(Recovery(Err(c))) /\ Natal(call[c].op, Recovery(Err(c)))
      BY <3>1, RecoveryTypes, RecoveryTidy
    <3> QED  BY <1>2, <2>1, <3>2 DEF Recovers
  <2>2. CASE Passes(c) /\ ~Recovers(c)
    <3>1. handle[Box(c)] = "none" => ~Suspends(q[1])
      <4>1. Fail(c) => Recovers(c) \/ Err(c) = "ignore"
        BY <1>3, OutcomeTurns DEF ParkedInv, ServiceInv
      <4>2. Suspends(q[1]) => Err(c) # "ignore"
        BY <2>h DEF Suspends
      <4> QED  BY <1>3, <2>2, <2>h, <4>1, <4>2, ShimStep
    <3>2. Tidy(Tail(q)) /\ Natal(call[c].op, Tail(q)) /\ Born(Tail(q))
      BY <1>0, <1>3, TidyTail
    <3>3. Calm(Tail(q))
      BY <1>0, <1>3, <2>h, <3>1, TidyTail
    <3> QED  BY <1>2, <2>2, <2>h, <3>2, <3>3 DEF Passes
  <2>3. CASE Looks(c)
    <3> DEFINE r == <<Cas(Arg(c), Err(c))>> \o Tail(q)
    <3>1. q[1].do = "set"
      BY <2>3, <2>h DEF Looks, At
    <3>2. /\ r # <<>> /\ r[1] = Cas(q[1].arg, q[1].err) /\ Tidy(r) /\ Natal(call[c].op, r)
          /\ (Parking(r) => Parking(q))
      BY <1>0, <1>3, <2>h, <3>1, TidyRead
    <3>3. r \in Seq(Steps) /\ r[1].do = "cas"
      <4>1. Cas(q[1].arg, q[1].err) \in Steps /\ Cas(q[1].arg, q[1].err).do = "cas"
        BY <2>h, <3>1 DEF Cas, Steps
      <4>2. <<Cas(q[1].arg, q[1].err)>> \in Seq(Steps)
        BY <4>1
      <4> QED  BY <2>h, <3>2, <4>1, <4>2, ConcatProperties
    <3>4. Turns(c, r, rows[Box(c)].state)
      BY <2>3 DEF Looks
    <3> HIDE DEF r
    <3> QED  BY <1>2, <3>2, <3>3, <3>4
  <2>4. Passes(c) \/ Recovers(c) \/ Looks(c)
    BY <1>3, StepTurns DEF ParkedInv
  <2> QED  BY <2>1, <2>2, <2>3, <2>4
<1>4. CASE q = <<>>
  BY <1>1, <1>4, <1>e DEF Idle, Unborn, At
<1> QED  BY <1>3, <1>4

\* A call that will clear the slot of a parked sandbox still will after a step that does not.
LEMMA ClearsStep ==
    ASSUME ServiceInv, TypeOK, ParkedInv, NoLoss, NEW c \in Callers, Step(c), Box(c) \in Sandboxes,
           NEW x \in Parked, rows[Box(c)].state = x, rows[Box(c)].slot > 0, rows'[Box(c)] = rows[Box(c)],
           Clears(c, x)
    PROVE  Clears(c, x)' /\ Box(c)' = Box(c)
<1> DEFINE q == call[c].todo
<1>0. /\ q \in Seq(Steps) /\ Immune(c, "db") /\ ~call[c].cancelled
      /\ rows[Box(c)] # NoRow /\ rows[Box(c)] \in RowRecords
  BY DEF ServiceInv, CallsOK, CallRecords, Parked, ParkedInv, NoLoss, Immune, StoreTypeOK, RowRecords, NoRow
<1>e. ~FreeAhead(<<>>) /\ ~MoveAhead(<<>>)
  BY DEF FreeAhead, MoveAhead
<1>1. q # <<>>
  BY <1>e DEF Clears, At
<1>2. q[1] = Head(q) /\ Tail(q) \in Seq(Steps) /\ q[1] \in Steps /\ Err(c) = q[1].err /\ Arg(c) = q[1].arg
  BY <1>0, <1>1, HeadTailProperties DEF Err, Arg
<1>t. ASSUME NEW t, NEW y, Turns(c, t, y), FreeAhead(t) \/ MoveAhead(t)
      PROVE  Clears(c, x)' /\ Box(c)' = Box(c)
  BY <1>e, <1>t DEF Turns, Clears, Box
<1>s. \/ /\ Passes(c)
         /\ \/ q[1].do \notin {"set", "cas"}
            \/ q[1].do = "cas" /\ Moves(c)
            \/ q[1].do = "set" /\ rows[Box(c)].state = Arg(c)
            \/ q[1].do = "cas" /\ rows[Box(c)].state # call[c].seen
      \/ /\ Recovers(c) /\ q[1].do \notin {"snapshot", "set"}
         /\ q[1].do = "cas" => rows[Box(c)].state # call[c].seen
      \/ Looks(c) /\ q[1].do = "set"
  BY <1>0, <1>1, <1>2, StepTurns DEF ParkedInv, At, Looks
<1>3. CASE FreeAhead(q)
  <2>1. q[1].do # "free"
    <3>1. q[1].do = "free" => rows' = [rows EXCEPT ![Box(c)].slot = 0]
      BY <1>0, <1>1, <1>2, RowStep DEF ParkedInv, At
    <3> QED  BY <1>0, <3>1 DEF ServiceInv, StoreTypeOK, RowRecords
  <2>2. q[1].do = "cleanup" /\ FreeAhead(Tail(q))
    BY <1>0, <1>1, <1>3, <2>1, TidyTail
  <2>3. Passes(c)
    BY <1>0, <1>1, <1>2, <2>2, RowStep DEF ParkedInv, At
  <2> QED  BY <1>t, <2>2, <2>3 DEF Passes
<1>4. CASE MoveAhead(q)
  <2>1. CASE q[1].do = "set" /\ q[1].arg \notin Parked
    <3>1. Looks(c)
      BY <1>2, <1>s, <2>1
    <3> DEFINE r == <<Cas(Arg(c), Err(c))>> \o Tail(q)
    <3>2. r # <<>> /\ r[1] = Cas(q[1].arg, q[1].err)
      BY <1>0, <1>1, <1>2, <2>1, TidyRead
    <3>3. call'[c].todo = r /\ call'[c].seen = x /\ call'[c].box = call[c].box
      BY <3>1, <3>2 DEF Looks, Turns
    <3> HIDE DEF r
    <3>4. Head(r) = r[1]
      BY <3>2
    <3>5. Head(call'[c].todo).do = "cas" /\ Head(call'[c].todo).arg = q[1].arg
      BY <3>2, <3>3, <3>4 DEF Cas
    <3> QED  BY <2>1, <3>2, <3>3, <3>5 DEF Clears, At, Arg, Box
  <2>2. CASE SetSafe(q[1]) /\ MoveAhead(Tail(q))
    <3>1. CASE Passes(c)
      BY <1>t, <2>2, <3>1 DEF Passes
    <3>2. CASE Recovers(c) /\ q[1].do # "snapshot"
      <4>1. Err(c) \in {"setFailed", "setAbandon"}
        BY <1>2, <2>2, <3>2 DEF SetSafe, Recovers
      <4> QED  BY <1>t, <3>2, <4>1, RecoveryTidy DEF Recovers
    <3> QED  BY <1>s, <2>2, <3>1, <3>2 DEF SetSafe, Writes
  <2> QED  BY <1>0, <1>1, <1>4, <2>1, <2>2, TidyTail
<1>5. CASE At(c, "cas") /\ Arg(c) \notin Parked /\ call[c].seen = x
  <2>1. Moves(c)
    BY <1>2, <1>5, <1>s DEF At
  <2>2. rows'[Box(c)].state = Arg(c)
    BY <1>0, <2>1 DEF Moves, ServiceInv, StoreTypeOK, RowRecords
  <2> QED  BY <1>5, <2>2
<1> QED  BY <1>3, <1>4, <1>5 DEF Clears

\* Only a call with steps left clears anything, so its sandbox is one.
LEMMA ClearerActive ==
    ASSUME ServiceInv, NEW c \in Callers, NEW x, Clears(c, x)
    PROVE  call[c].todo # <<>> /\ Box(c) \in Sandboxes
<1>1. call[c].todo # <<>>
  BY DEF Clears, FreeAhead, MoveAhead, At
<1> QED  BY <1>1, HeadTyped DEF ServiceInv, Box

\* After a step of a call a parked sandbox with a slot has still someone to clear it.
LEMMA HoldsStep ==
    ASSUME ServiceInv, TypeOK, ParkedInv, NoLoss, NEW c \in Callers, Step(c),
           NEW s \in Sandboxes, NEW x \in Parked, rows'[s].state = x, rows'[s].slot > 0
    PROVE  \E d \in Callers : Box(d)' = s /\ Clears(d, x)'
<1> DEFINE q == call[c].todo
<1>0. /\ q \in Seq(Steps) /\ ~call[c].cancelled /\ Tidy(q) /\ Natal(call[c].op, q) /\ DOMAIN rows = Sandboxes
      /\ rows[s] = NoRow \/ rows[s] \in RowRecords
  BY DEF ServiceInv, CallsOK, CallRecords, ParkedInv, StoreTypeOK, RowRecords
<1>e. ~FreeAhead(<<>>) /\ ~MoveAhead(<<>>)
  BY DEF FreeAhead, MoveAhead
<1>1. CASE rows'[s] = rows[s]
  <2>1. PICK d \in Callers : Box(d) = s /\ Clears(d, x)
    BY <1>1 DEF ParkedInv
  <2>2. CASE d # c
    <3>1. call'[d] = call[d]
      BY <2>2, StepTurns DEF ParkedInv
    <3>2. Box(d)' = s /\ Clears(d, x)'
      BY <2>1, <3>1 DEF Box, Clears, At, Arg
    <3> QED  BY <3>2
  <2>3. CASE d = c
    BY <1>1, <2>1, <2>3, ClearsStep
  <2> QED  BY <2>2, <2>3
<1>2. CASE rows'[s] # rows[s]
  <2>1. rows' # [rows EXCEPT ![Box(c)] = NoRow]
    BY <1>0, <1>2 DEF NoRow, Parked
  <2>2. rows' # [rows EXCEPT ![Box(c)].slot = 0]
    BY <1>0, <1>2 DEF RowRecords, NoRow
  <2>3. \/ At(c, "assign") /\ Passes(c) /\ \E n : rows' = [rows EXCEPT ![Box(c)].slot = n]
        \/ At(c, "cas") /\ Moves(c)
    BY <1>0, <1>2, <2>1, <2>2, RowStep DEF ParkedInv
  <2>4. q # <<>> /\ s = Box(c)
    BY <1>0, <1>2, <2>3 DEF At, Moves
  <2>h. q[1] = Head(q) /\ Err(c) = q[1].err /\ Arg(c) = q[1].arg /\ 1 \in DOMAIN q
    BY <1>0, <2>4, HeadTailProperties, LenProperties, EmptySeq DEF Err, Arg
  <2>5. CASE At(c, "assign") /\ Passes(c) /\ \E n : rows' = [rows EXCEPT ![Box(c)].slot = n]
    <3>1. rows[s].state = x
      BY <1>0, <2>4, <2>5 DEF RowRecords, NoRow
    <3>2. q[1].err # "casFailed"
      <4>1. ~Unborn(c)
        BY <2>4, <3>1 DEF ParkedInv
      <4>2. call[c].op # "create"
        BY <2>5, <4>1 DEF Unborn
      <4> QED  BY <1>0, <2>5, <2>h, <4>2 DEF Natal, At
    <3>3. MoveAhead(Tail(q))
      BY <1>0, <2>4, <2>5, <2>h, <3>2, TidyTail DEF At
    <3>4. Box(c)' = s /\ Clears(c, x)'
      BY <1>e, <2>4, <2>5, <3>3 DEF Passes, Turns, Box, Clears
    <3> QED  BY <3>4
  <2>6. CASE At(c, "cas") /\ Moves(c)
    <3>1. Arg(c) = x
      BY <1>0, <2>4, <2>6 DEF Moves, RowRecords, NoRow
    <3>2. FreeAhead(Tail(q))
      BY <1>0, <2>4, <2>6, <2>h, <3>1, TidyTail DEF At, Parks, Writes
    <3>3. Passes(c)
      BY <1>2, <2>4, <2>6, <2>h, StepTurns DEF ParkedInv, At, Looks
    <3>4. Box(c)' = s /\ Clears(c, x)'
      BY <1>e, <2>4, <3>2, <3>3 DEF Passes, Turns, Box, Clears
    <3> QED  BY <3>4
  <2> QED  BY <2>3, <2>5, <2>6
<1> QED  BY <1>1, <1>2

\* While a new sandbox has no slot, a step of another call leaves it so.
LEMMA UnbornStep ==
    ASSUME ServiceInv, TypeOK, ParkedInv, NoLoss, NEW c \in Callers, Step(c),
           NEW e \in Callers, e # c, Unborn(e)
    PROVE  /\ handle'[Box(e)] = "none" /\ rows'[Box(e)].state \notin Parked
           /\ \A d \in Callers : Box(d)' = Box(e) => ~Parking(call'[d].todo)
<1>0. /\ Box(e) \in Sandboxes /\ handle[Box(e)] = "none" /\ rows[Box(e)].state \notin Parked
      /\ \A d \in Callers : Box(d) = Box(e) => ~Parking(call[d].todo)
      /\ call[e].op = "create" /\ Box(e) # Nobody
  BY HeadTyped, ServiceAssumption DEF ParkedInv, Unborn, At, Box, ServiceInv
<1>q. /\ call[c].todo \in Seq(Steps) /\ ~call[c].cancelled /\ Natal(call[c].op, call[c].todo)
      /\ DOMAIN rows = Sandboxes
      /\ rows[Box(e)] = NoRow \/ rows[Box(e)] \in RowRecords
  BY <1>0 DEF ServiceInv, CallsOK, CallRecords, ParkedInv, StoreTypeOK, RowRecords
<1>h. call[c].todo # <<>> => Head(call[c].todo) = call[c].todo[1] /\ 1 \in DOMAIN call[c].todo
  BY <1>q, LenProperties, EmptySeq
<1>1. handle'[Box(e)] = "none"
  <2>1. At(c, "shim") => call[c].op = "create"
    BY <1>q, <1>h DEF Natal, At
  <2>2. Box(c) = Box(e) => call[c].op # "create"
    BY <1>0 DEF ParkedInv
  <2> QED  BY <1>0, <2>1, <2>2, ShimStep
<1>2. rows'[Box(e)].state \notin Parked
  <2>1. At(c, "cas") /\ Box(c) = Box(e) => Arg(c) \notin Parked
    <3>1. At(c, "cas") /\ Arg(c) \in Parked => Parking(call[c].todo)
      BY <1>h DEF Parking, Parks, Writes, At, Arg
    <3> QED  BY <1>0, <3>1
  <2>2. \/ UNCHANGED rows
        \/ rows' = [rows EXCEPT ![Box(c)] = NoRow]
        \/ \E n : rows' = [rows EXCEPT ![Box(c)].slot = n]
        \/ At(c, "cas") /\ rows' = [rows EXCEPT ![Box(c)].state = Arg(c)]
    <3>1. Serving
      BY DEF ParkedInv
    <3>2. At(c, "cas") => UNCHANGED rows \/ Moves(c)
      BY ZenonT(30), <1>q, <3>1, RowStep
    <3>3. At(c, "free") => UNCHANGED rows \/ rows' = [rows EXCEPT ![Box(c)].slot = 0]
      BY ZenonT(30), <1>q, <3>1, RowStep
    <3>4. At(c, "assign") => UNCHANGED rows \/ \E n : rows' = [rows EXCEPT ![Box(c)].slot = n]
      BY ZenonT(30), <1>q, <3>1, RowStep
    <3>5. At(c, "delrow") => UNCHANGED rows \/ rows' = [rows EXCEPT ![Box(c)] = NoRow]
      BY ZenonT(30), <1>q, <3>1, RowStep
    <3>6. (\A kind \in {"assign", "free", "cas", "delrow"} : ~At(c, kind)) => UNCHANGED rows
      BY ZenonT(30), <1>q, <3>1, RowStep
    <3> HIDE DEF At
    <3> QED  BY <3>2, <3>3, <3>4, <3>5, <3>6 DEF Moves
  <2>3. NoRow.state \notin Parked
    BY DEF NoRow, Parked
  <2> QED  BY <1>0, <1>q, <2>1, <2>2, <2>3 DEF RowRecords, NoRow
<1>3. ASSUME NEW d \in Callers, Box(d)' = Box(e)
      PROVE  ~Parking(call'[d].todo)
  <2>1. CASE d # c
    <3>1. call'[d] = call[d]
      BY <2>1, StepTurns DEF ParkedInv
    <3> QED  BY <1>0, <1>3, <3>1 DEF Box
  <2>2. CASE d = c
    <3>1. Box(c) = Box(e)
      BY <1>0, <1>3, <2>2, OwnStep DEF Box, Idle
    <3> QED  BY <1>0, <2>2, <3>1, OwnStep
  <2> QED  BY <2>1, <2>2
<1> QED  BY <1>1, <1>2, <1>3

\* The invariant is kept by every step of a call.
LEMMA ParkedStep ==
    ASSUME ServiceInv, TypeOK, ParkedInv, NoLoss, NEW c \in Callers, Step(c)
    PROVE  ParkedInv'
<1>u. used' = used
  BY DEF Step, ReadState, CompareAndSet, Assign, Free, RecordSnapshot, DropSnapshots, DropRow, Reread,
         PrepareNetwork, CleanupNetwork, CallRuntime, KillUnready, EnsureShim, TerminateShim, RemoveDirectory,
         RefreshAgent, PrepareFiles, MountRootfs, UnmountRootfs, RemoveRootfs, RollBack
<1>d. \A d \in Callers : d # c => call'[d] = call[d]
  BY StepTurns DEF ParkedInv
<1>1. Serving'
  BY <1>d, OwnStep DEF ParkedInv, Serving
<1>2. ASSUME NEW d \in Callers
      PROVE  /\ ~call'[d].cancelled
             /\ Tidy(call'[d].todo) /\ Natal(call'[d].op, call'[d].todo)
             /\ call'[d].op # "none" => Box(d)' \in used'
  <2>1. CASE d # c
    BY <1>d, <1>u, <2>1 DEF ParkedInv, Box
  <2>2. CASE d = c
    BY <1>u, <2>2, OwnStep DEF ParkedInv, Box, Idle
  <2> QED  BY <2>1, <2>2
<1>3. ASSUME NEW s \in Sandboxes \ used'
      PROVE  rows'[s] = NoRow /\ handle'[s] = "none"
  <2>1. rows[s] = NoRow /\ handle[s] = "none"
    BY <1>u, <1>3 DEF ParkedInv
  <2>2. call[c].todo # <<>> => s # Box(c)
    BY <1>u, <1>3 DEF ParkedInv, Serving
  <2>3. handle'[s] = "none"
    BY <2>1, <2>2, ShimStep DEF At
  <2>4. UNCHANGED rows \/ \E n : rows' = [rows EXCEPT ![Box(c)] = n]
    BY RowStep DEF ParkedInv, Moves
  <2>5. call[c].todo = <<>> => UNCHANGED rows
    BY RowStep DEF ParkedInv, At
  <2> QED  BY <2>1, <2>2, <2>3, <2>4, <2>5 DEF TypeOK, StoreTypeOK
<1>4. ASSUME NEW d \in Callers, NEW e \in Callers, d # e, call'[d].op = "create", call'[e].op = "create"
      PROVE  Box(d)' # Box(e)'
  <2>1. \A f \in Callers : call'[f].op = "create" => call[f].op = "create" /\ call'[f].box = call[f].box
    BY <1>d, OwnStep DEF Idle
  <2> QED  BY <1>4, <2>1 DEF ParkedInv, Box
<1>5. ASSUME NEW e \in Callers, Unborn(e)'
      PROVE  /\ handle'[Box(e)'] = "none" /\ rows'[Box(e)'].state \notin Parked
             /\ \A d \in Callers : Box(d)' = Box(e)' => ~Parking(call'[d].todo)
  <2>1. e # c
    BY <1>5, OwnStep
  <2>2. Unborn(e) /\ Box(e)' = Box(e)
    BY <1>5, <1>d, <2>1 DEF Unborn, At, Box
  <2> QED  BY <2>1, <2>2, UnbornStep
<1>6. \A s \in Sandboxes : rows'[s].state \in Parked /\ rows'[s].slot > 0 =>
          \E d \in Callers : Box(d)' = s /\ Clears(d, rows[s].state)'
  <2>1. ASSUME NEW s \in Sandboxes, NEW x \in Parked, rows'[s].state = x, rows'[s].slot > 0
        PROVE  \E d \in Callers : Box(d)' = s /\ Clears(d, x)'
    BY <2>1, HoldsStep
  <2> QED  BY <2>1 DEF Clears
<1> QED  BY <1>1, <1>2, <1>3, <1>4, <1>5, <1>6 DEF ParkedInv

\* And by a call's arrival: a create is the first call for its sandbox.
LEMMA ParkedBegin ==
    ASSUME ServiceInv, TypeOK, ParkedInv, Discipline # "any",
           NEW c \in Callers, NEW op \in Ops, NEW s \in Sandboxes, Begin(c, op, s)
    PROVE  ParkedInv'
<1> DEFINE k == [Idle EXCEPT !.op = op, !.box = s, !.slot = rows[s].slot, !.todo = StepsOf(op, s)]
<1>0. /\ call' = [call EXCEPT ![c] = k] /\ DOMAIN call = Callers /\ op \in OpNames /\ "none" \notin OpNames
      /\ ~Active(c) /\ (op = "create" => InsertRow(s) /\ s \notin used)
      /\ (op # "create" => HasRow(s) /\ UNCHANGED rows)
      /\ DOMAIN rows = Sandboxes /\ used' = (IF op = "create" THEN used \union {s} ELSE used)
      /\ handle' = handle
  BY ServiceAssumption DEF Begin, Permitted, ServiceInv, CallsOK, StoreTypeOK, storeVars, hostVars, OpNames
<1>1. k.op = op /\ k.box = s /\ k.todo = StepsOf(op, s) /\ ~k.cancelled
  BY DEF Idle
<1> HIDE DEF k
<1>2. call'[c] = k /\ (\A d \in Callers : d # c => call'[d] = call[d]) /\ call[c].todo = <<>>
  BY <1>0 DEF ParkedInv, Serving, Active
<1>t. Tidy(k.todo) /\ Natal(op, k.todo) /\ ~Parking(k.todo)
  BY <1>0, <1>1, HandlersTidy
<1>r. op # "create" => s \in used
  BY <1>0 DEF ParkedInv, HasRow
<1>s. \A u \in Sandboxes : rows'[u] = rows[u] \/ (u = s /\ op = "create" /\ rows'[u].state \notin Parked)
  BY <1>0 DEF InsertRow, Parked
<1>b. \A d \in Callers : d # c /\ s \notin used => Box(d) # s \/ call[d].todo = <<>>
  BY DEF ParkedInv, Serving
<1>3. Serving'
  BY <1>0, <1>1, <1>2 DEF ParkedInv, Serving
<1>4. ASSUME NEW d \in Callers
      PROVE  /\ ~call'[d].cancelled
             /\ Tidy(call'[d].todo) /\ Natal(call'[d].op, call'[d].todo)
             /\ call'[d].op # "none" => Box(d)' \in used'
  <2>1. CASE d # c
    BY <1>0, <1>2, <2>1 DEF ParkedInv, Box
  <2>2. CASE d = c
    BY <1>0, <1>1, <1>2, <1>t, <1>r, <2>2 DEF Box
  <2> QED  BY <2>1, <2>2
<1>5. ASSUME NEW u \in Sandboxes \ used'
      PROVE  rows'[u] = NoRow /\ handle'[u] = "none"
  BY <1>0, <1>5, <1>s DEF ParkedInv
<1>6. ASSUME NEW d \in Callers, NEW e \in Callers, d # e, call'[d].op = "create", call'[e].op = "create"
      PROVE  Box(d)' # Box(e)'
  <2>1. \A f \in Callers : f # c /\ call'[f].op = "create" =>
            Box(f)' = Box(f) /\ Box(f) \in used /\ call[f].op = "create"
    BY <1>2 DEF ParkedInv, Box
  <2>2. call'[c].op = "create" => Box(c)' \notin used
    BY <1>0, <1>1, <1>2 DEF Box
  <2> QED  BY <1>6, <2>1, <2>2 DEF ParkedInv
<1>7. ASSUME NEW e \in Callers, Unborn(e)'
      PROVE  /\ handle'[Box(e)'] = "none" /\ rows'[Box(e)'].state \notin Parked
             /\ \A d \in Callers : Box(d)' = Box(e)' => ~Parking(call'[d].todo)
  <2>p. ~Parking(<<>>)
    BY DEF Parking
  <2>1. CASE e = c
    <3>1. op = "create" /\ Box(e)' = s
      BY <1>1, <1>2, <1>7, <2>1 DEF Unborn, Box
    <3>2. handle'[s] = "none" /\ rows'[s].state \notin Parked
      BY <1>0, <1>s, <3>1 DEF ParkedInv, Parked, NoRow
    <3>3. ASSUME NEW d \in Callers, Box(d)' = s PROVE ~Parking(call'[d].todo)
      BY <1>0, <1>1, <1>2, <1>b, <1>t, <2>p, <3>1, <3>3 DEF Box
    <3> QED  BY <3>1, <3>2, <3>3
  <2>2. CASE e # c
    <3>1. Unborn(e) /\ Box(e)' = Box(e) /\ Box(e) \in Sandboxes /\ Box(e) \in used
      <4>1. Unborn(e) /\ Box(e)' = Box(e)
        BY <1>2, <1>7, <2>2 DEF Unborn, At, Box
      <4> QED  BY <4>1, HeadTyped DEF Unborn, At, Box, ServiceInv, ParkedInv
    <3>2. /\ handle[Box(e)] = "none" /\ rows[Box(e)].state \notin Parked
          /\ \A d \in Callers : Box(d) = Box(e) => ~Parking(call[d].todo)
      BY <3>1 DEF ParkedInv
    <3>3. handle'[Box(e)] = "none" /\ rows'[Box(e)].state \notin Parked
      BY <1>0, <1>s, <3>1, <3>2
    <3>4. ASSUME NEW d \in Callers, Box(d)' = Box(e) PROVE ~Parking(call'[d].todo)
      <4>1. CASE d = c
        BY <1>1, <1>2, <1>t, <4>1
      <4>2. CASE d # c
        BY <1>2, <3>2, <3>4, <4>2 DEF Box
      <4> QED  BY <4>1, <4>2
    <3> QED  BY <3>1, <3>3, <3>4
  <2> QED  BY <2>1, <2>2
<1>8. \A u \in Sandboxes : rows'[u].state \in Parked /\ rows'[u].slot > 0 =>
          \E d \in Callers : Box(d)' = u /\ Clears(d, rows[u].state)'
  <2>1. ASSUME NEW u \in Sandboxes, NEW x \in Parked, rows'[u].state = x, rows'[u].slot > 0
        PROVE  \E d \in Callers : Box(d)' = u /\ Clears(d, x)'
    <3>1. rows'[u] = rows[u]
      BY <1>s, <2>1
    <3>2. PICK d \in Callers : Box(d) = u /\ Clears(d, x)
      BY <2>1, <3>1 DEF ParkedInv
    <3>3. d # c
      BY <1>2, <3>2, ClearerActive
    <3>4. Box(d)' = u /\ Clears(d, x)'
      BY <1>2, <3>2, <3>3 DEF Box, Clears, At, Arg
    <3> QED  BY <3>4
  <2> QED  BY <2>1 DEF Clears
<1> QED  BY <1>3, <1>4, <1>5, <1>6, <1>7, <1>8 DEF ParkedInv

\* A paused or stopped sandbox nobody works on has no slot, however calls interleave and
\* whatever else fails, as long as identifiers are given to one create each, statements do not
\* fail, no request is cancelled and boxlet does not die.
THEOREM SlotsAreGivenBack ==
    Discipline # "any" /\ NoLoss => (Spec => []ParkedHoldsNoSlot)
<1> SUFFICES ASSUME Discipline # "any", NoLoss PROVE Spec => []ParkedHoldsNoSlot
  OBVIOUS
<1>1. Init => ParkedInv
  BY DEF Init, StoreInit, ParkedInv, Serving, Idle, NoRow, Parked, Tidy, Natal, Unborn, At
<1>2. ServiceInv /\ TypeOK /\ ParkedInv /\ [Next]_vars => ParkedInv'
  <2> SUFFICES ASSUME ServiceInv, TypeOK, ParkedInv, [Next]_vars PROVE ParkedInv'
    OBVIOUS
  <2>1. CASE \E c \in Callers, op \in Ops, s \in Sandboxes : Begin(c, op, s)
    BY <2>1, ParkedBegin
  <2>2. CASE \E c \in Callers : Step(c)
    BY <2>2, ParkedStep
  <2>3. CASE (\E c \in Callers : Cancel(c)) \/ Crash
    BY <2>3 DEF Cancel, Crash, Fault, NoLoss
  <2>4. CASE \E s \in Sandboxes : RuntimeExits(s)
    <3>1. UNCHANGED <<rows, call, used>> /\ \A s \in Sandboxes : handle[s] = "none" => handle'[s] = "none"
      BY <2>4 DEF RuntimeExits, storeVars, TypeOK
    <3>2. \A c \in Callers : Unborn(c) => Box(c) \in Sandboxes
      BY HeadTyped DEF Unborn, At, Box, ServiceInv
    <3>3. \A c \in Callers : Unborn(c)' => Unborn(c) /\ handle'[Box(c)] = "none"
      BY <3>1, <3>2 DEF ParkedInv, Unborn, At
    <3> QED  BY <3>1, <3>3 DEF ParkedInv, Serving, Box, Clears, At, Arg
  <2>5. CASE UNCHANGED vars
    <3>1. UNCHANGED <<rows, call, used, handle>>
      BY <2>5 DEF vars, storeVars, hostVars
    <3> QED  BY <3>1 DEF ParkedInv, Serving, Box, Unborn, At, Clears, Arg
  <2> QED  BY <2>1, <2>2, <2>3, <2>4, <2>5 DEF Next, Quiet
<1>3. TypeOK /\ ParkedInv => ParkedHoldsNoSlot
  BY DEF ParkedInv, ParkedHoldsNoSlot, Quiescent, Parked, TypeOK, StoreTypeOK, NoRow, RowRecords
<1> QED  BY <1>1, <1>2, <1>3, ServiceInvariant, ServiceTypes, PTL DEF Spec

=============================================================================
