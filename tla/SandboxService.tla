--------------------------- MODULE SandboxService ---------------------------
(***************************************************************************)
(* boxlet's sandboxService: the seven handlers that change a sandbox       *)
(* (Create, Pause, Resume, Stop, Start, Reboot, Kill), run by concurrent   *)
(* gRPC calls over the store, the boxshim process of each sandbox, the     *)
(* host's network namespaces and routes, and the overlaybd rootfs.         *)
(*                                                                         *)
(* A handler is straight-line code: a list of steps, each with what is     *)
(* done when it returns an error.  The list of every handler is written    *)
(* out below (CreateSteps, PauseSteps, ...); a call holds the steps it has *)
(* still to execute, and there is one action per kind of step.  Nothing    *)
(* locks a sandbox, so calls interleave between any two steps.             *)
(***************************************************************************)
EXTENDS SandboxStore, Sequences

CONSTANTS
    Callers,        \* concurrent gRPC calls
    Containers,     \* sandboxes on gVisor with an overlaybd rootfs; the others
                    \* are Firecracker VMs
    Nobody,         \* no sandbox
    Ops,            \* the operations the clients use
    Discipline,     \* how careful the clients are: see Permitted
    Faults,         \* what may go wrong
    MaxCalls,       \* bound: calls made in a behaviour
    MaxFaults       \* bound: faults in a behaviour

OpNames == {"create", "pause", "resume", "stop", "start", "reboot", "kill"}
FaultNames == {"db", "host", "rpc", "agent", "cancel", "crash", "vmexit"}

ASSUME ServiceAssumption ==
    /\ Containers \subseteq Sandboxes
    /\ Nobody \notin Sandboxes
    /\ Ops \subseteq OpNames
    /\ Discipline \in {"any", "fresh", "serial", "lifecycle"}
    /\ Faults \subseteq FaultNames
    /\ MaxCalls \in Nat /\ MaxFaults \in Nat

VARIABLES
    handle,   \* what a sandbox's shim socket leads to:
              \*   "none"  no boxshim process
              \*   "empty" a boxshim whose driver has created no runtime (info = nil)
              \*   "live"  a driver with a live runtime process
              \*   "dead"  a driver that believes in a process that has exited
              \*   "idle"  a driver whose runtime was stopped or paused
    stray,    \* sandboxes with a boxshim or runtime process that no shim reaches
    netns,    \* sandboxes whose network namespace and veth pair exist
    route,    \* the sandbox the host route of a slot's host_access_ip leads to
    rootfs,   \* overlaybd snapshot of a sandbox: "none", "unmounted", "mounted"
    used,     \* sandboxes whose identifier some CreateSandbox has taken
    call,     \* what each caller is executing
    calls,    \* calls made so far
    faults    \* the faults so far: how many, and of which kinds

hostVars == <<handle, stray, netns, route, rootfs>>
vars == <<storeVars, hostVars, used, call, calls, faults>>

-----------------------------------------------------------------------------
(* Steps.  err says what the handler does when the step fails.              *)

Do(kind, err) == [do |-> kind, arg |-> "", err |-> err]
Set(state, err) == [do |-> "set", arg |-> state, err |-> err]
Cas(state, err) == [do |-> "cas", arg |-> state, err |-> err]
Rpc(method, err) == [do |-> "rpc", arg |-> method, err |-> err]

\* Operators whose comment begins with "Slip" are not the code: each is a change
\* someone could make to it by mistake, kept to confirm that a property notices.

\* Slip: the slot is given back before its network is cleaned up.
ReleaseSlotFirst(err) == <<Do("free", err), Do("cleanup", err)>>

\* releaseSandboxNetwork: Cleanup of the slot the caller's record holds, then
\* ReleaseSandboxNetworkSlot.
Release(err) == <<Do("cleanup", err), Do("free", err)>>

CreateSteps ==
    <<Do("assign", "casFailed"), Do("files", "casAbandon"),
      Do("net", "casAbandon"), Do("shim", "casAbandon"),
      Rpc("Create", "casAbandon"), Do("agent", "killAbandon"),
      Cas("running", "return")>>

\* Slip: a failed PauseRuntime returns without marking the sandbox failed.
PauseStepsForgetFailure ==
    <<Set("pausing", "return"), Rpc("Pause", "return"),
      Do("snapshot", "return"), Set("paused", "return")>> \o Release("return")

\* Slip: the slot is not given back.
PauseStepsKeepSlot ==
    <<Set("pausing", "return"), Rpc("Pause", "setFailed"),
      Do("snapshot", "return"), Set("paused", "return")>>

PauseSteps ==
    <<Set("pausing", "return"), Rpc("Pause", "setFailed"),
      Do("snapshot", "return"), Set("paused", "return")>> \o Release("return")

\* Slip: the sandbox is resumed on the slot of its record, which Pause gave back.
ResumeStepsOldSlot ==
    <<Set("resuming", "return"), Do("net", "setAbandon"),
      Rpc("Resume", "setAbandon"), Do("agent", "setAbandon"),
      Set("running", "return")>>

ResumeSteps ==
    <<Set("resuming", "return"), Do("assign", "setFailed"),
      Do("net", "setAbandon"), Rpc("Resume", "setAbandon"),
      Do("agent", "setAbandon"), Set("running", "return")>>

StartSteps(s) ==
    <<Set("starting", "return"), Do("assign", "setFailed")>>
    \o (IF s \in Containers THEN <<Do("mount", "setAbandon")>> ELSE <<>>)
    \o <<Do("net", "setAbandon"), Rpc("Start", "setAbandon"),
         Do("agent", "setAbandon"), Set("running", "return")>>

\* Slip: an error of StopRuntime is logged and not returned.
StopStepsIgnoreError(s) ==
    <<Set("stopping", "return"), Rpc("Stop", "ignore"), Set("stopped", "return")>>
    \o Release("return")

\* StopSandbox unmounts after runtimeAction is done with the row.
StopSteps(s) ==
    <<Set("stopping", "return"), Rpc("Stop", "setFailed"),
      Set("stopped", "return")>>
    \o Release("return")
    \o (IF s \in Containers THEN <<Do("reread", "return"), Do("unmount", "return")>>
                            ELSE <<>>)

\* Slip: reboot is written as a stop and a start.
RebootStepsTwice ==
    <<Set("stopping", "return"), Rpc("Stop", "setFailed"),
      Set("starting", "return"), Rpc("Start", "setFailed"), Set("running", "return")>>

RebootSteps ==
    <<Set("rebooting", "return"), Rpc("Reboot", "setFailed"),
      Set("running", "return")>>

\* Slip: the shim is ended before it is asked to kill its runtime.
KillStepsShimFirst(s) ==
    <<Set("killing", "return"), Do("terminate", "ignore"), Rpc("Kill", "ignore"),
      Set("killed", "return"), Do("delsnaps", "return"), Do("delrow", "return"),
      Do("rmdir", "return")>> \o Release("ignore")

\* Slip: the snapshot records are left to the row's deletion.
KillStepsKeepSnapshots(s) ==
    <<Set("killing", "return"), Rpc("Kill", "ignore"), Do("terminate", "ignore"),
      Set("killed", "return"), Do("delrow", "return"), Do("rmdir", "return")>>
    \o Release("ignore")

KillSteps(s) ==
    <<Set("killing", "return"), Rpc("Kill", "ignore"), Do("terminate", "ignore")>>
    \o (IF s \in Containers THEN <<Do("remove", "return")>> ELSE <<>>)
    \o <<Set("killed", "return"), Do("delsnaps", "return"),
         Do("delrow", "return"), Do("rmdir", "return")>>
    \o Release("ignore")

StepsOf(op, s) ==
    CASE op = "create" -> CreateSteps
      [] op = "pause"  -> PauseSteps
      [] op = "resume" -> ResumeSteps
      [] op = "stop"   -> StopSteps(s)
      [] op = "start"  -> StartSteps(s)
      [] op = "reboot" -> RebootSteps
      [] op = "kill"   -> KillSteps(s)

\* Slip: an error is returned to the client and the row left as it is.
RecoveryOfNothing(err) == <<>>

\* The error branches.  CreateSandbox compares with StateCreating; the other
\* handlers go through setSandboxState, which reads the state first.
Recovery(err) ==
    CASE err = "return"      -> <<>>
      [] err = "casFailed"   -> <<Cas("failed", "ignore")>>
      [] err = "casAbandon"  -> <<Cas("failed", "ignore")>> \o Release("ignore")
      [] err = "killAbandon" -> <<Do("bgkill", "ignore"), Cas("failed", "ignore")>>
                                \o Release("ignore")
      [] err = "setFailed"   -> <<Set("failed", "ignore")>>
      [] err = "setAbandon"  -> <<Set("failed", "ignore")>> \o Release("ignore")

Methods == {"Create", "Pause", "Resume", "Start", "Stop", "Reboot", "Kill"}
Errors == {"return", "ignore", "casFailed", "casAbandon", "killAbandon",
           "setFailed", "setAbandon"}
Steps ==
    [do : {"set", "cas"}, arg : States, err : Errors]
    \union [do : {"rpc"}, arg : Methods, err : Errors]
    \union [do : {"assign", "files", "net", "shim", "bgkill", "agent", "snapshot",
                  "cleanup", "free", "reread", "mount", "unmount", "remove",
                  "terminate", "delsnaps", "delrow", "rmdir"},
            arg : {""}, err : Errors]

-----------------------------------------------------------------------------
(* Calls.                                                                   *)

Idle == [op |-> "none", box |-> Nobody, slot |-> 0, seen |-> "creating",
         cancelled |-> FALSE, undo |-> "none", todo |-> <<>>]

Active(c) == call[c].op # "none"
Box(c) == call[c].box
At(c, kind) == call[c].todo # <<>> /\ Head(call[c].todo).do = kind
Arg(c) == Head(call[c].todo).arg
Err(c) == Head(call[c].todo).err

\* The call goes on as k, or returns when k has neither a step nor a deferred
\* overlaybd rollback left.
Become(c, k) ==
    call' = [call EXCEPT ![c] = IF k.todo = <<>> /\ k.undo = "none" THEN Idle ELSE k]

Stepped(c) == [call[c] EXCEPT !.todo = Tail(@)]
Succeed(c) == Become(c, Stepped(c))

Fail(c) ==
    Become(c, [call[c] EXCEPT !.todo =
                  IF Err(c) = "ignore" THEN Tail(@) ELSE Recovery(Err(c))])

Fault(kind) ==
    /\ kind \in Faults /\ faults.n < MaxFaults
    /\ faults' = [n |-> faults.n + 1, kinds |-> faults.kinds \union {kind}]

\* Everything that takes the request's context fails once it is cancelled.
Sound(c) == ~call[c].cancelled /\ UNCHANGED faults
Broken(c, kind) == (call[c].cancelled /\ UNCHANGED faults) \/ Fault(kind)

\* boxlet itself checks nothing ("any").  The clients may be more careful:
\*   "fresh"      an identifier is used for one CreateSandbox only, as boxapi
\*                does (newSandboxID)
\*   "serial"     and a sandbox gets one call at a time
\*   "lifecycle"  and that call is legal in the state machine of
\*                docs/architecture/lifecycle.md
LegalFrom(op) ==
    CASE op = "create" -> {"absent"}
      [] op \in {"pause", "stop", "reboot"} -> {"running"}
      [] op = "resume" -> {"paused"}
      [] op = "start"  -> {"stopped"}
      [] op = "kill"   -> States

Permitted(op, s) ==
    /\ Discipline # "any" => (op = "create" => s \notin used)
    /\ Discipline \in {"serial", "lifecycle"} => \A c \in Callers : Box(c) # s
    /\ Discipline = "lifecycle" => rows[s].state \in LegalFrom(op)

\* A call arrives.  CreateSandbox inserts the row; the others read it and keep
\* the slot they saw.  An existing (or missing) row answers at once.
Begin(c, op, s) ==
    /\ ~Active(c) /\ calls < MaxCalls
    /\ Permitted(op, s)
    /\ IF op = "create" THEN InsertRow(s) ELSE HasRow(s) /\ UNCHANGED storeVars
    /\ call' = [call EXCEPT ![c] = [Idle EXCEPT !.op = op, !.box = s,
                                                !.slot = rows[s].slot,
                                                !.todo = StepsOf(op, s)]]
    /\ used' = IF op = "create" THEN used \union {s} ELSE used
    /\ calls' = calls + 1
    /\ UNCHANGED <<hostVars, faults>>

-----------------------------------------------------------------------------
(* The store's steps.                                                       *)

\* setSandboxState, first half: GetSandbox; nothing to do when the row is
\* already in the state.
ReadState(c) ==
    /\ At(c, "set")
    /\ LET row == rows[Box(c)] IN
       \/ /\ Sound(c) /\ row # NoRow /\ row.state # Arg(c)
          /\ Become(c, [call[c] EXCEPT !.seen = row.state,
                                       !.todo = <<Cas(Arg(c), Err(c))>> \o Tail(@)])
       \/ /\ Sound(c) /\ row.state = Arg(c)
          /\ Become(c, [Stepped(c) EXCEPT
                           !.undo = IF Arg(c) = "running" THEN "none" ELSE @])
       \/ Sound(c) /\ row = NoRow /\ Fail(c)
       \/ Broken(c, "db") /\ Fail(c)
    /\ UNCHANGED <<storeVars, hostVars, used, calls>>

\* Slip: the record read before is written back whole.
CompareAndSetRecord(c) ==
    /\ At(c, "cas") /\ Sound(c)
    /\ rows' = [rows EXCEPT ![Box(c)] = [state |-> Arg(c), slot |-> call[c].slot]]
    /\ Succeed(c)
    /\ UNCHANGED <<snaps, hostVars, used, calls>>

\* UpdateSandboxState from the state read before; reaching "running" makes the
\* deferred rollback of Create and Start a no-op.
CompareAndSet(c) ==
    /\ At(c, "cas")
    /\ \/ /\ Sound(c)
          /\ UpdateState(Box(c), call[c].seen, Arg(c))
          /\ Become(c, [Stepped(c) EXCEPT
                           !.undo = IF Arg(c) = "running" THEN "none" ELSE @])
       \/ Sound(c) /\ rows[Box(c)].state # call[c].seen /\ Fail(c) /\ UNCHANGED storeVars
       \/ Broken(c, "db") /\ Fail(c) /\ UNCHANGED storeVars
    /\ UNCHANGED <<hostVars, used, calls>>

Assign(c) ==
    /\ At(c, "assign")
    /\ LET row == rows[Box(c)] IN
       \/ /\ Sound(c) /\ AssignSlot(Box(c))
          /\ Become(c, [Stepped(c) EXCEPT !.slot = rows'[Box(c)].slot])
       \/ /\ Sound(c) /\ (row = NoRow \/ (row.slot = 0 /\ FreeSlots = {}))
          /\ Fail(c) /\ UNCHANGED storeVars
       \/ Broken(c, "db") /\ Fail(c) /\ UNCHANGED storeVars
    /\ UNCHANGED <<hostVars, used, calls>>

\* ReleaseSandboxNetworkSlot; a missing row is no error here.
Free(c) ==
    /\ At(c, "free")
    /\ \/ Sound(c) /\ FreeSlot(Box(c)) /\ Succeed(c)
       \/ Sound(c) /\ ~HasRow(Box(c)) /\ Succeed(c) /\ UNCHANGED storeVars
       \/ Broken(c, "db") /\ Fail(c) /\ UNCHANGED storeVars
    /\ UNCHANGED <<hostVars, used, calls>>

RecordSnapshot(c) ==
    /\ At(c, "snapshot")
    /\ \/ Sound(c) /\ InsertSnapshot(Box(c)) /\ Succeed(c)
       \/ Broken(c, "db") /\ Fail(c) /\ UNCHANGED storeVars
    /\ UNCHANGED <<hostVars, used, calls>>

\* deleteSandboxSnapshots.
DropSnapshots(c) ==
    /\ At(c, "delsnaps")
    /\ \/ Sound(c) /\ DeleteSnapshots(Box(c)) /\ Succeed(c)
       \/ Broken(c, "db") /\ Fail(c) /\ UNCHANGED storeVars
    /\ UNCHANGED <<hostVars, used, calls>>

DropRow(c) ==
    /\ At(c, "delrow")
    /\ \/ Sound(c) /\ DeleteRow(Box(c)) /\ Succeed(c)
       \/ Sound(c) /\ ~HasRow(Box(c)) /\ Fail(c) /\ UNCHANGED storeVars
       \/ Broken(c, "db") /\ Fail(c) /\ UNCHANGED storeVars
    /\ UNCHANGED <<hostVars, used, calls>>

\* StopSandbox reads the row again before it unmounts.
Reread(c) ==
    /\ At(c, "reread")
    /\ \/ Sound(c) /\ HasRow(Box(c)) /\ Succeed(c)
       \/ Sound(c) /\ ~HasRow(Box(c)) /\ Fail(c)
       \/ Broken(c, "db") /\ Fail(c)
    /\ UNCHANGED <<storeVars, hostVars, used, calls>>

-----------------------------------------------------------------------------
(* The network manager.                                                     *)

\* Prepare recreates the namespace's veth pair, which takes every route through
\* the old one away, then points the slot's host_access_ip at it.  A failure
\* may come before, between or after the two.
Rewire(s, n) ==
    /\ netns' = netns \union {s}
    /\ route' = [m \in Slots |-> IF m = n THEN s
                                 ELSE IF route[m] = s THEN Nobody ELSE route[m]]

PrepareNetwork(c) ==
    /\ At(c, "net")
    /\ \/ Sound(c) /\ Rewire(Box(c), call[c].slot) /\ Succeed(c)
       \/ /\ Broken(c, "host") /\ Fail(c)
          /\ \/ UNCHANGED <<netns, route>>
             \/ Rewire(Box(c), 0)
             \/ Rewire(Box(c), call[c].slot)
    /\ UNCHANGED <<storeVars, handle, stray, rootfs, used, calls>>

\* Cleanup deletes the slot's host route, whoever it leads to, the sandbox's
\* veth pair and its namespace.  Each command's error is dropped, so under a
\* cancelled context it does nothing and reports success.
CleanupNetwork(c) ==
    /\ At(c, "cleanup")
    /\ IF call[c].slot = 0 \/ call[c].cancelled
       THEN UNCHANGED <<netns, route>>
       ELSE /\ netns' = netns \ {Box(c)}
            /\ route' = [m \in Slots |-> IF m = call[c].slot \/ route[m] = Box(c)
                                         THEN Nobody ELSE route[m]]
    /\ Succeed(c)
    /\ UNCHANGED <<storeVars, handle, stray, rootfs, used, calls, faults>>

-----------------------------------------------------------------------------
(* boxshim and its driver.                                                  *)

Reply(ok, h, lost) == [ok |-> ok, handle |-> h, stray |-> lost]
Refuse(s) == Reply(FALSE, handle[s], s \in stray)

\* A handle other than "none" and "empty" passes checkSandboxLocked.
Known(s) == handle[s] \notin {"none", "empty"}

\* The driver keeps no live or believed process, and the runtime finds its network
\* namespace and its rootfs.
CanBoot(s) ==
    /\ handle[s] \in {"empty", "idle"}
    /\ s \in netns
    /\ s \in Containers => rootfs[s] = "mounted"

\* A boot looks for no runtime that an earlier shim has left: GVisorDriver.start
\* removes the state directory before its "runsc delete" could find one there.
CreateReply(s) ==
    IF CanBoot(s) THEN Reply(TRUE, "live", s \in stray) ELSE Refuse(s)

PauseReply(s) ==
    IF s \notin Containers /\ handle[s] = "live"
    THEN Reply(TRUE, "idle", s \in stray) ELSE Refuse(s)

\* FirecrackerDriver.Resume never looks whether a VM is already there: the new
\* process replaces it in the driver, which forgets the old one.
Forgotten(s) == s \in stray \/ handle[s] = "live"

LoadFailed(s) ==
    Reply(FALSE, IF handle[s] = "empty" THEN "empty" ELSE "idle", Forgotten(s))

ResumeReply(s) ==
    IF s \in Containers \/ handle[s] = "none" THEN Refuse(s)
    ELSE IF s \in netns THEN Reply(TRUE, "live", Forgotten(s)) ELSE LoadFailed(s)

StopReply(s) == IF Known(s) THEN Reply(TRUE, "idle", s \in stray) ELSE Refuse(s)

\* GVisorDriver.Reboot stops the container without marking it stopped, so its
\* start refuses.  FirecrackerDriver.Reboot is Stop, then Create.
RebootReply(s) ==
    IF ~Known(s) THEN Refuse(s)
    ELSE IF s \in Containers /\ handle[s] # "idle"
         THEN Reply(FALSE, "dead", s \in stray)
    ELSE IF s \in netns /\ (s \in Containers => rootfs[s] = "mounted")
         THEN Reply(TRUE, "live", s \in stray)
    ELSE Reply(FALSE, "idle", s \in stray)

\* The shim ends itself after a successful KillRuntime (onKill).
KillReply(s) == IF Known(s) THEN Reply(TRUE, "none", s \in stray) ELSE Refuse(s)

\* What boxshim answers when nothing goes wrong; Start is Create.
Answer(s, method) ==
    CASE method \in {"Create", "Start"} -> CreateReply(s)
      [] method = "Pause"  -> PauseReply(s)
      [] method = "Resume" -> ResumeReply(s)
      [] method = "Stop"   -> StopReply(s)
      [] method = "Reboot" -> RebootReply(s)
      [] method = "Kill"   -> KillReply(s)

\* The runtime process may be gone when the request errs: Pause, Stop, Reboot and
\* Kill end it before their last failure point.
Ends(s, method) ==
    \/ method \in {"Stop", "Reboot", "Kill"} /\ handle[s] \in {"live", "dead"}
    \/ method = "Pause" /\ s \notin Containers /\ handle[s] = "live"

Ended(s) ==
    Reply(FALSE, IF s \in Containers THEN "dead" ELSE "idle", s \in stray)

\* How a request that errs may leave the driver: as it was, or with its process
\* gone.
Mishaps(s, method) ==
    {Refuse(s)}
    \union {r \in {LoadFailed(s)} :
               method = "Resume" /\ s \notin Containers /\ handle[s] # "none"}
    \union {r \in {Ended(s)} : Ends(s, method)}

Receive(s, r) ==
    /\ handle' = [handle EXCEPT ![s] = r.handle]
    /\ stray' = IF r.stray THEN stray \union {s} ELSE stray \ {s}

\* A cancelled request may already have been executed.
CallRuntime(c) ==
    /\ At(c, "rpc")
    /\ LET s == Box(c)
           answer == Answer(s, Arg(c)) IN
       \/ Sound(c) /\ Receive(s, answer) /\ IF answer.ok THEN Succeed(c) ELSE Fail(c)
       \/ /\ call[c].cancelled /\ UNCHANGED faults
          /\ \E r \in Mishaps(s, Arg(c)) \union {answer} : Receive(s, r)
          /\ Fail(c)
       \/ Fault("rpc") /\ (\E r \in Mishaps(s, Arg(c)) : Receive(s, r)) /\ Fail(c)
    /\ UNCHANGED <<storeVars, netns, route, rootfs, used, calls>>

\* CreateSandbox kills the runtime of a sandbox whose agent does not answer,
\* with a context of its own.
KillUnready(c) ==
    /\ At(c, "bgkill")
    /\ \/ UNCHANGED faults /\ Receive(Box(c), Answer(Box(c), "Kill"))
       \/ Fault("rpc") /\ \E r \in Mishaps(Box(c), "Kill") : Receive(Box(c), r)
    /\ Succeed(c)
    /\ UNCHANGED <<storeVars, netns, route, rootfs, used, calls>>

\* ensureShim: an error may come after the process was started.
EnsureShim(c) ==
    /\ At(c, "shim")
    /\ LET started == [handle EXCEPT ![Box(c)] = IF @ = "none" THEN "empty" ELSE @] IN
       \/ Sound(c) /\ handle' = started /\ Succeed(c)
       \/ Broken(c, "host") /\ handle' \in {handle, started} /\ Fail(c)
    /\ UNCHANGED <<storeVars, stray, netns, route, rootfs, used, calls>>

\* The shim can no longer be reached; what is alive behind it stays.
LoseShim(s, kept) ==
    /\ handle' = [handle EXCEPT ![s] = "none"]
    /\ stray' = IF handle[s] \in kept THEN stray \union {s} ELSE stray

\* terminateShimProcess ends the shim; a runtime process outlives it (Setsid).
TerminateShim(c) ==
    /\ At(c, "terminate")
    /\ \/ UNCHANGED faults /\ LoseShim(Box(c), {"live"})
       \/ Fault("host") /\ UNCHANGED <<handle, stray>>
    /\ Succeed(c)
    /\ UNCHANGED <<storeVars, netns, route, rootfs, used, calls>>

\* removeSandboxDirectory takes the shim's socket and pid file with it.
RemoveDirectory(c) ==
    /\ At(c, "rmdir")
    /\ \/ /\ UNCHANGED faults /\ Succeed(c)
          /\ LoseShim(Box(c), {"empty", "live", "dead", "idle"})
          /\ rootfs' = [rootfs EXCEPT ![Box(c)] = IF @ = "mounted" THEN "unmounted" ELSE @]
       \/ Fault("host") /\ Fail(c) /\ UNCHANGED <<handle, stray, rootfs>>
    /\ UNCHANGED <<storeVars, netns, route, used, calls>>

\* ensureSandboxAgentCurrent talks to whatever the slot's address leads to.
AgentAnswers(n) ==
    \E t \in Sandboxes : n \in Slots /\ route[n] = t /\ handle[t] = "live"

RefreshAgent(c) ==
    /\ At(c, "agent")
    /\ \/ Sound(c) /\ IF AgentAnswers(call[c].slot) THEN Succeed(c) ELSE Fail(c)
       \/ Broken(c, "agent") /\ Fail(c)
    /\ UNCHANGED <<storeVars, hostVars, used, calls>>

-----------------------------------------------------------------------------
(* The rootfs.                                                              *)

\* A mounted rootfs that a runtime uses may refuse to go.
Busy(s) == handle[s] = "live" \/ s \in stray

SetRootfs(s, value) == rootfs' = [rootfs EXCEPT ![s] = value]

\* prepareSandboxRuntimeFiles: only overlaybd leaves something to roll back.
PrepareFiles(c) ==
    /\ At(c, "files")
    /\ LET s == Box(c) IN
       \/ Sound(c) /\ s \notin Containers /\ Succeed(c) /\ UNCHANGED rootfs
       \/ /\ Sound(c) /\ s \in Containers /\ rootfs[s] = "none"
          /\ SetRootfs(s, "mounted")
          /\ Become(c, [Stepped(c) EXCEPT !.undo = "remove"])
       \/ /\ Sound(c) /\ s \in Containers /\ rootfs[s] # "none"
          /\ Fail(c) /\ UNCHANGED rootfs
       \/ Broken(c, "host") /\ Fail(c) /\ UNCHANGED rootfs
    /\ UNCHANGED <<storeVars, handle, stray, netns, route, used, calls>>

MountRootfs(c) ==
    /\ At(c, "mount")
    /\ \/ /\ Sound(c) /\ rootfs[Box(c)] # "none"
          /\ SetRootfs(Box(c), "mounted")
          /\ Become(c, [Stepped(c) EXCEPT !.undo = "unmount"])
       \/ Sound(c) /\ rootfs[Box(c)] = "none" /\ Fail(c) /\ UNCHANGED rootfs
       \/ Broken(c, "host") /\ Fail(c) /\ UNCHANGED rootfs
    /\ UNCHANGED <<storeVars, handle, stray, netns, route, used, calls>>

Unmounted(s) == IF rootfs[s] = "mounted" THEN "unmounted" ELSE rootfs[s]

\* Provider.Unmount ignores the context.
UnmountRootfs(c) ==
    /\ At(c, "unmount")
    /\ \/ UNCHANGED faults /\ SetRootfs(Box(c), Unmounted(Box(c))) /\ Succeed(c)
       \/ /\ (Busy(Box(c)) /\ UNCHANGED faults) \/ Fault("host")
          /\ Fail(c) /\ UNCHANGED rootfs
    /\ UNCHANGED <<storeVars, handle, stray, netns, route, used, calls>>

\* Provider.Remove unmounts, then deletes the containerd snapshot.
RemoveRootfs(c) ==
    /\ At(c, "remove")
    /\ \/ Sound(c) /\ SetRootfs(Box(c), "none") /\ Succeed(c)
       \/ Busy(Box(c)) /\ UNCHANGED <<faults, rootfs>> /\ Fail(c)
       \/ /\ Broken(c, "host") /\ Fail(c)
          /\ \E value \in {rootfs[Box(c)], Unmounted(Box(c))} : SetRootfs(Box(c), value)
    /\ UNCHANGED <<storeVars, handle, stray, netns, route, used, calls>>

\* The deferred rollback of Create and Start, with a context of its own.
RollBack(c) ==
    /\ call[c].todo = <<>> /\ call[c].undo # "none"
    /\ \/ /\ UNCHANGED faults
          /\ SetRootfs(Box(c), IF call[c].undo = "remove" THEN "none"
                                                          ELSE Unmounted(Box(c)))
       \/ ((Busy(Box(c)) /\ UNCHANGED faults) \/ Fault("host")) /\ UNCHANGED rootfs
    /\ call' = [call EXCEPT ![c] = Idle]
    /\ UNCHANGED <<storeVars, handle, stray, netns, route, used, calls>>

-----------------------------------------------------------------------------
(* The environment.                                                         *)

\* The request's context ends: its client went away or its deadline passed.
Cancel(c) ==
    /\ Active(c) /\ ~call[c].cancelled /\ Fault("cancel")
    /\ call' = [call EXCEPT ![c].cancelled = TRUE]
    /\ UNCHANGED <<storeVars, hostVars, used, calls>>

\* boxlet dies and starts again: the shims live on, the calls do not, and
\* nothing is reconciled.
Crash ==
    /\ Fault("crash")
    /\ call' = [c \in Callers |-> Idle]
    /\ UNCHANGED <<storeVars, hostVars, used, calls>>

\* The runtime process ends by itself.
RuntimeExits(s) ==
    /\ handle[s] = "live" /\ Fault("vmexit")
    /\ handle' = [handle EXCEPT ![s] = "dead"]
    /\ UNCHANGED <<storeVars, stray, netns, route, rootfs, used, call, calls>>

\* Clients need not send anything.
Quiet == (\A c \in Callers : ~Active(c)) /\ UNCHANGED vars

-----------------------------------------------------------------------------
Step(c) ==
    \/ ReadState(c) \/ CompareAndSet(c) \/ Assign(c) \/ Free(c)
    \/ RecordSnapshot(c) \/ DropSnapshots(c) \/ DropRow(c) \/ Reread(c)
    \/ PrepareNetwork(c) \/ CleanupNetwork(c)
    \/ CallRuntime(c) \/ KillUnready(c) \/ EnsureShim(c)
    \/ TerminateShim(c) \/ RemoveDirectory(c) \/ RefreshAgent(c)
    \/ PrepareFiles(c) \/ MountRootfs(c) \/ UnmountRootfs(c)
    \/ RemoveRootfs(c) \/ RollBack(c)

Init ==
    /\ StoreInit
    /\ handle = [s \in Sandboxes |-> "none"]
    /\ stray = {} /\ netns = {}
    /\ route = [n \in Slots |-> Nobody]
    /\ rootfs = [s \in Sandboxes |-> "none"]
    /\ call = [c \in Callers |-> Idle]
    /\ used = {} /\ calls = 0 /\ faults = [n |-> 0, kinds |-> {}]

Next ==
    \/ \E c \in Callers, op \in Ops, s \in Sandboxes : Begin(c, op, s)
    \/ \E c \in Callers : Step(c)
    \/ \E c \in Callers : Cancel(c)
    \/ Crash
    \/ \E s \in Sandboxes : RuntimeExits(s)
    \/ Quiet

Spec == Init /\ [][Next]_vars

\* Every RPC, store statement and command has a deadline or ends by itself, so a
\* call that has a next step takes it.
FairSpec == Spec /\ \A c \in Callers : WF_vars(Step(c))

-----------------------------------------------------------------------------
(* Properties.                                                              *)

\* No call is being executed for s: what its row says now is what every later
\* client sees.
Quiescent(s) == \A c \in Callers : Box(c) # s

CallRecords ==
    [op : OpNames \union {"none"}, box : Sandboxes \union {Nobody},
     slot : 0..MaxSlot, seen : States, cancelled : BOOLEAN,
     undo : {"none", "remove", "unmount"}, todo : Seq(Steps)]

\* The types of the service's state; a slot number only ever indexes the
\* host's range (SpecForSlot, Cleanup).
TypeOK ==
    /\ StoreTypeOK
    /\ handle \in [Sandboxes -> {"none", "empty", "live", "dead", "idle"}]
    /\ stray \subseteq Sandboxes
    /\ netns \subseteq Sandboxes
    /\ route \in [Slots -> Sandboxes \union {Nobody}]
    /\ rootfs \in [Sandboxes -> {"none", "unmounted", "mounted"}]
    /\ used \subseteq Sandboxes
    /\ call \in [Callers -> CallRecords]
    /\ calls \in Nat
    /\ faults \in [n : Nat, kinds : SUBSET FaultNames]

\* A sandbox nobody works on is never left in a transitional state: whatever
\* handlers ran against each other, and whichever of their RPCs, host commands
\* and agent checks failed, the last one to write the row took it further
\* (lifecycle.md: "failure: any active transition -> Failed").  Only a container that is
\* being killed may stay so: KillSandbox returns when its rootfs is busy.
NoStuckTransition ==
    \A s \in Sandboxes :
        Quiescent(s) => rows[s].state \notin Transitional \ {x \in {"killing"} : s \in Containers}

\* A paused or stopped sandbox keeps no network slot: PauseSandbox and
\* runtimeAction release it after the row says so, and a Resume or Start that
\* takes one moves the row on.
ParkedHoldsNoSlot ==
    \A s \in Sandboxes :
        Quiescent(s) /\ rows[s].state \in {"paused", "stopped"} => rows[s].slot = 0

\* The host reaches a running sandbox, and only it, at its host_access_ip: the
\* row holds a slot and the host's route for that slot leads to the sandbox's
\* namespace (docs/architecture/network.md).
RouteServesOwner ==
    \A s \in Sandboxes :
        Quiescent(s) /\ rows[s].state = "running" =>
            rows[s].slot > 0 /\ route[rows[s].slot] = s

\* No sandbox has been deleted.
NoneDeleted == \A s \in used : HasRow(s)

\* Until a sandbox is deleted, every running one keeps its route, whatever fails:
\* the Cleanup of a slot that Pause, Stop or a failed handler gives up never runs
\* after another sandbox has been given that slot.
RouteKept == NoneDeleted => RouteServesOwner

\* A sandbox whose row says running has a live runtime behind its shim, and one
\* whose row says paused or stopped has none, unless a runtime exits by itself:
\* no error path of a handler leaves row and driver in disagreement.
RuntimeMatchesRow ==
    "vmexit" \notin faults.kinds =>
        \A s \in Sandboxes :
            Quiescent(s) =>
                /\ rows[s].state = "running" => handle[s] = "live"
                /\ rows[s].state \in {"paused", "stopped"} => handle[s] = "idle"

\* The store, the agents and the runtimes may fail; host commands, RPCs,
\* contexts and boxlet itself do not.
HostSound == faults.kinds \subseteq {"db", "agent", "vmexit"}

\* Every runtime process can be reached through its sandbox's shim.
NoStrayRuntime == HostSound => stray = {}

\* A sandbox without a row has left nothing on the host: no shim, runtime,
\* namespace, route, rootfs or snapshot record (KillSandbox deletes them in this
\* order, and the row before the directory and the network).
GoneLeavesNothing ==
    HostSound =>
        \A s \in Sandboxes :
            Quiescent(s) /\ ~HasRow(s) =>
                /\ handle[s] = "none" /\ s \notin stray
                /\ s \notin netns /\ \A n \in Slots : route[n] # s
                /\ rootfs[s] = "none" /\ s \notin snaps

\* Without a fault no operation of a VM fails: clients that follow the lifecycle
\* never see it in state failed while its slots, routes and snapshots are handed
\* back and taken again (PauseSandbox to ResumeSandbox, StopSandbox to
\* StartSandbox, RebootSandbox), as long as none is deleted (see RouteKept).
\* Containers are left out: GVisorDriver.Reboot always fails.
HealthyVMNeverFails ==
    faults.n = 0 /\ NoneDeleted =>
        \A s \in Sandboxes \ Containers : rows[s].state # "failed"

\* The states of the rows move as the documented state machine allows
\* (SandboxLifecycle), whatever fails on the way.
Lifecycle == INSTANCE SandboxLifecycle
                 WITH phase <- [s \in Sandboxes |-> rows[s].state]
ImplementsLifecycle == Lifecycle!Spec

\* The handlers use the store only through its statements, and so keep what it
\* promises (SandboxStore).
ImplementsStore == StoreSpec

\* Every transition comes to an end.
TransitionEnds ==
    \A s \in Sandboxes :
        rows[s].state \in Transitional ~> rows[s].state \notin Transitional

=============================================================================
