------------------------------- MODULE Boxshim -------------------------------
(***************************************************************************)
(* boxshim: the process beside one sandbox that owns its runtime, with the *)
(* Firecracker driver (firecracker.go: VMs in a jailer, snapshots as two   *)
(* files) or the gVisor driver (gvisor.go: containers kept by runsc).      *)
(*                                                                         *)
(* gRPC runs calls concurrently and the driver's mutex serialises them; a  *)
(* call holds the steps it has still to execute.  Between two steps        *)
(* processes exit, requests are cancelled and the shim may die, which      *)
(* leaves the runtime processes, the mounts and the files as they are.     *)
(***************************************************************************)
EXTENDS Naturals, Sequences, FiniteSets

CONSTANTS
  Drivers,                    \* the drivers --runtime-driver chooses from
  Calls,                      \* RPCs, each made once
  Ops,                        \* the operations called
  NoCall,
  MaxLaunch,                  \* bound: runtimes launched
  MaxActive,                  \* bound: calls served at the same time
  MaxFaults                   \* bound: failures, cancellations, exits and crashes

OpNames == {"create", "resume", "pause", "stop", "reboot", "kill", "balloon"}

ASSUME BoxshimAssumption ==
  /\ Drivers \subseteq {"firecracker", "gvisor"}
  /\ Ops \subseteq OpNames
  /\ NoCall \notin Calls
  /\ MaxLaunch \in Nat \ {0} /\ MaxActive \in Nat /\ MaxFaults \in Nat

VARIABLES
  driver, shim,               \* "up", "stopping" after a kill, "down"
  mu,                         \* the call that holds the driver's mutex
  info, cmd, spec,            \* the driver: reported state, process it started, a spec to start from
  proc,                       \* runtime processes: "none", "jailing", "live", "gone"
  known,                      \* the container in runsc's state directory
  jail,                       \* the jail's directory: "none", "made", "mounted"
  mem, snap, tmp, old,        \* snapshot files
  call, launched, faults,
  hurt, orphans, over         \* history

Runtimes == 1..MaxLaunch
Template == 0                 \* the snapshot a sandbox was cloned with
NoFile   == MaxLaunch + 1
Held     == 0..MaxLaunch + 1

theDriver == <<driver, shim, mu, info, cmd, spec>>
procs     == <<proc, known, launched>>
files     == <<jail, mem, snap, tmp, old>>
history   == <<hurt, orphans, over>>
vars      == <<theDriver, procs, files, call, faults, history>>

Do(kind, err) == [do |-> kind, err |-> err]
Idle == [op |-> "idle", cancelled |-> FALSE, todo |-> << >>]

-----------------------------------------------------------------------------
(***************************************************************************)
(* The steps of each operation.  err says what is left to do when a step   *)
(* fails; see Undo.                                                        *)
(***************************************************************************)
Unlock == <<Do("unlock", "stop")>>
Enter  == <<Do("lock", "stop"), Do("check", "stop")>>
Return(state) == <<Do(state, "stop")>> \o Unlock

\* killLocked.
KillLocked == <<Do("term", "stop"), Do("signal", "stop"), Do("unjail", "stop")>>

LaunchSteps == <<Do("launch", "stop"), Do("mount", "stop"), Do("spawn", "unjail"), Do("api", "kill")>>

CreateSteps == <<Do("lock", "stop"), Do("nocmd", "stop")>> \o LaunchSteps
               \o <<Do("configure", "kill"), Do("watch", "kill")>> \o Return("running")

\* Slip: the driver reports the VM running before its snapshot is loaded.
ResumeEarly == <<Do("lock", "stop")>> \o LaunchSteps
               \o <<Do("running", "stop"), Do("load", "kill"), Do("watch", "kill")>> \o Unlock

ResumeSteps == <<Do("lock", "stop")>> \o LaunchSteps
               \o <<Do("load", "kill"), Do("watch", "kill")>> \o Return("running")

\* atomicSnapshotPaths.commit.
Commit ==
  <<Do("backmem", "discard"), Do("backsnap", "rollmem"), Do("mem", "rollback"), Do("snap", "rollback"),
    Do("dropold", "stop")>>

\* Slip: the VM is reported paused when it is frozen, before its snapshot is there.
PauseEarly == Enter \o <<Do("alive", "stop"), Do("freeze", "stop"), Do("paused", "stop"), Do("write", "discard")>>
              \o Commit \o KillLocked \o Unlock

PauseSteps == Enter \o <<Do("alive", "stop"), Do("freeze", "stop"), Do("write", "discard")>>
              \o Commit \o KillLocked \o Return("paused")

StopSteps == Enter \o <<Do("waitexit", "stop"), Do("unjail", "stop")>> \o Return("stopped")

\* Stop without its answer, then Create with the spec of before.
RebootSteps == StopSteps \o <<Do("lock", "stop"), Do("respec", "stop")>> \o Unlock \o CreateSteps

KillSteps == Enter \o KillLocked \o Return("exited") \o <<Do("onkill", "stop")>>

\* The seven balloon calls: a request to a VM that is alive.
BalloonSteps == Enter \o <<Do("alive", "stop"), Do("ask", "stop")>> \o Unlock

\* GVisorDriver.start, stopLocked.
StartContainer == <<Do("lock", "stop"), Do("notrunning", "stop"), Do("clear", "stop"), Do("bundle", "stop"),
                    Do("runcreate", "delete"), Do("runstart", "delete")>> \o Return("running")
StopContainer  == Enter \o <<Do("poll", "stop"), Do("runkill", "stop")>>

StepsOf(op) ==
  IF driver = "firecracker"
  THEN CASE op = "create" -> CreateSteps
         [] op = "resume" -> ResumeSteps
         [] op = "pause"  -> PauseSteps
         [] op = "stop"   -> StopSteps
         [] op = "reboot" -> RebootSteps
         [] op = "kill"   -> KillSteps
         [] op = "balloon" -> BalloonSteps
  ELSE CASE op = "create" -> StartContainer
         [] op = "stop"   -> StopContainer \o Return("stopped")
         [] op = "reboot" -> StopContainer \o Unlock \o StartContainer
         [] op = "kill"   -> Enter \o <<Do("runkill", "stop")>> \o Return("exited") \o <<Do("onkill", "stop")>>
         [] OTHER         -> << >>           \* not supported

\* Slip: rollbacks put the state file back before the memory file.
UndoSnapFirst(err) ==
  CASE err = "stop"     -> Unlock
    [] err = "unjail"   -> <<Do("unjail", "stop")>> \o Unlock
    [] err = "kill"     -> KillLocked \o Unlock
    [] err = "delete"   -> <<Do("rundelete", "stop")>> \o Unlock
    [] err = "discard"  -> <<Do("discard", "stop")>> \o Unlock
    [] err = "rollmem"  -> <<Do("rollmem", "stop"), Do("discard", "stop")>> \o Unlock
    [] err = "rollback" -> <<Do("rollsnap", "stop"), Do("rollmem", "stop"), Do("discard", "stop")>> \o Unlock

Undo(err) ==
  CASE err = "stop"     -> Unlock
    [] err = "unjail"   -> <<Do("unjail", "stop")>> \o Unlock
    [] err = "kill"     -> KillLocked \o Unlock
    [] err = "delete"   -> <<Do("rundelete", "stop")>> \o Unlock
    [] err = "discard"  -> <<Do("discard", "stop")>> \o Unlock
    [] err = "rollmem"  -> <<Do("rollmem", "stop"), Do("discard", "stop")>> \o Unlock
    [] err = "rollback" -> <<Do("rollmem", "stop"), Do("rollsnap", "stop"), Do("discard", "stop")>> \o Unlock

-----------------------------------------------------------------------------
Active(c)  == call[c].todo # << >>
At(c, kind) == Active(c) /\ Head(call[c].todo).do = kind
Rest(c)    == Tail(call[c].todo)
Then(c, steps) == call' = [call EXCEPT ![c].todo = steps]
Fails(c)   == Then(c, Undo(Head(call[c].todo).err))
Fault      == faults < MaxFaults /\ faults' = faults + 1
Live(c)    == ~call[c].cancelled

\* A step that goes on when ok holds and fails when it does not, and one that a
\* failure of the host or of the runtime ends.
Passes(c, ok) == IF ok THEN Then(c, Rest(c)) ELSE Fails(c)
Breaks(c)     == Fault /\ Fails(c)

\* livePIDs: what runs in the sandbox's cgroup.
LivePIDs == {v \in Runtimes : proc[v] = "live"}
Killed(s) == [v \in Runtimes |-> IF v \in s THEN "gone" ELSE proc[v]]

Init ==
  /\ driver \in Drivers /\ shim = "up" /\ mu = NoCall
  /\ info = "none" /\ cmd = 0 /\ spec = FALSE
  /\ proc = [v \in Runtimes |-> "none"] /\ known = 0 /\ launched = 0
  /\ jail = "none" /\ mem \in {Template, NoFile} /\ snap = mem /\ tmp = NoFile
  /\ old = [mem |-> NoFile, snap |-> NoFile]
  /\ call = [c \in Calls |-> Idle] /\ faults = 0
  /\ hurt = {} /\ orphans = {} /\ over = FALSE

\* The gRPC server takes a call on while it is not stopping.
Request(c) ==
  /\ shim = "up" /\ call[c].op = "idle"
  /\ Cardinality({d \in Calls : Active(d)}) < MaxActive
  /\ \E op \in Ops :
       /\ StepsOf(op) # << >>
       /\ call' = [call EXCEPT ![c] = [op |-> op, cancelled |-> FALSE, todo |-> StepsOf(op)]]
  /\ UNCHANGED <<theDriver, procs, files, faults, history>>

Cancel(c) ==
  /\ Active(c) /\ Live(c) /\ Fault
  /\ call' = [call EXCEPT ![c].cancelled = TRUE]
  /\ UNCHANGED <<theDriver, procs, files, history>>

-----------------------------------------------------------------------------
(***************************************************************************)
(* The mutex and the driver's record of its runtime                        *)
(***************************************************************************)
Lock(c) ==
  /\ At(c, "lock") /\ mu = NoCall
  /\ mu' = c
  /\ Then(c, Rest(c))
  /\ over' = (over \/ (call[c].op = "resume" /\ info = "running"))
  /\ UNCHANGED <<driver, shim, info, cmd, spec, procs, files, faults, hurt, orphans>>

Release(c) ==
  /\ At(c, "unlock")
  /\ mu' = NoCall
  /\ Then(c, Rest(c))
  /\ UNCHANGED <<driver, shim, info, cmd, spec, procs, files, faults, history>>

\* Slip: a method that unlocks by hand returns early without.
LooksAndLeaves(c, kind, ok) ==
  /\ At(c, kind)
  /\ Then(c, IF ok THEN Rest(c) ELSE << >>)
  /\ UNCHANGED <<theDriver, procs, files, faults, history>>

\* Steps that only look.
Looks(c, kind, ok) ==
  /\ At(c, kind)
  /\ Passes(c, ok)
  /\ UNCHANGED <<theDriver, procs, files, faults, history>>

Check(c)      == Looks(c, "check", info # "none")
NoCmd(c)      == Looks(c, "nocmd", cmd = 0)
Respec(c)     == Looks(c, "respec", spec)
NotRunning(c) == Looks(c, "notrunning", info # "running")
\* checkProcessAliveLocked.
ProcessAlive  == cmd # 0 /\ (LivePIDs # {} \/ proc[cmd] = "jailing")
Alive(c)      == Looks(c, "alive", ProcessAlive)

Reports == {"running", "paused", "stopped", "exited"}
Set(c) ==
  /\ \E state \in Reports :
       /\ At(c, state)
       /\ info' = state
       /\ spec' = (spec \/ state = "running")
  /\ Then(c, Rest(c))
  /\ UNCHANGED <<driver, shim, mu, cmd, procs, files, faults, hurt, orphans, over>>

\* FirecrackerDriver.Status corrects what it reports.
Status ==
  /\ shim # "down" /\ mu = NoCall /\ driver = "firecracker"
  /\ info = "running" /\ cmd # 0 /\ ~ProcessAlive
  /\ info' = "exited"
  /\ UNCHANGED <<driver, shim, mu, cmd, spec, procs, files, call, faults, history>>

-----------------------------------------------------------------------------
(***************************************************************************)
(* Firecracker: the jail and the process                                   *)
(***************************************************************************)
\* Removing the jail's directory with the snapshot directory still mounted in
\* it removes the snapshot.
Wiped == jail = "mounted"

\* prepareFirecrackerLaunch: unmounts and removes a stale jail, makes a new one.
Launch(c) ==
  /\ At(c, "launch")
  /\ \/ Then(c, Rest(c)) /\ jail' = "made" /\ UNCHANGED faults
     \/ Breaks(c) /\ jail' \in {jail, "none", "made"}
  /\ UNCHANGED <<theDriver, procs, mem, snap, tmp, old, history>>

\* prepareMounts; what it mounted before it fails stays.
Mount(c) ==
  /\ At(c, "mount")
  /\ \/ Then(c, Rest(c)) /\ jail' = "mounted" /\ UNCHANGED faults
     \/ Breaks(c) /\ jail' \in {jail, "mounted"}
  /\ UNCHANGED <<theDriver, procs, mem, snap, tmp, old, history>>

\* startFirecrackerLocked forgets the process it started before.
Spawn(c) ==
  /\ At(c, "spawn") /\ launched < MaxLaunch
  /\ \/ /\ Then(c, Rest(c))
        /\ launched' = launched + 1 /\ cmd' = launched + 1
        /\ proc' = [proc EXCEPT ![launched + 1] = "jailing"]
        /\ UNCHANGED faults
     \/ Breaks(c) /\ UNCHANGED <<launched, cmd, proc>>
  /\ UNCHANGED <<driver, shim, mu, info, spec, known, files, history>>

\* The jailer enters the sandbox's cgroup and clones firecracker into a new pid
\* namespace; the process the driver started ends.
Jailed(v) ==
  /\ proc[v] = "jailing"
  /\ proc' = [proc EXCEPT ![v] = "live"]
  /\ UNCHANGED <<theDriver, known, launched, files, call, faults, history>>

Exits(v) ==
  /\ proc[v] \in {"jailing", "live"} /\ Fault
  /\ proc' = [proc EXCEPT ![v] = "gone"]
  /\ UNCHANGED <<theDriver, known, launched, files, call, history>>

\* Requests to firecracker's API socket: each goes on only if the VM answers and
\* the caller is still there, and can fail after it had its effect.
Answers(c) == LivePIDs # {} /\ Live(c)
Quiet == <<theDriver, procs, jail, mem, snap, old, history>>

\* waitForAPI.
Api(c) ==
  /\ At(c, "api")
  /\ \/ proc[cmd] = "live" /\ Live(c) /\ Then(c, Rest(c)) /\ UNCHANGED faults
     \/ (proc[cmd] = "gone" \/ ~Live(c)) /\ Fails(c) /\ UNCHANGED faults
     \/ Breaks(c)
  /\ UNCHANGED <<theDriver, procs, files, history>>

Ask(c, kind, ok) ==
  /\ At(c, kind)
  /\ \/ Passes(c, ok /\ Answers(c)) /\ UNCHANGED faults
     \/ Breaks(c)

\* configureMachine, PutMetrics and LoadSnapshot, waitPostStartAliveLocked.
Configure(c) == Ask(c, "configure", TRUE) /\ UNCHANGED <<Quiet, tmp>>
Load(c)      == Ask(c, "load", mem # NoFile /\ snap # NoFile) /\ UNCHANGED <<Quiet, tmp>>
Watch(c)     == Ask(c, "watch", ProcessAlive) /\ UNCHANGED <<Quiet, tmp>>
Balloon(c)   == Ask(c, "ask", TRUE) /\ UNCHANGED <<Quiet, tmp>>

Freeze(c)    == Ask(c, "freeze", TRUE) /\ UNCHANGED <<Quiet, tmp>>

-----------------------------------------------------------------------------
(***************************************************************************)
(* Ending a VM                                                             *)
(***************************************************************************)
\* killLocked's terminate: SIGTERM and SIGKILL to the cgroup.  Processes that
\* survive both are an error.
Terminate(c) ==
  /\ At(c, "term")
  /\ IF cmd = 0 THEN Then(c, Tail(Tail(Rest(c)))) /\ UNCHANGED <<proc, faults, hurt>>
     ELSE \/ proc' = Killed(LivePIDs) /\ Then(c, Rest(c)) /\ UNCHANGED <<faults, hurt>>
          \/ LivePIDs # {} /\ Breaks(c) /\ hurt' = hurt \cup {"unkillable"} /\ UNCHANGED proc
  /\ UNCHANGED <<theDriver, known, launched, files, orphans, over>>

\* The rest of killLocked: the started process is signalled and reaped.
Signal(c) ==
  /\ At(c, "signal")
  /\ proc' = Killed({v \in {cmd} : proc[v] = "jailing"})
  /\ cmd' = 0
  /\ Then(c, Rest(c))
  /\ UNCHANGED <<driver, shim, mu, info, spec, known, launched, files, faults, history>>

\* waitProcessExitLocked: the guest shuts down, or is terminated.
WaitExit(c) ==
  /\ At(c, "waitexit")
  /\ IF cmd = 0 THEN Then(c, Tail(Rest(c))) /\ UNCHANGED <<proc, cmd, faults, hurt>>
     ELSE \/ proc' = Killed(LivePIDs) /\ cmd' = 0 /\ Then(c, Rest(c)) /\ UNCHANGED <<faults, hurt>>
          \/ LivePIDs # {} /\ Breaks(c) /\ hurt' = hurt \cup {"unkillable"} /\ UNCHANGED <<proc, cmd>>
  /\ UNCHANGED <<driver, shim, mu, info, spec, known, launched, files, orphans, over>>

\* Slip: the jail is cleaned up without looking into its cgroup again.
CleanupWithoutTerminate(c) ==
  /\ At(c, "unjail")
  /\ jail' = "none"
  /\ \/ Then(c, Rest(c)) /\ UNCHANGED <<mem, snap, faults, hurt>>
     \/ /\ Wiped /\ Breaks(c)
        /\ mem' = NoFile /\ snap' = NoFile /\ hurt' = hurt \cup {"mounts"}
  /\ UNCHANGED <<theDriver, procs, tmp, old, orphans, over>>

\* jailer.cleanup terminates the cgroup again, unmounts, and removes the
\* directory whether that worked or not.
Cleanup(c) ==
  /\ At(c, "unjail")
  /\ jail' = "none"
  /\ \/ proc' = Killed(LivePIDs) /\ Then(c, Rest(c)) /\ UNCHANGED <<mem, snap, faults, hurt>>
     \/ /\ LivePIDs # {} /\ Breaks(c) /\ hurt' = hurt \cup {"unkillable"}
        /\ UNCHANGED <<proc, mem, snap>>
     \/ /\ Wiped /\ Breaks(c)
        /\ proc' = Killed(LivePIDs)
        /\ mem' = NoFile /\ snap' = NoFile /\ hurt' = hurt \cup {"mounts"}
  /\ UNCHANGED <<theDriver, known, launched, tmp, old, orphans, over>>

-----------------------------------------------------------------------------
(***************************************************************************)
(* Snapshot files.  A memory or state file is named by the VM it is of.    *)
(***************************************************************************)
WriteSnapshot(c) ==
  /\ Ask(c, "write", TRUE)
  /\ tmp' = IF Answers(c) THEN cmd ELSE tmp
  /\ UNCHANGED <<Quiet>>

\* One rename or removal of files; any can fail and then changes nothing.
Renames(c, kind, changed) ==
  /\ At(c, kind)
  /\ \/ changed /\ Then(c, Rest(c)) /\ UNCHANGED faults
     \/ Breaks(c) /\ UNCHANGED <<mem, snap, tmp, old>>
  /\ UNCHANGED <<theDriver, procs, jail, history>>

\* commit: moveIfExists, then the renames; tmp stands for both temporary files.  A
\* commit that finds a state file without a memory file is noted.
BackMem(c) ==
  /\ At(c, "backmem")
  /\ \/ /\ old' = [old EXCEPT !.mem = mem] /\ mem' = NoFile
        /\ hurt' = hurt \cup {h \in {"halfway"} : mem = NoFile /\ snap # NoFile}
        /\ Then(c, Rest(c)) /\ UNCHANGED faults
     \/ Breaks(c) /\ UNCHANGED <<mem, old, hurt>>
  /\ UNCHANGED <<theDriver, procs, jail, snap, tmp, orphans, over>>
BackSnap(c) == Renames(c, "backsnap",
  old' = [old EXCEPT !.snap = snap] /\ snap' = NoFile /\ UNCHANGED <<mem, tmp>>)
NewMem(c)   == Renames(c, "mem", mem' = tmp /\ UNCHANGED <<snap, tmp, old>>)
NewSnap(c)  == Renames(c, "snap", snap' = tmp /\ UNCHANGED <<mem, tmp, old>>)

\* rollbackAtomicMove removes the new file and renames the old one back, if there
\* was one.  Its errors are dropped: when the rename fails there is no file, and
\* when the removal failed as well the new one stays.
RollMem(c) ==
  /\ At(c, "rollmem") /\ Then(c, Rest(c))
  /\ \/ old.mem = NoFile /\ UNCHANGED <<mem, old, faults, hurt>>
     \/ /\ old.mem # NoFile /\ mem' = old.mem /\ old' = [old EXCEPT !.mem = NoFile]
        /\ UNCHANGED <<faults, hurt>>
     \/ /\ old.mem # NoFile /\ Fault
        /\ \/ mem' = NoFile /\ hurt' = hurt \cup {"rollback"}
           \/ mem # NoFile /\ mem' = mem /\ hurt' = hurt \cup {"rollback", "kept"}
        /\ UNCHANGED old
  /\ UNCHANGED <<theDriver, procs, jail, snap, tmp, orphans, over>>

\* There is never a new state file to remove: its rename is the last.
RollSnap(c) ==
  /\ At(c, "rollsnap") /\ Then(c, Rest(c))
  /\ \/ old.snap = NoFile /\ UNCHANGED <<snap, old, faults, hurt>>
     \/ /\ old.snap # NoFile /\ snap' = old.snap /\ old' = [old EXCEPT !.snap = NoFile]
        /\ UNCHANGED <<faults, hurt>>
     \/ old.snap # NoFile /\ Fault /\ snap' = NoFile /\ hurt' = hurt \cup {"rollback"} /\ UNCHANGED old
  /\ UNCHANGED <<theDriver, procs, jail, mem, tmp, orphans, over>>

\* The deferred cleanup of an uncommitted snapshot removes the backups as well.
Discard(c) ==
  /\ At(c, "discard")
  /\ tmp' = NoFile /\ old' = [mem |-> NoFile, snap |-> NoFile]
  /\ Then(c, Rest(c))
  /\ UNCHANGED <<theDriver, procs, jail, mem, snap, faults, history>>

DropOld(c) ==
  /\ At(c, "dropold")
  /\ tmp' = NoFile /\ old' = [mem |-> NoFile, snap |-> NoFile]
  /\ Then(c, Rest(c))
  /\ UNCHANGED <<theDriver, procs, jail, mem, snap, faults, history>>

-----------------------------------------------------------------------------
(***************************************************************************)
(* gVisor                                                                  *)
(***************************************************************************)
\* What start does first: the bundle and runsc's state are removed and made again,
\* and with the state the only record of a container that may still run.
Clear(c) ==
  /\ At(c, "clear")
  /\ \/ Then(c, Rest(c)) /\ known' = 0 /\ UNCHANGED faults
     \/ Breaks(c) /\ known' \in {known, 0}
  /\ UNCHANGED <<theDriver, proc, launched, files, history>>

\* newGVisorOCISpec needs the host's devices and its CDI files.
Bundle(c) ==
  /\ At(c, "bundle")
  /\ \/ Then(c, Rest(c)) /\ UNCHANGED faults
     \/ Breaks(c)
  /\ UNCHANGED <<theDriver, procs, files, history>>

\* runsc create, which fails when the caller is gone, perhaps after the container
\* was made.
RunCreate(c) ==
  /\ At(c, "runcreate") /\ launched < MaxLaunch
  /\ LET v == launched + 1 IN
     \/ /\ \/ Live(c) /\ Then(c, Rest(c)) /\ UNCHANGED faults
           \/ Breaks(c)
        /\ launched' = v /\ known' = v /\ proc' = [proc EXCEPT ![v] = "live"]
     \/ ~Live(c) /\ Fails(c) /\ UNCHANGED <<launched, known, proc, faults>>
  /\ UNCHANGED <<theDriver, files, history>>

RunStart(c) ==
  /\ At(c, "runstart")
  /\ \/ Passes(c, Live(c) /\ proc[known] = "live") /\ UNCHANGED faults
     \/ Breaks(c)
  /\ UNCHANGED <<theDriver, procs, files, history>>

Deleted == proc' = Killed({known} \ {0}) /\ known' = 0 /\ UNCHANGED orphans

\* The deletion fails and its error is dropped: the container may run on, and
\* nobody waits for its end any more.
Left == UNCHANGED <<proc, known>> /\ orphans' = orphans \cup ({known} \ {0})

\* Slip: the delete of a container that did not start runs in the call's context.
RunDeleteInContext(c) ==
  /\ At(c, "rundelete")
  /\ \/ Live(c) /\ Deleted /\ UNCHANGED faults
     \/ ~Live(c) /\ UNCHANGED <<proc, known, orphans, faults>>
     \/ Fault /\ Left
  /\ Then(c, Rest(c))
  /\ UNCHANGED <<theDriver, launched, files, hurt, over>>

\* runsc delete --force after a failed start, in a context of its own.
RunDelete(c) ==
  /\ At(c, "rundelete")
  /\ \/ Deleted /\ UNCHANGED faults
     \/ Fault /\ Left
  /\ Then(c, Rest(c))
  /\ UNCHANGED <<theDriver, launched, files, hurt, over>>

\* stopLocked asks runsc state until the container is gone, the caller is, or the
\* time is over.  A query that fails counts as a container that is gone, and the
\* error of the delete after it is dropped: when both fail, because the caller has
\* gone or runsc cannot run, the stop is done all the same.
Poll(c) ==
  LET ended == Tail(Rest(c)) IN
  /\ At(c, "poll")
  /\ \/ Live(c) /\ Deleted /\ Then(c, ended) /\ UNCHANGED faults
     \/ Then(c, Rest(c)) /\ UNCHANGED <<proc, known, orphans, faults>>
     \/ ~Live(c) /\ Fails(c) /\ UNCHANGED <<proc, known, orphans, faults>>
     \/ Left /\ Then(c, ended) /\ IF Live(c) THEN Fault ELSE UNCHANGED faults
  /\ UNCHANGED <<theDriver, launched, files, hurt, over>>

\* runsc kill KILL and delete --force.
RunKill(c) ==
  /\ At(c, "runkill")
  /\ \/ Live(c) /\ Deleted /\ Then(c, Rest(c)) /\ UNCHANGED faults
     \/ ~Live(c) /\ Fails(c) /\ UNCHANGED <<proc, known, faults>>
     \/ Breaks(c) /\ UNCHANGED <<proc, known>>
  /\ UNCHANGED <<theDriver, launched, files, history>>

-----------------------------------------------------------------------------
(***************************************************************************)
(* The server                                                              *)
(***************************************************************************)
\* KillRuntime's requestStop.
OnKill(c) ==
  /\ At(c, "onkill")
  /\ shim' = IF shim = "up" THEN "stopping" ELSE shim
  /\ Then(c, Rest(c))
  /\ UNCHANGED <<driver, mu, info, cmd, spec, procs, files, faults, history>>

Forget == mu' = NoCall /\ info' = "none" /\ cmd' = 0 /\ spec' = FALSE
          /\ call' = [c \in Calls |-> [call[c] EXCEPT !.todo = << >>]]
          /\ UNCHANGED <<driver, proc, known, launched, jail, mem, snap, tmp, old>>

Die == Forget /\ orphans' = orphans \cup {v \in Runtimes : proc[v] \in {"jailing", "live"}}

\* GracefulStop waits for the calls in progress, those that wait for the mutex
\* included; after ten seconds the shim ends all the same.
Stopped ==
  /\ shim = "stopping" /\ shim' = "down" /\ Die
  /\ \/ (\A c \in Calls : ~Active(c)) /\ UNCHANGED faults
     \/ Fault
  /\ UNCHANGED <<hurt, over>>

\* The shim dies, and boxlet's ensureShim starts another.  One of a snapshot's two
\* files may be where the commit it interrupts put it, and the other not.
Crash ==
  /\ shim = "up" /\ Fault /\ Die
  /\ UNCHANGED <<shim, hurt, over>>

Step(c) ==
  \/ Lock(c) \/ Release(c) \/ Check(c) \/ NoCmd(c) \/ Respec(c) \/ NotRunning(c) \/ Alive(c) \/ Set(c)
  \/ Launch(c) \/ Mount(c) \/ Spawn(c) \/ Api(c) \/ Configure(c) \/ Load(c) \/ Watch(c) \/ Balloon(c)
  \/ Freeze(c) \/ Terminate(c) \/ Signal(c) \/ WaitExit(c) \/ Cleanup(c)
  \/ WriteSnapshot(c) \/ BackMem(c) \/ BackSnap(c) \/ NewMem(c) \/ NewSnap(c)
  \/ RollMem(c) \/ RollSnap(c) \/ Discard(c) \/ DropOld(c)
  \/ Clear(c) \/ Bundle(c) \/ RunCreate(c) \/ RunStart(c) \/ RunDelete(c) \/ Poll(c) \/ RunKill(c) \/ OnKill(c)

Next == \/ \E c \in Calls : Request(c) \/ Step(c) \/ Cancel(c)
        \/ \E v \in Runtimes : Jailed(v) \/ Exits(v)
        \/ Status \/ Stopped \/ Crash

Spec == Init /\ [][Next]_vars

-----------------------------------------------------------------------------
(***************************************************************************)
(* Properties                                                              *)
(***************************************************************************)
Running == {v \in Runtimes : proc[v] \in {"jailing", "live"}}
AtRest  == mu = NoCall /\ shim # "down"
Parked  == {"paused", "stopped", "exited"}

\* The types of the shim's state; and whichever way calls return, the mutex is held
\* by a call in progress (gvisor.go's Reboot unlocks by hand).
TypeOK ==
  /\ driver \in Drivers /\ shim \in {"up", "stopping", "down"} /\ mu \in Calls \cup {NoCall}
  /\ mu # NoCall => Active(mu)
  /\ info \in Reports \cup {"none"} /\ cmd \in 0..MaxLaunch /\ spec \in BOOLEAN
  /\ proc \in [Runtimes -> {"none", "jailing", "live", "gone"}]
  /\ known \in 0..MaxLaunch /\ launched \in 0..MaxLaunch /\ orphans \subseteq Runtimes
  /\ jail \in {"none", "made", "mounted"}
  /\ mem \in Held /\ snap \in Held /\ tmp \in Held /\ old \in [mem : Held, snap : Held]

\* Whoever looks at a sandbox's snapshot, at any instant of a pause, after any
\* failed rename and after a crash of the shim, finds a memory file and a state
\* file of one and the same VM, or not both (atomicSnapshotPaths.commit); except
\* that rollbackAtomicMove leaves a new memory file where there was none before the
\* commit, or where it could neither remove it nor rename over it.
SnapshotWhole == hurt \cap {"halfway", "kept"} = {} /\ mem # NoFile /\ snap # NoFile => mem = snap

\* A VM that is reported paused has its snapshot and has ended, whatever resumes
\* and further pauses fail (Pause ends the VM after the commit, Resume only reads the
\* files), as long as its jail could be unmounted and a rollback succeeded; and, to
\* have ended, no process outlived SIGKILL.
PausedIsSaved ==
  AtRest /\ info = "paused" /\ hurt \cap {"mounts", "rollback"} = {} =>
    /\ mem \in Runtimes /\ snap = mem
    /\ "unkillable" \notin hurt => proc[mem] = "gone"

\* A runtime reported parked or killed has ended, and every VM that has not is one
\* the driver can still end, however starts were cancelled, failed or were
\* overtaken.  What may run on are the orphans: what an earlier shim left, and a
\* container whose deletion failed, where the driver drops the error: after a start
\* that failed, and in a stop in which runsc state failed as well (gvisor.go:245);
\* and processes that survive SIGKILL.
NoForgottenRuntime ==
  AtRest /\ "unkillable" \notin hurt =>
    /\ info \in Parked => Running \subseteq orphans
    /\ driver = "firecracker" /\ cmd = 0 => Running \subseteq orphans

\* Status does not say running of a VM that has ended (FirecrackerDriver.Status):
\* unless a jail could not be cleaned up or a running sandbox was resumed, a VM that
\* is reported running is one whose process Status looks at.
StatusHonest ==
  AtRest /\ driver = "firecracker" /\ hurt \subseteq {"rollback", "kept", "halfway"} /\ ~over =>
    (info = "running" => cmd # 0)

=============================================================================
