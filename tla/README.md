# NovitaBox in TLA+

NovitaBox runs sandboxes (Firecracker micro-VMs and gVisor containers) on a node.
This directory models the parts of it in which a sandbox's life is decided: the
handlers of `boxlet`, the sqlite tables they write, templates and images, the shim and
runtime behind each sandbox, the host's network, the guest agent, and the file that the
node's three servers share. Paths below are relative to `src/internal/` unless they begin
with another directory; `PROJECT.json` maps every definition to the lines it stands for.

- [1. The system](#1-the-system)
- [2. Modules](#2-modules)
- [3. How the models relate to the code](#3-how-the-models-relate-to-the-code)
- [4. Runs](#4-runs)
- [5. Where code and documentation disagree](#5-where-code-and-documentation-disagree)
- [6. Proofs](#6-proofs)
- [7. What is not modelled](#7-what-is-not-modelled)
- [8. Plan](#8-plan)

## 1. The system

```
 client ── HTTP ──> boxapi ── gRPC ──> boxlet ── sqlite (one connection)
                      │                  │  ├── ip / iptables: namespaces, routes, NAT
                      └─ the same file ──┤  └── containerd: overlaybd snapshots
 client ── HTTP ──> boxproxy ─┐          └── unix socket ──> boxshim (one per sandbox)
   (sandbox traffic)          │                                 └── firecracker | runsc
                              └── host_access_ip ──> boxd (inside the sandbox)
```

| component | state | operations | hard behaviour | correct when |
|---|---|---|---|---|
| sqlite store (`storage/store/sqlite`) | sandbox rows (state, slot), snapshots, templates, images, builds; the schema's version | single statements and transactions; compare-and-set of a row's state; lowest free slot; migrations | clients interleave between statements, never inside one (`SetMaxOpenConns(1)`); three processes migrate one file | a slot has one holder; a row changes only by a statement; the file is never half migrated |
| boxlet sandbox service (`boxlet/server/services.go`) | none in memory | Create, Pause, Resume, Stop, Start, Reboot, Kill; balloon; Get, List | no lock on a sandbox; each handler is a long sequence of effects on four other components; errors, cancelled contexts and restarts between any two | the row ends in a stable state that agrees with runtime, network, rootfs; nothing outlives a sandbox |
| boxlet artifact service (same file) | templates, images, their files | CreateTemplate, DeleteTemplate, CreateImage, DeleteImage | a template's rootfs is swapped by renames while it is in use; build sandboxes take a slot nobody reserves; cleanup on success only | rootfs, snapshot and build belong together; an image is the disk its build sandbox halted with |
| boxlet node service (same file) | none | reports configuration and capabilities | none | — |
| network manager (`boxlet/server/network.go`) | namespaces, veth pairs, host routes, iptables | Prepare, Cleanup, slot arithmetic | Cleanup drops errors; a route belongs to a slot, not to a sandbox; uint32 arithmetic on CIDRs | a running sandbox, and it alone, answers at its slot's address; slots have distinct, configurable addresses |
| boxshim and drivers (`boxshim`) | one runtime process, its spec and last known state; jail and mounts; snapshot files | Create, Pause, Resume, Start, Stop, Reboot, Kill; balloon | processes that end by themselves; cancelled starts; snapshot files replaced by renames; a shim that dies | a snapshot's two files belong together; no process without a driver that can end it |
| overlaybd provider (`rootfs/overlaybd`) | a containerd snapshot per sandbox, mounted or not | Prepare, Mount, Unmount, Remove | unmount of a busy rootfs; removal in two steps | no snapshot outlives its sandbox |
| boxapi (`boxapi`) | template builds (in the store) | forwards; ConnectSandbox resumes a paused sandbox; build status; pages of the list | check, then act; status moved with the request's context; an offset as page token | a build always ends ready or error; pages list each sandbox |
| boxproxy (`boxproxy/server`) | none | proxies a request to the slot of a row | slot read before it is dialled | a request reaches the sandbox it names |
| boxd (`boxd/server`) | processes of the guest and their output | start, connect, input, signal, wait, exec, re-exec | output fan-out with bounded buffers, exit racing readers, hand-written protobuf | a subscriber sees the output in order, then the exit |
| wsutil, config, log, layout, `cmd/*`, boxctl | none, or constants | — | — | — |

A sandbox's handlers all have the same shape: read the row, write a *transitional*
state, do the work, write the final state, give resources back. `setSandboxState`
makes each write in two statements (read, then compare-and-set), so two handlers of
one sandbox can interleave anywhere. The list of hazards this leads to, each at its
line, is in `PROJECT.json`, with the property that covers it or the reason none does.

## 2. Modules

| module | models | source |
|---|---|---|
| `SandboxStore` | the sandbox and snapshot tables: one action per statement, issued by anyone in any order. It is the abstract specification the handlers implement | `sqlite/sandbox.go`, `sqlite/artifact.go`, `sandbox/types.go` |
| `SandboxLifecycle` | the state machine of `docs/architecture/lifecycle.md`: the abstract specification of what clients see | (the documented machine) |
| `SandboxService` | the seven handlers over store, shims, network and rootfs; EXTENDS `SandboxStore`, so its steps are the store's | `boxlet/server/services.go`, `network.go`, `boxshim/*`, `rootfs/overlaybd/*` |
| `ArtifactService` | templates, builds and images: boxapi's handlers and boxlet's, their rows, files and build sandboxes | `boxlet/server/services.go`, `boxapi/handler/template.go`, `image.go`, `sqlite/artifact.go`, `template_build.go` |
| `NetworkSlots` | slot numbering and addresses, with uint32 wrap-around | `boxlet/server/network.go` |
| `HostNetwork` | every command of Prepare and Cleanup on namespaces, pairs, routes and iptables, and boxproxy's dial; EXTENDS `NetworkSlots` | `boxlet/server/network.go`, `boxproxy/server/server.go` |
| `Boxshim` | one shim with either driver: mutex, process, jail, API socket, snapshot files, runsc | `boxshim/server/server.go`, `boxshim/runtime/*.go` |
| `BoxdProcesses` | the guest agent's processes, readers, output hubs and connections | `boxd/server/process.go`, `server.go`, `pty_linux.go` |
| `ConnectCodec` | its Connect protocol: envelopes and protobuf messages as sequences of bytes | `boxd/server/process.go` |
| `SharedDatabase` | `sqlite.Open` by three processes: journal mode, migrations, restarts | `sqlite/db.go`, `migrations.go`, `app/*` |
| `SandboxListing` | boxapi's sandbox calls and the pages of its list; EXTENDS `SharedDatabase`: only processes that serve answer | `boxapi/handler/sandbox.go` |
| `MCSandboxService`, `MCArtifactService`, `MCNetworkSlots`, `MCBoxshim`, `MCBoxd`, `MCSharedStore` | instances for TLC: symmetry sets, networks, messages; `MCBoxd` composes processes and codec | |
| `SandboxStoreProofs`, `SandboxServiceProofs`, `SharedDatabaseProofs`, `ArtifactServiceProofs` | theorems on the module of that name | |
| `NetworkSlotsProofs` | theorems on `NetworkSlots` and `HostNetwork` | |
| `SandboxConductProofs` | theorems on `SandboxService` with clients that keep to the lifecycle | |
| `BoxshimProofs` | which steps a call of `Boxshim` can have left; the theorems on it | |
| `BoxdProcessesProofs` | theorems on the hubs and the streams of `BoxdProcesses` | |

The modules meet at small interfaces. `SandboxService` sees a driver as one answer per
request and one process per sandbox; `Boxshim` is the inside of that answer.
It sees a host route per slot; `HostNetwork` has the commands behind it. It sees the
agent as something that answers at an address; `BoxdProcesses` is that agent.

## 3. How the models relate to the code

**Calls are lists of steps.** A Go handler is straight-line code whose every step can
return an error. `SandboxService`, `ArtifactService`, `Boxshim` and `HostNetwork` write
each operation as the list of those steps (`CreateSteps`, `ExportSteps`, `PauseSteps`,
`PrepareSteps`, …), and each step carries what the code does when it errs. One action per
kind of step is one effect of the code; a call holds the steps it has left, so calls
interleave between any two.

**`SandboxService`.** Error branches are `"return"` (return the error), `"ignore"` (the error
is dropped), `"setFailed"`, `"setAbandon"` (write failed, then release the network), and for
Create `"casFailed"`, `"casAbandon"`, `"killAbandon"`; `Recovery` translates them into the steps
the handler then executes. A call also holds the slot of the row it read first
(`record.NetworkSlot`), the state `setSandboxState` read last (`seen`), whether its context is
cancelled, and a deferred rollback (`undo`).

| step | action | code |
|---|---|---|
| `set` | `ReadState`, which inserts a `cas` | `setSandboxState`: GetSandbox, nothing to do if the state is there |
| `cas` | `CompareAndSet` | `UpdateSandboxState` (state and state_transitions, one transaction) |
| `assign`, `free` | `Assign`, `Free` | `AssignSandboxNetworkSlot`, `ReleaseSandboxNetworkSlot` |
| `snapshot`, `delsnaps`, `delrow`, `reread` | `RecordSnapshot`, `DropSnapshots`, `DropRow`, `Reread` | the other statements |
| `net`, `cleanup` | `PrepareNetwork`, `CleanupNetwork` | `sandboxNetworkManager.Prepare`, `Cleanup` |
| `rpc`, `bgkill` | `CallRuntime`, `KillUnready` | an RPC to boxshim, `Answer` being what the driver does |
| `shim`, `terminate`, `rmdir` | `EnsureShim`, `TerminateShim`, `RemoveDirectory` | `ensureShim`, `terminateShimProcess`, `removeSandboxDirectory` |
| `agent` | `RefreshAgent` | `ensureSandboxAgentCurrent`: whoever answers at the slot's address |
| `files`, `mount`, `unmount`, `remove` | `PrepareFiles`, `MountRootfs`, `UnmountRootfs`, `RemoveRootfs` | the overlaybd provider |
| (deferred) | `RollBack` | the deferred overlaybd rollback of Create and Start |

The runtime is one value per sandbox, `handle`: `"none"` (no shim), `"empty"` (a
shim that has created nothing), `"live"`, `"dead"` (the driver believes in
a process that has exited), `"idle"` (stopped or paused). `CreateReply`, `PauseReply`,
`ResumeReply`, `StopReply`, `RebootReply` and `KillReply` are what a driver answers;
`Mishaps` is how a request that errs can leave it. `stray` holds the sandboxes with a process
that no shim reaches any more. `route[n]` is the sandbox that the route of slot `n` leads to:
Cleanup deletes it *whoever it leads to*, because `ip route del <host_access_ip>/32` names no device.
Faults are actions of the environment, chosen by `Faults` and bounded by `MaxFaults`:
`db` (a statement fails), `host` (a command or file operation fails, before or after its
effect), `rpc` (an RPC errs and leaves the driver in one of `Mishaps`), `agent` (the guest does
not answer), `cancel` (the request's context ends: what takes the context fails from then on, and
Cleanup, which drops errors, does nothing and reports success), `crash` (boxlet dies and
restarts, and nothing is reconciled), `vmexit` (the runtime ends by itself). boxlet checks no
precondition, so what may be asked is a parameter: `"any"`, `"fresh"` (an identifier is created
once, as boxapi's `newSandboxID` does), `"serial"` (and one call per sandbox at a time),
`"lifecycle"` (and only calls legal in the documented state machine).

**`ArtifactService`.** A rootfs is the set of marks left in it: by the call that materialized
it, by the agent files injected into it, by build commands, by whatever else a guest writes to
the disk it has open. A snapshot is the rootfs its memory was taken with. Files are named by
the call that created them, so that `rename` and an open disk behave as they do on
a file system: `root[p]` is the file at a template's path, `work` and `backup` the two beside it
during an export, `disk` what a build sandbox has open. A step whose error the code returns can fail: every statement
(refused by sqlite for a request that is alive, too), RPC, command, copy and rename; of the steps whose error it drops
(`Cleanup`, `RemoveDir`, `RemoveImage`, `DropWork`, `Failed`) any part of the effect can be missing. A request that is cancelled, or whose boxapi dies,
needs no action of its own: it is one whose statements and RPCs fail from then on. The death of boxlet in the middle of a call is not modelled.
Nothing of the properties guards an action; what their exceptions speak of is kept in history variables:

| variable | remembers |
|---|---|
| `mixed` | templates and images on which two calls overlapped, one of them changing what the other uses |
| `spoilt` | templates whose only rootfs an export lost to a failing rename (`Spoils`), or on whose rootfs a VM that KillRuntime did not end writes on |
| `raced` | slots picked twice: with no Prepare between, or by a pick that did not see the routes |
| `stuck` | calls whose `cleanupInternalSandbox` could not kill the VM, end the shim, or remove route and directory |
| `refused` | calls whose last status write the store refused |

**`HostNetwork`.** A sandbox's namespace, its veth pair (on the host or joined), their
addresses, gateway, DNAT and SNAT rules are `net[s]`; `routes` and `masquerade` are the host's.
A command succeeds, fails before its effect, or is not run because the context is over; `undone[s]` keeps the
commands of the last Cleanup of `s` that failed. `iptables -D` deletes the first rule that matches (`RemoveFirst`).
Prepare finds its slot again from the address in the runtime's specification (`SlotFromIP`), as
the code does. boxproxy's `Resolve` reads the row and its `Dial` reaches whoever answers at the address then.

**`Boxshim`.** `info`, `cmd` and `spec` are the driver's fields behind its mutex `mu`; `proc`
is what really runs, a jailed process being `"jailing"` until it has entered its cgroup and pid
namespace, from when on `livePIDs` finds it. `jail` is the jail's directory, with the
snapshot directory mounted in it or not: removing a mounted one takes the snapshot with it.
`mem`, `snap`, `tmp`, `old` are the files of `atomicSnapshotPaths`, named by the VM they are of.
`hurt` records what can excuse a property: a process that cannot be killed, a mount that stays, a
rollback that fails, a rollback's `rename` or `remove` that does. `orphans` are processes that nobody will end: those a shim
that died has left, and containers whose `runsc delete --force` failed where the driver drops that error. `Poll` is the
loop of `stopLocked`: `containerPID` returns an error for *any* failing `runsc state`, which counts as a container that has exited, so
for every caller a Stop can report stopped over a container that runs on, if the delete (`RunDelete`) fails too.

**`BoxdProcesses`.** A process has a child, one reader goroutine per stream, a wait goroutine, an
entry in the table and a hub; a connection has its channel (`buf`, `open`). Publish,
subscribe, cancel and close hold the hub's lock and are one action each. A child that ends may leave a descendant that
holds its outputs (`held`, chosen by `Dies`), until that one lets go of them (`LetGo`): a reader comes to the end of a terminal
or of an /exec's pipes only when nobody holds the other end (`WriteEndClosed`), whereas a started process's pipes are closed at
boxd's own end by `Cmd.Wait` (`ReadEndClosed`). A chunk is a pair of
stream and number; `pub`, `from`, `upto` and `missed` are history: a connection's `Share` of the output is the places
`from`..`upto` of what its process published, without those it `missed` because its channel was full.

**`ConnectCodec`** keeps the conversions: varints, field headers, zig-zag, envelopes and the
`TrimSpace` of a request body are computed on bytes, in both directions.

**`SharedDatabase`.** The write lock and the rollback of an open transaction are sqlite's; `Look`,
`Exec`, `Record` and `Commit` are the code's. A crash, a lock timeout, a refused switch of the
journal mode and a statement that finds its table or column there already end the start; systemd starts the process
again.

Operators whose comment begins with *Slip* are not the code. Each is a mistake someone
could make in the definition that follows it; the entry in `PROJECT.json` under "mutants"
names the property that then fails.

## 4. Runs

All bounds are constants of the modules, named and commented there.

| run | instance | checks | shows |
|---|---|---|---|
| `RacingCalls` | one VM, fresh identifiers, host, rpc and agent faults; 4 calls, two at a time, 1 fault | `NoStuckTransition`, `ParkedHoldsNoSlot`, `ImplementsStore` | two handlers racing on a sandbox take only the store's steps and leave it in a stable state; a paused or stopped one keeps no slot |
| `LegalClients` | a VM and a container, two slots, lifecycle clients, all faults; 5 calls, 1 fault | `TypeOK`, `SlotExclusive`, `RouteKept`, `RuntimeMatchesRow`, `NoStrayRuntime`, `GoneLeavesNothing`, `HealthyVMNeverFails`, `ImplementsLifecycle` | rows, runtimes, routes agree; a killed sandbox leaves nothing; the states move as documented |
| `FairCalls` | one VM, any clients, host, rpc, agent and vmexit faults; 3 calls, 1 fault; `FairSpec` | `TransitionEnds` | every transition ends |
| `NetworkSlots` | every pair of networks of a 5-bit address space; in one of them a VM and a container, 3 starts, 1 failure or cancellation, 1 request to boxproxy | `HostTypeOK`, `SlotsConfigurable`, `AddressesExclusive`, `SlotRecovered`, `SandboxReachable`, `ProxyReachesOwner` | each slot handed out has its own, configurable addresses; whatever an earlier Cleanup has left, a sandbox that is up, and it alone, answers at its address |
| `GuestAgent` | one process of any kind, two connections, buffer of 1, 2 chunks, 1 re-exec, the connections and the streams used in order (`InTurn`); a small schema of requests and events | `StreamFaithful`, `HubSound`, `NothingVanishes`, `EndIsLast`, `RequestUnderstood`, `EventReadable`, `ExitReachesEveryone` | streams are in order and complete but for what a full channel drops, ends come last, every exit is seen once nobody holds the output; the codec returns what was sent |
| `Artifacts` | one template, one image, one build, two calls of six kinds at a time, built from a container image or from that image, any of their steps failing, any number of times, the guest of one build sandbox writing (`MaxWriters`) | `BuildExclusive`, `NoStuckBuild`, `ReadyHasTemplate`, `TemplateCoherent`, `ImageFaithful`, `BuildLeavesNothing`, `BuildKeepsRoute` | builds are exclusive and end; templates and images stay sound; build sandboxes are cleaned up and keep their route; all with the exceptions below |
| `Drivers` | one sandbox, either driver, 3 calls, two at a time, 3 launches, 2 faults | `TypeOK`, `SnapshotWhole`, `PausedIsSaved`, `NoForgottenRuntime`, `StatusHonest` | a snapshot's two files always belong together; a paused VM has its snapshot; no runtime but an orphan is forgotten; Status is honest |
| `SharedStore` | three processes, two migrations, a new file or one of any version, 1 crash or timeout; three sandboxes, pages of one and two, 2 changes; lists once boxproxy serves | `SchemaSound`, `WalkFaithful`, `EveryoneServes` | the file is never half migrated, all three serve at last, a walk misses or repeats no more than the changes behind it account for |

**Why these bounds.** In `SandboxService` a create and one operation on each of two sandboxes already contain every pair of
handlers that can interleave on the shared parts (slots, routes); four calls on one sandbox reach create, pause, resume and
one more, so every state of the lifecycle is the start of a race, and one fault takes each error branch. With two
slots, a slot changes hands while its former owner still cleans up. For the arithmetic, a 5-bit space holds all the cases of
a 32-bit one: /0, where the number of addresses wraps to 0, one- and two-address networks, and either of the two networks the
smaller. In `HostNetwork` three starts let a slot pass to the other sandbox and back after a Cleanup in which a command
failed. A buffer of one is full after one chunk, so the ring and a connection's channel overflow with the second; two
connections are the least that can attach, leave and be closed out of order, and since connections are alike and so are the
two output streams, one connection is taken to begin first and stdout to be written first. Two artifact calls that begin
anywhere cover every pair of the six operations, and `Init` starts from what an earlier build left, so a pair can be a
rebuild, an export or a deletion. One guest that writes is enough to tell an image copied while its VM runs from one of a halted VM, and a
disk that belongs to its snapshot from one that does not. That a template can be built from another one (`SourceContent`) is left to the theorems. Three launches and three calls let a driver create, pause, resume and be killed with a
process of an earlier start still there. Two migrations are the least with a first and a last; with pages of one item, a walk
over three sandboxes has three pages to lose or repeat one between; a list reads rows that no step of boxproxy touches, so
it loses nothing to wait for boxproxy. What these bounds leave out, errors inside an error branch first of all (two faults
for one call), is what section 6 is for: every safety property of these runs but those named at its end is proved there for
any number of calls, faults and sandboxes.

**Fairness.** `FairSpec` of `SandboxService` says that a call that can take its next step does
(`WF_vars(Step(c))` for each caller), and nothing of clients or faults. Handlers run in goroutines; a statement waits for the
store's single connection, which other statements release when they end; agent checks and
health probes have a timeout of their own; drivers wait for a process to exit with a timeout, after
which they kill it; a host command is assumed to end. When the request's deadline passes first, that is a failing step (`Fail`), not a
step that never comes. `TransitionEnds` is a race result: the handler that wrote a transitional state, or the one
that has overtaken it, always writes another. In `BoxdProcesses` the goroutines of boxd are fair (the Go scheduler
runs what can run), the wait goroutine of a process through all its steps, while children, their descendants and clients are not: nothing makes a child exit, a descendant let go of
the output or a client leave. So `ExitReachesEveryone` begins when the child has exited and, for a terminal and an /exec, nobody holds its output any
more; while a descendant does, boxd keeps `done` open and every caller waiting (`process.go:798-803`; reading a terminal whose
`Fd()` was called cannot be interrupted, and `/exec` sets no `WaitDelay`). In `SharedDatabase` a process that can step does, restarts included
(`Restart=always` in the systemd units); crashes and timeouts need no fairness and are bounded.

**Deadlock.** In `SandboxService` a state in which no call runs may stay as it is
(`Quiet`); a call that cannot take a step would be reported. The other runs are checked
without deadlock detection, since their bounded calls, starts or changes run out.

**What the properties do not claim.** `NoStuckTransition` excludes `db`, `cancel` and `crash`, under which it does not hold
(section 5; a failing `CreateSnapshot` or final state write returns without writing failed; after a restart nothing reads the
rows). `NoStrayRuntime` and `GoneLeavesNothing` hold as long as host commands, RPCs, contexts and boxlet are sound: with a
failing `rm` Kill returns before the network is released. `RouteKept` holds until a sandbox is deleted, for the reason
`KillThenReuse` shows. `HealthyVMNeverFails` leaves containers out (section 5). The properties of `ArtifactService` name their exceptions, each something the code does:

- `NoStuckBuild`: a build's status leaves `building` by one last statement, whose error is dropped (`template.go:297`) or returned
  (316-326) and which is not tried again. If the store refuses it, of a cancelled request or a live one, the build stays building and
  cannot be started again (`refused`).
- `TemplateCoherent`, `ImageFaithful`: not for what two overlapping calls touched (`mixed`; see `OverlappingExports`), nor for templates whose
  last build failed, which has replaced the rootfs and left the snapshot, nor for `spoilt` ones. A single image export can spoil its template: when the
  rename of the rootfs aside fails, or the one of the work copy after it, the deferred `os.Remove` (`services.go:2799`) removes the
  rootfs that was not moved, or was just put back, and no backup is left; when the rename of the backup fails at both tries, the rootfs
  stays aside. And `cleanupInternalSandbox` drops KillRuntime's error and signals only the shim, so that a VM can write on in its template's rootfs.
- `BuildLeavesNothing`: not for exports that failed before their copy, which leave their build sandbox behind (`exportTemplateImageRootfs`
  cleans up on success only), and not for what a cleanup could not kill, end or remove (`stuck`).
- `BuildKeepsRoute`: not for slots picked twice (`raced`). `internalSandboxNetworkSpec` reserves nothing between its look and Prepare, and goes on by the rows alone
  when `ip route show` fails (`services.go:2094-2098`), although build sandboxes have no rows. Builds and exports
  are checked against each other; a create of a sandbox, which looks at rows only, is not in this module.

`NoForgottenRuntime` excepts orphans and processes that survive SIGKILL.
`SandboxReachable` does not say that the host's masquerade rules are there: Cleanup of any sandbox removes them for all,
until the next Prepare. `NoStuckTransition` leaves out a container in `killing`: KillSandbox returns when its rootfs is busy
and leaves the row so (`services.go:440`). `ProxyReachesOwner` holds while the sandbox keeps the slot that boxproxy read.
Cleanup drops the errors of its commands and the slot is then released, so two leftovers can outlive it (they take more failures than the run has; the theorem on the host covers them): if both the removal
of the SNAT rule and of the namespace fail (`StrayAddress`), a sandbox that is started again in that namespace still sends
with the address of its former slot; if those of route, pair and namespace all fail (`StrayRoute`), a request for the slot's
next holder can reach the former one until that holder's Prepare has replaced the route. The properties name both. The
exceptions of the `Boxshim` properties are listed with them, each with the code that makes it necessary.

## 5. Where code and documentation disagree

Four runs are expected to find a violation; each is recorded as a finding.

| run | property | what happens |
|---|---|---|
| `KillThenReuse` | `RouteServesOwner` | Kill deletes the row, which frees the slot, before it cleans the slot's route up. A create in between gets the slot and then loses its route: running, unreachable. No fault is needed |
| `CancelledTransition` | `NoStuckTransition` | the error branches write `failed` with the request's own context, so a cancelled request leaves the row in its transitional state |
| `OutputLost` | `AllOutputDelivered` | boxd waits for a process before its pipes are read empty, and `Cmd.Wait` closes them: a caller that kept up can get its end event without the last output |
| `OverlappingExports` | `TemplateRootfsKept` | two exports of one template swap its rootfs under each other: the second saves the first's work copy as the original, and can remove the rootfs it has not moved |

Two more that the models show without a run of their own: `GVisorDriver.Reboot` stops the container without
recording it, and its own `start` then refuses, so rebooting a container always fails (lifecycle.md: "gVisor supports create,
stop, reboot"); and the README's recovery flow (scan shim sockets, reconcile) is not in
the code, so a restart of boxlet leaves transitional states for ever.

## 6. Proofs

All theorems hold for every value of the constants, under the named assumptions of the modules: `MaxSlotAssumption`
(`MaxSlot` is a positive natural number), `ServiceAssumption` (containers are sandboxes, the names of
operations, disciplines and faults are known, the bounds are naturals),
`WordSizeAssumption` (an even, positive word size), `HostNetworkAssumption` (no sandbox is both VM and container, there
are finitely many), `BoxshimAssumption` (the names of drivers and operations are known, the bounds are naturals), `ArtifactAssumption`
(the same; the names for no template, no file and an earlier call are nobody's),
`LatestAssumption` and `NobodyAssumption` (at least one migration;
nobody is no process), `BufferAssumption` (a buffer holds at least one chunk). No bound of section 4 remains.

**`SandboxStoreProofs`.** `StoreTypes`: rows and snapshots keep their types.
`SlotsAreExclusive`: no two sandboxes hold one slot. An assignment
takes a number that no row has, and a release or deletion only gives numbers up; the type
invariant is needed beside `SlotExclusive` to know that a row is a record with a slot, so that a
statement that writes one row's state leaves every slot as it was.

**`SandboxServiceProofs`.** `ServiceImplementsStore`: every step of the service is a step of `SandboxStore` or leaves the
tables alone. This needs an invariant, `ServiceInv`: the tables are typed
and every call holds a sequence of well-formed steps for a sandbox that exists. Without it a `cas`
step could write something that is no state, or write it to a sandbox that is none, which
no statement of the store does. That the invariant is kept rests on the lemmas on handlers
(`HandlerTypes`: what `StepsOf` returns is a sequence of steps; `RecoveryTypes`: so is every error
branch) and on what a step does to its call (`BecomeTyped`, `HeadTyped`, `OutcomeTyped`); `CallStep` has
one case per action. `ServiceSlotsExclusive` is then `SlotsAreExclusive` carried over the
refinement: concurrent handlers, failing, cancelled or dying, never
hold one slot twice. `ServiceTypes` adds the host's state (`HostOK`, `CountsOK`).

`TransitionsSettle`: as long as statements do not fail, no request is cancelled and boxlet does not die, a sandbox nobody
works on is in no transitional state, whatever commands, RPCs, agents and runtimes do, for any clients and any number of
calls at once on one sandbox. A row in a transitional state is owed another state by a call. It need not be the call that
wrote the transition: when a stop has overtaken a pause, the compare-and-set of the pause finds another state and writes
nothing. `SettledInv` therefore says that some call *owes* it (`Owes`): one that goes on to a `setSandboxState`, which reads
the row before it writes (`SetAhead`), or whose compare-and-set is to compare with just the state the row has (`CasAhead`);
in both, a step before it that fails has an error branch that writes `failed`. And it says of every call that at most its
next step opens a transition and that the rest then ends it (`Careful`; `HandlersAhead` shows that of every list in
`StepsOf`, `RecoveryAhead` of every error branch). `StepTurns` is the table of what a step does to its call and to the rows;
`OwesStep` and `CarefulStep` go through it. `SlotsAreGivenBack` is the same kind of argument for `ParkedHoldsNoSlot`, with
one more thing to know. A row that is paused or stopped and has a slot must have a call that gives the slot back next, or
that moves the row on whatever happens (`Clears`); that holds of all handlers but Create, whose slot is assigned without a
look at the row. `ParkedInv` therefore says that nobody can park a sandbox before its create has the slot (`Unborn`): it has
no shim yet, so PauseRuntime and StopRuntime fail (`ShimStep`), and `Parking` lists, which write a parked state without
asking the runtime, do not exist. This is where identifiers must be new (`Discipline # "any"`, boxapi's `newSandboxID`): with
two creates for one identifier, the second's slot could arrive after the first's sandbox was paused.

**`SandboxConductProofs`.** What clients can rely on who keep to the documented lifecycle: one call at a time for each
sandbox, and only calls that are legal in the state of its row (`Discipline = "lifecycle"`), for any sandboxes, slots, calls
and faults. The three views of a sandbox (its row, its runtime and shim, its slot and route) are changed by different steps
of a handler, so they agree only between calls; an invariant has to say what a handler knows in between. A *point* is that
knowledge: the state of the row, what is known of the runtime (`RuntimeIs`: live, idle, gone, …) and of the network
(`NetworkIs`). A *walk* (`Walks`) is a list of steps that can be taken from a point on: each step may be taken where it is
(`MayDo`: e.g. `running` is written only when the runtime is live and the route is set up) and may fail where it is
(`MayFail`: its error branch is a walk from the less that is known then, `Fallback`). `HandlerWalks` shows that each of the
seven handlers is a walk from each state its operation is legal in, `RecoveryWalks` that every error branch is one.
`Conduct`, the invariant, says that each call in progress has a walk before it from what is true of its sandbox (`Proper`),
that calls are one for each sandbox (`Serial`), and of every sandbox what its row promises (`Standing`, `Reserved`).
`WalkOn`, `WalkPast` and `WalkCas` take a walk past its first step, `Advance` and `Retreat` a call to its next step or its
error branch; `Apart` is what a step for one sandbox leaves alone of all the others, by which `ConductKept` reduces each
action to the sandbox it is for; then there is one lemma for each action. From `LifecycleConduct` follow `RunningKeepRoutes`,
`RuntimesMatchRows`, `RuntimesAreReachable`, `DeletedLeaveNothing`, and `HandlersFollowLifecycle`: the handlers, with their
error branches, the deferred rollback and a death of boxlet, implement the abstract `SandboxLifecycle`, step by step. Before
it was proved the invariant was checked with TLC on smaller instances of the run `LegalClients`, with walks sought over the
finitely many points.

`HealthyVMsSucceed` is the converse: until a fault happens or a sandbox is deleted, no VM fails. It needs as many slots as
sandboxes, so that an assignment finds one (`SlotLeft`, by counting), and of each handler all that it finds on the host
when nothing has gone wrong. `Vt` is that knowledge: what the VM's shim leads to, and whether the route of its slot leads to
it. `Bears` says that a step cannot fail with it; a *course* is a list of which each step bears what the ones before it leave
(`VitalAfter`), and `Sails` says that a list has one. `HandlersSail` shows it of each handler from each state its operation is
legal in; `SailOn` and `SailCas` take a course on. `Health`, inductive beside `Conduct`, says of routes that they
lead to namespaces that exist, and, until a fault or a deletion, of every call for a VM that what it has left is a course from
what is true of its sandbox. TLC checked this invariant first as well.

**`BoxshimProofs`.** A shim serialises its operations with a mutex, so what is half done is seen by its holder only. Its
first part proves which steps a call can have left: a list in which each kind of step follows a kind that may precede it
(`Links`), and that the call whose next step needs the mutex is the one that holds it (`Control`). `Doing`, `Following` and
`Serving` are then that call's next two steps and its operation, and the other parts of the invariant say what must hold
before each `Doing`: `SnapshotInv` where a commit or its rollback has the two files and their backups, `PausedInv` that the
pair of a paused VM is always somewhere among them, `ProcInv`, `ForgottenInv` and `HonestInv` whom the driver's `cmd` is.
From it follow `SnapshotIsWhole`, `PausedVMIsSaved`, `NothingForgotten`, `StatusIsHonest` and `ShimTypes`, for any number of
calls, launches and faults. Looking for the invariant showed two histories that two faults do not reach, and the properties
name them now: a rollback that cannot rename or remove, followed by a second commit that fails, leaves files of two VMs; and
a paused VM whose process cannot be killed has its snapshot but has not ended.

**`ArtifactServiceProofs`.** Calls are not serialised here: two builds of one template, or an export and a deletion,
interleave anywhere. `Control` says that a call's steps are a rest of one of its operation's lists (`Todos`; the lemmas
`NewMoves`, …, `ExportMoves` say what each list goes on to). `RowInv` is about builds: a call between its claim and its end
is the only one on that build (`OneHolder`), whose row says building (`BuildInv`), and a row that says building has such a
call or one whose last write was refused (`Tended`). From it follow `BuildsAreExclusive`, `BuildsEnd` and `ReadyTemplates`.
`SandboxInv` is about build sandboxes: which steps have one (`BoxInv`), that a call past its cleanup has none (`LeaveInv`),
and that two calls have one slot only if they picked it with no Prepare between or without seeing the routes (`SlotInv`). From it follow `NothingIsLeft`
and `RoutesAreKept`. `OneHolder` is why the model has to say what boxapi does, that an identifier is given to one request:
with the same one twice, two calls would claim one build.

`ArtifactsCoherent` is about files that are renamed, removed and still open, and has one conjunct for each question they
raise. `HomeInv`: every file belongs to one template, so a step, or what a guest writes to the disk it has open, reaches the
files of its own call's template only (`StepReaches`, `GuestReaches`). `Alone`: two calls in progress that change one
template or image are noted in `mixed`, so for a template that is not, one call at a time writes it and all others have ended
(`OneWriter`). `TemplateInv`: such a template is `Fine`, the rootfs is the one the last build left and the snapshot its,
except while an export has it aside, which then has that rootfs as its backup (`Away`), or a deletion has removed its row;
what a build and an export rely on before each step is `BuildFacts`, `ExportFacts` and `CopyFacts`. An export that keeps to
these facts finds every file it renames. What is left is that the renames fail, which `spoilt` records when the rootfs is lost, and that the
restore has to be tried twice: until then the export has the rootfs aside (`Away` holds at every step of `Restore`, `Deferred` and `Late`).
`Unmarked`: the guest of an export has left no mark anywhere before it is resumed, which is what makes the copied disk
differ from the memory's by nothing but its own writes. `ImageInv`: an image is absent from the export's first look until its
record, so what it records is what it copied. From these follow `TemplatesAreCoherent` and `ImagesAreFaithful`. The attempt
corrected the initial states: with two templates, both had the files of one earlier build.

**`NetworkSlotsProofs`.** For the numbering: `SlotTypes`, `SlotsAreConfigurable`, `AddressesAreExclusive`,
`SlotsAreRecovered`, `PairsAreOnLink`, for every pair of networks. The lemmas bound `MaxSlots` by what each network can
number (`MaxSlotsBounds`) and show that no operation on a slot in that range wraps (`NoWrap`, `SlotAddresses`). The
specification starts from any two CIDRs; the run's initial states are instances of it. For the host: `HostSafe` shows
`NetworkInv`, which says of each sandbox that what a command of Prepare has done stays done until its Cleanup (`PreparedInv`:
one conjunct per command, by what is left to do), and that its SNAT rules and the routes to it are for the slot it has,
unless the commands that remove them have failed (`AddressInv`, `RouteInv`); of the host that an address has one route and a
slot one holder, and that each copy of the masquerade rule is some sandbox's (`HostInv`); and of a request to boxproxy that
it has the address of the sandbox it names while that one keeps its slot (`RequestInv`). `SandboxesAreReachable`, `HostTypes`
and the action property `ProxyFindsOwner` follow. The attempt found the two leftovers described in section 4; with one
failure for each start TLC had not reached them.

**`SharedDatabaseProofs`.** `FileSound`: any number of processes, migrating any number of migrations with any crashes, keep
`SchemaSound`. `DatabaseInv` says who may change the file, the holder of its lock (`LockInv`), and what a process
knows of it (`ProcInv`): the migrations before its own are there, and its open transaction adds exactly the next one, because
otherwise its statements would have failed. `StepInv` is the one argument about a process that leaves the file
alone, used by every such action; `Commit` is the case that matters.

**`BoxdProcessesProofs`.** `HubsAreSound`: for any processes, connections and buffer size, boxd never sends on a closed
output channel or closes one twice, and never replays more than a channel holds. `HubSound` relates a hub to its
subscriptions, so it is inductive only beside what ties a connection to a hub: an open channel belongs to a connection that
streams (`ConnInv`: otherwise `Leave` or the web socket would end a call whose channel the hub still has), and a hub knows
subscriptions only (`SubsInv`: otherwise an idle connection that subscribes might be there already). `SubscribeSound`,
`PublishSound`, `CloseHubSound` and `CancelSound` are the four critical sections of the hub; `SubscriptionsKept` and
`ConnectionKept` carry the invariant over every other step. `AgentSafe` adds the streams. `StreamFaithful` says that what a
call was given is its share of the output; as an invariant this is a strictly increasing map from what it has to the places
of its share, onto it (`Placed`), which a delivery extends by one place and a full channel leaves alone (`ShareInv`). That
shares miss nothing needs `RingInv`: the ring is the last part of what was published, and an older chunk was in some call's
share or is as old as the ring is long. That the end comes last needs `ProcInv`: while a reader may still publish, the wait
goroutine has not closed the hub. `StreamsAreFaithful`, `NothingIsLost` and `EndsComeLast` follow.

**Only model-checked**: the liveness properties (`TransitionEnds`, `ExitReachesEveryone`, `EveryoneServes`: fairness is out
of the prover's reach); the codec, whose definitions recurse over sequences of bytes (`RequestUnderstood`, `EventReadable`);
and `WalkFaithful`, which counts pages.

## 7. What is not modelled

- boxapi without a boxlet, where its handlers write the store themselves and run no runtime (local development).
- The balloon calls of boxlet, boxapi and boxctl, which forward them; `Boxshim` has the driver's. Reads without an effect.
- Inside overlaybd's provider: each containerd call is one step, and its images are there.
- What the guest of a sandbox does, beyond writing to its disk, its output and answering or not.
- A crash of the node: sockets, mounts and namespaces go together with the processes.
- The OCI specification of a container and the machine configuration of a VM: that they are written, and can fail to be, is
  a step; what they contain is not.
- Formatting, configuration, logging, path names, generated code (`internal/pb`), the stub driver, command-line tools: no state of
  their own.

## 8. Plan

Done: all modules of section 2. Next, the most important first:

1. `Boxshim` shown to implement the replies and `Mishaps` of `SandboxService`, with a mapping of `info`, `cmd` and `proc` to `handle`.
2. `ArtifactService` composed with `SandboxStore`: build sandboxes and creates that pick the same slot
   (`AssignSandboxNetworkSlot` looks at rows only).
3. boxapi's local mode, as a second implementation of `SandboxStore`.
