--------------------------- MODULE ArtifactService ---------------------------
(***************************************************************************)
(* Templates and images: boxlet's artifactService (services.go) behind     *)
(* boxapi's template handlers (template.go).  A call is straight-line code *)
(* over the template, build and image rows, the files of a template's      *)
(* directory, and the build sandbox the call boots; it holds the steps it  *)
(* has still to execute.  Nothing locks a template, so calls interleave    *)
(* between any two steps.                                                  *)
(*                                                                         *)
(* A rootfs is the set of marks left in it: <<c, "base">> by the call that *)
(* materialized it, <<c, "init">> by the agent files injected into it,     *)
(* <<c, "cmds">> by c's build commands, <<c, "run">> by whatever else the  *)
(* guest of c's build sandbox writes to the disk it has open.  A snapshot  *)
(* (memfile and snapfile) is the rootfs it belongs to.                     *)
(***************************************************************************)
EXTENDS Naturals, Sequences, FiniteSets

CONSTANTS
  Templates, Images, Builds,  \* identifiers
  Calls,                      \* API calls, each made once
  MaxSlot,                    \* network slots of the host
  MaxActive,                  \* bound: calls executed at the same time
  Ops,                        \* the operations the clients use
  Sources,                    \* what templates are built from
  Earlier,                    \* the call that built what is there at the start
  NoFile

OpNames == {"new", "build", "export", "delete", "convert", "unimage"}

ASSUME ArtifactAssumption ==
  /\ Ops \subseteq OpNames
  /\ Sources \subseteq {"docker"} \cup Templates \cup Images
  /\ "none" \notin Templates
  /\ Earlier \notin Calls /\ NoFile \notin Calls \cup {Earlier}

VARIABLES rows, builds, images,            \* the store
          root, snap, img, data,           \* the artifacts
          work, backup,                    \* an export's files beside the rootfs it replaced
          disk, dirs, route,               \* build sandboxes: open disk, directory and shim, network
          call,
          mixed, spoilt, last, raced, stuck, refused  \* history

store   == <<rows, builds, images>>
files   == <<root, snap, img, data>>
host    == <<work, backup, disk, dirs, route>>
history == <<mixed, spoilt, last, raced, stuck, refused>>
vars    == <<store, files, host, call, history>>

Kinds == {"vm", "dir"}                     \* rootfs.ext4 with a snapshot, or a gVisor directory
Files == Calls \cup {Earlier}              \* a call creates at most one file in a template's directory
Marks == Files \X {"base", "init", "cmds", "run"}
Paths == Templates \X Kinds                \* where the rootfs of a template can be
Slots == 1..MaxSlot

Do(kind, err) == [do |-> kind, err |-> err]
Idle == [op |-> "idle", t |-> "none", b |-> "none", i |-> "none", src |-> "none", kind |-> "vm",
         seen |-> "none", slot |-> 0, net |-> FALSE, mem |-> {}, ok |-> FALSE, todo |-> << >>]

Active(c)  == call[c].todo # << >>
Claimed(c) == call[c].op = "build" /\ Active(c) /\ Head(call[c].todo).do \notin {"load", "claim"}

-----------------------------------------------------------------------------
(***************************************************************************)
(* The steps of each operation.  err says what is left to do when a step   *)
(* fails; see Undo.                                                        *)
(***************************************************************************)
NewSteps     == <<Do("ensure", "stop"), Do("addrow", "stop"), Do("addbuild", "stop")>>
ClaimSteps   == <<Do("load", "stop"), Do("claim", "stop"), Do("paths", "unclaim")>>
DeleteSteps  == <<Do("lookup", "stop"), Do("delrow", "stop"), Do("rmdir", "stop")>>
ConvertSteps == <<Do("lookup", "stop"), Do("share", "stop")>>
UnimageSteps == <<Do("lookimage", "stop"), Do("delimage", "stop"), Do("rmimage", "stop")>>
ExportBegin  == <<Do("imagefree", "stop"), Do("lookup", "stop")>>

\* Slip: an error of materializeTemplateRootfs leaves the build in building.
MaterializeFailedForgets == "stop"
\* boxapi's handler sets the status whatever CreateTemplate returns.
MaterializeFailed == "unclaim"
\* Slip: the build sandbox is cleaned up only when the build succeeds.
BuildFailedKept == "unclaim"
\* What createTemplateSnapshot and createGVisorTemplate defer runs on errors too.
BuildFailed == "cleanup"

\* CreateTemplate: the rootfs; createTemplateSnapshot and createGVisorTemplate, which
\* boot it, run the commands and stop; the record and then the status.
BuildSteps ==
  <<Do("materialize", MaterializeFailed), Do("inject", "unclaim"),
    Do("shim", BuildFailed), Do("pick", BuildFailed), Do("net", BuildFailed),
    Do("create", BuildFailed), Do("commands", BuildFailed), Do("seal", BuildFailed),
    Do("cleanup", "next"), Do("record", "unclaim"), Do("ready", "stop")>>

\* Slip: what an export does not finish it does not put back.
RestoreNothing == << >>
\* restoreTemplateRootfs.
Restore == <<Do("unlink", "retry"), Do("putback", "retry")>>

\* exportTemplateImageRootfs; the build sandbox is left when anything fails.  What
\* CreateImage runs on the writable rootfs is resume, halt and copyout.
ExportSteps(kind) ==
  IF kind = "dir" THEN <<Do("copyout", "stop"), Do("own", "stop")>>
  ELSE <<Do("memfiles", "stop"), Do("shim", "stop"), Do("pick", "stop"), Do("net", "stop"),
         Do("workcopy", "stop"), Do("aside", "undo"), Do("swap", "unswap"),
         Do("resume", "restore"), Do("halt", "restore"), Do("copyout", "restore"),
         Do("unlink", "retry"), Do("putback", "retry"), Do("cleanup", "next"), Do("own", "stop")>>

\* The function withWritableTemplateRootfs defers while it has not restored.
Deferred == <<Do("unlink", "next"), Do("putback", "next"), Do("dropwork", "next")>>
\* When it cannot move the rootfs aside, when it has moved it only (these two then
\* unlink the rootfs itself), and when an export that has its image has not restored at first.
Undone    == <<Do("dropwork", "next"), Do("unlink", "next"), Do("putback", "next"), Do("dropwork", "next")>>
Unswapped == <<Do("putback", "next"), Do("unlink", "next"), Do("putback", "next"), Do("dropwork", "next")>>
Late      == <<Do("unlink", "next"), Do("putback", "next"), Do("dropwork", "next"), Do("cleanup", "next")>>

Undo(c, err) ==
  CASE err = "stop"    -> << >>
    [] err = "next"   -> Tail(call[c].todo)
    [] err = "unclaim" -> <<Do("failed", "stop")>>
    [] err = "cleanup" -> <<Do("cleanup", "next"), Do("failed", "stop")>>
    [] err = "restore" -> Restore
    [] err = "undo"    -> Undone
    [] err = "unswap"  -> Unswapped
    [] err = "retry"   -> IF call[c].ok THEN Late ELSE Deferred

-----------------------------------------------------------------------------
Content(p) == data[root[p]]
Old == {Earlier} \X {"base", "init", "cmds"}

\* Empty, or with a row that CreateTemplateV3 has made, a build that waits or has
\* failed, and perhaps the artifacts of an earlier build, all of one template.
Init ==
  /\ \E t0 \in Templates, there \in Kinds \cup {"none"}, made \in BOOLEAN, st \in {"none", "waiting", "error"} :
       /\ there = "none" => ~made /\ st = "none"
       /\ rows = [t \in Templates |-> IF t = t0 THEN there ELSE "none"]
       /\ builds = [b \in Builds |-> [of |-> IF st = "none" THEN "none" ELSE t0, st |-> st]]
       /\ root = [p \in Paths |-> IF made /\ p = <<t0, there>> THEN Earlier ELSE NoFile]
       /\ snap = [t \in Templates |-> IF made /\ t = t0 /\ there = "vm" THEN Old ELSE {}]
       /\ last = [t \in Templates |-> IF made /\ t = t0 THEN Earlier ELSE NoFile]
  /\ images = [i \in Images |-> [st |-> "none"]]
  /\ img = [i \in Images |-> {}]
  /\ data = [f \in Files |-> IF f = Earlier THEN Old ELSE {}]
  /\ work = [c \in Calls |-> NoFile] /\ backup = work /\ disk = work
  /\ dirs = {}
  /\ route = [n \in Slots |-> NoFile]
  /\ call = [c \in Calls |-> Idle]
  /\ mixed = {} /\ spoilt = {} /\ raced = {} /\ stuck = {} /\ refused = {}

\* What a call changes, and what it reads: two calls at a time of which one
\* changes what the other uses are noted in mixed.
Changes(r) == CASE r.op \in {"new", "build", "delete"} -> {r.t}
                [] r.op = "export" -> {r.t, r.i}
                [] r.op \in {"convert", "unimage"} -> {r.i}
                [] OTHER -> {}
Uses(r) == Changes(r) \cup
  (IF r.op # "build" THEN {}
   ELSE {r.src} \cup {t \in Templates : r.src \in Images /\ images[r.src].st = "shared"
                                        /\ images[r.src].at[1] = t})

Begin(c, r) ==
  LET others == {d \in Calls : Active(d)} IN
  /\ call[c].op = "idle" /\ Cardinality(others) < MaxActive
  /\ call' = [call EXCEPT ![c] = r]
  /\ mixed' = mixed \cup UNION {(Changes(r) \cap Uses(call[d])) \cup (Uses(r) \cap Changes(call[d])) :
                                d \in others}
  /\ UNCHANGED <<store, files, host, spoilt, last, raced, stuck, refused>>

\* newBuildID: an identifier is given once, also when its build has been deleted.
RequestTemplate(c) ==
  /\ "new" \in Ops
  /\ \E t \in Templates, b \in Builds, k \in Kinds :
       /\ builds[b].of = "none" /\ \A d \in Calls : call[d].op = "new" => call[d].b # b
       /\ Begin(c, [Idle EXCEPT !.op = "new", !.t = t, !.b = b, !.kind = k, !.todo = NewSteps])

RequestBuild(c) ==
  /\ "build" \in Ops
  /\ \E b \in Builds, s \in Sources :
       /\ builds[b].st # "none"
       /\ Begin(c, [Idle EXCEPT !.op = "build", !.t = builds[b].of, !.b = b, !.src = s,
                                !.todo = ClaimSteps])

RequestImage(c) ==
  /\ "export" \in Ops
  /\ \E t \in Templates, i \in Images :
       Begin(c, [Idle EXCEPT !.op = "export", !.t = t, !.i = i, !.todo = ExportBegin])

RequestDelete(c) ==
  /\ "delete" \in Ops
  /\ \E t \in Templates : Begin(c, [Idle EXCEPT !.op = "delete", !.t = t, !.todo = DeleteSteps])

RequestConvert(c) ==
  /\ "convert" \in Ops
  /\ \E t \in Templates, i \in Images :
       Begin(c, [Idle EXCEPT !.op = "convert", !.t = t, !.i = i, !.todo = ConvertSteps])

RequestUnimage(c) ==
  /\ "unimage" \in Ops
  /\ \E i \in Images : Begin(c, [Idle EXCEPT !.op = "unimage", !.i = i, !.todo = UnimageSteps])

-----------------------------------------------------------------------------
At(c, kind) == Active(c) /\ Head(call[c].todo).do = kind
Rest(c)  == Tail(call[c].todo)
Err(c)   == Undo(c, Head(call[c].todo).err)
Then(c, steps) == call' = [call EXCEPT ![c].todo = steps]
Dest(c)  == <<call[c].t, call[c].kind>>

(***************************************************************************)
(* Rows.  The store may refuse any statement, of a live request too        *)
(* (SQLITE_BUSY, an I/O error).  A request that is cancelled, or whose     *)
(* boxapi dies, is one whose statements and RPCs all fail from then on.    *)
(***************************************************************************)
Gives(c, steps) == \E s \in steps : Then(c, s)

\* getOrCreateTemplate.
Ensure(c) ==
  /\ At(c, "ensure")
  /\ Gives(c, {<< >>, IF rows[call[c].t] = "none" THEN Rest(c) ELSE Tail(Rest(c))})
  /\ UNCHANGED <<store, files, host, history>>

\* The row, which it then reads back.
AddRow(c) ==
  LET t == call[c].t IN
  /\ At(c, "addrow")
  /\ \/ /\ rows[t] = "none"
        /\ rows' = [rows EXCEPT ![t] = call[c].kind]
        /\ Gives(c, {Rest(c), Err(c)})
     \/ Then(c, Err(c)) /\ UNCHANGED rows
  /\ UNCHANGED <<builds, images, files, host, history>>

AddBuild(c) ==
  /\ At(c, "addbuild")
  /\ builds' \in {builds, [builds EXCEPT ![call[c].b] = [of |-> call[c].t, st |-> "waiting"]]}
  /\ Then(c, << >>)
  /\ UNCHANGED <<rows, images, files, host, history>>

LoadBuild(c) ==
  LET st == builds[call[c].b].st IN
  /\ At(c, "load")
  /\ \E steps \in {<< >>} \cup (IF st \in {"waiting", "error"} THEN {Rest(c)} ELSE {}) :
       call' = [call EXCEPT ![c].seen = st, ![c].todo = steps]
  /\ UNCHANGED <<store, files, host, history>>

\* UpdateTemplateBuildStatus: a compare and set.
SetBuild(c, st, to) == IF builds[call[c].b].st = st
                       THEN builds' = [builds EXCEPT ![call[c].b].st = to] ELSE UNCHANGED builds

\* Slip: whatever the status has become, it is set.
ClaimBlindly(c) ==
  /\ At(c, "claim")
  /\ Then(c, Rest(c))
  /\ SetBuild(c, builds[call[c].b].st, "building")
  /\ UNCHANGED <<rows, images, files, host, history>>

Claim(c) ==
  /\ At(c, "claim")
  /\ \/ /\ Then(c, IF builds[call[c].b].st = call[c].seen THEN Rest(c) ELSE << >>)
        /\ SetBuild(c, call[c].seen, "building")
     \/ Then(c, << >>) /\ UNCHANGED builds
  /\ UNCHANGED <<rows, images, files, host, history>>

\* The handler's last statement: it drops the error of the one, returns that of the
\* other, and tries neither again.  That it was refused is noted.
Ends(c, to) ==
  /\ \/ SetBuild(c, "building", to) /\ UNCHANGED refused
     \/ refused' = refused \cup {c} /\ UNCHANGED builds
  /\ Then(c, << >>)
  /\ UNCHANGED <<rows, images, files, host, mixed, spoilt, last, raced, stuck>>

Failed(c) == At(c, "failed") /\ Ends(c, "error")
Ready(c)  == At(c, "ready") /\ Ends(c, "ready")

\* templateRuntimeDriver and templateArtifactPaths: from the row, else the
\* configured driver's.
ChoosePaths(c) ==
  LET kind == IF rows[call[c].t] = "none" THEN "vm" ELSE rows[call[c].t] IN
  /\ At(c, "paths")
  /\ \E steps \in {BuildSteps, Err(c)} :
       call' = [call EXCEPT ![c].kind = kind, ![c].todo = steps]
  /\ UNCHANGED <<store, files, host, history>>

\* The row as CreateImage, DeleteTemplate and ConvertTemplate read it.
Lookup(c) ==
  LET kind == rows[call[c].t] IN
  /\ At(c, "lookup")
  /\ \/ /\ kind # "none"
        /\ call' = [call EXCEPT ![c].kind = kind,
                      ![c].seen = IF last[call[c].t] = NoFile THEN "unbuilt" ELSE "built",
                      ![c].todo = IF call[c].op = "export" THEN ExportSteps(kind) ELSE Rest(c)]
     \/ Then(c, Err(c))
  /\ UNCHANGED <<store, files, host, history>>

\* CreateTemplate's record; a row that is there already is kept.
Record(c) ==
  LET t == call[c].t IN
  /\ At(c, "record")
  /\ \/ /\ rows' = [rows EXCEPT ![t] = IF @ = "none" THEN call[c].kind ELSE @]
        /\ last' = [last EXCEPT ![t] = c]
        /\ Then(c, Rest(c))
     \/ Then(c, Err(c)) /\ UNCHANGED <<rows, last>>
  /\ UNCHANGED <<builds, images, files, host, mixed, spoilt, raced, stuck, refused>>

\* Slip: the builds of a deleted template stay.
DeleteRowOnly(c) ==
  LET t == call[c].t IN
  /\ At(c, "delrow")
  /\ IF rows[t] # "none"
     THEN rows' = [rows EXCEPT ![t] = "none"] /\ Then(c, Rest(c))
     ELSE Then(c, Err(c)) /\ UNCHANGED rows
  /\ UNCHANGED <<builds, images, files, host, history>>

\* The template and its builds, in one transaction.
DeleteRow(c) ==
  LET t == call[c].t IN
  /\ At(c, "delrow")
  /\ \/ /\ rows[t] # "none"
        /\ rows' = [rows EXCEPT ![t] = "none"]
        /\ builds' = [b \in Builds |-> IF builds[b].of = t THEN [of |-> t, st |-> "none"] ELSE builds[b]]
        /\ Then(c, Rest(c))
     \/ Then(c, Err(c)) /\ UNCHANGED <<rows, builds>>
  /\ UNCHANGED <<images, files, host, history>>

\* templateArtifactRemovalTarget is the whole directory, an export's files included;
\* of one that cannot be removed something stays, which belongs to no build.
RemoveDir(c) ==
  LET t == call[c].t
      cut(d, f) == IF call[d].t = t THEN NoFile ELSE f IN
  /\ At(c, "rmdir")
  /\ \/ /\ root' = [p \in Paths |-> IF p[1] = t THEN NoFile ELSE root[p]]
        /\ snap' = [snap EXCEPT ![t] = {}]
        /\ work' = [d \in Calls |-> cut(d, work[d])]
        /\ backup' = [d \in Calls |-> cut(d, backup[d])]
     \/ UNCHANGED <<root, snap, work, backup>>
  /\ last' = [last EXCEPT ![t] = NoFile]
  /\ Then(c, Rest(c))
  /\ UNCHANGED <<store, img, data, disk, dirs, route, mixed, spoilt, raced, stuck, refused>>

ImageFree(c) ==
  /\ At(c, "imagefree")
  /\ Gives(c, {Err(c)} \cup IF images[call[c].i].st = "none" THEN {Rest(c)} ELSE {})
  /\ UNCHANGED <<store, files, host, history>>

AddImage(c, record) ==
  /\ \/ /\ images[call[c].i].st = "none"
        /\ images' = [images EXCEPT ![call[c].i] = record] /\ Then(c, Rest(c))
     \/ Then(c, Err(c)) /\ UNCHANGED images
  /\ UNCHANGED <<rows, builds, files, host, history>>

\* CreateImage's record of its own copy; ConvertTemplate's of the template's file.
OwnImage(c)   == At(c, "own") /\ AddImage(c, [st |-> "own", at |-> Dest(c), by |-> c])
ShareImage(c) == At(c, "share") /\ AddImage(c, [st |-> "shared", at |-> Dest(c), by |-> c])

LookImage(c) ==
  /\ At(c, "lookimage")
  /\ \E steps \in {<< >>} \cup (IF images[call[c].i].st # "none" THEN {Rest(c)} ELSE {}) :
       call' = [call EXCEPT ![c].seen = images[call[c].i].st, ![c].todo = steps]
  /\ UNCHANGED <<store, files, host, history>>

DeleteImage(c) ==
  /\ At(c, "delimage")
  /\ \/ /\ images[call[c].i].st # "none"
        /\ images' = [images EXCEPT ![call[c].i] = [st |-> "none"]] /\ Then(c, Rest(c))
     \/ Then(c, Err(c)) /\ UNCHANGED images
  /\ UNCHANGED <<rows, builds, files, host, history>>

\* shouldRemoveImageDir: only a rootfs of its own, if it can be removed.
RemoveImage(c) ==
  /\ At(c, "rmimage")
  /\ \/ call[c].seen = "own" /\ img' = [img EXCEPT ![call[c].i] = {}]
     \/ UNCHANGED img
  /\ Then(c, Rest(c))
  /\ UNCHANGED <<store, root, snap, data, host, history>>

(***************************************************************************)
(* The build sandbox                                                       *)
(***************************************************************************)
StartShim(c) ==
  /\ At(c, "shim")
  /\ dirs' = dirs \cup {c}
  /\ Gives(c, {Rest(c), Err(c)})
  /\ UNCHANGED <<store, files, work, backup, disk, route, history>>

\* Picks that no Prepare separates get the same slot.
Unprepared(c, n) == \E d \in Calls \ {c} : Active(d) /\ call[d].slot = n /\ ~call[d].net
Picks(c, n, met) ==
  /\ call' = [call EXCEPT ![c].slot = n, ![c].todo = Tail(@)]
  /\ raced' = IF met THEN raced \cup {n} ELSE raced

\* Slip: the routes of other build sandboxes are not looked at.
PickSlotBlindly(c) ==
  /\ At(c, "pick")
  /\ \/ Picks(c, 1, Unprepared(c, 1))
     \/ Then(c, Err(c)) /\ UNCHANGED raced
  /\ UNCHANGED <<store, files, host, mixed, spoilt, last, stuck, refused>>

\* internalSandboxNetworkSpec: the lowest slot without a route, not reserved.  It goes
\* by the sandbox rows alone when ip route show fails: build sandboxes have none.
PickSlot(c) ==
  /\ At(c, "pick")
  /\ \/ \E n \in Slots : /\ route[n] = NoFile /\ \A m \in 1..n - 1 : route[m] # NoFile
                         /\ Picks(c, n, Unprepared(c, n))
     \/ 1 \in Slots /\ Picks(c, 1, Unprepared(c, 1) \/ route[1] # NoFile)
     \/ Then(c, Err(c)) /\ UNCHANGED raced
  /\ UNCHANGED <<store, files, host, mixed, spoilt, last, stuck, refused>>

\* attachAgentDrive, then the network manager's Prepare, which can fail before
\* the route or after it.
PrepareNet(c) ==
  LET installed == [route EXCEPT ![call[c].slot] = c] IN
  /\ At(c, "net")
  /\ \/ /\ route' = installed
        /\ call' = [call EXCEPT ![c].net = TRUE, ![c].todo = Tail(@)]
     \/ /\ route' \in {route, installed}
        /\ Then(c, Err(c))
  /\ UNCHANGED <<store, files, work, backup, disk, dirs, history>>

\* CreateRuntime and ResumeRuntime open the disk their spec names.
Boot(c, kind) ==
  LET f == root[Dest(c)] IN
  /\ At(c, kind)
  /\ \/ f # NoFile /\ disk' = [disk EXCEPT ![c] = f] /\ Then(c, Rest(c))
     \/ disk' \in {disk, [disk EXCEPT ![c] = f]} /\ Then(c, Err(c))
  /\ UNCHANGED <<store, files, work, backup, dirs, route, history>>

CreateRuntime(c) == Boot(c, "create")
ResumeRuntime(c) == Boot(c, "resume")

GuestWrites(c) ==
  /\ disk[c] # NoFile
  /\ <<c, "run">> \notin data[disk[c]]
  /\ data' = [data EXCEPT ![disk[c]] = @ \cup {<<c, "run">>}]
  /\ UNCHANGED <<store, root, snap, img, host, call, history>>

\* What a KillRuntime whose error is dropped leaves of c's VM.
Killed(c) == {disk, [disk EXCEPT ![c] = NoFile]}

\* waitTemplateRuntimeReady and runTemplateBuildCommands; an error kills the VM.
RunCommands(c) ==
  /\ At(c, "commands")
  /\ \/ /\ data' = [data EXCEPT ![disk[c]] = @ \cup {<<c, "cmds">>}]
        /\ Then(c, Rest(c)) /\ UNCHANGED disk
     \/ /\ disk' \in Killed(c)
        /\ Then(c, Err(c)) /\ UNCHANGED data
  /\ UNCHANGED <<store, root, snap, img, work, backup, dirs, route, history>>

\* PauseRuntime writes the template's snapshot and ends the VM; a gVisor sandbox
\* is stopped, or said to be.  An answer may be lost after the work is done.
Seal(c) ==
  LET sealed == IF call[c].kind = "vm" THEN [snap EXCEPT ![call[c].t] = data[disk[c]]] ELSE snap IN
  /\ At(c, "seal")
  /\ disk' \in Killed(c)
  /\ \/ /\ snap' = sealed /\ Then(c, Rest(c))
        /\ call[c].kind = "vm" => disk'[c] = NoFile
     \/ snap' \in {snap, sealed} /\ Then(c, Err(c))
  /\ UNCHANGED <<store, root, img, data, work, backup, dirs, route, history>>

\* cleanupInternalSandbox.  The error of KillRuntime is dropped, and only the shim is
\* signalled; a shim that does not end keeps network and files; the errors of the
\* network commands are dropped; the directory may stay.  A VM that outlives it writes on.
Cleanup(c) ==
  LET cut == [n \in Slots |-> IF n = call[c].slot THEN NoFile ELSE route[n]] IN
  /\ At(c, "cleanup")
  /\ disk' \in Killed(c)
  /\ dirs' \in {dirs, dirs \ {c}}
  /\ route' \in {route, cut}
  /\ stuck' = IF dirs' = dirs \ {c} /\ route' = cut /\ disk'[c] = NoFile THEN stuck ELSE stuck \cup {c}
  /\ spoilt' = IF disk'[c] = NoFile THEN spoilt ELSE spoilt \cup {call[c].t}
  /\ Then(c, Rest(c))
  /\ UNCHANGED <<store, files, work, backup, mixed, last, raced, refused>>

(***************************************************************************)
(* Files                                                                   *)
(***************************************************************************)
\* materializeTemplateRootfs.  An existing rootfs.ext4 is overwritten in place when
\* another is copied; else what is there is removed and made again.  A copy onto
\* itself does nothing.
SourceContent(c) ==
  LET s == call[c].src IN
  IF s \in Templates THEN (IF rows[s] # "none" /\ root[<<s, rows[s]>>] # NoFile
                           THEN Content(<<s, rows[s]>>) ELSE {})
  ELSE IF s \in Images THEN (CASE images[s].st = "own" -> img[s]
                               [] images[s].st = "shared" /\ root[images[s].at] # NoFile
                                    -> Content(images[s].at)
                               [] OTHER -> {})
  ELSE {<<c, "base">>}
SourcePath(c) ==
  LET s == call[c].src IN
  IF s \in Templates THEN <<s, rows[s]>>
  ELSE IF s \in Images /\ images[s].st = "shared" THEN images[s].at ELSE <<"elsewhere", Dest(c)[2]>>
SourceKind(c) ==
  LET s == call[c].src IN
  IF s \in Templates THEN rows[s]
  ELSE IF s \in Images /\ images[s].st # "none" THEN images[s].at[2] ELSE call[c].kind

Materialize(c) ==
  LET p == Dest(c)
      f == IF call[c].kind = "vm" /\ SourceKind(c) = "vm" /\ call[c].src # "docker" /\ root[p] # NoFile
           THEN root[p] ELSE c IN
  /\ At(c, "materialize")
  /\ \/ Then(c, Err(c)) /\ UNCHANGED <<root, data, last>>      \* nothing was written
     \/ /\ SourceContent(c) # {}
        /\ call[c].kind = "dir" => SourceKind(c) = "dir"
        /\ last' = [last EXCEPT ![call[c].t] = NoFile]
        /\ IF SourcePath(c) = p THEN UNCHANGED <<root, data>>
           ELSE /\ root' = [root EXCEPT ![p] = f]
                /\ data' = [data EXCEPT ![f] = SourceContent(c) \cup {<<c, "base">>}]
        /\ call' \in {[call EXCEPT ![c].seen = SourceKind(c), ![c].todo = steps] :
                      steps \in {Rest(c), Err(c)}}               \* all of it, or a part
  /\ UNCHANGED <<store, snap, img, host, mixed, spoilt, raced, stuck, refused>>

\* injectTemplateRuntimeFiles: into an ext4 image with debugfs, into a directory
\* with file writes; the one does not work on the other.
Inject(c) ==
  LET f == root[Dest(c)] IN
  /\ At(c, "inject")
  /\ \/ /\ f # NoFile /\ call[c].kind = call[c].seen
        /\ data' = [data EXCEPT ![f] = @ \cup {<<c, "init">>}]
        /\ Then(c, Rest(c))
     \/ Then(c, Err(c)) /\ UNCHANGED data
  /\ UNCHANGED <<store, root, snap, img, host, history>>

\* The build sandbox's own copy of memfile and snapfile.
CopyMemory(c) ==
  /\ At(c, "memfiles")
  /\ \/ snap[call[c].t] # {} /\ call' = [call EXCEPT ![c].mem = snap[call[c].t], ![c].todo = Tail(@)]
     \/ Then(c, Err(c))
  /\ UNCHANGED <<store, files, host, history>>

CopyWork(c) ==
  LET f == root[Dest(c)] IN
  /\ At(c, "workcopy")
  /\ \/ /\ f # NoFile
        /\ work' = [work EXCEPT ![c] = c]
        /\ data' = [data EXCEPT ![c] = data[f]]
        /\ Then(c, Rest(c))
     \/ Then(c, Err(c)) /\ UNCHANGED <<work, data>>
  /\ UNCHANGED <<store, root, snap, img, backup, disk, dirs, route, history>>

\* A template whose only rootfs an export is about to lose.
Spoils(c, lost) == spoilt' = IF lost THEN spoilt \cup {call[c].t} ELSE spoilt

\* os.Rename(from, to) fails when there is nothing at from, and when the file system
\* says so.  What the deferred function then removes is the template's rootfs: the one
\* that could not be moved, or the one that has just been put back.
Aside(c) ==
  LET p == Dest(c) IN
  /\ At(c, "aside")
  /\ \/ /\ root[p] # NoFile
        /\ backup' = [backup EXCEPT ![c] = root[p]]
        /\ root' = [root EXCEPT ![p] = NoFile]
        /\ Then(c, Rest(c)) /\ UNCHANGED spoilt
     \/ Then(c, Err(c)) /\ Spoils(c, root[p] # NoFile) /\ UNCHANGED <<root, backup>>
  /\ UNCHANGED <<store, snap, img, data, work, disk, dirs, route, mixed, last, raced, stuck, refused>>

Swap(c) ==
  /\ At(c, "swap")
  /\ \/ /\ work[c] # NoFile
        /\ root' = [root EXCEPT ![Dest(c)] = work[c]]
        /\ work' = [work EXCEPT ![c] = NoFile]
        /\ Then(c, Rest(c)) /\ UNCHANGED spoilt
     \/ Then(c, Err(c)) /\ Spoils(c, work[c] # NoFile) /\ UNCHANGED <<root, work>>
  /\ UNCHANGED <<store, snap, img, data, backup, disk, dirs, route, mixed, last, raced, stuck, refused>>

\* Slip: the VM is not paused before its disk is copied.
HaltSkipped(c) ==
  /\ At(c, "halt") /\ Then(c, Rest(c))
  /\ UNCHANGED <<store, files, host, history>>

Halt(c) ==
  /\ At(c, "halt")
  /\ \/ disk' = [disk EXCEPT ![c] = NoFile] /\ Then(c, Rest(c))
     \/ disk' \in Killed(c) /\ Then(c, Err(c))
  /\ UNCHANGED <<store, files, work, backup, dirs, route, history>>

CopyOut(c) ==
  LET f == root[Dest(c)] IN
  /\ At(c, "copyout")
  /\ \/ /\ f # NoFile
        /\ img' = [img EXCEPT ![call[c].i] = data[f]]
        /\ call' = [call EXCEPT ![c].ok = TRUE, ![c].todo = Tail(@)]
     \/ Then(c, Err(c)) /\ UNCHANGED img
  /\ UNCHANGED <<store, root, snap, data, host, history>>

\* os.Remove of the rootfs; nothing there is no error.
Unlink(c) ==
  /\ At(c, "unlink")
  /\ \/ root' = [root EXCEPT ![Dest(c)] = NoFile] /\ Then(c, Rest(c))
     \/ root[Dest(c)] # NoFile /\ Then(c, Err(c)) /\ UNCHANGED root
  /\ UNCHANGED <<store, snap, img, data, host, history>>

\* The backup's rename back.  restoreTemplateRootfs returns its error, and the deferred
\* function tries it once more: after that the rootfs stays aside.
PutBack(c) ==
  /\ At(c, "putback")
  /\ \/ /\ backup[c] # NoFile
        /\ root' = [root EXCEPT ![Dest(c)] = backup[c]]
        /\ backup' = [backup EXCEPT ![c] = NoFile]
        /\ Then(c, Rest(c)) /\ UNCHANGED spoilt
     \/ /\ Then(c, Err(c)) /\ UNCHANGED <<root, backup>>
        /\ Spoils(c, backup[c] # NoFile /\ Head(call[c].todo).err = "next")
  /\ UNCHANGED <<store, snap, img, data, work, disk, dirs, route, mixed, last, raced, stuck, refused>>

DropWork(c) ==
  /\ At(c, "dropwork")
  /\ work' \in {work, [work EXCEPT ![c] = NoFile]}
  /\ Then(c, Rest(c))
  /\ UNCHANGED <<store, files, backup, disk, dirs, route, history>>

-----------------------------------------------------------------------------
Step(c) ==
  \/ Ensure(c) \/ AddRow(c) \/ AddBuild(c) \/ LoadBuild(c) \/ Claim(c) \/ Failed(c) \/ Ready(c)
  \/ ChoosePaths(c) \/ Lookup(c) \/ Record(c) \/ DeleteRow(c) \/ RemoveDir(c)
  \/ ImageFree(c) \/ OwnImage(c) \/ ShareImage(c) \/ LookImage(c) \/ DeleteImage(c) \/ RemoveImage(c)
  \/ StartShim(c) \/ PickSlot(c) \/ PrepareNet(c) \/ CreateRuntime(c) \/ ResumeRuntime(c)
  \/ RunCommands(c) \/ Seal(c) \/ Cleanup(c) \/ Materialize(c) \/ Inject(c) \/ CopyMemory(c) \/ CopyWork(c)
  \/ Aside(c) \/ Swap(c) \/ Halt(c) \/ CopyOut(c) \/ Unlink(c) \/ PutBack(c) \/ DropWork(c)

Next == \E c \in Calls :
  \/ RequestTemplate(c) \/ RequestBuild(c) \/ RequestImage(c)
  \/ RequestDelete(c) \/ RequestConvert(c) \/ RequestUnimage(c)
  \/ Step(c) \/ GuestWrites(c)

Spec == Init /\ [][Next]_vars

-----------------------------------------------------------------------------
(***************************************************************************)
(* Properties                                                              *)
(***************************************************************************)
Quiet(t) == \A c \in Calls : Active(c) => t \notin Changes(call[c])
Contents == SUBSET Marks
\* One build is built once at a time: of the requests that read it as waiting or
\* failed only one gets past UpdateTemplateBuildStatus until it has failed again
\* (StartTemplateBuildV2), so two of them never write one template's artifacts.
BuildExclusive ==
  \A c, d \in Calls : c # d /\ Claimed(c) /\ Claimed(d) => call[c].b # call[d].b

\* A build that says building is being built, unless the store refused the write of
\* its last status, as it does when the request was cancelled or boxapi died: every
\* error path of the artifact service leads to error or ready, where it can be seen and
\* retried (StartTemplateBuildV2; template.go:297 drops that write's error, 316-326
\* returns it).
NoStuckBuild ==
  \A b \in Builds : builds[b].st = "building" =>
    \E c \in Calls : call[c].op = "build" /\ call[c].b = b /\ (Claimed(c) \/ c \in refused)

\* A build that is ready belongs to a template that exists, however DeleteTemplate,
\* CreateTemplateV3 and the build's own CreateTemplate interleave.
ReadyHasTemplate ==
  \A b \in Builds : builds[b].st = "ready" => rows[builds[b].of] # "none"

\* What sandboxes are cloned from fits together: the rootfs holds the last
\* build's agent files and commands, and it is the one the snapshot's memory was taken with.
Sound(t) ==
  LET p == <<t, rows[t]>> IN
  rows[t] # "none" /\ last[t] # NoFile /\ Quiet(t) =>
    /\ root[p] # NoFile
    /\ {<<last[t], "init">>, <<last[t], "cmds">>} \subseteq Content(p)
    /\ rows[t] = "vm" => snap[t] = Content(p)

\* Templates that two calls used at a time, of which an export lost the rootfs to a
\* rename that failed, or on whose rootfs a VM that could not be killed writes on.
Doubtful == mixed \cup spoilt

\* Builds and image exports that follow one another leave a template sound at
\* whichever step an export fails (withWritableTemplateRootfs swaps the rootfs and
\* puts it back, when it must at the second try), but for the renames that it does not
\* survive: the one aside, the one of the copy, the one back failing twice.
TemplateCoherent == \A t \in Templates \ Doubtful : Sound(t)

\* Exporting images leaves the rootfs of their template as it was, also when two are
\* exported at once and none of their renames fails (artifact_test.go:599 requires it
\* of one export).
TemplateRootfsKept == \A t \in Templates \ spoilt : Sound(t)

\* An image is the disk its own build sandbox had when it was halted, grown from
\* the disk that the memory it was resumed with belongs to.
ImageFaithful ==
  \A i \in Images \ mixed :
    images[i].st = "own" /\ images[i].at[2] = "vm" =>
      LET c == images[i].by IN
      call[c].t \notin Doubtful =>
        /\ img[i] = data[c] /\ disk[c] = NoFile
        /\ call[c].seen = "built" => data[c] \ {<<c, "run">>} = call[c].mem

\* A template build, and an image export that reached its copy, has ended without
\* leaving a build sandbox, a VM or a route behind, on every error path: only what
\* cleanupInternalSandbox could not kill, end or remove stays (services.go:2837-2855).
BuildLeavesNothing ==
  \A c \in Calls \ stuck :
    (call[c].op = "build" \/ call[c].ok) /\ ~Active(c) =>
      /\ c \notin dirs /\ disk[c] = NoFile
      /\ \A n \in Slots : route[n] # c

\* A build sandbox keeps the route of its slot until its cleanup, unless two picked the
\* slot: with no Prepare between (internalSandboxNetworkSpec reserves nothing), or
\* blindly, when ip route show failed (services.go:2094-2098).  Sandboxes left behind
\* by failed exports, which no row shows, are not run over.
BuildKeepsRoute ==
  \A c \in Calls \ stuck :
    c \in dirs /\ call[c].net /\ call[c].slot \notin raced => route[call[c].slot] = c

=============================================================================
