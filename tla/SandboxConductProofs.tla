------------------------- MODULE SandboxConductProofs -------------------------
(***************************************************************************)
(* What clients that keep to docs/architecture/lifecycle.md can rely on,   *)
(* whatever fails: the rows move as the state machine there allows, a row  *)
(* that says running has a runtime and its route, one that says paused or  *)
(* stopped has none, and a deleted sandbox leaves nothing on the host.     *)
(*                                                                         *)
(* A handler is a list of steps (SandboxService); a point says what it     *)
(* knows between two of them of its row, its runtime and its network, and  *)
(* a walk is a list of steps that may be taken one after the other.  Every *)
(* handler is a walk from the row that its operation is legal in, and      *)
(* every error branch is one from the less that is known after a failure.  *)
(* The invariant, Conduct, is that each call still has a walk before it,   *)
(* from what is true of its sandbox.                                       *)
(***************************************************************************)
EXTENDS SandboxServiceProofs, FiniteSetTheorems

-----------------------------------------------------------------------------
(* What a handler knows between two steps, as long as its sandbox gets one  *)
(* call at a time and the call is legal.                                    *)

Phases == States \union {"absent"}
Abilities == {"any", "live", "idle", "still", "none", "erased", "bare"}
Links == {"own", "slotted", "routed", "cleared"}

\* The state of the row; what is known of the runtime; what is known of the network.
Points == [phase : Phases, rt : Abilities, net : Links]
Pt(p, r, n) == [phase |-> p, rt |-> r, net |-> n]

\* What an RPC that succeeds, or a KillRuntime that does not, leaves of the runtime.
Yields(m) ==
    IF m \in {"Pause", "Stop"} THEN "idle" ELSE IF m = "Kill" THEN "still" ELSE "live"

\* What is known after step x of a handler of s succeeds at a.
PhaseAfter(x, a) ==
    CASE x.do \in {"set", "cas"} -> x.arg
      [] x.do = "delrow"         -> "absent"
      [] OTHER                   -> a.phase
RuntimeAfter(s, x, a) ==
    CASE x.do = "rpc"                -> Yields(x.arg)
      [] x.do \in {"shim", "bgkill"} -> "any"
      [] x.do = "terminate"          -> IF s \in Containers THEN "none" ELSE "erased"
      [] x.do = "remove"             -> "erased"
      [] x.do = "delsnaps"           -> "bare"
      [] OTHER                       -> a.rt
LinkAfter(x, a) ==
    CASE x.do = "assign"  -> "slotted"
      [] x.do = "net"     -> "routed"
      [] x.do = "cleanup" -> "cleared"
      [] OTHER            -> a.net
After(s, x, a) == Pt(PhaseAfter(x, a), RuntimeAfter(s, x, a), LinkAfter(x, a))

Leads(p, y) == p = y \/ Lifecycle!Legal(p, y)

\* The state y may be written at a: the lifecycle allows it, and what the state
\* promises has been done.
MayEnter(a, y) ==
    /\ Leads(a.phase, y) /\ a.phase # "absent" /\ y \in States
    /\ y = "running" => a.rt = "live" /\ a.net = "routed"
    /\ y \in {"paused", "stopped"} => a.rt = "idle"
    /\ y = "killed" => a.rt = "erased"

\* Step x may be taken at a.
MayDo(x, a) ==
    /\ x.do \in {"set", "cas"} => MayEnter(a, x.arg)
    /\ x.do \in {"rpc", "shim", "bgkill", "files", "mount", "snapshot", "terminate", "remove",
                "assign", "net"} => a.phase \in Transitional
    /\ x.do = "rpc" /\ x.arg = "Resume" => a.rt = "idle"
    /\ x.do = "snapshot"  => a.rt = "idle"
    /\ x.do \in {"files", "mount"} => a.rt = "any"
    /\ x.do = "terminate" => a.rt = "still"
    /\ x.do = "remove"    => a.rt = "none"
    /\ x.do = "delsnaps"  => a.phase = "killed" /\ a.rt = "erased"
    /\ x.do = "delrow"    => a.phase = "killed" /\ a.rt = "bare"
    /\ x.do = "rmdir"     => a.phase = "absent" /\ a.rt = "bare"
    /\ x.do = "assign"    => a.net = "own"
    /\ x.do = "net"       => a.net = "slotted"
    /\ x.do = "cleanup"   => a.phase # "running" /\ a.net # "cleared"
    /\ x.do = "free"      => a.phase # "running" /\ a.net = "cleared"
    /\ x.do \in {"agent", "reread", "unmount"} => a.phase # "absent"

\* Steps that compare with the state seen, or whose error branch does.
Compares(x) == x.do = "cas" \/ x.err \in {"casFailed", "casAbandon", "killAbandon"}

\* Step x may fail at a.
MayFail(x, a) ==
    /\ x.err = "ignore" => \/ x.do \in {"terminate", "bgkill", "cleanup", "free"}
                           \/ x.do = "rpc" /\ x.arg = "Kill"
                           \/ x.do \in {"set", "cas"} /\ a.phase \in Transitional
    /\ x.err = "return" => a.phase # "absent" \/ x.do = "rmdir"
    /\ x.err \in {"casFailed", "casAbandon", "killAbandon"} =>
          a.phase = "creating" /\ a.net # "cleared" /\ x.do # "set"
    /\ x.err \in {"setFailed", "setAbandon"} => a.phase \in Transitional /\ a.net # "cleared"

Follows(s, x, a, b) == MayDo(x, a) /\ MayFail(x, a) /\ b = After(s, x, a)

\* w is what is known before each of the steps q, and after the last.
Trail(s, q, w) ==
    /\ w \in Seq(Points) /\ Len(w) = Len(q) + 1
    /\ \A i \in 1..Len(q) : Follows(s, q[i], w[i], w[i + 1])
    /\ w[Len(w)].phase # "absent" \/ w[Len(w)].net = "cleared"

\* After a step that writes a state, none compares; and after one whose failure
\* is ignored, there is only the network to release.
Once(q) ==
    \A i, j \in 1..Len(q) :
        i < j /\ q[i].do \in {"set", "cas", "delrow"} =>
            /\ ~Compares(q[j])
            /\ q[i].err = "ignore" => q[j].do \in {"cleanup", "free"} /\ q[j].err = "ignore"

\* The steps q may be taken by a handler of s that knows a; none of them compares.
Walks(s, q, a) == Once(q) /\ \E w \in Seq(Points) : Trail(s, q, w) /\ w[1] = a
Blind(q)       == \A i \in 1..Len(q) : ~Compares(q[i])

\* The error branch of a step starts with less.
Fallback(a) ==
    Pt(a.phase, "any", IF a.net = "cleared" \/ a.phase = "absent" THEN "cleared" ELSE "own")

\* What a handler starts with, from a row in state p.
Outset(op, p) ==
    Pt(p, IF op = "resume" THEN "idle" ELSE "any", IF op = "reboot" THEN "routed" ELSE "own")

Wired(s)  == s \in netns \/ \E n \in Slots : route[n] = s
Live(s)   == handle[s] = "live" \/ (handle[s] = "dead" /\ "vmexit" \in faults.kinds)
Gone(s)   == handle[s] = "none" /\ rootfs[s] = "none"

\* What is known of the runtime of s, and of its network by a call that holds slot n.
RuntimeIs(s, rt) ==
    /\ rt = "live" => Live(s)
    /\ rt = "idle" => handle[s] = "idle"
    /\ HostSound =>
          /\ rt = "still"  => handle[s] \in {"none", "empty"}
          /\ rt = "none"   => handle[s] = "none"
          /\ rt \in {"erased", "bare"} => Gone(s)
          /\ rt = "bare"   => s \notin snaps
NetworkIs(s, n, net) ==
    /\ net # "cleared" => (HasRow(s) => n = rows[s].slot) /\ (HostSound /\ Wired(s) => n > 0)
    /\ net \in {"slotted", "routed"} => n > 0
    /\ net = "routed" => (NoneDeleted => route[n] = s)
    /\ net = "cleared" => (HostSound => ~Wired(s))

Knowing(s, n, a) ==
    /\ a \in Points
    /\ rows[s].state = a.phase
    /\ RuntimeIs(s, a.rt)
    /\ NetworkIs(s, n, a.net)

\* The call record k is one of a handler that keeps to the lifecycle.
Proper(k) ==
    /\ k.box \in used
    /\ k.cancelled => "cancel" \in faults.kinds
    /\ Blind(k.todo) \/ k.seen = rows[k.box].state
    /\ \E a \in Points : Walks(k.box, k.todo, a) /\ Knowing(k.box, k.slot, a)

\* What holds of every sandbox at all times.
Standing(s) ==
    /\ rows[s].state = "running" => Live(s) /\ rows[s].slot > 0
                                    /\ (NoneDeleted => route[rows[s].slot] = s)
    /\ rows[s].state \in {"paused", "stopped"} => handle[s] = "idle"
    /\ HasRow(s) => s \in used
    /\ HostSound =>
          /\ s \notin stray
          /\ s \notin Containers => rootfs[s] = "none"
          /\ rows[s].state \in {"killed", "absent"} => Gone(s)
          /\ rows[s].state = "absent" => s \notin snaps

\* A network that is set up has a slot, or a call that will take it down.
Reserved(s) ==
    HostSound /\ Wired(s) => rows[s].slot > 0 \/ \E c \in Callers : Box(c) = s

Serial == \A c, d \in Callers : c # d /\ Box(c) = Box(d) => Box(c) = Nobody

Working == \A c \in Callers : call[c] = Idle \/ (Active(c) /\ Proper(call[c]))

Conduct == Serial /\ Working /\ \A s \in Sandboxes : Standing(s) /\ Reserved(s)

\* The moves of the lifecycle that the handlers make.
LEMMA LegalMoves ==
    /\ \A y \in {"pausing", "stopping", "rebooting"} : Leads("running", y)
    /\ Leads("paused", "resuming") /\ Leads("stopped", "starting")
    /\ Leads("pausing", "paused") /\ Leads("stopping", "stopped")
    /\ \A x \in {"creating", "resuming", "starting", "rebooting"} : Leads(x, "running")
    /\ \A x \in States : Leads(x, "killing")
    /\ Leads("killing", "killed") /\ Leads("killed", "absent") /\ Leads("absent", "creating")
    /\ \A x \in Transitional : Leads(x, "failed")
  BY DEF Leads, Lifecycle!Legal, Lifecycle!Entry, Lifecycle!Goal, States, Transitional

\* What the steps are made of.
LEMMA Fields ==
    \A e, y :
        /\ Set(y, e).do = "set" /\ Set(y, e).arg = y /\ Set(y, e).err = e
        /\ Cas(y, e).do = "cas" /\ Cas(y, e).arg = y /\ Cas(y, e).err = e
        /\ Rpc(y, e).do = "rpc" /\ Rpc(y, e).arg = y /\ Rpc(y, e).err = e
        /\ Do(y, e).do = y /\ Do(y, e).err = e
  BY Zenon DEF Set, Cas, Rpc, Do

\* What may be known are points.
LEMMA PointTypes == 
    /\ \A p \in States, r \in Abilities, n \in Links : Pt(p, r, n) \in Points /\ Pt("absent", r, n) \in Points
    /\ {"any", "live", "idle", "still", "none", "erased", "bare"} \subseteq Abilities
    /\ {"own", "slotted", "routed", "cleared"} \subseteq Links
    /\ {"creating", "running", "pausing", "paused", "resuming",
           "stopping", "stopped", "starting", "rebooting",
           "killing", "killed", "failed"} \subseteq States
  BY DEF Points, Pt, Phases, Abilities, Links, States

\* The steps of every handler may be taken, from a row in a state that the lifecycle
\* gives its operation, and only CreateSandbox compares with a state it has not read.
LEMMA HandlerWalks ==
    ASSUME NEW op \in OpNames, NEW s \in Sandboxes, NEW p \in States,
           IF op = "create" THEN p = "creating" ELSE p \in LegalFrom(op)
    PROVE  Walks(s, StepsOf(op, s), Outset(op, p)) /\ (op # "create" => Blind(StepsOf(op, s)))
<1>1. Walks(s, PauseList, Pt("running", "any", "own")) /\ Blind(PauseList)
  <2> DEFINE q == PauseList
             w == <<Pt("running", "any", "own"), Pt("pausing", "any", "own"),
                    Pt("pausing", "idle", "own"), Pt("pausing", "idle", "own"),
                    Pt("paused", "idle", "own"), Pt("paused", "idle", "cleared"),
                    Pt("paused", "idle", "cleared")>>
  <2>1. /\ Len(q) = 6 /\ q[1] = Set("pausing", "return") /\ q[2] = Rpc("Pause", "setFailed")
        /\ q[3] = Do("snapshot", "return") /\ q[4] = Set("paused", "return")
        /\ q[5] = Do("cleanup", "return") /\ q[6] = Do("free", "return")
    BY DEF PauseList
  <2>2. /\ w \in Seq(Points) /\ Len(w) = 7 /\ w[1] = Pt("running", "any", "own")
        /\ w[2] = Pt("pausing", "any", "own") /\ w[3] = Pt("pausing", "idle", "own")
        /\ w[4] = Pt("pausing", "idle", "own") /\ w[5] = Pt("paused", "idle", "own")
        /\ w[6] = Pt("paused", "idle", "cleared") /\ w[7] = Pt("paused", "idle", "cleared")
    BY PointTypes
  <2> HIDE DEF q, w
  <2>3. /\ Follows(s, q[1], w[1], w[2]) /\ Follows(s, q[2], w[2], w[3])
        /\ Follows(s, q[3], w[3], w[4]) /\ Follows(s, q[4], w[4], w[5])
        /\ Follows(s, q[5], w[5], w[6]) /\ Follows(s, q[6], w[6], w[7])
    BY <2>1, <2>2, LegalMoves, Fields
    DEF Follows, MayDo, MayFail, MayEnter, After, PhaseAfter, RuntimeAfter, LinkAfter, Pt, Yields,
        Transitional, States
  <2>4. \A i \in 1..Len(q) : i \in {1, 2, 3, 4, 5, 6}
    BY <2>1
  <2>5. w[Len(w)].phase # "absent" \/ w[Len(w)].net = "cleared"
    BY <2>2 DEF Pt, States
  <2>6. Trail(s, q, w)
    BY <2>1, <2>2, <2>3, <2>4, <2>5 DEF Trail
  <2>7. Blind(q) /\ Once(q)
    BY <2>1, <2>4, Fields DEF Blind, Once, Compares
  <2> QED  BY <2>2, <2>6, <2>7 DEF Walks, q
<1>2. Walks(s, ResumeSteps, Pt("paused", "idle", "own")) /\ Blind(ResumeSteps)
  <2> DEFINE q == ResumeSteps
             w == <<Pt("paused", "idle", "own"), Pt("resuming", "idle", "own"),
                    Pt("resuming", "idle", "slotted"), Pt("resuming", "idle", "routed"),
                    Pt("resuming", "live", "routed"), Pt("resuming", "live", "routed"),
                    Pt("running", "live", "routed")>>
  <2>1. /\ Len(q) = 6 /\ q[1] = Set("resuming", "return") /\ q[2] = Do("assign", "setFailed")
        /\ q[3] = Do("net", "setAbandon") /\ q[4] = Rpc("Resume", "setAbandon")
        /\ q[5] = Do("agent", "setAbandon") /\ q[6] = Set("running", "return")
    BY DEF ResumeSteps
  <2>2. /\ w \in Seq(Points) /\ Len(w) = 7 /\ w[1] = Pt("paused", "idle", "own")
        /\ w[2] = Pt("resuming", "idle", "own") /\ w[3] = Pt("resuming", "idle", "slotted")
        /\ w[4] = Pt("resuming", "idle", "routed") /\ w[5] = Pt("resuming", "live", "routed")
        /\ w[6] = Pt("resuming", "live", "routed") /\ w[7] = Pt("running", "live", "routed")
    BY PointTypes
  <2> HIDE DEF q, w
  <2>3. /\ Follows(s, q[1], w[1], w[2]) /\ Follows(s, q[2], w[2], w[3])
        /\ Follows(s, q[3], w[3], w[4]) /\ Follows(s, q[4], w[4], w[5])
        /\ Follows(s, q[5], w[5], w[6]) /\ Follows(s, q[6], w[6], w[7])
    BY <2>1, <2>2, LegalMoves, Fields
    DEF Follows, MayDo, MayFail, MayEnter, After, PhaseAfter, RuntimeAfter, LinkAfter, Pt, Yields,
        Transitional, States
  <2>4. \A i \in 1..Len(q) : i \in {1, 2, 3, 4, 5, 6}
    BY <2>1
  <2>5. w[Len(w)].phase # "absent" \/ w[Len(w)].net = "cleared"
    BY <2>2 DEF Pt, States
  <2>6. Trail(s, q, w)
    BY <2>1, <2>2, <2>3, <2>4, <2>5 DEF Trail
  <2>7. Blind(q) /\ Once(q)
    BY <2>1, <2>4, Fields DEF Blind, Once, Compares
  <2> QED  BY <2>2, <2>6, <2>7 DEF Walks, q
<1>3. ASSUME s \notin Containers
      PROVE  Walks(s, StartList, Pt("stopped", "any", "own")) /\ Blind(StartList)
  <2> DEFINE q == StartList
             w == <<Pt("stopped", "any", "own"), Pt("starting", "any", "own"),
                    Pt("starting", "any", "slotted"), Pt("starting", "any", "routed"),
                    Pt("starting", "live", "routed"), Pt("starting", "live", "routed"),
                    Pt("running", "live", "routed")>>
  <2>1. /\ Len(q) = 6 /\ q[1] = Set("starting", "return") /\ q[2] = Do("assign", "setFailed")
        /\ q[3] = Do("net", "setAbandon") /\ q[4] = Rpc("Start", "setAbandon")
        /\ q[5] = Do("agent", "setAbandon") /\ q[6] = Set("running", "return")
    BY DEF StartList
  <2>2. /\ w \in Seq(Points) /\ Len(w) = 7 /\ w[1] = Pt("stopped", "any", "own")
        /\ w[2] = Pt("starting", "any", "own") /\ w[3] = Pt("starting", "any", "slotted")
        /\ w[4] = Pt("starting", "any", "routed") /\ w[5] = Pt("starting", "live", "routed")
        /\ w[6] = Pt("starting", "live", "routed") /\ w[7] = Pt("running", "live", "routed")
    BY PointTypes
  <2> HIDE DEF q, w
  <2>3. /\ Follows(s, q[1], w[1], w[2]) /\ Follows(s, q[2], w[2], w[3])
        /\ Follows(s, q[3], w[3], w[4]) /\ Follows(s, q[4], w[4], w[5])
        /\ Follows(s, q[5], w[5], w[6]) /\ Follows(s, q[6], w[6], w[7])
    BY <1>3, <2>1, <2>2, LegalMoves, Fields
    DEF Follows, MayDo, MayFail, MayEnter, After, PhaseAfter, RuntimeAfter, LinkAfter, Pt, Yields,
        Transitional, States
  <2>4. \A i \in 1..Len(q) : i \in {1, 2, 3, 4, 5, 6}
    BY <2>1
  <2>5. w[Len(w)].phase # "absent" \/ w[Len(w)].net = "cleared"
    BY <2>2 DEF Pt, States
  <2>6. Trail(s, q, w)
    BY <2>1, <2>2, <2>3, <2>4, <2>5 DEF Trail
  <2>7. Blind(q) /\ Once(q)
    BY <2>1, <2>4, Fields DEF Blind, Once, Compares
  <2> QED  BY <2>2, <2>6, <2>7 DEF Walks, q
<1>4. ASSUME s \in Containers
      PROVE  Walks(s, BootList, Pt("stopped", "any", "own")) /\ Blind(BootList)
  <2> DEFINE q == BootList
             w == <<Pt("stopped", "any", "own"), Pt("starting", "any", "own"),
                    Pt("starting", "any", "slotted"), Pt("starting", "any", "slotted"),
                    Pt("starting", "any", "routed"), Pt("starting", "live", "routed"),
                    Pt("starting", "live", "routed"), Pt("running", "live", "routed")>>
  <2>1. /\ Len(q) = 7 /\ q[1] = Set("starting", "return") /\ q[2] = Do("assign", "setFailed")
        /\ q[3] = Do("mount", "setAbandon") /\ q[4] = Do("net", "setAbandon")
        /\ q[5] = Rpc("Start", "setAbandon") /\ q[6] = Do("agent", "setAbandon")
        /\ q[7] = Set("running", "return")
    BY DEF BootList
  <2>2. /\ w \in Seq(Points) /\ Len(w) = 8 /\ w[1] = Pt("stopped", "any", "own")
        /\ w[2] = Pt("starting", "any", "own") /\ w[3] = Pt("starting", "any", "slotted")
        /\ w[4] = Pt("starting", "any", "slotted") /\ w[5] = Pt("starting", "any", "routed")
        /\ w[6] = Pt("starting", "live", "routed") /\ w[7] = Pt("starting", "live", "routed")
        /\ w[8] = Pt("running", "live", "routed")
    BY PointTypes
  <2> HIDE DEF q, w
  <2>3. /\ Follows(s, q[1], w[1], w[2]) /\ Follows(s, q[2], w[2], w[3])
        /\ Follows(s, q[3], w[3], w[4]) /\ Follows(s, q[4], w[4], w[5])
        /\ Follows(s, q[5], w[5], w[6]) /\ Follows(s, q[6], w[6], w[7])
        /\ Follows(s, q[7], w[7], w[8])
    BY <1>4, <2>1, <2>2, LegalMoves, Fields
    DEF Follows, MayDo, MayFail, MayEnter, After, PhaseAfter, RuntimeAfter, LinkAfter, Pt, Yields,
        Transitional, States
  <2>4. \A i \in 1..Len(q) : i \in {1, 2, 3, 4, 5, 6, 7}
    BY <2>1
  <2>5. w[Len(w)].phase # "absent" \/ w[Len(w)].net = "cleared"
    BY <2>2 DEF Pt, States
  <2>6. Trail(s, q, w)
    BY <2>1, <2>2, <2>3, <2>4, <2>5 DEF Trail
  <2>7. Blind(q) /\ Once(q)
    BY <2>1, <2>4, Fields DEF Blind, Once, Compares
  <2> QED  BY <2>2, <2>6, <2>7 DEF Walks, q
<1>5. Walks(s, StopList, Pt("running", "any", "own")) /\ Blind(StopList)
  <2> DEFINE q == StopList
             w == <<Pt("running", "any", "own"), Pt("stopping", "any", "own"),
                    Pt("stopping", "idle", "own"), Pt("stopped", "idle", "own"),
                    Pt("stopped", "idle", "cleared"), Pt("stopped", "idle", "cleared")>>
  <2>1. /\ Len(q) = 5 /\ q[1] = Set("stopping", "return") /\ q[2] = Rpc("Stop", "setFailed")
        /\ q[3] = Set("stopped", "return") /\ q[4] = Do("cleanup", "return")
        /\ q[5] = Do("free", "return")
    BY DEF StopList
  <2>2. /\ w \in Seq(Points) /\ Len(w) = 6 /\ w[1] = Pt("running", "any", "own")
        /\ w[2] = Pt("stopping", "any", "own") /\ w[3] = Pt("stopping", "idle", "own")
        /\ w[4] = Pt("stopped", "idle", "own") /\ w[5] = Pt("stopped", "idle", "cleared")
        /\ w[6] = Pt("stopped", "idle", "cleared")
    BY PointTypes
  <2> HIDE DEF q, w
  <2>3. /\ Follows(s, q[1], w[1], w[2]) /\ Follows(s, q[2], w[2], w[3])
        /\ Follows(s, q[3], w[3], w[4]) /\ Follows(s, q[4], w[4], w[5])
        /\ Follows(s, q[5], w[5], w[6])
    BY <2>1, <2>2, LegalMoves, Fields
    DEF Follows, MayDo, MayFail, MayEnter, After, PhaseAfter, RuntimeAfter, LinkAfter, Pt, Yields,
        Transitional, States
  <2>4. \A i \in 1..Len(q) : i \in {1, 2, 3, 4, 5}
    BY <2>1
  <2>5. w[Len(w)].phase # "absent" \/ w[Len(w)].net = "cleared"
    BY <2>2 DEF Pt, States
  <2>6. Trail(s, q, w)
    BY <2>1, <2>2, <2>3, <2>4, <2>5 DEF Trail
  <2>7. Blind(q) /\ Once(q)
    BY <2>1, <2>4, Fields DEF Blind, Once, Compares
  <2> QED  BY <2>2, <2>6, <2>7 DEF Walks, q
<1>6. Walks(s, HaltList, Pt("running", "any", "own")) /\ Blind(HaltList)
  <2> DEFINE q == HaltList
             w == <<Pt("running", "any", "own"), Pt("stopping", "any", "own"),
                    Pt("stopping", "idle", "own"), Pt("stopped", "idle", "own"),
                    Pt("stopped", "idle", "cleared"), Pt("stopped", "idle", "cleared"),
                    Pt("stopped", "idle", "cleared"), Pt("stopped", "idle", "cleared")>>
  <2>1. /\ Len(q) = 7 /\ q[1] = Set("stopping", "return") /\ q[2] = Rpc("Stop", "setFailed")
        /\ q[3] = Set("stopped", "return") /\ q[4] = Do("cleanup", "return")
        /\ q[5] = Do("free", "return") /\ q[6] = Do("reread", "return")
        /\ q[7] = Do("unmount", "return")
    BY DEF HaltList
  <2>2. /\ w \in Seq(Points) /\ Len(w) = 8 /\ w[1] = Pt("running", "any", "own")
        /\ w[2] = Pt("stopping", "any", "own") /\ w[3] = Pt("stopping", "idle", "own")
        /\ w[4] = Pt("stopped", "idle", "own") /\ w[5] = Pt("stopped", "idle", "cleared")
        /\ w[6] = Pt("stopped", "idle", "cleared") /\ w[7] = Pt("stopped", "idle", "cleared")
        /\ w[8] = Pt("stopped", "idle", "cleared")
    BY PointTypes
  <2> HIDE DEF q, w
  <2>3. /\ Follows(s, q[1], w[1], w[2]) /\ Follows(s, q[2], w[2], w[3])
        /\ Follows(s, q[3], w[3], w[4]) /\ Follows(s, q[4], w[4], w[5])
        /\ Follows(s, q[5], w[5], w[6]) /\ Follows(s, q[6], w[6], w[7])
        /\ Follows(s, q[7], w[7], w[8])
    BY <2>1, <2>2, LegalMoves, Fields
    DEF Follows, MayDo, MayFail, MayEnter, After, PhaseAfter, RuntimeAfter, LinkAfter, Pt, Yields,
        Transitional, States
  <2>4. \A i \in 1..Len(q) : i \in {1, 2, 3, 4, 5, 6, 7}
    BY <2>1
  <2>5. w[Len(w)].phase # "absent" \/ w[Len(w)].net = "cleared"
    BY <2>2 DEF Pt, States
  <2>6. Trail(s, q, w)
    BY <2>1, <2>2, <2>3, <2>4, <2>5 DEF Trail
  <2>7. Blind(q) /\ Once(q)
    BY <2>1, <2>4, Fields DEF Blind, Once, Compares
  <2> QED  BY <2>2, <2>6, <2>7 DEF Walks, q
<1>7. Walks(s, RebootSteps, Pt("running", "any", "routed")) /\ Blind(RebootSteps)
  <2> DEFINE q == RebootSteps
             w == <<Pt("running", "any", "routed"), Pt("rebooting", "any", "routed"),
                    Pt("rebooting", "live", "routed"), Pt("running", "live", "routed")>>
  <2>1. /\ Len(q) = 3 /\ q[1] = Set("rebooting", "return") /\ q[2] = Rpc("Reboot", "setFailed")
        /\ q[3] = Set("running", "return")
    BY DEF RebootSteps
  <2>2. /\ w \in Seq(Points) /\ Len(w) = 4 /\ w[1] = Pt("running", "any", "routed")
        /\ w[2] = Pt("rebooting", "any", "routed") /\ w[3] = Pt("rebooting", "live", "routed")
        /\ w[4] = Pt("running", "live", "routed")
    BY PointTypes
  <2> HIDE DEF q, w
  <2>3. /\ Follows(s, q[1], w[1], w[2]) /\ Follows(s, q[2], w[2], w[3])
        /\ Follows(s, q[3], w[3], w[4])
    BY <2>1, <2>2, LegalMoves, Fields
    DEF Follows, MayDo, MayFail, MayEnter, After, PhaseAfter, RuntimeAfter, LinkAfter, Pt, Yields,
        Transitional, States
  <2>4. \A i \in 1..Len(q) : i \in {1, 2, 3}
    BY <2>1
  <2>5. w[Len(w)].phase # "absent" \/ w[Len(w)].net = "cleared"
    BY <2>2 DEF Pt, States
  <2>6. Trail(s, q, w)
    BY <2>1, <2>2, <2>3, <2>4, <2>5 DEF Trail
  <2>7. Blind(q) /\ Once(q)
    BY <2>1, <2>4, Fields DEF Blind, Once, Compares
  <2> QED  BY <2>2, <2>6, <2>7 DEF Walks, q
<1>8. Walks(s, CreateSteps, Pt("creating", "any", "own"))
  <2> DEFINE q == CreateSteps
             w == <<Pt("creating", "any", "own"), Pt("creating", "any", "slotted"),
                    Pt("creating", "any", "slotted"), Pt("creating", "any", "routed"),
                    Pt("creating", "any", "routed"), Pt("creating", "live", "routed"),
                    Pt("creating", "live", "routed"), Pt("running", "live", "routed")>>
  <2>1. /\ Len(q) = 7 /\ q[1] = Do("assign", "casFailed") /\ q[2] = Do("files", "casAbandon")
        /\ q[3] = Do("net", "casAbandon") /\ q[4] = Do("shim", "casAbandon")
        /\ q[5] = Rpc("Create", "casAbandon") /\ q[6] = Do("agent", "killAbandon")
        /\ q[7] = Cas("running", "return")
    BY DEF CreateSteps
  <2>2. /\ w \in Seq(Points) /\ Len(w) = 8 /\ w[1] = Pt("creating", "any", "own")
        /\ w[2] = Pt("creating", "any", "slotted") /\ w[3] = Pt("creating", "any", "slotted")
        /\ w[4] = Pt("creating", "any", "routed") /\ w[5] = Pt("creating", "any", "routed")
        /\ w[6] = Pt("creating", "live", "routed") /\ w[7] = Pt("creating", "live", "routed")
        /\ w[8] = Pt("running", "live", "routed")
    BY PointTypes
  <2> HIDE DEF q, w
  <2>3. /\ Follows(s, q[1], w[1], w[2]) /\ Follows(s, q[2], w[2], w[3])
        /\ Follows(s, q[3], w[3], w[4]) /\ Follows(s, q[4], w[4], w[5])
        /\ Follows(s, q[5], w[5], w[6]) /\ Follows(s, q[6], w[6], w[7])
        /\ Follows(s, q[7], w[7], w[8])
    BY <2>1, <2>2, LegalMoves, Fields
    DEF Follows, MayDo, MayFail, MayEnter, After, PhaseAfter, RuntimeAfter, LinkAfter, Pt, Yields,
        Transitional, States
  <2>4. \A i \in 1..Len(q) : i \in {1, 2, 3, 4, 5, 6, 7}
    BY <2>1
  <2>5. w[Len(w)].phase # "absent" \/ w[Len(w)].net = "cleared"
    BY <2>2 DEF Pt, States
  <2>6. Trail(s, q, w)
    BY <2>1, <2>2, <2>3, <2>4, <2>5 DEF Trail
  <2>7. Once(q)
    BY <2>1, <2>4, Fields DEF Once, Compares
  <2> QED  BY <2>2, <2>6, <2>7 DEF Walks, q
<1>9. ASSUME s \notin Containers
      PROVE  Walks(s, KillList, Pt(p, "any", "own")) /\ Blind(KillList)
  <2> DEFINE q == KillList
             w == <<Pt(p, "any", "own"), Pt("killing", "any", "own"),
                    Pt("killing", "still", "own"), Pt("killing", "erased", "own"),
                    Pt("killed", "erased", "own"), Pt("killed", "bare", "own"),
                    Pt("absent", "bare", "own"), Pt("absent", "bare", "own"),
                    Pt("absent", "bare", "cleared"), Pt("absent", "bare", "cleared")>>
  <2>1. /\ Len(q) = 9 /\ q[1] = Set("killing", "return") /\ q[2] = Rpc("Kill", "ignore")
        /\ q[3] = Do("terminate", "ignore") /\ q[4] = Set("killed", "return")
        /\ q[5] = Do("delsnaps", "return") /\ q[6] = Do("delrow", "return")
        /\ q[7] = Do("rmdir", "return") /\ q[8] = Do("cleanup", "ignore")
        /\ q[9] = Do("free", "ignore")
    BY DEF KillList
  <2>2. /\ w \in Seq(Points) /\ Len(w) = 10 /\ w[1] = Pt(p, "any", "own")
        /\ w[2] = Pt("killing", "any", "own") /\ w[3] = Pt("killing", "still", "own")
        /\ w[4] = Pt("killing", "erased", "own") /\ w[5] = Pt("killed", "erased", "own")
        /\ w[6] = Pt("killed", "bare", "own") /\ w[7] = Pt("absent", "bare", "own")
        /\ w[8] = Pt("absent", "bare", "own") /\ w[9] = Pt("absent", "bare", "cleared")
        /\ w[10] = Pt("absent", "bare", "cleared")
    BY PointTypes
  <2> HIDE DEF q, w
  <2>3. /\ Follows(s, q[1], w[1], w[2]) /\ Follows(s, q[2], w[2], w[3])
        /\ Follows(s, q[3], w[3], w[4]) /\ Follows(s, q[4], w[4], w[5])
        /\ Follows(s, q[5], w[5], w[6]) /\ Follows(s, q[6], w[6], w[7])
        /\ Follows(s, q[7], w[7], w[8]) /\ Follows(s, q[8], w[8], w[9])
        /\ Follows(s, q[9], w[9], w[10])
    BY <1>9, <2>1, <2>2, LegalMoves, Fields
    DEF Follows, MayDo, MayFail, MayEnter, After, PhaseAfter, RuntimeAfter, LinkAfter, Pt, Yields,
        Transitional, States
  <2>4. \A i \in 1..Len(q) : i \in {1, 2, 3, 4, 5, 6, 7, 8, 9}
    BY <2>1
  <2>5. w[Len(w)].phase # "absent" \/ w[Len(w)].net = "cleared"
    BY <2>2 DEF Pt, States
  <2>6. Trail(s, q, w)
    BY <2>1, <2>2, <2>3, <2>4, <2>5 DEF Trail
  <2>7. Blind(q) /\ Once(q)
    BY <2>1, <2>4, Fields DEF Blind, Once, Compares
  <2> QED  BY <2>2, <2>6, <2>7 DEF Walks, q
<1>10. ASSUME s \in Containers
      PROVE  Walks(s, EndList, Pt(p, "any", "own")) /\ Blind(EndList)
  <2> DEFINE q == EndList
             w == <<Pt(p, "any", "own"), Pt("killing", "any", "own"),
                    Pt("killing", "still", "own"), Pt("killing", "none", "own"),
                    Pt("killing", "erased", "own"), Pt("killed", "erased", "own"),
                    Pt("killed", "bare", "own"), Pt("absent", "bare", "own"),
                    Pt("absent", "bare", "own"), Pt("absent", "bare", "cleared"),
                    Pt("absent", "bare", "cleared")>>
  <2>1. /\ Len(q) = 10 /\ q[1] = Set("killing", "return") /\ q[2] = Rpc("Kill", "ignore")
        /\ q[3] = Do("terminate", "ignore") /\ q[4] = Do("remove", "return")
        /\ q[5] = Set("killed", "return") /\ q[6] = Do("delsnaps", "return")
        /\ q[7] = Do("delrow", "return") /\ q[8] = Do("rmdir", "return")
        /\ q[9] = Do("cleanup", "ignore") /\ q[10] = Do("free", "ignore")
    BY DEF EndList
  <2>2. /\ w \in Seq(Points) /\ Len(w) = 11 /\ w[1] = Pt(p, "any", "own")
        /\ w[2] = Pt("killing", "any", "own") /\ w[3] = Pt("killing", "still", "own")
        /\ w[4] = Pt("killing", "none", "own") /\ w[5] = Pt("killing", "erased", "own")
        /\ w[6] = Pt("killed", "erased", "own") /\ w[7] = Pt("killed", "bare", "own")
        /\ w[8] = Pt("absent", "bare", "own") /\ w[9] = Pt("absent", "bare", "own")
        /\ w[10] = Pt("absent", "bare", "cleared") /\ w[11] = Pt("absent", "bare", "cleared")
    BY PointTypes
  <2> HIDE DEF q, w
  <2>3. /\ Follows(s, q[1], w[1], w[2]) /\ Follows(s, q[2], w[2], w[3])
        /\ Follows(s, q[3], w[3], w[4]) /\ Follows(s, q[4], w[4], w[5])
        /\ Follows(s, q[5], w[5], w[6]) /\ Follows(s, q[6], w[6], w[7])
        /\ Follows(s, q[7], w[7], w[8]) /\ Follows(s, q[8], w[8], w[9])
        /\ Follows(s, q[9], w[9], w[10]) /\ Follows(s, q[10], w[10], w[11])
    BY <1>10, <2>1, <2>2, LegalMoves, Fields
    DEF Follows, MayDo, MayFail, MayEnter, After, PhaseAfter, RuntimeAfter, LinkAfter, Pt, Yields,
        Transitional, States
  <2>4. \A i \in 1..Len(q) : i \in {1, 2, 3, 4, 5, 6, 7, 8, 9, 10}
    BY <2>1
  <2>5. w[Len(w)].phase # "absent" \/ w[Len(w)].net = "cleared"
    BY <2>2 DEF Pt, States
  <2>6. Trail(s, q, w)
    BY <2>1, <2>2, <2>3, <2>4, <2>5 DEF Trail
  <2>7. Blind(q) /\ Once(q)
    BY <2>1, <2>4, Fields DEF Blind, Once, Compares
  <2> QED  BY <2>2, <2>6, <2>7 DEF Walks, q
<1>11. CASE op \in {"create", "pause", "resume", "reboot"}
  BY <1>11, <1>1, <1>2, <1>7, <1>8, Written DEF StepsOf, LegalFrom, Outset
<1>12. CASE op \in {"start", "stop", "kill"}
  BY <1>12, <1>3, <1>4, <1>5, <1>6, <1>9, <1>10, Written DEF StepsOf, LegalFrom, Outset
<1> QED  BY <1>11, <1>12 DEF OpNames

\* So may the steps of the error branch, after a step that may fail.
LEMMA RecoveryWalks ==
    ASSUME NEW s \in Sandboxes, NEW a \in Points, NEW x, x.err \in Errors \ {"ignore"}, MayFail(x, a)
    PROVE  /\ Walks(s, Recovery(x.err), Fallback(a))
           /\ x.err \notin {"casFailed", "casAbandon", "killAbandon"} => Blind(Recovery(x.err))
<1>1. ASSUME NEW p \in States, p \in Transitional
      PROVE  Walks(s, FailList, Pt(p, "any", "own")) /\ Blind(FailList)
  <2> DEFINE q == FailList
             w == <<Pt(p, "any", "own"), Pt("failed", "any", "own"),
                    Pt("failed", "any", "cleared"), Pt("failed", "any", "cleared")>>
  <2>1. /\ Len(q) = 3 /\ q[1] = Set("failed", "ignore") /\ q[2] = Do("cleanup", "ignore")
        /\ q[3] = Do("free", "ignore")
    BY DEF FailList
  <2>2. /\ w \in Seq(Points) /\ Len(w) = 4 /\ w[1] = Pt(p, "any", "own")
        /\ w[2] = Pt("failed", "any", "own") /\ w[3] = Pt("failed", "any", "cleared")
        /\ w[4] = Pt("failed", "any", "cleared")
    BY PointTypes
  <2> HIDE DEF q, w
  <2>3. /\ Follows(s, q[1], w[1], w[2]) /\ Follows(s, q[2], w[2], w[3])
        /\ Follows(s, q[3], w[3], w[4])
    BY <1>1, <2>1, <2>2, LegalMoves, Fields
    DEF Follows, MayDo, MayFail, MayEnter, After, PhaseAfter, RuntimeAfter, LinkAfter, Pt, Yields,
        Transitional, States
  <2>4. \A i \in 1..Len(q) : i \in {1, 2, 3}
    BY <2>1
  <2>5. w[Len(w)].phase # "absent" \/ w[Len(w)].net = "cleared"
    BY <2>2 DEF Pt, States
  <2>6. Trail(s, q, w)
    BY <2>1, <2>2, <2>3, <2>4, <2>5 DEF Trail
  <2>7. Blind(q) /\ Once(q)
    BY <2>1, <2>4, Fields DEF Blind, Once, Compares
  <2> QED  BY <2>2, <2>6, <2>7 DEF Walks, q
<1>2. ASSUME NEW p \in States, p \in Transitional
      PROVE  Walks(s, DropList, Pt(p, "any", "own"))
  <2> DEFINE q == DropList
             w == <<Pt(p, "any", "own"), Pt("failed", "any", "own"),
                    Pt("failed", "any", "cleared"), Pt("failed", "any", "cleared")>>
  <2>1. /\ Len(q) = 3 /\ q[1] = Cas("failed", "ignore") /\ q[2] = Do("cleanup", "ignore")
        /\ q[3] = Do("free", "ignore")
    BY DEF DropList
  <2>2. /\ w \in Seq(Points) /\ Len(w) = 4 /\ w[1] = Pt(p, "any", "own")
        /\ w[2] = Pt("failed", "any", "own") /\ w[3] = Pt("failed", "any", "cleared")
        /\ w[4] = Pt("failed", "any", "cleared")
    BY PointTypes
  <2> HIDE DEF q, w
  <2>3. /\ Follows(s, q[1], w[1], w[2]) /\ Follows(s, q[2], w[2], w[3])
        /\ Follows(s, q[3], w[3], w[4])
    BY <1>2, <2>1, <2>2, LegalMoves, Fields
    DEF Follows, MayDo, MayFail, MayEnter, After, PhaseAfter, RuntimeAfter, LinkAfter, Pt, Yields,
        Transitional, States
  <2>4. \A i \in 1..Len(q) : i \in {1, 2, 3}
    BY <2>1
  <2>5. w[Len(w)].phase # "absent" \/ w[Len(w)].net = "cleared"
    BY <2>2 DEF Pt, States
  <2>6. Trail(s, q, w)
    BY <2>1, <2>2, <2>3, <2>4, <2>5 DEF Trail
  <2>7. Once(q)
    BY <2>1, <2>4, Fields DEF Once, Compares
  <2> QED  BY <2>2, <2>6, <2>7 DEF Walks, q
<1>3. ASSUME NEW p \in States, p \in Transitional
      PROVE  Walks(s, QuitList, Pt(p, "any", "own"))
  <2> DEFINE q == QuitList
             w == <<Pt(p, "any", "own"), Pt(p, "any", "own"), Pt("failed", "any", "own"),
                    Pt("failed", "any", "cleared"), Pt("failed", "any", "cleared")>>
  <2>1. /\ Len(q) = 4 /\ q[1] = Do("bgkill", "ignore") /\ q[2] = Cas("failed", "ignore")
        /\ q[3] = Do("cleanup", "ignore") /\ q[4] = Do("free", "ignore")
    BY DEF QuitList
  <2>2. /\ w \in Seq(Points) /\ Len(w) = 5 /\ w[1] = Pt(p, "any", "own")
        /\ w[2] = Pt(p, "any", "own") /\ w[3] = Pt("failed", "any", "own")
        /\ w[4] = Pt("failed", "any", "cleared") /\ w[5] = Pt("failed", "any", "cleared")
    BY PointTypes
  <2> HIDE DEF q, w
  <2>3. /\ Follows(s, q[1], w[1], w[2]) /\ Follows(s, q[2], w[2], w[3])
        /\ Follows(s, q[3], w[3], w[4]) /\ Follows(s, q[4], w[4], w[5])
    BY <1>3, <2>1, <2>2, LegalMoves, Fields
    DEF Follows, MayDo, MayFail, MayEnter, After, PhaseAfter, RuntimeAfter, LinkAfter, Pt, Yields,
        Transitional, States
  <2>4. \A i \in 1..Len(q) : i \in {1, 2, 3, 4}
    BY <2>1
  <2>5. w[Len(w)].phase # "absent" \/ w[Len(w)].net = "cleared"
    BY <2>2 DEF Pt, States
  <2>6. Trail(s, q, w)
    BY <2>1, <2>2, <2>3, <2>4, <2>5 DEF Trail
  <2>7. Once(q)
    BY <2>1, <2>4, Fields DEF Once, Compares
  <2> QED  BY <2>2, <2>6, <2>7 DEF Walks, q
<1>4. ASSUME NEW p \in States, p \in Transitional
      PROVE  Walks(s, <<Set("failed", "ignore")>>, Pt(p, "any", "own")) /\ Blind(<<Set("failed", "ignore")>>)
  <2> DEFINE q == <<Set("failed", "ignore")>>
             w == <<Pt(p, "any", "own"), Pt("failed", "any", "own")>>
  <2>1. /\ Len(q) = 1 /\ q[1] = Set("failed", "ignore")
    BY DEF Set, Cas
  <2>2. /\ w \in Seq(Points) /\ Len(w) = 2 /\ w[1] = Pt(p, "any", "own")
        /\ w[2] = Pt("failed", "any", "own")
    BY PointTypes
  <2> HIDE DEF q, w
  <2>3. /\ Follows(s, q[1], w[1], w[2])
    BY <1>4, <2>1, <2>2, LegalMoves, Fields
    DEF Follows, MayDo, MayFail, MayEnter, After, PhaseAfter, RuntimeAfter, LinkAfter, Pt, Yields,
        Transitional, States
  <2>4. \A i \in 1..Len(q) : i \in {1}
    BY <2>1
  <2>5. w[Len(w)].phase # "absent" \/ w[Len(w)].net = "cleared"
    BY <2>2 DEF Pt, States
  <2>6. Trail(s, q, w)
    BY <2>1, <2>2, <2>3, <2>4, <2>5 DEF Trail
  <2>7. Blind(q) /\ Once(q)
    BY <2>1, <2>4, Fields DEF Blind, Once, Compares
  <2> QED  BY <2>2, <2>6, <2>7 DEF Walks, q
<1>5. ASSUME NEW p \in States, p \in Transitional
      PROVE  Walks(s, <<Cas("failed", "ignore")>>, Pt(p, "any", "own"))
  <2> DEFINE q == <<Cas("failed", "ignore")>>
             w == <<Pt(p, "any", "own"), Pt("failed", "any", "own")>>
  <2>1. /\ Len(q) = 1 /\ q[1] = Cas("failed", "ignore")
    BY DEF Set, Cas
  <2>2. /\ w \in Seq(Points) /\ Len(w) = 2 /\ w[1] = Pt(p, "any", "own")
        /\ w[2] = Pt("failed", "any", "own")
    BY PointTypes
  <2> HIDE DEF q, w
  <2>3. /\ Follows(s, q[1], w[1], w[2])
    BY <1>5, <2>1, <2>2, LegalMoves, Fields
    DEF Follows, MayDo, MayFail, MayEnter, After, PhaseAfter, RuntimeAfter, LinkAfter, Pt, Yields,
        Transitional, States
  <2>4. \A i \in 1..Len(q) : i \in {1}
    BY <2>1
  <2>5. w[Len(w)].phase # "absent" \/ w[Len(w)].net = "cleared"
    BY <2>2 DEF Pt, States
  <2>6. Trail(s, q, w)
    BY <2>1, <2>2, <2>3, <2>4, <2>5 DEF Trail
  <2>7. Once(q)
    BY <2>1, <2>4, Fields DEF Once, Compares
  <2> QED  BY <2>2, <2>6, <2>7 DEF Walks, q
<1>6. a.phase \in Phases /\ a.net \in Links
  BY DEF Points
<1>7. CASE x.err = "return"
  <2> DEFINE b == Fallback(a)
             w == <<b>>
  <2>1. b \in Points /\ (b.phase # "absent" \/ b.net = "cleared")
    BY <1>6 DEF Fallback, Points, Pt, Abilities, Links
  <2> HIDE DEF b
  <2>2. w \in Seq(Points) /\ Len(w) = 1 /\ w[1] = b
    BY <2>1
  <2>3. Trail(s, <<>>, w) /\ Once(<<>>) /\ Blind(<<>>)
    BY <2>1, <2>2 DEF Trail, Once, Blind
  <2> QED  BY <1>7, <2>2, <2>3 DEF Walks, Recovery, b
<1>8. CASE x.err \in {"casFailed", "casAbandon", "killAbandon"}
  <2>1. Fallback(a) = Pt("creating", "any", "own") /\ "creating" \in Transitional /\ "creating" \in States
    BY <1>8 DEF MayFail, Fallback, Transitional, States
  <2> QED  BY <1>8, <2>1, <1>2, <1>3, <1>5, Written DEF Recovery
<1>9. CASE x.err \in {"setFailed", "setAbandon"}
  <2>1. a.phase \in Transitional /\ a.phase \in States /\ Fallback(a) = Pt(a.phase, "any", "own")
    BY <1>9 DEF MayFail, Fallback, Transitional, States
  <2> QED  BY <1>9, <2>1, <1>1, <1>4, Written DEF Recovery
<1> QED  BY <1>7, <1>8, <1>9 DEF Errors

-----------------------------------------------------------------------------
(* What is left to do after a step.                                         *)

\* A step that succeeds leaves the rest of the walk, from what is known after it.
LEMMA WalkOn ==
    ASSUME NEW s \in Sandboxes, NEW q \in Seq(Steps), q # <<>>, NEW a, Walks(s, q, a)
    PROVE  /\ q[1] \in Steps /\ a \in Points
           /\ MayDo(q[1], a) /\ MayFail(q[1], a)
           /\ Walks(s, Tail(q), After(s, q[1], a))
           /\ Blind(q) => Blind(Tail(q)) /\ ~Compares(q[1])
           /\ q[1].do \in {"set", "cas", "delrow"} => Blind(Tail(q))
<1>1. PICK w \in Seq(Points) : Trail(s, q, w) /\ w[1] = a
  BY DEF Walks
<1>2. Len(q) \in Nat /\ Len(q) > 0 /\ q[1] \in Steps /\ w[1] \in Points /\ Len(w) = Len(q) + 1
  BY <1>1 DEF Trail
<1>3. Follows(s, q[1], w[1], w[2])
  BY <1>1, <1>2 DEF Trail
<1> DEFINE r == Tail(q)
           v == Tail(w)
<1>4. /\ Len(r) = Len(q) - 1 /\ Len(v) = Len(w) - 1 /\ v \in Seq(Points)
      /\ \A i \in 1..Len(r) : r[i] = q[i + 1] /\ i + 1 \in 1..Len(q)
      /\ \A i \in 1..Len(v) : v[i] = w[i + 1]
  BY <1>2
<1> HIDE DEF r, v
<1>5. \A i \in 1..Len(r) : Follows(s, r[i], v[i], v[i + 1])
  <2> TAKE i \in 1..Len(r)
  <2>1. Follows(s, q[i + 1], w[i + 1], w[(i + 1) + 1])
    BY <1>1, <1>4 DEF Trail
  <2>2. r[i] = q[i + 1] /\ v[i] = w[i + 1] /\ v[i + 1] = w[(i + 1) + 1]
    BY <1>2, <1>4
  <2> QED  BY <2>1, <2>2
<1>6. v[Len(v)] = w[Len(w)] /\ Len(v) = Len(r) + 1 /\ v[1] = w[2]
  BY <1>2, <1>4
<1>7. Trail(s, r, v)
  BY <1>1, <1>4, <1>5, <1>6 DEF Trail
<1>8. Once(q)
  BY DEF Walks
<1>9. Once(r)
  <2> SUFFICES ASSUME NEW i \in 1..Len(r), NEW j \in 1..Len(r), i < j, r[i].do \in {"set", "cas", "delrow"}
               PROVE  /\ ~Compares(r[j])
                      /\ r[i].err = "ignore" => r[j].do \in {"cleanup", "free"} /\ r[j].err = "ignore"
    BY DEF Once
  <2> DEFINE m == i + 1
             n == j + 1
  <2>1. m \in 1..Len(q) /\ n \in 1..Len(q) /\ m < n /\ r[i] = q[m] /\ r[j] = q[n]
    BY <1>2, <1>4
  <2> HIDE DEF m, n
  <2> QED  BY <1>8, <2>1 DEF Once
<1>10. Blind(q) => Blind(r) /\ ~Compares(q[1])
  BY <1>2, <1>4 DEF Blind
<1>11. q[1].do \in {"set", "cas", "delrow"} => Blind(r)
  <2> SUFFICES ASSUME q[1].do \in {"set", "cas", "delrow"}, NEW i \in 1..Len(r)
               PROVE  ~Compares(r[i])
    BY DEF Blind
  <2> DEFINE m == i + 1
  <2>1. m \in 1..Len(q) /\ 1 \in 1..Len(q) /\ 1 < m /\ r[i] = q[m]
    BY <1>2, <1>4
  <2> HIDE DEF m
  <2> QED  BY <1>8, <2>1 DEF Once
<1> QED  BY <1>1, <1>2, <1>3, <1>4, <1>6, <1>7, <1>9, <1>10, <1>11 DEF Walks, Follows, r

\* Points are made of what is known.
LEMMA PointParts ==
    /\ \A a \in Points : /\ a = Pt(a.phase, a.rt, a.net)
                         /\ a.phase \in Phases /\ a.rt \in Abilities /\ a.net \in Links
    /\ \A p, r, n : Pt(p, r, n).phase = p /\ Pt(p, r, n).rt = r /\ Pt(p, r, n).net = n
  BY DEF Points, Pt

\* If a write whose error is ignored fails, the rest can be done as well.
LEMMA WalkPast ==
    ASSUME NEW s \in Sandboxes, NEW q \in Seq(Steps), q # <<>>, NEW a, Walks(s, q, a),
           q[1].do \in {"set", "cas"}, q[1].err = "ignore"
    PROVE  Walks(s, Tail(q), a)
<1>1. PICK w \in Seq(Points) : Trail(s, q, w) /\ w[1] = a
  BY DEF Walks
<1>2. Len(q) \in Nat /\ Len(q) > 0 /\ a \in Points /\ Len(w) = Len(q) + 1
  BY <1>1 DEF Trail
<1>3. a.phase \in Transitional /\ w[2] = After(s, q[1], a) /\ a.phase \in Phases
  <2>1. Follows(s, q[1], w[1], w[2])
    BY <1>1, <1>2 DEF Trail
  <2> QED  BY <1>1, <1>2, <2>1, PointParts DEF Follows, MayFail
<1> DEFINE r == Tail(q)
           v == [i \in 1..Len(q) |-> Pt(a.phase, w[i + 1].rt, w[i + 1].net)]
<1>4. /\ Len(r) = Len(q) - 1
      /\ \A i \in 1..Len(r) : r[i] = q[i + 1] /\ i + 1 \in 1..Len(q)
  BY <1>2
<1>5. \A i \in 1..Len(q) : w[i + 1] \in Points
  BY <1>2
<1>6. \A i \in 1..Len(q) : v[i] \in Points
  BY <1>3, <1>5 DEF Points, Pt
<1>7. Len(v) = Len(q) /\ v \in Seq(Points) /\ \A i \in 1..Len(q) : v[i] = Pt(a.phase, w[i + 1].rt, w[i + 1].net)
  BY <1>2, <1>6
<1> HIDE DEF r, v
<1>8. \A i \in 1..Len(r) : Follows(s, r[i], v[i], v[i + 1])
  <2> TAKE i \in 1..Len(r)
  <2> DEFINE m == i + 1
  <2>1. m \in 1..Len(q) /\ 1 \in 1..Len(q) /\ 1 < m /\ r[i] = q[m]
    BY <1>2, <1>4
  <2>2. Follows(s, q[m], w[m], w[m + 1])
    BY <1>1, <2>1 DEF Trail
  <2>3. v[i] = Pt(a.phase, w[m].rt, w[m].net) /\ v[i + 1] = Pt(a.phase, w[m + 1].rt, w[m + 1].net)
    BY <1>2, <1>7, <1>4
  <2>4. w[m] \in Points
    BY <1>2, <2>1
  <2> HIDE DEF m
  <2>5. q[m].do \in {"cleanup", "free"} /\ q[m].err = "ignore"
    BY <2>1 DEF Walks, Once
  <2> DEFINE b == w[m]
             d == w[m + 1]
  <2> HIDE DEF b, d
  <2>6. MayDo(r[i], Pt(a.phase, b.rt, b.net)) /\ MayFail(r[i], Pt(a.phase, b.rt, b.net))
    BY <1>3, <2>1, <2>2, <2>5 DEF Follows, MayDo, MayFail, Pt, Transitional, b
  <2>7. Pt(a.phase, d.rt, d.net) = After(s, r[i], Pt(a.phase, b.rt, b.net))
    BY <2>1, <2>2, <2>5 DEF Follows, After, PhaseAfter, RuntimeAfter, LinkAfter, Pt, b, d
  <2> QED  BY <2>3, <2>6, <2>7 DEF Follows, b, d
<1>9. Len(v) = Len(r) + 1 /\ v[Len(v)].phase = a.phase /\ a.phase # "absent"
  <2>1. \A i \in 1..Len(q) : v[i].phase = a.phase
    BY <1>7, PointParts
  <2>2. Len(v) \in 1..Len(q) /\ Len(v) = Len(r) + 1
    BY <1>2, <1>4, <1>7
  <2> QED  BY <1>3, <2>1, <2>2 DEF Transitional
<1>10. v[1] = a
  <2>1. v[1] = Pt(a.phase, w[2].rt, w[2].net)
    BY <1>2, <1>7
  <2>2. w[2].rt = a.rt /\ w[2].net = a.net
    BY <1>3 DEF After, PhaseAfter, RuntimeAfter, LinkAfter, Pt
  <2> QED  BY <1>2, <2>1, <2>2, PointParts
<1>11. Trail(s, r, v)
  BY <1>7, <1>8, <1>9 DEF Trail
<1>12. Once(r)
  BY WalkOn DEF Walks, r
<1> QED  BY <1>7, <1>10, <1>11, <1>12 DEF Walks, r

\* A setSandboxState that has read the row may still write it.
LEMMA WalkCas ==
    ASSUME NEW s \in Sandboxes, NEW q \in Seq(Steps), q # <<>>, NEW a, Walks(s, q, a),
           q[1].do = "set", NEW r, r = <<Cas(q[1].arg, q[1].err)>> \o Tail(q)
    PROVE  Walks(s, r, a)
<1>1. PICK w \in Seq(Points) : Trail(s, q, w) /\ w[1] = a
  BY DEF Walks
<1>2. Len(q) \in Nat /\ Len(q) > 0 /\ a \in Points /\ Len(w) = Len(q) + 1 /\ q[1] \in Steps
  BY <1>1 DEF Trail
<1> DEFINE x == Cas(q[1].arg, q[1].err)
<1>3. x \in Steps
  <2>1. q[1].arg \in States /\ q[1].err \in Errors
    BY <1>2 DEF Steps
  <2> QED  BY <2>1, StepTypes
<1>4. Len(r) = Len(q) /\ r[1] = x /\ \A i \in 1..Len(q) : i > 1 => r[i] = q[i]
  BY <1>2, <1>3
<1>5. Follows(s, q[1], w[1], w[2])
  BY <1>1, <1>2 DEF Trail
<1>6. Follows(s, x, w[1], w[2])
  BY <1>5, Fields DEF Follows, MayDo, MayFail, After, PhaseAfter, RuntimeAfter, LinkAfter
<1> HIDE DEF x
<1>7. \A i \in 1..Len(r) : Follows(s, r[i], w[i], w[i + 1])
  <2> TAKE i \in 1..Len(r)
  <2>1. CASE i = 1
    BY <1>4, <1>6, <2>1
  <2>2. CASE i > 1
    BY <1>1, <1>4, <2>2 DEF Trail
  <2> QED  BY <1>2, <1>4, <2>1, <2>2
<1>8. Trail(s, r, w)
  BY <1>1, <1>4, <1>7 DEF Trail
<1>9. x.do = "cas" /\ x.err = q[1].err
  BY Fields DEF x
<1>10. Once(r)
  <2> SUFFICES ASSUME NEW i \in 1..Len(r), NEW j \in 1..Len(r), i < j, r[i].do \in {"set", "cas", "delrow"}
               PROVE  /\ ~Compares(r[j])
                      /\ r[i].err = "ignore" => r[j].do \in {"cleanup", "free"} /\ r[j].err = "ignore"
    BY DEF Once
  <2>1. q[i].do \in {"set", "cas", "delrow"} /\ q[i].err = r[i].err /\ r[j] = q[j]
    BY <1>2, <1>4, <1>9
  <2> QED  BY <1>4, <2>1 DEF Once, Walks
<1> QED  BY <1>1, <1>8, <1>10 DEF Walks

-----------------------------------------------------------------------------
(* A step of one call and the rest of the system.                           *)

\* Call c goes on with the steps t, the slot n and the state x that it has seen, or
\* returns when there is nothing left.
Goes(c, t, n, x) ==
    /\ \A d \in Callers \ {c} : call'[d] = call[d]
    /\ \/ t = <<>> /\ call'[c] = Idle
       \/ /\ call'[c].op = call[c].op /\ call'[c].box = call[c].box
          /\ call'[c].cancelled = call[c].cancelled
          /\ call'[c].todo = t /\ call'[c].slot = n /\ call'[c].seen = x

\* A call that goes on as k has the steps, the slot and the state seen of k.
LEMMA BecomeGoes ==
    ASSUME CallsOK, NEW c \in Callers, NEW k \in CallRecords, Become(c, k),
           k.op = call[c].op, k.box = call[c].box, k.cancelled = call[c].cancelled
    PROVE  Goes(c, k.todo, k.slot, k.seen)
<1>1. call'[c] = (IF k.todo = <<>> /\ k.undo = "none" THEN Idle ELSE k)
      /\ \A d \in Callers \ {c} : call'[d] = call[d]
  BY DEF Become, CallsOK
<1> QED  BY <1>1 DEF Goes

\* A step that succeeds, or whose failure is ignored, leaves the rest; one that fails, the error branch.
LEMMA OutcomeGoes ==
    ASSUME CallsOK, NEW c \in Callers, call[c].todo # <<>>
    PROVE  /\ Succeed(c) => Goes(c, Tail(call[c].todo), call[c].slot, call[c].seen)
           /\ Fail(c) /\ Err(c) = "ignore" => Goes(c, Tail(call[c].todo), call[c].slot, call[c].seen)
           /\ Fail(c) /\ Err(c) # "ignore" => Goes(c, Recovery(Err(c)), call[c].slot, call[c].seen)
<1>1. call[c] \in CallRecords /\ Stepped(c) \in CallRecords /\ Err(c) \in Errors
      /\ Tail(call[c].todo) \in Seq(Steps)
  BY HeadTyped DEF CallsOK, Continuations
<1>2. ASSUME NEW t \in Seq(Steps), Become(c, [call[c] EXCEPT !.todo = t])
      PROVE  Goes(c, t, call[c].slot, call[c].seen)
  <2> DEFINE k == [call[c] EXCEPT !.todo = t]
  <2>1. k \in CallRecords /\ k.todo = t /\ k.seen = call[c].seen /\ k.cancelled = call[c].cancelled
        /\ k.op = call[c].op /\ k.box = call[c].box /\ k.slot = call[c].slot
    BY <1>1 DEF CallRecords
  <2>2. Become(c, k)
    BY <1>2
  <2> HIDE DEF k
  <2> QED  BY <2>1, <2>2, BecomeGoes
<1>3. Succeed(c) => Become(c, [call[c] EXCEPT !.todo = Tail(call[c].todo)])
  BY DEF Succeed, Stepped
<1>4. Fail(c) /\ Err(c) = "ignore" => Become(c, [call[c] EXCEPT !.todo = Tail(call[c].todo)])
  BY DEF Fail
<1>5. Fail(c) /\ Err(c) # "ignore" => Become(c, [call[c] EXCEPT !.todo = Recovery(Err(c))])
  BY DEF Fail
<1>6. Err(c) # "ignore" => Recovery(Err(c)) \in Seq(Steps)
  BY <1>1, RecoveryTypes
<1> QED  BY <1>1, <1>2, <1>3, <1>4, <1>5, <1>6

\* A step for sandbox s leaves every other one as it was; only routes to it may go,
\* and none that serves it as long as no sandbox has been deleted.
Apart(s) ==
    /\ \A t \in Sandboxes \ {s} :
          /\ rows'[t] = rows[t] /\ handle'[t] = handle[t] /\ rootfs'[t] = rootfs[t]
          /\ (t \in stray') = (t \in stray) /\ (t \in snaps') = (t \in snaps)
          /\ (t \in netns') = (t \in netns)
          /\ \A n \in Slots : route'[n] = t => route[n] = t
          /\ NoneDeleted /\ rows[t].slot > 0 /\ route[rows[t].slot] = t => route'[rows[t].slot] = t
    /\ used \subseteq used' /\ faults.kinds \subseteq faults'.kinds
    /\ HasRow(s)' /\ s \in used => HasRow(s)

\* Faults do not heal, and a deleted sandbox does not come back.
LEMMA ApartKeeps ==
    ASSUME TypeOK, NEW s, Apart(s)
    PROVE  /\ HostSound' => HostSound
           /\ NoneDeleted' => NoneDeleted
           /\ "vmexit" \in faults.kinds => "vmexit" \in faults'.kinds
           /\ "cancel" \in faults.kinds => "cancel" \in faults'.kinds
<1>1. HostSound' => HostSound
  BY DEF Apart, HostSound
<1>2. NoneDeleted' => NoneDeleted
  <2> SUFFICES ASSUME NoneDeleted', NEW t \in used PROVE HasRow(t)
    BY DEF NoneDeleted
  <2>1. t \in Sandboxes /\ rows'[t] # NoRow
    BY DEF TypeOK, Apart, NoneDeleted, HasRow
  <2> QED  BY <2>1 DEF Apart, HasRow
<1> QED  BY <1>1, <1>2 DEF Apart

\* A row is there exactly when it has a state.
LEMMA RowIs ==
    ASSUME TypeOK, NEW s \in Sandboxes
    PROVE  /\ HasRow(s) <=> rows[s].state # "absent"
           /\ HasRow(s) <=> rows[s].state \in States
           /\ ~HasRow(s) => rows[s].slot = 0
           /\ rows[s].slot \in 0..MaxSlot /\ rows[s].state \in Phases
           /\ rows[s].slot > 0 => rows[s].slot \in Slots
<1>1. rows[s] \in [state : States, slot : 0..MaxSlot] \union {NoRow}
  BY DEF TypeOK, StoreTypeOK
<1>2. CASE rows[s] = NoRow
  BY <1>2, MaxSlotAssumption DEF HasRow, NoRow, States, Phases
<1>3. CASE rows[s] # NoRow
  <2>1. rows[s].state \in States /\ rows[s].slot \in 0..MaxSlot
    BY <1>1, <1>3
  <2>2. "absent" \notin States
    BY DEF States
  <2> QED  BY <1>3, <2>1, <2>2, MaxSlotAssumption DEF HasRow, Phases, Slots
<1> QED  BY <1>2, <1>3

\* What is known of another sandbox stays known.
LEMMA OtherKnows ==
    ASSUME TypeOK, SlotExclusive, NEW s, Apart(s), NEW t \in Sandboxes, t # s, NEW n, NEW a,
           t \in used, Knowing(t, n, a)
    PROVE  Knowing(t, n, a)'
<1>1. /\ HostSound' => HostSound
      /\ NoneDeleted' => NoneDeleted
      /\ "vmexit" \in faults.kinds => "vmexit" \in faults'.kinds
  BY ApartKeeps
<1>2. /\ rows'[t] = rows[t] /\ handle'[t] = handle[t] /\ rootfs'[t] = rootfs[t]
      /\ (t \in snaps') = (t \in snaps)
      /\ (t \in netns') = (t \in netns)
      /\ \A m \in Slots : route'[m] = t => route[m] = t
      /\ NoneDeleted /\ rows[t].slot > 0 /\ route[rows[t].slot] = t => route'[rows[t].slot] = t
  BY DEF Apart
<1>3. RuntimeIs(t, a.rt)'
  BY <1>1, <1>2 DEF Knowing, RuntimeIs, Live, Gone
<1>4. Wired(t)' => Wired(t)
  BY <1>2 DEF Wired
<1>5. NetworkIs(t, n, a.net)'
  <2>1. /\ a.net # "cleared" => (HasRow(t)' => n = rows'[t].slot) /\ (HostSound' /\ Wired(t)' => n > 0)
        /\ a.net \in {"slotted", "routed"} => n > 0
        /\ a.net = "cleared" => (HostSound' => ~Wired(t)')
    BY <1>1, <1>2, <1>4 DEF Knowing, NetworkIs, HasRow
  <2>2. ASSUME a.net = "routed", NoneDeleted'
        PROVE  route'[n] = t
    <3>1. NoneDeleted /\ HasRow(t) /\ route[n] = t /\ n > 0 /\ n = rows[t].slot
      BY <1>1, <2>2 DEF NoneDeleted, Knowing, NetworkIs
    <3> QED  BY <1>2, <3>1
  <2> QED  BY <2>1, <2>2 DEF NetworkIs
<1> QED  BY <1>2, <1>3, <1>5 DEF Knowing

\* Another sandbox stays in order.
LEMMA OtherStands ==
    ASSUME TypeOK, NEW s, Apart(s), NEW t \in Sandboxes, t # s, Standing(t)
    PROVE  Standing(t)'
<1>1. /\ HostSound' => HostSound
      /\ NoneDeleted' => NoneDeleted
      /\ "vmexit" \in faults.kinds => "vmexit" \in faults'.kinds
  BY ApartKeeps
<1>2. /\ rows'[t] = rows[t] /\ handle'[t] = handle[t] /\ rootfs'[t] = rootfs[t]
      /\ (t \in stray') = (t \in stray) /\ (t \in snaps') = (t \in snaps)
      /\ used \subseteq used'
      /\ NoneDeleted /\ rows[t].slot > 0 /\ route[rows[t].slot] = t => route'[rows[t].slot] = t
  BY DEF Apart
<1> QED  BY <1>1, <1>2 DEF Standing, Live, Gone, HasRow

\* A step for sandbox s by the only call that works on it keeps the lifecycle, if it
\* leaves the call with steps it may take and the sandbox in order.
LEMMA ConductKept ==
    ASSUME TypeOK, SlotExclusive, Conduct, NEW c \in Callers, Active(c), NEW s, s = Box(c), Apart(s),
           NEW t, NEW n, NEW x, Goes(c, t, n, x),
           NEW b \in Points, Walks(s, t, b), Knowing(s, n, b)', Blind(t) \/ x = rows'[s].state,
           Standing(s)'
    PROVE  Conduct'
<1>1. /\ s \in used /\ s \in Sandboxes /\ s # Nobody
      /\ call[c].cancelled => "cancel" \in faults.kinds
  BY ServiceAssumption DEF Conduct, Working, Idle, Active, Proper, TypeOK, Box
<1>2. \A d \in Callers \ {c} : call'[d] = call[d] /\ Box(d) # s /\ Box(d)' = Box(d)
  BY <1>1 DEF Goes, Conduct, Serial, Box
<1>3. /\ HostSound' => HostSound
      /\ "cancel" \in faults.kinds => "cancel" \in faults'.kinds
      /\ used \subseteq used'
  BY ApartKeeps DEF Apart
<1>4. call'[c] = Idle \/ (call'[c].op # "none" /\ call'[c].box = s)
  BY DEF Goes, Box, Active
<1>5. Serial'
  <2> SUFFICES ASSUME NEW d \in Callers, NEW e \in Callers, d # e, Box(d)' = Box(e)'
               PROVE  Box(d)' = Nobody
    BY DEF Serial
  <2>1. Box(c)' \in {Nobody, s}
    BY <1>4 DEF Box, Idle
  <2>2. CASE d # c /\ e # c
    BY <1>2, <2>2 DEF Conduct, Serial
  <2>3. CASE d = c
    BY <1>2, <2>1, <2>3
  <2>4. CASE e = c
    BY <1>2, <2>1, <2>4
  <2> QED  BY <2>2, <2>3, <2>4
<1>6. ASSUME NEW d \in Callers
      PROVE  call'[d] = Idle \/ (call'[d].op # "none" /\ Proper(call[d])')
  <2>1. CASE d = c
    <3> SUFFICES ASSUME call'[c] # Idle PROVE call'[c].op # "none" /\ Proper(call[c])'
      BY <2>1
    <3>1. /\ call'[c].op # "none" /\ call'[c].box = s /\ call'[c].cancelled = call[c].cancelled
          /\ call'[c].todo = t /\ call'[c].slot = n /\ call'[c].seen = x
      BY <1>4 DEF Goes
    <3>2. /\ call'[c].box \in used'
          /\ call'[c].cancelled => "cancel" \in faults'.kinds
          /\ Blind(call'[c].todo) \/ call'[c].seen = rows'[call'[c].box].state
      BY <1>1, <1>3, <3>1
    <3>3. Walks(call'[c].box, call'[c].todo, b) /\ Knowing(call[c].box, call[c].slot, b)'
      BY <3>1
    <3> QED  BY <3>1, <3>2, <3>3 DEF Proper
  <2>2. CASE d # c /\ call[d] = Idle
    BY <1>2, <2>2
  <2>3. CASE d # c /\ call[d] # Idle
    <3> DEFINE k == call[d]
    <3>1. k.op # "none" /\ Proper(k) /\ call'[d] = k
      BY <1>2, <2>3 DEF Conduct, Working, Active
    <3>2. k.box \in Sandboxes /\ k.box # s /\ k.box \in used
      BY <1>2, <2>3, <3>1 DEF Proper, TypeOK, Box
    <3>3. PICK a \in Points : Walks(k.box, k.todo, a) /\ Knowing(k.box, k.slot, a)
      BY <3>1 DEF Proper
    <3>4. Knowing(k.box, k.slot, a)'
      <4> PICK u, m : u = k.box /\ m = k.slot
        OBVIOUS
      <4>1. Knowing(u, m, a)'
        BY <3>2, <3>3, OtherKnows
      <4> QED  BY <3>1, <4>1
    <3>5. rows'[k.box] = rows[k.box]
      BY <3>2 DEF Apart
    <3> QED  BY <1>3, <3>1, <3>2, <3>3, <3>4, <3>5 DEF Proper
  <2> QED  BY <2>1, <2>2, <2>3
<1>7. Working'
  BY <1>6 DEF Working, Active
<1>8. Reserved(s)'
  <2> SUFFICES ASSUME HostSound', Wired(s)', \A d \in Callers : Box(d)' # s
               PROVE  rows'[s].slot > 0
    BY DEF Reserved
  <2>1. t = <<>>
    BY <1>4 DEF Goes, Box
  <2>2. b.phase # "absent" \/ b.net = "cleared"
    BY <2>1 DEF Walks, Trail
  <2>3. b.net # "cleared"
    BY DEF Knowing, NetworkIs
  <2>4. HasRow(s)'
    <3>1. rows'[s].state = b.phase
      BY DEF Knowing
    <3> QED  BY <2>2, <2>3, <3>1 DEF HasRow, NoRow
  <2> QED  BY <2>3, <2>4 DEF Knowing, NetworkIs
<1>9. ASSUME NEW u \in Sandboxes
      PROVE  Standing(u)' /\ Reserved(u)'
  <2>1. CASE u = s
    BY <1>8, <2>1
  <2>2. CASE u # s
    <3>1. Standing(u)'
      BY <2>2, OtherStands DEF Conduct
    <3>2. rows'[u] = rows[u] /\ (Wired(u)' => Wired(u))
      BY <2>2 DEF Apart, Wired
    <3>3. ASSUME HostSound', Wired(u)'
          PROVE  rows'[u].slot > 0 \/ \E d \in Callers : Box(d)' = u
      <4>1. rows[u].slot > 0 \/ \E d \in Callers : Box(d) = u
        BY <1>3, <3>2, <3>3 DEF Conduct, Reserved
      <4>2. \A d \in Callers : Box(d) = u => d # c
        BY <2>2
      <4> QED  BY <1>2, <3>2, <4>1, <4>2
    <3> QED  BY <3>1, <3>3 DEF Reserved
  <2> QED  BY <2>1, <2>2
<1> QED  BY <1>5, <1>7, <1>9 DEF Conduct

-----------------------------------------------------------------------------
(* A step of one call, for all kinds of steps.                              *)

\* Call c is about to take the first of the steps q for sandbox s, knows a and has slot m.
Facing(c, s, q, a, m) ==
    /\ s \in Sandboxes /\ s = Box(c) /\ Active(c) /\ s \in used
    /\ q \in Seq(Steps) /\ q # <<>> /\ q = call[c].todo
    /\ a \in Points /\ Walks(s, q, a) /\ Knowing(s, m, a) /\ m = call[c].slot
    /\ Blind(q) \/ call[c].seen = rows[s].state
    /\ call[c].cancelled => "cancel" \in faults.kinds
    /\ Standing(s)

\* The state of the service is in order.
Order == CallsOK /\ TypeOK /\ SlotExclusive /\ Conduct

\* A call with a step to take is one of a handler that keeps to the lifecycle.
LEMMA Faces ==
    ASSUME Order, NEW c \in Callers, call[c].todo # <<>>
    PROVE  \E s, q, a, m : Facing(c, s, q, a, m)
<1> DEFINE k == call[c]
<1>1. k # Idle
  BY DEF Idle
<1>2. Active(c) /\ Proper(k)
  BY <1>1 DEF Order, Conduct, Working
<1>3. PICK a \in Points : Walks(k.box, k.todo, a) /\ Knowing(k.box, k.slot, a)
  BY <1>2 DEF Proper
<1>4. k.todo \in Seq(Steps)
  BY DEF Order, CallsOK, CallRecords
<1>5. k.box \in Sandboxes /\ k.box \in used
  BY <1>2 DEF Proper, Order, TypeOK
<1>6. Facing(c, k.box, k.todo, a, k.slot)
  BY <1>2, <1>3, <1>4, <1>5 DEF Facing, Proper, Order, Conduct, Box
<1> QED  BY <1>6

\* What is known after a step is a point.
LEMMA AfterTyped ==
    ASSUME NEW s, NEW x, NEW a \in Points, MayDo(x, a), x.do = "rpc" => x.arg \in Methods
    PROVE  After(s, x, a) \in Points
<1>1. PhaseAfter(x, a) \in Phases
  BY DEF PhaseAfter, MayDo, MayEnter, Phases, Points
<1>2. RuntimeAfter(s, x, a) \in Abilities
  BY PointParts DEF RuntimeAfter, Yields, Abilities
<1>3. LinkAfter(x, a) \in Links
  BY PointParts DEF LinkAfter, Links
<1> QED  BY <1>1, <1>2, <1>3 DEF After, Points, Pt

\* A step that succeeds, and leaves behind what is known after it.
LEMMA Advance ==
    ASSUME Order, NEW c \in Callers, NEW s, NEW q, NEW a, NEW m, Facing(c, s, q, a, m), Apart(s),
           NEW n, Goes(c, Tail(q), n, call[c].seen),
           rows'[s].state = rows[s].state \/ q[1].do \in {"set", "cas", "delrow"},
           Knowing(s, n, After(s, q[1], a))', Standing(s)'
    PROVE  Conduct'
<1> DEFINE b == After(s, q[1], a)
           t == Tail(q)
<1>1. Walks(s, t, b) /\ (Blind(q) => Blind(t)) /\ (q[1].do \in {"set", "cas", "delrow"} => Blind(t))
  BY WalkOn DEF Facing
<1>2. b \in Points
  BY DEF Knowing
<1>3. Blind(t) \/ call[c].seen = rows'[s].state
  BY <1>1 DEF Facing
<1> HIDE DEF b, t
<1>4. Goes(c, t, n, call[c].seen) /\ Knowing(s, n, b)'
  BY DEF b, t
<1> QED  BY <1>1, <1>2, <1>3, <1>4, ConductKept DEF Facing, Order

\* A step that fails.
LEMMA Retreat ==
    ASSUME Order, NEW c \in Callers, NEW s, NEW q, NEW a, NEW m, Facing(c, s, q, a, m), Apart(s), Fail(c),
           rows'[s].state = rows[s].state, Standing(s)',
           q[1].err # "ignore" => Knowing(s, m, Fallback(a))',
           q[1].err = "ignore" => IF q[1].do \in {"set", "cas"}
                                  THEN Knowing(s, m, a)'
                                  ELSE Knowing(s, m, After(s, q[1], a))'
    PROVE  Conduct'
<1>1. /\ q \in Seq(Steps) /\ q # <<>> /\ q = call[c].todo /\ Err(c) = q[1].err /\ CallsOK
      /\ s \in Sandboxes /\ Walks(s, q, a) /\ s = Box(c) /\ Active(c) /\ m = call[c].slot /\ a \in Points
      /\ Blind(q) \/ call[c].seen = rows[s].state
      /\ TypeOK /\ SlotExclusive /\ Conduct
  BY DEF Facing, Err, Order
<1> DEFINE x == call[c].seen
<1>2. CASE q[1].err = "ignore" /\ q[1].do \notin {"set", "cas"}
  <2>1. Goes(c, Tail(q), m, x)
    BY <1>1, <1>2, OutcomeGoes
  <2>2. Knowing(s, m, After(s, q[1], a))'
    BY <1>2
  <2> QED  BY <2>1, <2>2, Advance
<1>3. CASE q[1].err = "ignore" /\ q[1].do \in {"set", "cas"}
  <2> DEFINE r == Tail(q)
  <2>1. Goes(c, r, m, x)
    BY <1>1, <1>3, OutcomeGoes
  <2>2. Walks(s, r, a)
    BY <1>1, <1>3, WalkPast
  <2>3. Blind(r)
    BY <1>1, <1>3, WalkOn
  <2>4. Knowing(s, m, a)'
    BY <1>3
  <2> HIDE DEF r, x
  <2> QED  BY <1>1, <2>1, <2>2, <2>3, <2>4, ConductKept
<1>4. CASE q[1].err # "ignore"
  <2> DEFINE r == Recovery(q[1].err)
             b == Fallback(a)
  <2>1. Goes(c, r, m, x)
    BY <1>1, <1>4, OutcomeGoes
  <2>2. q[1] \in Steps /\ MayFail(q[1], a) /\ (Blind(q) => ~Compares(q[1]))
    BY <1>1, WalkOn
  <2>3. q[1].err \in Errors \ {"ignore"}
    BY <1>4, <2>2 DEF Steps
  <2>4. Walks(s, r, b) /\ (q[1].err \notin {"casFailed", "casAbandon", "killAbandon"} => Blind(r))
    BY <1>1, <2>2, <2>3, RecoveryWalks
  <2>5. Blind(r) \/ x = rows'[s].state
    BY <1>1, <2>2, <2>4 DEF Compares
  <2>6. Knowing(s, m, b)'
    BY <1>4
  <2>7. b \in Points
    BY <2>6 DEF Knowing
  <2> HIDE DEF r, b, x
  <2> QED  BY <1>1, <2>1, <2>4, <2>5, <2>6, <2>7, ConductKept
<1> QED  BY <1>2, <1>3, <1>4

\* What is known of the runtime of s, of its network, and the order that s is in, after a
\* step that does not concern it.
LEMMA RuntimeStays ==
    ASSUME TypeOK, NEW s, Apart(s), handle'[s] = handle[s], rootfs'[s] = rootfs[s], NEW r,
           r = "bare" => (s \in snaps' => s \in snaps), RuntimeIs(s, r)
    PROVE  RuntimeIs(s, r)'
  BY ApartKeeps DEF RuntimeIs, Live, Gone

\* What is known of the network of s stays if its slot and its routes do.
LEMMA NetworkStays ==
    ASSUME TypeOK, NEW s, Apart(s), NEW n, NEW l, NetworkIs(s, n, l),
           s \in used, HasRow(s)' => rows'[s].slot = rows[s].slot, Wired(s)' => Wired(s),
           NoneDeleted /\ route[n] = s => route'[n] = s
    PROVE  NetworkIs(s, n, l)'
  BY ApartKeeps DEF NetworkIs, Apart

\* A sandbox whose row, runtime and rootfs stay keeps its order if its routes do.
LEMMA StandsStill ==
    ASSUME TypeOK, NEW s, Apart(s), Standing(s), rows'[s] = rows[s], handle'[s] = handle[s],
           rootfs'[s] = rootfs[s], s \in stray' => s \in stray, s \in snaps' => s \in snaps,
           \A n : NoneDeleted /\ route[n] = s => route'[n] = s
    PROVE  Standing(s)'
  BY ApartKeeps DEF Standing, Live, Gone, HasRow, Apart

\* A sandbox in the middle of a transition only has to be reachable.
LEMMA StandsMoving ==
    ASSUME TypeOK, NEW s, s \in used, Apart(s), Standing(s), rows'[s].state \in Transitional \union {"failed"},
           HostSound' => s \notin stray' /\ (s \notin Containers => rootfs'[s] = "none")
    PROVE  Standing(s)'
  BY DEF Standing, HasRow, Apart, Transitional

\* An error branch starts with what is known in spite of the failure.
LEMMA FallbackKnown ==
    ASSUME NEW s \in Sandboxes, NEW n, NEW a \in Points, Knowing(s, n, a), a.phase # "absent"
    PROVE  Knowing(s, n, Fallback(a))
<1>1. Fallback(a).phase = a.phase /\ Fallback(a).rt = "any"
      /\ Fallback(a).net = (IF a.net = "cleared" THEN "cleared" ELSE "own")
  BY PointParts DEF Fallback
<1>2. Fallback(a) \in Points
  BY PointParts DEF Fallback, Points, Pt, Abilities, Links
<1>3. RuntimeIs(s, "any")
  BY DEF RuntimeIs
<1>4. NetworkIs(s, n, Fallback(a).net)
  BY <1>1 DEF Knowing, NetworkIs
<1> QED  BY <1>1, <1>2, <1>3, <1>4 DEF Knowing

\* A step that changes nothing leaves everything known.
LEMMA NothingMoves ==
    ASSUME TypeOK, NEW s \in used, UNCHANGED <<storeVars, hostVars, used>>, faults.kinds \subseteq faults'.kinds
    PROVE  /\ Apart(s)
           /\ Standing(s) => Standing(s)'
           /\ \A n, a : Knowing(s, n, a) => Knowing(s, n, a)'
<1>1. Apart(s)
  BY DEF Apart, storeVars, hostVars, HasRow
<1>2. Standing(s) => Standing(s)'
  BY <1>1, StandsStill DEF storeVars, hostVars
<1>3. ASSUME NEW n, NEW a, Knowing(s, n, a)
      PROVE  Knowing(s, n, a)'
  <2>1. RuntimeIs(s, a.rt)'
    BY <1>1, <1>3, RuntimeStays DEF Knowing, storeVars, hostVars
  <2>2. NetworkIs(s, n, a.net)'
    BY <1>1, <1>3, NetworkStays DEF Knowing, storeVars, hostVars, Wired
  <2> QED  BY <1>3, <2>1, <2>2 DEF Knowing, storeVars
<1> QED  BY <1>1, <1>2, <1>3

\* A step that fails before it has changed anything keeps to the lifecycle.
LEMMA FailsInPlace ==
    ASSUME Order, NEW c \in Callers, NEW s, NEW q, NEW a, NEW m, Facing(c, s, q, a, m), Fail(c),
           UNCHANGED <<storeVars, hostVars, used>>, faults.kinds \subseteq faults'.kinds,
           q[1].do \notin {"rmdir", "rpc", "cleanup", "terminate", "bgkill"}
    PROVE  Conduct'
<1>1. s \in Sandboxes /\ s \in used /\ TypeOK /\ Standing(s) /\ Knowing(s, m, a) /\ a \in Points
  BY DEF Facing, Order
<1>2. Apart(s) /\ Standing(s)' /\ \A n, b : Knowing(s, n, b) => Knowing(s, n, b)'
  BY <1>1, NothingMoves
<1>3. q[1] \in Steps /\ MayDo(q[1], a) /\ MayFail(q[1], a)
  BY WalkOn DEF Facing
<1>4. q[1].err # "ignore" => a.phase # "absent"
  <2>1. q[1].err \in Errors
    BY <1>3 DEF Steps
  <2> QED  BY <1>3, <2>1 DEF MayFail, Errors, Transitional
<1>5. q[1].err # "ignore" => Knowing(s, m, Fallback(a))'
  <2>1. q[1].err # "ignore" => Knowing(s, m, Fallback(a))
    BY <1>1, <1>4, FallbackKnown
  <2> QED  BY <1>2, <2>1
<1>6. q[1].err = "ignore" /\ q[1].do \notin {"set", "cas"} => After(s, q[1], a) = a
  <2> SUFFICES ASSUME q[1].err = "ignore", q[1].do \notin {"set", "cas"} PROVE After(s, q[1], a) = a
    OBVIOUS
  <2>1. q[1].do = "free"
    BY <1>3 DEF MayFail
  <2> QED  BY <1>1, <2>1, PointParts DEF After, PhaseAfter, RuntimeAfter, LinkAfter
<1>7. Knowing(s, m, a)'
  BY <1>1, <1>2
<1>8. q[1].err = "ignore" /\ q[1].do \notin {"set", "cas"} => Knowing(s, m, After(s, q[1], a))'
  BY <1>6, <1>7
<1>9. rows'[s].state = rows[s].state
  BY DEF storeVars
<1> QED  BY <1>2, <1>5, <1>7, <1>8, <1>9, Retreat

\* What a call that is about to take a step is known to have in front of it.
LEMMA Faced ==
    ASSUME Order, NEW c \in Callers, NEW s, NEW q, NEW a, NEW m, Facing(c, s, q, a, m)
    PROVE  /\ TypeOK /\ SlotExclusive /\ CallsOK /\ call[c] \in CallRecords
           /\ s \in Sandboxes /\ s \in used /\ s = Box(c)
           /\ q \in Seq(Steps) /\ q # <<>> /\ q = call[c].todo /\ m = call[c].slot
           /\ q[1] \in Steps /\ q[1].err \in Errors /\ Err(c) = q[1].err /\ Arg(c) = q[1].arg
           /\ \A k : At(c, k) <=> q[1].do = k
           /\ a \in Points /\ a.phase \in Phases /\ a.rt \in Abilities /\ a.net \in Links
           /\ MayDo(q[1], a) /\ MayFail(q[1], a)
           /\ rows[s].state = a.phase /\ RuntimeIs(s, a.rt) /\ NetworkIs(s, m, a.net) /\ Knowing(s, m, a)
           /\ Standing(s)
           /\ call[c].cancelled => "cancel" \in faults.kinds
<1>1. q \in Seq(Steps) /\ q # <<>> /\ q = call[c].todo /\ s \in Sandboxes /\ Walks(s, q, a)
  BY DEF Facing
<1>2. Err(c) = q[1].err /\ Arg(c) = q[1].arg /\ \A k : At(c, k) <=> q[1].do = k
  BY <1>1 DEF Err, Arg, At
<1>3. q[1] \in Steps /\ MayDo(q[1], a) /\ MayFail(q[1], a)
  BY <1>1, WalkOn
<1>4. q[1].err \in Errors
  BY <1>3 DEF Steps
<1>5. a \in Points /\ a.phase \in Phases /\ a.rt \in Abilities /\ a.net \in Links
  BY PointParts DEF Facing
<1> QED  BY <1>1, <1>2, <1>3, <1>4, <1>5 DEF Facing, Order, Knowing, CallsOK

\* A fault of the kinds that take the host with them.
LEMMA Harm ==
    ASSUME TypeOK, NEW c \in Callers, call[c].cancelled => "cancel" \in faults.kinds
    PROVE  /\ \A k : Broken(c, k) => faults.kinds \subseteq faults'.kinds
           /\ \A k : Fault(k) => faults.kinds \subseteq faults'.kinds /\ k \in faults'.kinds
           /\ \A k \in {"host", "rpc", "cancel", "crash"} : Fault(k) => ~HostSound'
           /\ \A k \in {"host", "rpc"} : Broken(c, k) => ~HostSound'
           /\ call[c].cancelled /\ faults' = faults => ~HostSound'
           /\ Sound(c) => faults' = faults
  BY DEF Broken, Fault, Sound, HostSound

\* What a successful step knows, by kind.
LEMMA AfterIs ==
    ASSUME NEW s, NEW x, NEW a \in Points
    PROVE  /\ x.do \in {"agent", "reread", "files", "mount", "snapshot", "unmount", "free", "rmdir"} =>
                 After(s, x, a) = a
           /\ x.do \in {"set", "cas"} => After(s, x, a) = Pt(x.arg, a.rt, a.net)
           /\ x.do = "assign" => After(s, x, a) = Pt(a.phase, a.rt, "slotted")
           /\ x.do = "net" => After(s, x, a) = Pt(a.phase, a.rt, "routed")
           /\ x.do = "cleanup" => After(s, x, a) = Pt(a.phase, a.rt, "cleared")
           /\ x.do = "rpc" => After(s, x, a) = Pt(a.phase, Yields(x.arg), a.net)
           /\ x.do \in {"shim", "bgkill"} => After(s, x, a) = Pt(a.phase, "any", a.net)
           /\ x.do = "terminate" =>
                 After(s, x, a) = Pt(a.phase, IF s \in Containers THEN "none" ELSE "erased", a.net)
           /\ x.do = "remove" => After(s, x, a) = Pt(a.phase, "erased", a.net)
           /\ x.do = "delsnaps" => After(s, x, a) = Pt(a.phase, "bare", a.net)
           /\ x.do = "delrow" => After(s, x, a) = Pt("absent", a.rt, a.net)
<1>1. a = Pt(a.phase, a.rt, a.net)
  BY PointParts
<1> QED  BY <1>1 DEF After, PhaseAfter, RuntimeAfter, LinkAfter

\* A step that succeeds and changes nothing.
LEMMA PassesInPlace ==
    ASSUME Order, NEW c \in Callers, NEW s, NEW q, NEW a, NEW m, Facing(c, s, q, a, m), Succeed(c),
           UNCHANGED <<storeVars, hostVars, used>>, faults.kinds \subseteq faults'.kinds,
           After(s, q[1], a) = a
    PROVE  Conduct'
<1>1. TypeOK /\ s \in used /\ Standing(s) /\ Knowing(s, m, a) /\ q # <<>> /\ q = call[c].todo /\ CallsOK
      /\ m = call[c].slot
  BY Faced
<1>2. Apart(s) /\ Standing(s)' /\ \A n, b : Knowing(s, n, b) => Knowing(s, n, b)'
  BY <1>1, NothingMoves
<1>3. Goes(c, Tail(q), m, call[c].seen)
  BY <1>1, OutcomeGoes
<1>4. Knowing(s, m, After(s, q[1], a))'
  BY <1>1, <1>2
<1>5. rows'[s].state = rows[s].state
  BY DEF storeVars
<1> QED  BY <1>2, <1>3, <1>4, <1>5, Advance

\* StopSandbox reads the row again: it is there, as nobody deletes it meanwhile.
LEMMA RereadConducts ==
    ASSUME Order, NEW c \in Callers, Reread(c)
    PROVE  Conduct'
<1>1. PICK s, q, a, m : Facing(c, s, q, a, m)
  BY Faces DEF Reread, At
<1>2. q[1].do = "reread" /\ faults.kinds \subseteq faults'.kinds /\ a \in Points
      /\ UNCHANGED <<storeVars, hostVars, used>> /\ (Succeed(c) \/ Fail(c))
  BY <1>1, Faced, Harm DEF Reread
<1> QED  BY <1>1, <1>2, AfterIs, PassesInPlace, FailsInPlace

\* ensureSandboxAgentCurrent moves nothing, whether the agent answers or not.
LEMMA RefreshConducts ==
    ASSUME Order, NEW c \in Callers, RefreshAgent(c)
    PROVE  Conduct'
<1>1. PICK s, q, a, m : Facing(c, s, q, a, m)
  BY Faces DEF RefreshAgent, At
<1>2. q[1].do = "agent" /\ faults.kinds \subseteq faults'.kinds /\ a \in Points
      /\ UNCHANGED <<storeVars, hostVars, used>> /\ (Succeed(c) \/ Fail(c))
  BY <1>1, Faced, Harm DEF RefreshAgent
<1> QED  BY <1>1, <1>2, AfterIs, PassesInPlace, FailsInPlace

-----------------------------------------------------------------------------
(* The store's steps.                                                       *)

\* A step that ends with the call's next step, whatever is to be rolled back.
LEMMA SteppedGoes ==
    ASSUME Order, NEW c \in Callers, NEW s, NEW q, NEW a, NEW m, Facing(c, s, q, a, m),
           NEW u \in {"none", "remove", "unmount"}, NEW n \in 0..MaxSlot
    PROVE  /\ Become(c, [Stepped(c) EXCEPT !.undo = u]) => Goes(c, Tail(q), m, call[c].seen)
           /\ Become(c, [Stepped(c) EXCEPT !.slot = n]) => Goes(c, Tail(q), n, call[c].seen)
<1>1. CallsOK /\ call[c] \in CallRecords /\ q \in Seq(Steps) /\ q # <<>> /\ q = call[c].todo /\ m = call[c].slot
  BY Faced
<1>2. Tail(q) \in Seq(Steps)
  BY <1>1
<1> DEFINE t == Tail(q)
<1> HIDE DEF t
<1> DEFINE k == [[call[c] EXCEPT !.todo = t] EXCEPT !.undo = u]
           l == [[call[c] EXCEPT !.todo = t] EXCEPT !.slot = n]
<1>3. /\ k \in CallRecords /\ k.todo = t /\ k.slot = m /\ k.seen = call[c].seen
      /\ k.op = call[c].op /\ k.box = call[c].box /\ k.cancelled = call[c].cancelled
  BY <1>1, <1>2 DEF CallRecords, t
<1>4. /\ l \in CallRecords /\ l.todo = t /\ l.slot = n /\ l.seen = call[c].seen
      /\ l.op = call[c].op /\ l.box = call[c].box /\ l.cancelled = call[c].cancelled
  BY <1>1, <1>2 DEF CallRecords, t
<1>5. /\ Become(c, [Stepped(c) EXCEPT !.undo = u]) => Become(c, k)
      /\ Become(c, [Stepped(c) EXCEPT !.slot = n]) => Become(c, l)
  BY <1>1 DEF Stepped, t
<1> HIDE DEF k, l
<1>6. (Become(c, k) => Goes(c, t, m, call[c].seen)) /\ (Become(c, l) => Goes(c, t, n, call[c].seen))
  BY <1>1, <1>3, <1>4, BecomeGoes
<1> QED  BY <1>5, <1>6 DEF t

\* setSandboxState reads the row: what it has seen is what the row says until it writes.
LEMMA ReadConducts ==
    ASSUME Order, NEW c \in Callers, ReadState(c)
    PROVE  Conduct'
<1>1. PICK s, q, a, m : Facing(c, s, q, a, m)
  BY Faces DEF ReadState, At
<1>2. /\ q[1].do = "set" /\ a \in Points /\ UNCHANGED <<storeVars, hostVars, used>>
      /\ s = Box(c) /\ s \in used /\ q[1].arg = Arg(c) /\ q[1].err = Err(c) /\ rows[s].state = a.phase
      /\ q \in Seq(Steps) /\ q # <<>> /\ q = call[c].todo /\ call[c] \in CallRecords /\ TypeOK
      /\ s \in Sandboxes
      /\ Knowing(s, m, a) /\ Standing(s) /\ m = call[c].slot /\ Walks(s, q, a)
  BY <1>1, Faced DEF ReadState, Facing
<1>3. CASE /\ Sound(c) /\ rows[s] # NoRow
           /\ Become(c, [call[c] EXCEPT !.seen = rows[s].state,
                                        !.todo = <<Cas(Arg(c), Err(c))>> \o Tail(@)])
  <2> DEFINE r == <<Cas(q[1].arg, q[1].err)>> \o Tail(q)
             p == rows[s].state
             k == [call[c] EXCEPT !.seen = p, !.todo = r]
  <2>1. r \in Seq(Steps) /\ p \in States /\ Walks(s, r, a)
    <3>1. Cas(q[1].arg, q[1].err) \in Steps
      <4>1. q[1] \in Steps
        BY <1>2
      <4>2. q[1].arg \in States /\ q[1].err \in Errors
        BY <1>2, <4>1 DEF Steps
      <4> QED  BY <4>2, StepTypes
    <3>2. r \in Seq(Steps)
      BY <1>2, <3>1
    <3>3. p \in States
      BY <1>2, <1>3, RowIs DEF HasRow
    <3> QED  BY <1>2, <3>2, <3>3, WalkCas
  <2> HIDE DEF r, p
  <2>2. /\ k \in CallRecords /\ k.todo = r /\ k.slot = m /\ k.seen = p
        /\ k.op = call[c].op /\ k.box = call[c].box /\ k.cancelled = call[c].cancelled
    BY <1>2, <2>1 DEF CallRecords
  <2>3. Become(c, k)
    BY <1>2, <1>3 DEF r, p
  <2> HIDE DEF k
  <2>4. Goes(c, r, m, p)
    BY <2>2, <2>3, BecomeGoes DEF Order
  <2>5. Apart(s) /\ Standing(s)' /\ Knowing(s, m, a)'
    BY <1>1, <1>2, <1>3, Faced, Harm, NothingMoves
  <2>6. p = rows'[s].state
    BY <1>2 DEF p, storeVars
  <2> QED  BY <1>1, <1>2, <2>1, <2>4, <2>5, <2>6, ConductKept DEF Facing, Order
<1>4. CASE /\ Sound(c) /\ rows[s].state = Arg(c)
           /\ Become(c, [Stepped(c) EXCEPT !.undo = IF Arg(c) = "running" THEN "none" ELSE @])
  <2>1. Goes(c, Tail(q), m, call[c].seen)
    <3>1. call[c].undo \in {"none", "remove", "unmount"} /\ Stepped(c).undo = call[c].undo
          /\ m \in 0..MaxSlot
      BY <1>2 DEF CallRecords, Stepped
    <3> QED  BY <1>1, <1>4, <3>1, SteppedGoes
  <2>2. After(s, q[1], a) = a
    <3>1. After(s, q[1], a) = Pt(q[1].arg, a.rt, a.net)
      BY <1>2, AfterIs
    <3>2. a = Pt(a.phase, a.rt, a.net) /\ q[1].arg = a.phase
      BY <1>2, <1>4, PointParts
    <3> QED  BY <3>1, <3>2
  <2>3. Apart(s) /\ Standing(s)' /\ Knowing(s, m, a)'
    BY <1>1, <1>2, <1>4, Faced, Harm, NothingMoves
  <2>4. Knowing(s, m, After(s, q[1], a))'
    BY <2>2, <2>3
  <2> QED  BY <1>1, <1>2, <2>1, <2>3, <2>4, Advance
<1>5. CASE Fail(c) /\ (Sound(c) \/ Broken(c, "db"))
  BY <1>1, <1>2, <1>5, Faced, Harm, FailsInPlace
<1> QED  BY <1>2, <1>3, <1>4, <1>5 DEF ReadState

\* UpdateSandboxState: the row is still in the state that was seen, and what the new
\* state promises has been done.
LEMMA CompareConducts ==
    ASSUME Order, NEW c \in Callers, CompareAndSet(c)
    PROVE  Conduct'
<1>1. PICK s, q, a, m : Facing(c, s, q, a, m)
  BY Faces DEF CompareAndSet, At
<1>2. /\ q[1].do = "cas" /\ a \in Points /\ UNCHANGED <<hostVars, used>>
      /\ s = Box(c) /\ s \in used /\ q[1].arg = Arg(c) /\ q[1].err = Err(c) /\ rows[s].state = a.phase
      /\ q \in Seq(Steps) /\ q # <<>> /\ q = call[c].todo /\ call[c] \in CallRecords /\ TypeOK
      /\ s \in Sandboxes
      /\ Knowing(s, m, a) /\ Standing(s) /\ m = call[c].slot /\ Walks(s, q, a) /\ MayDo(q[1], a)
      /\ RuntimeIs(s, a.rt) /\ NetworkIs(s, m, a.net)
  BY <1>1, Faced DEF CompareAndSet, Facing
<1>3. call[c].seen = rows[s].state
  BY <1>1, <1>2, WalkOn DEF Facing, Compares
<1>4. CASE /\ Sound(c) /\ UpdateState(s, call[c].seen, Arg(c))
           /\ Become(c, [Stepped(c) EXCEPT !.undo = IF Arg(c) = "running" THEN "none" ELSE @])
  <2> DEFINE y == q[1].arg
  <2>1. Goes(c, Tail(q), m, call[c].seen)
    <3>1. call[c].undo \in {"none", "remove", "unmount"} /\ Stepped(c).undo = call[c].undo
          /\ m \in 0..MaxSlot
      BY <1>2 DEF CallRecords, Stepped
    <3> QED  BY <1>1, <1>4, <3>1, SteppedGoes
  <2>2. MayEnter(a, y)
    BY <1>2 DEF MayDo
  <2>3. HasRow(s) /\ y \in States /\ a.phase # "absent"
    BY <1>2, <2>2, RowIs DEF MayEnter
  <2>4. /\ rows' = [rows EXCEPT ![s].state = y] /\ snaps' = snaps /\ faults' = faults
        /\ UNCHANGED <<handle, stray, netns, route, rootfs, used>>
    BY <1>2, <1>4, Harm DEF UpdateState, hostVars, Sound
  <2>5. /\ rows'[s].state = y /\ rows'[s].slot = rows[s].slot
        /\ \A t \in Sandboxes \ {s} : rows'[t] = rows[t]
    <3>1. rows[s] \in [state : States, slot : 0..MaxSlot]
      BY <1>2, <2>3 DEF TypeOK, StoreTypeOK, HasRow
    <3>2. rows' = [rows EXCEPT ![s] = [rows[s] EXCEPT !.state = y]] /\ DOMAIN rows = Sandboxes
      BY <1>2, <2>4 DEF TypeOK, StoreTypeOK
    <3> QED  BY <1>2, <3>1, <3>2
  <2> HIDE DEF y
  <2>6. HasRow(s)'
    BY <2>3, <2>5 DEF HasRow, NoRow, States
  <2>7. Apart(s)
    BY <2>3, <2>4, <2>5 DEF Apart
  <2> DEFINE b == Pt(y, a.rt, a.net)
  <2>8. After(s, q[1], a) = b /\ b \in Points /\ b.phase = y /\ b.rt = a.rt /\ b.net = a.net
    BY <1>2, <2>3, AfterIs, PointParts DEF Points, Pt, Phases, y
  <2>9. RuntimeIs(s, a.rt)'
    BY <1>2, <2>4, <2>7, RuntimeStays
  <2>10. NetworkIs(s, m, a.net)'
    BY <1>2, <2>4, <2>5, <2>7, NetworkStays DEF Wired
  <2>11. Knowing(s, m, After(s, q[1], a))'
    <3>1. Knowing(s, m, b)'
      BY <2>5, <2>8, <2>9, <2>10 DEF Knowing
    <3> QED  BY <2>8, <3>1
  <2>12. Standing(s)'
    <3>1. y = "running" => Live(s)' /\ rows'[s].slot > 0 /\ (NoneDeleted' => route'[rows'[s].slot] = s)
      <4>1. y = "running" => a.rt = "live" /\ a.net = "routed"
        BY <2>2 DEF MayEnter
      <4>2. y = "running" => rows'[s].slot > 0 /\ (NoneDeleted' => route'[rows'[s].slot] = s)
        BY <1>2, <2>3, <2>5, <2>6, <2>10, <4>1 DEF NetworkIs
      <4>3. y = "running" => Live(s)'
        BY <2>9, <4>1 DEF RuntimeIs
      <4> QED  BY <4>2, <4>3
    <3>2. y \in {"paused", "stopped"} => handle'[s] = "idle"
      BY <2>2, <2>9 DEF MayEnter, RuntimeIs
    <3>3. HostSound' /\ y = "killed" => Gone(s)'
      BY <2>2, <2>9 DEF MayEnter, RuntimeIs
    <3>4. y # "absent"
      BY <2>3 DEF States
    <3>5. HostSound' => s \notin stray' /\ (s \notin Containers => rootfs'[s] = "none")
      BY <1>2, <2>4, <2>7, ApartKeeps DEF Standing
    <3>6. s \in used'
      BY <1>2, <2>4
    <3> QED  BY <2>5, <3>1, <3>2, <3>3, <3>4, <3>5, <3>6 DEF Standing
  <2> QED  BY <1>1, <1>2, <2>1, <2>7, <2>11, <2>12, Advance
<1>5. CASE Fail(c) /\ Broken(c, "db") /\ UNCHANGED storeVars
  BY <1>1, <1>2, <1>5, Faced, Harm, FailsInPlace
<1> QED  BY <1>2, <1>3, <1>4, <1>5 DEF CompareAndSet

\* A sandbox that is not running keeps its order when no runtime, rootfs or state moves.
LEMMA StandsParked ==
    ASSUME TypeOK, NEW s \in Sandboxes, s \in used, Apart(s), Standing(s),
           rows'[s].state = rows[s].state, rows[s].state # "running",
           handle'[s] = handle[s], rootfs'[s] = rootfs[s],
           s \in stray' => s \in stray, s \in snaps' => s \in snaps
    PROVE  Standing(s)'
  BY ApartKeeps DEF Standing, Live, Gone, HasRow, Apart

\* AssignSandboxNetworkSlot: the call remembers the slot that its row has got.
LEMMA AssignConducts ==
    ASSUME Order, NEW c \in Callers, Assign(c)
    PROVE  Conduct'
<1>1. PICK s, q, a, m : Facing(c, s, q, a, m)
  BY Faces DEF Assign, At
<1>2. /\ q[1].do = "assign" /\ a \in Points /\ UNCHANGED <<hostVars, used>>
      /\ s = Box(c) /\ s \in used /\ rows[s].state = a.phase
      /\ call[c] \in CallRecords /\ TypeOK /\ s \in Sandboxes
      /\ Standing(s) /\ MayDo(q[1], a) /\ RuntimeIs(s, a.rt) /\ a.phase \in Phases /\ a.rt \in Abilities
  BY <1>1, Faced DEF Assign, Facing
<1>3. CASE /\ Sound(c) /\ AssignSlot(s)
           /\ Become(c, [Stepped(c) EXCEPT !.slot = rows'[s].slot])
  <2>1. /\ snaps' = snaps /\ faults' = faults /\ HasRow(s)
        /\ UNCHANGED <<handle, stray, netns, route, rootfs, used>>
    BY <1>2, <1>3, Harm DEF AssignSlot, hostVars, Sound
  <2>2. /\ rows'[s].state = rows[s].state /\ rows'[s].slot \in Slots
        /\ \A t \in Sandboxes \ {s} : rows'[t] = rows[t]
    <3>1. rows[s] \in [state : States, slot : 0..MaxSlot] /\ DOMAIN rows = Sandboxes
      BY <1>2, <2>1 DEF TypeOK, StoreTypeOK, HasRow
    <3>2. CASE rows' = rows /\ rows[s].slot > 0
      BY <1>2, <3>1, <3>2, RowIs
    <3>3. CASE \E n \in FreeSlots : rows' = [rows EXCEPT ![s].slot = n]
      <4>1. PICK n \in FreeSlots : rows' = [rows EXCEPT ![s] = [rows[s] EXCEPT !.slot = n]]
        BY <1>2, <3>1, <3>3
      <4>2. n \in Slots
        BY DEF FreeSlots
      <4> QED  BY <1>2, <3>1, <4>1, <4>2
    <3> QED  BY <1>3, <3>2, <3>3 DEF AssignSlot
  <2>3. PICK n : n \in Slots /\ n > 0 /\ n \in 0..MaxSlot /\ n = rows'[s].slot
    BY <2>2, MaxSlotAssumption DEF Slots
  <2>4. Become(c, [Stepped(c) EXCEPT !.slot = n])
    BY <1>3, <2>3
  <2>5. Goes(c, Tail(q), n, call[c].seen)
    BY <1>1, <2>3, <2>4, SteppedGoes
  <2>6. Apart(s)
    BY <2>1, <2>2 DEF Apart
  <2>7. a.phase \in Transitional
    BY <1>2 DEF MayDo
  <2>8. Standing(s)'
    <3>1. HostSound' => s \notin stray' /\ (s \notin Containers => rootfs'[s] = "none")
      BY <1>2, <2>1, <2>6, ApartKeeps DEF Standing
    <3> QED  BY <1>2, <2>2, <2>6, <2>7, <3>1, StandsMoving
  <2> DEFINE b == Pt(a.phase, a.rt, "slotted")
  <2>9. After(s, q[1], a) = b /\ b \in Points /\ b.phase = a.phase /\ b.rt = a.rt /\ b.net = "slotted"
    BY <1>2, AfterIs, PointParts DEF Points, Pt, Links
  <2>10. RuntimeIs(s, a.rt)'
    BY <1>2, <2>1, <2>6, RuntimeStays
  <2>11. Knowing(s, n, After(s, q[1], a))'
    <3>0. NetworkIs(s, n, "slotted")'
      BY <2>3 DEF NetworkIs
    <3>1. Knowing(s, n, b)'
      BY <1>2, <2>2, <2>9, <2>10, <3>0 DEF Knowing
    <3> QED  BY <2>9, <3>1
  <2> QED  BY <1>1, <2>2, <2>5, <2>6, <2>8, <2>11, Advance
<1>4. CASE Fail(c) /\ (Sound(c) \/ Broken(c, "db")) /\ UNCHANGED storeVars
  BY <1>1, <1>2, <1>4, Faced, Harm, FailsInPlace
<1> QED  BY <1>2, <1>3, <1>4 DEF Assign

\* ReleaseSandboxNetworkSlot: the slot is given back after its network is gone.
LEMMA FreeConducts ==
    ASSUME Order, NEW c \in Callers, Free(c)
    PROVE  Conduct'
<1>1. PICK s, q, a, m : Facing(c, s, q, a, m)
  BY Faces DEF Free, At
<1>2. /\ q[1].do = "free" /\ a \in Points /\ UNCHANGED <<hostVars, used>>
      /\ s = Box(c) /\ s \in used /\ rows[s].state = a.phase
      /\ TypeOK /\ s \in Sandboxes /\ q # <<>> /\ q = call[c].todo /\ m = call[c].slot
      /\ Standing(s) /\ MayDo(q[1], a) /\ RuntimeIs(s, a.rt) /\ NetworkIs(s, m, a.net)
      /\ After(s, q[1], a) = a
  BY <1>1, Faced, AfterIs DEF Free, Facing
<1>3. CASE Sound(c) /\ FreeSlot(s) /\ Succeed(c)
  <2>1. /\ snaps' = snaps /\ faults' = faults /\ HasRow(s)
        /\ UNCHANGED <<handle, stray, netns, route, rootfs, used>>
    BY <1>2, <1>3, Harm DEF FreeSlot, hostVars, Sound
  <2>2. /\ rows'[s].state = rows[s].state
        /\ \A t \in Sandboxes \ {s} : rows'[t] = rows[t]
    <3>1. rows[s] \in [state : States, slot : 0..MaxSlot] /\ DOMAIN rows = Sandboxes
      BY <1>2, <2>1 DEF TypeOK, StoreTypeOK, HasRow
    <3>2. rows' = [rows EXCEPT ![s] = [rows[s] EXCEPT !.slot = 0]]
      BY <1>2, <1>3, <3>1 DEF FreeSlot
    <3> QED  BY <1>2, <3>1, <3>2
  <2>3. a.phase # "running" /\ a.net = "cleared"
    BY <1>2 DEF MayDo
  <2>4. Apart(s)
    BY <2>1, <2>2 DEF Apart
  <2>5. Standing(s)'
    BY <1>2, <2>1, <2>2, <2>3, <2>4, StandsParked
  <2>6. RuntimeIs(s, a.rt)'
    BY <1>2, <2>1, <2>4, RuntimeStays
  <2>7. NetworkIs(s, m, a.net)'
    BY <1>2, <2>1, <2>3, <2>4, ApartKeeps DEF NetworkIs, Wired
  <2>8. Knowing(s, m, a)'
    BY <1>2, <2>2, <2>6, <2>7 DEF Knowing
  <2>9. Knowing(s, m, After(s, q[1], a))'
    BY <1>2, <2>8
  <2>10. Goes(c, Tail(q), m, call[c].seen)
    BY <1>2, <1>3, OutcomeGoes DEF Order
  <2> QED  BY <1>1, <2>2, <2>4, <2>5, <2>9, <2>10, Advance
<1>4. CASE Sound(c) /\ Succeed(c) /\ UNCHANGED storeVars
  BY <1>1, <1>2, <1>4, Faced, Harm, PassesInPlace
<1>5. CASE Fail(c) /\ Broken(c, "db") /\ UNCHANGED storeVars
  BY <1>1, <1>2, <1>5, Faced, Harm, FailsInPlace
<1> QED  BY <1>2, <1>3, <1>4, <1>5 DEF Free

\* A snapshot is recorded of a sandbox that is paused.
LEMMA SnapshotConducts ==
    ASSUME Order, NEW c \in Callers, RecordSnapshot(c)
    PROVE  Conduct'
<1>1. PICK s, q, a, m : Facing(c, s, q, a, m)
  BY Faces DEF RecordSnapshot, At
<1>2. /\ q[1].do = "snapshot" /\ a \in Points /\ UNCHANGED <<hostVars, used>>
      /\ s = Box(c) /\ s \in used /\ rows[s].state = a.phase
      /\ TypeOK /\ s \in Sandboxes /\ q # <<>> /\ q = call[c].todo /\ m = call[c].slot
      /\ Standing(s) /\ MayDo(q[1], a) /\ RuntimeIs(s, a.rt) /\ NetworkIs(s, m, a.net)
      /\ After(s, q[1], a) = a
  BY <1>1, Faced, AfterIs DEF RecordSnapshot, Facing
<1>3. CASE Sound(c) /\ InsertSnapshot(s) /\ Succeed(c)
  <2>1. /\ snaps' = snaps \union {s} /\ rows' = rows /\ faults' = faults
        /\ UNCHANGED <<handle, stray, netns, route, rootfs, used>>
    BY <1>2, <1>3, Harm DEF InsertSnapshot, hostVars, Sound
  <2>3. a.phase \in Transitional /\ a.rt = "idle"
    BY <1>2 DEF MayDo
  <2>4. Apart(s)
    BY <2>1 DEF Apart, HasRow
  <2>5. Standing(s)'
    <3>1. HostSound' => s \notin stray' /\ (s \notin Containers => rootfs'[s] = "none")
      BY <1>2, <2>1, <2>4, ApartKeeps DEF Standing
    <3> QED  BY <1>2, <2>1, <2>3, <2>4, <3>1, StandsMoving
  <2>6. RuntimeIs(s, a.rt)'
    BY <1>2, <2>1, <2>3, <2>4, RuntimeStays
  <2>7. NetworkIs(s, m, a.net)'
    BY <1>2, <2>1, <2>4, NetworkStays DEF Wired
  <2>8. Knowing(s, m, a)'
    BY <1>2, <2>1, <2>6, <2>7 DEF Knowing
  <2>9. Knowing(s, m, After(s, q[1], a))'
    BY <1>2, <2>8
  <2>10. Goes(c, Tail(q), m, call[c].seen)
    BY <1>2, <1>3, OutcomeGoes DEF Order
  <2>11. rows'[s].state = rows[s].state
    BY <2>1
  <2> QED  BY <1>1, <2>4, <2>5, <2>9, <2>10, <2>11, Advance
<1>4. CASE Fail(c) /\ Broken(c, "db") /\ UNCHANGED storeVars
  BY <1>1, <1>2, <1>4, Faced, Harm, FailsInPlace
<1> QED  BY <1>2, <1>3, <1>4 DEF RecordSnapshot

\* deleteSandboxSnapshots: what is left of a killed sandbox is its row.
LEMMA DropSnapshotsConducts ==
    ASSUME Order, NEW c \in Callers, DropSnapshots(c)
    PROVE  Conduct'
<1>1. PICK s, q, a, m : Facing(c, s, q, a, m)
  BY Faces DEF DropSnapshots, At
<1>2. /\ q[1].do = "delsnaps" /\ a \in Points /\ UNCHANGED <<hostVars, used>>
      /\ s = Box(c) /\ s \in used /\ rows[s].state = a.phase
      /\ TypeOK /\ s \in Sandboxes /\ q # <<>> /\ q = call[c].todo /\ m = call[c].slot
      /\ Standing(s) /\ MayDo(q[1], a) /\ RuntimeIs(s, a.rt) /\ NetworkIs(s, m, a.net)
      /\ a.phase \in Phases /\ a.net \in Links
  BY <1>1, Faced DEF DropSnapshots, Facing
<1>3. CASE Sound(c) /\ DeleteSnapshots(s) /\ Succeed(c)
  <2>1. /\ snaps' = snaps \ {s} /\ rows' = rows /\ faults' = faults
        /\ UNCHANGED <<handle, stray, netns, route, rootfs, used>>
    BY <1>2, <1>3, Harm DEF DeleteSnapshots, hostVars, Sound
  <2>3. a.phase = "killed" /\ a.rt = "erased"
    BY <1>2 DEF MayDo
  <2>4. Apart(s)
    BY <2>1 DEF Apart, HasRow
  <2>5. Standing(s)'
    BY <1>2, <2>1, <2>3, <2>4, StandsParked
  <2>6. RuntimeIs(s, "bare")'
    <3>1. RuntimeIs(s, a.rt)'
      BY <1>2, <2>1, <2>3, <2>4, RuntimeStays
    <3> QED  BY <2>1, <2>3, <3>1 DEF RuntimeIs
  <2>7. NetworkIs(s, m, a.net)'
    BY <1>2, <2>1, <2>4, NetworkStays DEF Wired
  <2> DEFINE b == Pt(a.phase, "bare", a.net)
  <2>8. After(s, q[1], a) = b /\ b \in Points /\ b.phase = a.phase /\ b.rt = "bare" /\ b.net = a.net
    BY <1>2, AfterIs, PointParts DEF Points, Pt, Abilities
  <2>9. Knowing(s, m, After(s, q[1], a))'
    <3>1. Knowing(s, m, b)'
      BY <1>2, <2>1, <2>6, <2>7, <2>8 DEF Knowing
    <3> QED  BY <2>8, <3>1
  <2>10. Goes(c, Tail(q), m, call[c].seen)
    BY <1>2, <1>3, OutcomeGoes DEF Order
  <2>11. rows'[s].state = rows[s].state
    BY <2>1
  <2> QED  BY <1>1, <2>4, <2>5, <2>9, <2>10, <2>11, Advance
<1>4. CASE Fail(c) /\ Broken(c, "db") /\ UNCHANGED storeVars
  BY <1>1, <1>2, <1>4, Faced, Harm, FailsInPlace
<1> QED  BY <1>2, <1>3, <1>4 DEF DropSnapshots

\* The row goes when runtime, rootfs and snapshots are gone.
LEMMA DropRowConducts ==
    ASSUME Order, NEW c \in Callers, DropRow(c)
    PROVE  Conduct'
<1>1. PICK s, q, a, m : Facing(c, s, q, a, m)
  BY Faces DEF DropRow, At
<1>2. /\ q[1].do = "delrow" /\ a \in Points /\ UNCHANGED <<hostVars, used>>
      /\ s = Box(c) /\ s \in used /\ rows[s].state = a.phase
      /\ TypeOK /\ s \in Sandboxes /\ q # <<>> /\ q = call[c].todo /\ m = call[c].slot
      /\ Standing(s) /\ MayDo(q[1], a) /\ RuntimeIs(s, a.rt) /\ NetworkIs(s, m, a.net)
      /\ a.phase \in Phases /\ a.net \in Links /\ a.rt \in Abilities
  BY <1>1, Faced DEF DropRow, Facing
<1>3. CASE Sound(c) /\ DeleteRow(s) /\ Succeed(c)
  <2>1. /\ snaps' = snaps /\ HasRow(s) /\ faults' = faults
        /\ UNCHANGED <<handle, stray, netns, route, rootfs, used>>
    BY <1>2, <1>3, Harm DEF DeleteRow, hostVars, Sound
  <2>2. rows'[s] = NoRow /\ \A t \in Sandboxes \ {s} : rows'[t] = rows[t]
    BY <1>2, <1>3 DEF DeleteRow, TypeOK, StoreTypeOK
  <2>3. a.phase = "killed" /\ a.rt = "bare"
    BY <1>2 DEF MayDo
  <2>4. Apart(s)
    BY <2>1, <2>2 DEF Apart
  <2>5. RuntimeIs(s, a.rt)'
    BY <1>2, <2>1, <2>4, RuntimeStays
  <2>6. Standing(s)'
    <3>1. rows'[s].state = "absent" /\ ~HasRow(s)'
      BY <2>2 DEF NoRow, HasRow
    <3>2. HostSound' => Gone(s)' /\ s \notin snaps'
      BY <2>3, <2>5 DEF RuntimeIs
    <3>3. HostSound' => s \notin stray' /\ (s \notin Containers => rootfs'[s] = "none")
      BY <1>2, <2>1, <2>4, ApartKeeps DEF Standing
    <3> QED  BY <3>1, <3>2, <3>3 DEF Standing
  <2>7. NetworkIs(s, m, a.net)'
    BY <1>2, <2>1, <2>2, <2>4, NetworkStays DEF Wired, HasRow
  <2> DEFINE b == Pt("absent", a.rt, a.net)
  <2>8. After(s, q[1], a) = b /\ b \in Points /\ b.phase = "absent" /\ b.rt = a.rt /\ b.net = a.net
    BY <1>2, AfterIs, PointParts DEF Points, Pt, Phases
  <2>9. Knowing(s, m, After(s, q[1], a))'
    <3>1. Knowing(s, m, b)'
      BY <2>2, <2>5, <2>7, <2>8 DEF Knowing, NoRow
    <3> QED  BY <2>8, <3>1
  <2>10. Goes(c, Tail(q), m, call[c].seen)
    BY <1>2, <1>3, OutcomeGoes DEF Order
  <2> QED  BY <1>1, <1>2, <2>4, <2>6, <2>9, <2>10, Advance
<1>4. ~(Sound(c) /\ ~HasRow(s))
  <2>1. a.phase = "killed"
    BY <1>2 DEF MayDo
  <2> QED  BY <1>2, <2>1, RowIs
<1>5. CASE Fail(c) /\ Broken(c, "db") /\ UNCHANGED storeVars
  BY <1>1, <1>2, <1>5, Faced, Harm, FailsInPlace
<1> QED  BY <1>2, <1>3, <1>4, <1>5 DEF DropRow

-----------------------------------------------------------------------------
(* The network manager.                                                     *)

\* An error branch knows enough when the host is no longer sound.
LEMMA FallbackHurt ==
    ASSUME NEW s \in Sandboxes, NEW m, NEW a \in Points, Knowing(s, m, a), rows' = rows, ~HostSound'
    PROVE  Knowing(s, m, Fallback(a))'
<1> DEFINE l == IF a.net = "cleared" \/ a.phase = "absent" THEN "cleared" ELSE "own"
<1>1. Fallback(a).phase = a.phase /\ Fallback(a).rt = "any" /\ Fallback(a).net = l
  BY PointParts DEF Fallback
<1>2. Fallback(a) \in Points
  BY PointParts DEF Fallback, Points, Pt, Abilities, Links
<1>3. RuntimeIs(s, "any")'
  BY DEF RuntimeIs
<1>4. NetworkIs(s, m, l)'
  BY DEF Knowing, NetworkIs, HasRow
<1> HIDE DEF l
<1> QED  BY <1>1, <1>2, <1>3, <1>4 DEF Knowing

\* A step that fails, and takes the host with it.
LEMMA BreaksHost ==
    ASSUME Order, NEW c \in Callers, NEW s, NEW q, NEW a, NEW m, Facing(c, s, q, a, m), Apart(s), Fail(c),
           rows' = rows, ~HostSound', Standing(s)', q[1].err # "ignore"
    PROVE  Conduct'
<1>1. s \in Sandboxes /\ a \in Points /\ Knowing(s, m, a)
  BY Faced
<1>2. Knowing(s, m, Fallback(a))'
  BY <1>1, FallbackHurt
<1> QED  BY <1>2, Retreat

\* A step of the handler of s that gives it the network of slot m.
LEMMA RewireApart ==
    ASSUME TypeOK, SlotExclusive, NEW s \in used, NEW m, m = 0 \/ (m = rows[s].slot /\ m > 0),
           Rewire(s, m), UNCHANGED <<storeVars, handle, stray, rootfs, used>>,
           faults.kinds \subseteq faults'.kinds
    PROVE  Apart(s) /\ (m \in Slots => route'[m] = s)
<1>1. s \in Sandboxes /\ s # Nobody
  BY ServiceAssumption DEF TypeOK
<1>2. /\ netns' = netns \union {s}
      /\ \A n \in Slots : route'[n] = IF n = m THEN s ELSE IF route[n] = s THEN Nobody ELSE route[n]
  BY DEF Rewire
<1>3. ASSUME NEW t \in Sandboxes \ {s}
      PROVE  /\ \A n \in Slots : route'[n] = t => route[n] = t
             /\ NoneDeleted /\ rows[t].slot > 0 /\ route[rows[t].slot] = t => route'[rows[t].slot] = t
  <2>1. t # Nobody
    BY ServiceAssumption
  <2>2. rows[t].slot > 0 => rows[t].slot # m /\ rows[t].slot \in Slots
    BY <1>1, RowIs DEF SlotExclusive
  <2> QED  BY <1>2, <2>1, <2>2
<1> QED  BY <1>1, <1>2, <1>3 DEF Apart, storeVars, HasRow

\* A sandbox in the middle of a transition whose runtime and rootfs a step leaves alone.
LEMMA StandsWired ==
    ASSUME TypeOK, NEW s \in Sandboxes, s \in used, Apart(s), Standing(s), rows' = rows,
           rows[s].state \in Transitional, handle' = handle, rootfs' = rootfs, stray' = stray
    PROVE  Standing(s)'
<1>1. HostSound' => s \notin stray' /\ (s \notin Containers => rootfs'[s] = "none")
  BY ApartKeeps DEF Standing
<1> QED  BY <1>1, StandsMoving

\* The network is set up on the slot that the sandbox holds, so no route of another
\* sandbox is taken over.
LEMMA PrepareConducts ==
    ASSUME Order, NEW c \in Callers, PrepareNetwork(c)
    PROVE  Conduct'
<1>1. PICK s, q, a, m : Facing(c, s, q, a, m)
  BY Faces DEF PrepareNetwork, At
<1>2. /\ q[1].do = "net" /\ a \in Points /\ UNCHANGED <<storeVars, handle, stray, rootfs, used>>
      /\ s = Box(c) /\ s \in used /\ rows[s].state = a.phase
      /\ TypeOK /\ SlotExclusive /\ s \in Sandboxes /\ q # <<>> /\ q = call[c].todo /\ m = call[c].slot
      /\ Standing(s) /\ MayDo(q[1], a) /\ MayFail(q[1], a) /\ RuntimeIs(s, a.rt) /\ NetworkIs(s, m, a.net)
      /\ a.phase \in Phases /\ a.net \in Links /\ a.rt \in Abilities
  BY <1>1, Faced DEF PrepareNetwork, Facing
<1>3. a.phase \in Transitional /\ a.net = "slotted" /\ q[1].err # "ignore"
  BY <1>2 DEF MayDo, MayFail
<1>4. HasRow(s) /\ m = rows[s].slot /\ m > 0 /\ m \in Slots
  <2>1. HasRow(s)
    BY <1>2, <1>3, RowIs DEF Transitional
  <2> QED  BY <1>2, <1>3, <2>1, RowIs DEF NetworkIs
<1>5. faults.kinds \subseteq faults'.kinds
  BY <1>1, <1>2, Faced, Harm DEF PrepareNetwork
<1>6. ASSUME NEW n \in {0, m}, Rewire(s, n)
      PROVE  Apart(s) /\ (n = m => route'[m] = s)
  BY <1>2, <1>4, <1>5, <1>6, RewireApart
<1>7. CASE Sound(c) /\ Rewire(s, m) /\ Succeed(c)
  <2>1. Apart(s) /\ route'[m] = s
    BY <1>6, <1>7
  <2>2. Standing(s)'
    BY <1>2, <1>3, <2>1, StandsWired DEF storeVars
  <2>3. RuntimeIs(s, a.rt)'
    BY <1>2, <2>1, RuntimeStays DEF storeVars
  <2>4. NetworkIs(s, m, "routed")'
    BY <1>2, <1>4, <2>1 DEF NetworkIs, storeVars
  <2> DEFINE b == Pt(a.phase, a.rt, "routed")
  <2>5. After(s, q[1], a) = b /\ b \in Points /\ b.phase = a.phase /\ b.rt = a.rt /\ b.net = "routed"
    BY <1>2, AfterIs, PointParts DEF Points, Pt, Links
  <2>6. Knowing(s, m, After(s, q[1], a))'
    <3>1. Knowing(s, m, b)'
      BY <1>2, <2>3, <2>4, <2>5 DEF Knowing, storeVars
    <3> QED  BY <2>5, <3>1
  <2>7. Goes(c, Tail(q), m, call[c].seen)
    BY <1>2, <1>7, OutcomeGoes DEF Order
  <2>8. rows'[s].state = rows[s].state
    BY <1>2 DEF storeVars
  <2> QED  BY <1>1, <2>1, <2>2, <2>6, <2>7, <2>8, Advance
<1>8. CASE /\ Broken(c, "host") /\ Fail(c)
           /\ UNCHANGED <<netns, route>> \/ Rewire(s, 0) \/ Rewire(s, m)
  <2>1. ~HostSound'
    BY <1>1, <1>2, <1>8, Faced, Harm
  <2>2. Apart(s)
    <3>1. CASE UNCHANGED <<netns, route>>
      BY <1>2, <1>5, <3>1 DEF Apart, storeVars, HasRow
    <3> QED  BY <1>6, <1>8, <3>1
  <2>3. Standing(s)' /\ rows' = rows
    BY <1>2, <1>3, <2>2, StandsWired DEF storeVars
  <2> QED  BY <1>1, <1>3, <1>8, <2>1, <2>2, <2>3, BreaksHost
<1> QED  BY <1>2, <1>7, <1>8 DEF PrepareNetwork

\* Cleanup takes the route of the slot away: while no sandbox has been deleted, no
\* other one has been given that slot.
LEMMA CleanupConducts ==
    ASSUME Order, NEW c \in Callers, CleanupNetwork(c)
    PROVE  Conduct'
<1>1. PICK s, q, a, m : Facing(c, s, q, a, m)
  BY Faces DEF CleanupNetwork, At
<1>2. /\ q[1].do = "cleanup" /\ a \in Points /\ UNCHANGED <<storeVars, handle, stray, rootfs, used, faults>>
      /\ s = Box(c) /\ s \in used /\ rows[s].state = a.phase /\ Succeed(c)
      /\ TypeOK /\ SlotExclusive /\ s \in Sandboxes /\ q # <<>> /\ q = call[c].todo /\ m = call[c].slot
      /\ Standing(s) /\ MayDo(q[1], a) /\ RuntimeIs(s, a.rt) /\ NetworkIs(s, m, a.net)
      /\ a.phase \in Phases /\ a.net \in Links /\ a.rt \in Abilities
      /\ call[c].cancelled => "cancel" \in faults.kinds
  BY <1>1, Faced DEF CleanupNetwork, Facing
<1>3. a.phase # "running" /\ a.net # "cleared"
  BY <1>2 DEF MayDo
<1>4. s # Nobody
  BY <1>2, ServiceAssumption
<1>5. \/ (m = 0 \/ call[c].cancelled) /\ UNCHANGED <<netns, route>>
      \/ /\ netns' = netns \ {s}
         /\ \A n \in Slots : route'[n] = IF n = m \/ route[n] = s THEN Nobody ELSE route[n]
  BY <1>2 DEF CleanupNetwork
<1>6. ASSUME NEW t \in Sandboxes \ {s}
      PROVE  /\ \A n \in Slots : route'[n] = t => route[n] = t
             /\ NoneDeleted /\ rows[t].slot > 0 /\ route[rows[t].slot] = t => route'[rows[t].slot] = t
             /\ (t \in netns') = (t \in netns)
  <2>1. t # Nobody
    BY ServiceAssumption
  <2>2. NoneDeleted => m = rows[s].slot
    BY <1>2, <1>3 DEF NoneDeleted, NetworkIs
  <2>3. NoneDeleted /\ rows[t].slot > 0 => rows[t].slot # m /\ rows[t].slot \in Slots
    BY <1>2, <2>2, RowIs DEF SlotExclusive
  <2> QED  BY <1>5, <2>1, <2>3
<1>7. Apart(s)
  BY <1>2, <1>6 DEF Apart, storeVars, HasRow
<1>8. Standing(s)'
  BY <1>2, <1>3, <1>7, StandsParked DEF storeVars
<1>9. RuntimeIs(s, a.rt)'
  BY <1>2, <1>7, RuntimeStays DEF storeVars
<1>10. NetworkIs(s, m, "cleared")'
  <2>1. HostSound' => HostSound /\ ~call[c].cancelled
    BY <1>2 DEF HostSound
  <2>2. HostSound' => ~Wired(s)'
    BY <1>2, <1>3, <1>4, <1>5, <2>1 DEF NetworkIs, Wired
  <2> QED  BY <2>2 DEF NetworkIs
<1> DEFINE b == Pt(a.phase, a.rt, "cleared")
<1>11. After(s, q[1], a) = b /\ b \in Points /\ b.phase = a.phase /\ b.rt = a.rt /\ b.net = "cleared"
  BY <1>2, AfterIs, PointParts DEF Points, Pt, Links
<1>12. Knowing(s, m, After(s, q[1], a))'
  <2>1. Knowing(s, m, b)'
    BY <1>2, <1>9, <1>10, <1>11 DEF Knowing, storeVars
  <2> QED  BY <1>11, <2>1
<1>13. Goes(c, Tail(q), m, call[c].seen)
  BY <1>2, OutcomeGoes DEF Order
<1>14. rows'[s].state = rows[s].state
  BY <1>2 DEF storeVars
<1> QED  BY <1>1, <1>7, <1>8, <1>12, <1>13, <1>14, Advance

-----------------------------------------------------------------------------
(* boxshim and its driver.                                                  *)

\* What boxshim answers, and what that leaves of the runtime.
LEMMA Answers ==
    ASSUME TypeOK, NEW s \in Sandboxes, NEW y \in Methods
    PROVE  /\ Answer(s, y).ok =>
                  /\ Yields(y) = "idle"  => Answer(s, y).handle = "idle"
                  /\ Yields(y) = "live"  => Answer(s, y).handle = "live"
                  /\ Yields(y) = "still" => Answer(s, y).handle = "none"
           /\ y = "Kill" /\ ~Answer(s, y).ok =>
                 Answer(s, y).handle = handle[s] /\ handle[s] \in {"none", "empty"}
           /\ y # "Resume" \/ handle[s] = "idle" => (Answer(s, y).stray <=> s \in stray)
<1>1. CASE y \in {"Create", "Start"}
  <2>1. Answer(s, y) = CreateReply(s) /\ Yields(y) = "live"
    BY <1>1 DEF Answer, Yields
  <2>2. /\ CreateReply(s).ok => CreateReply(s).handle = "live"
        /\ (CreateReply(s).stray <=> s \in stray)
    BY DEF CreateReply, Reply, Refuse
  <2> QED  BY <1>1, <2>1, <2>2
<1>2. CASE y = "Pause"
  <2>1. Answer(s, y) = PauseReply(s) /\ Yields(y) = "idle"
    BY <1>2 DEF Answer, Yields
  <2>2. /\ PauseReply(s).ok => PauseReply(s).handle = "idle"
        /\ (PauseReply(s).stray <=> s \in stray)
    BY DEF PauseReply, Reply, Refuse
  <2> QED  BY <1>2, <2>1, <2>2
<1>3. CASE y = "Resume"
  <2>1. Answer(s, y) = ResumeReply(s) /\ Yields(y) = "live"
    BY <1>3 DEF Answer, Yields
  <2>2. /\ ResumeReply(s).ok => ResumeReply(s).handle = "live"
        /\ (handle[s] = "idle" => (ResumeReply(s).stray <=> s \in stray))
    BY DEF ResumeReply, Reply, Refuse, LoadFailed, Forgotten
  <2> QED  BY <1>3, <2>1, <2>2
<1>4. CASE y = "Stop"
  <2>1. Answer(s, y) = StopReply(s) /\ Yields(y) = "idle"
    BY <1>4 DEF Answer, Yields
  <2>2. /\ StopReply(s).ok => StopReply(s).handle = "idle"
        /\ (StopReply(s).stray <=> s \in stray)
    BY DEF StopReply, Reply, Refuse
  <2> QED  BY <1>4, <2>1, <2>2
<1>5. CASE y = "Reboot"
  <2>1. Answer(s, y) = RebootReply(s) /\ Yields(y) = "live"
    BY <1>5 DEF Answer, Yields
  <2>2. /\ RebootReply(s).ok => RebootReply(s).handle = "live"
        /\ (RebootReply(s).stray <=> s \in stray)
    BY DEF RebootReply, Reply, Refuse
  <2> QED  BY <1>5, <2>1, <2>2
<1>6. CASE y = "Kill"
  <2>1. Answer(s, y) = KillReply(s) /\ Yields(y) = "still"
    BY <1>6 DEF Answer, Yields
  <2>2. /\ KillReply(s).ok => KillReply(s).handle = "none"
        /\ (KillReply(s).stray <=> s \in stray)
        /\ ~KillReply(s).ok => KillReply(s).handle = handle[s] /\ handle[s] \in {"none", "empty"}
    BY DEF KillReply, Reply, Refuse, Known
  <2> QED  BY <1>6, <2>1, <2>2
<1> QED  BY <1>1, <1>2, <1>3, <1>4, <1>5, <1>6 DEF Methods

\* Only the runtime and the rootfs of s move.
LEMMA HostApart ==
    ASSUME TypeOK, NEW s, UNCHANGED <<storeVars, netns, route, used>>, faults.kinds \subseteq faults'.kinds,
           \A t \in Sandboxes \ {s} : /\ handle'[t] = handle[t] /\ rootfs'[t] = rootfs[t]
                                      /\ (t \in stray') = (t \in stray)
    PROVE  Apart(s)
  BY DEF Apart, storeVars, HasRow

\* What the driver answered is what is there now, and no other sandbox's runtime moves.
LEMMA Received ==
    ASSUME TypeOK, NEW s \in Sandboxes, NEW r, Receive(s, r)
    PROVE  /\ handle'[s] = r.handle /\ (s \in stray' <=> r.stray)
           /\ \A t \in Sandboxes \ {s} : handle'[t] = handle[t] /\ (t \in stray') = (t \in stray)
  BY DEF Receive, TypeOK

\* A successful step that leaves the row and the network alone.
LEMMA RuntimeMoves ==
    ASSUME Order, NEW c \in Callers, NEW s, NEW q, NEW a, NEW m, Facing(c, s, q, a, m), Apart(s),
           UNCHANGED <<storeVars, netns, route, used>>, Goes(c, Tail(q), m, call[c].seen),
           NEW r \in Abilities, After(s, q[1], a) = Pt(a.phase, r, a.net), RuntimeIs(s, r)', Standing(s)'
    PROVE  Conduct'
<1>1. /\ s \in used /\ rows[s].state = a.phase /\ TypeOK /\ NetworkIs(s, m, a.net) /\ a.phase \in Phases
      /\ a.net \in Links
  BY Faced
<1>2. NetworkIs(s, m, a.net)'
  BY <1>1, NetworkStays DEF Wired, storeVars
<1> DEFINE b == Pt(a.phase, r, a.net)
<1>3. b \in Points /\ b.phase = a.phase /\ b.rt = r /\ b.net = a.net
  BY <1>1, PointParts DEF Points, Pt
<1>4. Knowing(s, m, After(s, q[1], a))'
  <2>1. Knowing(s, m, b)'
    BY <1>1, <1>2, <1>3 DEF Knowing, storeVars
  <2> QED  BY <2>1
<1>5. rows'[s].state = rows[s].state
  BY DEF storeVars
<1> QED  BY <1>4, <1>5, Advance

\* boxshim is asked for a transition of the runtime, and answers, errs or is cut off.
LEMMA RuntimeConducts ==
    ASSUME Order, NEW c \in Callers, CallRuntime(c)
    PROVE  Conduct'
<1>1. PICK s, q, a, m : Facing(c, s, q, a, m)
  BY Faces DEF CallRuntime, At
<1>2. /\ q[1].do = "rpc" /\ a \in Points /\ UNCHANGED <<storeVars, netns, route, rootfs, used>>
      /\ s = Box(c) /\ s \in used /\ rows[s].state = a.phase /\ q[1].arg = Arg(c) /\ q[1] \in Steps
      /\ TypeOK /\ s \in Sandboxes /\ q # <<>> /\ q = call[c].todo /\ m = call[c].slot
      /\ Standing(s) /\ MayDo(q[1], a) /\ MayFail(q[1], a) /\ RuntimeIs(s, a.rt) /\ Knowing(s, m, a)
      /\ call[c].cancelled => "cancel" \in faults.kinds
  BY <1>1, Faced DEF CallRuntime
<1> DEFINE y == q[1].arg
<1>3. y \in Methods
  BY <1>2 DEF Steps
<1>4. /\ a.phase \in Transitional /\ (y = "Resume" => handle[s] = "idle")
      /\ After(s, q[1], a) = Pt(a.phase, Yields(y), a.net)
      /\ q[1].err = "ignore" => y = "Kill"
  BY <1>2, AfterIs DEF MayDo, MayFail, RuntimeIs
<1> HIDE DEF y
<1>5. Yields(y) \in Abilities /\ (y = "Kill" => Yields(y) = "still")
  BY <1>3 DEF Yields, Abilities
<1>6. faults.kinds \subseteq faults'.kinds
  BY <1>1, <1>2, Harm DEF CallRuntime
<1>7. ASSUME NEW r, Receive(s, r), HostSound' => (r.stray <=> s \in stray)
      PROVE  Apart(s) /\ Standing(s)'
  <2>1. Apart(s)
    BY <1>2, <1>6, <1>7, Received, HostApart
  <2>2. HostSound' => s \notin stray' /\ (s \notin Containers => rootfs'[s] = "none")
    BY <1>2, <1>7, <2>1, Received, ApartKeeps DEF Standing
  <2>3. rows'[s].state \in Transitional
    BY <1>2, <1>4 DEF storeVars
  <2> QED  BY <1>2, <2>1, <2>2, <2>3, StandsMoving
<1> DEFINE answer == Answer(s, y)
<1>8. CASE Sound(c) /\ Receive(s, answer) /\ answer.ok /\ Succeed(c)
  <2>1. Apart(s) /\ Standing(s)'
    BY <1>2, <1>3, <1>4, <1>7, <1>8, Answers
  <2>2. RuntimeIs(s, Yields(y))'
    <3>1. handle'[s] = answer.handle
      BY <1>2, <1>8, Received
    <3>2. Yields(y) \in {"idle", "live", "still"}
      BY DEF Yields
    <3> QED  BY <1>2, <1>3, <1>8, <3>1, <3>2, Answers DEF RuntimeIs, Live
  <2>3. Goes(c, Tail(q), m, call[c].seen)
    BY <1>2, <1>8, OutcomeGoes DEF Order
  <2> HIDE DEF answer
  <2> QED  BY <1>1, <1>2, <1>4, <1>5, <2>1, <2>2, <2>3, RuntimeMoves
<1>9. ASSUME NEW r, Receive(s, r), HostSound' => (r.stray <=> s \in stray), Fail(c),
             q[1].err = "ignore" => RuntimeIs(s, "still")'
      PROVE  Conduct'
  <2>1. Apart(s) /\ Standing(s)'
    BY <1>7, <1>9
  <2>2. CASE q[1].err = "ignore"
    <3>1. Goes(c, Tail(q), m, call[c].seen)
      BY <1>1, <1>2, <1>9, <2>2, Faced, OutcomeGoes DEF Order
    <3>2. RuntimeIs(s, "still")' /\ After(s, q[1], a) = Pt(a.phase, "still", a.net)
      BY <1>4, <1>5, <1>9, <2>2
    <3>3. "still" \in Abilities
      BY DEF Abilities
    <3> QED  BY <1>1, <1>2, <2>1, <3>1, <3>2, <3>3, RuntimeMoves
  <2>3. CASE q[1].err # "ignore"
    <3>1. a.phase # "absent"
      BY <1>4 DEF Transitional
    <3>2. Knowing(s, m, Fallback(a))
      BY <1>2, <3>1, FallbackKnown
    <3> DEFINE b == Fallback(a)
    <3>3. b.rt = "any"
      BY PointParts DEF Fallback
    <3> HIDE DEF b
    <3>4. Knowing(s, m, b)
      BY <3>2 DEF b
    <3>5. NetworkIs(s, m, b.net)'
      BY <1>2, <2>1, <3>4, NetworkStays DEF Knowing, Wired, storeVars
    <3>6. RuntimeIs(s, b.rt)'
      BY <3>3 DEF RuntimeIs
    <3>7. Knowing(s, m, b)'
      BY <1>2, <3>4, <3>5, <3>6 DEF Knowing, storeVars
    <3>8. Knowing(s, m, Fallback(a))'
      BY <3>7 DEF b
    <3>9. rows'[s].state = rows[s].state
      BY <1>2 DEF storeVars
    <3> QED  BY <1>1, <1>9, <2>1, <2>3, <3>8, <3>9, Retreat
  <2> QED  BY <2>2, <2>3
<1>10. CASE Sound(c) /\ Receive(s, answer) /\ ~answer.ok /\ Fail(c)
  <2>1. q[1].err = "ignore" => RuntimeIs(s, "still")'
    <3>1. handle'[s] = answer.handle
      BY <1>2, <1>10, Received
    <3> QED  BY <1>2, <1>3, <1>4, <1>10, <3>1, Answers DEF RuntimeIs
  <2>2. answer.stray <=> s \in stray
    BY <1>2, <1>3, <1>4, Answers
  <2> HIDE DEF answer
  <2> QED  BY <1>9, <1>10, <2>1, <2>2
<1>11. CASE ~HostSound' /\ Fail(c) /\ \E r : Receive(s, r)
  <2>1. RuntimeIs(s, "still")'
    BY <1>11 DEF RuntimeIs
  <2> QED  BY <1>9, <1>11, <2>1
<1>12. \/ Sound(c) /\ Receive(s, answer) /\ IF answer.ok THEN Succeed(c) ELSE Fail(c)
       \/ ~HostSound' /\ Fail(c) /\ \E r : Receive(s, r)
  <2>1. \/ Sound(c) /\ Receive(s, answer) /\ IF answer.ok THEN Succeed(c) ELSE Fail(c)
        \/ /\ (call[c].cancelled /\ faults' = faults) \/ Fault("rpc")
           /\ Fail(c) /\ \E r : Receive(s, r)
    BY <1>2 DEF CallRuntime, y
  <2>2. (call[c].cancelled /\ faults' = faults) \/ Fault("rpc") => ~HostSound'
    BY <1>2, Harm
  <2> QED  BY <2>1, <2>2
<1> QED  BY <1>8, <1>10, <1>11, <1>12

\* CreateSandbox kills a runtime whose agent does not answer.
LEMMA KillUnreadyConducts ==
    ASSUME Order, NEW c \in Callers, KillUnready(c)
    PROVE  Conduct'
<1>1. PICK s, q, a, m : Facing(c, s, q, a, m)
  BY Faces DEF KillUnready, At
<1>2. /\ q[1].do = "bgkill" /\ a \in Points /\ UNCHANGED <<storeVars, netns, route, rootfs, used>>
      /\ s = Box(c) /\ s \in used /\ rows[s].state = a.phase
      /\ TypeOK /\ s \in Sandboxes /\ q # <<>> /\ q = call[c].todo /\ m = call[c].slot
      /\ Standing(s) /\ MayDo(q[1], a) /\ MayFail(q[1], a) /\ RuntimeIs(s, a.rt) /\ NetworkIs(s, m, a.net)
      /\ call[c].cancelled => "cancel" \in faults.kinds
  BY <1>1, Faced DEF KillUnready
<1>3. /\ a.phase \in Transitional /\ After(s, q[1], a) = Pt(a.phase, "any", a.net) /\ "any" \in Abilities
      /\ Goes(c, Tail(q), m, call[c].seen) /\ faults.kinds \subseteq faults'.kinds
  BY <1>1, <1>2, AfterIs, OutcomeGoes, Harm DEF MayDo, KillUnready, Order, Abilities
<1>4. \E r : Receive(s, r) /\ (HostSound' => (r.stray <=> s \in stray))
  <2>1. CASE faults' = faults /\ Receive(s, Answer(s, "Kill"))
    BY <1>2, <2>1, Answers DEF Methods
  <2>2. CASE Fault("rpc") /\ \E r \in Mishaps(s, "Kill") : Receive(s, r)
    BY <1>2, <2>2, Harm
  <2> QED  BY <1>2, <2>1, <2>2 DEF KillUnready
<1>5. PICK r : Receive(s, r) /\ (HostSound' => (r.stray <=> s \in stray))
  BY <1>4
<1>6. Apart(s)
  BY <1>2, <1>3, <1>5, Received, HostApart
<1>7. Standing(s)'
  <2>1. HostSound' => s \notin stray' /\ (s \notin Containers => rootfs'[s] = "none")
    BY <1>2, <1>5, <1>6, Received, ApartKeeps DEF Standing
  <2>2. rows'[s].state \in Transitional
    BY <1>2, <1>3 DEF storeVars
  <2> QED  BY <1>2, <1>6, <2>1, <2>2, StandsMoving
<1>8. RuntimeIs(s, "any")'
  BY DEF RuntimeIs
<1> QED  BY <1>1, <1>2, <1>3, <1>6, <1>7, <1>8, RuntimeMoves

\* ensureShim starts a shim that has no runtime yet.
LEMMA ShimConducts ==
    ASSUME Order, NEW c \in Callers, EnsureShim(c)
    PROVE  Conduct'
<1>1. PICK s, q, a, m : Facing(c, s, q, a, m)
  BY Faces DEF EnsureShim, At
<1>2. /\ q[1].do = "shim" /\ a \in Points /\ UNCHANGED <<storeVars, stray, netns, route, rootfs, used>>
      /\ s = Box(c) /\ s \in used /\ rows[s].state = a.phase
      /\ TypeOK /\ s \in Sandboxes /\ q # <<>> /\ q = call[c].todo /\ m = call[c].slot
      /\ Standing(s) /\ MayDo(q[1], a) /\ MayFail(q[1], a) /\ RuntimeIs(s, a.rt) /\ NetworkIs(s, m, a.net)
      /\ call[c].cancelled => "cancel" \in faults.kinds
  BY <1>1, Faced DEF EnsureShim
<1>3. /\ a.phase \in Transitional /\ After(s, q[1], a) = Pt(a.phase, "any", a.net) /\ "any" \in Abilities
      /\ faults.kinds \subseteq faults'.kinds /\ q[1].err # "ignore"
  BY <1>1, <1>2, AfterIs, Harm DEF MayDo, MayFail, EnsureShim, Order, Abilities
<1>4. \A t \in Sandboxes \ {s} : handle'[t] = handle[t]
  BY <1>2 DEF EnsureShim, TypeOK
<1>5. Apart(s)
  BY <1>2, <1>3, <1>4, HostApart
<1>6. Standing(s)'
  <2>1. HostSound' => s \notin stray' /\ (s \notin Containers => rootfs'[s] = "none")
    BY <1>2, <1>5, ApartKeeps DEF Standing
  <2>2. rows'[s].state \in Transitional
    BY <1>2, <1>3 DEF storeVars
  <2> QED  BY <1>2, <1>5, <2>1, <2>2, StandsMoving
<1>7. CASE Succeed(c)
  <2>1. Goes(c, Tail(q), m, call[c].seen)
    BY <1>2, <1>7, OutcomeGoes DEF Order
  <2>2. RuntimeIs(s, "any")'
    BY DEF RuntimeIs
  <2> QED  BY <1>1, <1>2, <1>3, <1>5, <1>6, <2>1, <2>2, RuntimeMoves
<1>8. CASE Broken(c, "host") /\ Fail(c)
  <2>1. ~HostSound' /\ rows' = rows
    BY <1>2, <1>8, Harm DEF storeVars
  <2> QED  BY <1>1, <1>3, <1>5, <1>6, <1>8, <2>1, BreaksHost
<1> QED  BY <1>7, <1>8 DEF EnsureShim

\* terminateShimProcess ends a shim whose runtime is gone, so none outlives it.
LEMMA TerminateConducts ==
    ASSUME Order, NEW c \in Callers, TerminateShim(c)
    PROVE  Conduct'
<1>1. PICK s, q, a, m : Facing(c, s, q, a, m)
  BY Faces DEF TerminateShim, At
<1>2. /\ q[1].do = "terminate" /\ a \in Points /\ UNCHANGED <<storeVars, netns, route, rootfs, used>>
      /\ s = Box(c) /\ s \in used /\ rows[s].state = a.phase
      /\ TypeOK /\ s \in Sandboxes /\ q # <<>> /\ q = call[c].todo /\ m = call[c].slot
      /\ Standing(s) /\ MayDo(q[1], a) /\ MayFail(q[1], a) /\ RuntimeIs(s, a.rt) /\ NetworkIs(s, m, a.net)
      /\ call[c].cancelled => "cancel" \in faults.kinds
  BY <1>1, Faced DEF TerminateShim
<1> DEFINE r == IF s \in Containers THEN "none" ELSE "erased"
<1>3. /\ a.phase \in Transitional /\ After(s, q[1], a) = Pt(a.phase, r, a.net) /\ r \in Abilities
      /\ faults.kinds \subseteq faults'.kinds /\ Goes(c, Tail(q), m, call[c].seen) /\ a.rt = "still"
  BY <1>1, <1>2, AfterIs, OutcomeGoes, Harm DEF MayDo, TerminateShim, Order, Abilities
<1>4. /\ \A t \in Sandboxes \ {s} : handle'[t] = handle[t] /\ (t \in stray') = (t \in stray)
      /\ HostSound' => handle'[s] = "none" /\ (s \in stray' => s \in stray \/ handle[s] = "live")
  <2>1. CASE faults' = faults /\ LoseShim(s, {"live"})
    BY <1>2, <2>1 DEF LoseShim, TypeOK
  <2>2. CASE Fault("host") /\ UNCHANGED <<handle, stray>>
    BY <1>2, <2>2, Harm
  <2> QED  BY <1>2, <2>1, <2>2 DEF TerminateShim
<1>5. Apart(s)
  BY <1>2, <1>3, <1>4, HostApart
<1>6. HostSound' => HostSound /\ handle[s] # "live"
  BY <1>2, <1>3, <1>5, ApartKeeps DEF RuntimeIs
<1>7. Standing(s)'
  <2>1. HostSound' => s \notin stray' /\ (s \notin Containers => rootfs'[s] = "none")
    BY <1>2, <1>4, <1>6 DEF Standing
  <2>2. rows'[s].state \in Transitional
    BY <1>2, <1>3 DEF storeVars
  <2> QED  BY <1>2, <1>5, <2>1, <2>2, StandsMoving
<1>8. RuntimeIs(s, r)'
  <2>1. HostSound' => handle'[s] = "none" /\ (s \notin Containers => rootfs'[s] = "none")
    BY <1>2, <1>4, <1>6 DEF Standing
  <2> QED  BY <2>1 DEF RuntimeIs, Gone
<1> HIDE DEF r
<1> QED  BY <1>1, <1>2, <1>3, <1>5, <1>7, <1>8, RuntimeMoves

\* removeSandboxDirectory takes nothing alive with it: row, runtime and rootfs are gone.
LEMMA DirectoryConducts ==
    ASSUME Order, NEW c \in Callers, RemoveDirectory(c)
    PROVE  Conduct'
<1>1. PICK s, q, a, m : Facing(c, s, q, a, m)
  BY Faces DEF RemoveDirectory, At
<1>2. /\ q[1].do = "rmdir" /\ a \in Points /\ UNCHANGED <<storeVars, netns, route, used>>
      /\ s = Box(c) /\ s \in used /\ rows[s].state = a.phase
      /\ TypeOK /\ s \in Sandboxes /\ q # <<>> /\ q = call[c].todo /\ m = call[c].slot
      /\ Standing(s) /\ MayDo(q[1], a) /\ MayFail(q[1], a) /\ RuntimeIs(s, a.rt) /\ NetworkIs(s, m, a.net)
      /\ call[c].cancelled => "cancel" \in faults.kinds
  BY <1>1, Faced DEF RemoveDirectory
<1>3. /\ a.phase = "absent" /\ a.rt = "bare" /\ After(s, q[1], a) = a /\ faults.kinds \subseteq faults'.kinds
  BY <1>1, <1>2, AfterIs, Harm DEF MayDo, RemoveDirectory
<1>4. a = Pt(a.phase, a.rt, a.net) /\ a.rt \in Abilities
  BY <1>2, PointParts
<1>5. CASE /\ faults' = faults /\ Succeed(c) /\ LoseShim(s, {"empty", "live", "dead", "idle"})
           /\ rootfs' = [rootfs EXCEPT ![s] = IF @ = "mounted" THEN "unmounted" ELSE @]
  <2>1. /\ \A t \in Sandboxes \ {s} : handle'[t] = handle[t] /\ (t \in stray') = (t \in stray)
                                      /\ rootfs'[t] = rootfs[t]
        /\ handle'[s] = "none" /\ (handle[s] = "none" => (s \in stray' => s \in stray))
        /\ rootfs[s] = "none" => rootfs'[s] = "none"
    BY <1>2, <1>5 DEF LoseShim, TypeOK
  <2>2. Apart(s)
    BY <1>2, <1>3, <2>1, HostApart
  <2>3. HostSound' => HostSound /\ Gone(s) /\ s \notin snaps
    BY <1>2, <1>3, <2>2, ApartKeeps DEF RuntimeIs
  <2>4. RuntimeIs(s, "bare")' /\ (HostSound' => Gone(s)' /\ s \notin stray' /\ s \notin snaps')
    BY <1>2, <2>1, <2>3 DEF RuntimeIs, Gone, Standing, storeVars
  <2>5. Standing(s)'
    BY <1>2, <1>3, <2>4 DEF Standing, Gone, HasRow, storeVars
  <2>6. Goes(c, Tail(q), m, call[c].seen)
    BY <1>2, <1>5, OutcomeGoes DEF Order
  <2> QED  BY <1>1, <1>2, <1>3, <1>4, <2>2, <2>4, <2>5, <2>6, RuntimeMoves
<1>6. CASE Fault("host") /\ Fail(c) /\ UNCHANGED <<handle, stray, rootfs>>
  <2>1. ~HostSound' /\ rows' = rows /\ q[1].err # "ignore"
    BY <1>2, <1>6, Harm DEF storeVars, MayFail
  <2>2. Apart(s)
    BY <1>2, <1>3, <1>6, HostApart
  <2>3. Standing(s)'
    BY <1>2, <1>3, <1>6, <2>2, StandsParked DEF storeVars
  <2> QED  BY <1>1, <1>6, <2>1, <2>2, <2>3, BreaksHost
<1> QED  BY <1>2, <1>5, <1>6 DEF RemoveDirectory

-----------------------------------------------------------------------------
(* The rootfs.                                                              *)

\* The rootfs of a sandbox moves; that of a VM or of one that is gone does not appear.
LEMMA RootfsMoves ==
    ASSUME TypeOK, NEW s \in Sandboxes, s \in used, Standing(s),
           UNCHANGED <<storeVars, handle, stray, netns, route, used>>, faults.kinds \subseteq faults'.kinds,
           NEW v, SetRootfs(s, v), HostSound' /\ s \notin Containers => v = "none",
           rows[s].state \in Transitional \/ (HostSound' /\ rootfs[s] = "none" => v = "none")
    PROVE  Apart(s) /\ Standing(s)' /\ rootfs'[s] = v
<1>1. rootfs'[s] = v /\ \A t \in Sandboxes \ {s} : rootfs'[t] = rootfs[t]
  BY DEF SetRootfs, TypeOK
<1>2. Apart(s)
  BY <1>1, HostApart
<1>3. Standing(s)'
  <2>1. rows' = rows /\ snaps' = snaps /\ stray' = stray /\ handle' = handle /\ route' = route /\ used' = used
    BY DEF storeVars
  <2>2. /\ HostSound' => HostSound
        /\ NoneDeleted' => NoneDeleted
        /\ "vmexit" \in faults.kinds => "vmexit" \in faults'.kinds
    BY <1>2, ApartKeeps
  <2>3. rows[s].state \in Transitional => rows[s].state \notin {"killed", "absent"}
    BY DEF Transitional
  <2>4. HostSound' /\ rows[s].state \in {"killed", "absent"} => Gone(s)'
    BY <1>1, <2>1, <2>2, <2>3 DEF Standing, Gone
  <2>5. HostSound' /\ s \notin Containers => rootfs'[s] = "none"
    BY <1>1
  <2> QED  BY <2>1, <2>2, <2>4, <2>5 DEF Standing, Live, HasRow
<1> QED  BY <1>1, <1>2, <1>3

\* prepareSandboxRuntimeFiles gives a container its rootfs.
LEMMA FilesConducts ==
    ASSUME Order, NEW c \in Callers, PrepareFiles(c)
    PROVE  Conduct'
<1>1. PICK s, q, a, m : Facing(c, s, q, a, m)
  BY Faces DEF PrepareFiles, At
<1>2. /\ q[1].do = "files" /\ a \in Points /\ UNCHANGED <<storeVars, handle, stray, netns, route, used>>
      /\ s = Box(c) /\ s \in used /\ rows[s].state = a.phase /\ a = Pt(a.phase, a.rt, a.net)
      /\ a.rt \in Abilities
      /\ TypeOK /\ s \in Sandboxes /\ q # <<>> /\ q = call[c].todo /\ m = call[c].slot
      /\ Standing(s) /\ MayDo(q[1], a) /\ MayFail(q[1], a) /\ RuntimeIs(s, a.rt) /\ NetworkIs(s, m, a.net)
      /\ call[c].cancelled => "cancel" \in faults.kinds
  BY <1>1, Faced, PointParts DEF PrepareFiles
<1>3. /\ a.phase \in Transitional /\ a.rt = "any" /\ After(s, q[1], a) = a
      /\ faults.kinds \subseteq faults'.kinds
  BY <1>1, <1>2, AfterIs, Harm DEF MayDo, PrepareFiles
<1>4. CASE Sound(c) /\ Succeed(c) /\ UNCHANGED rootfs
  BY <1>1, <1>2, <1>3, <1>4, PassesInPlace DEF hostVars
<1>5. CASE /\ Sound(c) /\ s \in Containers /\ SetRootfs(s, "mounted")
           /\ Become(c, [Stepped(c) EXCEPT !.undo = "remove"])
  <2>1. Apart(s) /\ Standing(s)'
    BY <1>2, <1>3, <1>5, RootfsMoves
  <2>2. Goes(c, Tail(q), m, call[c].seen)
    <3>1. 0 \in 0..MaxSlot
      BY MaxSlotAssumption
    <3> QED  BY <1>1, <1>5, <3>1, SteppedGoes
  <2>3. RuntimeIs(s, a.rt)'
    BY <1>3 DEF RuntimeIs
  <2> QED  BY <1>1, <1>2, <1>3, <2>1, <2>2, <2>3, RuntimeMoves
<1>6. CASE (Sound(c) \/ Broken(c, "host")) /\ Fail(c) /\ UNCHANGED rootfs
  BY <1>1, <1>2, <1>3, <1>6, FailsInPlace DEF hostVars
<1> QED  BY <1>2, <1>4, <1>5, <1>6 DEF PrepareFiles

\* StartSandbox mounts the rootfs of a container.
LEMMA MountConducts ==
    ASSUME Order, NEW c \in Callers, MountRootfs(c)
    PROVE  Conduct'
<1>1. PICK s, q, a, m : Facing(c, s, q, a, m)
  BY Faces DEF MountRootfs, At
<1>2. /\ q[1].do = "mount" /\ a \in Points /\ UNCHANGED <<storeVars, handle, stray, netns, route, used>>
      /\ s = Box(c) /\ s \in used /\ rows[s].state = a.phase /\ a = Pt(a.phase, a.rt, a.net)
      /\ a.rt \in Abilities
      /\ TypeOK /\ s \in Sandboxes /\ q # <<>> /\ q = call[c].todo /\ m = call[c].slot
      /\ Standing(s) /\ MayDo(q[1], a) /\ MayFail(q[1], a) /\ RuntimeIs(s, a.rt) /\ NetworkIs(s, m, a.net)
      /\ call[c].cancelled => "cancel" \in faults.kinds
  BY <1>1, Faced, PointParts DEF MountRootfs
<1>3. /\ a.phase \in Transitional /\ a.rt = "any" /\ After(s, q[1], a) = a
      /\ faults.kinds \subseteq faults'.kinds
  BY <1>1, <1>2, AfterIs, Harm DEF MayDo, MountRootfs
<1>4. CASE /\ Sound(c) /\ rootfs[s] # "none" /\ SetRootfs(s, "mounted")
           /\ Become(c, [Stepped(c) EXCEPT !.undo = "unmount"])
  <2>0. HostSound' => s \in Containers
    <3>1. HostSound' => HostSound
      BY <1>3 DEF HostSound
    <3> QED  BY <1>2, <1>4, <3>1 DEF Standing
  <2>1. Apart(s) /\ Standing(s)'
    BY <1>2, <1>3, <1>4, <2>0, RootfsMoves
  <2>2. Goes(c, Tail(q), m, call[c].seen)
    <3>1. 0 \in 0..MaxSlot
      BY MaxSlotAssumption
    <3> QED  BY <1>1, <1>4, <3>1, SteppedGoes
  <2>3. RuntimeIs(s, a.rt)'
    BY <1>3 DEF RuntimeIs
  <2> QED  BY <1>1, <1>2, <1>3, <2>1, <2>2, <2>3, RuntimeMoves
<1>5. CASE (Sound(c) \/ Broken(c, "host")) /\ Fail(c) /\ UNCHANGED rootfs
  BY <1>1, <1>2, <1>3, <1>5, FailsInPlace DEF hostVars
<1> QED  BY <1>2, <1>4, <1>5 DEF MountRootfs

\* StopSandbox unmounts the rootfs of a container after the row says stopped.
LEMMA UnmountConducts ==
    ASSUME Order, NEW c \in Callers, UnmountRootfs(c)
    PROVE  Conduct'
<1>1. PICK s, q, a, m : Facing(c, s, q, a, m)
  BY Faces DEF UnmountRootfs, At
<1>2. /\ q[1].do = "unmount" /\ a \in Points /\ UNCHANGED <<storeVars, handle, stray, netns, route, used>>
      /\ s = Box(c) /\ s \in used /\ rows[s].state = a.phase /\ a = Pt(a.phase, a.rt, a.net)
      /\ a.rt \in Abilities
      /\ TypeOK /\ s \in Sandboxes /\ q # <<>> /\ q = call[c].todo /\ m = call[c].slot
      /\ Standing(s) /\ MayDo(q[1], a) /\ MayFail(q[1], a) /\ RuntimeIs(s, a.rt) /\ NetworkIs(s, m, a.net)
      /\ call[c].cancelled => "cancel" \in faults.kinds
  BY <1>1, Faced, PointParts DEF UnmountRootfs
<1>3. After(s, q[1], a) = a /\ faults.kinds \subseteq faults'.kinds /\ (HostSound' => HostSound)
  BY <1>1, <1>2, AfterIs, Harm DEF MayDo, UnmountRootfs, HostSound
<1>4. CASE faults' = faults /\ SetRootfs(s, Unmounted(s)) /\ Succeed(c)
  <2>1. rootfs[s] = "none" => Unmounted(s) = "none"
    BY DEF Unmounted
  <2>2. HostSound' /\ s \notin Containers => Unmounted(s) = "none"
    BY <1>2, <1>3, <2>1 DEF Standing
  <2>3. Apart(s) /\ Standing(s)' /\ rootfs'[s] = Unmounted(s)
    BY <1>2, <1>3, <1>4, <2>1, <2>2, RootfsMoves
  <2>4. RuntimeIs(s, a.rt)'
    BY <1>2, <1>3, <2>1, <2>3, <1>4 DEF RuntimeIs, Live, Gone, storeVars
  <2>5. Goes(c, Tail(q), m, call[c].seen)
    BY <1>2, <1>4, OutcomeGoes DEF Order
  <2> QED  BY <1>1, <1>2, <1>3, <2>3, <2>4, <2>5, RuntimeMoves
<1>5. CASE Fail(c) /\ UNCHANGED rootfs
  BY <1>1, <1>2, <1>3, <1>5, FailsInPlace DEF hostVars
<1> QED  BY <1>2, <1>4, <1>5 DEF UnmountRootfs

\* KillSandbox removes the rootfs of a container after its shim.
LEMMA RemoveConducts ==
    ASSUME Order, NEW c \in Callers, RemoveRootfs(c)
    PROVE  Conduct'
<1>1. PICK s, q, a, m : Facing(c, s, q, a, m)
  BY Faces DEF RemoveRootfs, At
<1>2. /\ q[1].do = "remove" /\ a \in Points /\ UNCHANGED <<storeVars, handle, stray, netns, route, used>>
      /\ s = Box(c) /\ s \in used /\ rows[s].state = a.phase /\ a = Pt(a.phase, a.rt, a.net)
      /\ a.rt \in Abilities
      /\ TypeOK /\ s \in Sandboxes /\ q # <<>> /\ q = call[c].todo /\ m = call[c].slot
      /\ Standing(s) /\ MayDo(q[1], a) /\ MayFail(q[1], a) /\ RuntimeIs(s, a.rt) /\ NetworkIs(s, m, a.net)
      /\ call[c].cancelled => "cancel" \in faults.kinds
  BY <1>1, Faced, PointParts DEF RemoveRootfs
<1>3. /\ a.phase \in Transitional /\ a.rt = "none" /\ After(s, q[1], a) = Pt(a.phase, "erased", a.net)
      /\ faults.kinds \subseteq faults'.kinds /\ q[1].err # "ignore" /\ "erased" \in Abilities
      /\ (HostSound' => HostSound)
  BY <1>1, <1>2, AfterIs, Harm DEF MayDo, MayFail, RemoveRootfs, Abilities, HostSound
<1>4. CASE Sound(c) /\ SetRootfs(s, "none") /\ Succeed(c)
  <2>1. Apart(s) /\ Standing(s)' /\ rootfs'[s] = "none"
    BY <1>2, <1>3, <1>4, RootfsMoves
  <2>2. RuntimeIs(s, "erased")'
    BY <1>2, <1>3, <2>1 DEF RuntimeIs, Gone
  <2>3. Goes(c, Tail(q), m, call[c].seen)
    BY <1>2, <1>4, OutcomeGoes DEF Order
  <2> QED  BY <1>1, <1>2, <1>3, <2>1, <2>2, <2>3, RuntimeMoves
<1>5. CASE Fail(c) /\ UNCHANGED <<faults, rootfs>>
  BY <1>1, <1>2, <1>3, <1>5, FailsInPlace DEF hostVars
<1>6. CASE Broken(c, "host") /\ Fail(c) /\ \E v : SetRootfs(s, v)
  <2>1. ~HostSound' /\ rows' = rows
    BY <1>2, <1>6, Harm DEF storeVars
  <2>2. Apart(s) /\ Standing(s)'
    BY <1>2, <1>3, <1>6, <2>1, RootfsMoves
  <2> QED  BY <1>1, <1>3, <1>6, <2>1, <2>2, BreaksHost
<1> QED  BY <1>2, <1>4, <1>5, <1>6 DEF RemoveRootfs

\* The deferred rollback of Create and Start changes nothing but the rootfs.
LEMMA RollBackConducts ==
    ASSUME Order, NEW c \in Callers, RollBack(c)
    PROVE  Conduct'
<1> DEFINE s == Box(c)
           k == call[c]
<1>1. k.todo = <<>> /\ k # Idle /\ UNCHANGED <<storeVars, handle, stray, netns, route, used>>
  BY DEF RollBack, Idle
<1>2. Active(c) /\ Proper(k)
  BY <1>1 DEF Order, Conduct, Working
<1>3. \E t, m : /\ t = k.box /\ m = k.slot
                /\ \E a \in Points : Walks(t, <<>>, a) /\ Knowing(t, m, a)
  <2>1. PICK a \in Points : Walks(k.box, k.todo, a) /\ Knowing(k.box, k.slot, a)
    BY <1>2 DEF Proper
  <2> QED  BY <1>1, <2>1
<1>3a. PICK t, m : /\ t = k.box /\ m = k.slot
                  /\ \E a \in Points : Walks(t, <<>>, a) /\ Knowing(t, m, a)
  BY <1>3
<1>3b. PICK a \in Points : Walks(t, <<>>, a) /\ Knowing(t, m, a)
  BY <1>3a
<1>4. t = Box(c) /\ t \in Sandboxes /\ t \in used /\ TypeOK /\ SlotExclusive /\ Conduct
      /\ CallsOK /\ Standing(t)
  BY <1>2, <1>3a, <1>3b DEF Proper, Order, TypeOK, Box, Conduct
<1> DEFINE v == IF k.undo = "remove" THEN "none" ELSE Unmounted(t)
<1>5. faults.kinds \subseteq faults'.kinds /\ (HostSound' => HostSound)
  BY <1>4 DEF RollBack, Fault, HostSound, TypeOK
<1>6. rootfs[t] = "none" => v = "none"
  BY DEF Unmounted
<1>7. HostSound' /\ t \notin Containers => rootfs[t] = "none" /\ v = "none"
  BY <1>4, <1>5, <1>6 DEF Standing
<1>8. \E w \in {v, rootfs[t]} : SetRootfs(t, w)
  <2>1. rootfs' = rootfs => SetRootfs(t, rootfs[t])
    BY <1>4 DEF SetRootfs, TypeOK
  <2>2. SetRootfs(t, v) \/ rootfs' = rootfs
    BY <1>3a, <1>3b, <1>4 DEF RollBack
  <2> QED  BY <2>1, <2>2
<1> HIDE DEF v
<1>9. PICK w \in {v, rootfs[t]} : SetRootfs(t, w)
  BY <1>8
<1>10. Apart(t) /\ Standing(t)' /\ rootfs'[t] = w
  BY <1>1, <1>4, <1>5, <1>6, <1>7, <1>9, RootfsMoves
<1>11. RuntimeIs(t, a.rt)'
  BY <1>1, <1>3a, <1>3b, <1>5, <1>6, <1>9, <1>10 DEF RuntimeIs, Live, Gone, Knowing, storeVars
<1>12. NetworkIs(t, m, a.net)'
  BY <1>1, <1>3a, <1>3b, <1>4, <1>10, NetworkStays DEF Wired, storeVars, Knowing
<1>13. Knowing(t, m, a)'
  BY <1>1, <1>3a, <1>3b, <1>11, <1>12 DEF Knowing, storeVars
<1>14. call'[c] = Idle /\ \A d \in Callers \ {c} : call'[d] = call[d]
  BY <1>4 DEF RollBack, CallsOK
<1>15. Goes(c, <<>>, m, k.seen) /\ Blind(<<>>)
  BY <1>14 DEF Goes, Blind
<1> QED  BY <1>2, <1>3a, <1>3b, <1>4, <1>10, <1>13, <1>15, ConductKept

-----------------------------------------------------------------------------
(* The environment.                                                         *)

\* Every step of a call keeps to the lifecycle.
LEMMA StepConducts ==
    ASSUME Order, NEW c \in Callers, Step(c)
    PROVE  Conduct'
  BY ReadConducts, CompareConducts, AssignConducts, FreeConducts, SnapshotConducts, DropSnapshotsConducts,
     DropRowConducts, RereadConducts, PrepareConducts, CleanupConducts, RuntimeConducts,
     KillUnreadyConducts, ShimConducts, TerminateConducts, DirectoryConducts, RefreshConducts,
     FilesConducts, MountConducts, UnmountConducts, RemoveConducts, RollBackConducts DEF Step

\* Nothing but the faults moves.
LEMMA HostFails ==
    ASSUME Order, UNCHANGED <<storeVars, hostVars, used>>, faults.kinds \subseteq faults'.kinds,
           NEW s \in Sandboxes
    PROVE  /\ Standing(s)'
           /\ s \in used => \A n, a : Knowing(s, n, a) => Knowing(s, n, a)'
<1>1. s \in used => Standing(s)' /\ \A n, a : Knowing(s, n, a) => Knowing(s, n, a)'
  BY NothingMoves DEF Order, Conduct
<1>2. s \notin used => Standing(s)'
  <2>1. s \notin used => Apart(s)
    BY DEF Apart, storeVars, hostVars, HasRow
  <2> QED  BY <2>1, StandsStill DEF Order, Conduct, storeVars, hostVars
<1> QED  BY <1>1, <1>2

\* A request is cancelled.
LEMMA CancelConducts ==
    ASSUME Order, NEW c \in Callers, Cancel(c)
    PROVE  Conduct'
<1>1. /\ UNCHANGED <<storeVars, hostVars, used>> /\ faults.kinds \subseteq faults'.kinds
      /\ "cancel" \in faults'.kinds /\ ~HostSound' /\ Active(c)
      /\ call' = [call EXCEPT ![c].cancelled = TRUE] /\ TypeOK
  BY DEF Cancel, Fault, HostSound, Order, TypeOK
<1>2. ASSUME NEW d \in Callers
      PROVE  /\ call'[d].box = call[d].box /\ call'[d].op = call[d].op /\ call'[d].slot = call[d].slot
             /\ call'[d].todo = call[d].todo /\ call'[d].seen = call[d].seen
             /\ d # c => call'[d] = call[d]
  BY <1>1 DEF TypeOK, CallRecords
<1>3. ASSUME NEW d \in Callers, call[d] # Idle
      PROVE  Active(d)' /\ Proper(call[d])'
  <2>1. Active(d) /\ Proper(call[d])
    BY <1>3 DEF Order, Conduct, Working
  <2>2. PICK a \in Points : Walks(call[d].box, call[d].todo, a) /\ Knowing(call[d].box, call[d].slot, a)
    BY <2>1 DEF Proper
  <2>3. PICK t, q, m : t = call[d].box /\ q = call[d].todo /\ m = call[d].slot
    OBVIOUS
  <2>4. t \in used /\ t \in Sandboxes
    BY <1>1, <2>1, <2>3 DEF Proper, TypeOK
  <2>5. Knowing(t, m, a)'
    BY <1>1, <2>2, <2>3, <2>4, HostFails
  <2>6. t = call'[d].box /\ q = call'[d].todo /\ m = call'[d].slot
    BY <1>2, <2>3
  <2>7. Walks(call'[d].box, call'[d].todo, a) /\ Knowing(call[d].box, call[d].slot, a)'
    BY <2>2, <2>3, <2>5, <2>6
  <2>8. Blind(call'[d].todo) \/ call'[d].seen = rows'[call'[d].box].state
    BY <1>1, <1>2, <2>1 DEF Proper, storeVars
  <2>9. call'[d].box \in used'
    BY <1>1, <1>2, <2>1 DEF Proper
  <2> QED  BY <1>1, <1>2, <2>1, <2>7, <2>8, <2>9 DEF Proper, Active
<1>4. Working'
  <2>1. \A d \in Callers : call[d] = Idle => call'[d] = Idle
    BY <1>1, <1>2 DEF Active, Idle
  <2> QED  BY <1>3, <2>1 DEF Working
<1>5. Serial'
  BY <1>2 DEF Serial, Box, Order, Conduct
<1>6. \A s \in Sandboxes : Standing(s)' /\ Reserved(s)'
  BY <1>1, HostFails DEF Reserved
<1> QED  BY <1>4, <1>5, <1>6 DEF Conduct

\* boxlet dies.
LEMMA CrashConducts ==
    ASSUME Order, Crash
    PROVE  Conduct'
<1>1. /\ UNCHANGED <<storeVars, hostVars, used>> /\ faults.kinds \subseteq faults'.kinds /\ ~HostSound'
      /\ \A c \in Callers : call'[c] = Idle
  BY DEF Crash, Fault, HostSound, Order, TypeOK
<1>2. Working' /\ Serial'
  <2>1. Idle.box = Nobody
    BY DEF Idle
  <2> QED  BY <1>1, <2>1 DEF Working, Serial, Box
<1>3. \A s \in Sandboxes : Standing(s)' /\ Reserved(s)'
  BY <1>1, HostFails DEF Reserved
<1> QED  BY <1>2, <1>3 DEF Conduct

\* Calls whose sandboxes another step leaves alone.
LEMMA OthersProper ==
    ASSUME Order, NEW s, Apart(s), NEW c \in Callers, call[c] # Idle, Box(c) # s, call'[c] = call[c]
    PROVE  Active(c)' /\ Proper(call[c])'
<1>1. Active(c) /\ Proper(call[c]) /\ TypeOK /\ SlotExclusive
  BY DEF Order, Conduct, Working
<1>2. PICK a \in Points : Walks(call[c].box, call[c].todo, a) /\ Knowing(call[c].box, call[c].slot, a)
  BY <1>1 DEF Proper
<1>3. PICK t, m : t = call[c].box /\ m = call[c].slot
  OBVIOUS
<1>4. t \in used /\ t \in Sandboxes /\ t # s
  BY <1>1, <1>3 DEF Proper, TypeOK, Box
<1>5. Knowing(t, m, a)'
  BY <1>1, <1>2, <1>3, <1>4, OtherKnows
<1>6. Walks(call'[c].box, call'[c].todo, a) /\ Knowing(call[c].box, call[c].slot, a)'
  BY <1>2, <1>3, <1>5
<1>7. Blind(call'[c].todo) \/ call'[c].seen = rows'[call'[c].box].state
  BY <1>1, <1>3, <1>4 DEF Proper, Apart
<1>8. call'[c].box \in used' /\ (call'[c].cancelled => "cancel" \in faults'.kinds)
  BY <1>1 DEF Proper, Apart
<1> QED  BY <1>1, <1>6, <1>7, <1>8 DEF Proper, Active

\* A runtime ends by itself.
LEMMA ExitConducts ==
    ASSUME Order, NEW s \in Sandboxes, RuntimeExits(s)
    PROVE  Conduct'
<1>1. /\ handle[s] = "live" /\ handle'[s] = "dead" /\ "vmexit" \in faults'.kinds
      /\ faults.kinds \subseteq faults'.kinds
      /\ UNCHANGED <<storeVars, stray, netns, route, rootfs, used, call>>
      /\ \A t \in Sandboxes \ {s} : handle'[t] = handle[t]
      /\ TypeOK /\ SlotExclusive /\ Conduct
  BY DEF RuntimeExits, Fault, Order, TypeOK
<1>2. Apart(s)
  BY <1>1, HostApart
<1>3. HostSound' => HostSound
  BY <1>2, ApartKeeps, <1>1
<1>4. ASSUME NEW c \in Callers, call[c] # Idle
      PROVE  Active(c)' /\ Proper(call[c])'
  <2>1. CASE Box(c) # s
    BY <1>1, <1>2, <1>4, <2>1, OthersProper
  <2>2. CASE Box(c) = s
    <3>1. Active(c) /\ Proper(call[c])
      BY <1>1, <1>4 DEF Conduct, Working
    <3>2. PICK a \in Points : Walks(call[c].box, call[c].todo, a) /\ Knowing(call[c].box, call[c].slot, a)
      BY <3>1 DEF Proper
    <3>3. PICK m : m = call[c].slot
      OBVIOUS
    <3>4. Knowing(s, m, a) /\ s = call[c].box /\ s \in used
      BY <2>2, <3>1, <3>2, <3>3 DEF Box, Proper
    <3>5. RuntimeIs(s, a.rt)'
      BY <1>1, <1>3, <3>4 DEF Knowing, RuntimeIs, Live, Gone
    <3>6. NetworkIs(s, m, a.net)'
      BY <1>1, <1>2, <3>4, NetworkStays DEF Knowing, Wired, storeVars
    <3>7. Knowing(s, m, a)'
      BY <1>1, <3>4, <3>5, <3>6 DEF Knowing, storeVars
    <3>8. Walks(call'[c].box, call'[c].todo, a) /\ Knowing(call[c].box, call[c].slot, a)'
      BY <1>1, <3>2, <3>3, <3>4, <3>7
    <3> QED  BY <1>1, <3>1, <3>8 DEF Proper, Active, storeVars
  <2> QED  BY <2>1, <2>2
<1>5. Working' /\ Serial'
  BY <1>1, <1>4 DEF Working, Serial, Box, Conduct
<1>6. ASSUME NEW t \in Sandboxes
      PROVE  Standing(t)' /\ Reserved(t)'
  <2>1. CASE t # s
    BY <1>1, <1>2, <2>1, OtherStands DEF Conduct, Reserved, Wired, HostSound, Apart, Box, storeVars
  <2>2. CASE t = s
    <3>1. rows' = rows /\ snaps' = snaps
      BY <1>1 DEF storeVars
    <3>2. NoneDeleted' = NoneDeleted
      BY <1>1, <3>1 DEF NoneDeleted, HasRow
    <3>3. HostSound' => rows[s].state \notin {"killed", "absent"}
      BY <1>1, <1>3 DEF Conduct, Standing, Gone
    <3>4. Standing(s)'
      BY <1>1, <1>3, <3>1, <3>2, <3>3 DEF Conduct, Standing, Live, HasRow
    <3>5. Reserved(s)'
      BY <1>1, <1>3, <3>1 DEF Conduct, Reserved, Wired, Box
    <3> QED  BY <2>2, <3>4, <3>5
  <2> QED  BY <2>1, <2>2
<1> QED  BY <1>5, <1>6 DEF Conduct

-----------------------------------------------------------------------------
(* A call arrives.                                                          *)

\* A call arrives that the lifecycle allows.
LEMMA BeginConducts ==
    ASSUME Order, Discipline = "lifecycle", NEW c \in Callers, NEW op \in Ops, NEW s \in Sandboxes,
           Begin(c, op, s)
    PROVE  Conduct'
<1> DEFINE k == [Idle EXCEPT !.op = op, !.box = s, !.slot = rows[s].slot, !.todo = StepsOf(op, s)]
<1>1. /\ ~Active(c) /\ op \in OpNames /\ "none" \notin OpNames
      /\ \A d \in Callers : Box(d) # s
      /\ rows[s].state \in LegalFrom(op)
      /\ op = "create" => InsertRow(s) /\ s \notin used /\ used' = used \union {s}
      /\ op # "create" => HasRow(s) /\ UNCHANGED storeVars /\ used' = used
      /\ call' = [call EXCEPT ![c] = k] /\ UNCHANGED <<hostVars, faults>>
  BY ServiceAssumption DEF Begin, Permitted, OpNames
<1>2. /\ k.op = op /\ k.box = s /\ k.slot = rows[s].slot /\ k.todo = StepsOf(op, s) /\ k.seen = "creating"
      /\ ~k.cancelled
  BY DEF Idle
<1> HIDE DEF k
<1>3. TypeOK /\ SlotExclusive /\ Conduct /\ Standing(s) /\ Reserved(s)
  BY DEF Order, Conduct
<1>4. call'[c] = k /\ \A d \in Callers : d # c => call'[d] = call[d]
  BY <1>1, <1>3 DEF TypeOK
<1>5. UNCHANGED <<handle, stray, netns, route, rootfs, snaps, faults>>
  BY <1>1 DEF hostVars, storeVars, InsertRow
<1>6. /\ \A t \in Sandboxes \ {s} : rows'[t] = rows[t]
      /\ HasRow(s)' /\ s \in used'
      /\ rows'[s].state = (IF op = "create" THEN "creating" ELSE rows[s].state)
      /\ rows'[s].slot = rows[s].slot
  <2>1. CASE op = "create"
    <3>1. rows' = [rows EXCEPT ![s] = [state |-> "creating", slot |-> 0]] /\ rows[s] = NoRow
      BY <1>1, <2>1 DEF InsertRow, HasRow
    <3>2. rows'[s] = [state |-> "creating", slot |-> 0] /\ \A t \in Sandboxes \ {s} : rows'[t] = rows[t]
      BY <1>3, <3>1 DEF TypeOK, StoreTypeOK
    <3> QED  BY <1>1, <2>1, <3>1, <3>2 DEF HasRow, NoRow
  <2>2. CASE op # "create"
    BY <1>1, <1>3, <2>2 DEF storeVars, HasRow, Standing
  <2> QED  BY <2>1, <2>2
<1>7. Apart(s)
  BY <1>1, <1>5, <1>6 DEF Apart
<1>8. PICK p \in States : p = rows'[s].state
  <2>1. op # "create" => rows[s].state \in States
    BY <1>1, <1>3, RowIs
  <2> QED  BY <1>6, <2>1 DEF States
<1>9. IF op = "create" THEN p = "creating" ELSE p = rows[s].state /\ p \in LegalFrom(op)
  BY <1>1, <1>6, <1>8
<1>10. PICK n : n = rows[s].slot
  OBVIOUS
<1> DEFINE b == Outset(op, p)
<1>11. Walks(s, StepsOf(op, s), b) /\ (op # "create" => Blind(StepsOf(op, s)))
  BY <1>1, <1>9, HandlerWalks
<1>12. /\ b.phase = p /\ b.rt = (IF op = "resume" THEN "idle" ELSE "any")
       /\ b.net = (IF op = "reboot" THEN "routed" ELSE "own") /\ b \in Points
  BY <1>8, PointParts, PointTypes DEF Outset, Points, Pt, Phases, Abilities, Links
<1>13. op = "create" => n = 0 /\ ~HasRow(s)
  BY <1>1, <1>10 DEF InsertRow, HasRow, NoRow
<1>14. Knowing(s, n, b)'
  <2>1. RuntimeIs(s, b.rt)'
    <3>1. op = "resume" => rows[s].state = "paused"
      BY <1>1 DEF LegalFrom
    <3> QED  BY <1>3, <1>5, <1>12, <3>1 DEF RuntimeIs, Standing
  <2>2. HostSound' /\ Wired(s)' => n > 0
    BY <1>1, <1>3, <1>5, <1>10 DEF Reserved, Wired, HostSound
  <2>3. op = "reboot" => n > 0 /\ (NoneDeleted' => route'[n] = s)
    <3>1. op = "reboot" => rows[s].state = "running"
      BY <1>1 DEF LegalFrom
    <3>2. NoneDeleted' => NoneDeleted
      BY <1>3, <1>7, ApartKeeps
    <3> QED  BY <1>3, <1>5, <1>10, <3>1, <3>2 DEF Standing
  <2>4. NetworkIs(s, n, b.net)'
    BY <1>6, <1>10, <1>12, <2>2, <2>3 DEF NetworkIs
  <2> HIDE DEF b
  <2> QED  BY <1>8, <1>12, <2>1, <2>4 DEF Knowing
<1> HIDE DEF b
<1>15. ASSUME NEW d \in Callers
       PROVE  call'[d] = Idle \/ (Active(d)' /\ Proper(call[d])')
  <2>1. CASE d # c
    BY <1>1, <1>4, <1>7, <2>1, OthersProper
  <2>2. CASE d = c
    <3>1. Walks(call'[c].box, call'[c].todo, b) /\ Knowing(call[c].box, call[c].slot, b)'
      <4>1. call'[c].box = s /\ call'[c].todo = StepsOf(op, s) /\ call'[c].slot = n
        BY <1>2, <1>4, <1>10
      <4> QED  BY <1>11, <1>14, <4>1
    <3>2. Blind(call'[c].todo) \/ call'[c].seen = rows'[call'[c].box].state
      BY <1>2, <1>4, <1>6, <1>11
    <3>3. call'[c].box \in used' /\ ~call'[c].cancelled /\ call'[c].op # "none"
      BY <1>1, <1>2, <1>4, <1>6
    <3> QED  BY <1>12, <2>2, <3>1, <3>2, <3>3 DEF Proper, Active
  <2> QED  BY <2>1, <2>2
<1>16. Serial'
  BY <1>1, <1>2, <1>3, <1>4 DEF Serial, Box, Conduct
<1>17. Standing(s)'
  <2>1. CASE op = "create"
    BY <1>3, <1>5, <1>6, <2>1 DEF Standing, HostSound
  <2>2. CASE op # "create"
    <3>1. rows' = rows /\ used' = used /\ NoneDeleted' = NoneDeleted
      BY <1>1, <2>2 DEF storeVars, NoneDeleted, HasRow
    <3> QED  BY <1>3, <1>5, <3>1 DEF Standing, HostSound, Live, Gone, HasRow
  <2> QED  BY <2>1, <2>2
<1>18. Box(c)' = s
  BY <1>2, <1>4 DEF Box
<1>19. ASSUME NEW t \in Sandboxes
       PROVE  Standing(t)' /\ Reserved(t)'
  <2>1. CASE t = s
    BY <1>17, <1>18, <2>1 DEF Reserved
  <2>2. CASE t # s
    <3>1. Standing(t)'
      BY <1>3, <1>7, <2>2, OtherStands DEF Conduct
    <3>2. ASSUME HostSound', Wired(t)'
          PROVE  rows'[t].slot > 0 \/ \E d \in Callers : Box(d)' = t
      <4>1. HostSound /\ Wired(t)
        BY <1>5, <3>2 DEF HostSound, Wired
      <4>2. CASE rows[t].slot > 0
        BY <1>6, <2>2, <4>2
      <4>3. CASE \E d \in Callers : Box(d) = t
        <5>1. PICK d \in Callers : Box(d) = t
          BY <4>3
        <5>2. d # c
          <6>1. call[c] = Idle /\ Idle.box = Nobody
            BY <1>1, <1>3 DEF Conduct, Working, Idle
          <6> QED  BY <5>1, <6>1, ServiceAssumption DEF Box
        <5> QED  BY <1>4, <5>1, <5>2 DEF Box
      <4> QED  BY <1>3, <4>1, <4>2, <4>3 DEF Conduct, Reserved
    <3> QED  BY <3>1, <3>2 DEF Reserved
  <2> QED  BY <2>1, <2>2
<1> QED  BY <1>15, <1>16, <1>19 DEF Conduct, Working

-----------------------------------------------------------------------------
(* The theorems.                                                            *)

\* The phase of one sandbox moves as the lifecycle allows, or none does.
Moved ==
    \/ \A t \in Sandboxes : rows'[t].state = rows[t].state
    \/ \E s \in Sandboxes, y \in Phases :
          /\ Leads(rows[s].state, y) /\ rows'[s].state = y
          /\ \A t \in Sandboxes \ {s} : rows'[t].state = rows[t].state

\* A write to the row of the sandbox of a call is a move of the lifecycle.
LEMMA StepMoves ==
    ASSUME Order, NEW c \in Callers, Step(c)
    PROVE  Moved
<1>1. CASE CompareAndSet(c)
  <2>1. PICK s, q, a, m : Facing(c, s, q, a, m)
    BY <1>1, Faces DEF CompareAndSet, At
  <2>2. /\ q[1].do = "cas" /\ s = Box(c) /\ s \in Sandboxes /\ q[1].arg = Arg(c) /\ MayDo(q[1], a)
        /\ rows[s].state = a.phase /\ TypeOK
    BY <1>1, <2>1, Faced DEF CompareAndSet
  <2>3. CASE UNCHANGED storeVars
    BY <2>3 DEF Moved, storeVars
  <2>4. CASE UpdateState(s, call[c].seen, Arg(c))
    <3> DEFINE y == Arg(c)
    <3>1. Leads(rows[s].state, y) /\ y \in States /\ a.phase # "absent"
      BY <2>2 DEF MayDo, MayEnter
    <3>2. rows[s] \in [state : States, slot : 0..MaxSlot] /\ DOMAIN rows = Sandboxes
      BY <2>2, <3>1, RowIs DEF TypeOK, StoreTypeOK, HasRow
    <3>3. rows' = [rows EXCEPT ![s] = [rows[s] EXCEPT !.state = y]]
      BY <2>2, <2>4, <3>2 DEF UpdateState
    <3> HIDE DEF y
    <3>4. rows'[s].state = y /\ \A t \in Sandboxes \ {s} : rows'[t] = rows[t]
      BY <2>2, <3>2, <3>3
    <3> QED  BY <2>2, <3>1, <3>4 DEF Moved, Phases
  <2> QED  BY <1>1, <2>2, <2>3, <2>4 DEF CompareAndSet
<1>2. CASE Assign(c) \/ Free(c)
  <2>1. /\ TypeOK
        /\ \/ UNCHANGED storeVars
           \/ Box(c) \in Sandboxes /\ HasRow(Box(c)) /\ \E n : rows' = [rows EXCEPT ![Box(c)].slot = n]
    <3>1. PICK s, q, a, m : Facing(c, s, q, a, m)
      BY <1>2, Faces DEF Assign, Free, At
    <3>2. Box(c) \in Sandboxes /\ TypeOK
      BY <3>1, Faced
    <3> QED  BY <1>2, <3>2 DEF Assign, Free, AssignSlot, FreeSlot, storeVars
  <2>2. CASE UNCHANGED storeVars
    BY <2>2 DEF Moved, storeVars
  <2>3. CASE Box(c) \in Sandboxes /\ HasRow(Box(c)) /\ \E n : rows' = [rows EXCEPT ![Box(c)].slot = n]
    <3>1. PICK s, n : s = Box(c) /\ s \in Sandboxes /\ HasRow(s) /\ rows' = [rows EXCEPT ![s].slot = n]
      BY <2>3
    <3>2. rows[s] \in [state : States, slot : 0..MaxSlot] /\ DOMAIN rows = Sandboxes
      BY <2>1, <3>1 DEF TypeOK, StoreTypeOK, HasRow
    <3>3. rows' = [rows EXCEPT ![s] = [rows[s] EXCEPT !.slot = n]]
      BY <3>1, <3>2
    <3>4. rows'[s].state = rows[s].state /\ \A t \in Sandboxes \ {s} : rows'[t] = rows[t]
      BY <3>1, <3>2, <3>3
    <3> QED  BY <3>4 DEF Moved
  <2> QED  BY <2>1, <2>2, <2>3
<1>3. CASE DropRow(c)
  <2>1. PICK s, q, a, m : Facing(c, s, q, a, m)
    BY <1>3, Faces DEF DropRow, At
  <2>2. /\ q[1].do = "delrow" /\ s = Box(c) /\ s \in Sandboxes /\ MayDo(q[1], a)
        /\ rows[s].state = a.phase /\ TypeOK
    BY <1>3, <2>1, Faced DEF DropRow
  <2>3. CASE UNCHANGED storeVars
    BY <2>3 DEF Moved, storeVars
  <2>4. CASE DeleteRow(s)
    <3>1. Leads(rows[s].state, "absent")
      BY <2>2, LegalMoves DEF MayDo
    <3>2. rows'[s].state = "absent" /\ \A t \in Sandboxes \ {s} : rows'[t] = rows[t]
      BY <2>2, <2>4 DEF DeleteRow, TypeOK, StoreTypeOK, NoRow
    <3> QED  BY <2>2, <3>1, <3>2 DEF Moved, Phases
  <2> QED  BY <1>3, <2>2, <2>3, <2>4 DEF DropRow
<1>4. CASE rows' = rows
  BY <1>4 DEF Moved
<1>5. \/ CompareAndSet(c) \/ Assign(c) \/ Free(c) \/ DropRow(c) \/ rows' = rows
  BY DEF Step, ReadState, RecordSnapshot, DropSnapshots, Reread, PrepareNetwork, CleanupNetwork, CallRuntime,
         KillUnready, EnsureShim, TerminateShim, RemoveDirectory, RefreshAgent, PrepareFiles, MountRootfs,
         UnmountRootfs, RemoveRootfs, RollBack, storeVars, InsertSnapshot, DeleteSnapshots
<1> QED  BY <1>1, <1>2, <1>3, <1>4, <1>5

\* Every step of the service keeps to the lifecycle.
LEMMA ServiceConducts ==
    ASSUME Discipline = "lifecycle", Order, [Next]_vars
    PROVE  Conduct' /\ Moved
<1>1. ASSUME NEW c \in Callers, NEW op \in Ops, NEW s \in Sandboxes, Begin(c, op, s)
      PROVE  Conduct' /\ Moved
  <2>1. Conduct'
    BY <1>1, BeginConducts
  <2>2. CASE op = "create"
    <3>1. /\ rows[s].state = "absent" /\ rows'[s].state = "creating"
          /\ \A t \in Sandboxes \ {s} : rows'[t] = rows[t]
      BY <1>1, <2>2 DEF Begin, InsertRow, HasRow, NoRow, Order, TypeOK, StoreTypeOK
    <3>2. Leads("absent", "creating") /\ "creating" \in Phases
      BY LegalMoves DEF Phases, States
    <3> QED  BY <2>1, <3>1, <3>2 DEF Moved
  <2>3. CASE op # "create"
    BY <1>1, <2>1, <2>3 DEF Begin, Moved, storeVars
  <2> QED  BY <2>2, <2>3
<1>2. ASSUME NEW c \in Callers, Step(c)
      PROVE  Conduct' /\ Moved
  BY <1>2, StepConducts, StepMoves
<1>3. ASSUME NEW c \in Callers, Cancel(c)
      PROVE  Conduct' /\ Moved
  BY <1>3, CancelConducts DEF Cancel, Moved, storeVars
<1>4. CASE Crash
  BY <1>4, CrashConducts DEF Crash, Moved, storeVars
<1>5. ASSUME NEW s \in Sandboxes, RuntimeExits(s)
      PROVE  Conduct' /\ Moved
  BY <1>5, ExitConducts DEF RuntimeExits, Moved, storeVars
<1>6. CASE UNCHANGED vars \/ Quiet
  <2>1. UNCHANGED <<rows, snaps, handle, stray, netns, route, rootfs, used, call, calls, faults>>
    BY <1>6 DEF Quiet, vars, storeVars, hostVars
  <2>2. Moved
    BY <2>1 DEF Moved
  <2>3. Conduct'
    <3>1. \A s \in Sandboxes : Standing(s)' /\ Reserved(s)'
      BY <2>1 DEF Order, Conduct, Standing, Reserved, Live, Gone, HasRow, Wired, HostSound, NoneDeleted, Box
    <3>2. \A d \in Callers : Proper(call[d]) => Proper(call[d])'
      BY <2>1 DEF Proper, Knowing, RuntimeIs, NetworkIs, Live, Gone, HasRow, Wired, HostSound, NoneDeleted
    <3> QED  BY <2>1, <3>1, <3>2 DEF Order, Conduct, Working, Serial, Box, Active
  <2> QED  BY <2>2, <2>3
<1> QED  BY <1>1, <1>2, <1>3, <1>4, <1>5, <1>6 DEF Next

\* Calls of clients that keep to the documented lifecycle, one at a time for each sandbox, always
\* have a walk before them, and every sandbox is in order.
THEOREM LifecycleConduct == Discipline = "lifecycle" => (Spec => []Conduct)
<1> SUFFICES ASSUME Discipline = "lifecycle" PROVE Spec => []Conduct
  OBVIOUS
<1>1. Init => Conduct
  <2> SUFFICES ASSUME Init PROVE Conduct
    OBVIOUS
  <2>1. \A s \in Sandboxes : Standing(s) /\ Reserved(s)
    <3> SUFFICES ASSUME NEW s \in Sandboxes PROVE Standing(s) /\ Reserved(s)
      OBVIOUS
    <3>1. rows[s] = NoRow /\ handle[s] = "none" /\ rootfs[s] = "none" /\ s \notin stray /\ s \notin snaps
          /\ ~Wired(s)
      BY ServiceAssumption DEF Init, StoreInit, Wired
    <3> QED  BY <3>1 DEF Standing, Reserved, Gone, HasRow, NoRow
  <2>2. \A c \in Callers : call[c] = Idle /\ Box(c) = Nobody
    BY DEF Init, Idle, Box
  <2> QED  BY <2>1, <2>2 DEF Conduct, Working, Serial
<1>2. ServiceInv /\ TypeOK /\ SlotExclusive /\ Conduct /\ [Next]_vars => Conduct'
  BY ServiceConducts DEF Order, ServiceInv
<1> QED  BY <1>1, <1>2, ServiceInvariant, ServiceTypes, ServiceSlotsExclusive, PTL DEF Spec

\* Whatever fails, the rows move as the state machine of docs/architecture/lifecycle.md draws it:
\* the handlers implement SandboxLifecycle for any sandboxes, slots, calls and faults.
THEOREM HandlersFollowLifecycle == Discipline = "lifecycle" => (Spec => ImplementsLifecycle)
<1> SUFFICES ASSUME Discipline = "lifecycle" PROVE Spec => ImplementsLifecycle
  OBVIOUS
<1>1. Init => Lifecycle!Init
  BY DEF Init, StoreInit, NoRow, Lifecycle!Init
<1>2. ServiceInv /\ TypeOK /\ SlotExclusive /\ Conduct /\ [Next]_vars
      => [Lifecycle!Next]_[s \in Sandboxes |-> rows[s].state]
  <2> SUFFICES ASSUME ServiceInv, TypeOK, SlotExclusive, Conduct, [Next]_vars
               PROVE  [Lifecycle!Next]_[s \in Sandboxes |-> rows[s].state]
    OBVIOUS
  <2>1. Moved
    BY ServiceConducts DEF Order, ServiceInv
  <2>2. CASE \A t \in Sandboxes : rows'[t].state = rows[t].state
    BY <2>2
  <2>3. ASSUME NEW s \in Sandboxes, NEW y \in Phases, Leads(rows[s].state, y), rows'[s].state = y,
               \A t \in Sandboxes \ {s} : rows'[t].state = rows[t].state
        PROVE  [Lifecycle!Next]_[u \in Sandboxes |-> rows[u].state]
    <3> DEFINE f == [u \in Sandboxes |-> rows[u].state]
               g == [u \in Sandboxes |-> rows'[u].state]
    <3>1. g = [f EXCEPT ![s] = y] /\ f[s] = rows[s].state
      BY <2>3
    <3>2. CASE rows[s].state = y
      BY <2>3, <3>2
    <3>3. CASE Lifecycle!Legal(rows[s].state, y)
      <4>1. y \in DOMAIN Lifecycle!Goal \union {"running", "paused", "stopped", "killed", "failed", "absent"}
        BY DEF Phases, States, Lifecycle!Goal
      <4>2. Lifecycle!Move(s)
        BY <3>1, <3>3, <4>1 DEF Lifecycle!Move
      <4> QED  BY <4>2 DEF Lifecycle!Next
    <3> QED  BY <2>3, <3>2, <3>3 DEF Leads
  <2> QED  BY <2>1, <2>2, <2>3 DEF Moved
<1> QED  BY <1>1, <1>2, LifecycleConduct, ServiceInvariant, ServiceTypes, ServiceSlotsExclusive, PTL
         DEF Spec, ImplementsLifecycle, Lifecycle!Spec

\* Whatever fails, a running sandbox has a slot whose route leads to it, until a sandbox has been
\* deleted: no Cleanup of one call runs after another call has been given its slot.
THEOREM RunningKeepRoutes == Discipline = "lifecycle" => (Spec => []RouteKept)
<1> SUFFICES ASSUME Discipline = "lifecycle" PROVE Spec => []RouteKept
  OBVIOUS
<1>1. Conduct => RouteKept
  BY DEF Conduct, Standing, RouteKept, RouteServesOwner
<1> QED  BY <1>1, LifecycleConduct, PTL

\* Whatever fails, a running sandbox has a live runtime behind its shim, and a paused or stopped
\* one has none, until a runtime exits by itself.
THEOREM RuntimesMatchRows == Discipline = "lifecycle" => (Spec => []RuntimeMatchesRow)
<1> SUFFICES ASSUME Discipline = "lifecycle" PROVE Spec => []RuntimeMatchesRow
  OBVIOUS
<1>1. Conduct => RuntimeMatchesRow
  BY DEF Conduct, Standing, Live, RuntimeMatchesRow
<1> QED  BY <1>1, LifecycleConduct, PTL

\* As long as host commands, RPCs, contexts and boxlet itself do not fail, no shim is lost that
\* has a runtime, and no runtime is replaced by another one.
THEOREM RuntimesAreReachable == Discipline = "lifecycle" => (Spec => []NoStrayRuntime)
<1> SUFFICES ASSUME Discipline = "lifecycle" PROVE Spec => []NoStrayRuntime
  OBVIOUS
<1>1. Conduct /\ TypeOK => NoStrayRuntime
  BY DEF Conduct, Standing, TypeOK, NoStrayRuntime
<1> QED  BY <1>1, LifecycleConduct, ServiceTypes, PTL

\* Under the same condition a sandbox without a row has neither shim, runtime, namespace, route,
\* rootfs nor snapshot records.
THEOREM DeletedLeaveNothing == Discipline = "lifecycle" => (Spec => []GoneLeavesNothing)
<1> SUFFICES ASSUME Discipline = "lifecycle" PROVE Spec => []GoneLeavesNothing
  OBVIOUS
<1>1. Conduct /\ TypeOK => GoneLeavesNothing
  <2> SUFFICES ASSUME Conduct, TypeOK, HostSound, NEW s \in Sandboxes, Quiescent(s), ~HasRow(s)
               PROVE  /\ handle[s] = "none" /\ s \notin stray
                      /\ s \notin netns /\ \A n \in Slots : route[n] # s
                      /\ rootfs[s] = "none" /\ s \notin snaps
    BY DEF GoneLeavesNothing
  <2>1. rows[s].state = "absent" /\ rows[s].slot = 0
    BY RowIs
  <2>2. ~Wired(s)
    BY <2>1 DEF Conduct, Reserved, Quiescent
  <2> QED  BY <2>1, <2>2 DEF Conduct, Standing, Gone, Wired
<1> QED  BY <1>1, LifecycleConduct, ServiceTypes, PTL
-----------------------------------------------------------------------------
(* Without a fault.                                                         *)

VMs == Sandboxes \ Containers

\* What is known of a VM as long as nothing has failed: what its shim leads to, and
\* whether the route of its slot does to it.
Vitals == [rt : {"any", "none", "empty", "live", "idle"}, net : {"any", "routed"}]
Vt(r, l) == [rt |-> r, net |-> l]

VitalAfter(x, v) ==
    CASE x.do = "shim" -> Vt("empty", v.net)
      [] x.do = "rpc"  -> Vt(IF x.arg = "Kill" THEN "any" ELSE Yields(x.arg), v.net)
      [] x.do = "net"  -> Vt(v.rt, "routed")
      [] x.do \in {"assign", "cleanup", "free"} -> Vt(v.rt, "any")
      [] x.do \in {"terminate", "rmdir"} -> Vt("any", v.net)
      [] OTHER -> v

\* Step x does not fail at v, and does not say that something has.
Bears(x, v) ==
    /\ x.do \notin {"mount", "unmount", "remove", "bgkill"}
    /\ x.do \in {"set", "cas"} => x.arg # "failed"
    /\ x.do = "shim"  => v.rt = "none"
    /\ x.do = "agent" => v.rt = "live" /\ v.net = "routed"
    /\ x.do = "rpc" =>
          /\ x.arg = "Create" => v.rt = "empty"
          /\ x.arg \in {"Resume", "Start"} => v.rt = "idle"
          /\ x.arg \in {"Pause", "Stop", "Reboot"} => v.rt = "live"
          /\ x.arg \in {"Create", "Resume", "Start", "Reboot"} => v.net = "routed"
          /\ x.arg = "Kill" => x.err = "ignore"

\* w is what is known before each of the steps q, and after the last.
Course(q, w) ==
    /\ Len(w) = Len(q) + 1
    /\ \A i \in 1..Len(q) : Bears(q[i], w[i]) /\ w[i + 1] = VitalAfter(q[i], w[i])

\* None of the steps q fails when a handler that knows v takes them.
Sails(q, v) == \E w \in Seq(Vitals) : Course(q, w) /\ w[1] = v

\* What a handler starts with.
Departure(op) ==
    CASE op = "create"             -> Vt("none", "any")
      [] op \in {"resume", "start"} -> Vt("idle", "any")
      [] op \in {"pause", "stop"}   -> Vt("live", "any")
      [] op = "reboot"             -> Vt("live", "routed")
      [] OTHER                     -> Vt("any", "any")

\* That is so of s, for a call that holds slot n.
Vital(s, n, v) ==
    /\ v.rt # "any" => handle[s] = v.rt
    /\ v.net = "routed" => n \in Slots /\ n = rows[s].slot /\ route[n] = s

Hearty(k) == \E v \in Vitals : Sails(k.todo, v) /\ Vital(k.box, k.slot, v)

Healthy == faults.n = 0 /\ NoneDeleted

\* Routes lead to namespaces that are there; and until a fault or a deletion no VM has
\* failed, and no step of a handler of one will.
Health ==
    /\ faults.n = 0 => faults.kinds = {}
    /\ \A n \in Slots : route[n] \in Sandboxes => route[n] \in netns
    /\ Healthy => /\ \A s \in VMs : rows[s].state # "failed"
                  /\ \A c \in Callers : Box(c) \in VMs => Hearty(call[c])

\* What is known of a VM, in the parts it has.
LEMMA VitalTypes ==
    /\ \A r \in {"any", "none", "empty", "live", "idle"}, l \in {"any", "routed"} : Vt(r, l) \in Vitals
    /\ \A r, l : Vt(r, l).rt = r /\ Vt(r, l).net = l
    /\ \A v \in Vitals : /\ v = Vt(v.rt, v.net)
                         /\ v.rt \in {"any", "none", "empty", "live", "idle"} /\ v.net \in {"any", "routed"}
  BY DEF Vitals, Vt

\* No step of the handlers fails, from a VM in the state that the lifecycle gives the operation.
LEMMA HandlersSail ==
    ASSUME NEW op \in OpNames, NEW s \in VMs
    PROVE  Sails(StepsOf(op, s), Departure(op))
<1>1. Sails(CreateSteps, Vt("none", "any"))
  <2> DEFINE q == CreateSteps
             w == <<Vt("none", "any"), Vt("none", "any"), Vt("none", "any"), Vt("none", "routed"),
                 Vt("empty", "routed"), Vt("live", "routed"), Vt("live", "routed"),
                 Vt("live", "routed")>>
  <2>1. /\ Len(q) = 7
        /\ q[1] = Do("assign", "casFailed") /\ q[2] = Do("files", "casAbandon")
        /\ q[3] = Do("net", "casAbandon") /\ q[4] = Do("shim", "casAbandon")
        /\ q[5] = Rpc("Create", "casAbandon") /\ q[6] = Do("agent", "killAbandon")
        /\ q[7] = Cas("running", "return")
    BY DEF CreateSteps
  <2>2. /\ w \in Seq(Vitals) /\ Len(w) = 8
        /\ w[1] = Vt("none", "any") /\ w[2] = Vt("none", "any") /\ w[3] = Vt("none", "any")
        /\ w[4] = Vt("none", "routed") /\ w[5] = Vt("empty", "routed")
        /\ w[6] = Vt("live", "routed") /\ w[7] = Vt("live", "routed")
        /\ w[8] = Vt("live", "routed")
    BY VitalTypes
  <2> HIDE DEF q, w
  <2>3. Bears(q[1], w[1]) /\ w[2] = VitalAfter(q[1], w[1])
    BY <2>1, <2>2, Fields, VitalTypes DEF Bears, VitalAfter, Yields
  <2>4. Bears(q[2], w[2]) /\ w[3] = VitalAfter(q[2], w[2])
    BY <2>1, <2>2, Fields, VitalTypes DEF Bears, VitalAfter, Yields
  <2>5. Bears(q[3], w[3]) /\ w[4] = VitalAfter(q[3], w[3])
    BY <2>1, <2>2, Fields, VitalTypes DEF Bears, VitalAfter, Yields
  <2>6. Bears(q[4], w[4]) /\ w[5] = VitalAfter(q[4], w[4])
    BY <2>1, <2>2, Fields, VitalTypes DEF Bears, VitalAfter, Yields
  <2>7. Bears(q[5], w[5]) /\ w[6] = VitalAfter(q[5], w[5])
    BY <2>1, <2>2, Fields, VitalTypes DEF Bears, VitalAfter, Yields
  <2>8. Bears(q[6], w[6]) /\ w[7] = VitalAfter(q[6], w[6])
    BY <2>1, <2>2, Fields, VitalTypes DEF Bears, VitalAfter, Yields
  <2>9. Bears(q[7], w[7]) /\ w[8] = VitalAfter(q[7], w[7])
    BY <2>1, <2>2, Fields, VitalTypes DEF Bears, VitalAfter, Yields
  <2>10. \A i \in 1..Len(q) : i \in {1, 2, 3, 4, 5, 6, 7}
    BY <2>1
  <2>11. Course(q, w)
    BY <2>1, <2>2, <2>3, <2>4, <2>5, <2>6, <2>7, <2>8, <2>9, <2>10 DEF Course
  <2> QED  BY <2>2, <2>11 DEF Sails, q
<1>2. Sails(PauseList, Vt("live", "any"))
  <2> DEFINE q == PauseList
             w == <<Vt("live", "any"), Vt("live", "any"), Vt("idle", "any"), Vt("idle", "any"),
                 Vt("idle", "any"), Vt("idle", "any"), Vt("idle", "any")>>
  <2>1. /\ Len(q) = 6
        /\ q[1] = Set("pausing", "return") /\ q[2] = Rpc("Pause", "setFailed")
        /\ q[3] = Do("snapshot", "return") /\ q[4] = Set("paused", "return")
        /\ q[5] = Do("cleanup", "return") /\ q[6] = Do("free", "return")
    BY DEF PauseList
  <2>2. /\ w \in Seq(Vitals) /\ Len(w) = 7
        /\ w[1] = Vt("live", "any") /\ w[2] = Vt("live", "any") /\ w[3] = Vt("idle", "any")
        /\ w[4] = Vt("idle", "any") /\ w[5] = Vt("idle", "any") /\ w[6] = Vt("idle", "any")
        /\ w[7] = Vt("idle", "any")
    BY VitalTypes
  <2> HIDE DEF q, w
  <2>3. Bears(q[1], w[1]) /\ w[2] = VitalAfter(q[1], w[1])
    BY <2>1, <2>2, Fields, VitalTypes DEF Bears, VitalAfter, Yields
  <2>4. Bears(q[2], w[2]) /\ w[3] = VitalAfter(q[2], w[2])
    BY <2>1, <2>2, Fields, VitalTypes DEF Bears, VitalAfter, Yields
  <2>5. Bears(q[3], w[3]) /\ w[4] = VitalAfter(q[3], w[3])
    BY <2>1, <2>2, Fields, VitalTypes DEF Bears, VitalAfter, Yields
  <2>6. Bears(q[4], w[4]) /\ w[5] = VitalAfter(q[4], w[4])
    BY <2>1, <2>2, Fields, VitalTypes DEF Bears, VitalAfter, Yields
  <2>7. Bears(q[5], w[5]) /\ w[6] = VitalAfter(q[5], w[5])
    BY <2>1, <2>2, Fields, VitalTypes DEF Bears, VitalAfter, Yields
  <2>8. Bears(q[6], w[6]) /\ w[7] = VitalAfter(q[6], w[6])
    BY <2>1, <2>2, Fields, VitalTypes DEF Bears, VitalAfter, Yields
  <2>9. \A i \in 1..Len(q) : i \in {1, 2, 3, 4, 5, 6}
    BY <2>1
  <2>10. Course(q, w)
    BY <2>1, <2>2, <2>3, <2>4, <2>5, <2>6, <2>7, <2>8, <2>9 DEF Course
  <2> QED  BY <2>2, <2>10 DEF Sails, q
<1>3. Sails(ResumeSteps, Vt("idle", "any"))
  <2> DEFINE q == ResumeSteps
             w == <<Vt("idle", "any"), Vt("idle", "any"), Vt("idle", "any"), Vt("idle", "routed"),
                 Vt("live", "routed"), Vt("live", "routed"), Vt("live", "routed")>>
  <2>1. /\ Len(q) = 6
        /\ q[1] = Set("resuming", "return") /\ q[2] = Do("assign", "setFailed")
        /\ q[3] = Do("net", "setAbandon") /\ q[4] = Rpc("Resume", "setAbandon")
        /\ q[5] = Do("agent", "setAbandon") /\ q[6] = Set("running", "return")
    BY DEF ResumeSteps
  <2>2. /\ w \in Seq(Vitals) /\ Len(w) = 7
        /\ w[1] = Vt("idle", "any") /\ w[2] = Vt("idle", "any") /\ w[3] = Vt("idle", "any")
        /\ w[4] = Vt("idle", "routed") /\ w[5] = Vt("live", "routed")
        /\ w[6] = Vt("live", "routed") /\ w[7] = Vt("live", "routed")
    BY VitalTypes
  <2> HIDE DEF q, w
  <2>3. Bears(q[1], w[1]) /\ w[2] = VitalAfter(q[1], w[1])
    BY <2>1, <2>2, Fields, VitalTypes DEF Bears, VitalAfter, Yields
  <2>4. Bears(q[2], w[2]) /\ w[3] = VitalAfter(q[2], w[2])
    BY <2>1, <2>2, Fields, VitalTypes DEF Bears, VitalAfter, Yields
  <2>5. Bears(q[3], w[3]) /\ w[4] = VitalAfter(q[3], w[3])
    BY <2>1, <2>2, Fields, VitalTypes DEF Bears, VitalAfter, Yields
  <2>6. Bears(q[4], w[4]) /\ w[5] = VitalAfter(q[4], w[4])
    BY <2>1, <2>2, Fields, VitalTypes DEF Bears, VitalAfter, Yields
  <2>7. Bears(q[5], w[5]) /\ w[6] = VitalAfter(q[5], w[5])
    BY <2>1, <2>2, Fields, VitalTypes DEF Bears, VitalAfter, Yields
  <2>8. Bears(q[6], w[6]) /\ w[7] = VitalAfter(q[6], w[6])
    BY <2>1, <2>2, Fields, VitalTypes DEF Bears, VitalAfter, Yields
  <2>9. \A i \in 1..Len(q) : i \in {1, 2, 3, 4, 5, 6}
    BY <2>1
  <2>10. Course(q, w)
    BY <2>1, <2>2, <2>3, <2>4, <2>5, <2>6, <2>7, <2>8, <2>9 DEF Course
  <2> QED  BY <2>2, <2>10 DEF Sails, q
<1>4. Sails(StartList, Vt("idle", "any"))
  <2> DEFINE q == StartList
             w == <<Vt("idle", "any"), Vt("idle", "any"), Vt("idle", "any"), Vt("idle", "routed"),
                 Vt("live", "routed"), Vt("live", "routed"), Vt("live", "routed")>>
  <2>1. /\ Len(q) = 6
        /\ q[1] = Set("starting", "return") /\ q[2] = Do("assign", "setFailed")
        /\ q[3] = Do("net", "setAbandon") /\ q[4] = Rpc("Start", "setAbandon")
        /\ q[5] = Do("agent", "setAbandon") /\ q[6] = Set("running", "return")
    BY DEF StartList
  <2>2. /\ w \in Seq(Vitals) /\ Len(w) = 7
        /\ w[1] = Vt("idle", "any") /\ w[2] = Vt("idle", "any") /\ w[3] = Vt("idle", "any")
        /\ w[4] = Vt("idle", "routed") /\ w[5] = Vt("live", "routed")
        /\ w[6] = Vt("live", "routed") /\ w[7] = Vt("live", "routed")
    BY VitalTypes
  <2> HIDE DEF q, w
  <2>3. Bears(q[1], w[1]) /\ w[2] = VitalAfter(q[1], w[1])
    BY <2>1, <2>2, Fields, VitalTypes DEF Bears, VitalAfter, Yields
  <2>4. Bears(q[2], w[2]) /\ w[3] = VitalAfter(q[2], w[2])
    BY <2>1, <2>2, Fields, VitalTypes DEF Bears, VitalAfter, Yields
  <2>5. Bears(q[3], w[3]) /\ w[4] = VitalAfter(q[3], w[3])
    BY <2>1, <2>2, Fields, VitalTypes DEF Bears, VitalAfter, Yields
  <2>6. Bears(q[4], w[4]) /\ w[5] = VitalAfter(q[4], w[4])
    BY <2>1, <2>2, Fields, VitalTypes DEF Bears, VitalAfter, Yields
  <2>7. Bears(q[5], w[5]) /\ w[6] = VitalAfter(q[5], w[5])
    BY <2>1, <2>2, Fields, VitalTypes DEF Bears, VitalAfter, Yields
  <2>8. Bears(q[6], w[6]) /\ w[7] = VitalAfter(q[6], w[6])
    BY <2>1, <2>2, Fields, VitalTypes DEF Bears, VitalAfter, Yields
  <2>9. \A i \in 1..Len(q) : i \in {1, 2, 3, 4, 5, 6}
    BY <2>1
  <2>10. Course(q, w)
    BY <2>1, <2>2, <2>3, <2>4, <2>5, <2>6, <2>7, <2>8, <2>9 DEF Course
  <2> QED  BY <2>2, <2>10 DEF Sails, q
<1>5. Sails(StopList, Vt("live", "any"))
  <2> DEFINE q == StopList
             w == <<Vt("live", "any"), Vt("live", "any"), Vt("idle", "any"), Vt("idle", "any"),
                 Vt("idle", "any"), Vt("idle", "any")>>
  <2>1. /\ Len(q) = 5
        /\ q[1] = Set("stopping", "return") /\ q[2] = Rpc("Stop", "setFailed")
        /\ q[3] = Set("stopped", "return") /\ q[4] = Do("cleanup", "return")
        /\ q[5] = Do("free", "return")
    BY DEF StopList
  <2>2. /\ w \in Seq(Vitals) /\ Len(w) = 6
        /\ w[1] = Vt("live", "any") /\ w[2] = Vt("live", "any") /\ w[3] = Vt("idle", "any")
        /\ w[4] = Vt("idle", "any") /\ w[5] = Vt("idle", "any") /\ w[6] = Vt("idle", "any")
    BY VitalTypes
  <2> HIDE DEF q, w
  <2>3. Bears(q[1], w[1]) /\ w[2] = VitalAfter(q[1], w[1])
    BY <2>1, <2>2, Fields, VitalTypes DEF Bears, VitalAfter, Yields
  <2>4. Bears(q[2], w[2]) /\ w[3] = VitalAfter(q[2], w[2])
    BY <2>1, <2>2, Fields, VitalTypes DEF Bears, VitalAfter, Yields
  <2>5. Bears(q[3], w[3]) /\ w[4] = VitalAfter(q[3], w[3])
    BY <2>1, <2>2, Fields, VitalTypes DEF Bears, VitalAfter, Yields
  <2>6. Bears(q[4], w[4]) /\ w[5] = VitalAfter(q[4], w[4])
    BY <2>1, <2>2, Fields, VitalTypes DEF Bears, VitalAfter, Yields
  <2>7. Bears(q[5], w[5]) /\ w[6] = VitalAfter(q[5], w[5])
    BY <2>1, <2>2, Fields, VitalTypes DEF Bears, VitalAfter, Yields
  <2>8. \A i \in 1..Len(q) : i \in {1, 2, 3, 4, 5}
    BY <2>1
  <2>9. Course(q, w)
    BY <2>1, <2>2, <2>3, <2>4, <2>5, <2>6, <2>7, <2>8 DEF Course
  <2> QED  BY <2>2, <2>9 DEF Sails, q
<1>6. Sails(RebootSteps, Vt("live", "routed"))
  <2> DEFINE q == RebootSteps
             w == <<Vt("live", "routed"), Vt("live", "routed"), Vt("live", "routed"),
                 Vt("live", "routed")>>
  <2>1. /\ Len(q) = 3
        /\ q[1] = Set("rebooting", "return") /\ q[2] = Rpc("Reboot", "setFailed")
        /\ q[3] = Set("running", "return")
    BY DEF RebootSteps
  <2>2. /\ w \in Seq(Vitals) /\ Len(w) = 4
        /\ w[1] = Vt("live", "routed") /\ w[2] = Vt("live", "routed")
        /\ w[3] = Vt("live", "routed") /\ w[4] = Vt("live", "routed")
    BY VitalTypes
  <2> HIDE DEF q, w
  <2>3. Bears(q[1], w[1]) /\ w[2] = VitalAfter(q[1], w[1])
    BY <2>1, <2>2, Fields, VitalTypes DEF Bears, VitalAfter, Yields
  <2>4. Bears(q[2], w[2]) /\ w[3] = VitalAfter(q[2], w[2])
    BY <2>1, <2>2, Fields, VitalTypes DEF Bears, VitalAfter, Yields
  <2>5. Bears(q[3], w[3]) /\ w[4] = VitalAfter(q[3], w[3])
    BY <2>1, <2>2, Fields, VitalTypes DEF Bears, VitalAfter, Yields
  <2>6. \A i \in 1..Len(q) : i \in {1, 2, 3}
    BY <2>1
  <2>7. Course(q, w)
    BY <2>1, <2>2, <2>3, <2>4, <2>5, <2>6 DEF Course
  <2> QED  BY <2>2, <2>7 DEF Sails, q
<1>7. Sails(KillList, Vt("any", "any"))
  <2> DEFINE q == KillList
             w == <<Vt("any", "any"), Vt("any", "any"), Vt("any", "any"), Vt("any", "any"),
                 Vt("any", "any"), Vt("any", "any"), Vt("any", "any"), Vt("any", "any"),
                 Vt("any", "any"), Vt("any", "any")>>
  <2>1. /\ Len(q) = 9
        /\ q[1] = Set("killing", "return") /\ q[2] = Rpc("Kill", "ignore")
        /\ q[3] = Do("terminate", "ignore") /\ q[4] = Set("killed", "return")
        /\ q[5] = Do("delsnaps", "return") /\ q[6] = Do("delrow", "return")
        /\ q[7] = Do("rmdir", "return") /\ q[8] = Do("cleanup", "ignore")
        /\ q[9] = Do("free", "ignore")
    BY DEF KillList
  <2>2. /\ w \in Seq(Vitals) /\ Len(w) = 10
        /\ w[1] = Vt("any", "any") /\ w[2] = Vt("any", "any") /\ w[3] = Vt("any", "any")
        /\ w[4] = Vt("any", "any") /\ w[5] = Vt("any", "any") /\ w[6] = Vt("any", "any")
        /\ w[7] = Vt("any", "any") /\ w[8] = Vt("any", "any") /\ w[9] = Vt("any", "any")
        /\ w[10] = Vt("any", "any")
    BY VitalTypes
  <2> HIDE DEF q, w
  <2>3. Bears(q[1], w[1]) /\ w[2] = VitalAfter(q[1], w[1])
    BY <2>1, <2>2, Fields, VitalTypes DEF Bears, VitalAfter, Yields
  <2>4. Bears(q[2], w[2]) /\ w[3] = VitalAfter(q[2], w[2])
    BY <2>1, <2>2, Fields, VitalTypes DEF Bears, VitalAfter, Yields
  <2>5. Bears(q[3], w[3]) /\ w[4] = VitalAfter(q[3], w[3])
    BY <2>1, <2>2, Fields, VitalTypes DEF Bears, VitalAfter, Yields
  <2>6. Bears(q[4], w[4]) /\ w[5] = VitalAfter(q[4], w[4])
    BY <2>1, <2>2, Fields, VitalTypes DEF Bears, VitalAfter, Yields
  <2>7. Bears(q[5], w[5]) /\ w[6] = VitalAfter(q[5], w[5])
    BY <2>1, <2>2, Fields, VitalTypes DEF Bears, VitalAfter, Yields
  <2>8. Bears(q[6], w[6]) /\ w[7] = VitalAfter(q[6], w[6])
    BY <2>1, <2>2, Fields, VitalTypes DEF Bears, VitalAfter, Yields
  <2>9. Bears(q[7], w[7]) /\ w[8] = VitalAfter(q[7], w[7])
    BY <2>1, <2>2, Fields, VitalTypes DEF Bears, VitalAfter, Yields
  <2>10. Bears(q[8], w[8]) /\ w[9] = VitalAfter(q[8], w[8])
    BY <2>1, <2>2, Fields, VitalTypes DEF Bears, VitalAfter, Yields
  <2>11. Bears(q[9], w[9]) /\ w[10] = VitalAfter(q[9], w[9])
    BY <2>1, <2>2, Fields, VitalTypes DEF Bears, VitalAfter, Yields
  <2>12. \A i \in 1..Len(q) : i \in {1, 2, 3, 4, 5, 6, 7, 8, 9}
    BY <2>1
  <2>13. Course(q, w)
    BY <2>1, <2>2, <2>3, <2>4, <2>5, <2>6, <2>7, <2>8, <2>9, <2>10, <2>11, <2>12 DEF Course
  <2> QED  BY <2>2, <2>13 DEF Sails, q
<1>8. /\ StepsOf("pause", s) = PauseList /\ StepsOf("resume", s) = ResumeSteps
      /\ StepsOf("create", s) = CreateSteps /\ StepsOf("reboot", s) = RebootSteps
  BY Written DEF StepsOf
<1>9. /\ StepsOf("start", s) = StartList /\ StepsOf("stop", s) = StopList
      /\ StepsOf("kill", s) = KillList
  BY Written DEF StepsOf, VMs
<1> QED
  <2>1. op = "create" => Departure(op) = Vt("none", "any")
    BY DEF Departure
  <2>2. op \in {"resume", "start"} => Departure(op) = Vt("idle", "any")
    BY DEF Departure
  <2>3. op \in {"pause", "stop"} => Departure(op) = Vt("live", "any")
    BY DEF Departure
  <2>4. op = "reboot" => Departure(op) = Vt("live", "routed")
    BY DEF Departure
  <2>5. op = "kill" => Departure(op) = Vt("any", "any")
    BY DEF Departure
  <2> QED  BY <1>1, <1>2, <1>3, <1>4, <1>5, <1>6, <1>7, <1>8, <1>9, <2>1, <2>2, <2>3, <2>4, <2>5 DEF OpNames

\* A step that succeeds leaves the rest.
LEMMA SailOn ==
    ASSUME NEW q \in Seq(Steps), q # <<>>, NEW v, Sails(q, v)
    PROVE  v \in Vitals /\ Bears(q[1], v) /\ Sails(Tail(q), VitalAfter(q[1], v))
<1>1. PICK w \in Seq(Vitals) : Course(q, w) /\ w[1] = v
  BY DEF Sails
<1>2. Len(q) \in Nat /\ Len(q) > 0 /\ w[1] \in Vitals /\ Len(w) = Len(q) + 1
  BY <1>1 DEF Course
<1>3. Bears(q[1], w[1]) /\ w[2] = VitalAfter(q[1], w[1])
  BY <1>1, <1>2 DEF Course
<1> DEFINE r == Tail(q)
           u == Tail(w)
<1>4. /\ Len(r) = Len(q) - 1 /\ Len(u) = Len(w) - 1 /\ u \in Seq(Vitals)
      /\ \A i \in 1..Len(r) : r[i] = q[i + 1] /\ i + 1 \in 1..Len(q)
      /\ \A i \in 1..Len(u) : u[i] = w[i + 1]
  BY <1>2
<1> HIDE DEF r, u
<1>5. \A i \in 1..Len(r) : Bears(r[i], u[i]) /\ u[i + 1] = VitalAfter(r[i], u[i])
  <2> TAKE i \in 1..Len(r)
  <2>1. Bears(q[i + 1], w[i + 1]) /\ w[(i + 1) + 1] = VitalAfter(q[i + 1], w[i + 1])
    BY <1>1, <1>4 DEF Course
  <2>2. r[i] = q[i + 1] /\ u[i] = w[i + 1] /\ u[i + 1] = w[(i + 1) + 1]
    BY <1>2, <1>4
  <2> QED  BY <2>1, <2>2
<1>6. Len(u) = Len(r) + 1 /\ u[1] = w[2]
  BY <1>2, <1>4
<1> QED  BY <1>1, <1>2, <1>3, <1>4, <1>5, <1>6 DEF Sails, Course, r

\* A setSandboxState that has read the row still has the same before it.
LEMMA SailCas ==
    ASSUME NEW q \in Seq(Steps), q # <<>>, NEW v, Sails(q, v),
           q[1].do = "set", NEW r, r = <<Cas(q[1].arg, q[1].err)>> \o Tail(q)
    PROVE  Sails(r, v)
<1>1. PICK w \in Seq(Vitals) : Course(q, w) /\ w[1] = v
  BY DEF Sails
<1>2. Len(q) \in Nat /\ Len(q) > 0 /\ Len(w) = Len(q) + 1 /\ q[1] \in Steps
  BY <1>1 DEF Course
<1> DEFINE x == Cas(q[1].arg, q[1].err)
<1>3. x \in Steps
  <2>1. q[1].arg \in States /\ q[1].err \in Errors
    BY <1>2 DEF Steps
  <2> QED  BY <2>1, StepTypes
<1>4. Len(r) = Len(q) /\ r[1] = x /\ \A i \in 1..Len(q) : i > 1 => r[i] = q[i]
  BY <1>2, <1>3
<1>5. Bears(q[1], w[1]) /\ w[2] = VitalAfter(q[1], w[1])
  BY <1>1, <1>2 DEF Course
<1>6. Bears(x, w[1]) /\ w[2] = VitalAfter(x, w[1])
  BY <1>5, Fields DEF Bears, VitalAfter
<1> HIDE DEF x
<1>7. \A i \in 1..Len(r) : Bears(r[i], w[i]) /\ w[i + 1] = VitalAfter(r[i], w[i])
  <2> TAKE i \in 1..Len(r)
  <2>1. CASE i = 1
    BY <1>4, <1>6, <2>1
  <2>2. CASE i > 1
    BY <1>1, <1>4, <2>2 DEF Course
  <2> QED  BY <1>2, <1>4, <2>1, <2>2
<1> QED  BY <1>1, <1>2, <1>4, <1>7 DEF Sails, Course

\* A step of a call harms the host by one fault, or not at all.
LEMMA StepFaults ==
    ASSUME NEW c \in Callers, Step(c)
    PROVE  faults' = faults \/ \E k : Fault(k)
<1>1. CASE \/ ReadState(c) \/ CompareAndSet(c) \/ Assign(c) \/ Free(c) \/ RecordSnapshot(c)
           \/ DropSnapshots(c) \/ DropRow(c) \/ Reread(c) \/ PrepareNetwork(c) \/ EnsureShim(c)
           \/ RefreshAgent(c) \/ PrepareFiles(c) \/ MountRootfs(c) \/ RemoveRootfs(c)
  BY <1>1 DEF ReadState, CompareAndSet, Assign, Free, RecordSnapshot, DropSnapshots, DropRow, Reread,
              PrepareNetwork, EnsureShim, RefreshAgent, PrepareFiles, MountRootfs, RemoveRootfs,
              Sound, Broken
<1>2. CASE CleanupNetwork(c) \/ CallRuntime(c) \/ KillUnready(c) \/ TerminateShim(c) \/ RemoveDirectory(c)
           \/ UnmountRootfs(c) \/ RollBack(c)
  BY <1>2 DEF CleanupNetwork, CallRuntime, KillUnready, TerminateShim, RemoveDirectory, UnmountRootfs,
              RollBack, Sound
<1> QED  BY <1>1, <1>2 DEF Step

\* Faults are counted.
LEMMA FaultsCount ==
    ASSUME TypeOK
    PROVE  /\ \A k : Fault(k) => faults'.n # 0 /\ faults.kinds \subseteq faults'.kinds
           /\ faults' = faults => faults.kinds \subseteq faults'.kinds
  BY DEF Fault, TypeOK

\* The call of a step is one for a sandbox that is used.
LEMMA StepBox ==
    ASSUME Order, NEW c \in Callers, Step(c)
    PROVE  Box(c) \in Sandboxes /\ Box(c) \in used
<1>1. call[c] # Idle
  <2>1. RollBack(c) => call[c] # Idle
    BY DEF RollBack, Idle
  <2>2. ~RollBack(c) => call[c].todo # <<>>
    BY DEF Step, ReadState, CompareAndSet, Assign, Free, RecordSnapshot, DropSnapshots, DropRow, Reread,
           PrepareNetwork, CleanupNetwork, CallRuntime, KillUnready, EnsureShim, TerminateShim,
           RemoveDirectory, RefreshAgent, PrepareFiles, MountRootfs, UnmountRootfs, RemoveRootfs, At
  <2> QED  BY <2>1, <2>2 DEF Idle
<1> QED  BY <1>1 DEF Order, Conduct, Working, Proper, Box, TypeOK

\* A step of a call leaves the other sandboxes alone.
LEMMA StepApart ==
    ASSUME Order, NEW c \in Callers, Step(c), NEW s, s = Box(c)
    PROVE  Apart(s)
<1>1. s = Box(c) /\ s \in Sandboxes /\ s \in used
  BY StepBox
<1>2. TypeOK /\ SlotExclusive /\ faults.kinds \subseteq faults'.kinds /\ DOMAIN rows = Sandboxes
  BY StepFaults, FaultsCount DEF Order, TypeOK, StoreTypeOK
<1>3. CASE ReadState(c) \/ Reread(c) \/ RefreshAgent(c)
  BY <1>1, <1>2, <1>3, NothingMoves DEF ReadState, Reread, RefreshAgent
<1>4. CASE \/ CompareAndSet(c) \/ Assign(c) \/ Free(c) \/ RecordSnapshot(c) \/ DropSnapshots(c)
           \/ DropRow(c)
  <2>1. /\ UNCHANGED <<hostVars, used>> /\ (UNCHANGED rows \/ UNCHANGED snaps)
        /\ \A t \in Sandboxes \ {s} : (t \in snaps') = (t \in snaps)
    BY <1>1, <1>4 DEF CompareAndSet, Assign, Free, RecordSnapshot, DropSnapshots, DropRow, UpdateState,
                      AssignSlot, FreeSlot, InsertSnapshot, DeleteSnapshots, DeleteRow, storeVars
  <2>2. call[c].seen \in States /\ "absent" \notin States
    BY <1>2 DEF TypeOK, CallRecords, States
  <2>3. /\ \A t \in Sandboxes \ {s} : rows'[t] = rows[t]
        /\ rows' = rows \/ HasRow(s)
    <3>1. CASE CompareAndSet(c) /\ UpdateState(s, call[c].seen, Arg(c))
      <4>1. HasRow(s)
        BY <2>2, <3>1 DEF UpdateState, HasRow, NoRow
      <4>2. \A t \in Sandboxes \ {s} : rows'[t] = rows[t]
        BY <1>1, <1>2, <3>1 DEF UpdateState
      <4> QED  BY <4>1, <4>2
    <3>2. CASE AssignSlot(s) \/ FreeSlot(s) \/ DeleteRow(s)
      <4>1. HasRow(s)
        BY <3>2 DEF AssignSlot, FreeSlot, DeleteRow
      <4>2. \A t \in Sandboxes \ {s} : rows'[t] = rows[t]
        BY <1>1, <1>2, <3>2 DEF AssignSlot, FreeSlot, DeleteRow
      <4> QED  BY <4>1, <4>2
    <3>3. CASE rows' = rows
      BY <3>3
    <3> QED  BY <1>1, <1>4, <3>1, <3>2, <3>3
             DEF CompareAndSet, Assign, Free, RecordSnapshot, DropSnapshots, DropRow, InsertSnapshot,
                 DeleteSnapshots, storeVars
  <2>4. UNCHANGED <<handle, stray, netns, route, rootfs, used>>
    BY <2>1 DEF hostVars
  <2>5. HasRow(s)' => HasRow(s)
    BY <2>3 DEF HasRow
  <2> QED  BY <1>1, <1>2, <2>1, <2>3, <2>4, <2>5 DEF Apart
<1>5. CASE PrepareNetwork(c)
  <2>1. PICK q, a, m : Facing(c, s, q, a, m)
    BY <1>1, <1>5, Faces, Faced DEF PrepareNetwork, At
  <2>2. /\ MayDo(q[1], a) /\ q[1].do = "net" /\ NetworkIs(s, m, a.net) /\ rows[s].state = a.phase
        /\ m = call[c].slot
    BY <1>5, <2>1, Faced DEF PrepareNetwork
  <2>3. HasRow(s) /\ m = rows[s].slot /\ m > 0
    <3>1. HasRow(s)
      BY <1>1, <1>2, <2>2, RowIs DEF MayDo, Transitional
    <3> QED  BY <2>2, <3>1 DEF MayDo, NetworkIs
  <2>4. /\ UNCHANGED <<storeVars, handle, stray, rootfs, used>>
        /\ UNCHANGED <<netns, route>> \/ Rewire(s, 0) \/ Rewire(s, m)
    BY <1>1, <1>5, <2>2 DEF PrepareNetwork
  <2>5. UNCHANGED <<netns, route>> => Apart(s)
    BY <1>2, <2>4 DEF Apart, storeVars, HasRow
  <2> QED  BY <1>1, <1>2, <2>3, <2>4, <2>5, RewireApart
<1>6. CASE CleanupNetwork(c)
  <2>1. PICK q, a, m : Facing(c, s, q, a, m)
    BY <1>1, <1>6, Faces, Faced DEF CleanupNetwork, At
  <2>2. /\ MayDo(q[1], a) /\ q[1].do = "cleanup" /\ NetworkIs(s, m, a.net) /\ rows[s].state = a.phase
        /\ m = call[c].slot
    BY <1>6, <2>1, Faced DEF CleanupNetwork
  <2>3. /\ UNCHANGED <<storeVars, handle, stray, rootfs, used>>
        /\ \/ UNCHANGED <<netns, route>>
           \/ /\ netns' = netns \ {s}
              /\ \A n \in Slots : route'[n] = IF n = m \/ route[n] = s THEN Nobody ELSE route[n]
    BY <1>1, <1>6, <2>2 DEF CleanupNetwork
  <2>4. NoneDeleted => m = rows[s].slot
    BY <1>1, <2>2 DEF NoneDeleted, NetworkIs, MayDo
  <2>5. ASSUME NEW t \in Sandboxes \ {s}
        PROVE  /\ \A n \in Slots : route'[n] = t => route[n] = t
               /\ NoneDeleted /\ rows[t].slot > 0 /\ route[rows[t].slot] = t => route'[rows[t].slot] = t
               /\ (t \in netns') = (t \in netns)
    <3>1. t # Nobody
      BY ServiceAssumption
    <3>2. NoneDeleted /\ rows[t].slot > 0 => rows[t].slot # m /\ rows[t].slot \in Slots
      BY <1>1, <1>2, <2>4, RowIs DEF SlotExclusive
    <3> QED  BY <2>3, <3>1, <3>2
  <2>6. UNCHANGED <<rows, snaps, handle, stray, rootfs, used>> /\ (HasRow(s)' => HasRow(s))
    BY <2>3 DEF storeVars, HasRow
  <2> QED  BY <1>1, <1>2, <2>5, <2>6 DEF Apart
<1>7. CASE CallRuntime(c) \/ KillUnready(c)
  <2>1. (\E r : Receive(s, r)) /\ UNCHANGED <<storeVars, netns, route, rootfs, used>>
    BY <1>1, <1>7 DEF CallRuntime, KillUnready
  <2> QED  BY <1>1, <1>2, <2>1, Received, HostApart
<1>8. CASE EnsureShim(c) \/ TerminateShim(c) \/ RemoveDirectory(c)
  <2>1. /\ UNCHANGED <<storeVars, netns, route, used>>
        /\ \A t \in Sandboxes \ {s} : /\ handle'[t] = handle[t] /\ rootfs'[t] = rootfs[t]
                                      /\ (t \in stray') = (t \in stray)
    BY <1>1, <1>2, <1>8 DEF EnsureShim, TerminateShim, RemoveDirectory, LoseShim, TypeOK
  <2> QED  BY <1>1, <1>2, <2>1, HostApart
<1>9. CASE PrepareFiles(c) \/ MountRootfs(c) \/ UnmountRootfs(c) \/ RemoveRootfs(c) \/ RollBack(c)
  <2>1. /\ UNCHANGED <<storeVars, netns, route, used, handle, stray>>
        /\ \A t \in Sandboxes \ {s} : rootfs'[t] = rootfs[t]
    BY <1>1, <1>2, <1>9 DEF PrepareFiles, MountRootfs, UnmountRootfs, RemoveRootfs, RollBack, SetRootfs, TypeOK
  <2> QED  BY <1>1, <1>2, <2>1, HostApart
<1> QED  BY ONLY Step(c), <1>3, <1>4, <1>5, <1>6, <1>7, <1>8, <1>9 DEF Step

\* A call for sandbox s, a VM, is about to take a step, and no fault or deletion has been
\* or comes with it; v is known of s.
Fit(c, s, q, a, m, v) ==
    /\ Order /\ Health /\ Healthy /\ Healthy'
    /\ s \in VMs /\ Facing(c, s, q, a, m) /\ Sails(q, v) /\ Vital(s, m, v)

\* After the step, the call will not fail and s has not.
Thrives(c, s) == rows'[s].state # "failed" /\ (Box(c)' \in VMs => Hearty(call[c])')

\* What a call that is fit has in front of it.
LEMMA Calm ==
    ASSUME NEW c \in Callers, NEW s, NEW q, NEW a, NEW m, NEW v, Fit(c, s, q, a, m, v)
    PROVE  /\ TypeOK /\ SlotExclusive /\ CallsOK /\ call[c] \in CallRecords
           /\ s \in Sandboxes /\ s \notin Containers /\ s \in used /\ s = Box(c)
           /\ q \in Seq(Steps) /\ q # <<>> /\ q = call[c].todo /\ m = call[c].slot /\ m \in 0..MaxSlot
           /\ q[1] \in Steps /\ Err(c) = q[1].err /\ Arg(c) = q[1].arg
           /\ \A k : At(c, k) <=> q[1].do = k
           /\ a \in Points /\ MayDo(q[1], a) /\ rows[s].state = a.phase /\ HasRow(s)
           /\ v \in Vitals /\ Bears(q[1], v) /\ Sails(Tail(q), VitalAfter(q[1], v)) /\ Vital(s, m, v)
           /\ ~call[c].cancelled /\ (\A k : ~Fault(k) /\ ~Broken(c, k)) /\ HostSound
           /\ rows[s].state # "failed" /\ NoneDeleted /\ NoneDeleted'
<1>1. Facing(c, s, q, a, m) /\ Order /\ Sails(q, v) /\ Vital(s, m, v)
  BY DEF Fit
<1>2. faults.n = 0 /\ faults.kinds = {} /\ faults'.n = 0 /\ NoneDeleted /\ NoneDeleted'
  BY DEF Fit, Healthy, Health
<1>3. call[c].cancelled => "cancel" \in faults.kinds
  BY <1>1, Faced
<1>4. TypeOK /\ s \in used /\ q \in Seq(Steps) /\ q # <<>> /\ call[c] \in CallRecords /\ m = call[c].slot
  BY <1>1, Faced
<1>5. ~call[c].cancelled /\ \A k : ~Fault(k) /\ ~Broken(c, k)
  <2>1. \A k : ~Fault(k)
    BY <1>2, <1>4, FaultsCount
  <2> QED  BY <1>2, <1>3, <2>1 DEF Broken
<1>6. HostSound /\ HasRow(s)
  BY <1>2, <1>4 DEF HostSound, NoneDeleted
<1>7. s \in VMs /\ rows[s].state # "failed"
  BY DEF Fit, Health
<1>8. v \in Vitals /\ Bears(q[1], v) /\ Sails(Tail(q), VitalAfter(q[1], v))
  BY <1>1, <1>4, SailOn
<1>9. m \in 0..MaxSlot
  BY <1>4 DEF CallRecords
<1> QED  BY <1>1, <1>2, <1>5, <1>6, <1>7, <1>8, <1>9, Faced DEF VMs

\* A call that goes on with steps that will not fail thrives.
LEMMA Thriving ==
    ASSUME NEW c \in Callers, NEW s, s = Box(c), NEW t, NEW n, NEW x, Goes(c, t, n, x),
           NEW u \in Vitals, Sails(t, u), Vital(s, n, u)', rows'[s].state # "failed"
    PROVE  Thrives(c, s)
<1>1. CASE call'[c] = Idle
  <2>1. Box(c)' = Nobody
    BY <1>1 DEF Box, Idle
  <2> QED  BY <2>1, ServiceAssumption DEF Thrives, VMs
<1>2. CASE call'[c].box = s /\ call'[c].todo = t /\ call'[c].slot = n
  <2>1. Vital(call[c].box, call[c].slot, u)'
    BY <1>2
  <2>2. Sails(call'[c].todo, u)
    BY <1>2
  <2>3. Hearty(call[c])'
    BY <2>1, <2>2 DEF Hearty
  <2> QED  BY <2>3 DEF Thrives
<1> QED  BY <1>1, <1>2 DEF Goes, Box

\* What is known is known for good as long as nothing moves.
LEMMA VitalStays ==
    ASSUME NEW s, NEW n, NEW v, Vital(s, n, v), handle'[s] = handle[s], route' = route,
           rows'[s].slot = rows[s].slot
    PROVE  Vital(s, n, v)'
  BY DEF Vital

\* What is known after a step is of the same kind.
LEMMA VitalTyped ==
    ASSUME NEW v \in Vitals, NEW x \in Steps
    PROVE  /\ VitalAfter(x, v) \in Vitals
           /\ x.do \in {"set", "cas", "reread", "agent", "files", "snapshot", "delsnaps"} =>
                 VitalAfter(x, v) = v
           /\ x.do \in {"assign", "cleanup", "free"} => VitalAfter(x, v) = Vt(v.rt, "any")
           /\ x.do = "net"  => VitalAfter(x, v) = Vt(v.rt, "routed")
           /\ x.do = "shim" => VitalAfter(x, v) = Vt("empty", v.net)
           /\ x.do = "rpc"  => VitalAfter(x, v) = Vt(IF x.arg = "Kill" THEN "any" ELSE Yields(x.arg), v.net)
           /\ x.do \in {"terminate", "rmdir"} => VitalAfter(x, v) = Vt("any", v.net)
<1>1. v.rt \in {"any", "none", "empty", "live", "idle"} /\ v.net \in {"any", "routed"}
  BY VitalTypes
<1>2. x.arg # "Kill" => Yields(x.arg) \in {"live", "idle"}
  BY DEF Yields
<1> QED  BY <1>1, <1>2, VitalTypes DEF VitalAfter

\* A step that succeeds leaves a call that will not fail, if what is known after it is so.
LEMMA Onward ==
    ASSUME NEW c \in Callers, NEW s, NEW q, NEW a, NEW m, NEW v, Fit(c, s, q, a, m, v),
           NEW n, NEW x, Goes(c, Tail(q), n, x), Vital(s, n, VitalAfter(q[1], v))',
           rows'[s].state # "failed"
    PROVE  Thrives(c, s)
<1>1. PICK u : u = VitalAfter(q[1], v)
  OBVIOUS
<1>2. u \in Vitals /\ Sails(Tail(q), u) /\ s = Box(c)
  BY <1>1, Calm, VitalTyped
<1>3. Vital(s, n, u)'
  BY <1>1
<1> QED  BY <1>2, <1>3, Thriving

\* A step that changes nothing that is known.
LEMMA Steady ==
    ASSUME NEW c \in Callers, NEW s, NEW q, NEW a, NEW m, NEW v, Fit(c, s, q, a, m, v), Succeed(c),
           UNCHANGED <<rows, handle, route>>,
           q[1].do \in {"reread", "agent", "files", "snapshot", "delsnaps"}
    PROVE  Thrives(c, s)
<1>1. Goes(c, Tail(q), m, call[c].seen)
  BY Calm, OutcomeGoes
<1>2. Vital(s, m, v)' /\ rows'[s].state # "failed"
  BY Calm, VitalStays
<1>3. VitalAfter(q[1], v) = v
  BY Calm, VitalTyped
<1> QED  BY <1>1, <1>2, <1>3, Onward

\* The agent of a VM that is live and routed answers; the row that is read again is there;
\* the files of a VM need no rootfs; and snapshot records are written and deleted.
LEMMA SteadySteps ==
    ASSUME NEW c \in Callers, NEW s, NEW q, NEW a, NEW m, NEW v, Fit(c, s, q, a, m, v),
           Reread(c) \/ RefreshAgent(c) \/ PrepareFiles(c) \/ RecordSnapshot(c) \/ DropSnapshots(c)
    PROVE  Thrives(c, s)
<1>1. CASE Reread(c)
  BY <1>1, Calm, Steady DEF Reread, storeVars, hostVars
<1>2. CASE RefreshAgent(c)
  <2>1. m \in Slots /\ route[m] = s /\ handle[s] = "live" /\ q[1].do = "agent"
    BY <1>2, Calm DEF RefreshAgent, Bears, Vital
  <2>2. AgentAnswers(call[c].slot)
    BY <2>1, Calm DEF AgentAnswers
  <2> QED  BY <1>2, <2>1, <2>2, Calm, Steady DEF RefreshAgent, storeVars, hostVars
<1>3. CASE PrepareFiles(c)
  BY <1>3, Calm, Steady DEF PrepareFiles, storeVars
<1>4. CASE RecordSnapshot(c) \/ DropSnapshots(c)
  BY <1>4, Calm, Steady DEF RecordSnapshot, DropSnapshots, InsertSnapshot, DeleteSnapshots, hostVars
<1> QED  BY <1>1, <1>2, <1>3, <1>4

\* setSandboxState finds the row.
LEMMA ReadThrives ==
    ASSUME NEW c \in Callers, NEW s, NEW q, NEW a, NEW m, NEW v, Fit(c, s, q, a, m, v), ReadState(c)
    PROVE  Thrives(c, s)
<1>1. /\ q[1].do = "set" /\ UNCHANGED <<rows, handle, route>> /\ HasRow(s)
      /\ s = Box(c) /\ q[1].arg = Arg(c) /\ q[1].err = Err(c) /\ q[1] \in Steps /\ v \in Vitals
      /\ q \in Seq(Steps) /\ q # <<>> /\ q = call[c].todo /\ call[c] \in CallRecords /\ TypeOK
      /\ CallsOK /\ s \in Sandboxes /\ m = call[c].slot /\ m \in 0..MaxSlot
      /\ rows'[s].state # "failed" /\ Vital(s, m, v) /\ (\A k : ~Fault(k) /\ ~Broken(c, k))
  BY Calm DEF ReadState, storeVars, hostVars
<1>2. Vital(s, m, v)' /\ Sails(q, v) /\ Facing(c, s, q, a, m) /\ Order
  BY <1>1, VitalStays DEF Fit
<1>3. CASE Become(c, [call[c] EXCEPT !.seen = rows[s].state,
                                     !.todo = <<Cas(Arg(c), Err(c))>> \o Tail(@)])
  <2> DEFINE r == <<Cas(q[1].arg, q[1].err)>> \o Tail(q)
             p == rows[s].state
             k == [call[c] EXCEPT !.seen = p, !.todo = r]
  <2>1. r \in Seq(Steps) /\ p \in States /\ Sails(r, v)
    <3>1. q[1].arg \in States /\ q[1].err \in Errors
      BY <1>1 DEF Steps
    <3>2. r \in Seq(Steps)
      BY <1>1, <3>1, StepTypes
    <3>3. p \in States
      BY <1>1, RowIs
    <3> QED  BY <1>1, <1>2, <3>2, <3>3, SailCas
  <2> HIDE DEF r, p
  <2>2. /\ k \in CallRecords /\ k.todo = r /\ k.slot = m /\ k.seen = p
        /\ k.op = call[c].op /\ k.box = call[c].box /\ k.cancelled = call[c].cancelled
    BY <1>1, <2>1 DEF CallRecords
  <2>3. Become(c, k)
    BY <1>1, <1>3 DEF r, p
  <2> HIDE DEF k
  <2>4. Goes(c, r, m, p)
    BY <1>1, <2>2, <2>3, BecomeGoes
  <2> QED  BY <1>1, <1>2, <2>1, <2>4, Thriving
<1>4. CASE Become(c, [Stepped(c) EXCEPT !.undo = IF Arg(c) = "running" THEN "none" ELSE @])
  <2>1. Goes(c, Tail(q), m, call[c].seen)
    <3>1. call[c].undo \in {"none", "remove", "unmount"} /\ Stepped(c).undo = call[c].undo
      BY <1>1 DEF CallRecords, Stepped
    <3> QED  BY <1>1, <1>2, <1>4, <3>1, SteppedGoes
  <2>2. VitalAfter(q[1], v) = v
    BY <1>1, VitalTyped
  <2> QED  BY <1>1, <1>2, <2>1, <2>2, Onward
<1> QED  BY <1>1, <1>3, <1>4 DEF ReadState, HasRow

\* UpdateSandboxState finds the row in the state that was seen, and does not write failed.
LEMMA CompareThrives ==
    ASSUME NEW c \in Callers, NEW s, NEW q, NEW a, NEW m, NEW v, Fit(c, s, q, a, m, v), CompareAndSet(c)
    PROVE  Thrives(c, s)
<1>1. /\ q[1].do = "cas" /\ UNCHANGED <<handle, route>> /\ HasRow(s)
      /\ s = Box(c) /\ q[1].arg = Arg(c) /\ q[1] \in Steps /\ v \in Vitals /\ Bears(q[1], v)
      /\ q \in Seq(Steps) /\ q # <<>> /\ call[c] \in CallRecords /\ TypeOK /\ s \in Sandboxes
      /\ m \in 0..MaxSlot /\ Vital(s, m, v) /\ (\A k : ~Fault(k) /\ ~Broken(c, k))
  BY Calm DEF CompareAndSet, hostVars
<1>2. Facing(c, s, q, a, m) /\ Order
  BY DEF Fit
<1>3. call[c].seen = rows[s].state
  BY <1>1, <1>2, WalkOn DEF Facing, Compares
<1>4. /\ UpdateState(s, call[c].seen, Arg(c))
      /\ Become(c, [Stepped(c) EXCEPT !.undo = IF Arg(c) = "running" THEN "none" ELSE @])
  BY <1>1, <1>3 DEF CompareAndSet
<1>5. Goes(c, Tail(q), m, call[c].seen)
  <2>1. call[c].undo \in {"none", "remove", "unmount"} /\ Stepped(c).undo = call[c].undo
    BY <1>1 DEF CallRecords, Stepped
  <2> QED  BY <1>1, <1>2, <1>4, <2>1, SteppedGoes
<1>6. rows'[s].state = q[1].arg /\ rows'[s].slot = rows[s].slot
  <2>1. rows[s] \in [state : States, slot : 0..MaxSlot] /\ DOMAIN rows = Sandboxes
    BY <1>1 DEF TypeOK, StoreTypeOK, HasRow
  <2>2. rows' = [rows EXCEPT ![s] = [rows[s] EXCEPT !.state = Arg(c)]]
    BY <1>4, <2>1 DEF UpdateState
  <2> QED  BY <1>1, <2>1, <2>2
<1>7. VitalAfter(q[1], v) = v /\ q[1].arg # "failed"
  BY <1>1, VitalTyped DEF Bears
<1>8. Vital(s, m, v)'
  <2>1. handle'[s] = handle[s]
    BY <1>1
  <2> QED  BY <1>1, <1>6, <2>1, VitalStays
<1> QED  BY <1>5, <1>6, <1>7, <1>8, Onward

\* There are no more sandboxes than slots.
RoomForAll == IsFiniteSet(Sandboxes) /\ Cardinality(Sandboxes) <= MaxSlot

\* A sandbox without a slot can be given one when every sandbox could have one.
LEMMA SlotLeft ==
    ASSUME TypeOK, RoomForAll, NEW s \in Sandboxes, rows[s].slot = 0
    PROVE  FreeSlots # {}
<1> SUFFICES ASSUME FreeSlots = {} PROVE FALSE
  OBVIOUS
<1> DEFINE others == Sandboxes \ {s}
           f == [n \in Slots |-> CHOOSE t \in others : rows[t].slot = n]
<1>1. \A n \in Slots : \E t \in others : rows[t].slot = n
  <2> SUFFICES ASSUME NEW n \in Slots PROVE \E t \in others : rows[t].slot = n
    OBVIOUS
  <2>1. n \in UsedSlots /\ n # 0
    BY MaxSlotAssumption DEF FreeSlots, Slots
  <2>2. PICK t \in Sandboxes : rows[t].slot = n
    BY <2>1 DEF UsedSlots
  <2> QED  BY <2>1, <2>2
<1>2. \A n \in Slots : f[n] \in others /\ rows[f[n]].slot = n
  BY <1>1
<1>4. IsFiniteSet(others) /\ Cardinality(others) = Cardinality(Sandboxes) - 1 /\ Cardinality(Sandboxes) \in Nat
  BY FS_RemoveElement, FS_CardinalityType DEF RoomForAll
<1>5. IsFiniteSet(Slots) /\ Cardinality(Slots) = MaxSlot /\ MaxSlot \in Nat
  <2>1. MaxSlot \in Int /\ 1 \in Int /\ ~(1 > MaxSlot) /\ MaxSlot - 1 + 1 = MaxSlot /\ MaxSlot \in Nat
    BY MaxSlotAssumption
  <2> QED  BY <2>1, FS_Interval DEF Slots
<1>3. f \in [Slots -> others]
  BY <1>2
<1> HIDE DEF others, f
<1>6. f \in Injection(Slots, others)
  BY <1>2, <1>3 DEF Injection, IsInjective
<1>7. Cardinality(Slots) <= Cardinality(others)
  BY <1>4, <1>5, <1>6, FS_Injection
<1> QED  BY <1>4, <1>5, <1>7 DEF RoomForAll

\* AssignSandboxNetworkSlot finds a slot, and the call remembers it.
LEMMA AssignThrives ==
    ASSUME RoomForAll, NEW c \in Callers, NEW s, NEW q, NEW a, NEW m, NEW v, Fit(c, s, q, a, m, v),
           Assign(c)
    PROVE  Thrives(c, s)
<1>1. /\ q[1].do = "assign" /\ UNCHANGED <<handle, route>> /\ HasRow(s) /\ s = Box(c) /\ q[1] \in Steps
      /\ v \in Vitals /\ TypeOK /\ s \in Sandboxes /\ Vital(s, m, v) /\ (\A k : ~Fault(k) /\ ~Broken(c, k))
      /\ rows[s].state # "failed"
  BY Calm DEF Assign, hostVars
<1>2. ~(rows[s] = NoRow \/ (rows[s].slot = 0 /\ FreeSlots = {}))
  BY <1>1, SlotLeft DEF HasRow
<1>3. AssignSlot(s) /\ Become(c, [Stepped(c) EXCEPT !.slot = rows'[s].slot])
  BY <1>1, <1>2 DEF Assign
<1>4. rows'[s].state = rows[s].state /\ rows'[s].slot \in 0..MaxSlot
  <2>1. rows[s] \in [state : States, slot : 0..MaxSlot] /\ DOMAIN rows = Sandboxes
    BY <1>1 DEF TypeOK, StoreTypeOK, HasRow
  <2>2. CASE rows' = rows
    BY <2>1, <2>2
  <2>3. CASE \E n \in FreeSlots : rows' = [rows EXCEPT ![s].slot = n]
    <3>1. PICK n \in FreeSlots : rows' = [rows EXCEPT ![s].slot = n]
      BY <2>3
    <3>2. n \in 0..MaxSlot
      BY MaxSlotAssumption DEF FreeSlots, Slots
    <3> QED  BY <1>1, <2>1, <3>1, <3>2
  <2> QED  BY <1>3, <2>2, <2>3 DEF AssignSlot
<1>5. PICK n \in 0..MaxSlot : n = rows'[s].slot
  BY <1>4
<1>6. Goes(c, Tail(q), n, call[c].seen)
  <2>1. "none" \in {"none", "remove", "unmount"} /\ Facing(c, s, q, a, m) /\ Order
    BY DEF Fit
  <2> QED  BY <1>3, <1>5, <2>1, SteppedGoes
<1>7. VitalAfter(q[1], v) = Vt(v.rt, "any")
  BY <1>1, VitalTyped
<1>8. Vital(s, n, Vt(v.rt, "any"))'
  BY <1>1, VitalTypes DEF Vital
<1> QED  BY <1>1, <1>4, <1>6, <1>7, <1>8, Onward

\* Giving a slot back, or taking the network down, leaves the runtime alone.
LEMMA ReleaseThrives ==
    ASSUME NEW c \in Callers, NEW s, NEW q, NEW a, NEW m, NEW v, Fit(c, s, q, a, m, v),
           Free(c) \/ CleanupNetwork(c)
    PROVE  Thrives(c, s)
<1>1. /\ q[1].do \in {"free", "cleanup"} /\ handle' = handle /\ HasRow(s) /\ s = Box(c) /\ q[1] \in Steps
      /\ v \in Vitals /\ TypeOK /\ s \in Sandboxes /\ Vital(s, m, v) /\ (\A k : ~Fault(k) /\ ~Broken(c, k))
      /\ rows[s].state # "failed" /\ CallsOK /\ call[c].todo # <<>> /\ q = call[c].todo /\ m = call[c].slot
  BY Calm DEF Free, CleanupNetwork, hostVars
<1>2. Succeed(c)
  BY <1>1 DEF Free, CleanupNetwork
<1>3. Goes(c, Tail(q), m, call[c].seen)
  BY <1>1, <1>2, OutcomeGoes
<1>4. rows'[s].state = rows[s].state
  <2>1. rows[s] \in [state : States, slot : 0..MaxSlot] /\ DOMAIN rows = Sandboxes
    BY <1>1 DEF TypeOK, StoreTypeOK, HasRow
  <2>2. rows' = rows \/ rows' = [rows EXCEPT ![s].slot = 0]
    BY <1>1 DEF Free, CleanupNetwork, FreeSlot, storeVars
  <2> QED  BY <1>1, <2>1, <2>2
<1>5. VitalAfter(q[1], v) = Vt(v.rt, "any")
  BY <1>1, VitalTyped
<1>6. Vital(s, m, Vt(v.rt, "any"))'
  BY <1>1, VitalTypes DEF Vital
<1> QED  BY <1>1, <1>3, <1>4, <1>5, <1>6, Onward

\* As long as no sandbox is deleted, no row is.
LEMMA NoneDropped ==
    ASSUME NEW c \in Callers, NEW s, NEW q, NEW a, NEW m, NEW v, Fit(c, s, q, a, m, v), DropRow(c)
    PROVE  FALSE
<1>1. /\ HasRow(s) /\ s = Box(c) /\ TypeOK /\ s \in Sandboxes /\ s \in used /\ NoneDeleted'
      /\ \A k : ~Broken(c, k)
  BY Calm
<1>2. DeleteRow(s) /\ used' = used
  BY <1>1 DEF DropRow
<1>3. rows'[s] = NoRow
  BY <1>1, <1>2 DEF DeleteRow, TypeOK, StoreTypeOK
<1> QED  BY <1>1, <1>2, <1>3 DEF NoneDeleted, HasRow

\* The network is set up on the slot that the row holds.
LEMMA PrepareThrives ==
    ASSUME NEW c \in Callers, NEW s, NEW q, NEW a, NEW m, NEW v, Fit(c, s, q, a, m, v), PrepareNetwork(c)
    PROVE  Thrives(c, s)
<1>1. /\ q[1].do = "net" /\ UNCHANGED <<rows, handle>> /\ HasRow(s) /\ s = Box(c) /\ q[1] \in Steps
      /\ v \in Vitals /\ TypeOK /\ s \in Sandboxes /\ Vital(s, m, v) /\ (\A k : ~Fault(k) /\ ~Broken(c, k))
      /\ rows[s].state # "failed" /\ CallsOK /\ call[c].todo # <<>> /\ q = call[c].todo /\ m = call[c].slot
      /\ MayDo(q[1], a)
  BY Calm DEF PrepareNetwork, storeVars
<1>2. Rewire(s, m) /\ Succeed(c)
  BY <1>1 DEF PrepareNetwork
<1>3. m = rows[s].slot /\ m \in Slots
  <2>1. NetworkIs(s, m, a.net) /\ a.net = "slotted"
    BY <1>1, Faced DEF Fit, MayDo
  <2>2. m = rows[s].slot /\ m > 0
    BY <1>1, <2>1 DEF NetworkIs
  <2> QED  BY <1>1, <2>2, RowIs
<1>4. route'[m] = s
  BY <1>2, <1>3 DEF Rewire
<1>5. Goes(c, Tail(q), m, call[c].seen)
  BY <1>1, <1>2, OutcomeGoes
<1>6. VitalAfter(q[1], v) = Vt(v.rt, "routed")
  BY <1>1, VitalTyped
<1>7. Vital(s, m, Vt(v.rt, "routed"))'
  BY <1>1, <1>3, <1>4, VitalTypes DEF Vital
<1> QED  BY <1>1, <1>5, <1>6, <1>7, Onward

\* boxshim does what it is asked, as the driver is in the state that the lifecycle gives the
\* operation and the network is there; whether it answers a KillRuntime does not matter.
LEMMA RuntimeThrives ==
    ASSUME NEW c \in Callers, NEW s, NEW q, NEW a, NEW m, NEW v, Fit(c, s, q, a, m, v), CallRuntime(c)
    PROVE  Thrives(c, s)
<1>1. /\ q[1].do = "rpc" /\ UNCHANGED <<rows, route>> /\ s = Box(c) /\ q[1] \in Steps
      /\ v \in Vitals /\ TypeOK /\ s \in Sandboxes /\ s \notin Containers /\ Vital(s, m, v)
      /\ (\A k : ~Fault(k)) /\ ~call[c].cancelled /\ Bears(q[1], v)
      /\ rows[s].state # "failed" /\ CallsOK /\ call[c].todo # <<>> /\ q = call[c].todo /\ m = call[c].slot
      /\ Arg(c) = q[1].arg /\ Err(c) = q[1].err
  BY Calm DEF CallRuntime, storeVars
<1>2. PICK y \in Methods : y = q[1].arg
  BY <1>1 DEF Steps
<1>3. Receive(s, Answer(s, y)) /\ IF Answer(s, y).ok THEN Succeed(c) ELSE Fail(c)
  BY <1>1, <1>2 DEF CallRuntime
<1>4. v.net = "routed" => s \in netns
  <2>1. \A n \in Slots : route[n] \in Sandboxes => route[n] \in netns
    BY DEF Fit, Health
  <2> QED  BY <1>1, <2>1 DEF Vital
<1>5. y # "Kill" => Answer(s, y).ok
  <2>1. y \in {"Create", "Start"} => Answer(s, y).ok
    <3> SUFFICES ASSUME y \in {"Create", "Start"} PROVE Answer(s, y).ok
      OBVIOUS
    <3>1. handle[s] \in {"empty", "idle"} /\ s \in netns
      BY <1>1, <1>2, <1>4 DEF Bears, Vital
    <3>2. CanBoot(s) /\ Answer(s, y) = CreateReply(s)
      BY <1>1, <3>1 DEF CanBoot, Answer
    <3> QED  BY <3>2 DEF CreateReply, Reply
  <2>2. y = "Pause" => Answer(s, y).ok
    <3> SUFFICES ASSUME y = "Pause" PROVE Answer(s, y).ok
      OBVIOUS
    <3>1. handle[s] = "live" /\ Answer(s, y) = PauseReply(s)
      BY <1>1, <1>2 DEF Bears, Vital, Answer
    <3> QED  BY <1>1, <3>1 DEF PauseReply, Reply
  <2>3. y = "Resume" => Answer(s, y).ok
    <3> SUFFICES ASSUME y = "Resume" PROVE Answer(s, y).ok
      OBVIOUS
    <3>1. handle[s] = "idle" /\ s \in netns /\ Answer(s, y) = ResumeReply(s)
      BY <1>1, <1>2, <1>4 DEF Bears, Vital, Answer
    <3> QED  BY <1>1, <3>1 DEF ResumeReply, Reply
  <2>4. y = "Stop" => Answer(s, y).ok
    <3> SUFFICES ASSUME y = "Stop" PROVE Answer(s, y).ok
      OBVIOUS
    <3>1. handle[s] = "live" /\ Answer(s, y) = StopReply(s)
      BY <1>1, <1>2 DEF Bears, Vital, Answer
    <3> QED  BY <3>1 DEF StopReply, Known, Reply
  <2>5. y = "Reboot" => Answer(s, y).ok
    <3> SUFFICES ASSUME y = "Reboot" PROVE Answer(s, y).ok
      OBVIOUS
    <3>1. handle[s] = "live" /\ s \in netns /\ Answer(s, y) = RebootReply(s)
      BY <1>1, <1>2, <1>4 DEF Bears, Vital, Answer
    <3> QED  BY <1>1, <3>1 DEF RebootReply, Known, Reply
  <2> QED  BY <2>1, <2>2, <2>3, <2>4, <2>5 DEF Methods
<1>6. Goes(c, Tail(q), m, call[c].seen)
  <2>1. y = "Kill" => Err(c) = "ignore"
    BY <1>1, <1>2 DEF Bears
  <2> QED  BY <1>1, <1>3, <1>5, <2>1, OutcomeGoes
<1>7. VitalAfter(q[1], v) = Vt(IF y = "Kill" THEN "any" ELSE Yields(y), v.net)
  BY <1>1, <1>2, VitalTyped
<1>8. PICK r : r = IF y = "Kill" THEN "any" ELSE Yields(y)
  OBVIOUS
<1>9. r # "any" => handle'[s] = r
  <2> SUFFICES ASSUME y # "Kill" PROVE handle'[s] = r
    BY <1>8
  <2>1. r \in {"live", "idle"} /\ r = Yields(y)
    BY <1>8 DEF Yields
  <2>2. Answer(s, y).handle = r
    BY <1>1, <1>5, <2>1, Answers
  <2> QED  BY <1>1, <1>3, <2>2, Received
<1>10. Vital(s, m, Vt(r, v.net))'
  BY <1>1, <1>9, VitalTypes DEF Vital
<1> QED  BY <1>1, <1>6, <1>7, <1>8, <1>10, Onward

\* A new VM has no shim before ensureShim; and what becomes of the shim of one that is killed
\* makes no later step fail.
LEMMA ShimThrives ==
    ASSUME NEW c \in Callers, NEW s, NEW q, NEW a, NEW m, NEW v, Fit(c, s, q, a, m, v),
           EnsureShim(c) \/ TerminateShim(c) \/ RemoveDirectory(c)
    PROVE  Thrives(c, s)
<1>1. /\ q[1].do \in {"shim", "terminate", "rmdir"} /\ UNCHANGED <<rows, route>> /\ s = Box(c) /\ q[1] \in Steps
      /\ v \in Vitals /\ TypeOK /\ s \in Sandboxes /\ Vital(s, m, v)
      /\ (\A k : ~Fault(k) /\ ~Broken(c, k)) /\ Bears(q[1], v)
      /\ rows[s].state # "failed" /\ CallsOK /\ call[c].todo # <<>> /\ q = call[c].todo /\ m = call[c].slot
      /\ q[1].do = "shim" <=> EnsureShim(c)
  <2>1. \A k : At(c, k) <=> q[1].do = k
    BY Calm
  <2>2. q[1].do \in {"shim", "terminate", "rmdir"} /\ UNCHANGED <<rows, route>>
    BY <2>1 DEF EnsureShim, TerminateShim, RemoveDirectory, storeVars
  <2>3. q[1].do = "shim" <=> EnsureShim(c)
    BY <2>1 DEF EnsureShim, TerminateShim, RemoveDirectory
  <2> QED  BY <2>2, <2>3, Calm
<1>2. Succeed(c)
  BY <1>1 DEF EnsureShim, TerminateShim, RemoveDirectory
<1>3. Goes(c, Tail(q), m, call[c].seen)
  BY <1>1, <1>2, OutcomeGoes
<1>4. CASE EnsureShim(c)
  <2>1. handle[s] = "none"
    BY <1>1, <1>4 DEF Bears, Vital
  <2>2. handle'[s] = "empty"
    BY <1>1, <1>4, <2>1 DEF EnsureShim, TypeOK
  <2>3. VitalAfter(q[1], v) = Vt("empty", v.net)
    BY <1>1, <1>4, VitalTyped
  <2>4. Vital(s, m, Vt("empty", v.net))'
    BY <1>1, <2>2, VitalTypes DEF Vital
  <2> QED  BY <1>1, <1>3, <2>3, <2>4, Onward
<1>5. CASE ~EnsureShim(c)
  <2>1. VitalAfter(q[1], v) = Vt("any", v.net)
    BY <1>1, <1>5, VitalTyped
  <2>2. Vital(s, m, Vt("any", v.net))'
    BY <1>1, VitalTypes DEF Vital
  <2> QED  BY <1>1, <1>3, <2>1, <2>2, Onward
<1> QED  BY <1>4, <1>5

\* A call for a VM thrives as long as no fault and no deletion comes.
LEMMA StepThrives ==
    ASSUME RoomForAll, NEW c \in Callers, NEW s, NEW q, NEW a, NEW m, NEW v, Fit(c, s, q, a, m, v), Step(c)
    PROVE  Thrives(c, s)
<1>1. /\ ~MountRootfs(c) /\ ~UnmountRootfs(c) /\ ~RemoveRootfs(c) /\ ~KillUnready(c)
  BY Calm DEF MountRootfs, UnmountRootfs, RemoveRootfs, KillUnready, Bears
<1>2. ~RollBack(c) /\ ~DropRow(c)
  BY Calm, NoneDropped DEF RollBack
<1> QED  BY <1>1, <1>2, SteadySteps, ReadThrives, CompareThrives, AssignThrives, ReleaseThrives,
            PrepareThrives, RuntimeThrives, ShimThrives DEF Step

\* Calls other than the one that takes a step stay, and that one stays with its sandbox.
LEMMA StepOthers ==
    ASSUME TypeOK, NEW c \in Callers, Step(c)
    PROVE  /\ \A d \in Callers \ {c} : call'[d] = call[d]
           /\ call'[c] = Idle \/ call'[c].box = call[c].box
<1> DEFINE Stays == /\ \A d \in Callers \ {c} : call'[d] = call[d]
                    /\ call'[c] = Idle \/ call'[c].box = call[c].box
<1>1. ASSUME NEW k, Become(c, k), k.box = call[c].box
      PROVE  Stays
  BY <1>1 DEF Become, TypeOK
<1>2. /\ Stepped(c).box = call[c].box
      /\ \A t : [call[c] EXCEPT !.todo = t].box = call[c].box
      /\ \A x, t : [call[c] EXCEPT !.seen = x, !.todo = t].box = call[c].box
      /\ \A x : [Stepped(c) EXCEPT !.undo = x].box = call[c].box /\ [Stepped(c) EXCEPT !.slot = x].box = call[c].box
  BY DEF Stepped, TypeOK, CallRecords
<1> SUFFICES Stays
  OBVIOUS
<1> HIDE DEF Stays
<1>3. Succeed(c) \/ Fail(c) => Stays
  BY <1>1, <1>2 DEF Succeed, Fail
<1>4. CASE ReadState(c) \/ CompareAndSet(c) \/ Assign(c)
  BY <1>1, <1>2, <1>3, <1>4 DEF ReadState, CompareAndSet, Assign
<1>5. CASE Free(c) \/ RecordSnapshot(c) \/ DropSnapshots(c) \/ DropRow(c) \/ Reread(c) \/ PrepareNetwork(c)
           \/ CleanupNetwork(c)
  BY <1>3, <1>5 DEF Free, RecordSnapshot, DropSnapshots, DropRow, Reread, PrepareNetwork, CleanupNetwork
<1>6. CASE CallRuntime(c) \/ KillUnready(c) \/ EnsureShim(c) \/ TerminateShim(c) \/ RemoveDirectory(c)
           \/ RefreshAgent(c)
  BY <1>3, <1>6 DEF CallRuntime, KillUnready, EnsureShim, TerminateShim, RemoveDirectory, RefreshAgent
<1>7. CASE PrepareFiles(c) \/ MountRootfs(c) \/ UnmountRootfs(c) \/ RemoveRootfs(c)
  BY <1>1, <1>2, <1>3, <1>7 DEF PrepareFiles, MountRootfs, UnmountRootfs, RemoveRootfs
<1>8. CASE RollBack(c)
  BY <1>8 DEF RollBack, TypeOK, Stays
<1> QED  BY <1>4, <1>5, <1>6, <1>7, <1>8 DEF Step

\* What is known of another VM stays known.
LEMMA OtherVital ==
    ASSUME TypeOK, NEW s, Apart(s), NEW t \in Sandboxes \ {s}, NEW n, NEW v, Vital(t, n, v), NoneDeleted
    PROVE  Vital(t, n, v)'
<1>1. rows'[t] = rows[t] /\ handle'[t] = handle[t]
      /\ (rows[t].slot > 0 /\ route[rows[t].slot] = t => route'[rows[t].slot] = t)
  BY DEF Apart
<1>2. v.net = "routed" => n \in Slots /\ n = rows[t].slot /\ n > 0 /\ route[n] = t
  BY MaxSlotAssumption DEF Vital, Slots
<1> QED  BY <1>1, <1>2 DEF Vital

\* Routes lead to namespaces that are there, after a step as before.
LEMMA StepPlugged ==
    ASSUME NEW c \in Callers, Step(c), TypeOK,
           \A n \in Slots : route[n] \in Sandboxes => route[n] \in netns
    PROVE  \A n \in Slots : route'[n] \in Sandboxes => route'[n] \in netns'
<1>1. CASE UNCHANGED <<netns, route>>
  BY <1>1
<1>2. CASE PrepareNetwork(c)
  BY <1>1, <1>2, ServiceAssumption DEF PrepareNetwork, Rewire, TypeOK
<1>3. CASE CleanupNetwork(c)
  BY <1>1, <1>3, ServiceAssumption DEF CleanupNetwork, TypeOK
<1>4. CASE ReadState(c) \/ CompareAndSet(c) \/ Assign(c) \/ Free(c) \/ RecordSnapshot(c) \/ DropSnapshots(c)
           \/ DropRow(c) \/ Reread(c) \/ RefreshAgent(c)
  BY <1>1, <1>4 DEF ReadState, CompareAndSet, Assign, Free, RecordSnapshot, DropSnapshots, DropRow, Reread,
                    RefreshAgent, hostVars
<1>5. CASE \/ CallRuntime(c) \/ KillUnready(c) \/ EnsureShim(c) \/ TerminateShim(c) \/ RemoveDirectory(c)
           \/ PrepareFiles(c) \/ MountRootfs(c) \/ UnmountRootfs(c) \/ RemoveRootfs(c) \/ RollBack(c)
  BY <1>1, <1>5 DEF CallRuntime, KillUnready, EnsureShim, TerminateShim, RemoveDirectory, PrepareFiles,
                    MountRootfs, UnmountRootfs, RemoveRootfs, RollBack
<1> QED  BY <1>2, <1>3, <1>4, <1>5 DEF Step

\* A step of a call keeps the service in health.
LEMMA StepHealthy ==
    ASSUME RoomForAll, Order, Health, NEW c \in Callers, Step(c)
    PROVE  Health'
<1>1. PICK s : s = Box(c)
  OBVIOUS
<1>2. /\ s \in Sandboxes /\ s \in used /\ Apart(s) /\ TypeOK /\ SlotExclusive /\ Conduct
  BY <1>1, StepBox, StepApart DEF Order
<1>3. faults'.n = 0 => faults' = faults
  BY <1>2, StepFaults, FaultsCount
<1>4. \A n \in Slots : route'[n] \in Sandboxes => route'[n] \in netns'
  BY <1>2, StepPlugged DEF Health
<1>5. ASSUME Healthy'
      PROVE  /\ \A t \in VMs : rows'[t].state # "failed"
             /\ \A d \in Callers : Box(d)' \in VMs => Hearty(call[d])'
  <2>1. Healthy /\ NoneDeleted
    <3>1. NoneDeleted' => NoneDeleted
      BY <1>2, ApartKeeps
    <3> QED  BY <1>3, <1>5, <3>1 DEF Healthy
  <2>2. s \in VMs => Thrives(c, s)
    <3> SUFFICES ASSUME s \in VMs PROVE Thrives(c, s)
      OBVIOUS
    <3>1. Hearty(call[c])
      BY <1>1, <2>1 DEF Health
    <3>2. PICK v \in Vitals : Sails(call[c].todo, v) /\ Vital(call[c].box, call[c].slot, v)
      BY <3>1 DEF Hearty
    <3>3. CASE call[c].todo # <<>>
      <4>1. PICK r, q, a, m : Facing(c, r, q, a, m)
        BY <3>3, Faces
      <4>2. r = s /\ q = call[c].todo /\ m = call[c].slot /\ call[c].box = s
        BY <1>1, <4>1, Faced DEF Box
      <4>3. Facing(c, s, q, a, m) /\ Sails(q, v) /\ Vital(s, m, v)
        <5>1. Sails(q, v) /\ Vital(s, m, v)
          BY <3>2, <4>2
        <5> QED  BY <4>1, <4>2, <5>1
      <4>4. Fit(c, s, q, a, m, v)
        BY <1>5, <2>1, <4>3 DEF Fit
      <4> QED  BY <4>4, StepThrives
    <3>4. CASE call[c].todo = <<>>
      <4>1. RollBack(c)
        BY <3>4 DEF Step, ReadState, CompareAndSet, Assign, Free, RecordSnapshot, DropSnapshots, DropRow,
               Reread, PrepareNetwork, CleanupNetwork, CallRuntime, KillUnready, EnsureShim, TerminateShim,
               RemoveDirectory, RefreshAgent, PrepareFiles, MountRootfs, UnmountRootfs, RemoveRootfs, At
      <4>2. call'[c] = Idle /\ rows' = rows
        BY <1>2, <4>1 DEF RollBack, TypeOK, storeVars
      <4>3. Box(c)' = Nobody
        BY <4>2 DEF Box, Idle
      <4> QED  BY <2>1, <4>2, <4>3, ServiceAssumption DEF Thrives, Health, VMs
    <3> QED  BY <3>3, <3>4
  <2>3. ASSUME NEW t \in VMs
        PROVE  rows'[t].state # "failed"
    <3>1. CASE t = s
      BY <2>2, <2>3, <3>1 DEF Thrives
    <3>2. CASE t # s
      BY <1>2, <2>1, <2>3, <3>2 DEF Apart, Health, VMs
    <3> QED  BY <3>1, <3>2
  <2>4. ASSUME NEW d \in Callers, Box(d)' \in VMs
        PROVE  Hearty(call[d])'
    <3>1. CASE d = c
      <4>1. s \in VMs
        <5>1. call'[c] = Idle \/ call'[c].box = call[c].box
          BY <1>2, StepOthers
        <5>2. Idle.box = Nobody
          BY DEF Idle
        <5> QED  BY <1>1, <2>4, <3>1, <5>1, <5>2, ServiceAssumption DEF Box, VMs
      <4> QED  BY <2>2, <2>4, <3>1, <4>1 DEF Thrives
    <3>2. CASE d # c
      <4>1. call'[d] = call[d]
        BY <1>2, <3>2, StepOthers
      <4>2. PICK t \in VMs : t = call[d].box
        BY <2>4, <4>1 DEF Box
      <4>3. Hearty(call[d])
        BY <2>1, <4>2 DEF Health, Box
      <4>4. t # s /\ t \in Sandboxes
        BY <1>1, <1>2, <3>2, <4>2, ServiceAssumption DEF Conduct, Serial, Box, VMs
      <4>5. PICK v \in Vitals : Sails(call[d].todo, v) /\ Vital(call[d].box, call[d].slot, v)
        BY <4>3 DEF Hearty
      <4>6. PICK n : n = call[d].slot
        OBVIOUS
      <4>7. Vital(t, n, v)
        BY <4>2, <4>5, <4>6
      <4>8. Vital(t, n, v)'
        BY <1>2, <2>1, <4>4, <4>7, OtherVital
      <4>9. Sails(call'[d].todo, v) /\ Vital(call[d].box, call[d].slot, v)'
        BY <4>1, <4>2, <4>5, <4>6, <4>8
      <4> QED  BY <4>9 DEF Hearty
    <3> QED  BY <3>1, <3>2
  <2> QED  BY <2>3, <2>4
<1> QED  BY <1>3, <1>4, <1>5 DEF Health

\* A call arrives for a VM in the state that the lifecycle gives its operation.
LEMMA BeginHealthy ==
    ASSUME Order, Health, Discipline = "lifecycle", NEW c \in Callers, NEW op \in Ops, NEW s \in Sandboxes,
           Begin(c, op, s)
    PROVE  Health'
<1> DEFINE k == [Idle EXCEPT !.op = op, !.box = s, !.slot = rows[s].slot, !.todo = StepsOf(op, s)]
<1>1. /\ op \in OpNames /\ rows[s].state \in LegalFrom(op)
      /\ op = "create" => InsertRow(s) /\ s \notin used /\ used' = used \union {s}
      /\ op # "create" => HasRow(s) /\ UNCHANGED storeVars /\ used' = used
      /\ call' = [call EXCEPT ![c] = k] /\ UNCHANGED <<handle, netns, route, faults>>
  BY ServiceAssumption DEF Begin, Permitted, hostVars
<1>2. k.box = s /\ k.slot = rows[s].slot /\ k.todo = StepsOf(op, s)
  BY DEF Idle
<1> HIDE DEF k
<1>3. TypeOK /\ Standing(s)
  BY DEF Order, Conduct
<1>4. call'[c] = k /\ \A d \in Callers : d # c => call'[d] = call[d]
  BY <1>1, <1>3 DEF TypeOK
<1>5. /\ \A t \in Sandboxes \ {s} : rows'[t] = rows[t]
      /\ rows'[s].slot = rows[s].slot
      /\ op = "create" => rows'[s].state = "creating" /\ ~HasRow(s)
      /\ op # "create" => rows' = rows
  <2>1. CASE op = "create"
    <3>1. rows' = [rows EXCEPT ![s] = [state |-> "creating", slot |-> 0]] /\ rows[s] = NoRow
      BY <1>1, <2>1 DEF InsertRow, HasRow
    <3>2. rows'[s] = [state |-> "creating", slot |-> 0] /\ \A t \in Sandboxes \ {s} : rows'[t] = rows[t]
      BY <1>3, <3>1 DEF TypeOK, StoreTypeOK
    <3> QED  BY <2>1, <3>1, <3>2 DEF HasRow, NoRow
  <2>2. CASE op # "create"
    BY <1>1, <2>2 DEF storeVars
  <2> QED  BY <2>1, <2>2
<1>6. NoneDeleted' => NoneDeleted
  BY <1>1, <1>3, <1>5 DEF NoneDeleted, HasRow, TypeOK
<1>7. ASSUME Healthy', s \in VMs
      PROVE  Hearty(call[c])'
  <2>1. Healthy /\ faults.kinds = {} /\ NoneDeleted
    BY <1>1, <1>6, <1>7 DEF Healthy, Health
  <2>2. PICK v : v = Departure(op)
    OBVIOUS
  <2>3. PICK n : n = rows[s].slot
    OBVIOUS
  <2>4. Sails(StepsOf(op, s), v) /\ v \in Vitals
    BY <1>1, <1>7, <2>2, HandlersSail, VitalTypes DEF Departure
  <2>5. Vital(s, n, v)'
    <3>1. CASE op = "create"
      <4>1. v.rt = "none" /\ v.net = "any"
        BY <2>2, <3>1, VitalTypes DEF Departure
      <4>2. handle[s] = "none"
        BY <1>3, <1>5, <2>1, <3>1, RowIs DEF Standing, HostSound, Gone
      <4> QED  BY <1>1, <4>1, <4>2 DEF Vital
    <3>2. CASE op \in {"resume", "start"}
      <4>1. v.rt = "idle" /\ v.net = "any"
        BY <2>2, <3>2, VitalTypes DEF Departure
      <4>2. handle[s] = "idle"
        BY <1>1, <1>3, <3>2 DEF Standing, LegalFrom
      <4> QED  BY <1>1, <4>1, <4>2 DEF Vital
    <3>3. CASE op \in {"pause", "stop"}
      <4>1. v.rt = "live" /\ v.net = "any"
        BY <2>2, <3>3, VitalTypes DEF Departure
      <4>2. handle[s] = "live"
        BY <1>1, <1>3, <2>1, <3>3 DEF Standing, LegalFrom, Live
      <4> QED  BY <1>1, <4>1, <4>2 DEF Vital
    <3>4. CASE op = "reboot"
      <4>1. v.rt = "live" /\ v.net = "routed"
        BY <2>2, <3>4, VitalTypes DEF Departure
      <4>2. handle[s] = "live" /\ n > 0 /\ route[n] = s
        BY <1>1, <1>3, <2>1, <2>3, <3>4 DEF Standing, LegalFrom, Live
      <4>3. n \in Slots
        BY <1>3, <2>3, <4>2, RowIs
      <4> QED  BY <1>1, <1>5, <2>3, <4>1, <4>2, <4>3 DEF Vital
    <3>5. CASE op = "kill"
      <4>1. v.rt = "any" /\ v.net = "any"
        BY <2>2, <3>5, VitalTypes DEF Departure
      <4> QED  BY <4>1 DEF Vital
    <3> QED  BY <1>1, <3>1, <3>2, <3>3, <3>4, <3>5 DEF OpNames
  <2>6. Sails(call'[c].todo, v) /\ Vital(call[c].box, call[c].slot, v)'
    BY <1>2, <1>4, <2>3, <2>4, <2>5
  <2> QED  BY <2>4, <2>6 DEF Hearty
<1>8. ASSUME Healthy'
      PROVE  /\ \A t \in VMs : rows'[t].state # "failed"
             /\ \A d \in Callers : Box(d)' \in VMs => Hearty(call[d])'
  <2>1. Healthy
    BY <1>1, <1>6, <1>8 DEF Healthy
  <2>2. \A t \in VMs : rows'[t].state # "failed"
    BY <1>5, <2>1 DEF Health, VMs
  <2>3. ASSUME NEW d \in Callers, Box(d)' \in VMs
        PROVE  Hearty(call[d])'
    <3>1. CASE d = c
      BY <1>2, <1>4, <1>7, <1>8, <2>3, <3>1 DEF Box
    <3>2. CASE d # c
      <4>1. call'[d] = call[d]
        BY <1>4, <3>2
      <4>2. Hearty(call[d])
        BY <2>1, <2>3, <4>1 DEF Health, Box
      <4>3. PICK v \in Vitals : Sails(call[d].todo, v) /\ Vital(call[d].box, call[d].slot, v)
        BY <4>2 DEF Hearty
      <4>4. PICK t \in VMs : t = call[d].box
        BY <2>3, <4>1 DEF Box
      <4>5. PICK n : n = call[d].slot
        OBVIOUS
      <4>6. rows'[t].slot = rows[t].slot
        BY <1>5, <4>4 DEF VMs
      <4>7. Vital(t, n, v)'
        BY <1>1, <4>3, <4>4, <4>5, <4>6, VitalStays
      <4>8. Sails(call'[d].todo, v) /\ Vital(call[d].box, call[d].slot, v)'
        BY <4>1, <4>3, <4>4, <4>5, <4>7
      <4> QED  BY <4>8 DEF Hearty
    <3> QED  BY <3>1, <3>2
  <2> QED  BY <2>2, <2>3
<1> QED  BY <1>1, <1>8 DEF Health

\* Every step of the service keeps it in health.
LEMMA ServiceHealthy ==
    ASSUME RoomForAll, Discipline = "lifecycle", Order, Health, [Next]_vars
    PROVE  Health'
<1>1. ASSUME NEW c \in Callers, NEW op \in Ops, NEW s \in Sandboxes, Begin(c, op, s)
      PROVE  Health'
  BY <1>1, BeginHealthy
<1>2. ASSUME NEW c \in Callers, Step(c)
      PROVE  Health'
  BY <1>2, StepHealthy
<1>3. ASSUME NEW k, Fault(k), UNCHANGED <<netns, route>>
      PROVE  Health'
  <2>1. faults'.n # 0
    BY <1>3, FaultsCount DEF Order
  <2> QED  BY <1>3, <2>1 DEF Health, Healthy
<1>4. ASSUME NEW c \in Callers, Cancel(c)
      PROVE  Health'
  BY <1>3, <1>4 DEF Cancel, hostVars
<1>5. CASE Crash
  BY <1>3, <1>5 DEF Crash, hostVars
<1>6. ASSUME NEW s \in Sandboxes, RuntimeExits(s)
      PROVE  Health'
  BY <1>3, <1>6 DEF RuntimeExits
<1>7. CASE UNCHANGED vars
  <2>1. UNCHANGED <<rows, handle, netns, route, used, call, faults>>
    BY <1>7 DEF vars, storeVars, hostVars
  <2> QED  BY <2>1 DEF Health, Healthy, NoneDeleted, HasRow, Hearty, Vital, Box
<1> QED  BY <1>1, <1>2, <1>4, <1>5, <1>6, <1>7 DEF Next, Quiet

\* Without a fault, and until a sandbox is deleted, no VM of clients that keep to the lifecycle
\* fails, as long as there are no more sandboxes than slots: the handlers find every row, slot,
\* shim, route and agent as their own lifecycle left it.
THEOREM HealthyVMsSucceed ==
    Discipline = "lifecycle" /\ IsFiniteSet(Sandboxes) /\ Cardinality(Sandboxes) <= MaxSlot =>
        (Spec => []HealthyVMNeverFails)
<1> SUFFICES ASSUME Discipline = "lifecycle", RoomForAll PROVE Spec => []HealthyVMNeverFails
  BY DEF RoomForAll
<1>1. Init => Health
  <2> SUFFICES ASSUME Init PROVE Health
    OBVIOUS
  <2>1. \A s \in Sandboxes : rows[s] = NoRow
    BY DEF Init, StoreInit
  <2>2. \A c \in Callers : Box(c) = Nobody
    BY DEF Init, Idle, Box
  <2>3. faults.kinds = {} /\ \A n \in Slots : route[n] = Nobody
    BY DEF Init
  <2> QED  BY <2>1, <2>2, <2>3, ServiceAssumption DEF Health, VMs, NoRow
<1>2. ServiceInv /\ TypeOK /\ SlotExclusive /\ Conduct /\ Health /\ [Next]_vars => Health'
  BY ServiceHealthy DEF Order, ServiceInv
<1>3. Health => HealthyVMNeverFails
  BY DEF Health, Healthy, HealthyVMNeverFails, VMs
<1> QED  BY <1>1, <1>2, <1>3, LifecycleConduct, ServiceInvariant, ServiceTypes, ServiceSlotsExclusive,
            PTL DEF Spec
=============================================================================
