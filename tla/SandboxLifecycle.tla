-------------------------- MODULE SandboxLifecycle --------------------------
(***************************************************************************)
(* The sandbox state machine of internal/sandbox/types.go as               *)
(* docs/architecture/lifecycle.md draws it: which state may follow which.  *)
(* It is the abstract specification of boxlet's sandbox handlers           *)
(* (SandboxService); "absent" stands for a sandbox that has no row.        *)
(***************************************************************************)
CONSTANT Sandboxes

VARIABLE phase      \* the lifecycle state of every sandbox

\* Transitional states, each with the states it is entered from and the state
\* it reaches when the operation succeeds.
Entry ==
    [creating |-> {"absent"}, pausing |-> {"running"}, resuming |-> {"paused"},
     stopping |-> {"running"}, starting |-> {"stopped"}, rebooting |-> {"running"}]
Goal ==
    [creating |-> "running", pausing |-> "paused", resuming |-> "running",
     stopping |-> "stopped", starting |-> "running", rebooting |-> "running",
     killing |-> "killed"]

\* The operation starts, succeeds or fails; kill starts from any state, and a
\* killed sandbox is removed.
Legal(from, to) ==
    \/ to \in DOMAIN Entry /\ from \in Entry[to]
    \/ from # "absent" /\ to = "killing"
    \/ from \in DOMAIN Goal /\ to \in {Goal[from], "failed"}
    \/ from = "killed" /\ to = "absent"

Init == phase = [s \in Sandboxes |-> "absent"]

Move(s) ==
    \E to \in DOMAIN Goal \union {"running", "paused", "stopped", "killed", "failed", "absent"} :
        /\ Legal(phase[s], to)
        /\ phase' = [phase EXCEPT ![s] = to]

Next == \E s \in Sandboxes : Move(s)

Spec == Init /\ [][Next]_phase

=============================================================================
