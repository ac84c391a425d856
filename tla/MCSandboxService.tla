--------------------------- MODULE MCSandboxService -------------------------
(* Small instances of SandboxService; the cfg files choose the sandboxes,   *)
(* the clients' discipline and the faults.                                  *)
EXTENDS SandboxService, TLC

\* Callers are interchangeable.
CallerSymmetry == Permutations(Callers)

\* VM sandboxes and callers are, when no sandbox is a container.
FullSymmetry == Permutations(Callers) \union Permutations(Sandboxes)

=============================================================================
