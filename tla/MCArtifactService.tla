------------------------- MODULE MCArtifactService -------------------------
(* Small instances of ArtifactService.                                     *)
EXTENDS ArtifactService, TLC

\* Calls are interchangeable.
CallSymmetry == Permutations(Calls)

\* Bound: the guests of so many build sandboxes write to their disks.
MaxWriters == 1
FewWriters == Cardinality({c \in Calls : \E f \in Files : <<c, "run">> \in data[f]}) <= MaxWriters

MCSpec == Init /\ [][Next /\ FewWriters']_vars

=============================================================================
