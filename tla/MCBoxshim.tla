------------------------------ MODULE MCBoxshim ------------------------------
(* Small instances of Boxshim.                                              *)
EXTENDS Boxshim, TLC

\* Calls are interchangeable.
CallSymmetry == Permutations(Calls)

=============================================================================
