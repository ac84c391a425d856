--------------------------- MODULE MCSharedStore ---------------------------
(***************************************************************************)
(* The three processes on one file with two migrations, and three          *)
(* sandboxes on pages of one and two items.                                *)
(***************************************************************************)
EXTENDS SandboxListing

MCProcs == {"boxlet", "boxapi", "boxproxy"}
MCIds == 1..3
MCQueries == {Absent, 0, 3}

\* A step of the list commutes with one of boxproxy, which has no part in it.
MCNext == Next /\ (UNCHANGED listVars \/ (UNCHANGED startVars /\ Serves("boxproxy")))
MCSpec == Init /\ [][MCNext]_vars
          /\ \A p \in Procs : WF_vars(Opens(p) /\ UNCHANGED listVars)

=============================================================================
