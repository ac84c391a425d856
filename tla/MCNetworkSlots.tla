--------------------------- MODULE MCNetworkSlots ---------------------------
(* Every pair of IPv4 networks of a WordBits-bit address space; in one pair *)
(* of them, with three slots, sandboxes come and go.                        *)
EXTENDS HostNetwork

CONSTANT WordBits

ASSUME WordSize = 2^WordBits

Networks ==
    UNION {{[base |-> k * 2^n, size |-> 2^n] : k \in 0 .. 2^(WordBits - n) - 1}
           : n \in 0..WordBits}

Peopled == host = [base |-> 8, size |-> 4] /\ veth = [base |-> 16, size |-> 8]

\* In the network with sandboxes one more may hold the first slot.
MCInit ==
    /\ host \in Networks /\ veth \in Networks
    /\ held \in IF Peopled THEN {{}, {1}} ELSE {{}}
    /\ HostInit

MCNext == \/ ~Peopled /\ Next /\ UNCHANGED hostVars
          \/ Peopled /\ HostNext

MCSpec == MCInit /\ [][MCNext]_<<vars, hostVars>>

=============================================================================
