---------------------------- MODULE NetworkSlots ----------------------------
(***************************************************************************)
(* How the network manager numbers a host's network: slots are handed out  *)
(* by AssignSandboxNetworkSlot up to MaxSlots, and a slot fixes one        *)
(* host_access_ip and one veth pair (internal/boxlet/server/network.go).   *)
(* The arithmetic is on uint32 values; WordSize is 2^32 in the code.       *)
(* A definition whose comment begins with "Slip" is not the code but a     *)
(* mistake one could make in it, which some property must notice.          *)
(***************************************************************************)
EXTENDS Integers

CONSTANT WordSize

ASSUME WordSizeAssumption == WordSize \in Nat \ {0} /\ WordSize % 2 = 0

VARIABLES
    host,       \* HostAccessCIDR
    veth,       \* VethCIDR
    held        \* the slots some sandbox holds

vars == <<host, veth, held>>

-----------------------------------------------------------------------------
(* Addresses.  A CIDR is a block of size addresses at an aligned base.      *)

\* What net.ParseCIDR returns: the base has no bit below the mask.
IsCIDR(net) ==
    /\ net \in [base : Nat, size : Nat \ {0}]
    /\ net.base + net.size <= WordSize
    /\ net.size = 1 \/ (net.size % 2 = 0 /\ net.base % 2 = 0)

NoIP == -1

\* uint32(1) << (32 - ones): a /0 has as many addresses as wrap to none.
TotalIPs(net) == net.size % WordSize

\* networkSlotsForCIDR; 0 is its error.
SlotsForCIDR(net, addressesPerSlot) ==
    LET totalSlots == TotalIPs(net) \div addressesPerSlot IN
    IF totalSlots <= 1 THEN 0 ELSE totalSlots - 1

\* Slip: the veth network is taken to have one address for each slot.
MaxSlotsOfHost(h, v) ==
    LET hostAccessSlots == SlotsForCIDR(h, 1) IN
    LET vethSlots == SlotsForCIDR(v, 1) IN
    IF hostAccessSlots < vethSlots THEN hostAccessSlots ELSE vethSlots

MaxSlots(h, v) ==
    LET hostAccessSlots == SlotsForCIDR(h, 1) IN
    LET vethSlots == SlotsForCIDR(v, 2) IN
    IF hostAccessSlots < vethSlots THEN hostAccessSlots ELSE vethSlots

\* NoIP is its error.
IndexedIP(net, index) ==
    IF index = 0 \/ index >= TotalIPs(net) THEN NoIP
    ELSE (net.base + index) % WordSize

\* Slip: neighbouring slots share an address.
VethAddrsOverlapping(net, slot) ==
    [hostIP |-> IndexedIP(net, slot), peerIP |-> IndexedIP(net, slot + 1)]

\* vethAddrsForSlot.
VethAddrs(net, slot) ==
    [hostIP |-> IndexedIP(net, (slot * 2) % WordSize),
     peerIP |-> IndexedIP(net, (slot * 2 + 1) % WordSize)]

\* Slip: slots are counted from the base address.
SlotFromBase(net, ip) == IF ip < net.base THEN 0 ELSE ip - net.base + 1

\* networkSlotFromHostAccessIP; 0 is its error.
SlotFromIP(net, ip) ==
    IF ip \in net.base + 1 .. net.base + net.size - 1 THEN ip - net.base ELSE 0

-----------------------------------------------------------------------------
(* The slots.                                                               *)

TypeInit ==
    /\ IsCIDR(host) /\ IsCIDR(veth)
    /\ held = {}

\* Slip: the last candidate is one past MaxSlots.
AssignPastEnd ==
    /\ \E n \in 1..MaxSlots(host, veth) + 1 :
          /\ n \notin held
          /\ \A m \in 1..n - 1 : m \in held
          /\ held' = held \union {n}
    /\ UNCHANGED <<host, veth>>

\* The lowest candidate that no sandbox holds.
Assign ==
    /\ \E n \in 1..MaxSlots(host, veth) :
          /\ n \notin held
          /\ \A m \in 1..n - 1 : m \in held
          /\ held' = held \union {n}
    /\ UNCHANGED <<host, veth>>

Release ==
    /\ \E n \in held : held' = held \ {n}
    /\ UNCHANGED <<host, veth>>

Next == Assign \/ Release

Spec == TypeInit /\ [][Next]_vars

-----------------------------------------------------------------------------
(* Properties.                                                              *)

\* The types of the slots and networks.
TypeOK == IsCIDR(host) /\ IsCIDR(veth) /\ held \subseteq 1..MaxSlots(host, veth)

\* The network manager can configure every slot the store hands out: neither
\* SpecForSlot nor vethAddrsForSlot runs out of its CIDR (MaxSlots).
SlotsConfigurable ==
    \A n \in held :
        /\ IndexedIP(host, n) # NoIP
        /\ VethAddrs(veth, n).hostIP # NoIP
        /\ VethAddrs(veth, n).peerIP # NoIP

\* The addresses of two slots are all different, so two sandboxes never share a
\* host_access_ip, a host veth or a namespace veth address.
AddressesExclusive ==
    \A m, n \in held :
        m # n =>
            /\ IndexedIP(host, m) # IndexedIP(host, n)
            /\ {VethAddrs(veth, m).hostIP, VethAddrs(veth, m).peerIP}
               \intersect {VethAddrs(veth, n).hostIP, VethAddrs(veth, n).peerIP} = {}

\* Prepare recovers from a host_access_ip the slot it was made from, so it
\* configures the veth pair that the NAT rules of that slot name.
SlotRecovered == \A n \in held : SlotFromIP(host, IndexedIP(host, n)) = n

\* The ends of a veth pair are the two addresses of one /31 (vethMask), so each
\* is on the other's link.
PairOnLink ==
    \A n \in held :
        LET pair == VethAddrs(veth, n) IN
        pair.hostIP # pair.peerIP /\ pair.hostIP \div 2 = pair.peerIP \div 2

=============================================================================
