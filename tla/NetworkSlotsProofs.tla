------------------------- MODULE NetworkSlotsProofs -------------------------
(***************************************************************************)
(* Proofs that the slots of a host number disjoint addresses, for every    *)
(* pair of networks and any word size; and that a sandbox which is up      *)
(* answers to its own address, and a request to boxproxy ends in the       *)
(* sandbox it names, for any sandboxes, requests, starts and failures.     *)
(*                                                                         *)
(* A handler works through a list of commands, and what holds of its       *)
(* sandbox depends on the first command left: an invariant for each        *)
(* sandbox (SandboxInv) and one for what the sandboxes of a host share     *)
(* (HostInv).  A command is one sandbox's: what it leaves of the others    *)
(* (Elsewhere) keeps theirs, because their addresses are not its own.      *)
(***************************************************************************)
EXTENDS HostNetwork, FiniteSetTheorems, TLAPS

\* A number below the word size is not wrapped.
LEMMA NoWrap == \A x \in Nat : x < WordSize => x % WordSize = x
  BY WordSizeAssumption

\* Only a block of the whole address space has a size that wraps, and then to 0.
LEMMA TotalIPsRange ==
    ASSUME NEW cidr, IsCIDR(cidr)
    PROVE  /\ TotalIPs(cidr) \in Nat
           /\ TotalIPs(cidr) \in {0, cidr.size}
  <1>1. cidr.size \in Nat \ {0} /\ cidr.base \in Nat /\ cidr.size <= WordSize
    BY WordSizeAssumption DEF IsCIDR
  <1>2. CASE cidr.size < WordSize
    BY <1>1, <1>2, NoWrap DEF TotalIPs
  <1>3. CASE cidr.size = WordSize
    <2>1. WordSize % WordSize = 0
      BY WordSizeAssumption
    <2> QED
      BY <1>3, <2>1 DEF TotalIPs
  <1> QED
    BY <1>1, <1>2, <1>3, WordSizeAssumption

\* The slots a host has are numbers that both of its networks can index.
LEMMA MaxSlotsBounds ==
    ASSUME IsCIDR(host), IsCIDR(veth)
    PROVE  /\ MaxSlots(host, veth) \in Nat
           /\ \A n \in 1..MaxSlots(host, veth) :
                 /\ n < host.size /\ TotalIPs(host) = host.size
                 /\ n * 2 + 1 < veth.size /\ TotalIPs(veth) = veth.size
  <1> DEFINE h == TotalIPs(host)
             v == TotalIPs(veth)
  <1>1. h \in Nat /\ h \in {0, host.size} /\ v \in Nat /\ v \in {0, veth.size}
    BY TotalIPsRange
  <1>2. SlotsForCIDR(host, 1) = IF h <= 1 THEN 0 ELSE h - 1
    BY <1>1 DEF SlotsForCIDR
  <1>3. SlotsForCIDR(veth, 2) = IF v \div 2 <= 1 THEN 0 ELSE v \div 2 - 1
    BY <1>1 DEF SlotsForCIDR
  <1> HIDE DEF h, v
  <1>4. v \div 2 \in Nat /\ 2 * (v \div 2) <= v
    BY <1>1
  <1>5. MaxSlots(host, veth) \in Nat
    BY <1>1, <1>2, <1>3, <1>4 DEF MaxSlots
  <1>6. ASSUME NEW n \in 1..MaxSlots(host, veth)
        PROVE  n < h /\ n * 2 + 1 < v
    BY <1>1, <1>2, <1>3, <1>4, <1>5, <1>6 DEF MaxSlots
  <1> QED
    BY <1>1, <1>5, <1>6 DEF h, v

\* The addresses of a slot that the host has: none of them wraps or is refused.
LEMMA SlotAddresses ==
    ASSUME IsCIDR(host), IsCIDR(veth), NEW n \in 1..MaxSlots(host, veth)
    PROVE  /\ IndexedIP(host, n) = host.base + n
           /\ VethAddrs(veth, n).hostIP = veth.base + n * 2
           /\ VethAddrs(veth, n).peerIP = veth.base + n * 2 + 1
  <1>1. /\ host.base \in Nat /\ host.size \in Nat /\ host.base + host.size <= WordSize
        /\ veth.base \in Nat /\ veth.size \in Nat /\ veth.base + veth.size <= WordSize
    BY DEF IsCIDR
  <1>2. /\ n \in Nat /\ n > 0 /\ n < host.size /\ TotalIPs(host) = host.size
        /\ n * 2 + 1 < veth.size /\ TotalIPs(veth) = veth.size
    BY MaxSlotsBounds
  <1>3. WordSize \in Nat
    BY WordSizeAssumption
  <1>4. (host.base + n) % WordSize = host.base + n
    BY <1>1, <1>2, <1>3, NoWrap
  <1>5. (n * 2) % WordSize = n * 2 /\ (n * 2 + 1) % WordSize = n * 2 + 1
    BY <1>1, <1>2, <1>3, NoWrap
  <1>6. /\ (veth.base + n * 2) % WordSize = veth.base + n * 2
        /\ (veth.base + (n * 2 + 1)) % WordSize = veth.base + (n * 2 + 1)
    <2> DEFINE x == veth.base + n * 2
               y == veth.base + (n * 2 + 1)
    <2>1. x \in Nat /\ y \in Nat /\ x < WordSize /\ y < WordSize
      BY <1>1, <1>2, <1>3
    <2> HIDE DEF x, y
    <2>2. x % WordSize = x /\ y % WordSize = y
      BY <2>1, NoWrap
    <2> QED
      BY <2>2 DEF x, y
  <1>7. IndexedIP(host, n) = host.base + n
    BY <1>2, <1>1, <1>4 DEF IndexedIP
  <1>8. /\ IndexedIP(veth, n * 2) = veth.base + n * 2
        /\ IndexedIP(veth, n * 2 + 1) = veth.base + n * 2 + 1
    BY <1>2, <1>1, <1>6 DEF IndexedIP
  <1> QED
    BY <1>5, <1>7, <1>8 DEF VethAddrs

-----------------------------------------------------------------------------
\* The networks do not change and only slots the host has are held.
THEOREM SlotTypes == Spec => []TypeOK
<1>1. TypeInit => TypeOK
  BY DEF TypeInit, TypeOK
<1>2. TypeOK /\ [Next]_vars => TypeOK'
  <2> SUFFICES ASSUME TypeOK, [Next]_vars PROVE TypeOK'
    OBVIOUS
  <2>1. CASE Assign
    BY <2>1 DEF TypeOK, Assign, IsCIDR, MaxSlots, SlotsForCIDR, TotalIPs
  <2>2. CASE Release
    BY <2>2 DEF TypeOK, Release, IsCIDR, MaxSlots, SlotsForCIDR, TotalIPs
  <2>3. CASE UNCHANGED vars
    BY <2>3 DEF TypeOK, vars, IsCIDR, MaxSlots, SlotsForCIDR, TotalIPs
  <2> QED
    BY <2>1, <2>2, <2>3 DEF Next
<1> QED
  BY <1>1, <1>2, PTL DEF Spec

\* Every slot handed out has its addresses: MaxSlots never promises one that
\* SpecForSlot or vethAddrsForSlot refuses.
THEOREM SlotsAreConfigurable == Spec => []SlotsConfigurable
<1>1. TypeOK => SlotsConfigurable
  <2> SUFFICES ASSUME TypeOK, NEW n \in held
               PROVE  /\ IndexedIP(host, n) # NoIP
                      /\ VethAddrs(veth, n).hostIP # NoIP
                      /\ VethAddrs(veth, n).peerIP # NoIP
    BY DEF SlotsConfigurable
  <2>1. IsCIDR(host) /\ IsCIDR(veth) /\ n \in 1..MaxSlots(host, veth)
    BY DEF TypeOK
  <2>2. host.base \in Nat /\ veth.base \in Nat /\ n \in Nat
    BY <2>1, MaxSlotsBounds DEF IsCIDR
  <2> QED
    BY <2>1, <2>2, SlotAddresses DEF NoIP
<1> QED
  BY <1>1, SlotTypes, PTL

\* No two slots share an address: the /32 of one sandbox is never another's, and
\* their veth pairs are disjoint.
THEOREM AddressesAreExclusive == Spec => []AddressesExclusive
<1>1. TypeOK => AddressesExclusive
  <2> SUFFICES ASSUME TypeOK, NEW m \in held, NEW n \in held, m # n
               PROVE  /\ IndexedIP(host, m) # IndexedIP(host, n)
                      /\ {VethAddrs(veth, m).hostIP, VethAddrs(veth, m).peerIP}
                         \intersect {VethAddrs(veth, n).hostIP, VethAddrs(veth, n).peerIP} = {}
    BY DEF AddressesExclusive
  <2>1. /\ IsCIDR(host) /\ IsCIDR(veth)
        /\ m \in 1..MaxSlots(host, veth) /\ n \in 1..MaxSlots(host, veth)
    BY DEF TypeOK
  <2>2. host.base \in Nat /\ veth.base \in Nat /\ m \in Nat /\ n \in Nat
    BY <2>1, MaxSlotsBounds DEF IsCIDR
  <2>3. /\ IndexedIP(host, m) = host.base + m /\ IndexedIP(host, n) = host.base + n
        /\ VethAddrs(veth, m).hostIP = veth.base + m * 2
        /\ VethAddrs(veth, m).peerIP = veth.base + m * 2 + 1
        /\ VethAddrs(veth, n).hostIP = veth.base + n * 2
        /\ VethAddrs(veth, n).peerIP = veth.base + n * 2 + 1
    BY <2>1, SlotAddresses
  <2> QED
    BY <2>2, <2>3
<1> QED
  BY <1>1, SlotTypes, PTL

\* Prepare and the NAT rules agree on the slot of a sandbox.
THEOREM SlotsAreRecovered == Spec => []SlotRecovered
<1>1. TypeOK => SlotRecovered
  <2> SUFFICES ASSUME TypeOK, NEW n \in held
               PROVE  SlotFromIP(host, IndexedIP(host, n)) = n
    BY DEF SlotRecovered
  <2>1. IsCIDR(host) /\ IsCIDR(veth) /\ n \in 1..MaxSlots(host, veth)
    BY DEF TypeOK
  <2>2. host.base \in Nat /\ host.size \in Nat /\ n \in Nat /\ 0 < n /\ n < host.size
    BY <2>1, MaxSlotsBounds DEF IsCIDR
  <2>3. IndexedIP(host, n) = host.base + n
    BY <2>1, SlotAddresses
  <2> QED
    BY <2>2, <2>3 DEF SlotFromIP
<1> QED
  BY <1>1, SlotTypes, PTL

\* The two ends of every veth pair are in one /31.
THEOREM PairsAreOnLink == Spec => []PairOnLink
<1>1. TypeOK => PairOnLink
  <2> SUFFICES ASSUME TypeOK, NEW n \in held
               PROVE  /\ VethAddrs(veth, n).hostIP # VethAddrs(veth, n).peerIP
                      /\ VethAddrs(veth, n).hostIP \div 2 = VethAddrs(veth, n).peerIP \div 2
    BY DEF PairOnLink
  <2>1. IsCIDR(host) /\ IsCIDR(veth) /\ n \in 1..MaxSlots(host, veth)
    BY DEF TypeOK
  <2>2. n \in Nat /\ 0 < n /\ n * 2 + 1 < veth.size
    BY <2>1, MaxSlotsBounds
  <2>3. veth.base \in Nat /\ veth.size \in Nat /\ veth.base % 2 = 0
    BY <2>1, <2>2 DEF IsCIDR
  <2>4. /\ VethAddrs(veth, n).hostIP = veth.base + n * 2
        /\ VethAddrs(veth, n).peerIP = veth.base + n * 2 + 1
    BY <2>1, SlotAddresses
  <2> QED
    BY <2>2, <2>3, <2>4
<1> QED
  BY <1>1, SlotTypes, PTL

-----------------------------------------------------------------------------
(* A host with sandboxes: where each handler is.                            *)

\* What may be left of a list of commands.
Commands    == Suffixes(PrepareSteps) \cup Suffixes(CleanupSteps)

Kind(t)     == IF t = << >> THEN "idle" ELSE Head(t)
Doing(s)    == Kind(todo[s])
Leads(t, k, next) == Kind(t) = k /\ Kind(Tail(t)) = next

IsList(p) == \E S : p \in Seq(S)

\* A list that begins with the element at i of p and goes on as p does.
Begins(t, p, i) ==
  /\ Head(t) = p[i]
  /\ i < Len(p) => Tail(t) # << >> /\ Head(Tail(t)) = p[i + 1]
  /\ i = Len(p) => Tail(t) = << >>

\* What is left of a list begins with an element of it and goes on with the next.
LEMMA Onward ==
  ASSUME NEW p, IsList(p), NEW t \in Suffixes(p), t # << >>
  PROVE  Tail(t) \in Suffixes(p) /\ \E i \in 1..Len(p) : Begins(t, p, i)
<1>0. PICK S : p \in Seq(S)
  BY DEF IsList
<1>1. PICK i \in 1..Len(p) : t = SubSeq(p, i, Len(p))
  BY DEF Suffixes
<1>2. /\ Len(p) \in Nat /\ t \in Seq(S) /\ Len(t) = Len(p) - i + 1
      /\ \A j \in 1..Len(t) : t[j] = p[i + j - 1]
  BY <1>0, <1>1
<1>3. Len(t) > 0
  BY <1>2
<1>4. /\ Head(t) = t[1] /\ Tail(t) \in Seq(S) /\ Len(Tail(t)) = Len(t) - 1
      /\ \A j \in 1..Len(t) - 1 : Tail(t)[j] = t[j + 1]
  BY <1>2, <1>3
<1>5. i < Len(p) => i + 1 \in 1..Len(p)
  BY <1>2
<1>6. Tail(t) = SubSeq(p, i + 1, Len(p))
  BY <1>0, <1>1, <1>2, <1>3, <1>4
<1>8. t[1] = p[i + 1 - 1] /\ i + 1 - 1 = i
  BY <1>2, <1>3
<1>9. ASSUME i < Len(p) PROVE Tail(t) # << >> /\ Head(Tail(t)) = p[i + 1]
  <2>1. Len(t) > 1
    BY <1>2, <1>9
  <2>2. Tail(t) # << >> /\ Head(Tail(t)) = Tail(t)[1]
    <3>1. ASSUME NEW u \in Seq(S), Len(u) > 0
          PROVE  u # << >> /\ Head(u) = u[1]
      BY <3>1
    <3>2. Len(Tail(t)) > 0
      BY <1>4, <2>1
    <3> QED  BY <1>4, <3>1, <3>2
  <2>3. Tail(t)[1] = t[2]
    BY <1>2, <1>4, <2>1
  <2>4. t[2] = p[i + 2 - 1] /\ i + 2 - 1 = i + 1
    BY <1>2, <2>1
  <2> QED  BY <2>2, <2>3, <2>4
<1>10. ASSUME i = Len(p) PROVE Tail(t) = << >>
  BY <1>0, <1>2, <1>6, <1>10
<1>11. Tail(t) \in Suffixes(p)
  <2>1. CASE i < Len(p)
    BY <1>5, <1>6, <2>1 DEF Suffixes
  <2>2. CASE i = Len(p)
    BY <1>10, <2>2 DEF Suffixes
  <2> QED  BY <1>2, <2>1, <2>2
<1> QED  BY <1>4, <1>8, <1>9, <1>10, <1>11 DEF Begins

\* A list is left of itself.
LEMMA Whole ==
  ASSUME NEW p, IsList(p)
  PROVE  p \in Suffixes(p)
<1>1. PICK S : p \in Seq(S)
  BY DEF IsList
<1>2. Len(p) \in Nat /\ p = SubSeq(p, 1, Len(p)) /\ (Len(p) = 0 => p = << >>)
  BY <1>1
<1> QED  BY <1>2 DEF Suffixes

\* Six and twelve things in a row are a list.
LEMMA Lists ==
  /\ \A a, b, c, d, e, f : IsList(<<a, b, c, d, e, f>>)
  /\ \A a, b, c, d, e, f, g, h, i, j, k, l : IsList(<<a, b, c, d, e, f, g, h, i, j, k, l>>)
<1>1. ASSUME NEW a, NEW b, NEW c, NEW d, NEW e, NEW f
      PROVE  IsList(<<a, b, c, d, e, f>>)
  <2>1. <<a, b, c, d, e, f>> \in Seq({a, b, c, d, e, f})
    OBVIOUS
  <2> QED  BY <2>1 DEF IsList
<1>2. ASSUME NEW a, NEW b, NEW c, NEW d, NEW e, NEW f, NEW g, NEW h, NEW i, NEW j, NEW k, NEW l
      PROVE  IsList(<<a, b, c, d, e, f, g, h, i, j, k, l>>)
  <2>1. <<a, b, c, d, e, f, g, h, i, j, k, l>> \in Seq({a, b, c, d, e, f, g, h, i, j, k, l})
    OBVIOUS
  <2> QED  BY <2>1 DEF IsList
<1> QED  BY <1>1, <1>2

\* The commands of Prepare, in their order.
LEMMA PrepareOrder ==
  ASSUME NEW t \in Suffixes(PrepareSteps), t # << >>
  PROVE  /\ Tail(t) \in Suffixes(PrepareSteps)
         /\ \/ Leads(t, "netns", "unlink")
            \/ Leads(t, "unlink", "pair")
            \/ Leads(t, "pair", "join")
            \/ Leads(t, "join", "addresses")
            \/ Leads(t, "addresses", "gateway")
            \/ Leads(t, "gateway", "route")
            \/ Leads(t, "route", "inside")
            \/ Leads(t, "inside", "nat")
            \/ Leads(t, "nat", "lookup")
            \/ Leads(t, "lookup", "masquerade")
            \/ Leads(t, "masquerade", "ready")
            \/ Leads(t, "ready", "idle")
<1>1. IsList(PrepareSteps) /\ Len(PrepareSteps) = 12
  BY Lists DEF PrepareSteps
<1>2. /\ PrepareSteps[1] = "netns" /\ PrepareSteps[2] = "unlink" /\ PrepareSteps[3] = "pair"
      /\ PrepareSteps[4] = "join" /\ PrepareSteps[5] = "addresses" /\ PrepareSteps[6] = "gateway"
      /\ PrepareSteps[7] = "route" /\ PrepareSteps[8] = "inside" /\ PrepareSteps[9] = "nat"
      /\ PrepareSteps[10] = "lookup" /\ PrepareSteps[11] = "masquerade" /\ PrepareSteps[12] = "ready"
  BY DEF PrepareSteps
<1>3. Tail(t) \in Suffixes(PrepareSteps) /\ \E i \in 1..Len(PrepareSteps) : Begins(t, PrepareSteps, i)
  BY <1>1, Onward
<1>4. PICK i \in 1..12 : Begins(t, PrepareSteps, i)
  BY <1>1, <1>3
<1>5. /\ Head(t) = PrepareSteps[i]
      /\ i < 12 => Tail(t) # << >> /\ Head(Tail(t)) = PrepareSteps[i + 1]
      /\ i = 12 => Tail(t) = << >>
  BY <1>1, <1>4 DEF Begins
<1>6. /\ i = 1 => Leads(t, "netns", "unlink")
      /\ i = 2 => Leads(t, "unlink", "pair")
      /\ i = 3 => Leads(t, "pair", "join")
      /\ i = 4 => Leads(t, "join", "addresses")
      /\ i = 5 => Leads(t, "addresses", "gateway")
      /\ i = 6 => Leads(t, "gateway", "route")
  BY SMTT(30), <1>2, <1>5 DEF Kind, Leads
<1>7. /\ i = 7 => Leads(t, "route", "inside")
      /\ i = 8 => Leads(t, "inside", "nat")
      /\ i = 9 => Leads(t, "nat", "lookup")
      /\ i = 10 => Leads(t, "lookup", "masquerade")
      /\ i = 11 => Leads(t, "masquerade", "ready")
      /\ i = 12 => Leads(t, "ready", "idle")
  BY SMTT(30), <1>2, <1>5 DEF Kind, Leads
<1> QED  BY <1>3, <1>6, <1>7

\* The commands of Cleanup, in their order.
LEMMA CleanupOrder ==
  ASSUME NEW t \in Suffixes(CleanupSteps), t # << >>
  PROVE  /\ Tail(t) \in Suffixes(CleanupSteps)
         /\ \/ Leads(t, "unmasquerade", "unnat")
            \/ Leads(t, "unnat", "unroute")
            \/ Leads(t, "unroute", "rmlink")
            \/ Leads(t, "rmlink", "rmns")
            \/ Leads(t, "rmns", "release")
            \/ Leads(t, "release", "idle")
<1>1. IsList(CleanupSteps) /\ Len(CleanupSteps) = 6
  BY Lists DEF CleanupSteps
<1>2. /\ CleanupSteps[1] = "unmasquerade" /\ CleanupSteps[2] = "unnat" /\ CleanupSteps[3] = "unroute"
      /\ CleanupSteps[4] = "rmlink" /\ CleanupSteps[5] = "rmns" /\ CleanupSteps[6] = "release"
  BY DEF CleanupSteps
<1>3. Tail(t) \in Suffixes(CleanupSteps) /\ \E i \in 1..Len(CleanupSteps) : Begins(t, CleanupSteps, i)
  BY <1>1, Onward
<1>4. PICK i \in 1..6 : Begins(t, CleanupSteps, i)
  BY <1>1, <1>3
<1>5. /\ Head(t) = CleanupSteps[i]
      /\ i < 6 => Tail(t) # << >> /\ Head(Tail(t)) = CleanupSteps[i + 1]
      /\ i = 6 => Tail(t) = << >>
  BY <1>1, <1>4 DEF Begins
<1>6. /\ i = 1 => Leads(t, "unmasquerade", "unnat")
      /\ i = 2 => Leads(t, "unnat", "unroute")
      /\ i = 3 => Leads(t, "unroute", "rmlink")
      /\ i = 4 => Leads(t, "rmlink", "rmns")
      /\ i = 5 => Leads(t, "rmns", "release")
      /\ i = 6 => Leads(t, "release", "idle")
  BY <1>2, <1>5 DEF Kind, Leads
<1> QED  BY <1>3, <1>6

\* Every command leads to the next one of its list.
LEMMA Order ==
  ASSUME NEW t \in Commands, t # << >>
  PROVE  /\ Tail(t) \in Commands
         /\ \/ Leads(t, "netns", "unlink") \/ Leads(t, "unlink", "pair") \/ Leads(t, "pair", "join")
            \/ Leads(t, "join", "addresses") \/ Leads(t, "addresses", "gateway")
            \/ Leads(t, "gateway", "route") \/ Leads(t, "route", "inside") \/ Leads(t, "inside", "nat")
            \/ Leads(t, "nat", "lookup") \/ Leads(t, "lookup", "masquerade")
            \/ Leads(t, "masquerade", "ready") \/ Leads(t, "ready", "idle")
            \/ Leads(t, "unmasquerade", "unnat") \/ Leads(t, "unnat", "unroute")
            \/ Leads(t, "unroute", "rmlink") \/ Leads(t, "rmlink", "rmns")
            \/ Leads(t, "rmns", "release") \/ Leads(t, "release", "idle")
<1>1. CASE t \in Suffixes(PrepareSteps)
  BY <1>1, PrepareOrder DEF Commands
<1>2. CASE t \in Suffixes(CleanupSteps)
  BY <1>2, CleanupOrder DEF Commands
<1> QED  BY <1>1, <1>2 DEF Commands

\* A handler begins a list at its first command and ends with nothing left.
LEMMA Beginnings ==
  /\ PrepareSteps \in Commands /\ Kind(PrepareSteps) = "netns"
  /\ CleanupSteps \in Commands /\ Kind(CleanupSteps) = "unmasquerade"
  /\ << >> \in Commands /\ Kind(<< >>) = "idle"
<1>1. IsList(PrepareSteps) /\ IsList(CleanupSteps)
  BY Lists DEF PrepareSteps, CleanupSteps
<1>2. PrepareSteps \in Commands /\ CleanupSteps \in Commands
  BY <1>1, Whole DEF Commands
<1>3. Kind(PrepareSteps) = "netns" /\ Kind(CleanupSteps) = "unmasquerade" /\ Kind(<< >>) = "idle"
  BY DEF Kind, PrepareSteps, CleanupSteps
<1> QED  BY <1>2, <1>3 DEF Commands, Suffixes

-----------------------------------------------------------------------------
(* What holds of a sandbox, wherever its handler is.                        *)

\* The commands of Prepare that follow: the SNAT rules, the route, the gateway, the
\* addresses and the pair.
Natted    == {"lookup", "masquerade", "ready"}
Routed    == {"inside", "nat"} \cup Natted
Gatewayed == {"route"} \cup Routed
Addressed == {"gateway"} \cup Gatewayed
Joined    == {"addresses"} \cup Addressed

\* A sandbox whose Prepare has got to one of the commands S, or has succeeded.
Past(s, S) == s \in up \/ Doing(s) \in S

RouteOf(s) == [dst |-> HostIP(s), via |-> Pair(s).peerIP, dev |-> s]

\* The types of what a sandbox has; nothing is said of its SNAT rules here.
NetTyped(n) ==
  /\ DOMAIN n = DOMAIN NoNet
  /\ n.pair \in {"none", "apart", "joined"}
  /\ {n.host, n.peer, n.gateway} \subseteq IPs \cup {NoIP}
  /\ n.dnat \subseteq IPs /\ n.addr \subseteq IPs

\* A sandbox that a handler works on, and one that is up, has a slot.
BusyInv(s) ==
  /\ todo[s] \in Commands /\ undone[s] \subseteq RemovalSteps /\ NetTyped(net[s])
  /\ row[s] \in held \cup {0}
  /\ s \in up => Doing(s) = "idle"
  /\ s \in up \/ Doing(s) # "idle" => row[s] # 0

\* What each command of Prepare has done stays done until the Cleanup.
PreparedInv(s) ==
  /\ Past(s, Joined) => net[s].pair = "joined"
  /\ Past(s, Addressed) => net[s].host = Pair(s).hostIP /\ net[s].peer = Pair(s).peerIP
  /\ Past(s, Gatewayed) => net[s].gateway = Pair(s).hostIP
  /\ Past(s, Routed) => RouteOf(s) \in routes
  /\ Past(s, Natted) => HostIP(s) \in net[s].dnat /\ (s \notin StrayAddress => net[s].snat = <<HostIP(s)>>)

\* The SNAT rules of a sandbox are for its slot, and Cleanup has removed them when it
\* gives the slot back, or the commands that remove them have failed.
AddressInv(s) ==
  /\ s \notin StrayAddress => net[s].snat = << >> \/ (row[s] # 0 /\ net[s].snat = <<HostIP(s)>>)
  /\ Doing(s) \in {"unroute", "rmlink", "rmns"} /\ s \notin cancelled /\ net[s].snat # << >> =>
       "unnat" \in undone[s]
  /\ Doing(s) = "release" /\ s \notin cancelled /\ net[s].snat # << >> => s \in StrayAddress

RoutesTo(s) == {r \in routes : r.dev = s}

\* The same of the routes to a sandbox, which lead into its pair.
RouteInv(s) ==
  /\ RoutesTo(s) # {} => net[s].pair = "joined"
  /\ s \notin StrayRoute => \A r \in RoutesTo(s) : row[s] # 0 /\ r.dst = HostIP(s)
  /\ Doing(s) = "rmlink" /\ s \notin cancelled /\ RoutesTo(s) # {} => "unroute" \in undone[s]
  /\ Doing(s) = "rmns" /\ s \notin cancelled /\ RoutesTo(s) # {} => {"unroute", "rmlink"} \subseteq undone[s]
  /\ Doing(s) = "release" /\ s \notin cancelled /\ RoutesTo(s) # {} => s \in StrayRoute

SandboxInv(s) == BusyInv(s) /\ PreparedInv(s) /\ AddressInv(s) /\ RouteInv(s)

\* The calls that have found no masquerade rules and are about to append them.
Appending == {s \in Sandboxes : Doing(s) = "masquerade" /\ s \notin cancelled}

Routes == [dst : IPs, via : IPs, dev : Sandboxes]

\* A slot has one holder and an address one route, and each copy of the host's rules
\* is one sandbox's.
HostInv ==
  /\ TypeOK
  /\ \A s, t \in Sandboxes : s # t /\ row[s] = row[t] => row[s] = 0
  /\ routes \subseteq Routes
  /\ \A r1, r2 \in routes : r1.dst = r2.dst => r1 = r2
  /\ masquerade \in Nat /\ masquerade + Cardinality(Appending) <= Cardinality(Sandboxes)

\* A request has the address of the sandbox it names while that one keeps its slot.
RequestInv ==
  \A r \in Requests : request[r].of # Nobody /\ ~request[r].stale =>
    request[r].of \in Sandboxes /\ row[request[r].of] # 0 /\ request[r].ip = HostIP(request[r].of)

\* The functions of the state are functions on the sandboxes or requests.
DomainInv ==
  /\ DOMAIN row = Sandboxes /\ DOMAIN todo = Sandboxes /\ DOMAIN net = Sandboxes
  /\ DOMAIN undone = Sandboxes /\ up \subseteq Sandboxes /\ cancelled \subseteq Sandboxes
  /\ DOMAIN request = Requests
  /\ \A r \in Requests : DOMAIN request[r] = {"of", "ip", "at", "stale"}

NetworkInv == DomainInv /\ HostInv /\ RequestInv /\ \A s \in Sandboxes : SandboxInv(s)

-----------------------------------------------------------------------------
(* Addresses of sandboxes.                                                  *)

\* What the manager makes of a slot that somebody holds.
LEMMA SlotFacts ==
  ASSUME TypeOK, NEW n \in held
  PROVE  /\ n # 0 /\ IndexedIP(host, n) \in IPs /\ ProxyIP(n) = IndexedIP(host, n)
         /\ SlotFromIP(host, IndexedIP(host, n)) = n
         /\ VethAddrs(veth, n).hostIP \in IPs /\ VethAddrs(veth, n).peerIP \in IPs
         /\ VethAddrs(veth, n).hostIP \div 2 = VethAddrs(veth, n).peerIP \div 2
         /\ \A m \in held : IndexedIP(host, m) = IndexedIP(host, n) => m = n
<1>1. IsCIDR(host) /\ IsCIDR(veth) /\ held \subseteq 1..MaxSlots(host, veth)
  BY DEF TypeOK
<1>2. /\ n \in Nat /\ 0 < n /\ n < host.size /\ TotalIPs(host) = host.size
      /\ n * 2 + 1 < veth.size
  BY <1>1, MaxSlotsBounds
<1>3. /\ host.base \in Nat /\ host.size \in Nat /\ host.base + host.size <= WordSize
      /\ veth.base \in Nat /\ veth.size \in Nat /\ veth.base + veth.size <= WordSize
  BY <1>1 DEF IsCIDR
<1>4. veth.base % 2 = 0
  BY <1>1, <1>2, <1>3 DEF IsCIDR
<1>5. /\ IndexedIP(host, n) = host.base + n
      /\ VethAddrs(veth, n).hostIP = veth.base + n * 2
      /\ VethAddrs(veth, n).peerIP = veth.base + n * 2 + 1
  BY <1>1, SlotAddresses
<1>6. WordSize \in Nat
  BY WordSizeAssumption
<1>7. IndexedIP(host, n) \in IPs /\ VethAddrs(veth, n).hostIP \in IPs /\ VethAddrs(veth, n).peerIP \in IPs
  BY <1>2, <1>3, <1>5, <1>6 DEF IPs
<1>8. SlotFromIP(host, IndexedIP(host, n)) = n
  BY <1>2, <1>3, <1>5 DEF SlotFromIP
<1>9. ProxyIP(n) = IndexedIP(host, n)
  BY <1>2 DEF ProxyIP, IndexedIP
<1>10. \A m \in held : m \in Nat /\ IndexedIP(host, m) = host.base + m
  BY <1>1, MaxSlotsBounds, SlotAddresses
<1>11. \A m \in held : IndexedIP(host, m) = IndexedIP(host, n) => m = n
  BY <1>2, <1>3, <1>5, <1>10
<1>12. VethAddrs(veth, n).hostIP \div 2 = VethAddrs(veth, n).peerIP \div 2
  BY <1>2, <1>3, <1>4, <1>5
<1> QED  BY <1>2, <1>7, <1>8, <1>9, <1>11, <1>12

\* The addresses of a sandbox with a slot are its own.
LEMMA OwnAddresses ==
  ASSUME NetworkInv, NEW s \in Sandboxes, row[s] # 0
  PROVE  /\ row[s] \in held /\ HostIP(s) \in IPs /\ HostIP(s) # NoIP /\ HostIP(s) = ProxyIP(row[s])
         /\ Pair(s).hostIP \in IPs /\ Pair(s).peerIP \in IPs
         /\ Pair(s).hostIP \div 2 = Pair(s).peerIP \div 2
         /\ RouteOf(s) \in Routes
         /\ \A t \in Sandboxes : row[t] # 0 /\ HostIP(t) = HostIP(s) => t = s
<1>1. TypeOK /\ row[s] \in held /\ \A t \in Sandboxes : row[t] \in held \cup {0}
  BY DEF NetworkInv, HostInv, SandboxInv, BusyInv
<1>2. Pair(s) = VethAddrs(veth, row[s])
  BY <1>1, SlotFacts DEF Pair, HostIP
<1>3. /\ HostIP(s) \in IPs /\ HostIP(s) = ProxyIP(row[s])
      /\ Pair(s).hostIP \in IPs /\ Pair(s).peerIP \in IPs
      /\ Pair(s).hostIP \div 2 = Pair(s).peerIP \div 2
  BY <1>1, <1>2, SlotFacts DEF HostIP
<1>4. HostIP(s) # NoIP
  BY <1>3, WordSizeAssumption DEF IPs, NoIP
<1>5. ASSUME NEW t \in Sandboxes, row[t] # 0, HostIP(t) = HostIP(s) PROVE t = s
  <2>1. row[t] \in held
    BY <1>1, <1>5
  <2>2. row[t] = row[s]
    BY <1>1, <1>5, <2>1, SlotFacts DEF HostIP
  <2> QED  BY <1>5, <2>2 DEF NetworkInv, HostInv
<1>6. RouteOf(s) \in Routes
  BY <1>3 DEF RouteOf, Routes
<1> QED  BY <1>1, <1>3, <1>4, <1>5, <1>6

-----------------------------------------------------------------------------
(* A step of one sandbox and the others.                                    *)

\* Nothing of a sandbox but s changes, except that a route of the slot of s goes.
Elsewhere(s) ==
  /\ host' = host /\ veth' = veth
  /\ \A t \in Sandboxes \ {s} :
       /\ row'[t] = row[t] /\ todo'[t] = todo[t] /\ net'[t] = net[t] /\ undone'[t] = undone[t]
       /\ (t \in up' <=> t \in up) /\ (t \in cancelled' <=> t \in cancelled)
       /\ row[t] # 0 => row[t] \in held'
       /\ \A r \in routes' : r.dev = t => r \in routes
       /\ \A r \in routes : r.dev = t => r \in routes' \/ (row[s] # 0 /\ r.dst = HostIP(s))

\* So the others stay as they should be.
LEMMA OthersKept ==
  ASSUME NetworkInv, NEW s \in Sandboxes, Elsewhere(s), NEW t \in Sandboxes \ {s}
  PROVE  SandboxInv(t)'
<1>1. /\ row'[t] = row[t] /\ todo'[t] = todo[t] /\ net'[t] = net[t] /\ undone'[t] = undone[t]
      /\ (t \in up' <=> t \in up) /\ (t \in cancelled' <=> t \in cancelled)
      /\ row[t] # 0 => row[t] \in held'
  BY DEF Elsewhere
<1>2. HostIP(t)' = HostIP(t) /\ Pair(t)' = Pair(t) /\ RouteOf(t)' = RouteOf(t)
  BY <1>1 DEF Elsewhere, HostIP, Pair, RouteOf
<1>3. Doing(t)' = Doing(t) /\ (\A S : Past(t, S)' <=> Past(t, S))
  BY <1>1 DEF Doing, Past
<1>4. (t \in StrayAddress' <=> t \in StrayAddress) /\ (t \in StrayRoute' <=> t \in StrayRoute)
  BY <1>1 DEF StrayAddress, StrayRoute
<1>5. RoutesTo(t)' \subseteq RoutesTo(t)
  BY DEF Elsewhere, RoutesTo
<1>6. SandboxInv(t)
  BY DEF NetworkInv
<1>7. BusyInv(t)'
  BY <1>1, <1>3, <1>6 DEF SandboxInv, BusyInv
<1>8. ASSUME row[t] # 0, RouteOf(t) \in routes PROVE RouteOf(t) \in routes'
  <2>1. RouteOf(t).dev = t /\ RouteOf(t).dst = HostIP(t)
    BY DEF RouteOf
  <2>2. row[s] # 0 => HostIP(t) # HostIP(s)
    BY <1>8, OwnAddresses
  <2> QED  BY <1>8, <2>1, <2>2 DEF Elsewhere
<1>9. PreparedInv(t)'
  <2>1. Past(t, Routed) => row[t] # 0
    BY <1>6 DEF SandboxInv, BusyInv, Past, Routed, Natted
  <2> QED  BY <1>1, <1>2, <1>3, <1>4, <1>6, <1>8, <2>1 DEF SandboxInv, PreparedInv
<1>10. AddressInv(t)'
  BY <1>1, <1>2, <1>3, <1>4, <1>6 DEF SandboxInv, AddressInv
<1>11. RouteInv(t)'
  BY <1>1, <1>2, <1>3, <1>4, <1>5, <1>6 DEF SandboxInv, RouteInv
<1> QED  BY <1>7, <1>9, <1>10, <1>11 DEF SandboxInv

\* Fewer calls about to append and fewer rules.
LEMMA FewerRules ==
  ASSUME HostInv, Appending' \subseteq Appending, masquerade' \in Nat, masquerade' <= masquerade
  PROVE  masquerade' + Cardinality(Appending') <= Cardinality(Sandboxes)
<1>1. IsFiniteSet(Sandboxes) /\ Appending \subseteq Sandboxes
  BY HostNetworkAssumption DEF Appending
<1>2. IsFiniteSet(Appending)
  BY <1>1, FS_Subset
<1>3. /\ Cardinality(Appending') <= Cardinality(Appending)
      /\ Cardinality(Appending') \in Nat /\ Cardinality(Appending) \in Nat /\ Cardinality(Sandboxes) \in Nat
  BY <1>1, <1>2, FS_Subset, FS_CardinalityType
<1> QED  BY <1>3 DEF HostInv

\* A command: it belongs to one sandbox, whose handler it takes on, and leaves the slots,
\* contexts and requests as they are.
Commanded(s) ==
  /\ Kept(s)
  /\ \A t \in Sandboxes \ {s} : todo'[t] = todo[t] /\ net'[t] = net[t] /\ undone'[t] = undone[t]
  /\ DOMAIN todo' = Sandboxes /\ DOMAIN net' = Sandboxes /\ DOMAIN undone' = Sandboxes

\* What is left to show of a command is what it does to its sandbox, the routes and
\* the rules.
LEMMA CommandKeeps ==
  ASSUME NetworkInv, NEW s \in Sandboxes, Commanded(s), SandboxInv(s)', routes' \subseteq Routes,
         \A r1, r2 \in routes' : r1.dst = r2.dst => r1 = r2,
         \A r \in routes' : r.dev # s => r \in routes,
         \A r \in routes : r.dev # s => r \in routes' \/ (row[s] # 0 /\ r.dst = HostIP(s)),
         masquerade' \in Nat, masquerade' + Cardinality(Appending') <= Cardinality(Sandboxes)
  PROVE  NetworkInv'
<1>1. /\ host' = host /\ veth' = veth /\ held' = held /\ row' = row /\ up' = up
      /\ cancelled' = cancelled /\ request' = request
  BY DEF Commanded, Kept, cidrs
<1>2. \A t \in Sandboxes : row[t] # 0 => row[t] \in held
  BY DEF NetworkInv, SandboxInv, BusyInv
<1>3. Elsewhere(s)
  BY <1>1, <1>2 DEF Elsewhere, Commanded
<1>4. \A t \in Sandboxes : SandboxInv(t)'
  BY <1>3, OthersKept
<1>5. TypeOK'
  BY <1>1 DEF NetworkInv, HostInv, TypeOK, IsCIDR
<1>6. HostInv'
  BY <1>1, <1>5 DEF NetworkInv, HostInv
<1>7. \A t : HostIP(t)' = HostIP(t)
  BY <1>1 DEF HostIP
<1>8. RequestInv'
  BY <1>1, <1>7 DEF NetworkInv, RequestInv
<1>9. DomainInv'
  BY <1>1 DEF NetworkInv, DomainInv, Commanded
<1> QED  BY <1>4, <1>6, <1>8, <1>9 DEF NetworkInv

\* A command that is run, or whose failure is ignored, takes the handler to the next.
LEMMA Moves ==
  ASSUME NetworkInv, NEW s \in Sandboxes, NEW step, At(s, step), Done(s)
  PROVE  /\ Doing(s) = step /\ row[s] # 0 /\ s \notin up
         /\ todo'[s] \in Commands /\ DOMAIN todo' = Sandboxes
         /\ \A t \in Sandboxes \ {s} : todo'[t] = todo[t]
         /\ \/ step = "netns" /\ Doing(s)' = "unlink"
            \/ step = "unlink" /\ Doing(s)' = "pair"
            \/ step = "pair" /\ Doing(s)' = "join"
            \/ step = "join" /\ Doing(s)' = "addresses"
            \/ step = "addresses" /\ Doing(s)' = "gateway"
            \/ step = "gateway" /\ Doing(s)' = "route"
            \/ step = "route" /\ Doing(s)' = "inside"
            \/ step = "inside" /\ Doing(s)' = "nat"
            \/ step = "nat" /\ Doing(s)' = "lookup"
            \/ step = "lookup" /\ Doing(s)' = "masquerade"
            \/ step = "masquerade" /\ Doing(s)' = "ready"
            \/ step = "ready" /\ Doing(s)' = "idle"
            \/ step = "unmasquerade" /\ Doing(s)' = "unnat"
            \/ step = "unnat" /\ Doing(s)' = "unroute"
            \/ step = "unroute" /\ Doing(s)' = "rmlink"
            \/ step = "rmlink" /\ Doing(s)' = "rmns"
            \/ step = "rmns" /\ Doing(s)' = "release"
            \/ step = "release" /\ Doing(s)' = "idle"
<1>1. todo[s] \in Commands /\ todo[s] # << >> /\ Head(todo[s]) = step /\ DOMAIN todo = Sandboxes
  BY DEF NetworkInv, SandboxInv, BusyInv, DomainInv, At
<1>2. Doing(s) = step
  BY <1>1 DEF Doing, Kind
<1>3. /\ todo'[s] = Tail(todo[s]) /\ DOMAIN todo' = Sandboxes
      /\ \A t \in Sandboxes \ {s} : todo'[t] = todo[t]
  BY <1>1 DEF Done
<1>4. Doing(s)' = Kind(Tail(todo[s])) /\ Kind(todo[s]) = step
  BY <1>1, <1>3 DEF Doing, Kind
<1>5. todo'[s] \in Commands
  BY <1>1, <1>3, Order
<1>6. \A k, next : Leads(todo[s], k, next) => step = k /\ Doing(s)' = next
  BY <1>4 DEF Leads
<1>7. /\ \/ step = "netns" /\ Doing(s)' = "unlink"
         \/ step = "unlink" /\ Doing(s)' = "pair"
         \/ step = "pair" /\ Doing(s)' = "join"
         \/ step = "join" /\ Doing(s)' = "addresses"
         \/ step = "addresses" /\ Doing(s)' = "gateway"
         \/ step = "gateway" /\ Doing(s)' = "route"
         \/ step = "route" /\ Doing(s)' = "inside"
         \/ step = "inside" /\ Doing(s)' = "nat"
         \/ step = "nat" /\ Doing(s)' = "lookup"
         \/ step = "lookup" /\ Doing(s)' = "masquerade"
         \/ step = "masquerade" /\ Doing(s)' = "ready"
         \/ step = "ready" /\ Doing(s)' = "idle"
         \/ step = "unmasquerade" /\ Doing(s)' = "unnat"
         \/ step = "unnat" /\ Doing(s)' = "unroute"
         \/ step = "unroute" /\ Doing(s)' = "rmlink"
         \/ step = "rmlink" /\ Doing(s)' = "rmns"
         \/ step = "rmns" /\ Doing(s)' = "release"
         \/ step = "release" /\ Doing(s)' = "idle"
  BY <1>1, <1>6, Order
<1>8. row[s] # 0 /\ s \notin up
  BY <1>2, <1>7 DEF NetworkInv, SandboxInv, BusyInv
<1> QED  BY <1>2, <1>3, <1>5, <1>7, <1>8

\* The slots of a step that keeps them.
LEMMA SameSlots ==
  ASSUME NEW s, Kept(s)
  PROVE  /\ host' = host /\ veth' = veth /\ held' = held /\ row' = row /\ up' = up
         /\ cancelled' = cancelled /\ request' = request
         /\ HostIP(s)' = HostIP(s) /\ Pair(s)' = Pair(s) /\ RouteOf(s)' = RouteOf(s)
  BY DEF Kept, cidrs, HostIP, Pair, RouteOf

\* A command that must work and does not begins the Cleanup.
LEMMA GivingUp ==
  ASSUME NetworkInv, NEW s \in Sandboxes, NEW step, At(s, step),
         GivesUp(s), UNCHANGED links, UNCHANGED undone, Kept(s)
  PROVE  NetworkInv'
<1>1. todo[s] \in Commands /\ todo[s] # << >> /\ DomainInv /\ SandboxInv(s) /\ HostInv
  BY DEF NetworkInv, SandboxInv, BusyInv, At
<1>2. /\ todo'[s] = CleanupSteps /\ DOMAIN todo' = Sandboxes
      /\ \A t \in Sandboxes \ {s} : todo'[t] = todo[t]
  BY <1>1 DEF GivesUp, DomainInv
<1>3. todo'[s] \in Commands /\ Doing(s)' = "unmasquerade"
  BY <1>2, Beginnings DEF Doing
<1>4. Doing(s) # "idle"
  BY <1>1, Order DEF Leads, Doing
<1>5. row[s] # 0 /\ s \notin up
  BY <1>1, <1>4 DEF SandboxInv, BusyInv
<1>6. net' = net /\ routes' = routes /\ masquerade' = masquerade /\ undone' = undone
  BY DEF links
<1>7. /\ held' = held /\ row' = row /\ up' = up /\ cancelled' = cancelled
      /\ HostIP(s)' = HostIP(s) /\ RoutesTo(s)' = RoutesTo(s)
      /\ StrayAddress' = StrayAddress /\ StrayRoute' = StrayRoute
  BY <1>6, SameSlots DEF RoutesTo, StrayAddress, StrayRoute
<1>8. BusyInv(s)'
  BY <1>1, <1>3, <1>5, <1>6, <1>7 DEF SandboxInv, BusyInv
<1>9. PreparedInv(s)'
  BY <1>3, <1>5, <1>7 DEF PreparedInv, Past, Joined, Addressed, Gatewayed, Routed, Natted
<1>10. AddressInv(s)'
  BY <1>1, <1>3, <1>6, <1>7 DEF SandboxInv, AddressInv
<1>11. RouteInv(s)'
  BY <1>1, <1>3, <1>6, <1>7 DEF SandboxInv, RouteInv
<1>12. SandboxInv(s)'
  BY <1>8, <1>9, <1>10, <1>11 DEF SandboxInv
<1>13. Commanded(s)
  BY <1>1, <1>2, <1>6 DEF Commanded, DomainInv
<1>14. Appending' \subseteq Appending
  BY <1>2, <1>3, <1>7 DEF Appending, Doing
<1>15. masquerade' \in Nat /\ masquerade' + Cardinality(Appending') <= Cardinality(Sandboxes)
  BY <1>1, <1>6, <1>14, FewerRules DEF HostInv
<1> QED  BY <1>1, <1>6, <1>12, <1>13, <1>15, CommandKeeps DEF HostInv

\* A command whose failure is ignored fails, or is not run because the context is over.
LEMMA Ignoring ==
  ASSUME NetworkInv, NEW s \in Sandboxes, NEW step, At(s, step), Done(s), UNCHANGED links, Kept(s),
         step \in {"unlink", "unmasquerade", "unnat", "unroute", "rmlink", "rmns"},
         \/ s \in cancelled /\ undone' = undone
         \/ undone' = [undone EXCEPT ![s] = @ \cup ({step} \cap RemovalSteps)]
  PROVE  NetworkInv'
<1>1. DomainInv /\ SandboxInv(s) /\ HostInv /\ s \in DOMAIN undone
  BY DEF NetworkInv, DomainInv
<1>2. /\ Doing(s) = step /\ row[s] # 0 /\ s \notin up
      /\ todo'[s] \in Commands /\ DOMAIN todo' = Sandboxes
      /\ \A t \in Sandboxes \ {s} : todo'[t] = todo[t]
      /\ \/ step = "unlink" /\ Doing(s)' = "pair"
         \/ step = "unmasquerade" /\ Doing(s)' = "unnat"
         \/ step = "unnat" /\ Doing(s)' = "unroute"
         \/ step = "unroute" /\ Doing(s)' = "rmlink"
         \/ step = "rmlink" /\ Doing(s)' = "rmns"
         \/ step = "rmns" /\ Doing(s)' = "release"
  BY Moves
<1>3. net' = net /\ routes' = routes /\ masquerade' = masquerade
  BY DEF links
<1>4. /\ held' = held /\ row' = row /\ up' = up /\ cancelled' = cancelled
      /\ HostIP(s)' = HostIP(s) /\ RoutesTo(s)' = RoutesTo(s)
  BY <1>3, SameSlots DEF RoutesTo
<1>5. /\ DOMAIN undone' = Sandboxes /\ \A t \in Sandboxes \ {s} : undone'[t] = undone[t]
      /\ undone[s] \subseteq undone'[s] /\ undone'[s] \subseteq RemovalSteps
      /\ s \in cancelled \/ {step} \cap RemovalSteps \subseteq undone'[s]
  BY <1>1 DEF DomainInv, SandboxInv, BusyInv
<1>6. /\ s \in StrayAddress => s \in StrayAddress'
      /\ s \in StrayRoute => s \in StrayRoute'
  BY <1>5 DEF StrayAddress, StrayRoute
<1>7. BusyInv(s)'
  BY <1>1, <1>2, <1>3, <1>4, <1>5 DEF SandboxInv, BusyInv
<1>8. PreparedInv(s)'
  BY <1>2, <1>4 DEF PreparedInv, Past, Joined, Addressed, Gatewayed, Routed, Natted
<1>9. AddressInv(s)'
  <2>1. s \notin cancelled /\ step = "unnat" => "unnat" \in undone'[s]
    BY <1>5 DEF RemovalSteps
  <2>2. s \notin cancelled /\ step = "rmns" => "rmns" \in undone'[s]
    BY <1>5 DEF RemovalSteps
  <2>3. s \notin cancelled /\ net[s].snat # << >> /\ Doing(s)' \in {"unroute", "rmlink", "rmns"} =>
          "unnat" \in undone'[s]
    BY <1>1, <1>2, <1>5, <2>1 DEF SandboxInv, AddressInv
  <2>4. s \notin cancelled /\ net[s].snat # << >> /\ Doing(s)' = "release" => s \in StrayAddress'
    BY <1>1, <1>2, <1>5, <2>2 DEF SandboxInv, AddressInv, StrayAddress
  <2> QED  BY <1>1, <1>3, <1>4, <1>6, <2>3, <2>4 DEF SandboxInv, AddressInv
<1>10. RouteInv(s)'
  <2>1. s \notin cancelled /\ step \in {"unroute", "rmlink", "rmns"} => step \in undone'[s]
    BY <1>5 DEF RemovalSteps
  <2>2. s \notin cancelled /\ RoutesTo(s) # {} /\ Doing(s)' = "rmlink" => "unroute" \in undone'[s]
    BY <1>2, <2>1
  <2>3. s \notin cancelled /\ RoutesTo(s) # {} /\ Doing(s)' = "rmns" =>
          {"unroute", "rmlink"} \subseteq undone'[s]
    BY <1>1, <1>2, <1>5, <2>1 DEF SandboxInv, RouteInv
  <2>4. s \notin cancelled /\ RoutesTo(s) # {} /\ Doing(s)' = "release" => s \in StrayRoute'
    BY <1>1, <1>2, <1>5, <2>1 DEF SandboxInv, RouteInv, StrayRoute
  <2> QED  BY <1>1, <1>3, <1>4, <1>6, <2>2, <2>3, <2>4 DEF SandboxInv, RouteInv
<1>11. SandboxInv(s)'
  BY <1>7, <1>8, <1>9, <1>10 DEF SandboxInv
<1>12. Commanded(s)
  BY <1>1, <1>2, <1>3, <1>5 DEF Commanded, DomainInv
<1>13. Appending' \subseteq Appending
  BY <1>2, <1>4 DEF Appending, Doing
<1>14. masquerade' \in Nat /\ masquerade' + Cardinality(Appending') <= Cardinality(Sandboxes)
  BY <1>1, <1>3, <1>13, FewerRules DEF HostInv
<1> QED  BY <1>1, <1>3, <1>11, <1>12, <1>14, CommandKeeps DEF HostInv

-----------------------------------------------------------------------------
(* Commands that work.                                                      *)

\* The fields of a sandbox's network.
LEMMA NetFields == DOMAIN NoNet = {"ns", "pair", "host", "peer", "gateway", "dnat", "addr", "snat"}
  BY DEF NoNet

\* A command that changes the network of its sandbox only.
LEMMA NetCommand ==
  ASSUME NetworkInv, NEW s \in Sandboxes, NEW step, At(s, step), step # "lookup", Done(s), Kept(s),
         NEW n, NetIs(s, n), SandboxInv(s)',
         DOMAIN undone' = Sandboxes, \A t \in Sandboxes \ {s} : undone'[t] = undone[t]
  PROVE  NetworkInv'
<1>1. DomainInv /\ HostInv
  BY DEF NetworkInv
<1>2. /\ DOMAIN todo' = Sandboxes /\ Doing(s)' # "masquerade"
      /\ \A t \in Sandboxes \ {s} : todo'[t] = todo[t]
  BY Moves
<1>3. /\ DOMAIN net' = Sandboxes /\ \A t \in Sandboxes \ {s} : net'[t] = net[t]
      /\ routes' = routes /\ masquerade' = masquerade
  BY <1>1 DEF NetIs, DomainInv
<1>4. Commanded(s)
  BY <1>2, <1>3 DEF Commanded
<1>5. Appending' \subseteq Appending
  BY <1>2, SameSlots DEF Appending, Doing
<1>6. masquerade' \in Nat /\ masquerade' + Cardinality(Appending') <= Cardinality(Sandboxes)
  BY <1>1, <1>3, <1>5, FewerRules DEF HostInv
<1> QED  BY <1>1, <1>3, <1>4, <1>6, CommandKeeps DEF HostInv

\* ip netns add.
LEMMA AddNamespaceKeeps ==
  ASSUME NetworkInv, NEW s \in Sandboxes, AddNamespace(s)
  PROVE  NetworkInv'
<1> DEFINE n == [net[s] EXCEPT !.ns = TRUE]
<1>1. CASE NetIs(s, n) /\ Done(s)
  <2>1. At(s, "netns") /\ Kept(s) /\ undone' = undone
    BY DEF AddNamespace, Command
  <2>2. SandboxInv(s) /\ DomainInv
    BY DEF NetworkInv
  <2>3. NetTyped(net[s])
    BY <2>2 DEF SandboxInv, BusyInv
  <2>4. /\ n.pair = net[s].pair /\ n.host = net[s].host /\ n.peer = net[s].peer
        /\ n.gateway = net[s].gateway /\ n.dnat = net[s].dnat /\ n.addr = net[s].addr
        /\ n.snat = net[s].snat
        /\ n.ns = TRUE /\ DOMAIN n = DOMAIN NoNet
    BY <2>3, NetFields DEF NetTyped
  <2>5. net'[s] = n /\ routes' = routes
    BY <1>1, <2>2 DEF NetIs, DomainInv
  <2> HIDE DEF n
  <2>6. /\ Doing(s) = "netns" /\ row[s] # 0 /\ s \notin up /\ todo'[s] \in Commands /\ Doing(s)' = "unlink"
    BY <1>1, <2>1, Moves
  <2>7. /\ held' = held /\ row' = row /\ up' = up /\ cancelled' = cancelled
        /\ HostIP(s)' = HostIP(s) /\ Pair(s)' = Pair(s) /\ RouteOf(s)' = RouteOf(s)
    BY <2>1, SameSlots
  <2>8. /\ RoutesTo(s)' = RoutesTo(s) /\ StrayAddress' = StrayAddress /\ StrayRoute' = StrayRoute
    BY <2>1, <2>5 DEF RoutesTo, StrayAddress, StrayRoute
  <2>9. HostIP(s) \in IPs /\ Pair(s).hostIP \in IPs /\ Pair(s).peerIP \in IPs
    BY <2>6, OwnAddresses
  <2>10. NetTyped(n)
    BY <2>3, <2>4, <2>9 DEF NetTyped
  <2>11. BusyInv(s)'
    BY <2>1, <2>2, <2>5, <2>6, <2>7, <2>10 DEF SandboxInv, BusyInv
  <2>12. PreparedInv(s)'
    BY <2>2, <2>4, <2>5, <2>6, <2>7, <2>8 DEF SandboxInv, PreparedInv, Past, Joined, Addressed, Gatewayed,
       Routed, Natted
  <2>13. AddressInv(s)'
    BY <2>1, <2>2, <2>4, <2>5, <2>6, <2>7, <2>8 DEF SandboxInv, AddressInv
  <2>14. RouteInv(s)'
    BY <2>1, <2>2, <2>4, <2>5, <2>6, <2>7, <2>8 DEF SandboxInv, RouteInv
  <2>15. SandboxInv(s)' /\ DOMAIN undone' = Sandboxes /\ \A t \in Sandboxes \ {s} : undone'[t] = undone[t]
    BY <2>1, <2>2, <2>11, <2>12, <2>13, <2>14 DEF SandboxInv, DomainInv
  <2> QED  BY <1>1, <2>1, <2>5, <2>15, NetCommand
<1>2. CASE GivesUp(s) /\ UNCHANGED links
  BY <1>2, GivingUp DEF AddNamespace, Command
<1> QED  BY <1>1, <1>2 DEF AddNamespace, Command

\* ip link add: the names are free.
LEMMA AddPairKeeps ==
  ASSUME NetworkInv, NEW s \in Sandboxes, AddPair(s)
  PROVE  NetworkInv'
<1> DEFINE n == [net[s] EXCEPT !.pair = "apart"]
<1>1. CASE NetIs(s, n) /\ Done(s) /\ net[s].pair = "none"
  <2>1. At(s, "pair") /\ Kept(s) /\ undone' = undone
    BY DEF AddPair, Command
  <2>2. SandboxInv(s) /\ DomainInv
    BY DEF NetworkInv
  <2>3. NetTyped(net[s])
    BY <2>2 DEF SandboxInv, BusyInv
  <2>4. /\ n.ns = net[s].ns /\ n.host = net[s].host /\ n.peer = net[s].peer
        /\ n.gateway = net[s].gateway /\ n.dnat = net[s].dnat /\ n.addr = net[s].addr
        /\ n.snat = net[s].snat
        /\ n.pair = "apart" /\ DOMAIN n = DOMAIN NoNet
    BY <2>3, NetFields DEF NetTyped
  <2>5. net'[s] = n /\ routes' = routes
    BY <1>1, <2>2 DEF NetIs, DomainInv
  <2> HIDE DEF n
  <2>6. /\ Doing(s) = "pair" /\ row[s] # 0 /\ s \notin up /\ todo'[s] \in Commands /\ Doing(s)' = "join"
    BY <1>1, <2>1, Moves
  <2>7. /\ held' = held /\ row' = row /\ up' = up /\ cancelled' = cancelled
        /\ HostIP(s)' = HostIP(s) /\ Pair(s)' = Pair(s) /\ RouteOf(s)' = RouteOf(s)
    BY <2>1, SameSlots
  <2>8. /\ RoutesTo(s)' = RoutesTo(s) /\ StrayAddress' = StrayAddress /\ StrayRoute' = StrayRoute
    BY <2>1, <2>5 DEF RoutesTo, StrayAddress, StrayRoute
  <2>9. HostIP(s) \in IPs /\ Pair(s).hostIP \in IPs /\ Pair(s).peerIP \in IPs
    BY <2>6, OwnAddresses
  <2>10. NetTyped(n)
    BY <2>3, <2>4, <2>9 DEF NetTyped
  <2>11. BusyInv(s)'
    BY <2>1, <2>2, <2>5, <2>6, <2>7, <2>10 DEF SandboxInv, BusyInv
  <2>12. PreparedInv(s)'
    BY <2>2, <2>4, <2>5, <2>6, <2>7, <2>8, <1>1 DEF SandboxInv, PreparedInv, Past, Joined, Addressed,
       Gatewayed, Routed, Natted
  <2>13. AddressInv(s)'
    BY <2>1, <2>2, <2>4, <2>5, <2>6, <2>7, <2>8, <1>1 DEF SandboxInv, AddressInv
  <2>14. RouteInv(s)'
    BY <2>1, <2>2, <2>4, <2>5, <2>6, <2>7, <2>8, <1>1 DEF SandboxInv, RouteInv
  <2>15. SandboxInv(s)' /\ DOMAIN undone' = Sandboxes /\ \A t \in Sandboxes \ {s} : undone'[t] = undone[t]
    BY <2>1, <2>2, <2>11, <2>12, <2>13, <2>14 DEF SandboxInv, DomainInv
  <2> QED  BY <1>1, <2>1, <2>5, <2>15, NetCommand
<1>2. CASE GivesUp(s) /\ UNCHANGED links
  BY <1>2, GivingUp DEF AddPair, Command
<1> QED  BY <1>1, <1>2 DEF AddPair, Command

\* ip link set netns, and the new name.
LEMMA JoinPairKeeps ==
  ASSUME NetworkInv, NEW s \in Sandboxes, JoinPair(s)
  PROVE  NetworkInv'
<1> DEFINE n == [net[s] EXCEPT !.pair = "joined"]
<1>1. CASE NetIs(s, n) /\ Done(s)
  <2>1. At(s, "join") /\ Kept(s) /\ undone' = undone
    BY DEF JoinPair, Command
  <2>2. SandboxInv(s) /\ DomainInv
    BY DEF NetworkInv
  <2>3. NetTyped(net[s])
    BY <2>2 DEF SandboxInv, BusyInv
  <2>4. /\ n.ns = net[s].ns /\ n.host = net[s].host /\ n.peer = net[s].peer
        /\ n.gateway = net[s].gateway /\ n.dnat = net[s].dnat /\ n.addr = net[s].addr
        /\ n.snat = net[s].snat
        /\ n.pair = "joined" /\ DOMAIN n = DOMAIN NoNet
    BY <2>3, NetFields DEF NetTyped
  <2>5. net'[s] = n /\ routes' = routes
    BY <1>1, <2>2 DEF NetIs, DomainInv
  <2> HIDE DEF n
  <2>6. /\ Doing(s) = "join" /\ row[s] # 0 /\ s \notin up /\ todo'[s] \in Commands /\ Doing(s)' = "addresses"
    BY <1>1, <2>1, Moves
  <2>7. /\ held' = held /\ row' = row /\ up' = up /\ cancelled' = cancelled
        /\ HostIP(s)' = HostIP(s) /\ Pair(s)' = Pair(s) /\ RouteOf(s)' = RouteOf(s)
    BY <2>1, SameSlots
  <2>8. /\ RoutesTo(s)' = RoutesTo(s) /\ StrayAddress' = StrayAddress /\ StrayRoute' = StrayRoute
    BY <2>1, <2>5 DEF RoutesTo, StrayAddress, StrayRoute
  <2>9. HostIP(s) \in IPs /\ Pair(s).hostIP \in IPs /\ Pair(s).peerIP \in IPs
    BY <2>6, OwnAddresses
  <2>10. NetTyped(n)
    BY <2>3, <2>4, <2>9 DEF NetTyped
  <2>11. BusyInv(s)'
    BY <2>1, <2>2, <2>5, <2>6, <2>7, <2>10 DEF SandboxInv, BusyInv
  <2>12. PreparedInv(s)'
    BY <2>2, <2>4, <2>5, <2>6, <2>7, <2>8 DEF SandboxInv, PreparedInv, Past, Joined, Addressed, Gatewayed,
       Routed, Natted
  <2>13. AddressInv(s)'
    BY <2>1, <2>2, <2>4, <2>5, <2>6, <2>7, <2>8 DEF SandboxInv, AddressInv
  <2>14. RouteInv(s)'
    BY <2>1, <2>2, <2>4, <2>5, <2>6, <2>7, <2>8 DEF SandboxInv, RouteInv
  <2>15. SandboxInv(s)' /\ DOMAIN undone' = Sandboxes /\ \A t \in Sandboxes \ {s} : undone'[t] = undone[t]
    BY <2>1, <2>2, <2>11, <2>12, <2>13, <2>14 DEF SandboxInv, DomainInv
  <2> QED  BY <1>1, <2>1, <2>5, <2>15, NetCommand
<1>2. CASE GivesUp(s) /\ UNCHANGED links
  BY <1>2, GivingUp DEF JoinPair, Command
<1> QED  BY <1>1, <1>2 DEF JoinPair, Command

\* ip addr replace, at both ends.
LEMMA SetAddressesKeeps ==
  ASSUME NetworkInv, NEW s \in Sandboxes, SetAddresses(s)
  PROVE  NetworkInv'
<1> DEFINE n == [net[s] EXCEPT !.host = Pair(s).hostIP, !.peer = Pair(s).peerIP]
<1>1. CASE NetIs(s, n) /\ Done(s)
  <2>1. At(s, "addresses") /\ Kept(s) /\ undone' = undone
    BY DEF SetAddresses, Command
  <2>2. SandboxInv(s) /\ DomainInv
    BY DEF NetworkInv
  <2>3. NetTyped(net[s])
    BY <2>2 DEF SandboxInv, BusyInv
  <2>4. /\ n.ns = net[s].ns /\ n.pair = net[s].pair /\ n.gateway = net[s].gateway
        /\ n.dnat = net[s].dnat /\ n.addr = net[s].addr /\ n.snat = net[s].snat
        /\ n.host = Pair(s).hostIP /\ n.peer = Pair(s).peerIP /\ DOMAIN n = DOMAIN NoNet
    BY <2>3, NetFields DEF NetTyped
  <2>5. net'[s] = n /\ routes' = routes
    BY <1>1, <2>2 DEF NetIs, DomainInv
  <2> HIDE DEF n
  <2>6. /\ Doing(s) = "addresses" /\ row[s] # 0 /\ s \notin up /\ todo'[s] \in Commands /\ Doing(s)' = "gateway"
    BY <1>1, <2>1, Moves
  <2>7. /\ held' = held /\ row' = row /\ up' = up /\ cancelled' = cancelled
        /\ HostIP(s)' = HostIP(s) /\ Pair(s)' = Pair(s) /\ RouteOf(s)' = RouteOf(s)
    BY <2>1, SameSlots
  <2>8. /\ RoutesTo(s)' = RoutesTo(s) /\ StrayAddress' = StrayAddress /\ StrayRoute' = StrayRoute
    BY <2>1, <2>5 DEF RoutesTo, StrayAddress, StrayRoute
  <2>9. HostIP(s) \in IPs /\ Pair(s).hostIP \in IPs /\ Pair(s).peerIP \in IPs
    BY <2>6, OwnAddresses
  <2>10. NetTyped(n)
    BY <2>3, <2>4, <2>9 DEF NetTyped
  <2>11. BusyInv(s)'
    BY <2>1, <2>2, <2>5, <2>6, <2>7, <2>10 DEF SandboxInv, BusyInv
  <2>12. PreparedInv(s)'
    BY <2>2, <2>4, <2>5, <2>6, <2>7, <2>8 DEF SandboxInv, PreparedInv, Past, Joined, Addressed, Gatewayed,
       Routed, Natted
  <2>13. AddressInv(s)'
    BY <2>1, <2>2, <2>4, <2>5, <2>6, <2>7, <2>8 DEF SandboxInv, AddressInv
  <2>14. RouteInv(s)'
    BY <2>1, <2>2, <2>4, <2>5, <2>6, <2>7, <2>8 DEF SandboxInv, RouteInv
  <2>15. SandboxInv(s)' /\ DOMAIN undone' = Sandboxes /\ \A t \in Sandboxes \ {s} : undone'[t] = undone[t]
    BY <2>1, <2>2, <2>11, <2>12, <2>13, <2>14 DEF SandboxInv, DomainInv
  <2> QED  BY <1>1, <2>1, <2>5, <2>15, NetCommand
<1>2. CASE GivesUp(s) /\ UNCHANGED links
  BY <1>2, GivingUp DEF SetAddresses, Command
<1> QED  BY <1>1, <1>2 DEF SetAddresses, Command

\* ip route replace default.
LEMMA SetGatewayKeeps ==
  ASSUME NetworkInv, NEW s \in Sandboxes, SetGateway(s)
  PROVE  NetworkInv'
<1> DEFINE n == [net[s] EXCEPT !.gateway = Pair(s).hostIP]
<1>1. CASE NetIs(s, n) /\ Done(s)
  <2>1. At(s, "gateway") /\ Kept(s) /\ undone' = undone
    BY DEF SetGateway, Command
  <2>2. SandboxInv(s) /\ DomainInv
    BY DEF NetworkInv
  <2>3. NetTyped(net[s])
    BY <2>2 DEF SandboxInv, BusyInv
  <2>4. /\ n.ns = net[s].ns /\ n.pair = net[s].pair /\ n.host = net[s].host
        /\ n.peer = net[s].peer /\ n.dnat = net[s].dnat /\ n.addr = net[s].addr
        /\ n.snat = net[s].snat
        /\ n.gateway = Pair(s).hostIP /\ DOMAIN n = DOMAIN NoNet
    BY <2>3, NetFields DEF NetTyped
  <2>5. net'[s] = n /\ routes' = routes
    BY <1>1, <2>2 DEF NetIs, DomainInv
  <2> HIDE DEF n
  <2>6. /\ Doing(s) = "gateway" /\ row[s] # 0 /\ s \notin up /\ todo'[s] \in Commands /\ Doing(s)' = "route"
    BY <1>1, <2>1, Moves
  <2>7. /\ held' = held /\ row' = row /\ up' = up /\ cancelled' = cancelled
        /\ HostIP(s)' = HostIP(s) /\ Pair(s)' = Pair(s) /\ RouteOf(s)' = RouteOf(s)
    BY <2>1, SameSlots
  <2>8. /\ RoutesTo(s)' = RoutesTo(s) /\ StrayAddress' = StrayAddress /\ StrayRoute' = StrayRoute
    BY <2>1, <2>5 DEF RoutesTo, StrayAddress, StrayRoute
  <2>9. HostIP(s) \in IPs /\ Pair(s).hostIP \in IPs /\ Pair(s).peerIP \in IPs
    BY <2>6, OwnAddresses
  <2>10. NetTyped(n)
    BY <2>3, <2>4, <2>9 DEF NetTyped
  <2>11. BusyInv(s)'
    BY <2>1, <2>2, <2>5, <2>6, <2>7, <2>10 DEF SandboxInv, BusyInv
  <2>12. PreparedInv(s)'
    BY <2>2, <2>4, <2>5, <2>6, <2>7, <2>8 DEF SandboxInv, PreparedInv, Past, Joined, Addressed, Gatewayed,
       Routed, Natted
  <2>13. AddressInv(s)'
    BY <2>1, <2>2, <2>4, <2>5, <2>6, <2>7, <2>8 DEF SandboxInv, AddressInv
  <2>14. RouteInv(s)'
    BY <2>1, <2>2, <2>4, <2>5, <2>6, <2>7, <2>8 DEF SandboxInv, RouteInv
  <2>15. SandboxInv(s)' /\ DOMAIN undone' = Sandboxes /\ \A t \in Sandboxes \ {s} : undone'[t] = undone[t]
    BY <2>1, <2>2, <2>11, <2>12, <2>13, <2>14 DEF SandboxInv, DomainInv
  <2> QED  BY <1>1, <2>1, <2>5, <2>15, NetCommand
<1>2. CASE GivesUp(s) /\ UNCHANGED links
  BY <1>2, GivingUp DEF SetGateway, Command
<1> QED  BY <1>1, <1>2 DEF SetGateway, Command

\* The tap of a VM, or the address of a container.
LEMMA SetInsideKeeps ==
  ASSUME NetworkInv, NEW s \in Sandboxes, SetInside(s)
  PROVE  NetworkInv'
<1>0. PICK n : /\ n = IF s \in VMs THEN net[s] ELSE [net[s] EXCEPT !.addr = @ \cup {HostIP(s)}]
              /\ \/ NetIs(s, n) /\ Done(s)
                 \/ GivesUp(s) /\ UNCHANGED links
  BY DEF SetInside, Command
<1>1. CASE NetIs(s, n) /\ Done(s)
  <2>1. At(s, "inside") /\ Kept(s) /\ undone' = undone
    BY DEF SetInside, Command
  <2>2. SandboxInv(s) /\ DomainInv
    BY DEF NetworkInv
  <2>3. NetTyped(net[s])
    BY <2>2 DEF SandboxInv, BusyInv
  <2>4. /\ n.ns = net[s].ns /\ n.pair = net[s].pair /\ n.host = net[s].host /\ n.peer = net[s].peer
        /\ n.gateway = net[s].gateway /\ n.dnat = net[s].dnat /\ n.snat = net[s].snat
        /\ n.addr \subseteq net[s].addr \cup {HostIP(s)} /\ DOMAIN n = DOMAIN NoNet
    BY <1>0, <2>3, NetFields DEF NetTyped
  <2>5. net'[s] = n /\ routes' = routes
    BY <1>1, <2>2 DEF NetIs, DomainInv
  <2>6. /\ Doing(s) = "inside" /\ row[s] # 0 /\ s \notin up /\ todo'[s] \in Commands /\ Doing(s)' = "nat"
    BY <1>1, <2>1, Moves
  <2>7. /\ held' = held /\ row' = row /\ up' = up /\ cancelled' = cancelled
        /\ HostIP(s)' = HostIP(s) /\ Pair(s)' = Pair(s) /\ RouteOf(s)' = RouteOf(s)
    BY <2>1, SameSlots
  <2>8. RoutesTo(s)' = RoutesTo(s) /\ StrayAddress' = StrayAddress /\ StrayRoute' = StrayRoute
    BY <2>1, <2>5 DEF RoutesTo, StrayAddress, StrayRoute
  <2>9. HostIP(s) \in IPs
    BY <2>6, OwnAddresses
  <2>10. NetTyped(n)
    BY <2>3, <2>4, <2>9 DEF NetTyped
  <2>11. BusyInv(s)'
    BY <2>1, <2>2, <2>5, <2>6, <2>7, <2>10 DEF SandboxInv, BusyInv
  <2>12. PreparedInv(s)'
    BY <2>2, <2>4, <2>5, <2>6, <2>7, <2>8 DEF SandboxInv, PreparedInv, Past, Joined, Addressed, Gatewayed,
       Routed, Natted
  <2>13. AddressInv(s)'
    BY <2>1, <2>2, <2>4, <2>5, <2>6, <2>7, <2>8 DEF SandboxInv, AddressInv
  <2>14. RouteInv(s)'
    BY <2>1, <2>2, <2>4, <2>5, <2>6, <2>7, <2>8 DEF SandboxInv, RouteInv
  <2>15. SandboxInv(s)' /\ DOMAIN undone' = Sandboxes /\ \A t \in Sandboxes \ {s} : undone'[t] = undone[t]
    BY <2>1, <2>2, <2>11, <2>12, <2>13, <2>14 DEF SandboxInv, DomainInv
  <2> QED  BY <1>1, <2>1, <2>5, <2>15, NetCommand
<1>2. CASE GivesUp(s) /\ UNCHANGED links
  <2>1. At(s, "inside") /\ Kept(s) /\ undone' = undone
    BY DEF SetInside, Command
  <2> QED  BY <1>2, <2>1, GivingUp
<1> QED  BY <1>0, <1>1, <1>2

\* ensureNAT: the SNAT rule that is there already is the slot's, or one that is left.
LEMMA EnsureNATKeeps ==
  ASSUME NetworkInv, NEW s \in Sandboxes, EnsureNAT(s)
  PROVE  NetworkInv'
<1>0. PICK n : /\ n = [net[s] EXCEPT
                    !.dnat = @ \cup {HostIP(s)},
                    !.snat = IF \E i \in DOMAIN @ : @[i] = HostIP(s) THEN @ ELSE Append(@, HostIP(s))]
              /\ \/ NetIs(s, n) /\ Done(s)
                 \/ GivesUp(s) /\ UNCHANGED links
  BY DEF EnsureNAT, Command
<1>1. CASE NetIs(s, n) /\ Done(s)
  <2>1. At(s, "nat") /\ Kept(s) /\ undone' = undone
    BY DEF EnsureNAT, Command
  <2>2. SandboxInv(s) /\ DomainInv
    BY DEF NetworkInv
  <2>3. NetTyped(net[s])
    BY <2>2 DEF SandboxInv, BusyInv
  <2>4. /\ n.ns = net[s].ns /\ n.pair = net[s].pair /\ n.host = net[s].host /\ n.peer = net[s].peer
        /\ n.gateway = net[s].gateway /\ n.addr = net[s].addr /\ n.dnat = net[s].dnat \cup {HostIP(s)}
        /\ DOMAIN n = DOMAIN NoNet
        /\ n.snat = IF \E i \in DOMAIN net[s].snat : net[s].snat[i] = HostIP(s)
                    THEN net[s].snat ELSE Append(net[s].snat, HostIP(s))
    BY <1>0, <2>3, NetFields DEF NetTyped
  <2>5. net'[s] = n /\ routes' = routes
    BY <1>1, <2>2 DEF NetIs, DomainInv
  <2>6. /\ Doing(s) = "nat" /\ row[s] # 0 /\ s \notin up /\ todo'[s] \in Commands /\ Doing(s)' = "lookup"
    BY <1>1, <2>1, Moves
  <2>7. /\ held' = held /\ row' = row /\ up' = up /\ cancelled' = cancelled
        /\ HostIP(s)' = HostIP(s) /\ Pair(s)' = Pair(s) /\ RouteOf(s)' = RouteOf(s)
    BY <2>1, SameSlots
  <2>8. RoutesTo(s)' = RoutesTo(s) /\ StrayAddress' = StrayAddress /\ StrayRoute' = StrayRoute
    BY <2>1, <2>5 DEF RoutesTo, StrayAddress, StrayRoute
  <2>9. HostIP(s) \in IPs
    BY <2>6, OwnAddresses
  <2>16. net[s].snat = << >> => n.snat = <<HostIP(s)>>
    BY <2>4
  <2>17. net[s].snat = <<HostIP(s)>> => n.snat = <<HostIP(s)>>
    BY <2>4
  <2>18. s \notin StrayAddress => n.snat = <<HostIP(s)>>
    BY <2>2, <2>16, <2>17 DEF SandboxInv, AddressInv
  <2>10. NetTyped(n)
    BY <2>3, <2>4, <2>9 DEF NetTyped
  <2>11. BusyInv(s)'
    BY <2>1, <2>2, <2>5, <2>6, <2>7, <2>10 DEF SandboxInv, BusyInv
  <2>12. PreparedInv(s)'
    BY <2>2, <2>4, <2>5, <2>6, <2>7, <2>8, <2>18 DEF SandboxInv, PreparedInv, Past, Joined, Addressed,
       Gatewayed, Routed, Natted
  <2>13. AddressInv(s)'
    BY <2>1, <2>2, <2>4, <2>5, <2>6, <2>7, <2>8, <2>18 DEF SandboxInv, AddressInv
  <2>14. RouteInv(s)'
    BY <2>1, <2>2, <2>4, <2>5, <2>6, <2>7, <2>8 DEF SandboxInv, RouteInv
  <2>15. SandboxInv(s)' /\ DOMAIN undone' = Sandboxes /\ \A t \in Sandboxes \ {s} : undone'[t] = undone[t]
    BY <2>1, <2>2, <2>11, <2>12, <2>13, <2>14 DEF SandboxInv, DomainInv
  <2> QED  BY <1>1, <2>1, <2>5, <2>15, NetCommand
<1>2. CASE GivesUp(s) /\ UNCHANGED links
  <2>1. At(s, "nat") /\ Kept(s) /\ undone' = undone
    BY DEF EnsureNAT, Command
  <2> QED  BY <1>2, <2>1, GivingUp
<1> QED  BY <1>0, <1>1, <1>2

\* What is always so at a command of s: its handler, its slot and the unchanged rest.
Here(s, step, next) ==
  /\ DomainInv /\ HostInv /\ SandboxInv(s) /\ NetTyped(net[s])
  /\ Doing(s) = step /\ row[s] # 0 /\ s \notin up /\ todo'[s] \in Commands /\ Doing(s)' = next
  /\ DOMAIN todo' = Sandboxes /\ \A t \in Sandboxes \ {s} : todo'[t] = todo[t]
  /\ host' = host /\ veth' = veth /\ held' = held /\ row' = row /\ up' = up
  /\ cancelled' = cancelled /\ request' = request
  /\ HostIP(s)' = HostIP(s) /\ Pair(s)' = Pair(s) /\ RouteOf(s)' = RouteOf(s)
  /\ Kept(s)

\* Not yet masquerading, it does not add to the calls about to append.
LEMMA NotAppending ==
  ASSUME NEW s \in Sandboxes, NEW step, NEW next, Here(s, step, next), next # "masquerade",
         masquerade' \in Nat, masquerade' <= masquerade
  PROVE  masquerade' \in Nat /\ masquerade' + Cardinality(Appending') <= Cardinality(Sandboxes)
<1>1. Appending' \subseteq Appending
  BY DEF Here, Appending, Doing
<1> QED  BY <1>1, FewerRules DEF Here

\* ip link del, before Prepare makes the pair and in Cleanup.
LEMMA UnlinkedKeeps ==
  ASSUME NetworkInv, NEW s \in Sandboxes, Unlinked(s), undone' = undone,
         Here(s, "unlink", "pair") \/ Here(s, "rmlink", "rmns")
  PROVE  NetworkInv'
<1>1. PICK step, next : Here(s, step, next) /\ <<step, next>> \in {<<"unlink", "pair">>, <<"rmlink", "rmns">>}
  OBVIOUS
<1> DEFINE n == [net[s] EXCEPT !.pair = "none", !.host = NoIP, !.peer = NoIP, !.gateway = NoIP, !.addr = {}]
<1>2. /\ n.ns = net[s].ns /\ n.dnat = net[s].dnat /\ n.snat = net[s].snat /\ n.pair = "none"
      /\ n.host = NoIP /\ n.peer = NoIP /\ n.gateway = NoIP /\ n.addr = {} /\ DOMAIN n = DOMAIN NoNet
  BY <1>1, NetFields DEF Here, NetTyped
<1>3. /\ net'[s] = n /\ DOMAIN net' = Sandboxes /\ \A t \in Sandboxes \ {s} : net'[t] = net[t]
      /\ routes' = {r \in routes : r.dev # s} /\ masquerade' = masquerade
  BY <1>1 DEF Unlinked, Here, DomainInv
<1> HIDE DEF n
<1>4. RoutesTo(s)' = {} /\ (StrayAddress' = StrayAddress) /\ StrayRoute' = StrayRoute
  BY <1>3 DEF RoutesTo, StrayAddress, StrayRoute
<1>5. NetTyped(n)
  BY <1>1, <1>2 DEF NetTyped, Here
<1>6. BusyInv(s)'
  BY <1>1, <1>3, <1>5 DEF SandboxInv, BusyInv, Here
<1>7. PreparedInv(s)'
  BY <1>1 DEF PreparedInv, Past, Joined, Addressed, Gatewayed, Routed, Natted, Here
<1>8. AddressInv(s)'
  BY <1>1, <1>2, <1>3, <1>4 DEF SandboxInv, AddressInv, Here
<1>9. RouteInv(s)'
  BY <1>4 DEF RouteInv
<1>10. SandboxInv(s)'
  BY <1>6, <1>7, <1>8, <1>9 DEF SandboxInv
<1>11. Commanded(s)
  BY <1>1, <1>3 DEF Commanded, Here, DomainInv
<1>12. masquerade' \in Nat /\ masquerade' + Cardinality(Appending') <= Cardinality(Sandboxes)
  BY <1>1, <1>3, NotAppending DEF Here, HostInv
<1>13. routes' \subseteq Routes /\ \A r1, r2 \in routes' : r1.dst = r2.dst => r1 = r2
  BY <1>1, <1>3 DEF Here, HostInv
<1>14. /\ \A r \in routes' : r.dev # s => r \in routes
       /\ \A r \in routes : r.dev # s => r \in routes' \/ (row[s] # 0 /\ r.dst = HostIP(s))
  BY <1>3
<1> QED  BY <1>10, <1>11, <1>12, <1>13, <1>14, CommandKeeps

\* Deleting the one rule there is leaves none.
LEMMA RuleGone ==
  ASSUME NEW a
  PROVE  RemoveFirst(<< >>, a) = << >> /\ RemoveFirst(<<a>>, a) = << >>
<1>1. RemoveFirst(<< >>, a) = << >>
  BY DEF RemoveFirst
<1>2. SelectInSeq(<<a>>, LAMBDA v : v = a) = 1
  <2>1. {i \in 1..Len(<<a>>) : <<a>>[i] = a} = {1}
    OBVIOUS
  <2>2. Min({1}) = 1
    BY DEF Min
  <2> QED  BY <2>1, <2>2 DEF SelectInSeq
<1>3. RemoveFirst(<<a>>, a) = RemoveAt(<<a>>, 1)
  BY <1>2 DEF RemoveFirst
<1>4. RemoveAt(<<a>>, 1) = << >>
  BY DEF RemoveAt
<1> QED  BY <1>1, <1>3, <1>4

\* removeNAT.
LEMMA RemovedNATKeeps ==
  ASSUME NetworkInv, NEW s \in Sandboxes, undone' = undone, Here(s, "unnat", "unroute"),
         At(s, "unnat"), Done(s),
         NetIs(s, [net[s] EXCEPT !.dnat = @ \ {HostIP(s)}, !.snat = RemoveFirst(@, HostIP(s))])
  PROVE  NetworkInv'
<1> DEFINE n == [net[s] EXCEPT !.dnat = @ \ {HostIP(s)}, !.snat = RemoveFirst(@, HostIP(s))]
<1>1. /\ n.ns = net[s].ns /\ n.pair = net[s].pair /\ n.host = net[s].host /\ n.peer = net[s].peer
      /\ n.gateway = net[s].gateway /\ n.addr = net[s].addr /\ n.dnat \subseteq net[s].dnat
      /\ n.snat = RemoveFirst(net[s].snat, HostIP(s)) /\ DOMAIN n = DOMAIN NoNet
  BY NetFields DEF Here, NetTyped
<1>2. NetIs(s, n)
  OBVIOUS
<1> HIDE DEF n
<1>3. net'[s] = n /\ routes' = routes
  BY <1>2 DEF NetIs, Here, DomainInv
<1>4. RoutesTo(s)' = RoutesTo(s) /\ StrayAddress' = StrayAddress /\ StrayRoute' = StrayRoute
  BY <1>3 DEF RoutesTo, StrayAddress, StrayRoute
<1>5. s \notin StrayAddress => n.snat = << >>
  BY <1>1, RuleGone DEF Here, SandboxInv, AddressInv
<1>6. NetTyped(n)
  BY <1>1 DEF NetTyped, Here
<1>7. BusyInv(s)'
  BY <1>3, <1>6 DEF SandboxInv, BusyInv, Here
<1>8. PreparedInv(s)'
  BY DEF PreparedInv, Past, Joined, Addressed, Gatewayed, Routed, Natted, Here
<1>9. AddressInv(s)'
  BY <1>3, <1>4, <1>5 DEF AddressInv, Here, StrayAddress
<1>10. RouteInv(s)'
  BY <1>1, <1>3, <1>4 DEF SandboxInv, RouteInv, Here
<1>11. SandboxInv(s)' /\ DOMAIN undone' = Sandboxes /\ \A t \in Sandboxes \ {s} : undone'[t] = undone[t]
  BY <1>7, <1>8, <1>9, <1>10 DEF SandboxInv, Here, DomainInv
<1> QED  BY <1>2, <1>11, NetCommand DEF Here

\* ip netns del: the rules go with the namespace, the routes with the end of the pair in it.
LEMMA RemovedNamespaceKeeps ==
  ASSUME NetworkInv, NEW s \in Sandboxes, undone' = [undone EXCEPT ![s] = {}], Here(s, "rmns", "release"),
         net' = [net EXCEPT ![s] = IF net[s].pair = "apart" THEN [NoNet EXCEPT !.pair = "apart"] ELSE NoNet],
         routes' = {r \in routes : r.dev # s \/ net[s].pair = "apart"}, UNCHANGED masquerade
  PROVE  NetworkInv'
<1> DEFINE n == IF net[s].pair = "apart" THEN [NoNet EXCEPT !.pair = "apart"] ELSE NoNet
<1>1. n.snat = << >> /\ NetTyped(n)
  BY DEF NoNet, NetTyped
<1>2. /\ net'[s] = n /\ DOMAIN net' = Sandboxes /\ \A t \in Sandboxes \ {s} : net'[t] = net[t]
      /\ DOMAIN undone' = Sandboxes /\ undone'[s] = {} /\ \A t \in Sandboxes \ {s} : undone'[t] = undone[t]
  BY DEF Here, DomainInv
<1> HIDE DEF n
<1>3. RoutesTo(s)' = {}
  <2>1. CASE net[s].pair = "apart"
    <3>1. RoutesTo(s) = {}
      BY <2>1 DEF Here, SandboxInv, RouteInv
    <3> QED  BY <2>1, <3>1 DEF RoutesTo
  <2>2. CASE net[s].pair # "apart"
    BY <2>2 DEF RoutesTo
  <2> QED  BY <2>1, <2>2
<1>4. BusyInv(s)'
  BY <1>1, <1>2 DEF SandboxInv, BusyInv, Here
<1>5. PreparedInv(s)'
  BY DEF PreparedInv, Past, Joined, Addressed, Gatewayed, Routed, Natted, Here
<1>6. AddressInv(s)' /\ RouteInv(s)'
  BY <1>1, <1>2, <1>3 DEF AddressInv, RouteInv
<1>7. SandboxInv(s)'
  BY <1>4, <1>5, <1>6 DEF SandboxInv
<1>8. Commanded(s)
  BY <1>2 DEF Commanded, Here
<1>9. masquerade' \in Nat /\ masquerade' + Cardinality(Appending') <= Cardinality(Sandboxes)
  BY NotAppending DEF Here, HostInv
<1>10. routes' \subseteq Routes /\ \A r1, r2 \in routes' : r1.dst = r2.dst => r1 = r2
  BY DEF Here, HostInv
<1>11. /\ \A r \in routes' : r.dev # s => r \in routes
       /\ \A r \in routes : r.dev # s => r \in routes' \/ (row[s] # 0 /\ r.dst = HostIP(s))
  OBVIOUS
<1> QED  BY <1>7, <1>8, <1>9, <1>10, <1>11, CommandKeeps

\* ip route del: the route of the slot goes, whoever it leads to.
LEMMA RemovedRouteKeeps ==
  ASSUME NetworkInv, NEW s \in Sandboxes, undone' = undone, Here(s, "unroute", "rmlink"),
         routes' = {r \in routes : r.dst # HostIP(s)}, UNCHANGED <<net, masquerade>>
  PROVE  NetworkInv'
<1>1. StrayAddress' = StrayAddress /\ StrayRoute' = StrayRoute /\ RoutesTo(s)' \subseteq RoutesTo(s)
  BY DEF RoutesTo, StrayAddress, StrayRoute
<1>2. s \notin StrayRoute => RoutesTo(s)' = {}
  BY DEF Here, SandboxInv, RouteInv, RoutesTo
<1>3. BusyInv(s)'
  BY DEF SandboxInv, BusyInv, Here
<1>4. PreparedInv(s)'
  BY DEF PreparedInv, Past, Joined, Addressed, Gatewayed, Routed, Natted, Here
<1>5. AddressInv(s)'
  BY <1>1 DEF SandboxInv, AddressInv, Here
<1>6. RouteInv(s)'
  BY <1>1, <1>2 DEF SandboxInv, RouteInv, Here, StrayRoute
<1>7. SandboxInv(s)'
  BY <1>3, <1>4, <1>5, <1>6 DEF SandboxInv
<1>8. Commanded(s)
  BY DEF Commanded, Here, DomainInv
<1>9. masquerade' \in Nat /\ masquerade' + Cardinality(Appending') <= Cardinality(Sandboxes)
  BY NotAppending DEF Here, HostInv
<1>10. routes' \subseteq Routes /\ \A r1, r2 \in routes' : r1.dst = r2.dst => r1 = r2
  BY DEF Here, HostInv
<1>11. /\ \A r \in routes' : r.dev # s => r \in routes
       /\ \A r \in routes : r.dev # s => r \in routes' \/ (row[s] # 0 /\ r.dst = HostIP(s))
  BY DEF Here
<1> QED  BY <1>7, <1>8, <1>9, <1>10, <1>11, CommandKeeps

\* ip route replace: the address has one route, this sandbox's.
LEMMA RoutedKeeps ==
  ASSUME NetworkInv, NEW s \in Sandboxes, undone' = undone, Here(s, "route", "inside"),
         routes' = {r \in routes : r.dst # HostIP(s)} \cup {RouteOf(s)}, UNCHANGED <<net, masquerade>>
  PROVE  NetworkInv'
<1>1. StrayAddress' = StrayAddress /\ StrayRoute' = StrayRoute
  BY DEF StrayAddress, StrayRoute
<1>2. RouteOf(s) \in Routes /\ RouteOf(s).dst = HostIP(s) /\ RouteOf(s).dev = s
  BY OwnAddresses DEF Here, RouteOf
<1>3. \A r \in RoutesTo(s)' : r \in RoutesTo(s) \/ r.dst = HostIP(s)
  BY <1>2 DEF RoutesTo
<1>4. BusyInv(s)'
  BY DEF SandboxInv, BusyInv, Here
<1>5. PreparedInv(s)'
  BY DEF SandboxInv, PreparedInv, Past, Joined, Addressed, Gatewayed, Routed, Natted, Here
<1>6. AddressInv(s)'
  BY <1>1 DEF SandboxInv, AddressInv, Here
<1>7. net[s].pair = "joined"
  BY DEF Here, SandboxInv, PreparedInv, Past, Joined, Addressed, Gatewayed
<1>8. RouteInv(s)'
  BY <1>1, <1>3, <1>7 DEF SandboxInv, RouteInv, Here
<1>9. SandboxInv(s)'
  BY <1>4, <1>5, <1>6, <1>8 DEF SandboxInv
<1>10. Commanded(s)
  BY DEF Commanded, Here, DomainInv
<1>11. masquerade' \in Nat /\ masquerade' + Cardinality(Appending') <= Cardinality(Sandboxes)
  BY NotAppending DEF Here, HostInv
<1>12. routes' \subseteq Routes /\ \A r1, r2 \in routes' : r1.dst = r2.dst => r1 = r2
  BY <1>2 DEF Here, HostInv
<1>13. /\ \A r \in routes' : r.dev # s => r \in routes
       /\ \A r \in routes : r.dev # s => r \in routes' \/ (row[s] # 0 /\ r.dst = HostIP(s))
  BY <1>2 DEF Here
<1> QED  BY <1>9, <1>10, <1>11, <1>12, <1>13, CommandKeeps

\* Every command is one that Here describes.
LEMMA AtHere ==
  ASSUME NetworkInv, NEW s \in Sandboxes, NEW step, At(s, step), Done(s), Kept(s)
  PROVE  /\ step = "unlink" => Here(s, step, "pair")
         /\ step = "route" => Here(s, step, "inside")
         /\ step = "lookup" => Here(s, step, "masquerade")
         /\ step = "masquerade" => Here(s, step, "ready")
         /\ step = "unmasquerade" => Here(s, step, "unnat")
         /\ step = "unnat" => Here(s, step, "unroute")
         /\ step = "unroute" => Here(s, step, "rmlink")
         /\ step = "rmlink" => Here(s, step, "rmns")
         /\ step = "rmns" => Here(s, step, "release")
<1>1. DomainInv /\ HostInv /\ SandboxInv(s) /\ NetTyped(net[s])
  BY DEF NetworkInv, SandboxInv, BusyInv
<1>2. /\ Doing(s) = step /\ row[s] # 0 /\ s \notin up /\ todo'[s] \in Commands
      /\ DOMAIN todo' = Sandboxes /\ \A t \in Sandboxes \ {s} : todo'[t] = todo[t]
      /\ step = "unlink" => Doing(s)' = "pair"
      /\ step = "route" => Doing(s)' = "inside"
      /\ step = "lookup" => Doing(s)' = "masquerade"
      /\ step = "masquerade" => Doing(s)' = "ready"
      /\ step = "unmasquerade" => Doing(s)' = "unnat"
      /\ step = "unnat" => Doing(s)' = "unroute"
      /\ step = "unroute" => Doing(s)' = "rmlink"
      /\ step = "rmlink" => Doing(s)' = "rmns"
      /\ step = "rmns" => Doing(s)' = "release"
  BY Moves
<1> QED  BY <1>1, <1>2, SameSlots DEF Here

\* The deletion of links, rules, routes and namespaces, whether it works or not.
LEMMA AttemptKeeps ==
  ASSUME NetworkInv, NEW s \in Sandboxes,
         \/ Unlink(s) \/ RemoveNAT(s) \/ RemoveRoute(s) \/ RemoveLink(s) \/ RemoveNamespace(s)
  PROVE  NetworkInv'
<1>1. CASE Unlink(s) /\ Unlinked(s) /\ undone' = undone
  <2>1. Here(s, "unlink", "pair")
    BY <1>1, AtHere DEF Unlink, Attempt
  <2> QED  BY <1>1, <2>1, UnlinkedKeeps
<1>2. CASE RemoveLink(s) /\ Unlinked(s) /\ undone' = undone
  <2>1. Here(s, "rmlink", "rmns")
    BY <1>2, AtHere DEF RemoveLink, Attempt
  <2> QED  BY <1>2, <2>1, UnlinkedKeeps
<1>3. CASE RemoveNAT(s) /\ undone' = undone
           /\ NetIs(s, [net[s] EXCEPT !.dnat = @ \ {HostIP(s)}, !.snat = RemoveFirst(@, HostIP(s))])
  <2>1. Here(s, "unnat", "unroute") /\ At(s, "unnat") /\ Done(s)
    BY <1>3, AtHere DEF RemoveNAT, Attempt
  <2> QED  BY <1>3, <2>1, RemovedNATKeeps
<1>4. CASE RemoveRoute(s) /\ undone' = undone
           /\ routes' = {r \in routes : r.dst # HostIP(s)} /\ UNCHANGED <<net, masquerade>>
  <2>1. Here(s, "unroute", "rmlink")
    BY <1>4, AtHere DEF RemoveRoute, Attempt
  <2> QED  BY <1>4, <2>1, RemovedRouteKeeps
<1>5. CASE RemoveNamespace(s) /\ undone' = [undone EXCEPT ![s] = {}]
           /\ net' = [net EXCEPT ![s] = IF net[s].pair = "apart" THEN [NoNet EXCEPT !.pair = "apart"] ELSE NoNet]
           /\ routes' = {r \in routes : r.dev # s \/ net[s].pair = "apart"} /\ UNCHANGED masquerade
  <2>1. Here(s, "rmns", "release")
    BY <1>5, AtHere DEF RemoveNamespace, Attempt
  <2> QED  BY <1>5, <2>1, RemovedNamespaceKeeps
<1>6. CASE /\ UNCHANGED links
           /\ \/ s \in cancelled /\ undone' = undone
              \/ \E step \in {"unlink", "unnat", "unroute", "rmlink", "rmns"} :
                   At(s, step) /\ undone' = [undone EXCEPT ![s] = @ \cup ({step} \cap RemovalSteps)]
  <2>1. PICK step \in {"unlink", "unnat", "unroute", "rmlink", "rmns"} :
          /\ At(s, step) /\ Done(s) /\ Kept(s)
          /\ \/ s \in cancelled /\ undone' = undone
             \/ undone' = [undone EXCEPT ![s] = @ \cup ({step} \cap RemovalSteps)]
    BY <1>6 DEF Unlink, RemoveNAT, RemoveRoute, RemoveLink, RemoveNamespace, Attempt, At
  <2> QED  BY <1>6, <2>1, Ignoring
<1>7. \/ Unlink(s) /\ Unlinked(s) /\ undone' = undone
      \/ RemoveLink(s) /\ Unlinked(s) /\ undone' = undone
      \/ /\ RemoveNAT(s) /\ undone' = undone
         /\ NetIs(s, [net[s] EXCEPT !.dnat = @ \ {HostIP(s)}, !.snat = RemoveFirst(@, HostIP(s))])
      \/ /\ RemoveRoute(s) /\ undone' = undone
         /\ routes' = {r \in routes : r.dst # HostIP(s)} /\ UNCHANGED <<net, masquerade>>
      \/ /\ RemoveNamespace(s) /\ undone' = [undone EXCEPT ![s] = {}]
         /\ net' = [net EXCEPT ![s] = IF net[s].pair = "apart" THEN [NoNet EXCEPT !.pair = "apart"] ELSE NoNet]
         /\ routes' = {r \in routes : r.dev # s \/ net[s].pair = "apart"} /\ UNCHANGED masquerade
      \/ /\ UNCHANGED links
         /\ \/ s \in cancelled /\ undone' = undone
            \/ \E step \in {"unlink", "unnat", "unroute", "rmlink", "rmns"} :
                 At(s, step) /\ undone' = [undone EXCEPT ![s] = @ \cup ({step} \cap RemovalSteps)]
  BY DEF Unlink, RemoveNAT, RemoveRoute, RemoveLink, RemoveNamespace, Attempt
<1> QED  BY <1>1, <1>2, <1>3, <1>4, <1>5, <1>6, <1>7

\* The host's rules: looked up, appended, deleted.
LEMMA RuleKeeps ==
  ASSUME NetworkInv, NEW s \in Sandboxes, NEW step, NEW next, Here(s, step, next),
         <<step, next>> \in {<<"lookup", "masquerade">>, <<"lookup", "ready">>,
                             <<"masquerade", "ready">>, <<"unmasquerade", "unnat">>},
         UNCHANGED <<net, routes, undone>>, masquerade' \in Nat,
         masquerade' + Cardinality(Appending') <= Cardinality(Sandboxes)
  PROVE  NetworkInv'
<1>1. RoutesTo(s)' = RoutesTo(s) /\ StrayAddress' = StrayAddress /\ StrayRoute' = StrayRoute
  BY DEF RoutesTo, StrayAddress, StrayRoute
<1>2. BusyInv(s)'
  BY DEF SandboxInv, BusyInv, Here
<1>3. PreparedInv(s)'
  BY <1>1 DEF SandboxInv, PreparedInv, Past, Joined, Addressed, Gatewayed, Routed, Natted, Here
<1>4. AddressInv(s)'
  BY <1>1 DEF SandboxInv, AddressInv, Here
<1>5. RouteInv(s)'
  BY <1>1 DEF SandboxInv, RouteInv, Here
<1>6. SandboxInv(s)'
  BY <1>2, <1>3, <1>4, <1>5 DEF SandboxInv
<1>7. Commanded(s)
  BY DEF Commanded, Here, DomainInv
<1>8. routes' \subseteq Routes /\ \A r1, r2 \in routes' : r1.dst = r2.dst => r1 = r2
  BY DEF Here, HostInv
<1> QED  BY <1>6, <1>7, <1>8, CommandKeeps

\* A sandbox that has found no rules counts as one of the host's rules from there on.
LEMMA LookupRuleKeeps ==
  ASSUME NetworkInv, NEW s \in Sandboxes, LookupRule(s)
  PROVE  NetworkInv'
<1>1. /\ At(s, "lookup") /\ Kept(s) /\ net' = net /\ routes' = routes /\ undone' = undone
      /\ masquerade' = masquerade
  BY DEF LookupRule, links
<1>2. CASE masquerade > 0 /\ s \notin cancelled
  <2>1. todo' = [todo EXCEPT ![s] = Tail(Tail(@))]
    BY <1>2 DEF LookupRule
  <2>2. /\ todo[s] \in Commands /\ todo[s] # << >> /\ Head(todo[s]) = "lookup" /\ DomainInv
        /\ HostInv /\ SandboxInv(s)
    BY <1>1 DEF NetworkInv, SandboxInv, BusyInv, At
  <2>3. Tail(todo[s]) \in Commands /\ Leads(todo[s], "lookup", "masquerade")
    BY <2>2, Order DEF Leads, Kind
  <2>4. Kind(Tail(todo[s])) = "masquerade" /\ Tail(todo[s]) # << >>
    BY <2>3 DEF Leads, Kind
  <2>5. Tail(Tail(todo[s])) \in Commands /\ Leads(Tail(todo[s]), "masquerade", "ready")
    BY <2>3, <2>4, Order DEF Leads
  <2>6. /\ todo'[s] \in Commands /\ Doing(s)' = "ready" /\ Doing(s) = "lookup" /\ DOMAIN todo' = Sandboxes
        /\ \A t \in Sandboxes \ {s} : todo'[t] = todo[t]
    BY <2>1, <2>2, <2>5 DEF Doing, Kind, Leads, DomainInv
  <2>7. row[s] # 0 /\ s \notin up /\ NetTyped(net[s])
    BY <2>2, <2>6 DEF SandboxInv, BusyInv
  <2>8. Here(s, "lookup", "ready")
    BY <1>1, <2>2, <2>6, <2>7, SameSlots DEF Here
  <2>9. masquerade' \in Nat /\ masquerade' + Cardinality(Appending') <= Cardinality(Sandboxes)
    BY <1>1, <2>2, <2>8, NotAppending DEF HostInv
  <2> QED  BY <1>1, <2>8, <2>9, RuleKeeps
<1>3. CASE ~(masquerade > 0 /\ s \notin cancelled)
  <2>1. Here(s, "lookup", "masquerade")
    BY <1>1, <1>3, AtHere DEF LookupRule
  <2>2. masquerade \in Nat
    BY <2>1 DEF Here, HostInv
  <2>3. CASE s \in cancelled
    <3>1. Appending' \subseteq Appending
      BY <2>1, <2>3 DEF Appending, Doing, Here
    <3>2. masquerade' \in Nat /\ masquerade' + Cardinality(Appending') <= Cardinality(Sandboxes)
      BY <1>1, <2>1, <2>2, <3>1, FewerRules DEF Here
    <3> QED  BY <1>1, <2>1, <3>2, RuleKeeps
  <2>4. CASE masquerade = 0
    <3>1. IsFiniteSet(Sandboxes) /\ Appending' \subseteq Sandboxes
      BY HostNetworkAssumption DEF Appending
    <3>2. Cardinality(Appending') <= Cardinality(Sandboxes) /\ Cardinality(Appending') \in Nat
      BY <3>1, FS_Subset, FS_CardinalityType
    <3>3. masquerade' \in Nat /\ masquerade' + Cardinality(Appending') <= Cardinality(Sandboxes)
      BY <1>1, <2>4, <3>2
    <3> QED  BY <1>1, <2>1, <3>3, RuleKeeps
  <2> QED  BY <1>3, <2>2, <2>3, <2>4
<1> QED  BY <1>2, <1>3

\* The append turns a call that counts into a rule.
LEMMA AppendRuleKeeps ==
  ASSUME NetworkInv, NEW s \in Sandboxes, AppendRule(s)
  PROVE  NetworkInv'
<1>1. At(s, "masquerade") /\ Kept(s) /\ undone' = undone
  BY DEF AppendRule, Command
<1>2. CASE s \notin cancelled /\ masquerade' = masquerade + 1 /\ UNCHANGED <<net, routes>> /\ Done(s)
  <2>1. Here(s, "masquerade", "ready")
    BY <1>1, <1>2, AtHere
  <2>2. s \in Appending /\ s \notin Appending' /\ Appending' \subseteq Appending
    BY <1>2, <2>1 DEF Appending, Doing, Here
  <2>3. IsFiniteSet(Sandboxes) /\ Appending \subseteq Sandboxes
    BY HostNetworkAssumption DEF Appending
  <2>4. IsFiniteSet(Appending) /\ Cardinality(Appending) \in Nat
    BY <2>3, FS_Subset, FS_CardinalityType
  <2>5. /\ IsFiniteSet(Appending') /\ Cardinality(Appending') \in Nat
        /\ Cardinality(Appending') <= Cardinality(Appending)
        /\ Cardinality(Appending) = Cardinality(Appending') => Appending = Appending'
    BY <2>2, <2>4, FS_Subset, FS_CardinalityType
  <2>6. Cardinality(Appending') + 1 <= Cardinality(Appending)
    BY <2>2, <2>4, <2>5
  <2>7. /\ masquerade \in Nat /\ masquerade + Cardinality(Appending) <= Cardinality(Sandboxes)
        /\ Cardinality(Sandboxes) \in Nat
    BY <2>1, <2>3, FS_CardinalityType DEF Here, HostInv
  <2>8. masquerade' \in Nat /\ masquerade' + Cardinality(Appending') <= Cardinality(Sandboxes)
    BY <1>2, <2>4, <2>5, <2>6, <2>7
  <2> QED  BY <1>1, <1>2, <2>1, <2>8, RuleKeeps
<1>3. CASE GivesUp(s) /\ UNCHANGED links
  BY <1>1, <1>3, GivingUp
<1> QED  BY <1>2, <1>3 DEF AppendRule, Command

\* Cleanup deletes a rule whatever it is there for.
LEMMA RemoveRuleKeeps ==
  ASSUME NetworkInv, NEW s \in Sandboxes, RemoveRule(s)
  PROVE  NetworkInv'
<1>1. At(s, "unmasquerade") /\ Done(s) /\ Kept(s)
  BY DEF RemoveRule, Attempt
<1>2. CASE /\ masquerade' = (IF masquerade = 0 THEN 0 ELSE masquerade - 1)
           /\ UNCHANGED <<net, routes>> /\ undone' = undone
  <2>1. Here(s, "unmasquerade", "unnat")
    BY <1>1, AtHere
  <2>2. masquerade' \in Nat /\ masquerade' <= masquerade
    BY <1>2, <2>1 DEF Here, HostInv
  <2>3. masquerade' \in Nat /\ masquerade' + Cardinality(Appending') <= Cardinality(Sandboxes)
    BY <2>1, <2>2, NotAppending
  <2> QED  BY <1>2, <2>1, <2>3, RuleKeeps
<1>3. CASE /\ UNCHANGED links
           /\ \/ s \in cancelled /\ undone' = undone
              \/ undone' = [undone EXCEPT ![s] = @ \cup ({"unmasquerade"} \cap RemovalSteps)]
  BY <1>1, <1>3, Ignoring
<1> QED  BY <1>2, <1>3 DEF RemoveRule, Attempt

\* ip route replace.
LEMMA SetRouteKeeps ==
  ASSUME NetworkInv, NEW s \in Sandboxes, SetRoute(s)
  PROVE  NetworkInv'
<1>1. At(s, "route") /\ Kept(s) /\ undone' = undone
  BY DEF SetRoute, Command
<1>2. CASE /\ routes' = {r \in routes : r.dst # HostIP(s)} \cup {RouteOf(s)}
           /\ UNCHANGED <<net, masquerade>> /\ Done(s)
  <2>1. Here(s, "route", "inside")
    BY <1>1, <1>2, AtHere
  <2> QED  BY <1>1, <1>2, <2>1, RoutedKeeps
<1>3. CASE GivesUp(s) /\ UNCHANGED links
  BY <1>1, <1>3, GivingUp
<1> QED  BY <1>2, <1>3 DEF SetRoute, Command, RouteOf

-----------------------------------------------------------------------------
(* Handlers and requests.                                                   *)

\* A handler's step is one sandbox's.
LEMMA HandlerKeeps ==
  ASSUME NetworkInv, NEW s \in Sandboxes, Elsewhere(s), SandboxInv(s)', DomainInv', TypeOK', RequestInv',
         \A t, u \in Sandboxes : t # u /\ row'[t] = row'[u] => row'[t] = 0,
         routes' = routes, masquerade' = masquerade, Appending' \subseteq Appending
  PROVE  NetworkInv'
<1>1. \A t \in Sandboxes : SandboxInv(t)'
  BY OthersKept
<1>2. HostInv
  BY DEF NetworkInv
<1>3. masquerade' \in Nat /\ masquerade' + Cardinality(Appending') <= Cardinality(Sandboxes)
  BY <1>2, FewerRules DEF HostInv
<1>4. HostInv'
  BY <1>2, <1>3 DEF HostInv
<1> QED  BY <1>1, <1>4 DEF NetworkInv

\* The slot that Start takes is one that no sandbox has.
LEMMA StartSlots ==
  ASSUME NetworkInv, NEW s \in Sandboxes, Start(s)
  PROVE  /\ host' = host /\ veth' = veth /\ held \subseteq held' /\ TypeOK'
         /\ DOMAIN row' = Sandboxes /\ row'[s] \in held' /\ row'[s] # 0
         /\ row[s] # 0 => row'[s] = row[s]
         /\ \A t \in Sandboxes \ {s} : row'[t] = row[t]
         /\ \A t, u \in Sandboxes : t # u /\ row'[t] = row'[u] => row'[t] = 0
<1>1. /\ TypeOK /\ DOMAIN row = Sandboxes /\ \A t \in Sandboxes : row[t] \in held \cup {0}
      /\ \A t, u \in Sandboxes : t # u /\ row[t] = row[u] => row[t] = 0
  BY DEF NetworkInv, HostInv, SandboxInv, BusyInv, DomainInv
<1>2. 0 \notin held
  BY <1>1, MaxSlotsBounds DEF TypeOK
<1>3. CASE row[s] # 0 /\ UNCHANGED <<cidrs, held, row>>
  BY <1>1, <1>3 DEF TypeOK, IsCIDR, cidrs
<1>4. CASE row[s] = 0 /\ Assign /\ row' = [row EXCEPT ![s] = CHOOSE n \in held' : n \notin held]
  <2>1. PICK n \in 1..MaxSlots(host, veth) : n \notin held /\ held' = held \cup {n}
    BY <1>4 DEF Assign
  <2>2. host' = host /\ veth' = veth
    BY <1>4 DEF Assign
  <2>3. (CHOOSE m \in held' : m \notin held) = n
    BY <2>1
  <2>4. row' = [row EXCEPT ![s] = n]
    BY <1>4, <2>3
  <2>5. n # 0
    BY <1>1, <2>1, MaxSlotsBounds DEF TypeOK
  <2>6. TypeOK'
    BY <1>1, <2>1, <2>2 DEF TypeOK, IsCIDR
  <2>7. row'[s] = n /\ DOMAIN row' = Sandboxes /\ \A t \in Sandboxes \ {s} : row'[t] = row[t]
    BY <1>1, <2>4
  <2>8. \A t \in Sandboxes \ {s} : row'[t] # n
    BY <1>1, <2>1, <2>5, <2>7
  <2> QED  BY <1>1, <1>4, <2>1, <2>2, <2>5, <2>6, <2>7, <2>8
<1> QED  BY <1>3, <1>4 DEF Start

\* A handler begins to prepare a sandbox's network.
LEMMA StartKeeps ==
  ASSUME NetworkInv, NEW s \in Sandboxes, Start(s)
  PROVE  NetworkInv'
<1>1. SandboxInv(s) /\ DomainInv /\ HostInv /\ RequestInv
  BY DEF NetworkInv
<1>2. /\ host' = host /\ veth' = veth /\ held \subseteq held' /\ TypeOK'
      /\ DOMAIN row' = Sandboxes /\ row'[s] \in held' /\ row'[s] # 0
      /\ row[s] # 0 => row'[s] = row[s]
      /\ \A t \in Sandboxes \ {s} : row'[t] = row[t]
      /\ \A t, u \in Sandboxes : t # u /\ row'[t] = row'[u] => row'[t] = 0
  BY StartSlots
<1>3. /\ up' = up /\ net' = net /\ routes' = routes /\ masquerade' = masquerade /\ undone' = undone
      /\ request' = request /\ cancelled' = cancelled \ {s} /\ s \notin up
      /\ todo' = [todo EXCEPT ![s] = PrepareSteps]
  BY DEF Start, links
<1>4. /\ todo'[s] = PrepareSteps /\ DOMAIN todo' = Sandboxes
      /\ \A t \in Sandboxes \ {s} : todo'[t] = todo[t]
  BY <1>1, <1>3 DEF DomainInv
<1>5. todo'[s] \in Commands /\ Doing(s)' = "netns"
  BY <1>4, Beginnings DEF Doing
<1>6. row[s] # 0 => HostIP(s)' = HostIP(s)
  BY <1>2 DEF HostIP
<1>7. RoutesTo(s)' = RoutesTo(s) /\ StrayAddress' = StrayAddress /\ StrayRoute' = StrayRoute
  BY <1>3 DEF RoutesTo, StrayAddress, StrayRoute
<1>8. BusyInv(s)'
  BY <1>1, <1>2, <1>3, <1>5 DEF SandboxInv, BusyInv
<1>9. PreparedInv(s)'
  BY <1>3, <1>5 DEF PreparedInv, Past, Joined, Addressed, Gatewayed, Routed, Natted
<1>10. AddressInv(s)'
  BY <1>1, <1>2, <1>3, <1>5, <1>6, <1>7 DEF SandboxInv, AddressInv
<1>11. RouteInv(s)'
  BY <1>1, <1>2, <1>3, <1>5, <1>6, <1>7 DEF SandboxInv, RouteInv
<1>12. SandboxInv(s)'
  BY <1>8, <1>9, <1>10, <1>11 DEF SandboxInv
<1>13. \A t \in Sandboxes : row[t] # 0 => row[t] \in held
  BY DEF NetworkInv, SandboxInv, BusyInv
<1>14. Elsewhere(s)
  BY <1>2, <1>3, <1>4, <1>13 DEF Elsewhere
<1>15. DomainInv'
  BY <1>1, <1>2, <1>3, <1>4 DEF DomainInv
<1>16. \A t \in Sandboxes : row[t] # 0 => row'[t] = row[t] /\ HostIP(t)' = HostIP(t)
  BY <1>2 DEF HostIP
<1>17. RequestInv'
  BY <1>1, <1>3, <1>16 DEF RequestInv
<1>18. Appending' \subseteq Appending
  BY <1>3, <1>4, <1>5 DEF Appending, Doing
<1> QED  BY <1>2, <1>3, <1>12, <1>14, <1>15, <1>17, <1>18, HandlerKeeps

\* Steps of a handler that keep the slots, the host's links and the requests.
LEMMA TurnKeeps ==
  ASSUME NetworkInv, NEW s \in Sandboxes, UNCHANGED <<cidrs, held, row, links, request, undone>>,
         BusyInv(s)', PreparedInv(s)', AddressInv(s)', RouteInv(s)', Doing(s)' # "masquerade" \/ s \in cancelled',
         DOMAIN todo' = Sandboxes, up' \subseteq Sandboxes, cancelled' \subseteq Sandboxes,
         \A t \in Sandboxes \ {s} :
           todo'[t] = todo[t] /\ (t \in up' <=> t \in up) /\ (t \in cancelled' <=> t \in cancelled)
  PROVE  NetworkInv'
<1>1. DomainInv /\ HostInv /\ RequestInv
  BY DEF NetworkInv
<1>2. /\ host' = host /\ veth' = veth /\ held' = held /\ row' = row /\ net' = net /\ routes' = routes
      /\ masquerade' = masquerade /\ request' = request /\ undone' = undone
  BY DEF cidrs, links
<1>3. SandboxInv(s)'
  BY DEF SandboxInv
<1>4. \A t \in Sandboxes : row[t] # 0 => row[t] \in held
  BY DEF NetworkInv, SandboxInv, BusyInv
<1>5. Elsewhere(s)
  BY <1>2, <1>4 DEF Elsewhere
<1>6. DomainInv'
  BY <1>1, <1>2 DEF DomainInv
<1>7. TypeOK'
  BY <1>1, <1>2 DEF HostInv, TypeOK, IsCIDR
<1>8. \A t : HostIP(t)' = HostIP(t)
  BY <1>2 DEF HostIP
<1>9. RequestInv'
  BY <1>1, <1>2, <1>8 DEF RequestInv
<1>10. Appending' \subseteq Appending
  BY DEF Appending, Doing
<1>11. \A t, u \in Sandboxes : t # u /\ row'[t] = row'[u] => row'[t] = 0
  BY <1>1, <1>2 DEF HostInv
<1> QED  BY <1>2, <1>3, <1>5, <1>6, <1>7, <1>9, <1>10, <1>11, HandlerKeeps

\* A handler begins the Cleanup of a sandbox that is up.
LEMMA StopKeeps ==
  ASSUME NetworkInv, NEW s \in Sandboxes, Stop(s)
  PROVE  NetworkInv'
<1>1. SandboxInv(s) /\ DomainInv
  BY DEF NetworkInv
<1>2. /\ host' = host /\ veth' = veth /\ held' = held /\ row' = row /\ net' = net /\ routes' = routes
      /\ undone' = undone /\ s \in up /\ up' = up \ {s} /\ cancelled' = cancelled \ {s}
      /\ todo' = [todo EXCEPT ![s] = CleanupSteps]
  BY DEF Stop, cidrs, links
<1>3. /\ todo'[s] = CleanupSteps /\ DOMAIN todo' = Sandboxes
      /\ \A t \in Sandboxes \ {s} : todo'[t] = todo[t]
  BY <1>1, <1>2 DEF DomainInv
<1>4. todo'[s] \in Commands /\ Doing(s)' = "unmasquerade"
  BY <1>3, Beginnings DEF Doing
<1>5. /\ HostIP(s)' = HostIP(s) /\ RoutesTo(s)' = RoutesTo(s)
      /\ StrayAddress' = StrayAddress /\ StrayRoute' = StrayRoute
  BY <1>2 DEF HostIP, RoutesTo, StrayAddress, StrayRoute
<1>6. BusyInv(s)'
  BY <1>1, <1>2, <1>4 DEF SandboxInv, BusyInv
<1>7. PreparedInv(s)'
  BY <1>2, <1>4 DEF PreparedInv, Past, Joined, Addressed, Gatewayed, Routed, Natted
<1>8. AddressInv(s)' /\ RouteInv(s)'
  BY <1>1, <1>2, <1>4, <1>5 DEF SandboxInv, AddressInv, RouteInv
<1>9. up' \subseteq Sandboxes /\ cancelled' \subseteq Sandboxes
  BY <1>1, <1>2 DEF DomainInv
<1>10. UNCHANGED <<cidrs, held, row, links, request, undone>>
  BY DEF Stop
<1> QED  BY <1>2, <1>3, <1>4, <1>6, <1>7, <1>8, <1>9, <1>10, TurnKeeps

\* A request's context ends.
LEMMA CancelKeeps ==
  ASSUME NetworkInv, NEW s \in Sandboxes, Cancel(s)
  PROVE  NetworkInv'
<1>1. SandboxInv(s) /\ DomainInv
  BY DEF NetworkInv
<1>2. /\ host' = host /\ veth' = veth /\ held' = held /\ row' = row /\ net' = net /\ routes' = routes
      /\ undone' = undone /\ up' = up /\ cancelled' = cancelled \cup {s} /\ todo' = todo
  BY DEF Cancel, cidrs, links
<1>3. /\ HostIP(s)' = HostIP(s) /\ Pair(s)' = Pair(s) /\ RouteOf(s)' = RouteOf(s) /\ Doing(s)' = Doing(s)
      /\ RoutesTo(s)' = RoutesTo(s) /\ StrayAddress' = StrayAddress /\ StrayRoute' = StrayRoute
      /\ \A S : Past(s, S)' <=> Past(s, S)
  BY <1>2 DEF HostIP, Pair, RouteOf, RoutesTo, StrayAddress, StrayRoute, Doing, Past
<1>4. BusyInv(s)'
  BY <1>1, <1>2, <1>3 DEF SandboxInv, BusyInv
<1>5. PreparedInv(s)'
  BY <1>1, <1>2, <1>3 DEF SandboxInv, PreparedInv
<1>6. AddressInv(s)' /\ RouteInv(s)'
  BY <1>1, <1>2, <1>3 DEF SandboxInv, AddressInv, RouteInv
<1>7. up' \subseteq Sandboxes /\ cancelled' \subseteq Sandboxes /\ DOMAIN todo' = Sandboxes
  BY <1>1, <1>2 DEF DomainInv
<1>8. UNCHANGED <<cidrs, held, row, links, request, undone>>
  BY DEF Cancel
<1> QED  BY <1>2, <1>4, <1>5, <1>6, <1>7, <1>8, TurnKeeps

\* Prepare has succeeded.
LEMMA ReadyKeeps ==
  ASSUME NetworkInv, NEW s \in Sandboxes, Ready(s)
  PROVE  NetworkInv'
<1>1. SandboxInv(s) /\ DomainInv
  BY DEF NetworkInv
<1>2. /\ host' = host /\ veth' = veth /\ held' = held /\ row' = row /\ net' = net /\ routes' = routes
      /\ undone' = undone /\ up' = up \cup {s} /\ cancelled' = cancelled
  BY DEF Ready, cidrs, links
<1>3. /\ Doing(s) = "ready" /\ row[s] # 0 /\ s \notin up /\ todo'[s] \in Commands /\ Doing(s)' = "idle"
      /\ DOMAIN todo' = Sandboxes /\ \A t \in Sandboxes \ {s} : todo'[t] = todo[t]
  BY Moves DEF Ready
<1>4. /\ HostIP(s)' = HostIP(s) /\ Pair(s)' = Pair(s) /\ RouteOf(s)' = RouteOf(s)
      /\ RoutesTo(s)' = RoutesTo(s) /\ StrayAddress' = StrayAddress /\ StrayRoute' = StrayRoute
  BY <1>2 DEF HostIP, Pair, RouteOf, RoutesTo, StrayAddress, StrayRoute
<1>5. BusyInv(s)'
  BY <1>1, <1>2, <1>3 DEF SandboxInv, BusyInv
<1>6. PreparedInv(s)'
  BY <1>1, <1>2, <1>3, <1>4 DEF SandboxInv, PreparedInv, Past, Joined, Addressed, Gatewayed, Routed, Natted
<1>7. AddressInv(s)' /\ RouteInv(s)'
  BY <1>1, <1>2, <1>3, <1>4 DEF SandboxInv, AddressInv, RouteInv
<1>8. up' \subseteq Sandboxes /\ cancelled' \subseteq Sandboxes
  BY <1>1, <1>2 DEF DomainInv
<1>9. UNCHANGED <<cidrs, held, row, links, request, undone>>
  BY DEF Ready
<1> QED  BY <1>2, <1>3, <1>5, <1>6, <1>7, <1>8, <1>9, TurnKeeps

\* A slot is given back only when nothing of the sandbox is at its address, or the
\* commands that remove what is there have all failed.
LEMMA ReleaseSlotKeeps ==
  ASSUME NetworkInv, NEW s \in Sandboxes, ReleaseSlot(s)
  PROVE  NetworkInv'
<1>1. SandboxInv(s) /\ DomainInv /\ HostInv /\ RequestInv
  BY DEF NetworkInv
<1>2. /\ host' = host /\ veth' = veth /\ net' = net /\ routes' = routes /\ masquerade' = masquerade
      /\ undone' = undone /\ up' = up /\ cancelled' = cancelled
  BY DEF ReleaseSlot, cidrs, links
<1>3. /\ Doing(s) = "release" /\ row[s] # 0 /\ s \notin up /\ todo'[s] \in Commands /\ Doing(s)' = "idle"
      /\ DOMAIN todo' = Sandboxes /\ \A t \in Sandboxes \ {s} : todo'[t] = todo[t]
  BY Moves DEF ReleaseSlot
<1>4. RoutesTo(s)' = RoutesTo(s) /\ StrayAddress' = StrayAddress /\ StrayRoute' = StrayRoute
  BY <1>2 DEF RoutesTo, StrayAddress, StrayRoute
<1>5. PreparedInv(s)'
  BY <1>2, <1>3 DEF PreparedInv, Past, Joined, Addressed, Gatewayed, Routed, Natted
<1>6. CASE s \in cancelled
  <2>1. held' = held /\ row' = row /\ request' = request
    BY <1>6 DEF ReleaseSlot
  <2>2. HostIP(s)' = HostIP(s)
    BY <1>2, <2>1 DEF HostIP
  <2>3. BusyInv(s)'
    BY <1>1, <1>2, <1>3, <2>1 DEF SandboxInv, BusyInv
  <2>4. AddressInv(s)' /\ RouteInv(s)'
    BY <1>1, <1>2, <1>3, <1>4, <2>1, <2>2 DEF SandboxInv, AddressInv, RouteInv
  <2>5. up' \subseteq Sandboxes /\ cancelled' \subseteq Sandboxes
    BY <1>1, <1>2 DEF DomainInv
  <2>6. UNCHANGED <<cidrs, held, row, links, request, undone>>
    BY <1>2, <2>1 DEF cidrs, links
  <2> QED  BY <1>2, <1>3, <1>5, <2>3, <2>4, <2>5, <2>6, TurnKeeps
<1>7. CASE s \notin cancelled
  <2>1. /\ row' = [row EXCEPT ![s] = 0] /\ held' = held \ {row[s]}
        /\ request' = [r \in Requests |-> [request[r] EXCEPT !.stale = @ \/ request[r].of = s]]
    BY <1>7 DEF ReleaseSlot
  <2>2. row'[s] = 0 /\ DOMAIN row' = Sandboxes /\ \A t \in Sandboxes \ {s} : row'[t] = row[t]
    BY <1>1, <2>1 DEF DomainInv
  <2>3. BusyInv(s)'
    BY <1>1, <1>2, <1>3, <2>2 DEF SandboxInv, BusyInv
  <2>4. AddressInv(s)' /\ RouteInv(s)'
    BY <1>1, <1>2, <1>3, <1>4, <1>7, <2>2 DEF SandboxInv, AddressInv, RouteInv
  <2>5. SandboxInv(s)'
    BY <1>5, <2>3, <2>4 DEF SandboxInv
  <2>6. \A t \in Sandboxes \ {s} : row[t] # 0 => row[t] \in held'
    BY <1>1, <1>3, <2>1 DEF NetworkInv, HostInv, SandboxInv, BusyInv
  <2>7. Elsewhere(s)
    BY <1>2, <1>3, <2>2, <2>6 DEF Elsewhere
  <2>8. TypeOK'
    BY <1>1, <1>2, <2>1 DEF HostInv, TypeOK, IsCIDR
  <2>9. \A r \in Requests : /\ DOMAIN request'[r] = {"of", "ip", "at", "stale"}
                            /\ request'[r].of = request[r].of /\ request'[r].ip = request[r].ip
                            /\ ~request'[r].stale => ~request[r].stale /\ request[r].of # s
    BY <1>1, <2>1 DEF DomainInv
  <2>10. DomainInv'
    BY <1>1, <1>2, <1>3, <2>1, <2>2, <2>9 DEF DomainInv
  <2>11. \A t \in Sandboxes \ {s} : HostIP(t)' = HostIP(t)
    BY <1>2, <2>2 DEF HostIP
  <2>12. RequestInv'
    BY <1>1, <2>2, <2>9, <2>11 DEF RequestInv
  <2>13. Appending' \subseteq Appending
    BY <1>2, <1>3 DEF Appending, Doing
  <2>14. \A t, u \in Sandboxes : t # u /\ row'[t] = row'[u] => row'[t] = 0
    BY <1>1, <2>2 DEF HostInv
  <2> QED  BY <1>2, <2>5, <2>7, <2>8, <2>10, <2>12, <2>13, <2>14, HandlerKeeps
<1> QED  BY <1>6, <1>7

\* All that the invariants of the sandboxes and the host speak of.
Unmoved == UNCHANGED <<host, veth, held, row, todo, up, cancelled, net, routes, masquerade, undone>>

\* They hold still when none of it changes.
LEMMA UnmovedKeeps ==
  ASSUME NetworkInv, Unmoved
  PROVE  HostInv' /\ (\A s \in Sandboxes : SandboxInv(s)') /\ \A s : HostIP(s)' = HostIP(s)
<1>1. HostInv /\ \A s \in Sandboxes : SandboxInv(s)
  BY DEF NetworkInv
<1>2. /\ host' = host /\ veth' = veth /\ held' = held /\ row' = row /\ todo' = todo /\ up' = up
      /\ cancelled' = cancelled /\ net' = net /\ routes' = routes /\ masquerade' = masquerade
      /\ undone' = undone
  BY DEF Unmoved
<1>3. \A s : HostIP(s)' = HostIP(s)
  BY <1>2 DEF HostIP
<1>4. Appending' = Appending /\ TypeOK'
  BY <1>1, <1>2 DEF HostInv, Appending, Doing, TypeOK, IsCIDR
<1>5. HostInv'
  BY <1>1, <1>2, <1>4 DEF HostInv
<1>6. StrayAddress' = StrayAddress /\ StrayRoute' = StrayRoute
  BY <1>2 DEF StrayAddress, StrayRoute
<1>7. ASSUME NEW s \in Sandboxes PROVE SandboxInv(s)'
  <2>1. /\ Pair(s)' = Pair(s) /\ RouteOf(s)' = RouteOf(s) /\ Doing(s)' = Doing(s)
        /\ RoutesTo(s)' = RoutesTo(s) /\ \A S : Past(s, S)' <=> Past(s, S)
    BY <1>2, <1>3 DEF Pair, HostIP, RouteOf, RoutesTo, Doing, Past
  <2>2. BusyInv(s)'
    BY <1>1, <1>2, <2>1 DEF SandboxInv, BusyInv
  <2>3. PreparedInv(s)'
    BY <1>1, <1>2, <1>3, <1>6, <2>1 DEF SandboxInv, PreparedInv
  <2>4. AddressInv(s)' /\ RouteInv(s)'
    BY <1>1, <1>2, <1>3, <1>6, <2>1 DEF SandboxInv, AddressInv, RouteInv
  <2> QED  BY <2>2, <2>3, <2>4 DEF SandboxInv
<1> QED  BY <1>3, <1>5, <1>7

\* A request to boxproxy, or its end, touches nothing but the request; a new one has
\* the address of the sandbox it names.
LEMMA RequestKeeps ==
  ASSUME NetworkInv, NEW r \in Requests, Resolve(r) \/ Dial(r) \/ Finish(r)
  PROVE  NetworkInv'
<1>1. DomainInv /\ HostInv /\ RequestInv /\ \A s \in Sandboxes : SandboxInv(s)
  BY DEF NetworkInv
<1>2. /\ host' = host /\ veth' = veth /\ held' = held /\ row' = row /\ todo' = todo /\ up' = up
      /\ cancelled' = cancelled /\ net' = net /\ routes' = routes /\ masquerade' = masquerade
      /\ undone' = undone
  BY DEF Resolve, Dial, Finish, cidrs, links
<1>3. /\ DOMAIN request' = Requests /\ DOMAIN request'[r] = {"of", "ip", "at", "stale"}
      /\ \A q \in Requests \ {r} : request'[q] = request[q]
      /\ request'[r].of # Nobody /\ ~request'[r].stale =>
           /\ request'[r].of \in Sandboxes /\ row[request'[r].of] # 0
           /\ request'[r].ip = HostIP(request'[r].of)
  <2>1. CASE Resolve(r)
    <3>1. PICK s \in Sandboxes :
            /\ row[s] # 0
            /\ request' = [request EXCEPT ![r] = [of |-> s, ip |-> ProxyIP(row[s]), at |-> Nobody,
                                                  stale |-> FALSE]]
      BY <2>1 DEF Resolve
    <3>2. HostIP(s) = ProxyIP(row[s])
      BY <3>1, OwnAddresses
    <3> QED  BY <1>1, <3>1, <3>2 DEF DomainInv
  <2>2. CASE Dial(r)
    <3>1. PICK s \in Answering(request[r].ip) : request' = [request EXCEPT ![r].at = s]
      BY <2>2 DEF Dial
    <3>2. /\ DOMAIN request' = Requests /\ \A q \in Requests \ {r} : request'[q] = request[q]
          /\ DOMAIN request'[r] = DOMAIN request[r] /\ request'[r].of = request[r].of
          /\ request'[r].ip = request[r].ip /\ request'[r].stale = request[r].stale
      BY <1>1, <3>1 DEF DomainInv
    <3> QED  BY <1>1, <3>2 DEF DomainInv, RequestInv
  <2>3. CASE Finish(r)
    <3>1. request' = [request EXCEPT ![r] = [of |-> Nobody, ip |-> NoIP, at |-> Nobody, stale |-> FALSE]]
      BY <2>3 DEF Finish
    <3> QED  BY <1>1, <3>1 DEF DomainInv
  <2> QED  BY <2>1, <2>2, <2>3
<1>4. DomainInv'
  BY <1>1, <1>2, <1>3 DEF DomainInv
<1>5. Unmoved
  BY <1>2 DEF Unmoved
<1>6. HostInv' /\ (\A s \in Sandboxes : SandboxInv(s)') /\ \A s : HostIP(s)' = HostIP(s)
  BY <1>5, UnmovedKeeps
<1>7. RequestInv'
  BY <1>1, <1>2, <1>3, <1>6 DEF RequestInv
<1> QED  BY <1>4, <1>6, <1>7 DEF NetworkInv

-----------------------------------------------------------------------------
(* The theorems.                                                            *)

\* No sandbox has anything on the host in the beginning.
LEMMA HostBegins == TypeOK /\ HostInit => NetworkInv
<1> SUFFICES ASSUME TypeOK, HostInit PROVE NetworkInv
  OBVIOUS
<1>1. /\ row = [s \in Sandboxes |-> 0] /\ todo = [s \in Sandboxes |-> << >>]
      /\ up = {} /\ cancelled = {}
      /\ net = [s \in Sandboxes |-> NoNet] /\ routes = {} /\ masquerade = 0
      /\ request = [r \in Requests |-> [of |-> Nobody, ip |-> NoIP, at |-> Nobody, stale |-> FALSE]]
      /\ undone = [s \in Sandboxes |-> {}]
  BY DEF HostInit
<1>2. DomainInv /\ RequestInv
  BY <1>1 DEF DomainInv, RequestInv
<1>3. \A s \in Sandboxes : Doing(s) = "idle"
  BY <1>1 DEF Doing, Kind
<1>4. Appending = {}
  BY <1>3 DEF Appending
<1>5. Cardinality(Appending) = 0 /\ Cardinality(Sandboxes) \in Nat
  BY <1>4, FS_EmptySet, FS_CardinalityType, HostNetworkAssumption
<1>6. HostInv
  BY <1>1, <1>5 DEF HostInv
<1>7. NetTyped(NoNet) /\ NoNet.snat = << >>
  BY DEF NetTyped, NoNet
<1>8. ASSUME NEW s \in Sandboxes PROVE SandboxInv(s)
  <2>1. << >> \in Commands
    BY Beginnings
  <2>2. BusyInv(s)
    BY <1>1, <1>3, <1>7, <2>1 DEF BusyInv
  <2>3. PreparedInv(s)
    BY <1>1, <1>3 DEF PreparedInv, Past, Joined, Addressed, Gatewayed, Routed, Natted
  <2>4. AddressInv(s) /\ RouteInv(s)
    BY <1>1, <1>3, <1>7 DEF AddressInv, RouteInv, RoutesTo
  <2> QED  BY <2>2, <2>3, <2>4 DEF SandboxInv
<1> QED  BY <1>2, <1>6, <1>8 DEF NetworkInv

\* The network of the host stays in order whatever handlers and requests do, and
\* whatever commands fail.
THEOREM HostSafe == HostSpec => []NetworkInv
<1>1. NetworkInv /\ [HostNext]_<<vars, hostVars>> => NetworkInv'
  <2> SUFFICES ASSUME NetworkInv, [HostNext]_<<vars, hostVars>> PROVE NetworkInv'
    OBVIOUS
  <2>1. ASSUME NEW s \in Sandboxes, HostStep(s) PROVE NetworkInv'
    <3>1. CASE Start(s) \/ Stop(s) \/ Cancel(s) \/ Ready(s) \/ ReleaseSlot(s)
      BY <3>1, StartKeeps, StopKeeps, CancelKeeps, ReadyKeeps, ReleaseSlotKeeps
    <3>2. CASE AddNamespace(s) \/ AddPair(s) \/ JoinPair(s) \/ SetAddresses(s) \/ SetGateway(s)
      BY <3>2, AddNamespaceKeeps, AddPairKeeps, JoinPairKeeps, SetAddressesKeeps, SetGatewayKeeps
    <3>3. CASE SetRoute(s) \/ SetInside(s) \/ EnsureNAT(s) \/ LookupRule(s) \/ AppendRule(s)
      BY <3>3, SetRouteKeeps, SetInsideKeeps, EnsureNATKeeps, LookupRuleKeeps, AppendRuleKeeps
    <3>4. CASE \/ Unlink(s) \/ RemoveRule(s) \/ RemoveNAT(s) \/ RemoveRoute(s) \/ RemoveLink(s)
               \/ RemoveNamespace(s)
      BY <3>4, AttemptKeeps, RemoveRuleKeeps
    <3> QED  BY <2>1, <3>1, <3>2, <3>3, <3>4 DEF HostStep
  <2>2. CASE UNCHANGED <<vars, hostVars>>
    <3>1. /\ host' = host /\ veth' = veth /\ held' = held /\ row' = row /\ todo' = todo /\ up' = up
          /\ cancelled' = cancelled /\ net' = net /\ routes' = routes /\ masquerade' = masquerade
          /\ undone' = undone /\ request' = request
      BY <2>2 DEF vars, hostVars, links
    <3>2. HostInv' /\ (\A s \in Sandboxes : SandboxInv(s)') /\ \A s : HostIP(s)' = HostIP(s)
      BY <3>1, UnmovedKeeps DEF Unmoved
    <3>3. DomainInv' /\ RequestInv'
      BY <3>1, <3>2 DEF NetworkInv, DomainInv, RequestInv
    <3> QED  BY <3>2, <3>3 DEF NetworkInv
  <2>3. CASE \E r \in Requests : Resolve(r) \/ Dial(r) \/ Finish(r)
    BY <2>3, RequestKeeps
  <2> QED  BY <2>1, <2>2, <2>3 DEF HostNext
<1> QED  BY <1>1, HostBegins, PTL DEF HostSpec

\* The types of the slots, the networks and the host's network, and the bound on the
\* copies of the host's rules: a copy for each sandbox (ensureHostIPTablesRule).
THEOREM HostTypes == HostSpec => []HostTypeOK
<1>1. NetworkInv => HostTypeOK
  <2> SUFFICES ASSUME NetworkInv PROVE HostTypeOK
    OBVIOUS
  <2>1. DomainInv /\ HostInv /\ \A s \in Sandboxes : BusyInv(s)
    BY DEF NetworkInv, SandboxInv
  <2>2. Appending \subseteq Sandboxes
    BY DEF Appending
  <2>3. Cardinality(Appending) \in Nat /\ Cardinality(Sandboxes) \in Nat
    BY <2>2, FS_Subset, FS_CardinalityType, HostNetworkAssumption
  <2>4. masquerade \in 0..Cardinality(Sandboxes)
    BY <2>1, <2>3 DEF HostInv
  <2> QED  BY <2>1, <2>4 DEF HostTypeOK, HostInv, DomainInv, BusyInv, NetTyped, Routes
<1> QED  BY <1>1, HostSafe, PTL

\* A sandbox that is up answers to its host_access_ip, and it alone.
THEOREM SandboxesAreReachable == HostSpec => []SandboxReachable
<1>1. NetworkInv => SandboxReachable
  <2> SUFFICES ASSUME NetworkInv, NEW s \in up
               PROVE  /\ Answering(HostIP(s)) = {s} /\ net[s].gateway = net[s].host
                      /\ s \notin StrayAddress => Head(net[s].snat) = HostIP(s)
    BY DEF SandboxReachable
  <2>1. s \in Sandboxes
    BY DEF NetworkInv, DomainInv
  <2>2. SandboxInv(s) /\ HostInv
    BY <2>1 DEF NetworkInv
  <2>3. \A S : Past(s, S)
    BY DEF Past
  <2>4. /\ net[s].pair = "joined" /\ net[s].host = Pair(s).hostIP /\ net[s].peer = Pair(s).peerIP
        /\ net[s].gateway = Pair(s).hostIP /\ RouteOf(s) \in routes /\ HostIP(s) \in net[s].dnat
        /\ s \notin StrayAddress => net[s].snat = <<HostIP(s)>>
    BY <2>2, <2>3 DEF SandboxInv, PreparedInv
  <2>5. row[s] # 0
    BY <2>2 DEF SandboxInv, BusyInv
  <2>6. Pair(s).hostIP \div 2 = Pair(s).peerIP \div 2
    BY <2>1, <2>5, OwnAddresses
  <2>7. s \in Answering(HostIP(s))
    BY <2>1, <2>4, <2>6 DEF Answering, RouteOf
  <2>8. ASSUME NEW t \in Answering(HostIP(s)) PROVE t = s
    <3>1. PICK r \in routes : r.dst = HostIP(s) /\ r.dev = t
      BY <2>8 DEF Answering
    <3>2. r = RouteOf(s)
      BY <2>2, <2>4, <3>1 DEF HostInv, RouteOf
    <3> QED  BY <3>1, <3>2 DEF RouteOf
  <2> QED  BY <2>4, <2>7, <2>8
<1> QED  BY <1>1, HostSafe, PTL

\* boxproxy puts a request through to the sandbox it names, or to none, as long as
\* that sandbox keeps its slot, unless to one whose route no command of Cleanup removed.
THEOREM ProxyFindsOwner == HostSpec => ProxyReachesOwner
<1> DEFINE Owned == \A r \in Requests :
                      request[r].of # Nobody /\ ~request[r].stale =>
                        request'[r].at \in {request[r].at, request[r].of, Nobody} \cup StrayRoute
<1>1. ASSUME NetworkInv, [HostNext]_<<vars, hostVars>> PROVE [Owned]_request
  <2>1. DomainInv /\ HostInv /\ RequestInv /\ \A s \in Sandboxes : SandboxInv(s)
    BY <1>1 DEF NetworkInv
  <2>2. ASSUME NEW s \in Sandboxes, HostStep(s), request' # request PROVE Owned
    <3>1. ReleaseSlot(s)
      BY <2>2 DEF HostStep, Start, Stop, Cancel, Ready, AddNamespace, Unlink, AddPair, JoinPair,
             SetAddresses, SetGateway, SetRoute, SetInside, EnsureNAT, LookupRule, AppendRule,
             RemoveRule, RemoveNAT, RemoveRoute, RemoveLink, RemoveNamespace, Command, Attempt, Kept
    <3>2. request' = [r \in Requests |-> [request[r] EXCEPT !.stale = @ \/ request[r].of = s]]
      BY <2>2, <3>1 DEF ReleaseSlot
    <3>3. \A r \in Requests : request'[r].at = request[r].at
      BY <2>1, <3>2 DEF DomainInv
    <3> QED  BY <3>3
  <2>3. ASSUME NEW q \in Requests, Resolve(q) \/ Dial(q) \/ Finish(q) PROVE Owned
    <3>1. CASE Resolve(q) \/ Finish(q)
      <4>1. /\ \A r \in Requests \ {q} : request'[r] = request[r]
            /\ request'[q].at = Nobody
        BY <2>1, <3>1 DEF DomainInv, Resolve, Finish
      <4> QED  BY <4>1
    <3>2. CASE Dial(q)
      <4>1. PICK t \in Answering(request[q].ip) : request' = [request EXCEPT ![q].at = t]
        BY <3>2 DEF Dial
      <4>2. request'[q].at = t /\ \A r \in Requests \ {q} : request'[r] = request[r]
        BY <2>1, <4>1 DEF DomainInv
      <4>3. ASSUME request[q].of # Nobody, ~request[q].stale, t \notin StrayRoute
            PROVE  t = request[q].of
        <5>1. request[q].of \in Sandboxes /\ row[request[q].of] # 0 /\ request[q].ip = HostIP(request[q].of)
          BY <2>1, <4>3 DEF RequestInv
        <5>2. t \in Sandboxes /\ \E r \in RoutesTo(t) : r.dst = request[q].ip
          BY <4>1 DEF Answering, RoutesTo
        <5>3. row[t] # 0 /\ HostIP(t) = request[q].ip
          BY <2>1, <4>3, <5>2 DEF SandboxInv, RouteInv
        <5> QED  BY <1>1, <5>1, <5>2, <5>3, OwnAddresses
      <4> QED  BY <4>2, <4>3
    <3> QED  BY <2>3, <3>1, <3>2
  <2>4. CASE UNCHANGED <<vars, hostVars>>
    BY <2>4 DEF hostVars
  <2> QED  BY <1>1, <2>2, <2>3, <2>4 DEF HostNext
<1> QED  BY <1>1, HostSafe, PTL DEF HostSpec, ProxyReachesOwner

=============================================================================
