----------------------------- MODULE HostNetwork -----------------------------
(***************************************************************************)
(* The network of a host while sandboxes come and go: the commands that    *)
(* sandboxNetworkManager's Prepare and Cleanup run (network.go), for       *)
(* several sandboxes at a time, any of them failing, and boxproxy, which   *)
(* looks a sandbox's slot up and then dials it (boxproxy/server.go).       *)
(* Slots and addresses are those of NetworkSlots.                          *)
(*                                                                         *)
(* A sandbox holds its slot from before its Prepare until after its        *)
(* Cleanup, as the handlers that create, resume, start, pause and stop     *)
(* sandboxes do; KillSandbox, which gives the slot up first, is in         *)
(* SandboxService.                                                         *)
(***************************************************************************)
EXTENDS NetworkSlots, SequencesExt

CONSTANTS
  VMs, Containers,            \* sandboxes, by runtime
  Nobody,
  Requests,                   \* requests to boxproxy
  MaxStarts,                  \* bound: sandboxes prepared
  MaxFailures                 \* bound: commands that fail, requests cancelled

Sandboxes == VMs \cup Containers

ASSUME HostNetworkAssumption ==
  /\ VMs \cap Containers = {} /\ Nobody \notin Sandboxes /\ IsFiniteSet(Sandboxes)
  /\ MaxStarts \in Nat /\ MaxFailures \in Nat

VARIABLES
  row,                        \* sandbox -> the slot in its row, 0 for none
  todo,                       \* sandbox -> the commands its handler has still to run
  up,                         \* sandboxes whose Prepare has succeeded
  cancelled,                  \* sandboxes whose handler's context is over
  net,                        \* sandbox -> its namespace and veth pair
  routes,                     \* the host's routes [dst, via, dev]
  masquerade,                 \* how often the host's rules for outgoing traffic are there
  request,                    \* boxproxy's requests
  undone,                     \* history: sandbox -> the ignored commands that have failed since its
                              \* namespace was last deleted; it guards no action
  starts, failures

links    == <<net, routes, masquerade>>
hostVars == <<row, todo, up, cancelled, links, request, undone, starts, failures>>
cidrs    == <<host, veth>>

\* pair: "none", "apart" while both ends are on the host, "joined"; the addresses of
\* its ends; the address of the default route; the host_access_ips answered by DNAT
\* rules, by an address; and the addresses its SNAT rules give to what is sent.
NoNet == [ns |-> FALSE, pair |-> "none", host |-> NoIP, peer |-> NoIP, gateway |-> NoIP,
          dnat |-> {}, addr |-> {}, snat |-> << >>]

PrepareSteps == <<"netns", "unlink", "pair", "join", "addresses", "gateway", "route", "inside", "nat",
                  "lookup", "masquerade", "ready">>

\* Slip: the slot is given back first, and what follows no longer knows it.
CleanupAfterRelease == <<"release", "unmasquerade", "unnat", "unroute", "rmlink", "rmns">>

\* releaseSandboxNetwork.
CleanupSteps == <<"unmasquerade", "unnat", "unroute", "rmlink", "rmns", "release">>

\* The commands that remove what a slot gave a sandbox.
RemovalSteps == {"unnat", "unroute", "rmlink", "rmns"}

HostInit ==
  /\ row = [s \in Sandboxes |-> 0] /\ todo = [s \in Sandboxes |-> << >>]
  /\ up = {} /\ cancelled = {}
  /\ net = [s \in Sandboxes |-> NoNet] /\ routes = {} /\ masquerade = 0
  /\ request = [r \in Requests |-> [of |-> Nobody, ip |-> NoIP, at |-> Nobody, stale |-> FALSE]]
  /\ undone = [s \in Sandboxes |-> {}]
  /\ starts = 0 /\ failures = 0

At(s, step) == todo[s] # << >> /\ Head(todo[s]) = step
Done(s)     == todo' = [todo EXCEPT ![s] = Tail(@)]
GivesUp(s)  == todo' = [todo EXCEPT ![s] = CleanupSteps]
Fault       == failures < MaxFailures /\ failures' = failures + 1
Works       == failures' = failures
HostIP(s)   == IndexedIP(host, row[s])
\* Prepare finds the slot again from the address in the runtime's specification.
Pair(s)     == VethAddrs(veth, SlotFromIP(host, HostIP(s)))
Kept(s)     == UNCHANGED <<cidrs, held, row, up, cancelled, request, starts>>

-----------------------------------------------------------------------------
(* Handlers.                                                                *)

\* AssignSandboxNetworkSlot returns the slot a sandbox has still.
Start(s) ==
  /\ todo[s] = << >> /\ s \notin up /\ starts < MaxStarts
  /\ \/ row[s] # 0 /\ UNCHANGED <<cidrs, held, row>>
     \/ row[s] = 0 /\ Assign /\ row' = [row EXCEPT ![s] = CHOOSE n \in held' : n \notin held]
  /\ todo' = [todo EXCEPT ![s] = PrepareSteps]
  /\ starts' = starts + 1 /\ cancelled' = cancelled \ {s}
  /\ UNCHANGED <<up, links, request, undone, failures>>

Stop(s) ==
  /\ todo[s] = << >> /\ s \in up
  /\ todo' = [todo EXCEPT ![s] = CleanupSteps]
  /\ up' = up \ {s} /\ cancelled' = cancelled \ {s}
  /\ UNCHANGED <<cidrs, held, row, links, request, undone, starts, failures>>

Cancel(s) ==
  /\ todo[s] # << >> /\ s \notin cancelled /\ Fault
  /\ cancelled' = cancelled \cup {s}
  /\ UNCHANGED <<cidrs, held, row, todo, up, links, request, undone, starts>>

Ready(s) ==
  /\ At(s, "ready") /\ Done(s)
  /\ up' = up \cup {s}
  /\ UNCHANGED <<cidrs, held, row, cancelled, links, request, undone, starts, failures>>

\* ReleaseSandboxNetworkSlot, which a context that is over stops.
ReleaseSlot(s) ==
  /\ At(s, "release") /\ Done(s)
  /\ IF s \in cancelled THEN UNCHANGED <<row, held, request>>
     ELSE /\ row' = [row EXCEPT ![s] = 0]
          /\ held' = held \ {row[s]}
          /\ request' = [r \in Requests |-> [request[r] EXCEPT !.stale = @ \/ request[r].of = s]]
  /\ UNCHANGED <<cidrs, up, cancelled, links, undone, starts, failures>>

-----------------------------------------------------------------------------
(* Commands.  Deleting a link deletes the routes and addresses on it, and   *)
(* deleting a namespace the links in it.                                    *)

\* A command that must work: when it fails the handler cleans up.
Command(s, step, can, effect) ==
  /\ At(s, step)
  /\ \/ s \notin cancelled /\ can /\ effect /\ Done(s) /\ Works
     \/ (s \in cancelled \/ ~can) /\ GivesUp(s) /\ Works /\ UNCHANGED links
     \/ Fault /\ GivesUp(s) /\ UNCHANGED links
  /\ Kept(s) /\ UNCHANGED undone

\* A command whose failure is ignored.
Attempt(s, step, effect) ==
  /\ At(s, step) /\ Done(s)
  /\ \/ /\ s \notin cancelled /\ effect /\ Works
        /\ undone' = IF step = "rmns" THEN [undone EXCEPT ![s] = {}] ELSE undone
     \/ s \in cancelled /\ UNCHANGED <<links, undone>> /\ Works
     \/ Fault /\ UNCHANGED links /\ undone' = [undone EXCEPT ![s] = @ \cup ({step} \cap RemovalSteps)]
  /\ Kept(s)

NetIs(s, n) == net' = [net EXCEPT ![s] = n] /\ UNCHANGED <<routes, masquerade>>
Unlinked(s) ==
  /\ net' = [net EXCEPT ![s] = [@ EXCEPT !.pair = "none", !.host = NoIP, !.peer = NoIP,
                                         !.gateway = NoIP, !.addr = {}]]
  /\ routes' = {r \in routes : r.dev # s}
  /\ UNCHANGED masquerade

AddNamespace(s) == Command(s, "netns", TRUE, NetIs(s, [net[s] EXCEPT !.ns = TRUE]))
Unlink(s)       == Attempt(s, "unlink", Unlinked(s))
AddPair(s)      == Command(s, "pair", net[s].pair = "none", NetIs(s, [net[s] EXCEPT !.pair = "apart"]))
JoinPair(s)     == Command(s, "join", TRUE, NetIs(s, [net[s] EXCEPT !.pair = "joined"]))
SetAddresses(s) == Command(s, "addresses", Pair(s).hostIP # NoIP /\ Pair(s).peerIP # NoIP,
                           NetIs(s, [net[s] EXCEPT !.host = Pair(s).hostIP, !.peer = Pair(s).peerIP]))
SetGateway(s)   == Command(s, "gateway", TRUE, NetIs(s, [net[s] EXCEPT !.gateway = Pair(s).hostIP]))

\* ip route replace <host_access_ip>/32 via <peer> dev <host veth>.
SetRoute(s) ==
  Command(s, "route", HostIP(s) # NoIP,
    /\ routes' = {r \in routes : r.dst # HostIP(s)}
                 \cup {[dst |-> HostIP(s), via |-> Pair(s).peerIP, dev |-> s]}
    /\ UNCHANGED <<net, masquerade>>)

\* The tap of a VM; the host_access_ip on a container's end of the pair.
SetInside(s) ==
  Command(s, "inside", TRUE,
    NetIs(s, IF s \in VMs THEN net[s] ELSE [net[s] EXCEPT !.addr = @ \cup {HostIP(s)}]))

\* ensureNAT appends each rule that is not there.
EnsureNAT(s) ==
  Command(s, "nat", TRUE,
    NetIs(s, [net[s] EXCEPT
      !.dnat = @ \cup {HostIP(s)},
      !.snat = IF \E i \in DOMAIN @ : @[i] = HostIP(s) THEN @ ELSE Append(@, HostIP(s))]))

\* ensureHostIPTablesRule, for each of its rules: a check, then an append.
LookupRule(s) ==
  /\ At(s, "lookup")
  /\ IF masquerade > 0 /\ s \notin cancelled
     THEN todo' = [todo EXCEPT ![s] = Tail(Tail(@))]
     ELSE Done(s)
  /\ Works /\ UNCHANGED <<links, undone>> /\ Kept(s)
AppendRule(s) == Command(s, "masquerade", TRUE, masquerade' = masquerade + 1 /\ UNCHANGED <<net, routes>>)

\* removeHostInternetNAT deletes one copy of the rules all sandboxes use.
RemoveRule(s) ==
  Attempt(s, "unmasquerade",
    masquerade' = (IF masquerade = 0 THEN 0 ELSE masquerade - 1) /\ UNCHANGED <<net, routes>>)

\* removeNAT: iptables -D deletes the first rule that matches.
RemoveNAT(s) ==
  Attempt(s, "unnat",
    NetIs(s, [net[s] EXCEPT !.dnat = @ \ {HostIP(s)},
                            !.snat = RemoveFirst(@, HostIP(s))]))

\* ip route del <host_access_ip>/32, whoever's route it is.
RemoveRoute(s) ==
  Attempt(s, "unroute", routes' = {r \in routes : r.dst # HostIP(s)} /\ UNCHANGED <<net, masquerade>>)

RemoveLink(s) == Attempt(s, "rmlink", Unlinked(s))
RemoveNamespace(s) ==
  Attempt(s, "rmns",
    /\ net' = [net EXCEPT ![s] = IF net[s].pair = "apart" THEN [NoNet EXCEPT !.pair = "apart"] ELSE NoNet]
    /\ routes' = {r \in routes : r.dev # s \/ net[s].pair = "apart"}
    /\ UNCHANGED masquerade)

-----------------------------------------------------------------------------
(* boxproxy.                                                                *)

\* Slip: boxproxy counts slots from the base address of the network.
ProxyIPFromBase(index) == IndexedIP(host, IF index > 1 THEN index - 1 ELSE index)

\* boxproxy has an indexedIP of its own.
ProxyIP(index) ==
  IF index = 0 \/ index >= TotalIPs(host) THEN NoIP ELSE (host.base + index) % WordSize

\* hostAccessIP: a sandbox without a slot is an error.
Resolve(r) ==
  /\ request[r].of = Nobody
  /\ \E s \in Sandboxes :
       /\ row[s] # 0
       /\ request' = [request EXCEPT ![r] = [of |-> s, ip |-> ProxyIP(row[s]), at |-> Nobody, stale |-> FALSE]]
  /\ UNCHANGED <<cidrs, held, row, todo, up, cancelled, links, undone, starts, failures>>

\* The sandbox a connection to ip ends in: that of the route's device, if the next
\* hop is at the other end of it and the namespace answers for ip.
Answering(ip) ==
  {s \in Sandboxes :
     /\ \E r \in routes : r.dst = ip /\ r.dev = s /\ r.via = net[s].peer
     /\ net[s].pair = "joined" /\ net[s].host \div 2 = net[s].peer \div 2
     /\ ip \in net[s].dnat \cup net[s].addr}

\* The websocket.Dial or the request of http.DefaultClient; the copying in both
\* directions that follows keeps to this connection.
Dial(r) ==
  /\ request[r].of # Nobody /\ request[r].at = Nobody
  /\ \E s \in Answering(request[r].ip) : request' = [request EXCEPT ![r].at = s]
  /\ UNCHANGED <<cidrs, held, row, todo, up, cancelled, links, undone, starts, failures>>

\* The connection ends, or could not be made.
Finish(r) ==
  /\ request[r].of # Nobody
  /\ request' = [request EXCEPT ![r] = [of |-> Nobody, ip |-> NoIP, at |-> Nobody, stale |-> FALSE]]
  /\ UNCHANGED <<cidrs, held, row, todo, up, cancelled, links, undone, starts, failures>>

HostStep(s) ==
  \/ Start(s) \/ Stop(s) \/ Cancel(s) \/ Ready(s) \/ ReleaseSlot(s)
  \/ AddNamespace(s) \/ Unlink(s) \/ AddPair(s) \/ JoinPair(s) \/ SetAddresses(s) \/ SetGateway(s)
  \/ SetRoute(s) \/ SetInside(s) \/ EnsureNAT(s) \/ LookupRule(s) \/ AppendRule(s)
  \/ RemoveRule(s) \/ RemoveNAT(s) \/ RemoveRoute(s) \/ RemoveLink(s) \/ RemoveNamespace(s)

HostNext == \/ \E s \in Sandboxes : HostStep(s)
            \/ \E r \in Requests : Resolve(r) \/ Dial(r) \/ Finish(r)

\* Any two networks, and any slots that other sandboxes hold already.
HostSpec == TypeOK /\ HostInit /\ [][HostNext]_<<vars, hostVars>>

-----------------------------------------------------------------------------
(* Properties.                                                              *)

IPs == 0..WordSize - 1

\* The types of the slots, the networks and the host's network.
HostTypeOK ==
  /\ TypeOK
  /\ \A s \in Sandboxes : row[s] \in held \cup {0}
  /\ up \subseteq Sandboxes /\ cancelled \subseteq Sandboxes
  /\ \A s \in Sandboxes : /\ net[s].pair \in {"none", "apart", "joined"}
                          /\ {net[s].host, net[s].peer, net[s].gateway} \subseteq IPs \cup {NoIP}
                          /\ net[s].dnat \cup net[s].addr \subseteq IPs
  /\ routes \subseteq [dst : IPs, via : IPs, dev : Sandboxes]
  /\ masquerade \in 0..Cardinality(Sandboxes)

\* The sandboxes to which a route may lead that is no longer theirs, and those whose
\* namespace may still have the address of a slot they have given back: every command
\* of Cleanup that would have removed it has failed, and Cleanup drops errors.
StrayRoute   == {s \in Sandboxes : {"unroute", "rmlink", "rmns"} \subseteq undone[s]}
StrayAddress == {s \in Sandboxes : {"unnat", "rmns"} \subseteq undone[s]}

\* Whatever other sandboxes start and stop meanwhile, and whatever an earlier
\* Cleanup of this or another one left undone, a sandbox that is up answers to its
\* host_access_ip, and it alone, and what it sends leaves through its own end of its
\* own pair and, but for StrayAddress, with its own address (Prepare, Cleanup).
SandboxReachable ==
  \A s \in up : /\ Answering(HostIP(s)) = {s}
                /\ net[s].gateway = net[s].host
                /\ s \notin StrayAddress => Head(net[s].snat) = HostIP(s)

\* A request is never put through to another sandbox than the one it names, as long as
\* that one keeps the slot that boxproxy found, unless to one of StrayRoute (hostAccessIP).
ProxyReachesOwner ==
  [][\A r \in Requests :
       request[r].of # Nobody /\ ~request[r].stale =>
         request'[r].at \in {request[r].at, request[r].of, Nobody} \cup StrayRoute]_request

=============================================================================
