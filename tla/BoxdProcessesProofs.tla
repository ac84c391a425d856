------------------------ MODULE BoxdProcessesProofs ------------------------
(****************************************************************************)
(* What boxd promises of its processes and their output, for any processes, *)
(* callers, buffer size and interleaving of their goroutines.               *)
(*                                                                          *)
(* First the output hubs, which are never misused (HubSound, from IInv);    *)
(* then the streams: each call gets its share of the output in order, no    *)
(* chunk vanishes, and an end comes last (from AgentInv, which adds to IInv *)
(* who waits for a process, what its ring holds and what a call relies on). *)
(****************************************************************************)
EXTENDS BoxdProcesses, SequenceTheorems, TLAPS

USE BufferAssumption

Chunk    == AllStreams \X Nat
Ring     == Seq(Chunk)
SubModes == {"start", "connect", "ws"}
Hub      == [closed : BOOLEAN, pending : Ring, subs : SUBSET Clients]
Reader   == [pc : {"ended", "reading", "publishing"}, chunk : Nat]
Conn     == [st : {"idle", "streaming", "closing", "waiting", "ended", "left"},
             mode : SubModes \cup {"none", "exec", "wait"}, proc : Procs \cup {"none"},
             buf : Ring, open : BOOLEAN, got : Ring, end : {"none", "nil", "exit"}]

\* What the pipes, readers and the table hold.
OutputTypes ==
  /\ said   \in [Procs -> Seq(Chunk)]
  /\ unread \in [Procs -> [AllStreams -> Seq(Chunk)]]
  /\ reader \in [Procs -> [AllStreams -> Reader]]
  /\ table \subseteq Procs

HubTypes == hub \in [Procs -> Hub] /\ conn \in [Clients -> Conn]

\* A connection that is idle has no mode, one that has a mode has a process, and
\* only the channel of a subscription that streams is open.
ConnInv ==
  \A c \in Clients :
    /\ conn[c].st = "idle" => conn[c].mode = "none"
    /\ conn[c].mode # "none" => conn[c].proc \in Procs
    /\ conn[c].open => conn[c].st = "streaming" /\ conn[c].mode \in SubModes

\* HubSound speaks of subscriptions; nothing else is subscribed.
SubsInv == \A p \in Procs : hub[p].subs \subseteq Subscriptions

HubInv == HubTypes /\ ConnInv /\ SubsInv /\ HubSound

-----------------------------------------------------------------------------
\* outputHub.publish: the replay ring keeps at most Buffer chunks.
LEMMA RememberBounded ==
  ASSUME NEW pending \in Seq(Chunk), NEW chunk \in Chunk, Len(pending) <= Buffer
  PROVE  Remember(pending, chunk) \in Seq(Chunk) /\ Len(Remember(pending, chunk)) <= Buffer
<1> DEFINE all == Append(pending, chunk)
<1>1. all \in Seq(Chunk) /\ Len(all) = Len(pending) + 1
  OBVIOUS
<1>2. CASE Len(all) <= Buffer
  BY <1>1, <1>2 DEF Remember
<1>3. CASE Len(all) > Buffer
  <2>1. Len(pending) \in Nat /\ Len(all) \in Nat
    BY <1>1
  <2>2. Len(all) - Buffer + 1 \in 1..Len(all)
    BY <1>1, <1>3, <2>1
  <2>3. SubSeq(all, Len(all) - Buffer + 1, Len(all)) \in Seq(Chunk)
    BY <1>1, <2>1, <2>2
  <2>4. Len(SubSeq(all, Len(all) - Buffer + 1, Len(all))) <= Buffer
    BY <1>1, <1>3, <2>1, <2>2
  <2> QED  BY <1>3, <2>3, <2>4 DEF Remember
<1> QED  BY <1>1, <1>2, <1>3

-----------------------------------------------------------------------------
\* Two updates of one entry of a function are the second one.
LEMMA UpdatedTwice ==
  ASSUME NEW f, NEW x \in DOMAIN f, NEW a, NEW b
  PROVE  [[f EXCEPT ![x] = a] EXCEPT ![x] = b] = [f EXCEPT ![x] = b]
OBVIOUS

\* A step that leaves the hubs alone and neither opens, closes nor moves a
\* subscription keeps what HubSound says.
LEMMA SubscriptionsKept ==
  ASSUME HubInv, HubTypes', ConnInv', UNCHANGED hub,
         Subscriptions' = Subscriptions,
         \A c \in Subscriptions : conn'[c].open = conn[c].open /\ conn'[c].proc = conn[c].proc
  PROVE  HubInv'
<1>1. SubsInv'
  BY DEF HubInv, SubsInv
<1>2. HubSound'
  BY DEF HubInv, HubSound
<1> QED  BY <1>1, <1>2 DEF HubInv

\* What subscribe changes: one hub gives its replay to one connection.
LEMMA Subscribed ==
  ASSUME HubTypes, NEW c \in Clients, NEW p \in Procs, NEW how \in SubModes, SubscribeTo(c, p, how)
  PROVE  /\ hub' \in [Procs -> Hub] /\ \A q \in Procs \ {p} : hub'[q] = hub[q]
         /\ hub'[p].closed = hub[p].closed /\ hub'[p].pending = << >>
         /\ hub'[p].subs = IF hub[p].closed THEN {} ELSE hub[p].subs \cup {c}
         /\ conn' \in [Clients -> Conn] /\ \A d \in Clients \ {c} : conn'[d] = conn[d]
         /\ conn'[c].st = "streaming" /\ conn'[c].mode = how /\ conn'[c].proc = p
         /\ conn'[c].open = ~hub[p].closed /\ conn'[c].buf = hub[p].pending /\ conn'[c].got = << >>
<1> DEFINE joined == IF hub[p].closed THEN {} ELSE hub[p].subs \cup {c}
<1>1. hub \in [Procs -> Hub] /\ hub[p] \in Hub /\ conn \in [Clients -> Conn] /\ << >> \in Ring
  BY DEF HubTypes, Ring
<1>2. /\ hub' \in [Procs -> Hub] /\ \A q \in Procs \ {p} : hub'[q] = hub[q]
      /\ hub'[p].closed = hub[p].closed /\ hub'[p].pending = << >> /\ hub'[p].subs = joined
  <2> DEFINE r == [hub[p] EXCEPT !.pending = << >>]
             g == [hub EXCEPT ![p] = r]
             n == [r EXCEPT !.subs = joined]
  <2>1. hub' = [g EXCEPT ![p] = [g[p] EXCEPT !.subs = IF hub[p].closed THEN {} ELSE @ \cup {c}]]
    BY DEF SubscribeTo
  <2>2. g[p] = r /\ r.subs = hub[p].subs /\ r \in Hub
    BY <1>1 DEF Hub
  <2>3. hub' = [g EXCEPT ![p] = n]
    BY <2>1, <2>2
  <2>4. joined \in SUBSET Clients
    BY <1>1 DEF Hub
  <2> HIDE DEF joined
  <2>5. n.closed = hub[p].closed /\ n.pending = << >> /\ n.subs = joined /\ n \in Hub
    BY <1>1, <2>4 DEF Hub
  <2> HIDE DEF r, n
  <2> QED  BY <2>3, <2>5, <1>1, UpdatedTwice
<1>3. /\ conn' \in [Clients -> Conn] /\ \A d \in Clients \ {c} : conn'[d] = conn[d]
      /\ conn'[c].st = "streaming" /\ conn'[c].mode = how /\ conn'[c].proc = p
      /\ conn'[c].open = ~hub[p].closed /\ conn'[c].buf = hub[p].pending /\ conn'[c].got = << >>
  <2> DEFINE n == [NoConn EXCEPT !.st = "streaming", !.mode = how, !.proc = p,
                                 !.buf = hub[p].pending, !.open = ~hub[p].closed]
  <2>1. conn' = [conn EXCEPT ![c] = n]
    BY DEF SubscribeTo
  <2>2. hub[p].pending \in Ring
    BY <1>1 DEF Hub
  <2>3. /\ n.st = "streaming" /\ n.mode = how /\ n.proc = p /\ n.open = ~hub[p].closed
        /\ n.buf = hub[p].pending /\ n.got = << >>
    BY DEF NoConn
  <2>4. n \in Conn
    BY <1>1, <2>2 DEF NoConn, Conn, SubModes
  <2> HIDE DEF n
  <2> QED  BY <1>1, <2>1, <2>3, <2>4
<1> QED  BY <1>2, <1>3

\* outputHub.subscribe: an idle connection takes the replay and joins a hub
\* that is not closed.
LEMMA SubscribeSound ==
  ASSUME HubInv, NEW c \in Clients, NEW p \in Procs, NEW mode \in SubModes,
         conn[c].st = "idle", SubscribeTo(c, p, mode)
  PROVE  HubInv'
<1> DEFINE joined == IF hub[p].closed THEN {} ELSE hub[p].subs \cup {c}
<1>1. hub \in [Procs -> Hub] /\ hub[p] \in Hub /\ conn \in [Clients -> Conn] /\ << >> \in Ring
  BY DEF HubInv, HubTypes, Ring
<1>2. /\ hub' \in [Procs -> Hub] /\ \A q \in Procs \ {p} : hub'[q] = hub[q]
      /\ hub'[p].closed = hub[p].closed /\ hub'[p].pending = << >> /\ hub'[p].subs = joined
  BY <1>1, Subscribed DEF HubInv
<1>3. /\ conn' \in [Clients -> Conn] /\ \A d \in Clients \ {c} : conn'[d] = conn[d]
      /\ conn'[c].st = "streaming" /\ conn'[c].mode = mode /\ conn'[c].proc = p
      /\ conn'[c].open = ~hub[p].closed
  BY <1>1, Subscribed DEF HubInv
<1>4. HubTypes'
  BY <1>2, <1>3 DEF HubTypes
<1>5. ConnInv'
  BY <1>3 DEF HubInv, ConnInv
<1>6. Subscriptions' = Subscriptions \cup {c}
  BY <1>3 DEF Subscriptions, SubModes
<1>7. SubsInv'
  BY <1>2, <1>6 DEF HubInv, SubsInv
<1>8. c \notin Subscriptions /\ \A q \in Procs : c \notin hub[q].subs
  BY DEF HubInv, ConnInv, SubsInv, Subscriptions
<1>9. \A d \in Subscriptions : conn'[d] = conn[d]
  BY <1>3, <1>8 DEF Subscriptions
<1>10. HubSound'
  <2> SUFFICES ASSUME NEW q \in Procs
               PROVE  /\ hub'[q].closed => hub'[q].subs = {}
                      /\ \A d \in Subscriptions' :
                           d \in hub'[q].subs <=> (conn'[d].open /\ conn'[d].proc = q)
                      /\ Len(hub'[q].pending) <= Buffer
                      /\ hub'[q].subs # {} => hub'[q].pending = << >>
    BY DEF HubSound
  <2>1. /\ hub[q].closed => hub[q].subs = {}
        /\ \A d \in Subscriptions : d \in hub[q].subs <=> (conn[d].open /\ conn[d].proc = q)
        /\ Len(hub[q].pending) <= Buffer
        /\ hub[q].subs # {} => hub[q].pending = << >>
    BY DEF HubInv, HubSound
  <2>2. CASE q # p
    BY <2>1, <2>2, <1>2, <1>3, <1>6, <1>8, <1>9
  <2>3. CASE q = p
    <3>1. \A d \in Subscriptions \cup {c} : d \in joined <=> (conn'[d].open /\ conn'[d].proc = p)
      BY <2>1, <2>3, <1>3, <1>8, <1>9
    <3>2. Len(<< >>) <= Buffer
      OBVIOUS
    <3> QED  BY <2>3, <3>1, <3>2, <1>2, <1>6
  <2> QED  BY <2>2, <2>3
<1> QED  BY <1>4, <1>5, <1>7, <1>10 DEF HubInv

\* outputHub.publish: a chunk goes to the ring of a hub nobody listens to, or to
\* the channels of its subscriptions, and opens or closes none.
LEMMA PublishSound ==
  ASSUME HubInv, NEW p \in Procs, NEW chunk \in Chunk, Publish(p, chunk)
  PROVE  HubInv'
<1>1. hub \in [Procs -> Hub] /\ hub[p] \in Hub /\ conn \in [Clients -> Conn]
  BY DEF HubInv, HubTypes
<1>2. CASE hub[p].closed
  <2>1. UNCHANGED <<hub, conn>>
    BY <1>2 DEF Publish
  <2> QED  BY <2>1 DEF HubInv, HubTypes, ConnInv, SubsInv, HubSound, Subscriptions
<1>3. CASE ~hub[p].closed /\ hub[p].subs = {}
  <2> DEFINE n == [hub[p] EXCEPT !.pending = Remember(@, chunk)]
  <2>1. hub' = [hub EXCEPT ![p] = n] /\ UNCHANGED conn
    BY <1>3 DEF Publish
  <2>2. Remember(hub[p].pending, chunk) \in Ring /\ Len(Remember(hub[p].pending, chunk)) <= Buffer
    BY <1>1, RememberBounded DEF Hub, HubInv, HubSound, Ring
  <2>3. /\ n.closed = hub[p].closed /\ n.subs = hub[p].subs
        /\ n.pending = Remember(hub[p].pending, chunk) /\ n \in Hub
    BY <1>1, <2>2 DEF Hub
  <2> HIDE DEF n
  <2>4. /\ hub' \in [Procs -> Hub] /\ \A q \in Procs \ {p} : hub'[q] = hub[q]
        /\ hub'[p].closed = hub[p].closed /\ hub'[p].subs = hub[p].subs
        /\ Len(hub'[p].pending) <= Buffer
    BY <1>1, <2>1, <2>2, <2>3
  <2>5. \A q \in Procs : hub'[q].closed = hub[q].closed /\ hub'[q].subs = hub[q].subs
    BY <2>4
  <2>6. HubTypes' /\ ConnInv' /\ SubsInv'
    BY <2>1, <2>4, <2>5 DEF HubInv, HubTypes, ConnInv, SubsInv, Subscriptions
  <2>7. HubSound'
    BY <1>3, <2>1, <2>4, <2>5 DEF HubInv, HubSound, Subscriptions
  <2> QED  BY <2>6, <2>7 DEF HubInv
<1>4. CASE ~hub[p].closed /\ hub[p].subs # {}
  <2>1. /\ UNCHANGED hub
        /\ conn' = [c \in Clients |-> IF c \in hub[p].subs /\ ~Full(c)
                      THEN [conn[c] EXCEPT !.buf = Append(@, chunk)] ELSE conn[c]]
    BY <1>4 DEF Publish
  <2>2. \A c \in Clients : /\ conn'[c] \in Conn
                           /\ conn'[c].st = conn[c].st /\ conn'[c].mode = conn[c].mode
                           /\ conn'[c].proc = conn[c].proc /\ conn'[c].open = conn[c].open
    <3> SUFFICES ASSUME NEW c \in Clients
                 PROVE  /\ conn'[c] \in Conn
                        /\ conn'[c].st = conn[c].st /\ conn'[c].mode = conn[c].mode
                        /\ conn'[c].proc = conn[c].proc /\ conn'[c].open = conn[c].open
      OBVIOUS
    <3>1. \/ conn'[c] = [conn[c] EXCEPT !.buf = Append(@, chunk)]
          \/ conn'[c] = conn[c]
      BY <2>1
    <3>2. conn[c] \in Conn /\ Append(conn[c].buf, chunk) \in Ring
      BY <1>1 DEF Conn, Ring
    <3> QED  BY <3>1, <3>2 DEF Conn
  <2>3. HubTypes' /\ ConnInv' /\ Subscriptions' = Subscriptions
    BY <1>1, <2>1, <2>2 DEF HubInv, HubTypes, ConnInv, Subscriptions
  <2> QED  BY <2>1, <2>2, <2>3, SubscriptionsKept DEF Subscriptions
<1> QED  BY <1>2, <1>3, <1>4

\* What close changes: the channels of one hub, and no more of a connection.
LEMMA HubClosed ==
  ASSUME HubTypes, NEW p \in Procs, CloseHub(p)
  PROVE  /\ hub' \in [Procs -> Hub] /\ \A q \in Procs \ {p} : hub'[q] = hub[q]
         /\ hub'[p].closed = TRUE /\ hub'[p].pending = hub[p].pending /\ hub'[p].subs = {}
         /\ \A c \in Clients :
              /\ conn'[c] \in Conn
              /\ conn'[c].st = conn[c].st /\ conn'[c].mode = conn[c].mode /\ conn'[c].proc = conn[c].proc
              /\ (conn'[c].open <=> (conn[c].open /\ c \notin hub[p].subs))
              /\ conn'[c].buf = conn[c].buf /\ conn'[c].got = conn[c].got /\ conn'[c].end = conn[c].end
<1>1. hub \in [Procs -> Hub] /\ hub[p] \in Hub /\ conn \in [Clients -> Conn]
  BY DEF HubTypes
<1>2. /\ hub' \in [Procs -> Hub] /\ \A q \in Procs \ {p} : hub'[q] = hub[q]
      /\ hub'[p].closed = TRUE /\ hub'[p].pending = hub[p].pending /\ hub'[p].subs = {}
  <2> DEFINE r == [hub[p] EXCEPT !.closed = TRUE]
             g == [hub EXCEPT ![p] = r]
             n == [r EXCEPT !.subs = {}]
  <2>1. hub' = [g EXCEPT ![p] = [g[p] EXCEPT !.subs = {}]]
    BY DEF CloseHub
  <2>2. g[p] = r /\ r \in Hub
    BY <1>1 DEF Hub
  <2>3. hub' = [g EXCEPT ![p] = n]
    BY <2>1, <2>2
  <2>4. n.closed = TRUE /\ n.pending = hub[p].pending /\ n.subs = {} /\ n \in Hub
    BY <1>1 DEF Hub
  <2> HIDE DEF r, n
  <2> QED  BY <2>3, <2>4, <1>1, UpdatedTwice
<1>3. \A c \in Clients :
        /\ conn'[c] \in Conn
        /\ conn'[c].st = conn[c].st /\ conn'[c].mode = conn[c].mode /\ conn'[c].proc = conn[c].proc
        /\ (conn'[c].open <=> (conn[c].open /\ c \notin hub[p].subs))
        /\ conn'[c].buf = conn[c].buf /\ conn'[c].got = conn[c].got /\ conn'[c].end = conn[c].end
  <2> SUFFICES ASSUME NEW c \in Clients
               PROVE  /\ conn'[c] \in Conn
                      /\ conn'[c].st = conn[c].st /\ conn'[c].mode = conn[c].mode
                      /\ conn'[c].proc = conn[c].proc
                      /\ (conn'[c].open <=> (conn[c].open /\ c \notin hub[p].subs))
                      /\ conn'[c].buf = conn[c].buf /\ conn'[c].got = conn[c].got /\ conn'[c].end = conn[c].end
    OBVIOUS
  <2>1. conn'[c] = IF c \in hub[p].subs THEN [conn[c] EXCEPT !.open = FALSE] ELSE conn[c]
    BY DEF CloseHub
  <2>2. conn[c] \in Conn
    BY <1>1
  <2>3. CASE c \in hub[p].subs
    BY <2>1, <2>2, <2>3 DEF Conn
  <2>4. CASE c \notin hub[p].subs
    BY <2>1, <2>2, <2>4
  <2> QED  BY <2>3, <2>4
<1> QED  BY <1>2, <1>3

\* outputHub.close: every channel it knows of is closed and forgotten.
LEMMA CloseHubSound ==
  ASSUME HubInv, NEW p \in Procs, CloseHub(p)
  PROVE  HubInv'
<1>1. hub \in [Procs -> Hub] /\ hub[p] \in Hub /\ conn \in [Clients -> Conn]
  BY DEF HubInv, HubTypes
<1>2. /\ hub' \in [Procs -> Hub] /\ \A q \in Procs \ {p} : hub'[q] = hub[q]
      /\ hub'[p].closed = TRUE /\ hub'[p].pending = hub[p].pending /\ hub'[p].subs = {}
  BY HubClosed DEF HubInv
<1>3. \A c \in Clients :
        /\ conn'[c] \in Conn
        /\ conn'[c].st = conn[c].st /\ conn'[c].mode = conn[c].mode /\ conn'[c].proc = conn[c].proc
        /\ (conn'[c].open <=> (conn[c].open /\ c \notin hub[p].subs))
  BY HubClosed DEF HubInv
<1>4. conn' \in [Clients -> Conn] /\ Subscriptions' = Subscriptions
  BY <1>3 DEF CloseHub, Subscriptions
<1>5. HubTypes'
  BY <1>2, <1>4 DEF HubTypes
<1>6. ConnInv' /\ SubsInv'
  BY <1>1, <1>2, <1>3, <1>4 DEF HubInv, ConnInv, SubsInv
<1>7. HubSound'
  <2> SUFFICES ASSUME NEW q \in Procs
               PROVE  /\ hub'[q].closed => hub'[q].subs = {}
                      /\ \A d \in Subscriptions :
                           d \in hub'[q].subs <=> (conn'[d].open /\ conn'[d].proc = q)
                      /\ Len(hub'[q].pending) <= Buffer
                      /\ hub'[q].subs # {} => hub'[q].pending = << >>
    BY <1>4 DEF HubSound
  <2>1. \A d \in Subscriptions : d \in Clients
    BY DEF Subscriptions
  <2>2. /\ hub[q].closed => hub[q].subs = {}
        /\ \A d \in Subscriptions : d \in hub[q].subs <=> (conn[d].open /\ conn[d].proc = q)
        /\ Len(hub[q].pending) <= Buffer
        /\ hub[q].subs # {} => hub[q].pending = << >>
    BY DEF HubInv, HubSound
  <2>3. CASE q = p
    <3>1. hub'[q].closed /\ hub'[q].pending = hub[q].pending /\ hub'[q].subs = {}
      BY <2>3, <1>2
    <3>2. \A d \in Subscriptions : ~(conn'[d].open /\ conn'[d].proc = q)
      BY <2>1, <2>2, <2>3, <1>3
    <3> QED  BY <2>2, <3>1, <3>2
  <2>4. CASE q # p
    <3>1. hub'[q] = hub[q]
      BY <2>4, <1>1, <1>2
    <3>2. \A d \in Subscriptions : conn[d].proc = q => d \notin hub[p].subs
      BY <2>4 DEF HubInv, HubSound
    <3> QED  BY <2>1, <2>2, <3>1, <3>2, <1>3
  <2> QED  BY <2>3, <2>4
<1> QED  BY <1>5, <1>6, <1>7 DEF HubInv

\* What a cancel function changes: the state and channel of its connection, and a hub's
\* subscriptions.
LEMMA Cancelled ==
  ASSUME HubTypes, NEW c \in Clients, conn[c].proc \in Procs, NEW next \in {"left", "closing"}, Cancel(c, next)
  PROVE  /\ hub' \in [Procs -> Hub] /\ \A q \in Procs \ {conn[c].proc} : hub'[q] = hub[q]
         /\ hub'[conn[c].proc].closed = hub[conn[c].proc].closed
         /\ hub'[conn[c].proc].pending = hub[conn[c].proc].pending
         /\ hub'[conn[c].proc].subs = hub[conn[c].proc].subs \ {c}
         /\ \A d \in Clients :
              /\ conn'[d] \in Conn
              /\ conn'[d].st = (IF d = c THEN next ELSE conn[d].st)
              /\ conn'[d].mode = conn[d].mode /\ conn'[d].proc = conn[d].proc
              /\ (conn'[d].open <=> (conn[d].open /\ d # c))
              /\ conn'[d].buf = conn[d].buf /\ conn'[d].got = conn[d].got /\ conn'[d].end = conn[d].end
<1> DEFINE p == conn[c].proc
<1>1. p \in Procs /\ hub \in [Procs -> Hub] /\ hub[p] \in Hub /\ conn \in [Clients -> Conn]
  BY DEF HubTypes
<1>2. /\ hub' \in [Procs -> Hub] /\ \A q \in Procs \ {p} : hub'[q] = hub[q]
      /\ hub'[p].closed = hub[p].closed /\ hub'[p].pending = hub[p].pending
      /\ hub'[p].subs = hub[p].subs \ {c}
  <2> DEFINE n == [hub[p] EXCEPT !.subs = @ \ {c}]
  <2>1. hub' = [hub EXCEPT ![p] = n]
    BY DEF Cancel
  <2> HIDE DEF p
  <2>2. /\ n.closed = hub[p].closed /\ n.pending = hub[p].pending
        /\ n.subs = hub[p].subs \ {c} /\ n \in Hub
    BY <1>1 DEF Hub
  <2> HIDE DEF n
  <2> QED  BY <1>1, <2>1, <2>2
<1>3. \A d \in Clients :
        /\ conn'[d] \in Conn
        /\ conn'[d].st = (IF d = c THEN next ELSE conn[d].st)
        /\ conn'[d].mode = conn[d].mode /\ conn'[d].proc = conn[d].proc
        /\ (conn'[d].open <=> (conn[d].open /\ d # c))
        /\ conn'[d].buf = conn[d].buf /\ conn'[d].got = conn[d].got /\ conn'[d].end = conn[d].end
  BY ZenonT(40), <1>1 DEF Cancel, Conn
<1> QED  BY <1>2, <1>3

\* The cancel function of subscribe: one channel is closed and forgotten.
LEMMA CancelSound ==
  ASSUME HubInv, NEW c \in Clients, NEW next \in {"left", "closing"},
         conn[c].mode \in SubModes, Cancel(c, next)
  PROVE  HubInv'
<1> DEFINE p == conn[c].proc
<1>1. p \in Procs /\ hub \in [Procs -> Hub] /\ hub[p] \in Hub /\ conn \in [Clients -> Conn]
  BY DEF HubInv, HubTypes, ConnInv, SubModes
<1>2. /\ hub' \in [Procs -> Hub] /\ \A q \in Procs \ {p} : hub'[q] = hub[q]
      /\ hub'[p].closed = hub[p].closed /\ hub'[p].pending = hub[p].pending
      /\ hub'[p].subs = hub[p].subs \ {c}
  BY <1>1, Cancelled DEF HubInv
<1>3. \A d \in Clients :
        /\ conn'[d] \in Conn
        /\ conn'[d].st = (IF d = c THEN next ELSE conn[d].st)
        /\ conn'[d].mode = conn[d].mode /\ conn'[d].proc = conn[d].proc
        /\ (conn'[d].open <=> (conn[d].open /\ d # c))
  BY <1>1, Cancelled DEF HubInv
<1>4. conn' \in [Clients -> Conn] /\ Subscriptions' = Subscriptions
  <2>1. conn' = [conn EXCEPT ![c] = [[conn[c] EXCEPT !.st = next] EXCEPT !.open = FALSE]]
    BY <1>1 DEF Cancel, Conn
  <2> QED  BY <1>1, <1>3, <2>1 DEF Subscriptions
<1>5. HubTypes'
  BY <1>2, <1>4 DEF HubTypes
<1>6. ConnInv' /\ SubsInv'
  BY <1>1, <1>2, <1>3, <1>4 DEF HubInv, ConnInv, SubsInv
<1>7. HubSound'
  <2> SUFFICES ASSUME NEW q \in Procs
               PROVE  /\ hub'[q].closed => hub'[q].subs = {}
                      /\ \A d \in Subscriptions :
                           d \in hub'[q].subs <=> (conn'[d].open /\ conn'[d].proc = q)
                      /\ Len(hub'[q].pending) <= Buffer
                      /\ hub'[q].subs # {} => hub'[q].pending = << >>
    BY <1>4 DEF HubSound
  <2>1. \A d \in Subscriptions : d \in Clients
    BY DEF Subscriptions
  <2>2. /\ hub[q].closed => hub[q].subs = {}
        /\ \A d \in Subscriptions : d \in hub[q].subs <=> (conn[d].open /\ conn[d].proc = q)
        /\ Len(hub[q].pending) <= Buffer
        /\ hub[q].subs # {} => hub[q].pending = << >>
    BY DEF HubInv, HubSound
  <2>3. CASE q = p
    <3>1. /\ hub'[q].closed = hub[q].closed /\ hub'[q].pending = hub[q].pending
          /\ hub'[q].subs = hub[q].subs \ {c}
      BY <2>3, <1>2
    <3>2. \A d \in Subscriptions :
            /\ d \in hub'[q].subs <=> (d \in hub[q].subs /\ d # c)
            /\ conn'[d].open <=> (conn[d].open /\ d # c)
            /\ conn'[d].proc = conn[d].proc
      BY <2>1, <3>1, <1>3
    <3>3. \A d \in Subscriptions : d \in hub'[q].subs <=> (conn'[d].open /\ conn'[d].proc = q)
      BY <2>2, <3>2
    <3> HIDE DEF p
    <3> QED  BY <2>2, <3>1, <3>3
  <2>4. CASE q # p
    <3>1. hub'[q] = hub[q]
      BY <2>4, <1>1, <1>2
    <3>2. \A d \in Subscriptions : conn[d].proc = q => d # c
      BY <2>4
    <3> HIDE DEF p
    <3> QED  BY <2>1, <2>2, <3>1, <3>2, <1>3
  <2> QED  BY <2>3, <2>4
<1> QED  BY <1>5, <1>6, <1>7 DEF HubInv
-----------------------------------------------------------------------------
\* The inductive invariant.
IInv == OutputTypes /\ HubInv

\* Steps that leave the hubs and the connections alone.
LEMMA HubUntouched ==
  ASSUME HubInv, UNCHANGED <<hub, conn>>
  PROVE  HubInv'
BY DEF HubInv, HubTypes, ConnInv, SubsInv, HubSound, Subscriptions

\* startPTYProcess, startPipeProcess, handleExec: the readers start.
LEMMA SpawnSound ==
  ASSUME OutputTypes, NEW p \in Procs, NEW kind \in Kinds, Spawn(p, kind),
         table' = table \/ table' = table \cup {p}
  PROVE  OutputTypes'
<1>1. [s \in AllStreams |-> IF s \in Streams(kind) THEN [pc |-> "reading", chunk |-> 0] ELSE NoReader]
        \in [AllStreams -> Reader]
  BY DEF NoReader, Reader
<1> QED  BY <1>1 DEF OutputTypes, Spawn

\* A step of one connection that is not subscribed and does not become so, or
\* that changes neither its subscription nor its channel being open.
LEMMA ConnectionKept ==
  ASSUME HubInv, UNCHANGED hub, NEW c \in Clients, NEW new \in Conn,
         conn' = [conn EXCEPT ![c] = new],
         new.st # "idle", new.mode # "none" => new.proc \in Procs,
         new.open => new.st = "streaming" /\ new.mode \in SubModes,
         new.mode \in SubModes => /\ conn[c].mode \in SubModes
                                  /\ new.open = conn[c].open /\ new.proc = conn[c].proc,
         conn[c].mode \in SubModes => new.mode \in SubModes
  PROVE  HubInv'
<1>1. conn \in [Clients -> Conn]
  BY DEF HubInv, HubTypes
<1>2. HubTypes' /\ ConnInv'
  BY <1>1 DEF HubInv, HubTypes, ConnInv
<1>3. Subscriptions' = Subscriptions
  BY <1>1 DEF Subscriptions, SubModes
<1>4. \A d \in Subscriptions : conn'[d].open = conn[d].open /\ conn'[d].proc = conn[d].proc
  BY <1>1 DEF Subscriptions, SubModes
<1> QED  BY <1>2, <1>3, <1>4, SubscriptionsKept

-----------------------------------------------------------------------------
\* A boxd that has just started has open, empty hubs and no subscription.
LEMMA InitSound == Init => IInv
<1> SUFFICES ASSUME Init PROVE IInv
  OBVIOUS
<1>1. OutputTypes
  BY DEF Init, OutputTypes, NoReader, Reader
<1>2. HubTypes
  <2>1. << >> \in Ring
    BY DEF Ring
  <2>2. NewHub \in Hub /\ NoConn \in Conn
    BY <2>1 DEF Hub, Conn, NewHub, NoConn
  <2> QED  BY <2>2 DEF Init, HubTypes
<1>3. ConnInv /\ SubsInv /\ HubSound
  BY DEF Init, ConnInv, SubsInv, HubSound, Subscriptions, NewHub, NoConn
<1> QED  BY <1>1, <1>2, <1>3 DEF IInv, HubInv

\* A process and its goroutines: starting it, its output, its exit.
LEMMA ProcSound ==
  ASSUME IInv, NEW p \in Procs, ProcNext(p)
  PROVE  IInv'
<1> USE DEF IInv
<1>1. CASE StartProcess(p)
  <2>1. Spawn(p, "pty") /\ table' = table \cup {p} /\ UNCHANGED <<hub, conn>>
    BY <1>1 DEF StartProcess, startPTYProcess
  <2> QED  BY <2>1, SpawnSound, HubUntouched DEF Kinds
<1>2. CASE ChildExits(p) \/ LetGo(p) \/ Signal(p)
  <2>1. UNCHANGED <<unread, reader, table, said, hub, conn>>
    BY <1>2 DEF ChildExits, LetGo, Signal, history
  <2> QED  BY <2>1, HubUntouched DEF OutputTypes
<1>3. CASE CmdWait(p) \/ RecordExit(p) \/ CloseDone(p)
  <2>1. UNCHANGED <<unread, reader, table, said, hub, conn>>
    BY <1>3 DEF CmdWait, RecordExit, CloseDone, WaiterStep, history
  <2> QED  BY <2>1, HubUntouched DEF OutputTypes
<1>4. CASE CloseOutput(p)
  <2>1. UNCHANGED <<unread, reader, table, said>> /\ CloseHub(p)
    BY <1>4 DEF CloseOutput, WaiterStep, history
  <2> QED  BY <2>1, CloseHubSound DEF OutputTypes
<1>5. CASE Forget(p)
  <2>1. UNCHANGED <<unread, reader, said, hub, conn>> /\ table' \subseteq table
    BY <1>5 DEF Forget, history
  <2> QED  BY <2>1, HubUntouched DEF OutputTypes
<1>6. ASSUME NEW s \in AllStreams, ChildWrites(p, s)
      PROVE  IInv'
  <2> DEFINE chunk == <<s, Len(said[p]) + 1>>
  <2>1. said[p] \in Seq(Chunk) /\ unread[p][s] \in Seq(Chunk)
    BY DEF OutputTypes
  <2>2. chunk \in Chunk
    BY <2>1 DEF Chunk
  <2>3. Append(said[p], chunk) \in Seq(Chunk) /\ Append(unread[p][s], chunk) \in Seq(Chunk)
    BY <2>1, <2>2
  <2>4. /\ said' = [said EXCEPT ![p] = Append(said[p], chunk)]
        /\ unread' = [unread EXCEPT ![p] = [unread[p] EXCEPT ![s] = Append(unread[p][s], chunk)]]
        /\ UNCHANGED <<reader, table, hub, conn>>
    BY <1>6 DEF ChildWrites
  <2> HIDE DEF chunk
  <2>5. OutputTypes'
    BY <2>3, <2>4 DEF OutputTypes
  <2> QED  BY <2>4, <2>5, HubUntouched
<1>7. ASSUME NEW s \in AllStreams, Read(p, s)
      PROVE  IInv'
  <2> DEFINE new == [pc |-> "publishing", chunk |-> Head(unread[p][s])[2]]
  <2>1. unread[p][s] \in Seq(Chunk) /\ unread[p][s] # << >>
    BY <1>7 DEF OutputTypes, Read
  <2>2. Head(unread[p][s]) \in Chunk /\ Tail(unread[p][s]) \in Seq(Chunk)
    BY <2>1
  <2>3. new \in Reader
    BY <2>2 DEF Chunk, Reader
  <2>4. /\ reader' = [reader EXCEPT ![p] = [reader[p] EXCEPT ![s] = new]]
        /\ unread' = [unread EXCEPT ![p] = [unread[p] EXCEPT ![s] = Tail(unread[p][s])]]
        /\ UNCHANGED <<said, table, hub, conn>>
    BY <1>7 DEF Read, history
  <2> HIDE DEF new
  <2>5. OutputTypes'
    BY <2>2, <2>3, <2>4 DEF OutputTypes
  <2> QED  BY <2>4, <2>5, HubUntouched
<1>8. ASSUME NEW s \in AllStreams, PublishRead(p, s)
      PROVE  IInv'
  <2> DEFINE chunk == <<s, reader[p][s].chunk>>
             new   == [pc |-> "reading", chunk |-> 0]
  <2>1. chunk \in Chunk
    BY DEF OutputTypes, Reader, Chunk
  <2>2. reader' = [reader EXCEPT ![p] = [reader[p] EXCEPT ![s] = new]] /\ UNCHANGED <<unread, said, table>>
    BY <1>8 DEF PublishRead
  <2>3. new \in Reader
    BY DEF Reader
  <2>4. OutputTypes'
    BY <2>2, <2>3 DEF OutputTypes
  <2>5. CASE child[p].kind # "exec"
    <3>1. Publish(p, chunk)
      BY <1>8, <2>5 DEF PublishRead
    <3> QED  BY <2>1, <2>4, <3>1, PublishSound
  <2>6. CASE child[p].kind = "exec"
    <3>1. /\ UNCHANGED hub
          /\ conn' = [c \in Clients |-> IF conn[c].proc = p
                        THEN [conn[c] EXCEPT !.got = Append(@, chunk)] ELSE conn[c]]
      BY <1>8, <2>6 DEF PublishRead
    <3>2. conn \in [Clients -> Conn]
      BY DEF HubInv, HubTypes
    <3>3. ASSUME NEW c \in Clients
          PROVE  /\ conn'[c] \in Conn
                 /\ conn'[c].st = conn[c].st /\ conn'[c].mode = conn[c].mode
                 /\ conn'[c].proc = conn[c].proc /\ conn'[c].open = conn[c].open
      <4>1. \/ conn'[c] = [conn[c] EXCEPT !.got = Append(@, chunk)]
            \/ conn'[c] = conn[c]
        BY <3>1
      <4>2. conn[c] \in Conn /\ Append(conn[c].got, chunk) \in Ring
        BY <3>2, <2>1 DEF Conn, Ring
      <4> QED  BY <4>1, <4>2 DEF Conn
    <3>4. HubTypes' /\ ConnInv' /\ Subscriptions' = Subscriptions
      BY <3>1, <3>2, <3>3 DEF HubInv, HubTypes, ConnInv, Subscriptions
    <3> QED  BY <2>4, <3>1, <3>3, <3>4, SubscriptionsKept DEF Subscriptions
  <2> QED  BY <2>5, <2>6
<1>9. ASSUME NEW s \in AllStreams, ReadEnds(p, s)
      PROVE  IInv'
  <2>1. /\ reader' = [reader EXCEPT ![p] = [reader[p] EXCEPT ![s] = NoReader]]
        /\ UNCHANGED <<unread, said, table, hub, conn>>
    BY <1>9 DEF ReadEnds, history
  <2>2. NoReader \in Reader
    BY DEF NoReader, Reader
  <2>3. OutputTypes'
    BY <2>1, <2>2 DEF OutputTypes
  <2> QED  BY <2>1, <2>3, HubUntouched
<1> QED
  BY <1>1, <1>2, <1>3, <1>4, <1>5, <1>6, <1>7, <1>8, <1>9 DEF ProcNext

\* A call's connection: it starts or joins a process, drains its channel, ends
\* or leaves.
LEMMA ConnSound ==
  ASSUME IInv, NEW c \in Clients, ConnNext(c)
  PROVE  IInv'
<1> USE DEF IInv
<1>1. conn \in [Clients -> Conn] /\ conn[c] \in Conn /\ << >> \in Ring
  BY DEF HubInv, HubTypes, Ring
<1>2. ASSUME NEW p \in Procs, ConnectStart(c, p)
      PROVE  IInv'
  <2>1. PICK kind \in Kinds : Spawn(p, kind)
    BY <1>2 DEF ConnectStart, startPTYProcess, startPipeProcess, Kinds
  <2>2. /\ conn[c].st = "idle" /\ SubscribeTo(c, p, "start")
        /\ table' = table \cup {p}
    BY <1>2 DEF ConnectStart
  <2> QED  BY <2>1, <2>2, SpawnSound, SubscribeSound DEF SubModes
<1>3. ASSUME NEW p \in Procs, ExecStart(c, p)
      PROVE  IInv'
  <2> DEFINE new == [NoConn EXCEPT !.st = "streaming", !.mode = "exec", !.proc = p]
  <2>1. /\ conn[c].st = "idle" /\ Spawn(p, "exec") /\ UNCHANGED <<table, hub>>
        /\ conn' = [conn EXCEPT ![c] = new]
    BY <1>3 DEF ExecStart
  <2>2. new.st = "streaming" /\ new.mode = "exec" /\ new.proc = p /\ new.open = FALSE
    BY DEF NoConn
  <2>3. new \in Conn
    BY <1>1 DEF NoConn, Conn
  <2> HIDE DEF new
  <2>4. conn[c].mode \notin SubModes /\ new.mode \notin SubModes
    BY <2>1, <2>2 DEF HubInv, ConnInv, SubModes
  <2>5. HubInv'
    BY <2>1, <2>2, <2>3, <2>4, ConnectionKept
  <2>6. OutputTypes'
    BY <2>1, SpawnSound DEF Kinds
  <2> QED  BY <2>5, <2>6
<1>4. CASE Attach(c)
  <2>1. PICK p \in Selectable, mode \in {"connect", "ws"} : SubscribeTo(c, p, mode)
    BY <1>4 DEF Attach
  <2>2. p \in Procs /\ mode \in SubModes
    BY DEF Selectable, OutputTypes, SubModes
  <2>3. conn[c].st = "idle" /\ UNCHANGED <<unread, reader, table, said>>
    BY <1>4 DEF Attach
  <2> QED  BY <2>1, <2>2, <2>3, SubscribeSound DEF OutputTypes
<1>5. CASE Receive(c)
  <2> DEFINE r   == [conn[c] EXCEPT !.got = Append(@, Head(conn[c].buf))]
             g   == [conn EXCEPT ![c] = r]
             new == [r EXCEPT !.buf = Tail(conn[c].buf)]
  <2>1. /\ conn[c].st \in {"streaming", "closing"} /\ conn[c].buf # << >>
        /\ conn' = [g EXCEPT ![c] = [g[c] EXCEPT !.buf = Tail(@)]]
        /\ UNCHANGED <<unread, reader, table, said, hub>>
    BY <1>5 DEF Receive, history
  <2>2. Append(conn[c].got, Head(conn[c].buf)) \in Ring /\ Tail(conn[c].buf) \in Ring
    BY <1>1, <2>1 DEF Conn, Ring
  <2>3. g[c] = r /\ r.buf = conn[c].buf /\ r \in Conn
    BY <1>1, <2>2 DEF Conn
  <2>4. conn' = [g EXCEPT ![c] = new]
    BY <2>1, <2>3
  <2>5. /\ new.st = conn[c].st /\ new.mode = conn[c].mode /\ new.proc = conn[c].proc
        /\ new.open = conn[c].open /\ new \in Conn
    BY <1>1, <2>2 DEF Conn
  <2> HIDE DEF r, new
  <2>6. conn' = [conn EXCEPT ![c] = new]
    BY <1>1, <2>4, UpdatedTwice
  <2>7. HubInv'
    <3>1. /\ conn[c].mode # "none" => conn[c].proc \in Procs
          /\ conn[c].open => conn[c].st = "streaming" /\ conn[c].mode \in SubModes
      BY DEF HubInv, ConnInv
    <3> QED  BY ZenonT(40), <2>1, <2>5, <2>6, <3>1, ConnectionKept
  <2> QED  BY <2>1, <2>7 DEF OutputTypes
<1>6. CASE SendEnd(c) \/ WaitReply(c) \/ ExecReply(c)
  <2>1. PICK how \in {"nil", "exit"} :
          conn' = [[conn EXCEPT ![c].st = "ended"] EXCEPT ![c].end = how]
    BY <1>6 DEF SendEnd, WaitReply, ExecReply, ExitInfo
  <2> DEFINE r   == [conn[c] EXCEPT !.st = "ended"]
             g   == [conn EXCEPT ![c] = r]
             new == [r EXCEPT !.end = how]
  <2>2. g[c] = r /\ conn' = [g EXCEPT ![c] = [g[c] EXCEPT !.end = how]]
    BY <1>1, <2>1
  <2>3. /\ new.st = "ended" /\ new.mode = conn[c].mode /\ new.proc = conn[c].proc
        /\ new.open = conn[c].open /\ new \in Conn
    BY <1>1 DEF Conn
  <2> HIDE DEF r, new
  <2>4. conn' = [conn EXCEPT ![c] = new]
    BY <1>1, <2>2, UpdatedTwice DEF new
  <2>5. UNCHANGED <<unread, reader, table, said, hub>> /\ ~conn[c].open
    BY <1>6 DEF SendEnd, WaitReply, ExecReply, history, HubInv, ConnInv, SubModes
  <2>6. HubInv'
    <3>1. conn[c].mode # "none" => conn[c].proc \in Procs
      BY DEF HubInv, ConnInv
    <3> QED  BY <2>3, <2>4, <2>5, <3>1, ConnectionKept
  <2> QED  BY <2>5, <2>6 DEF OutputTypes
<1>7. CASE Leave(c)
  <2>1. conn[c].st \in {"streaming", "waiting"} /\ UNCHANGED <<unread, reader, table, said>>
    BY <1>7 DEF Leave, history
  <2>2. CASE conn[c].mode \in SubModes
    <3>1. Cancel(c, "left")
      BY <1>7, <2>2 DEF Leave, SubModes
    <3> QED  BY <2>1, <2>2, <3>1, CancelSound DEF OutputTypes
  <2>3. CASE conn[c].mode \notin SubModes
    <3> DEFINE new == [conn[c] EXCEPT !.st = "left"]
    <3>1. conn' = [conn EXCEPT ![c] = new] /\ UNCHANGED hub
      BY <1>7, <2>3 DEF Leave, SubModes
    <3>2. /\ new.st = "left" /\ new.mode = conn[c].mode /\ new.proc = conn[c].proc
          /\ new.open = conn[c].open /\ new \in Conn
      BY <1>1 DEF Conn
    <3>3. ~conn[c].open /\ (conn[c].mode # "none" => conn[c].proc \in Procs)
      BY <2>3 DEF HubInv, ConnInv
    <3> HIDE DEF new
    <3>4. HubInv'
      BY <2>3, <3>1, <3>2, <3>3, ConnectionKept
    <3> QED  BY <2>1, <3>4 DEF OutputTypes
  <2> QED  BY <2>2, <2>3
<1>8. CASE InputFails(c)
  <2>1. /\ Cancel(c, "closing") /\ conn[c].mode \in SubModes
        /\ UNCHANGED <<unread, reader, table, said>>
    BY <1>8 DEF InputFails, history, SubModes
  <2> QED  BY <2>1, CancelSound DEF OutputTypes
<1>9. CASE CloseSocket(c)
  <2> DEFINE new == [conn[c] EXCEPT !.st = "left"]
  <2>1. /\ conn[c].st = "closing" /\ conn' = [conn EXCEPT ![c] = new]
        /\ UNCHANGED <<unread, reader, table, said, hub>>
    BY <1>9 DEF CloseSocket, history
  <2>2. /\ new.st = "left" /\ new.mode = conn[c].mode /\ new.proc = conn[c].proc
        /\ new.open = conn[c].open /\ new \in Conn
    BY <1>1 DEF Conn
  <2>3. ~conn[c].open /\ (conn[c].mode # "none" => conn[c].proc \in Procs)
    BY <2>1 DEF HubInv, ConnInv
  <2> HIDE DEF new
  <2>4. HubInv'
    BY <2>1, <2>2, <2>3, ConnectionKept
  <2> QED  BY <2>1, <2>4 DEF OutputTypes
<1>10. CASE WaitCall(c)
  <2>1. PICK p \in table :
          conn' = [conn EXCEPT ![c] = [NoConn EXCEPT !.st = "waiting", !.mode = "wait", !.proc = p]]
    BY <1>10 DEF WaitCall
  <2> DEFINE new == [NoConn EXCEPT !.st = "waiting", !.mode = "wait", !.proc = p]
  <2>2. new.st = "waiting" /\ new.mode = "wait" /\ new.proc = p /\ new.open = FALSE
    BY DEF NoConn
  <2>3. p \in Procs
    BY DEF OutputTypes
  <2>4. new \in Conn
    BY <1>1, <2>3 DEF NoConn, Conn
  <2>5. conn[c].st = "idle" /\ UNCHANGED <<unread, reader, table, said, hub>>
    BY <1>10 DEF WaitCall, history
  <2>6. conn' = [conn EXCEPT ![c] = new]
    BY <2>1
  <2> HIDE DEF new
  <2>7. conn[c].mode \notin SubModes /\ new.mode \notin SubModes
    BY <2>2, <2>5 DEF HubInv, ConnInv, SubModes
  <2>8. HubInv'
    BY <2>2, <2>3, <2>4, <2>5, <2>6, <2>7, ConnectionKept
  <2> QED  BY <2>5, <2>8 DEF OutputTypes
<1> QED
  BY <1>2, <1>3, <1>4, <1>5, <1>6, <1>7, <1>8, <1>9, <1>10 DEF ConnNext

\* /admin/reexec: the agent's memory of connections and hubs is dropped.
LEMMA ReexecSound ==
  ASSUME IInv, Reexec
  PROVE  IInv'
<1> USE DEF IInv
<1>1. hub \in [Procs -> Hub] /\ conn \in [Clients -> Conn]
  BY DEF HubInv, HubTypes
<1>2. OutputTypes'
  BY DEF Reexec, OutputTypes, NoReader, Reader, history
<1>3. ASSUME NEW c \in Clients
      PROVE  /\ conn'[c] \in Conn /\ conn'[c].mode = conn[c].mode /\ conn'[c].proc = conn[c].proc
             /\ ~conn'[c].open /\ (conn'[c].st = "idle" => conn[c].st = "idle")
  <2>1. conn[c] \in Conn /\ (conn[c].open => conn[c].st = "streaming")
    BY <1>1 DEF HubInv, ConnInv
  <2>2. conn'[c] = IF conn[c].st \in {"streaming", "closing", "waiting"}
                   THEN [conn[c] EXCEPT !.st = "left", !.open = FALSE] ELSE conn[c]
    BY DEF Reexec
  <2> QED  BY <2>1, <2>2 DEF Conn
<1>4. ASSUME NEW p \in Procs
      PROVE  /\ hub'[p] \in Hub /\ hub'[p].subs = {} /\ hub'[p].closed = hub[p].closed
             /\ hub'[p].pending = hub[p].pending
  <2>1. hub'[p] = [hub[p] EXCEPT !.subs = {}]
    BY DEF Reexec
  <2> QED  BY <2>1, <1>1 DEF Hub
<1>5. hub' \in [Procs -> Hub] /\ conn' \in [Clients -> Conn]
  BY <1>3, <1>4 DEF Reexec
<1>6. HubTypes' /\ ConnInv' /\ SubsInv'
  BY <1>3, <1>4, <1>5 DEF HubInv, HubTypes, ConnInv, SubsInv
<1>7. HubSound'
  BY <1>3, <1>4 DEF HubInv, HubSound, Subscriptions
<1> QED  BY <1>2, <1>6, <1>7 DEF HubInv

\* No step of a process, of a connection or of the reexec breaks the invariant.
LEMMA StepSound == IInv /\ [Next]_vars => IInv'
<1> SUFFICES ASSUME IInv, [Next]_vars PROVE IInv'
  OBVIOUS
<1>1. CASE Next
  BY <1>1, ProcSound, ConnSound, ReexecSound DEF Next
<1>2. CASE UNCHANGED vars
  <2>1. OutputTypes'
    BY <1>2 DEF IInv, OutputTypes, vars, agent, history
  <2>2. UNCHANGED <<hub, conn>>
    BY <1>2 DEF vars, agent
  <2> QED  BY <2>1, <2>2, HubUntouched DEF IInv
<1> QED  BY <1>1, <1>2

\* boxd never sends on or closes a closed output channel, never keeps a
\* subscription it has forgotten, and never replays more than a channel holds
\* (outputHub in boxd/server/process.go): whatever the number of processes and
\* callers, and whatever the order of their goroutines.
THEOREM HubsAreSound == Spec => []HubSound
<1>1. IInv => HubSound
  BY DEF IInv, HubInv
<1> QED  BY <1>1, InitSound, StepSound, PTL DEF Spec

-----------------------------------------------------------------------------
(* What the streams rest on, beyond the hubs.                               *)

Calls == SubModes \cup {"wait"}

\* Who reads and waits for a process: while a reader may still publish the wait
\* goroutine has not closed the hub, and the table names no process of an earlier boxd.
ProcInv(p) ==
  /\ child[p].st = "none" <=> waiter[p] = "none"
  /\ waiter[p] \notin {"waiting", "reaped", "recorded"} => ReadersEnded(p)
  /\ hub[p].closed => waiter[p] \in {"drained", "done", "lost"}
  /\ p \in table => waiter[p] \notin {"none", "lost"} /\ child[p].kind # "exec"

\* A call for a process of the table; its share goes up to the last chunk while its
\* stream lasts, and its channel is closed under it only when there will be no other.
CallInv(c) ==
  /\ conn[c].st = "waiting" => conn[c].mode = "wait"
  /\ conn[c].st = "streaming" => conn[c].mode \in SubModes \cup {"exec"}
  /\ conn[c].st = "closing" => conn[c].mode = "ws"
  /\ conn[c].mode \in Calls => child[conn[c].proc].st # "none" /\ child[conn[c].proc].kind # "exec"
  /\ conn[c].mode \in Calls /\ conn[c].st \in {"streaming", "waiting"} => waiter[conn[c].proc] # "lost"
  /\ conn[c].mode \in SubModes /\ conn[c].st = "streaming" =>
       upto[c] = Len(pub[conn[c].proc]) /\ (~conn[c].open => hub[conn[c].proc].closed)
  /\ conn[c].mode \in Calls \ {"ws"} /\ conn[c].st = "ended" => conn[c].end = "exit"
  /\ conn[c].mode \in {"start", "connect"} /\ conn[c].st = "ended" =>
       hub[conn[c].proc].closed /\ upto[c] = Len(pub[conn[c].proc]) /\ conn[c].buf = << >>

Covered(p, i) == \E c \in Subscriptions : conn[c].proc = p /\ from[c] <= i /\ i <= upto[c]

\* The ring holds the last published chunks, and an older one was in some call's share
\* or is Buffer chunks old.
RingInv(p) ==
  LET n == Len(pub[p]) - Len(hub[p].pending) IN
  /\ n >= 0
  /\ \A k \in 1..Len(hub[p].pending) : hub[p].pending[k] = pub[p][n + k]
  /\ \A i \in 1..n : Covered(p, i) \/ i + Buffer <= Len(pub[p])

\* The elements of got are those of out at the places of share, in order.
Placed(place, got, share, out) ==
  /\ place \in [DOMAIN got -> share]
  /\ \A i, j \in DOMAIN got : i < j => place[i] < place[j]
  /\ \A n \in share : \E i \in DOMAIN got : place[i] = n
  /\ \A i \in DOMAIN got : got[i] = out[place[i]]

Faithful(c) == \E place : Placed(place, Delivered(c), Share(c), pub[conn[c].proc])

\* A share is a part of what was published, and an idle connection has missed nothing.
ShareInv(c) ==
  /\ conn[c].st = "idle" => missed[c] = {}
  /\ c \in Subscriptions =>
       /\ 1 <= from[c] /\ from[c] <= Len(pub[conn[c].proc]) + 1
       /\ upto[c] <= Len(pub[conn[c].proc])
       /\ missed[c] \subseteq 1..Len(pub[conn[c].proc])
       /\ Faithful(c)

HistoryTypes ==
  /\ pub \in [Procs -> Ring] /\ from \in [Clients -> Nat] /\ upto \in [Clients -> Nat]
  /\ missed \in [Clients -> SUBSET Nat]
  /\ child \in [Procs -> [st : {"none", "running", "zombie", "reaped"}, kind : Kinds, held : BOOLEAN]]
  /\ waiter \in [Procs -> {"none", "waiting", "reaped", "recorded", "drained", "done", "lost"}]

AgentInv ==
  /\ IInv /\ HistoryTypes
  /\ \A p \in Procs : ProcInv(p) /\ RingInv(p)
  /\ \A c \in Clients : CallInv(c) /\ ShareInv(c)

\* A process of which a step undoes nothing that its calls rely on.
Lasting(p) ==
  /\ child[p].st # "none" => child'[p].st # "none" /\ child'[p].kind = child[p].kind
  /\ waiter'[p] = "lost" => waiter[p] = "lost"
  /\ hub[p].closed => hub'[p].closed

\* A connection of which a step leaves the share of the output, and what it has of it.
SameShare(c) ==
  /\ conn'[c].mode \in SubModes <=> conn[c].mode \in SubModes
  /\ conn[c].mode \in SubModes => conn'[c].proc = conn[c].proc /\ Delivered(c)' = Delivered(c)
  /\ conn'[c].st = "idle" => conn[c].st = "idle"

\* A process that a step does not touch, or whose entry it only takes out of the table.
LEMMA ProcKept ==
  ASSUME NEW p \in Procs, ProcInv(p), child'[p] = child[p], waiter'[p] = waiter[p], reader'[p] = reader[p],
         hub'[p].closed = hub[p].closed, p \in table' => p \in table
  PROVE  ProcInv(p)'
BY DEF ProcInv, ReadersEnded

\* Nothing that a call rests on changes.
LEMMA CallKept ==
  ASSUME AgentInv, NEW c \in Clients, conn'[c] = conn[c], UNCHANGED <<pub, upto>>, \A p \in Procs : Lasting(p)
  PROVE  CallInv(c)' /\ SameShare(c)
<1>1. CallInv(c) /\ (conn[c].mode \in Calls => conn[c].proc \in Procs)
  BY DEF AgentInv, IInv, HubInv, ConnInv, Calls, SubModes
<1>2. CallInv(c)'
  BY <1>1 DEF CallInv, Lasting, Calls, SubModes
<1>3. SameShare(c)
  BY DEF SameShare, Delivered
<1> QED  BY <1>2, <1>3

\* A share that is left as it is stays as it should be.
LEMMA ShareKept ==
  ASSUME NEW c \in Clients, ShareInv(c), SameShare(c), UNCHANGED <<pub, from, upto, missed>>
  PROVE  ShareInv(c)'
<1>1. conn'[c].st = "idle" => missed'[c] = {}
  BY DEF ShareInv, SameShare
<1>2. ASSUME c \in Subscriptions' PROVE c \in Subscriptions /\ conn'[c].proc = conn[c].proc
  BY <1>2 DEF SameShare, Subscriptions, SubModes
<1>3. ASSUME c \in Subscriptions', Faithful(c) PROVE Faithful(c)'
  <2>1. Share(c)' = Share(c) /\ Delivered(c)' = Delivered(c) /\ conn'[c].proc = conn[c].proc
    BY <1>2, <1>3 DEF Share, SameShare, Subscriptions, SubModes
  <2> QED  BY <1>3, <2>1 DEF Faithful
<1> QED  BY <1>1, <1>2, <1>3 DEF ShareInv

\* A ring that is left as it is, too.
LEMMA RingKept ==
  ASSUME NEW p \in Procs, RingInv(p), pub'[p] = pub[p], hub'[p].pending = hub[p].pending,
         \A c \in Subscriptions : /\ c \in Subscriptions' /\ conn'[c].proc = conn[c].proc
                                  /\ from'[c] = from[c] /\ (conn[c].proc = p => upto'[c] = upto[c])
  PROVE  RingInv(p)'
<1>1. \A i : Covered(p, i) => Covered(p, i)'
  BY DEF Covered
<1> QED  BY <1>1 DEF RingInv

\* The steps that publish nothing and give nobody a share.
LEMMA StreamsKept ==
  ASSUME AgentInv, IInv', HistoryTypes', UNCHANGED <<pub, from, upto, missed>>,
         \A p \in Procs : ProcInv(p)' /\ hub'[p].pending = hub[p].pending,
         \A c \in Clients : CallInv(c)' /\ SameShare(c)
  PROVE  AgentInv'
<1>1. ASSUME NEW p \in Procs PROVE RingInv(p)'
  <2>1. \A c \in Subscriptions : c \in Subscriptions' /\ conn'[c].proc = conn[c].proc
    BY DEF Subscriptions, SameShare, SubModes
  <2> QED  BY <2>1, RingKept DEF AgentInv
<1>2. \A c \in Clients : ShareInv(c)'
  BY ShareKept DEF AgentInv
<1> QED  BY <1>1, <1>2 DEF AgentInv

\* The steps of a process and its goroutines that leave hubs and connections alone.
LEMMA QuietKept ==
  ASSUME AgentInv, IInv', HistoryTypes', UNCHANGED <<hub, conn, pub, from, upto, missed>>,
         NEW p \in Procs,
         \A q \in Procs \ {p} : child'[q] = child[q] /\ waiter'[q] = waiter[q] /\ reader'[q] = reader[q],
         table' \subseteq table \cup {p}, ProcInv(p)', Lasting(p)
  PROVE  AgentInv'
<1>1. \A q \in Procs \ {p} : ProcInv(q)' /\ Lasting(q)
  BY ProcKept DEF AgentInv, Lasting
<1>2. \A c \in Clients : CallInv(c)' /\ SameShare(c)
  BY <1>1, CallKept
<1> QED  BY <1>1, <1>2, StreamsKept

\* A process begins.
LEMMA SpawnStreams ==
  ASSUME AgentInv, NEW p \in Procs, NEW kind \in Kinds, Spawn(p, kind),
         table' = table \/ table' = table \cup {p},
         kind = "exec" => table' = table, hub'[p].closed = hub[p].closed,
         \A q \in Procs \ {p} : hub'[q].closed = hub[q].closed
  PROVE  /\ child'[p].st # "none" /\ child'[p].kind = kind /\ waiter'[p] = "waiting"
         /\ \A q \in Procs : ProcInv(q)' /\ Lasting(q)
         /\ child' \in [Procs -> [st : {"none", "running", "zombie", "reaped"}, kind : Kinds, held : BOOLEAN]]
         /\ waiter' \in [Procs -> {"none", "waiting", "reaped", "recorded", "drained", "done", "lost"}]
<1>1. HistoryTypes /\ OutputTypes /\ \A q \in Procs : ProcInv(q)
  BY DEF AgentInv, IInv
<1>2. child[p].st = "none" /\ child' = [child EXCEPT ![p] = [st |-> "running", kind |-> kind, held |-> FALSE]]
      /\ waiter' = [waiter EXCEPT ![p] = "waiting"]
  BY DEF Spawn
<1>3. \A q \in Procs \ {p} : child'[q] = child[q] /\ waiter'[q] = waiter[q] /\ reader'[q] = reader[q]
  BY <1>1 DEF Spawn, HistoryTypes, OutputTypes
<1>4. child'[p].st = "running" /\ child'[p].kind = kind /\ waiter'[p] = "waiting" /\ waiter[p] = "none"
  BY <1>1, <1>2 DEF HistoryTypes, ProcInv
<1>5. ProcInv(p)' /\ Lasting(p)
  BY <1>1, <1>2, <1>4 DEF ProcInv, Lasting
<1>6. \A q \in Procs \ {p} : ProcInv(q)' /\ Lasting(q)
  BY <1>1, <1>3, ProcKept DEF Lasting
<1>7. /\ child' \in [Procs -> [st : {"none", "running", "zombie", "reaped"}, kind : Kinds, held : BOOLEAN]]
      /\ waiter' \in [Procs -> {"none", "waiting", "reaped", "recorded", "drained", "done", "lost"}]
  BY <1>1, <1>2 DEF HistoryTypes
<1> QED  BY <1>4, <1>5, <1>6, <1>7

-----------------------------------------------------------------------------
\* The child, its readers and its wait goroutine, but for what they publish and close.
LEMMA QuietSteps ==
  ASSUME AgentInv, IInv', NEW p \in Procs,
         \/ StartProcess(p) \/ ChildExits(p) \/ LetGo(p) \/ CmdWait(p) \/ RecordExit(p) \/ CloseDone(p) \/ Forget(p)
         \/ \E s \in AllStreams : ChildWrites(p, s) \/ Read(p, s) \/ ReadEnds(p, s)
  PROVE  AgentInv'
<1>1. HistoryTypes /\ OutputTypes /\ ProcInv(p)
  BY DEF AgentInv, IInv
<1>2. CASE StartProcess(p)
  <2>1. Spawn(p, "pty") /\ table' = table \cup {p} /\ UNCHANGED <<hub, conn, pub, from, upto, missed>>
    BY <1>2 DEF StartProcess, startPTYProcess, Spawn
  <2>2. "pty" \in Kinds /\ "pty" # "exec"
    BY DEF Kinds
  <2>3. /\ \A q \in Procs : ProcInv(q)' /\ Lasting(q)
        /\ child' \in [Procs -> [st : {"none", "running", "zombie", "reaped"}, kind : Kinds, held : BOOLEAN]]
        /\ waiter' \in [Procs -> {"none", "waiting", "reaped", "recorded", "drained", "done", "lost"}]
    BY <2>1, <2>2, SpawnStreams
  <2>4. HistoryTypes'
    BY <1>1, <2>1, <2>3 DEF HistoryTypes
  <2>5. \A c \in Clients : CallInv(c)' /\ SameShare(c)
    BY <2>1, <2>3, CallKept
  <2> QED  BY <2>1, <2>3, <2>4, <2>5, StreamsKept
<1>3. CASE ChildExits(p) \/ LetGo(p)
  <2>1. /\ \E held \in BOOLEAN :
             \/ child[p].st = "running" /\ child' = [child EXCEPT ![p].st = "zombie", ![p].held = held]
             \/ child' = [child EXCEPT ![p].held = held]
        /\ UNCHANGED <<reader, waiter, table, hub, conn, pub, from, upto, missed>>
    BY <1>3 DEF ChildExits, Dies, LetGo, history
  <2>2. child'[p].kind = child[p].kind /\ (child'[p].st = "none" <=> child[p].st = "none")
    BY <1>1, <2>1 DEF HistoryTypes
  <2>3. HistoryTypes'
    BY <1>1, <2>1 DEF HistoryTypes
  <2>4. ProcInv(p)' /\ Lasting(p)
    BY <1>1, <2>1, <2>2 DEF ProcInv, Lasting, ReadersEnded
  <2>5. \A q \in Procs \ {p} : child'[q] = child[q]
    BY <1>1, <2>1 DEF HistoryTypes
  <2> QED  BY <2>1, <2>3, <2>4, <2>5, QuietKept
<1>4. CASE CmdWait(p)
  <2>1. /\ waiter[p] = "waiting" /\ child[p].st = "zombie"
        /\ child' = [child EXCEPT ![p].st = "reaped"] /\ waiter' = [waiter EXCEPT ![p] = "reaped"]
        /\ UNCHANGED <<reader, table, hub, conn, pub, from, upto, missed>>
    BY <1>4 DEF CmdWait, history
  <2>2. child'[p].st = "reaped" /\ child'[p].kind = child[p].kind /\ waiter'[p] = "reaped"
    BY <1>1, <2>1 DEF HistoryTypes
  <2>3. HistoryTypes'
    BY <1>1, <2>1 DEF HistoryTypes
  <2>4. ProcInv(p)' /\ Lasting(p)
    BY <1>1, <2>1, <2>2 DEF ProcInv, Lasting, ReadersEnded
  <2>5. \A q \in Procs \ {p} : child'[q] = child[q] /\ waiter'[q] = waiter[q]
    BY <1>1, <2>1 DEF HistoryTypes
  <2> QED  BY <2>1, <2>3, <2>4, <2>5, QuietKept
<1>5. CASE RecordExit(p) \/ CloseDone(p)
  <2>1. PICK at \in {"reaped", "drained"}, next \in {"recorded", "done"} :
          /\ at = "reaped" <=> next = "recorded"
          /\ waiter[p] = at /\ waiter' = [waiter EXCEPT ![p] = next]
          /\ UNCHANGED <<child, reader, table, hub, conn, pub, from, upto, missed>>
    <3>1. CASE RecordExit(p)
      <4>1. /\ waiter[p] = "reaped" /\ waiter' = [waiter EXCEPT ![p] = "recorded"]
            /\ UNCHANGED <<child, reader, table, hub, conn, pub, from, upto, missed>>
        BY <3>1 DEF RecordExit, WaiterStep, history
      <4> QED  BY <4>1
    <3>2. CASE CloseDone(p)
      <4>1. /\ waiter[p] = "drained" /\ waiter' = [waiter EXCEPT ![p] = "done"]
            /\ UNCHANGED <<child, reader, table, hub, conn, pub, from, upto, missed>>
        BY <3>2 DEF CloseDone, WaiterStep, history
      <4> QED  BY <4>1
    <3> QED  BY <1>5, <3>1, <3>2
  <2>2. waiter'[p] = next
    BY <1>1, <2>1 DEF HistoryTypes
  <2>3. HistoryTypes'
    BY <1>1, <2>1 DEF HistoryTypes
  <2>4. ProcInv(p)' /\ Lasting(p)
    BY <1>1, <2>1, <2>2 DEF ProcInv, Lasting, ReadersEnded
  <2>5. \A q \in Procs \ {p} : waiter'[q] = waiter[q]
    BY <1>1, <2>1 DEF HistoryTypes
  <2> QED  BY <2>1, <2>3, <2>4, <2>5, QuietKept
<1>6. CASE Forget(p)
  <2>1. table' = table \ {p} /\ UNCHANGED <<child, reader, waiter, hub, conn, pub, from, upto, missed>>
    BY <1>6 DEF Forget, history
  <2>2. ProcInv(p)' /\ Lasting(p) /\ HistoryTypes'
    BY <1>1, <2>1 DEF ProcInv, Lasting, ReadersEnded, HistoryTypes
  <2> QED  BY <2>1, <2>2, QuietKept
<1>7. ASSUME NEW s \in AllStreams, ChildWrites(p, s)
      PROVE  AgentInv'
  <2>1. UNCHANGED <<child, reader, waiter, table, hub, conn, pub, from, upto, missed>>
    BY <1>7 DEF ChildWrites
  <2>2. ProcInv(p)' /\ Lasting(p) /\ HistoryTypes'
    BY <1>1, <2>1 DEF ProcInv, Lasting, ReadersEnded, HistoryTypes
  <2> QED  BY <2>1, <2>2, QuietKept
<1>8. ASSUME NEW s \in AllStreams, Read(p, s) \/ ReadEnds(p, s)
      PROVE  AgentInv'
  <2>1. /\ reader[p][s].pc = "reading" /\ \E new : reader' = [reader EXCEPT ![p][s] = new]
        /\ UNCHANGED <<child, waiter, table, hub, conn, pub, from, upto, missed>>
    BY <1>8 DEF Read, ReadEnds, history
  <2>2. \A q \in Procs \ {p} : reader'[q] = reader[q]
    BY <1>1, <2>1 DEF OutputTypes
  <2>3. ~ReadersEnded(p)
    BY <2>1 DEF ReadersEnded
  <2>4. ProcInv(p)' /\ Lasting(p) /\ HistoryTypes'
    BY <1>1, <2>1, <2>3 DEF ProcInv, Lasting, HistoryTypes
  <2> QED  BY <2>1, <2>2, <2>4, QuietKept
<1> QED  BY <1>2, <1>3, <1>4, <1>5, <1>6, <1>7, <1>8

\* The hub is closed when the readers have ended: its calls have all that was published.
LEMMA CloseOutputStreams ==
  ASSUME AgentInv, IInv', NEW p \in Procs, CloseOutput(p)
  PROVE  AgentInv'
<1>1. HistoryTypes /\ OutputTypes /\ HubTypes /\ \A q \in Procs : ProcInv(q)
  BY DEF AgentInv, IInv, HubInv
<1>2. /\ waiter[p] = "recorded" /\ waiter' = [waiter EXCEPT ![p] = "drained"] /\ ReadersEnded(p)
      /\ CloseHub(p) /\ UNCHANGED <<child, reader, table, pub, from, upto, missed>>
  BY DEF CloseOutput, WaiterStep, history
<1>3. /\ \A q \in Procs \ {p} : hub'[q] = hub[q]
      /\ hub'[p].closed = TRUE /\ hub'[p].pending = hub[p].pending
      /\ \A c \in Clients :
           /\ conn'[c].st = conn[c].st /\ conn'[c].mode = conn[c].mode /\ conn'[c].proc = conn[c].proc
           /\ (conn'[c].open <=> (conn[c].open /\ c \notin hub[p].subs))
           /\ conn'[c].buf = conn[c].buf /\ conn'[c].got = conn[c].got /\ conn'[c].end = conn[c].end
  BY <1>1, <1>2, HubClosed
<1>4. HistoryTypes' /\ waiter'[p] = "drained" /\ \A q \in Procs \ {p} : waiter'[q] = waiter[q]
  BY <1>1, <1>2 DEF HistoryTypes
<1>5. ASSUME NEW q \in Procs PROVE ProcInv(q)' /\ Lasting(q) /\ hub'[q].pending = hub[q].pending
  <2>1. CASE q = p
    BY <1>1, <1>2, <1>3, <1>4, <2>1 DEF ProcInv, Lasting, ReadersEnded
  <2>2. CASE q # p
    BY <1>1, <1>2, <1>3, <1>4, <2>2, ProcKept DEF Lasting
  <2> QED  BY <2>1, <2>2
<1>6. ASSUME NEW c \in Clients PROVE CallInv(c)' /\ SameShare(c)
  <2>1. CallInv(c) /\ (conn[c].mode \in Calls => conn[c].proc \in Procs)
    BY DEF AgentInv, IInv, HubInv, ConnInv, Calls, SubModes
  <2>2. SameShare(c)
    BY <1>3 DEF SameShare, Delivered
  <2>3. c \in hub[p].subs => conn[c].proc = p
    BY DEF AgentInv, IInv, HubInv, HubSound, SubsInv
  <2>4. CallInv(c)'
    BY <1>2, <1>3, <1>5, <2>1, <2>3 DEF CallInv, Lasting, Calls, SubModes
  <2> QED  BY <2>2, <2>4
<1> QED  BY <1>2, <1>4, <1>5, <1>6, StreamsKept

-----------------------------------------------------------------------------
(* A chunk is published.                                                    *)

\* A share that gets nothing more, of an output that goes on.
LEMMA PlacedStays ==
  ASSUME NEW out \in Ring, NEW longer, NEW got, NEW place, NEW share \in SUBSET (1..Len(out)),
         Placed(place, got, share, out), \A i \in 1..Len(out) : longer[i] = out[i]
  PROVE  Placed(place, got, share, longer)
<1>1. \A i \in DOMAIN got : place[i] \in 1..Len(out)
  BY DEF Placed
<1>2. \A i \in DOMAIN got : got[i] = longer[place[i]]
  BY <1>1 DEF Placed
<1> QED  BY <1>2 DEF Placed

\* A share that gets the chunk that is published.
LEMMA PlacedGrows ==
  ASSUME NEW out \in Ring, NEW chunk \in Chunk, NEW got \in Ring, NEW place,
         NEW share \in SUBSET (1..Len(out)), Placed(place, got, share, out)
  PROVE  \E more : Placed(more, Append(got, chunk), share \cup {Len(out) + 1}, Append(out, chunk))
<1> DEFINE n      == Len(got)
           l      == Len(out)
           got2   == Append(got, chunk)
           out2   == Append(out, chunk)
           share2 == share \cup {l + 1}
<1>1. n \in Nat /\ l \in Nat /\ DOMAIN got = 1..n
  BY DEF Ring
<1>2. DOMAIN got2 = 1..n + 1 /\ got2[n + 1] = chunk /\ \A i \in 1..n : got2[i] = got[i]
  BY DEF Ring
<1>3. out2[l + 1] = chunk /\ \A i \in 1..l : out2[i] = out[i]
  BY DEF Ring
<1>4. share \subseteq 1..l
  OBVIOUS
<1> HIDE DEF n, l, got2, out2
<1>5. /\ \A i, j \in 1..n : i < j => place[i] < place[j]
      /\ \A k \in share : \E i \in 1..n : place[i] = k
      /\ \A i \in 1..n : place[i] \in share /\ got[i] = out[place[i]]
  BY <1>1 DEF Placed
<1> DEFINE more == [i \in 1..n + 1 |-> IF i = n + 1 THEN l + 1 ELSE place[i]]
<1>6. \A i \in 1..n : i # n + 1 /\ i \in 1..n + 1
  BY <1>1
<1>7. \A i \in 1..n + 1 : i = n + 1 \/ i \in 1..n
  BY <1>1
<1>8. n + 1 \in 1..n + 1
  BY <1>1
<1>9. more[n + 1] = l + 1 /\ \A i \in 1..n : more[i] = place[i]
  BY <1>6, <1>8
<1>10. more \in [1..n + 1 -> share2]
  BY <1>5, <1>7
<1> HIDE DEF more
<1>11. \A i, j \in 1..n + 1 : i < j => more[i] < more[j]
  <2>1. ASSUME NEW i \in 1..n PROVE more[i] < l + 1
    <3>1. more[i] \in 1..l
      BY <1>4, <1>5, <1>9
    <3> QED  BY <1>1, <3>1
  <2>2. \A i, j \in 1..n : i < j => more[i] < more[j]
    BY <1>5, <1>9
  <2>3. \A i, j \in 1..n + 1 : i < j => i \in 1..n
    BY <1>1
  <2> QED  BY <1>7, <1>9, <2>1, <2>2, <2>3
<1>12. \A k \in share2 : \E i \in 1..n + 1 : more[i] = k
  BY <1>5, <1>6, <1>8, <1>9
<1>13. ASSUME NEW i \in 1..n + 1 PROVE got2[i] = out2[more[i]]
  <2>1. CASE i = n + 1
    BY <1>2, <1>3, <1>9, <2>1
  <2>2. CASE i \in 1..n
    <3>1. more[i] = place[i] /\ place[i] \in 1..l
      BY <1>4, <1>5, <1>9, <2>2
    <3> QED  BY <1>2, <1>3, <1>5, <2>2, <3>1
  <2> QED  BY <1>7, <2>1, <2>2
<1>14. Placed(more, got2, share2, out2)
  BY <1>2, <1>10, <1>11, <1>12, <1>13 DEF Placed
<1> QED  BY <1>14 DEF got2, out2, l

\* A chunk that joins the channel joins what the connection has been given.
LEMMA Concatenated ==
  ASSUME NEW a \in Seq(Chunk), NEW b \in Seq(Chunk), NEW e \in Chunk
  PROVE  a \o Append(b, e) = Append(a \o b, e)
<1> DEFINE ab == a \o b
           be == Append(b, e)
<1>1. /\ ab \in Seq(Chunk) /\ Len(ab) = Len(a) + Len(b)
      /\ \A i \in 1..Len(a) + Len(b) : ab[i] = IF i <= Len(a) THEN a[i] ELSE b[i - Len(a)]
  BY ConcatProperties
<1>2. be \in Seq(Chunk) /\ Len(be) = Len(b) + 1 /\ be[Len(b) + 1] = e /\ \A i \in 1..Len(b) : be[i] = b[i]
  OBVIOUS
<1>3. /\ a \o be \in Seq(Chunk) /\ Len(a \o be) = Len(a) + Len(be)
      /\ \A i \in 1..Len(a) + Len(be) : (a \o be)[i] = IF i <= Len(a) THEN a[i] ELSE be[i - Len(a)]
  BY <1>2, ConcatProperties
<1>4. /\ Append(ab, e) \in Seq(Chunk) /\ Len(Append(ab, e)) = Len(ab) + 1
      /\ Append(ab, e)[Len(ab) + 1] = e /\ \A i \in 1..Len(ab) : Append(ab, e)[i] = ab[i]
  BY <1>1
<1>5. Len(a) \in Nat /\ Len(b) \in Nat
  OBVIOUS
<1> HIDE DEF ab, be
<1>6. Len(a \o be) = Len(Append(ab, e))
  BY <1>1, <1>2, <1>3, <1>4, <1>5
<1>7. ASSUME NEW i \in 1..Len(a) + Len(b) + 1 PROVE (a \o be)[i] = Append(ab, e)[i]
  <2>1. CASE i <= Len(a)
    BY <1>1, <1>2, <1>3, <1>4, <1>5, <2>1
  <2>2. CASE i > Len(a) /\ i <= Len(a) + Len(b)
    <3>1. i - Len(a) \in 1..Len(b) /\ i \in 1..Len(a) + Len(b) /\ i \in 1..Len(a) + Len(be)
      BY <1>2, <1>5, <2>2
    <3>2. (a \o be)[i] = b[i - Len(a)]
      BY SMTT(30), <1>2, <1>3, <1>5, <2>2, <3>1
    <3>3. Append(ab, e)[i] = b[i - Len(a)]
      BY <1>1, <1>4, <1>5, <2>2, <3>1
    <3> QED  BY <3>2, <3>3
  <2>3. CASE i = Len(a) + Len(b) + 1
    <3>1. i - Len(a) = Len(b) + 1 /\ i = Len(ab) + 1 /\ i \in 1..Len(a) + Len(be) /\ ~(i <= Len(a))
      BY <1>1, <1>2, <1>5, <2>3
    <3>2. (a \o be)[i] = e
      BY <1>2, <1>3, <3>1
    <3>3. Append(ab, e)[i] = e
      BY <1>4, <3>1
    <3> QED  BY <3>2, <3>3
  <2>4. i <= Len(a) \/ (i > Len(a) /\ i <= Len(a) + Len(b)) \/ i = Len(a) + Len(b) + 1
    BY <1>5
  <2> QED  BY <2>1, <2>2, <2>3, <2>4
<1>8. \A i \in 1..Len(a \o be) : (a \o be)[i] = Append(ab, e)[i]
  <2>1. Len(a \o be) = Len(a) + Len(b) + 1
    BY <1>2, <1>3, <1>5
  <2> QED  BY <1>7, <2>1
<1>9. a \o be = Append(ab, e)
  BY <1>3, <1>4, <1>6, <1>8, SeqEqual
<1> QED  BY <1>9 DEF ab, be

\* A chunk that a connection takes from its channel is still among what it has been given.
LEMMA Received ==
  ASSUME NEW a \in Seq(Chunk), NEW b \in Seq(Chunk), b # << >>
  PROVE  Append(a, Head(b)) \o Tail(b) = a \o b
<1> DEFINE t == Tail(b)
           h == Head(b)
           ah == Append(a, h)
<1>1. h \in Chunk /\ h = b[1] /\ t \in Seq(Chunk) /\ Len(t) = Len(b) - 1 /\ \A i \in 1..Len(t) : t[i] = b[i + 1]
  BY HeadTailProperties
<1>2. ah \in Seq(Chunk) /\ Len(ah) = Len(a) + 1 /\ ah[Len(a) + 1] = h /\ \A i \in 1..Len(a) : ah[i] = a[i]
  BY <1>1
<1>3. Len(a) \in Nat /\ Len(b) \in Nat /\ Len(b) > 0
  OBVIOUS
<1>4. /\ ah \o t \in Seq(Chunk) /\ Len(ah \o t) = Len(ah) + Len(t)
      /\ \A i \in 1..Len(ah) + Len(t) : (ah \o t)[i] = IF i <= Len(ah) THEN ah[i] ELSE t[i - Len(ah)]
  BY <1>1, <1>2, ConcatProperties
<1>5. /\ a \o b \in Seq(Chunk) /\ Len(a \o b) = Len(a) + Len(b)
      /\ \A i \in 1..Len(a) + Len(b) : (a \o b)[i] = IF i <= Len(a) THEN a[i] ELSE b[i - Len(a)]
  BY ConcatProperties
<1> HIDE DEF t, h, ah
<1>6. Len(ah \o t) = Len(a \o b) /\ Len(ah) + Len(t) = Len(a) + Len(b)
  BY <1>1, <1>2, <1>3, <1>4, <1>5
<1>7. ASSUME NEW i \in 1..Len(a) + Len(b) PROVE (ah \o t)[i] = (a \o b)[i]
  <2>1. CASE i <= Len(a)
    <3>1. i \in 1..Len(a) /\ i <= Len(ah)
      BY <1>2, <1>3, <2>1
    <3>2. (ah \o t)[i] = a[i]
      BY <1>2, <1>4, <1>6, <3>1
    <3> QED  BY <1>5, <2>1, <3>2
  <2>2. CASE i = Len(a) + 1
    <3>1. i <= Len(ah) /\ ~(i <= Len(a)) /\ i - Len(a) = 1
      BY <1>2, <1>3, <2>2
    <3>2. (ah \o t)[i] = h
      BY <1>2, <1>4, <1>6, <2>2, <3>1
    <3>3. (a \o b)[i] = b[1]
      BY <1>5, <3>1
    <3> QED  BY <1>1, <3>2, <3>3
  <2>3. CASE i > Len(a) + 1
    <3>1. /\ ~(i <= Len(ah)) /\ ~(i <= Len(a)) /\ i - Len(ah) \in 1..Len(t)
          /\ i - Len(ah) + 1 = i - Len(a)
      BY <1>1, <1>2, <1>3, <2>3
    <3>2. (ah \o t)[i] = t[i - Len(ah)]
      BY <1>4, <1>6, <3>1
    <3>3. (a \o b)[i] = b[i - Len(a)]
      BY <1>5, <3>1
    <3>4. t[i - Len(ah)] = b[i - Len(a)]
      BY <1>1, <3>1
    <3> QED  BY <3>2, <3>3, <3>4
  <2>4. i <= Len(a) \/ i = Len(a) + 1 \/ i > Len(a) + 1
    BY <1>3
  <2> QED  BY <2>1, <2>2, <2>3, <2>4
<1>8. ah \o t = a \o b
  BY <1>4, <1>5, <1>6, <1>7, SeqEqual
<1> QED  BY <1>8 DEF t, h, ah

\* The ring of a hub that nobody listens to takes the chunk: it still ends as the output does.
LEMMA RingGrows ==
  ASSUME NEW out \in Ring, NEW ring \in Ring, Len(ring) <= Buffer, Len(ring) <= Len(out), NEW chunk \in Chunk,
         \A k \in 1..Len(ring) : ring[k] = out[Len(out) - Len(ring) + k]
  PROVE  /\ Remember(ring, chunk) \in Ring
         /\ Len(Remember(ring, chunk)) <= Len(Append(out, chunk))
         /\ \/ Len(Remember(ring, chunk)) = Len(ring) + 1
            \/ Len(Remember(ring, chunk)) = Buffer
         /\ \A k \in 1..Len(Remember(ring, chunk)) :
              Remember(ring, chunk)[k] =
                Append(out, chunk)[Len(Append(out, chunk)) - Len(Remember(ring, chunk)) + k]
<1> DEFINE L    == Len(ring)
           P    == Len(out)
           R    == Remember(ring, chunk)
           all  == Append(ring, chunk)
           out2 == Append(out, chunk)
<1>1. L \in Nat /\ P \in Nat /\ L <= P /\ L <= Buffer /\ Buffer \in Nat /\ Buffer # 0
  BY DEF Ring
<1>2. \A k \in 1..L : ring[k] = out[P - L + k]
  OBVIOUS
<1>3. out2 \in Seq(Chunk) /\ Len(out2) = P + 1 /\ out2[P + 1] = chunk /\ \A i \in 1..P : out2[i] = out[i]
  BY DEF Ring
<1>4. all \in Seq(Chunk) /\ Len(all) = L + 1 /\ all[L + 1] = chunk /\ \A k \in 1..L : all[k] = ring[k]
  BY DEF Ring
<1>5. R = IF L + 1 > Buffer THEN SubSeq(all, L + 1 - Buffer + 1, L + 1) ELSE all
  BY <1>4 DEF Remember
<1> HIDE DEF L, P, all, out2, R
<1>6. ASSUME NEW k \in 1..L + 1 PROVE all[k] = out2[P - L + k]
  <2>1. CASE k \in 1..L
    <3>1. P - L + k \in 1..P
      BY <1>1, <2>1
    <3> QED  BY <1>2, <1>3, <1>4, <2>1, <3>1
  <2>2. CASE k = L + 1
    <3>1. P - L + k = P + 1
      BY <1>1, <2>2
    <3> QED  BY <1>3, <1>4, <2>2, <3>1
  <2> QED  BY <1>1, <2>1, <2>2
<1>7. CASE L + 1 <= Buffer
  <2>1. R = all
    BY <1>1, <1>5, <1>7
  <2>2. Len(out2) - Len(R) = P - L
    <3>1. Len(R) = L + 1 /\ Len(out2) = P + 1
      BY <1>3, <1>4, <2>1
    <3> QED  BY <1>1, <3>1
  <2>3. \A k \in 1..Len(R) : R[k] = out2[Len(out2) - Len(R) + k]
    BY <1>4, <1>6, <2>1, <2>2
  <2>4. Len(R) = L + 1 /\ Len(R) <= Len(out2) /\ R \in Ring
    BY <1>1, <1>3, <1>4, <2>1 DEF Ring
  <2> QED  BY <2>3, <2>4 DEF R, out2, L
<1>8. CASE L + 1 > Buffer
  <2>1. L = Buffer
    BY <1>1, <1>8
  <2>2. R = SubSeq(all, 2, L + 1)
    <3>1. L + 1 - Buffer + 1 = 2
      BY <1>1, <2>1
    <3> QED  BY <1>5, <1>8, <3>1
  <2>3. R \in Seq(Chunk) /\ Len(R) = L /\ \A k \in 1..L : R[k] = all[k + 1]
    BY <1>1, <1>4, <2>1, <2>2
  <2>4. Len(out2) - Len(R) = P - L + 1
    BY <1>1, <1>3, <2>3
  <2>5. ASSUME NEW k \in 1..Len(R) PROVE R[k] = out2[Len(out2) - Len(R) + k]
    <3>1. k \in 1..L /\ P - L + 1 + k = Len(out2) - Len(R) + k
      BY <2>3, <2>4
    <3>0. k + 1 \in 1..L + 1 /\ P - L + (k + 1) = P - L + 1 + k
      BY <1>1, <3>1
    <3>2. all[k + 1] = out2[P - L + (k + 1)]
      BY <1>6, <3>0
    <3> QED  BY <2>3, <3>0, <3>1, <3>2
  <2>6. Len(R) = Buffer /\ Len(R) <= Len(out2) /\ R \in Ring
    BY <1>1, <1>3, <2>1, <2>3 DEF Ring
  <2> QED  BY <2>5, <2>6 DEF R, out2
<1>9. L + 1 <= Buffer \/ L + 1 > Buffer
  BY <1>1
<1> QED  BY <1>7, <1>8, <1>9

\* What publish changes, of a hub that is not closed.
LEMMA Published ==
  ASSUME HubInv, HistoryTypes, NEW p \in Procs, NEW chunk \in Chunk, Publish(p, chunk), ~hub[p].closed,
         UNCHANGED from
  PROVE  /\ pub' = [pub EXCEPT ![p] = Append(pub[p], chunk)]
         /\ \A q \in Procs : hub'[q].closed = hub[q].closed
         /\ \A q \in Procs \ {p} : hub'[q] = hub[q]
         /\ hub[p].subs = {} => /\ hub'[p].pending = Remember(hub[p].pending, chunk)
                                /\ UNCHANGED <<conn, upto, missed>>
         /\ hub[p].subs # {} => hub' = hub
         /\ upto' \in [Clients -> Nat] /\ missed' \in [Clients -> SUBSET Nat]
         /\ \A c \in Clients :
              /\ conn'[c].st = conn[c].st /\ conn'[c].mode = conn[c].mode /\ conn'[c].proc = conn[c].proc
              /\ conn'[c].open = conn[c].open /\ conn'[c].got = conn[c].got /\ conn'[c].end = conn[c].end
              /\ c \notin hub[p].subs => /\ conn'[c].buf = conn[c].buf
                                         /\ upto'[c] = upto[c] /\ missed'[c] = missed[c]
              /\ c \in hub[p].subs =>
                   /\ upto'[c] = Len(pub'[p])
                   /\ \/ conn'[c].buf = conn[c].buf /\ missed'[c] = missed[c] \cup {Len(pub'[p])}
                      \/ conn'[c].buf = Append(conn[c].buf, chunk) /\ missed'[c] = missed[c]
<1>1. hub \in [Procs -> Hub] /\ hub[p] \in Hub /\ conn \in [Clients -> Conn]
  BY DEF HubInv, HubTypes
<1>2. pub' = [pub EXCEPT ![p] = Append(pub[p], chunk)]
  BY DEF Publish
<1>3. Len(pub'[p]) \in Nat
  <2>1. pub[p] \in Seq(Chunk) /\ pub'[p] = Append(pub[p], chunk)
    BY <1>2 DEF HistoryTypes, Ring
  <2>2. pub'[p] \in Seq(Chunk)
    BY <2>1
  <2> QED  BY <2>2
<1>4. CASE hub[p].subs = {}
  <2> DEFINE n == [hub[p] EXCEPT !.pending = Remember(hub[p].pending, chunk)]
  <2>1. hub' = [hub EXCEPT ![p] = n] /\ UNCHANGED <<conn, upto, missed>>
    BY <1>4 DEF Publish
  <2>2. n.closed = hub[p].closed /\ n.pending = Remember(hub[p].pending, chunk)
    BY <1>1 DEF Hub
  <2> HIDE DEF n
  <2>3. /\ hub'[p].closed = hub[p].closed /\ hub'[p].pending = Remember(hub[p].pending, chunk)
        /\ \A q \in Procs \ {p} : hub'[q] = hub[q]
    BY <1>1, <2>1, <2>2
  <2> QED  BY <1>2, <1>4, <2>1, <2>3 DEF HistoryTypes
<1>5. CASE hub[p].subs # {}
  <2>1. /\ hub' = hub
        /\ conn' = [c \in Clients |-> IF c \in hub[p].subs /\ ~Full(c)
                      THEN [conn[c] EXCEPT !.buf = Append(@, chunk)] ELSE conn[c]]
        /\ missed' = [c \in Clients |-> IF c \in hub[p].subs /\ Full(c)
                        THEN missed[c] \cup {Len(pub'[p])} ELSE missed[c]]
        /\ upto' = [c \in Clients |-> IF c \in hub[p].subs THEN Len(pub'[p]) ELSE upto[c]]
    BY <1>5 DEF Publish
  <2>2. upto' \in [Clients -> Nat] /\ missed' \in [Clients -> SUBSET Nat]
    <3>1. \A c \in Clients : upto'[c] \in Nat /\ missed'[c] \in SUBSET Nat
      BY <1>3, <2>1 DEF HistoryTypes
    <3> QED  BY <2>1, <3>1
  <2>3. ASSUME NEW c \in Clients
        PROVE  /\ conn'[c].st = conn[c].st /\ conn'[c].mode = conn[c].mode /\ conn'[c].proc = conn[c].proc
               /\ conn'[c].open = conn[c].open /\ conn'[c].got = conn[c].got /\ conn'[c].end = conn[c].end
               /\ conn'[c].buf = IF c \in hub[p].subs /\ ~Full(c) THEN Append(conn[c].buf, chunk)
                                 ELSE conn[c].buf
    <3>1. conn[c] \in Conn
      BY <1>1
    <3>2. CASE c \in hub[p].subs /\ ~Full(c)
      <4>1. conn'[c] = [conn[c] EXCEPT !.buf = Append(@, chunk)]
        BY <2>1, <3>2
      <4> QED  BY <3>1, <3>2, <4>1 DEF Conn
    <3>3. CASE ~(c \in hub[p].subs /\ ~Full(c))
      BY <2>1, <3>3
    <3> QED  BY <3>2, <3>3
  <2>4. ASSUME NEW c \in Clients
        PROVE  /\ c \notin hub[p].subs => upto'[c] = upto[c] /\ missed'[c] = missed[c]
               /\ c \in hub[p].subs => /\ upto'[c] = Len(pub'[p])
                                       /\ Full(c) => missed'[c] = missed[c] \cup {Len(pub'[p])}
                                       /\ ~Full(c) => missed'[c] = missed[c]
    BY <2>1
  <2> QED  BY <1>1, <1>2, <1>5, <2>1, <2>2, <2>3, <2>4
<1> QED  BY <1>4, <1>5

\* A reader publishes: the ring and every share take the chunk or record that they did not.
LEMMA PublishStreams ==
  ASSUME AgentInv, IInv', NEW p \in Procs, NEW s \in AllStreams, PublishRead(p, s), child[p].kind # "exec"
  PROVE  AgentInv'
<1> DEFINE chunk == <<s, reader[p][s].chunk>>
           P     == Len(pub[p])
<1>1. /\ HistoryTypes /\ OutputTypes /\ HubInv /\ hub \in [Procs -> Hub] /\ conn \in [Clients -> Conn]
      /\ \A q \in Procs : ProcInv(q) /\ RingInv(q)
      /\ \A c \in Clients : CallInv(c) /\ ShareInv(c)
  BY DEF AgentInv, IInv, HubInv, HubTypes
<1>2. /\ reader[p][s].pc = "publishing" /\ Publish(p, chunk)
      /\ reader' = [reader EXCEPT ![p][s] = [pc |-> "reading", chunk |-> 0]]
      /\ UNCHANGED <<child, waiter, table, from>>
  BY DEF PublishRead
<1>3. chunk \in Chunk
  BY <1>1 DEF OutputTypes, Reader, Chunk
<1>4. ~ReadersEnded(p)
  BY <1>2 DEF ReadersEnded
<1>5. ~hub[p].closed /\ waiter[p] \in {"waiting", "reaped", "recorded"}
  BY <1>1, <1>4 DEF ProcInv, HistoryTypes
<1> HIDE DEF chunk
<1>6. /\ pub' = [pub EXCEPT ![p] = Append(pub[p], chunk)]
      /\ \A q \in Procs : hub'[q].closed = hub[q].closed
      /\ \A q \in Procs \ {p} : hub'[q] = hub[q]
      /\ hub[p].subs = {} => /\ hub'[p].pending = Remember(hub[p].pending, chunk)
                             /\ UNCHANGED <<conn, upto, missed>>
      /\ hub[p].subs # {} => hub' = hub
      /\ upto' \in [Clients -> Nat] /\ missed' \in [Clients -> SUBSET Nat]
      /\ \A c \in Clients :
           /\ conn'[c].st = conn[c].st /\ conn'[c].mode = conn[c].mode /\ conn'[c].proc = conn[c].proc
           /\ conn'[c].open = conn[c].open /\ conn'[c].got = conn[c].got /\ conn'[c].end = conn[c].end
           /\ c \notin hub[p].subs => /\ conn'[c].buf = conn[c].buf
                                      /\ upto'[c] = upto[c] /\ missed'[c] = missed[c]
           /\ c \in hub[p].subs =>
                /\ upto'[c] = Len(pub'[p])
                /\ \/ conn'[c].buf = conn[c].buf /\ missed'[c] = missed[c] \cup {Len(pub'[p])}
                   \/ conn'[c].buf = Append(conn[c].buf, chunk) /\ missed'[c] = missed[c]
  BY <1>1, <1>2, <1>3, <1>5, Published
<1>7. /\ pub'[p] = Append(pub[p], chunk) /\ pub'[p] \in Ring /\ pub[p] \in Ring
      /\ P \in Nat /\ Len(pub'[p]) = P + 1 /\ \A i \in 1..P : pub'[p][i] = pub[p][i]
      /\ \A q \in Procs \ {p} : pub'[q] = pub[q]
  <2>1. pub[p] \in Seq(Chunk) /\ pub'[p] = Append(pub[p], chunk) /\ \A q \in Procs \ {p} : pub'[q] = pub[q]
    BY <1>1, <1>6 DEF HistoryTypes, Ring
  <2>2. Append(pub[p], chunk) \in Seq(Chunk) /\ Len(Append(pub[p], chunk)) = P + 1
    BY <1>3, <2>1
  <2> QED  BY <1>3, <2>1, <2>2 DEF Ring
<1>8. HistoryTypes'
  <2>1. pub' \in [Procs -> Ring]
    BY <1>1, <1>6, <1>7 DEF HistoryTypes
  <2> QED  BY <1>1, <1>2, <1>6, <2>1 DEF HistoryTypes
<1>9. ASSUME NEW q \in Procs PROVE ProcInv(q)'
  <2>1. CASE q = p
    BY <1>1, <1>2, <1>5, <1>6, <2>1 DEF ProcInv
  <2>2. CASE q # p
    <3>1. reader'[q] = reader[q]
      BY <1>1, <1>2, <2>2 DEF OutputTypes
    <3> QED  BY <1>1, <1>2, <1>6, <3>1, ProcKept
  <2> QED  BY <2>1, <2>2
<1>10. /\ Subscriptions' = Subscriptions
       /\ \A c \in Clients : c \in hub[p].subs <=> (c \in Subscriptions /\ conn[c].open /\ conn[c].proc = p)
  BY <1>1, <1>6 DEF Subscriptions, HubInv, HubSound, SubsInv
<1>11. ASSUME NEW c \in Clients PROVE CallInv(c)'
  <2>1. c \notin hub[p].subs /\ conn[c].mode \in SubModes /\ conn[c].st = "streaming" => conn[c].proc # p
    BY <1>1, <1>5, <1>10 DEF CallInv, Subscriptions, SubModes
  <2>2. conn[c].mode \in {"start", "connect"} /\ conn[c].st = "ended" =>
          conn[c].proc # p /\ conn'[c].buf = conn[c].buf
    BY <1>1, <1>5, <1>6, <1>10 DEF CallInv
  <2>3. conn[c].mode \in SubModes => conn[c].proc \in Procs
    BY <1>1 DEF HubInv, ConnInv, SubModes
  <2>4. c \in hub[p].subs => conn[c].proc = p /\ conn[c].st = "streaming"
    BY <1>1, <1>10 DEF HubInv, ConnInv
  <2>5. conn[c].mode \in SubModes /\ conn[c].st = "streaming" => upto'[c] = Len(pub'[conn[c].proc])
    BY <1>1, <1>6, <1>7, <2>1, <2>3, <2>4 DEF CallInv
  <2>6. conn[c].mode \in {"start", "connect"} /\ conn[c].st = "ended" => upto'[c] = Len(pub'[conn[c].proc])
    BY <1>1, <1>6, <1>7, <2>2, <2>3, <2>4 DEF CallInv, SubModes
  <2> QED  BY <1>1, <1>2, <1>6, <2>2, <2>3, <2>5, <2>6 DEF CallInv, Calls, SubModes
<1>12. ASSUME NEW c \in Subscriptions
       PROVE  Share(c) \subseteq 1..Len(pub[conn[c].proc]) /\ Delivered(c) \in Ring
  <2>1. c \in Clients /\ conn[c] \in Conn /\ conn[c].proc \in Procs /\ from[c] \in Nat /\ upto[c] \in Nat
    BY <1>1 DEF Subscriptions, HubInv, ConnInv, HistoryTypes
  <2>2. 1 <= from[c] /\ upto[c] <= Len(pub[conn[c].proc]) /\ Len(pub[conn[c].proc]) \in Nat
    BY <1>1, <2>1 DEF ShareInv, HistoryTypes, Ring
  <2>3. conn[c].got \in Seq(Chunk) /\ conn[c].buf \in Seq(Chunk)
    BY <2>1 DEF Conn, Ring
  <2> QED  BY <2>1, <2>2, <2>3 DEF Share, Delivered, Ring
<1>13. ASSUME NEW c \in Clients, NEW i \in Nat, NEW q \in Procs, Covered(q, i) PROVE Covered(q, i)'
  <2>1. PICK d \in Subscriptions : conn[d].proc = q /\ from[d] <= i /\ i <= upto[d]
    BY <1>13 DEF Covered
  <2>2. d \in Clients /\ upto[d] <= Len(pub[conn[d].proc])
    BY <1>1 DEF Subscriptions, ShareInv
  <2>3. i <= upto'[d]
    BY SMTT(30), <1>1, <1>6, <1>7, <1>10, <2>1, <2>2 DEF HistoryTypes
  <2> QED  BY <1>2, <1>6, <1>10, <2>1, <2>2, <2>3 DEF Covered
<1>14. ASSUME NEW q \in Procs PROVE RingInv(q)'
  <2>1. CASE q # p
    <3>1. \A c \in Subscriptions : /\ c \in Subscriptions' /\ conn'[c].proc = conn[c].proc
                                   /\ from'[c] = from[c] /\ (conn[c].proc = q => upto'[c] = upto[c])
      BY <1>2, <1>6, <1>10, <2>1 DEF Subscriptions
    <3> QED  BY <1>1, <1>6, <1>7, <2>1, <3>1, RingKept
  <2>2. CASE hub[p].subs = {}
    <3> DEFINE ring == hub[p].pending
               L    == Len(ring)
               R    == Remember(ring, chunk)
    <3>1. ring \in Ring /\ L <= Buffer /\ L \in Nat
      BY <1>1 DEF HubInv, HubSound, Hub, Ring
    <3>2. /\ P - L >= 0 /\ \A k \in 1..L : ring[k] = pub[p][P - L + k]
          /\ \A i \in 1..P - L : Covered(p, i) \/ i + Buffer <= P
      <4>1. RingInv(p)
        BY <1>1
      <4> QED  BY <4>1 DEF RingInv
    <3>0. Len(ring) <= Len(pub[p])
      <4> HIDE DEF ring
      <4>1. P - L >= 0 /\ P \in Nat /\ L \in Nat
        BY <1>7, <3>1, <3>2
      <4> HIDE DEF P, L
      <4>2. L <= P
        BY <4>1
      <4> QED  BY <4>2 DEF P, L
    <3>3. /\ R \in Ring /\ Len(R) <= P + 1 /\ (Len(R) = L + 1 \/ Len(R) = Buffer)
          /\ \A k \in 1..Len(R) : R[k] = pub'[p][P + 1 - Len(R) + k]
      <4>1. \A k \in 1..Len(ring) : ring[k] = pub[p][Len(pub[p]) - Len(ring) + k]
        BY <3>2
      <4> DEFINE after == Append(pub[p], chunk)
      <4>2. /\ R \in Ring /\ Len(R) <= Len(after) /\ (Len(R) = L + 1 \/ Len(R) = Buffer)
            /\ \A k \in 1..Len(R) : R[k] = after[Len(after) - Len(R) + k]
        <5> HIDE DEF ring
        <5> QED  BY <1>3, <1>7, <3>0, <3>1, <4>1, RingGrows
      <4>3. after = pub'[p] /\ Len(after) = P + 1
        BY <1>7
      <4>6. P \in Nat
        BY <1>7
      <4> HIDE DEF R, P, L, after
      <4>4. Len(R) <= P + 1 /\ (Len(R) = L + 1 \/ Len(R) = Buffer)
        BY <4>2, <4>3
      <4>5. ASSUME NEW k \in 1..Len(R) PROVE R[k] = pub'[p][P + 1 - Len(R) + k]
        <5>1. R[k] = after[Len(after) - Len(R) + k]
          BY <4>2
        <5>2. Len(R) \in Nat /\ P \in Nat /\ k \in Nat
          BY <4>2, <4>6 DEF Ring
        <5>3. Len(after) - Len(R) + k = P + 1 - Len(R) + k
          BY <4>3, <5>2
        <5> QED  BY <4>3, <5>1, <5>3
      <4> QED  BY <4>2, <4>4, <4>5
    <3>4. hub'[p].pending = R /\ Len(R) \in Nat
      BY <1>6, <2>2, <3>3 DEF Ring
    <3> HIDE DEF ring, L, R, P
    <3>5. ASSUME NEW i \in 1..P + 1 - Len(R) PROVE Covered(p, i)' \/ i + Buffer <= Len(pub'[p])
      <4>1. i \in Nat /\ Buffer \in Nat
        BY <1>7, <3>4
      <4>2. CASE Len(R) = L + 1
        <5>1. i \in 1..P - L
          BY <1>7, <3>1, <3>2, <4>2
        <5>2. CASE Covered(p, i)
          <6>1. UNCHANGED <<conn, from, upto>>
            BY <1>2, <1>6, <2>2
          <6> QED  BY <5>2, <6>1 DEF Covered, Subscriptions
        <5>3. CASE i + Buffer <= P
          BY <1>7, <4>1, <5>3
        <5> QED  BY <3>2, <5>1, <5>2, <5>3
      <4>3. CASE Len(R) = Buffer
        BY <1>7, <4>1, <4>3
      <4> QED  BY <3>3, <4>2, <4>3
    <3>6. Len(pub'[p]) - Len(hub'[p].pending) = P + 1 - Len(R) /\ P + 1 - Len(R) >= 0
      BY <1>7, <3>3, <3>4
    <3>7. RingInv(p)'
      BY <3>3, <3>4, <3>5, <3>6 DEF RingInv
    <3> QED  BY <2>1, <3>7
  <2>3. CASE hub[p].subs # {}
    <3>1. hub[p].pending = << >> /\ hub' = hub
      BY <1>1, <1>6, <2>3 DEF HubInv, HubSound
    <3>2. PICK d \in Clients : d \in hub[p].subs
      BY <1>1, <2>3 DEF Hub
    <3>3. /\ d \in Subscriptions /\ conn[d].proc = p /\ from[d] <= P + 1 /\ upto'[d] = P + 1
      BY <1>1, <1>6, <1>7, <1>10, <3>2 DEF ShareInv
    <3>4. \A i : i = P + 1 => Covered(p, i)'
      <4>1. d \in Subscriptions' /\ conn'[d].proc = p /\ from'[d] = from[d]
        BY <1>2, <1>6, <1>10, <3>2, <3>3
      <4> HIDE DEF P
      <4>2. P + 1 <= P + 1
        BY <1>7
      <4> QED  BY <3>3, <4>1, <4>2 DEF Covered
    <3>5. ASSUME NEW i \in 1..P PROVE Covered(p, i)' \/ i + Buffer <= P + 1
      <4>1. Covered(p, i) \/ i + Buffer <= P
        <5>1. Len(hub[p].pending) = 0
          BY <3>1
        <5>2. RingInv(p)
          BY <1>1
        <5>3. \A j \in 1..P - Len(hub[p].pending) : Covered(p, j) \/ j + Buffer <= P
          BY <5>2 DEF RingInv
        <5> HIDE DEF P
        <5>4. P - Len(hub[p].pending) = P
          BY <1>7, <5>1
        <5> QED  BY <5>3, <5>4
      <4>2. i + Buffer <= P => i + Buffer <= P + 1
        BY <1>7
      <4> QED  BY <1>13, <3>2, <4>1, <4>2
    <3>6. ASSUME NEW i \in 1..P + 1 PROVE Covered(p, i)' \/ i + Buffer <= P + 1
      <4> HIDE DEF P
      <4>1. i = P + 1 \/ i \in 1..P
        BY <1>7
      <4> QED  BY <3>4, <3>5, <4>1
    <3>7. Len(hub'[p].pending) = 0
      BY <3>1
    <3> HIDE DEF P
    <3>8. Len(pub'[p]) - Len(hub'[p].pending) = P + 1 /\ P + 1 >= 0
      BY <1>7, <3>7
    <3>9. RingInv(p)'
      BY <1>7, <3>6, <3>7, <3>8 DEF RingInv
    <3> QED  BY <2>1, <3>9
  <2> QED  BY <2>1, <2>2, <2>3
<1>15. ASSUME NEW c \in Clients PROVE ShareInv(c)'
  <2>1. conn'[c].st = "idle" => missed'[c] = {}
    <3>1. conn[c].st = "idle" => c \notin hub[p].subs
      BY <1>1, <1>10 DEF HubInv, ConnInv
    <3> QED  BY <1>1, <1>6, <3>1 DEF ShareInv
  <2>2. ASSUME c \in Subscriptions, c \notin hub[p].subs PROVE ShareInv(c)'
    <3> DEFINE q == conn[c].proc
    <3>1. /\ q \in Procs /\ conn'[c].proc = q /\ pub[q] \in Ring
          /\ Share(c)' = Share(c) /\ Delivered(c)' = Delivered(c)
          /\ upto'[c] = upto[c] /\ from'[c] = from[c] /\ missed'[c] = missed[c]
      BY <1>1, <1>2, <1>6, <2>2 DEF HubInv, ConnInv, Subscriptions, Share, Delivered, HistoryTypes
    <3>2. Len(pub'[q]) \in Nat /\ Len(pub[q]) \in Nat /\ Len(pub[q]) <= Len(pub'[q])
          /\ \A i \in 1..Len(pub[q]) : pub'[q][i] = pub[q][i]
      <4> HIDE DEF q
      <4>1. q \in Procs /\ pub[q] \in Seq(Chunk) /\ pub[p] \in Seq(Chunk)
        BY <1>7, <3>1 DEF Ring
      <4>2. CASE q = p
        BY <1>7, <4>1, <4>2
      <4>3. CASE q # p
        BY <1>7, <4>1, <4>3
      <4> QED  BY <4>2, <4>3
    <3>3. /\ 1 <= from[c] /\ from[c] <= Len(pub[q]) + 1 /\ upto[c] <= Len(pub[q])
          /\ missed[c] \subseteq 1..Len(pub[q])
      BY <1>1, <2>2 DEF ShareInv
    <3>4. from[c] \in Nat /\ upto[c] \in Nat
      BY <1>1 DEF HistoryTypes
    <3>5. PICK place : Placed(place, Delivered(c), Share(c), pub[q])
      BY <1>1, <2>2 DEF ShareInv, Faithful
    <3>6. Placed(place, Delivered(c), Share(c), pub'[q])
      BY <1>12, <2>2, <3>1, <3>2, <3>5, PlacedStays
    <3>7. Faithful(c)'
      BY <3>1, <3>6 DEF Faithful
    <3>8. from[c] <= Len(pub'[q]) + 1 /\ upto[c] <= Len(pub'[q])
      BY <3>2, <3>3, <3>4
    <3>9. missed[c] \subseteq 1..Len(pub'[q])
      BY <3>2, <3>3
    <3> HIDE DEF q
    <3> QED  BY <2>1, <3>1, <3>3, <3>7, <3>8, <3>9 DEF ShareInv, q
  <2>3. ASSUME c \in hub[p].subs PROVE ShareInv(c)'
    <3>1. /\ c \in Subscriptions /\ conn[c].proc = p /\ conn'[c].proc = p /\ conn[c].st = "streaming"
      BY <1>1, <1>6, <1>10, <2>3 DEF HubInv, ConnInv
    <3>2. upto[c] = P /\ upto'[c] = P + 1 /\ from'[c] = from[c]
      BY <1>1, <1>2, <1>6, <1>7, <2>3, <3>1 DEF CallInv, Subscriptions, SubModes
    <3>3. /\ 1 <= from[c] /\ from[c] <= P + 1 /\ missed[c] \subseteq 1..P /\ from[c] \in Nat
      BY <1>1, <3>1 DEF ShareInv, HistoryTypes
    <3>4. PICK place : Placed(place, Delivered(c), Share(c), pub[p])
      BY <1>1, <3>1 DEF ShareInv, Faithful
    <3>5. Share(c) \in SUBSET (1..Len(pub[p])) /\ Delivered(c) \in Ring
      BY <1>12, <3>1
    <3> HIDE DEF P
    <3>6. CASE conn'[c].buf = conn[c].buf /\ missed'[c] = missed[c] \cup {P + 1}
      <4>1. Delivered(c)' = Delivered(c)
        BY <1>6, <3>6 DEF Delivered
      <4>2. Share(c)' = Share(c)
        BY <1>7, <3>2, <3>3, <3>6 DEF Share
      <4>3. Placed(place, Delivered(c), Share(c), pub'[p])
        BY <1>7, <3>4, <3>5, PlacedStays DEF P
      <4>4. Faithful(c)'
        BY <3>1, <4>1, <4>2, <4>3 DEF Faithful
      <4>5. missed'[c] \subseteq 1..P + 1
        BY <1>7, <3>3, <3>6
      <4>6. from[c] <= P + 1 + 1 /\ P + 1 <= P + 1
        BY <1>7, <3>3
      <4> QED  BY <1>7, <2>1, <3>1, <3>2, <3>3, <4>4, <4>5, <4>6 DEF ShareInv
    <3>7. CASE conn'[c].buf = Append(conn[c].buf, chunk) /\ missed'[c] = missed[c]
      <4>1. Delivered(c)' = Append(Delivered(c), chunk)
        <5>1. conn[c].got \in Seq(Chunk) /\ conn[c].buf \in Seq(Chunk)
          BY <1>1 DEF Conn, Ring
        <5>2. conn'[c].got = conn[c].got
          BY <1>6
        <5>3. conn[c].got \o Append(conn[c].buf, chunk) = Append(conn[c].got \o conn[c].buf, chunk)
          BY <1>3, <5>1, Concatenated
        <5> QED  BY <3>7, <5>2, <5>3 DEF Delivered
      <4>2. Share(c)' = Share(c) \cup {P + 1}
        BY <1>7, <3>2, <3>3, <3>7 DEF Share
      <4>3. \E more : Placed(more, Delivered(c)', Share(c)', pub'[p])
        BY <1>3, <1>7, <3>4, <3>5, <4>1, <4>2, PlacedGrows DEF P
      <4>4. Faithful(c)'
        BY <3>1, <4>3 DEF Faithful
      <4>5. missed'[c] \subseteq 1..P + 1
        BY <1>7, <3>3, <3>7
      <4>6. from[c] <= P + 1 + 1 /\ P + 1 <= P + 1
        BY <1>7, <3>3
      <4> QED  BY <1>7, <2>1, <3>1, <3>2, <3>3, <4>4, <4>5, <4>6 DEF ShareInv
    <3> QED  BY <1>6, <1>7, <2>3, <3>6, <3>7
  <2>4. c \notin Subscriptions => ShareInv(c)'
    BY <1>10, <2>1 DEF ShareInv
  <2> QED  BY <2>2, <2>3, <2>4
<1> QED  BY <1>8, <1>9, <1>11, <1>14, <1>15 DEF AgentInv

-----------------------------------------------------------------------------
(* Calls.                                                                   *)

\* The places of a ring's chunks are the last ones of what was published.
LEMMA LastPlaces ==
  ASSUME NEW P \in Nat, NEW L \in Nat, NEW m \in Nat, P = m + L, NEW n \in m + 1..P
  PROVE  n - m \in 1..L /\ m + (n - m) = n
OBVIOUS

\* A call subscribes: what the ring holds becomes its share.
LEMMA SubscribeStreams ==
  ASSUME AgentInv, IInv', NEW c \in Clients, NEW p \in Procs, NEW how \in SubModes,
         conn[c].st = "idle", SubscribeTo(c, p, how), UNCHANGED <<pub, missed>>,
         child'[p].st # "none", child'[p].kind # "exec", waiter'[p] # "lost",
         child' \in [Procs -> [st : {"none", "running", "zombie", "reaped"}, kind : Kinds, held : BOOLEAN]],
         waiter' \in [Procs -> {"none", "waiting", "reaped", "recorded", "drained", "done", "lost"}],
         \A q \in Procs : ProcInv(q)' /\ Lasting(q)
  PROVE  AgentInv'
<1> DEFINE P == Len(pub[p])
           L == Len(hub[p].pending)
<1>1. /\ HistoryTypes /\ HubInv /\ HubTypes /\ hub \in [Procs -> Hub] /\ conn \in [Clients -> Conn]
      /\ \A q \in Procs : RingInv(q)
      /\ \A d \in Clients : CallInv(d) /\ ShareInv(d)
  BY DEF AgentInv, IInv, HubInv, HubTypes
<1>2. /\ \A q \in Procs \ {p} : hub'[q] = hub[q]
      /\ hub'[p].closed = hub[p].closed /\ hub'[p].pending = << >>
      /\ \A d \in Clients \ {c} : conn'[d] = conn[d]
      /\ conn'[c].st = "streaming" /\ conn'[c].mode = how /\ conn'[c].proc = p
      /\ conn'[c].open = ~hub[p].closed /\ conn'[c].buf = hub[p].pending /\ conn'[c].got = << >>
  <2>1. HubTypes
    BY <1>1
  <2>2. /\ \A q \in Procs \ {p} : hub'[q] = hub[q]
        /\ hub'[p].closed = hub[p].closed /\ hub'[p].pending = << >>
    BY <2>1, Subscribed
  <2>3. /\ \A d \in Clients \ {c} : conn'[d] = conn[d]
        /\ conn'[c].st = "streaming" /\ conn'[c].proc = p
    BY <2>1, Subscribed
  <2>6. conn'[c].mode = how
    BY <1>1 DEF SubscribeTo, NoConn
  <2>4. conn'[c].open = ~hub[p].closed
    BY <2>1, Subscribed, Zenon
  <2>5. conn'[c].buf = hub[p].pending /\ conn'[c].got = << >>
    BY <2>1, Subscribed
  <2> QED  BY <2>2, <2>3, <2>4, <2>5, <2>6
<1>3. /\ P \in Nat /\ L \in Nat /\ hub[p].pending \in Seq(Chunk)
  BY <1>1 DEF Hub, HistoryTypes, Ring
<1>4. /\ P - L >= 0 /\ \A k \in 1..L : hub[p].pending[k] = pub[p][P - L + k]
      /\ \A i \in 1..P - L : Covered(p, i) \/ i + Buffer <= P
  <2>1. RingInv(p)
    BY <1>1
  <2> QED  BY <2>1 DEF RingInv
<1>5. from' = [from EXCEPT ![c] = P - L + 1] /\ upto' = [upto EXCEPT ![c] = P]
  BY DEF SubscribeTo
<1> HIDE DEF P, L
<1>6. P - L + 1 \in Nat /\ P - L \in Nat /\ L <= P
  BY <1>3, <1>4
<1>7. /\ from'[c] = P - L + 1 /\ upto'[c] = P
      /\ \A d \in Clients \ {c} : from'[d] = from[d] /\ upto'[d] = upto[d]
  BY <1>1, <1>5 DEF HistoryTypes
<1>8. HistoryTypes'
  BY <1>1, <1>3, <1>5, <1>6 DEF HistoryTypes
<1>9. /\ conn[c].mode = "none" /\ c \notin Subscriptions /\ c \in Subscriptions' /\ missed'[c] = {}
  BY <1>1, <1>2 DEF HubInv, ConnInv, Subscriptions, ShareInv, SubModes
<1>10. ASSUME NEW d \in Clients PROVE CallInv(d)'
  <2>1. CASE d = c
    BY <1>2, <1>7, <2>1 DEF CallInv, Calls, SubModes, P
  <2>2. CASE d # c
    <3>1. CallInv(d) /\ conn'[d] = conn[d] /\ upto'[d] = upto[d]
      BY <1>1, <1>2, <1>7, <2>2
    <3>2. conn[d].mode \in Calls => conn[d].proc \in Procs
      BY <1>1 DEF HubInv, ConnInv, Calls, SubModes
    <3> QED  BY <3>1, <3>2 DEF CallInv, Lasting, Calls, SubModes
  <2> QED  BY <2>1, <2>2
<1>11. \A d \in Subscriptions : /\ d \in Subscriptions' /\ d \in Clients \ {c} /\ conn'[d] = conn[d]
                                /\ from'[d] = from[d] /\ upto'[d] = upto[d]
  BY <1>2, <1>7, <1>9 DEF Subscriptions
<1>12. ASSUME NEW q \in Procs PROVE RingInv(q)'
  <2>1. CASE q # p
    BY <1>1, <1>2, <1>11, <2>1, RingKept
  <2>2. CASE q = p
    <3>1. Len(hub'[p].pending) = 0 /\ Len(pub'[p]) = P
      BY <1>2 DEF P
    <3>2. ASSUME NEW i \in 1..P PROVE Covered(p, i)' \/ i + Buffer <= P
      <4>1. CASE i \in 1..P - L
        <5>1. Covered(p, i) => Covered(p, i)'
          BY <1>11 DEF Covered
        <5> QED  BY <1>4, <4>1, <5>1
      <4>2. CASE i >= P - L + 1
        <5>1. from'[c] <= i /\ i <= upto'[c] /\ conn'[c].proc = p
          BY <1>2, <1>3, <1>7, <4>2
        <5> QED  BY <1>9, <5>1 DEF Covered
      <4>3. i \in 1..P - L \/ i >= P - L + 1
        BY <1>3, <1>6
      <4> QED  BY <4>1, <4>2, <4>3
    <3>3. Len(pub'[p]) - Len(hub'[p].pending) = P /\ P >= 0
      BY <1>3, <3>1
    <3>4. RingInv(p)'
      BY <1>3, <3>1, <3>2, <3>3 DEF RingInv
    <3> QED  BY <2>2, <3>4
  <2> QED  BY <2>1, <2>2
<1>13. ASSUME NEW d \in Clients PROVE ShareInv(d)'
  <2>1. CASE d # c
    <3>1. /\ ShareInv(d) /\ conn'[d] = conn[d] /\ from'[d] = from[d] /\ upto'[d] = upto[d]
          /\ missed'[d] = missed[d]
      BY <1>1, <1>2, <1>7, <2>1
    <3>2. Faithful(d) => Faithful(d)'
      BY <3>1 DEF Faithful, Share, Delivered
    <3> QED  BY <3>1, <3>2 DEF ShareInv, Subscriptions
  <2>2. CASE d = c
    <3>1. Delivered(c)' = hub[p].pending
      <4>1. << >> \o hub[p].pending = hub[p].pending
        BY <1>3, ConcatEmptySeq
      <4> QED  BY <1>2, <4>1 DEF Delivered
    <3>2. Share(c)' = P - L + 1..P
      BY <1>7, <1>9 DEF Share
    <3> DEFINE place == [k \in 1..L |-> P - L + k]
    <3>3. Placed(place, hub[p].pending, P - L + 1..P, pub[p])
      <4>1. DOMAIN hub[p].pending = 1..L
        BY <1>3 DEF L
      <4>2. \A k \in 1..L : P - L + k \in P - L + 1..P /\ place[k] = P - L + k
        BY <1>3, <1>6
      <4>3. place \in [1..L -> P - L + 1..P]
        BY <4>2
      <4>4. \A i, j \in 1..L : i < j => place[i] < place[j]
        BY <1>3, <1>6, <4>2
      <4>5. ASSUME NEW n \in P - L + 1..P PROVE \E i \in 1..L : place[i] = n
        <5> HIDE DEF place
        <5>1. P = (P - L) + L
          BY <1>3
        <5>2. n - (P - L) \in 1..L /\ P - L + (n - (P - L)) = n
          <6> DEFINE m == P - L
          <6>1. m \in Nat /\ P = m + L /\ n \in m + 1..P
            BY <1>6, <5>1
          <6> HIDE DEF m
          <6>2. n - m \in 1..L /\ m + (n - m) = n
            BY <1>3, <6>1, LastPlaces
          <6> QED  BY <6>2 DEF m
        <5> QED  BY <4>2, <5>2
      <4>6. \A i \in 1..L : hub[p].pending[i] = pub[p][place[i]]
        BY <1>4, <4>2
      <4> HIDE DEF place
      <4> QED  BY <4>1, <4>3, <4>4, <4>5, <4>6 DEF Placed
    <3>4. Faithful(c)'
      BY <1>2, <3>1, <3>2, <3>3 DEF Faithful
    <3>5. 1 <= P - L + 1 /\ P - L + 1 <= P + 1 /\ P <= P
      BY <1>3, <1>6
    <3>6. Len(pub'[p]) = P
      BY DEF P
    <3>7. conn'[c].st # "idle"
      BY <1>2
    <3> QED  BY <1>2, <1>7, <1>9, <2>2, <3>4, <3>5, <3>6, <3>7 DEF ShareInv
  <2> QED  BY <2>1, <2>2
<1> QED  BY <1>8, <1>10, <1>12, <1>13 DEF AgentInv

\* A step of one connection that gives it no share and opens no call.
LEMMA OneConnection ==
  ASSUME AgentInv, IInv', NEW c \in Clients,
         UNCHANGED <<child, waiter, reader, table, pub, from, upto, missed>>,
         \A q \in Procs : hub'[q].closed = hub[q].closed /\ hub'[q].pending = hub[q].pending,
         \A d \in Clients \ {c} : conn'[d] = conn[d], CallInv(c)', SameShare(c)
  PROVE  AgentInv'
<1>1. \A q \in Procs : ProcInv(q)' /\ Lasting(q)
  BY ProcKept DEF AgentInv, Lasting
<1>2. HistoryTypes'
  BY DEF AgentInv, HistoryTypes
<1>3. \A d \in Clients : CallInv(d)' /\ SameShare(d)
  BY <1>1, CallKept
<1> QED  BY <1>1, <1>2, <1>3, StreamsKept

\* A call's steps in its own connection: it drains its channel, ends, or leaves.
LEMMA CallSteps ==
  ASSUME AgentInv, IInv', NEW c \in Clients,
         \/ Receive(c) \/ SendEnd(c) \/ WaitReply(c) \/ ExecReply(c)
         \/ InputFails(c) \/ CloseSocket(c) \/ WaitCall(c)
  PROVE  AgentInv'
<1>1. /\ HistoryTypes /\ OutputTypes /\ HubTypes /\ conn \in [Clients -> Conn] /\ conn[c] \in Conn
      /\ \A q \in Procs : ProcInv(q)
      /\ CallInv(c) /\ (conn[c].mode # "none" => conn[c].proc \in Procs)
      /\ (conn[c].st = "idle" => conn[c].mode = "none")
  BY DEF AgentInv, IInv, HubInv, HubTypes, ConnInv
<1>2. CASE Receive(c)
  <2>1. /\ conn[c].st \in {"streaming", "closing"} /\ conn[c].buf # << >>
        /\ conn' = [conn EXCEPT ![c].got = Append(@, Head(conn[c].buf)), ![c].buf = Tail(@)]
        /\ UNCHANGED <<child, reader, waiter, table, hub, pub, from, upto, missed>>
    BY <1>2 DEF Receive, history
  <2>2. /\ conn'[c].st = conn[c].st /\ conn'[c].mode = conn[c].mode /\ conn'[c].proc = conn[c].proc
        /\ conn'[c].open = conn[c].open /\ conn'[c].end = conn[c].end
        /\ conn'[c].got = Append(conn[c].got, Head(conn[c].buf)) /\ conn'[c].buf = Tail(conn[c].buf)
        /\ \A d \in Clients \ {c} : conn'[d] = conn[d]
    BY <1>1, <2>1 DEF Conn
  <2>3. Delivered(c)' = Delivered(c)
    <3>1. conn[c].got \in Seq(Chunk) /\ conn[c].buf \in Seq(Chunk)
      BY <1>1 DEF Conn, Ring
    <3> QED  BY <2>1, <2>2, <3>1, Received DEF Delivered
  <2>4. CallInv(c)' /\ SameShare(c)
    BY <1>1, <2>1, <2>2, <2>3 DEF CallInv, SameShare
  <2> QED  BY <2>1, <2>2, <2>4, OneConnection
<1>3. CASE SendEnd(c)
  <2>1. /\ conn[c].st \in {"streaming", "closing"} /\ conn[c].mode # "exec"
        /\ conn[c].buf = << >> /\ ~conn[c].open
        /\ conn' = [conn EXCEPT ![c].st = "ended", ![c].end = ExitInfo(conn[c].proc)]
        /\ UNCHANGED <<child, reader, waiter, table, hub, pub, from, upto, missed>>
    BY <1>3 DEF SendEnd, history
  <2>2. /\ conn'[c].st = "ended" /\ conn'[c].mode = conn[c].mode /\ conn'[c].proc = conn[c].proc
        /\ conn'[c].open = conn[c].open /\ conn'[c].end = ExitInfo(conn[c].proc)
        /\ conn'[c].got = conn[c].got /\ conn'[c].buf = conn[c].buf
        /\ \A d \in Clients \ {c} : conn'[d] = conn[d]
    BY <1>1, <2>1 DEF Conn
  <2>3. SameShare(c)
    BY <2>1, <2>2 DEF SameShare, Delivered
  <2>4. conn[c].mode \in SubModes /\ (conn[c].mode # "ws" => conn[c].st = "streaming")
    BY <1>1, <2>1 DEF CallInv, SubModes
  <2>5. conn[c].mode # "ws" =>
          hub[conn[c].proc].closed /\ upto[c] = Len(pub[conn[c].proc]) /\ ExitInfo(conn[c].proc) = "exit"
    <3> SUFFICES ASSUME conn[c].mode # "ws"
                 PROVE  /\ hub[conn[c].proc].closed /\ upto[c] = Len(pub[conn[c].proc])
                        /\ ExitInfo(conn[c].proc) = "exit"
      OBVIOUS
    <3>1. /\ hub[conn[c].proc].closed /\ upto[c] = Len(pub[conn[c].proc])
          /\ waiter[conn[c].proc] # "lost" /\ conn[c].proc \in Procs
      BY <1>1, <2>1, <2>4 DEF CallInv, Calls, SubModes
    <3>2. waiter[conn[c].proc] \in {"drained", "done"}
      BY <1>1, <3>1 DEF ProcInv
    <3> QED  BY <3>1, <3>2 DEF ExitInfo
  <2>6. CallInv(c)'
    BY <1>1, <2>1, <2>2, <2>4, <2>5 DEF CallInv, Calls, SubModes
  <2> QED  BY <2>1, <2>2, <2>3, <2>6, OneConnection
<1>4. CASE WaitReply(c) \/ ExecReply(c)
  <2>1. /\ conn[c].mode \in {"wait", "exec"} /\ conn[c].st # "idle"
        /\ conn' = [conn EXCEPT ![c].st = "ended", ![c].end = "exit"]
        /\ UNCHANGED <<child, reader, waiter, table, hub, pub, from, upto, missed>>
    BY <1>1, <1>4 DEF WaitReply, ExecReply, ExitInfo, CallInv, history
  <2>2. /\ conn'[c].st = "ended" /\ conn'[c].mode = conn[c].mode /\ conn'[c].proc = conn[c].proc
        /\ conn'[c].end = "exit" /\ \A d \in Clients \ {c} : conn'[d] = conn[d]
    BY <1>1, <2>1 DEF Conn
  <2>3. CallInv(c)' /\ SameShare(c)
    BY <1>1, <2>1, <2>2 DEF CallInv, SameShare, Calls, SubModes
  <2> QED  BY <2>1, <2>2, <2>3, OneConnection
<1>5. CASE InputFails(c)
  <2>1. /\ conn[c].mode = "ws" /\ conn[c].st = "streaming" /\ Cancel(c, "closing")
        /\ UNCHANGED <<child, reader, waiter, table, pub, from, upto, missed>>
    BY <1>5 DEF InputFails, history
  <2>2. /\ \A q \in Procs : hub'[q].closed = hub[q].closed /\ hub'[q].pending = hub[q].pending
        /\ conn'[c].st = "closing" /\ conn'[c].mode = conn[c].mode /\ conn'[c].proc = conn[c].proc
        /\ conn'[c].buf = conn[c].buf /\ conn'[c].got = conn[c].got
    BY <1>1, <2>1, Cancelled
  <2>3. \A d \in Clients \ {c} : conn'[d] = conn[d]
    BY <1>1, <2>1 DEF Cancel
  <2>4. CallInv(c)' /\ SameShare(c)
    BY <1>1, <2>1, <2>2 DEF CallInv, SameShare, Delivered, Calls, SubModes
  <2> QED  BY <2>1, <2>2, <2>3, <2>4, OneConnection
<1>6. CASE CloseSocket(c)
  <2>1. /\ conn[c].st = "closing" /\ conn' = [conn EXCEPT ![c].st = "left"]
        /\ UNCHANGED <<child, reader, waiter, table, hub, pub, from, upto, missed>>
    BY <1>6 DEF CloseSocket, history
  <2>2. /\ conn'[c].st = "left" /\ conn'[c].mode = conn[c].mode /\ conn'[c].proc = conn[c].proc
        /\ conn'[c].buf = conn[c].buf /\ conn'[c].got = conn[c].got
        /\ \A d \in Clients \ {c} : conn'[d] = conn[d]
    BY <1>1, <2>1 DEF Conn
  <2>3. CallInv(c)' /\ SameShare(c)
    BY <1>1, <2>1, <2>2 DEF CallInv, SameShare, Delivered, Calls, SubModes
  <2> QED  BY <2>1, <2>2, <2>3, OneConnection
<1>7. CASE WaitCall(c)
  <2>1. PICK p \in table :
          conn' = [conn EXCEPT ![c] = [NoConn EXCEPT !.st = "waiting", !.mode = "wait", !.proc = p]]
    BY <1>7 DEF WaitCall
  <2>2. conn[c].st = "idle" /\ UNCHANGED <<child, reader, waiter, table, hub, pub, from, upto, missed>>
    BY <1>7 DEF WaitCall, history
  <2>3. /\ conn'[c].st = "waiting" /\ conn'[c].mode = "wait" /\ conn'[c].proc = p
        /\ \A d \in Clients \ {c} : conn'[d] = conn[d]
    BY <1>1, <2>1 DEF NoConn
  <2>4. /\ p \in Procs /\ waiter[p] \notin {"none", "lost"}
        /\ child[p].kind # "exec" /\ child[p].st # "none"
    BY <1>1 DEF OutputTypes, ProcInv
  <2>5. CallInv(c)' /\ SameShare(c)
    BY <1>1, <2>2, <2>3, <2>4 DEF CallInv, SameShare, Calls, SubModes
  <2> QED  BY <2>2, <2>3, <2>5, OneConnection
<1> QED  BY <1>2, <1>3, <1>4, <1>5, <1>6, <1>7

\* A call that starts a process, or joins one of the table.
LEMMA CallBegins ==
  ASSUME AgentInv, IInv', NEW c \in Clients,
         Attach(c) \/ \E p \in Procs : ConnectStart(c, p) \/ ExecStart(c, p)
  PROVE  AgentInv'
<1>1. /\ HistoryTypes /\ OutputTypes /\ HubTypes /\ conn \in [Clients -> Conn]
      /\ \A q \in Procs : ProcInv(q)
      /\ (conn[c].st = "idle" => conn[c].mode = "none")
  BY DEF AgentInv, IInv, HubInv, HubTypes, ConnInv
<1>2. CASE Attach(c)
  <2>1. PICK p \in table, how \in {"connect", "ws"} : SubscribeTo(c, p, how)
    BY <1>2 DEF Attach, Selectable
  <2>2. conn[c].st = "idle" /\ UNCHANGED <<child, reader, waiter, table, pub, missed>>
    BY <1>2 DEF Attach
  <2>3. p \in Procs /\ how \in SubModes
    BY <1>1 DEF OutputTypes, SubModes
  <2>4. waiter[p] \notin {"none", "lost"} /\ child[p].kind # "exec" /\ child[p].st # "none"
    BY <1>1, <2>3 DEF ProcInv
  <2>5. \A q \in Procs : hub'[q].closed = hub[q].closed
    <3>1. hub'[p].closed = hub[p].closed /\ \A q \in Procs \ {p} : hub'[q] = hub[q]
      BY <1>1, <2>1, <2>3, Subscribed
    <3> QED  BY <3>1
  <2>6. \A q \in Procs : ProcInv(q)' /\ Lasting(q)
    BY <1>1, <2>2, <2>5, ProcKept DEF Lasting
  <2>7. /\ child' \in [Procs -> [st : {"none", "running", "zombie", "reaped"}, kind : Kinds, held : BOOLEAN]]
        /\ waiter' \in [Procs -> {"none", "waiting", "reaped", "recorded", "drained", "done", "lost"}]
    BY <1>1, <2>2 DEF HistoryTypes
  <2> QED  BY <2>1, <2>2, <2>3, <2>4, <2>6, <2>7, SubscribeStreams
<1>3. ASSUME NEW p \in Procs, ConnectStart(c, p)
      PROVE  AgentInv'
  <2>1. PICK kind \in {"pty", "pipe", "stdin"} : Spawn(p, kind)
    BY <1>3 DEF ConnectStart, startPTYProcess, startPipeProcess
  <2>2. /\ conn[c].st = "idle" /\ SubscribeTo(c, p, "start") /\ table' = table \cup {p}
        /\ UNCHANGED <<pub, missed>>
    BY <1>3, <2>1 DEF ConnectStart, Spawn
  <2>3. kind \in Kinds /\ kind # "exec" /\ "start" \in SubModes
    BY DEF Kinds, SubModes
  <2>4. hub'[p].closed = hub[p].closed /\ \A q \in Procs \ {p} : hub'[q].closed = hub[q].closed
    BY <1>1, <2>2, <2>3, Subscribed
  <2>5. /\ child'[p].st # "none" /\ child'[p].kind = kind /\ waiter'[p] = "waiting"
        /\ \A q \in Procs : ProcInv(q)' /\ Lasting(q)
        /\ child' \in [Procs -> [st : {"none", "running", "zombie", "reaped"}, kind : Kinds, held : BOOLEAN]]
        /\ waiter' \in [Procs -> {"none", "waiting", "reaped", "recorded", "drained", "done", "lost"}]
    BY <2>1, <2>2, <2>3, <2>4, SpawnStreams
  <2> QED  BY <2>2, <2>3, <2>5, SubscribeStreams
<1>4. ASSUME NEW p \in Procs, ExecStart(c, p)
      PROVE  AgentInv'
  <2>1. /\ conn[c].st = "idle" /\ Spawn(p, "exec")
        /\ conn' = [conn EXCEPT ![c] = [NoConn EXCEPT !.st = "streaming", !.mode = "exec", !.proc = p]]
        /\ UNCHANGED <<table, hub, pub, from, upto, missed>>
    BY <1>4 DEF ExecStart, Spawn
  <2>2. /\ conn'[c].st = "streaming" /\ conn'[c].mode = "exec"
        /\ \A d \in Clients \ {c} : conn'[d] = conn[d]
    BY <1>1, <2>1 DEF NoConn
  <2>3. /\ \A q \in Procs : ProcInv(q)' /\ Lasting(q)
        /\ child' \in [Procs -> [st : {"none", "running", "zombie", "reaped"}, kind : Kinds, held : BOOLEAN]]
        /\ waiter' \in [Procs -> {"none", "waiting", "reaped", "recorded", "drained", "done", "lost"}]
    <3>1. "exec" \in Kinds
      BY DEF Kinds
    <3> QED  BY <2>1, <3>1, SpawnStreams
  <2>4. HistoryTypes'
    BY <1>1, <2>1, <2>3 DEF HistoryTypes
  <2>5. CallInv(c)' /\ SameShare(c)
    BY <1>1, <2>1, <2>2 DEF CallInv, SameShare, Calls, SubModes
  <2>6. \A d \in Clients : CallInv(d)' /\ SameShare(d)
    BY <2>1, <2>2, <2>3, <2>5, CallKept
  <2> QED  BY <2>1, <2>3, <2>4, <2>6, StreamsKept
<1> QED  BY <1>2, <1>3, <1>4

\* A call that is left: its subscription is cancelled, or its own process is killed.
LEMMA LeaveStreams ==
  ASSUME AgentInv, IInv', NEW c \in Clients, Leave(c)
  PROVE  AgentInv'
<1>1. /\ HistoryTypes /\ HubTypes /\ conn \in [Clients -> Conn] /\ conn[c] \in Conn
      /\ \A q \in Procs : ProcInv(q)
      /\ CallInv(c) /\ (conn[c].mode # "none" => conn[c].proc \in Procs)
  BY DEF AgentInv, IInv, HubInv, HubTypes, ConnInv
<1>2. /\ conn[c].st \in {"streaming", "waiting"}
      /\ UNCHANGED <<reader, waiter, table, pub, from, upto, missed>>
  BY DEF Leave, history
<1>3. conn[c].mode \in SubModes \cup {"wait", "exec"}
  BY <1>1, <1>2 DEF CallInv
<1>4. CASE conn[c].mode \in SubModes
  <2>1. Cancel(c, "left") /\ UNCHANGED child
    BY <1>4 DEF Leave, SubModes
  <2>2. /\ \A q \in Procs : hub'[q].closed = hub[q].closed /\ hub'[q].pending = hub[q].pending
        /\ conn'[c].st = "left" /\ conn'[c].mode = conn[c].mode /\ conn'[c].proc = conn[c].proc
        /\ conn'[c].buf = conn[c].buf /\ conn'[c].got = conn[c].got
    BY <1>1, <1>4, <2>1, Cancelled DEF SubModes
  <2>3. \A d \in Clients \ {c} : conn'[d] = conn[d]
    BY <1>1, <2>1 DEF Cancel
  <2>4. CallInv(c)' /\ SameShare(c)
    BY <1>1, <1>2, <2>1, <2>2 DEF CallInv, SameShare, Delivered
  <2> QED  BY <1>2, <2>1, <2>2, <2>3, <2>4, OneConnection
<1>5. CASE conn[c].mode \notin SubModes
  <2>1. conn' = [conn EXCEPT ![c].st = "left"] /\ UNCHANGED hub
    BY <1>5 DEF Leave, SubModes
  <2>2. /\ conn'[c].st = "left" /\ conn'[c].mode = conn[c].mode /\ conn'[c].proc = conn[c].proc
        /\ \A d \in Clients \ {c} : conn'[d] = conn[d]
    BY <1>1, <2>1 DEF Conn
  <2>3. CASE UNCHANGED child
    <3>1. CallInv(c)' /\ SameShare(c)
      BY <1>1, <1>2, <1>5, <2>1, <2>2, <2>3 DEF CallInv, SameShare, Calls
    <3> QED  BY <1>2, <2>1, <2>2, <2>3, <3>1, OneConnection
  <2>4. CASE conn[c].mode = "exec"
    <3> DEFINE p == conn[c].proc
    <3>1. /\ p \in Procs
          /\ \/ /\ child[p].st = "running"
                /\ \E held \in BOOLEAN : child' = [child EXCEPT ![p].st = "zombie", ![p].held = held]
             \/ UNCHANGED child
      BY <1>1, <2>4 DEF Leave, Dies
    <3> HIDE DEF p
    <3>2. /\ child'[p].kind = child[p].kind /\ (child'[p].st = "none" <=> child[p].st = "none")
          /\ \A q \in Procs \ {p} : child'[q] = child[q]
      BY <1>1, <3>1 DEF HistoryTypes
    <3>3. HistoryTypes'
      BY <1>1, <1>2, <3>1 DEF HistoryTypes
    <3>4. ASSUME NEW q \in Procs PROVE ProcInv(q)' /\ Lasting(q)
      <4>1. child'[q].kind = child[q].kind /\ (child'[q].st = "none" <=> child[q].st = "none")
        BY <3>2
      <4> QED  BY <1>1, <1>2, <2>1, <4>1 DEF ProcInv, Lasting, ReadersEnded
    <3>5. CallInv(c)' /\ SameShare(c)
      BY <2>2, <2>4 DEF CallInv, SameShare, Calls, SubModes
    <3>6. \A d \in Clients : CallInv(d)' /\ SameShare(d)
      BY <1>2, <2>2, <3>4, <3>5, CallKept
    <3> QED  BY <1>2, <2>1, <3>3, <3>4, <3>6, StreamsKept
  <2>5. UNCHANGED child \/ conn[c].mode = "exec"
    BY <1>3, <1>5 DEF Leave, SubModes
  <2> QED  BY <2>3, <2>4, <2>5
<1> QED  BY <1>4, <1>5

\* The output of POST /exec goes to its own caller, who has no share of any stream.
LEMMA ExecOutput ==
  ASSUME AgentInv, IInv', NEW p \in Procs, NEW s \in AllStreams, PublishRead(p, s), child[p].kind = "exec"
  PROVE  AgentInv'
<1> DEFINE chunk == <<s, reader[p][s].chunk>>
<1>1. /\ HistoryTypes /\ OutputTypes /\ HubTypes /\ conn \in [Clients -> Conn]
      /\ \A q \in Procs : ProcInv(q)
      /\ \A c \in Clients : CallInv(c) /\ (conn[c].mode # "none" => conn[c].proc \in Procs)
  BY DEF AgentInv, IInv, HubInv, HubTypes, ConnInv
<1>2. /\ reader[p][s].pc = "publishing"
      /\ conn' = [c \in Clients |-> IF conn[c].proc = p
                    THEN [conn[c] EXCEPT !.got = Append(@, chunk)] ELSE conn[c]]
      /\ reader' = [reader EXCEPT ![p][s] = [pc |-> "reading", chunk |-> 0]]
      /\ UNCHANGED <<child, waiter, table, hub, pub, from, upto, missed>>
  BY DEF PublishRead
<1>3. ~ReadersEnded(p) /\ \A q \in Procs \ {p} : reader'[q] = reader[q]
  BY <1>1, <1>2 DEF ReadersEnded, OutputTypes
<1>4. ASSUME NEW q \in Procs PROVE ProcInv(q)' /\ Lasting(q)
  <2>1. CASE q = p
    BY <1>1, <1>2, <1>3, <2>1 DEF ProcInv, Lasting
  <2>2. CASE q # p
    BY <1>1, <1>2, <1>3, <2>2, ProcKept DEF Lasting
  <2> QED  BY <2>1, <2>2
<1>5. ASSUME NEW c \in Clients PROVE CallInv(c)' /\ SameShare(c)
  <2>1. CASE conn[c].proc # p
    BY <1>2, <1>4, <2>1, CallKept
  <2>2. CASE conn[c].proc = p
    <3>1. conn[c].mode \notin Calls /\ conn[c] \in Conn
      BY <1>1, <2>2 DEF CallInv
    <3>2. conn'[c] = [conn[c] EXCEPT !.got = Append(@, chunk)]
      BY <1>2, <2>2
    <3> HIDE DEF chunk
    <3>3. conn'[c].st = conn[c].st /\ conn'[c].mode = conn[c].mode
      BY <3>1, <3>2 DEF Conn
    <3> QED  BY <1>1, <3>1, <3>3 DEF CallInv, SameShare, Calls, SubModes
  <2> QED  BY <2>1, <2>2
<1>6. HistoryTypes'
  BY <1>1, <1>2 DEF HistoryTypes
<1> QED  BY <1>2, <1>4, <1>5, <1>6, StreamsKept

\* /admin/reexec: nobody reads, waits or streams any more, and the rings stay as they are.
LEMMA ReexecStreams ==
  ASSUME AgentInv, IInv', Reexec
  PROVE  AgentInv'
<1>1. /\ HistoryTypes /\ HubTypes /\ conn \in [Clients -> Conn]
      /\ \A q \in Procs : ProcInv(q)
      /\ \A c \in Clients : CallInv(c)
  BY DEF AgentInv, IInv, HubInv, HubTypes
<1>2. /\ table' = {} /\ UNCHANGED <<child, pub, from, upto, missed>>
      /\ reader' = [p \in Procs |-> [s \in AllStreams |-> NoReader]]
      /\ waiter' = [p \in Procs |-> IF waiter[p] = "none" THEN "none" ELSE "lost"]
      /\ hub' = [p \in Procs |-> [hub[p] EXCEPT !.subs = {}]]
      /\ conn' = [c \in Clients |-> IF conn[c].st \in {"streaming", "closing", "waiting"}
                                    THEN [conn[c] EXCEPT !.st = "left", !.open = FALSE] ELSE conn[c]]
  BY DEF Reexec, history
<1>3. ASSUME NEW q \in Procs
      PROVE  hub'[q].closed = hub[q].closed /\ hub'[q].pending = hub[q].pending
  <2>1. hub[q] \in Hub /\ hub'[q] = [hub[q] EXCEPT !.subs = {}]
    BY <1>1, <1>2 DEF HubTypes
  <2> QED  BY <2>1 DEF Hub
<1>4. ASSUME NEW q \in Procs PROVE ProcInv(q)'
  <2>1. ReadersEnded(q)'
    BY <1>2 DEF ReadersEnded, NoReader
  <2>2. waiter'[q] = IF waiter[q] = "none" THEN "none" ELSE "lost"
    BY <1>2
  <2> QED  BY <1>1, <1>2, <1>3, <2>1, <2>2 DEF ProcInv
<1>5. ASSUME NEW c \in Clients PROVE CallInv(c)' /\ SameShare(c)
  <2>1. conn[c] \in Conn /\ conn[c].mode \in Calls => conn[c].proc \in Procs
    BY <1>1 DEF AgentInv, IInv, HubInv, ConnInv, Calls, SubModes
  <2>2. CASE conn[c].st \in {"streaming", "closing", "waiting"}
    <3>1. conn[c] \in Conn /\ conn'[c] = [conn[c] EXCEPT !.st = "left", !.open = FALSE]
      BY <1>1, <1>2, <2>2
    <3>2. /\ conn'[c].st = "left" /\ conn'[c].mode = conn[c].mode /\ conn'[c].proc = conn[c].proc
          /\ conn'[c].buf = conn[c].buf /\ conn'[c].got = conn[c].got
      BY <3>1 DEF Conn
    <3> QED  BY <1>1, <1>2, <3>2 DEF CallInv, SameShare, Delivered
  <2>3. CASE conn[c].st \notin {"streaming", "closing", "waiting"}
    <3>1. conn'[c] = conn[c]
      BY <1>2, <2>3
    <3>2. SameShare(c)
      BY <3>1 DEF SameShare, Delivered
    <3>3. conn[c] \in Conn /\ (conn[c].mode \in {"start", "connect"} => conn[c].proc \in Procs)
      BY <1>1 DEF AgentInv, IInv, HubInv, ConnInv
    <3>4. CallInv(c)'
      BY <1>1, <1>2, <1>3, <2>3, <3>1, <3>3 DEF CallInv
    <3> QED  BY <3>2, <3>4
  <2> QED  BY <2>2, <2>3
<1>6. HistoryTypes'
  BY <1>1, <1>2 DEF HistoryTypes, ProcInv
<1> QED  BY <1>2, <1>3, <1>4, <1>5, <1>6, StreamsKept

-----------------------------------------------------------------------------
(* The three promises of the streams.                                       *)

\* A boxd that has just started has published nothing.
LEMMA InitStreams == Init => AgentInv
<1> SUFFICES ASSUME Init PROVE AgentInv
  OBVIOUS
<1>1. IInv
  BY InitSound
<1>2. HistoryTypes
  BY DEF Init, HistoryTypes, Ring, Kinds
<1>3. ASSUME NEW p \in Procs PROVE ProcInv(p) /\ RingInv(p)
  <2>1. ProcInv(p)
    BY DEF Init, ProcInv, ReadersEnded, NewHub, NoReader
  <2>2. pub[p] = << >> /\ hub[p].pending = << >> /\ Len(<< >>) = 0
    BY DEF Init, NewHub
  <2>3. 0 - 0 = 0 /\ 0 >= 0 /\ 1..0 = {}
    OBVIOUS
  <2>4. RingInv(p)
    BY <2>2, <2>3 DEF RingInv
  <2> QED  BY <2>1, <2>4
<1>4. ASSUME NEW c \in Clients PROVE CallInv(c) /\ ShareInv(c)
  <2>1. conn[c].st = "idle" /\ conn[c].mode = "none" /\ missed[c] = {}
    BY DEF Init, NoConn
  <2> QED  BY <2>1 DEF CallInv, ShareInv, Calls, SubModes, Subscriptions
<1> QED  BY <1>1, <1>2, <1>3, <1>4 DEF AgentInv

\* No step breaks the invariant of the streams.
LEMMA StepStreams == AgentInv /\ [Next]_vars => AgentInv'
<1> SUFFICES ASSUME AgentInv, [Next]_vars PROVE AgentInv'
  OBVIOUS
<1>1. IInv'
  BY StepSound DEF AgentInv
<1>2. ASSUME NEW p \in Procs, ProcNext(p) PROVE AgentInv'
  <2>1. CASE Signal(p)
    BY <1>1, <2>1, QuietSteps DEF Signal
  <2>2. ASSUME NEW s \in AllStreams, PublishRead(p, s) PROVE AgentInv'
    BY <1>1, <2>2, PublishStreams, ExecOutput
  <2>3. CASE CloseOutput(p)
    BY <1>1, <2>3, CloseOutputStreams
  <2> QED  BY <1>1, <1>2, <2>1, <2>2, <2>3, QuietSteps DEF ProcNext
<1>3. ASSUME NEW c \in Clients, ConnNext(c) PROVE AgentInv'
  <2>1. CASE Leave(c)
    BY <1>1, <2>1, LeaveStreams
  <2> QED  BY <1>1, <1>3, <2>1, CallBegins, CallSteps DEF ConnNext
<1>4. CASE UNCHANGED vars
  <2>1. UNCHANGED <<child, reader, waiter, table, hub, conn, pub, from, upto, missed>>
    BY <1>4 DEF vars, agent, history
  <2>2. HistoryTypes' /\ \A q \in Procs : ProcInv(q)' /\ Lasting(q)
    BY <2>1 DEF AgentInv, HistoryTypes, ProcInv, Lasting, ReadersEnded
  <2>3. \A c \in Clients : CallInv(c)' /\ SameShare(c)
    BY <2>1, <2>2, CallKept
  <2> QED  BY <1>1, <2>1, <2>2, <2>3, StreamsKept
<1> QED  BY <1>1, <1>2, <1>3, <1>4, ReexecStreams DEF Next

\* Whatever the processes, callers and interleavings: each call's share of the output is
\* delivered in order, and the rings and the wait goroutines are as the calls need them.
THEOREM AgentSafe == Spec => []AgentInv
BY InitStreams, StepStreams, PTL DEF Spec

\* A connection has, in order and once each, exactly the chunks of its share of the output
\* (subscribe's replay, publish and the drops of a full channel in boxd/server/process.go).
THEOREM StreamsAreFaithful == Spec => []StreamFaithful
<1>1. AgentInv => StreamFaithful
  <2> SUFFICES ASSUME AgentInv, NEW c \in Subscriptions
               PROVE  \E place \in [DOMAIN Delivered(c) -> Share(c)] :
                        /\ \A i, j \in DOMAIN place : i < j => place[i] < place[j]
                        /\ \A n \in Share(c) : \E i \in DOMAIN place : place[i] = n
                        /\ \A i \in DOMAIN place : Delivered(c)[i] = pub[conn[c].proc][place[i]]
    BY DEF StreamFaithful
  <2>1. PICK place : Placed(place, Delivered(c), Share(c), pub[conn[c].proc])
    BY DEF AgentInv, ShareInv, Faithful, Subscriptions
  <2>2. place \in [DOMAIN Delivered(c) -> Share(c)] /\ DOMAIN place = DOMAIN Delivered(c)
    BY <2>1 DEF Placed
  <2> QED  BY <2>1, <2>2 DEF Placed
<1> QED  BY <1>1, AgentSafe, PTL

\* A published chunk is in some call's share, in the ring, or has been pushed out of the
\* ring by Buffer newer ones (outputHub.publish).
THEOREM NothingIsLost == Spec => []NothingVanishes
<1>1. AgentInv => NothingVanishes
  <2> SUFFICES ASSUME AgentInv, NEW p \in Procs, NEW i \in DOMAIN pub[p]
               PROVE  \/ \E c \in Subscriptions : conn[c].proc = p /\ from[c] <= i /\ i <= upto[c]
                      \/ pub[p][i] \in ToSet(hub[p].pending)
                      \/ i + Buffer <= Len(pub[p])
    BY DEF NothingVanishes
  <2> DEFINE ring == hub[p].pending
             n    == Len(pub[p]) - Len(ring)
  <2>1. pub[p] \in Seq(Chunk) /\ ring \in Seq(Chunk)
    BY DEF AgentInv, HistoryTypes, IInv, HubInv, HubTypes, Hub, Ring
  <2>2. /\ n >= 0 /\ \A k \in 1..Len(ring) : ring[k] = pub[p][n + k]
        /\ \A j \in 1..n : Covered(p, j) \/ j + Buffer <= Len(pub[p])
    <3>1. RingInv(p)
      BY DEF AgentInv
    <3> QED  BY <3>1 DEF RingInv
  <2>6. /\ i \in Nat /\ 1 <= i /\ i <= Len(pub[p]) /\ Len(pub[p]) \in Nat /\ Len(ring) \in Nat
        /\ n \in Int /\ Len(pub[p]) = n + Len(ring) /\ DOMAIN ring = 1..Len(ring)
    BY <2>1
  <2> HIDE DEF ring, n
  <2>3. CASE i <= n
    <3>1. i \in 1..n
      BY <2>3, <2>6
    <3> QED  BY <2>2, <3>1 DEF Covered
  <2>4. CASE i > n
    <3>1. PICK k \in 1..Len(ring) : n + k = i
      <4>1. i - n \in 1..Len(ring) /\ n + (i - n) = i
        BY <2>4, <2>6
      <4> QED  BY <4>1
    <3>2. ring[k] = pub[p][i]
      BY <2>2, <3>1
    <3>3. ring[k] \in ToSet(ring)
      BY <2>6 DEF ToSet
    <3> QED  BY <3>2, <3>3 DEF ring
  <2>5. i <= n \/ i > n
    BY <2>6
  <2> QED  BY <2>3, <2>4, <2>5
<1> QED  BY <1>1, AgentSafe, PTL

\* A Connect stream and a wait call that end report the recorded exit, and a stream's end
\* comes after the last output of its process (outputHub.close, exitInfo).
THEOREM EndsComeLast == Spec => []EndIsLast
<1>1. AgentInv => EndIsLast
  BY DEF AgentInv, CallInv, EndIsLast, Calls, SubModes
<1> QED  BY <1>1, AgentSafe, PTL
=============================================================================
