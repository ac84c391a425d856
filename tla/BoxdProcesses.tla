---------------------------- MODULE BoxdProcesses ----------------------------
(***************************************************************************)
(* The guest agent's process API (boxd/server/process.go): the processes   *)
(* boxd starts for its callers, the goroutines that read their output, the *)
(* goroutine that waits for their exit, the hub that fans output out to    *)
(* subscribed connections, and the connections themselves.                 *)
(*                                                                         *)
(* A child may leave descendants behind that hold its terminal or pipes    *)
(* (held): a reader sees the end of a stream when nobody holds it.  What   *)
(* they write is among what the process wrote before its exit.             *)
(*                                                                         *)
(* A chunk of output is <<stream, n>>: the n-th chunk the process wrote.   *)
(* pub, said, from, upto and missed are history: what was published and    *)
(* written, where a connection's share of it begins and ends, and which    *)
(* places of pub its full channel dropped.  They guard no action.          *)
(***************************************************************************)
EXTENDS Naturals, Sequences, FiniteSets, SequencesExt

CONSTANTS
  Procs,       \* the processes that may be started, one id each
  Clients,     \* connections, each used for one call
  Buffer,      \* processOutputBuffer: a channel's capacity and the replay ring
  MaxChunks,   \* bound: chunks one process writes
  MaxReexecs   \* bound: reexecs of boxd

ASSUME BufferAssumption == Buffer \in Nat \ {0}

VARIABLES child, unread, reader, waiter, table, hub, conn, reexecs,
          said, pub, from, upto, missed

agent   == <<child, unread, reader, waiter, table, hub, conn, reexecs>>
history == <<said, pub, from, upto, missed>>
vars    == <<agent, history>>

Streams(kind) == IF kind = "pty" THEN {"pty"} ELSE {"out", "err"}
AllStreams    == {"pty", "out", "err"}
Chunks        == AllStreams \X (1..MaxChunks)
Kinds         == {"pty", "pipe", "stdin", "exec"}   \* "stdin": a pipe process started with stdin
NoReader      == [pc |-> "ended", chunk |-> 0]
NewHub        == [closed |-> FALSE, pending |-> << >>, subs |-> {}]
NoConn        == [st |-> "idle", mode |-> "none", proc |-> "none", buf |-> << >>,
                  open |-> FALSE, got |-> << >>, end |-> "none"]

Init ==
  /\ child  = [p \in Procs |-> [st |-> "none", kind |-> "pty", held |-> FALSE]]
  /\ unread = [p \in Procs |-> [s \in AllStreams |-> << >>]]
  /\ reader = [p \in Procs |-> [s \in AllStreams |-> NoReader]]
  /\ waiter = [p \in Procs |-> "none"]
  /\ table  = {}
  /\ hub    = [p \in Procs |-> NewHub]
  /\ conn   = [c \in Clients |-> NoConn]
  /\ reexecs = 0
  /\ said   = [p \in Procs |-> << >>]
  /\ pub    = [p \in Procs |-> << >>]
  /\ from   = [c \in Clients |-> 1]
  /\ upto   = [c \in Clients |-> 0]
  /\ missed = [c \in Clients |-> {}]

(***************************************************************************)
(* The record the wait goroutine leaves: managedProcess.exit is set, and   *)
(* exitInfo returns it, from "recorded" on.                                *)
(***************************************************************************)
ExitInfo(p) == IF waiter[p] \in {"recorded", "drained", "done"} THEN "exit" ELSE "nil"
ReadersEnded(p) == \A s \in AllStreams : reader[p][s].pc = "ended"

\* The end of a stream that boxd holds open for reading is gone: Cmd.Wait closes
\* the pipes, terminal.Close the PTY.
ReadEndClosed(p) ==
  waiter[p] \in (IF child[p].kind = "pty" THEN {"recorded", "drained", "done"}
                 ELSE {"reaped", "recorded", "drained", "done"})

\* The other end of a stream is gone: the child has exited and no descendant of it
\* holds the stream.
WriteEndClosed(p) == child[p].st \in {"zombie", "reaped"} /\ ~child[p].held

\* writeInput's writer: stdin when it was asked for, else the terminal.
CanWrite(p) == /\ child[p].kind \in {"pty", "stdin"}
               /\ waiter[p] \notin {"recorded", "drained", "done"}

-----------------------------------------------------------------------------
(***************************************************************************)
(* The output hub                                                          *)
(***************************************************************************)
\* Slip: the replayed chunks are left for the next subscriber too.
SubscribeKeepsPending(c, p, mode) ==
  /\ conn' = [conn EXCEPT ![c] = [NoConn EXCEPT !.st = "streaming", !.mode = mode, !.proc = p,
                                  !.buf = hub[p].pending, !.open = ~hub[p].closed]]
  /\ hub'  = [hub EXCEPT ![p].subs = IF hub[p].closed THEN {} ELSE @ \cup {c}]
  /\ from' = [from EXCEPT ![c] = Len(pub[p]) - Len(hub[p].pending) + 1]
  /\ upto' = [upto EXCEPT ![c] = Len(pub[p])]

SubscribeTo(c, p, mode) ==
  /\ conn' = [conn EXCEPT ![c] = [NoConn EXCEPT !.st = "streaming", !.mode = mode, !.proc = p,
                                  !.buf = hub[p].pending, !.open = ~hub[p].closed]]
  /\ hub'  = [hub EXCEPT ![p].pending = << >>,
                         ![p].subs = IF hub[p].closed THEN {} ELSE @ \cup {c}]
  /\ from' = [from EXCEPT ![c] = Len(pub[p]) - Len(hub[p].pending) + 1]
  /\ upto' = [upto EXCEPT ![c] = Len(pub[p])]

\* Slip: a full ring keeps its oldest chunks.
RememberOldest(pending, chunk) == IF Len(pending) < Buffer THEN Append(pending, chunk) ELSE pending

\* The last Buffer chunks survive while nobody is subscribed.
Remember(pending, chunk) ==
  LET all == Append(pending, chunk) IN
    IF Len(all) > Buffer THEN SubSeq(all, Len(all) - Buffer + 1, Len(all)) ELSE all

Full(c) == Len(conn[c].buf) >= Buffer

Publish(p, chunk) ==
  LET subs == hub[p].subs IN
  /\ pub' = [pub EXCEPT ![p] = Append(@, chunk)]
  /\ IF hub[p].closed THEN UNCHANGED <<hub, conn, upto, missed>>
     ELSE IF subs = {}
     THEN /\ hub' = [hub EXCEPT ![p].pending = Remember(@, chunk)]
          /\ UNCHANGED <<conn, upto, missed>>
     ELSE /\ conn' = [c \in Clients |-> IF c \in subs /\ ~Full(c)
                        THEN [conn[c] EXCEPT !.buf = Append(@, chunk)] ELSE conn[c]]
          /\ missed' = [c \in Clients |-> IF c \in subs /\ Full(c)
                          THEN missed[c] \cup {Len(pub'[p])} ELSE missed[c]]
          /\ upto' = [c \in Clients |-> IF c \in subs THEN Len(pub'[p]) ELSE upto[c]]
          /\ UNCHANGED hub

\* hub.close: every subscribed channel is closed and forgotten.
CloseHub(p) ==
  /\ hub'  = [hub EXCEPT ![p].closed = TRUE, ![p].subs = {}]
  /\ conn' = [c \in Clients |-> IF c \in hub[p].subs THEN [conn[c] EXCEPT !.open = FALSE] ELSE conn[c]]

\* Slip: cancel closes the channel and leaves it subscribed.
CancelOnlyCloses(c, next) ==
  conn' = [conn EXCEPT ![c].st = next, ![c].open = FALSE] /\ UNCHANGED hub

\* The cancel function of a subscription, with the connection's next state.
Cancel(c, next) ==
  /\ hub'  = [hub EXCEPT ![conn[c].proc].subs = @ \ {c}]
  /\ conn' = [conn EXCEPT ![c].st = next, ![c].open = FALSE]

-----------------------------------------------------------------------------
(***************************************************************************)
(* Starting processes                                                      *)
(***************************************************************************)
Spawn(p, kind) ==
  /\ child[p].st = "none"
  /\ child'  = [child EXCEPT ![p] = [st |-> "running", kind |-> kind, held |-> FALSE]]
  /\ reader' = [reader EXCEPT ![p] =
                  [s \in AllStreams |-> IF s \in Streams(kind) THEN [pc |-> "reading", chunk |-> 0]
                                                               ELSE NoReader]]
  /\ waiter' = [waiter EXCEPT ![p] = "waiting"]
  /\ UNCHANGED <<unread, reexecs, said, pub, missed>>

startPTYProcess(p)  == Spawn(p, "pty")
startPipeProcess(p) == \E kind \in {"pipe", "stdin"} : Spawn(p, kind)

\* POST /processes: a PTY process nobody is subscribed to yet.
StartProcess(p) ==
  /\ startPTYProcess(p)
  /\ table' = table \cup {p}
  /\ UNCHANGED <<hub, conn, from, upto>>

\* process.Process/Start: the caller is subscribed before the readers start.
ConnectStart(c, p) ==
  /\ conn[c].st = "idle"
  /\ startPTYProcess(p) \/ startPipeProcess(p)
  /\ table' = table \cup {p}
  /\ SubscribeTo(c, p, "start")

\* POST /exec: the process is the handler's own, in no table; Cmd.Run copies
\* its output until both streams end.
ExecStart(c, p) ==
  /\ conn[c].st = "idle"
  /\ Spawn(p, "exec")
  /\ conn' = [conn EXCEPT ![c] = [NoConn EXCEPT !.st = "streaming", !.mode = "exec", !.proc = p]]
  /\ UNCHANGED <<table, hub, from, upto>>

-----------------------------------------------------------------------------
(***************************************************************************)
(* The child, its reader goroutines and its wait goroutine                 *)
(***************************************************************************)
ChildWrites(p, s) ==
  /\ child[p].st = "running" /\ s \in Streams(child[p].kind) /\ Len(said[p]) < MaxChunks
  /\ LET chunk == <<s, Len(said[p]) + 1>> IN
       /\ said'   = [said EXCEPT ![p] = Append(@, chunk)]
       /\ unread' = [unread EXCEPT ![p][s] = Append(@, chunk)]
  /\ UNCHANGED <<child, reader, waiter, table, hub, conn, reexecs, pub, from, upto, missed>>

Dies(p) == \E held \in BOOLEAN : child' = [child EXCEPT ![p].st = "zombie", ![p].held = held]

ChildExits(p) ==
  /\ child[p].st = "running"
  /\ Dies(p)
  /\ UNCHANGED <<unread, reader, waiter, table, hub, conn, reexecs, history>>

\* The last descendant that holds the output ends or closes it.
LetGo(p) ==
  /\ child[p].held
  /\ child' = [child EXCEPT ![p].held = FALSE]
  /\ UNCHANGED <<unread, reader, waiter, table, hub, conn, reexecs, history>>

\* reader.Read returns data.  A read of the PTY, a blocking file since ptm.Fd(),
\* goes on when terminal.Close comes in between.
Read(p, s) ==
  /\ reader[p][s].pc = "reading" /\ unread[p][s] # << >>
  /\ child[p].kind = "pty" \/ ~ReadEndClosed(p)
  /\ reader' = [reader EXCEPT ![p][s] = [pc |-> "publishing", chunk |-> Head(unread[p][s])[2]]]
  /\ unread' = [unread EXCEPT ![p][s] = Tail(@)]
  /\ UNCHANGED <<child, waiter, table, hub, conn, reexecs, history>>

PublishRead(p, s) ==
  /\ reader[p][s].pc = "publishing"
  /\ LET chunk == <<s, reader[p][s].chunk>> IN
       IF child[p].kind = "exec"
       THEN /\ conn' = [c \in Clients |-> IF conn[c].proc = p
                          THEN [conn[c] EXCEPT !.got = Append(@, chunk)] ELSE conn[c]]
            /\ UNCHANGED <<hub, pub, upto, missed>>
       ELSE Publish(p, chunk)
  /\ reader' = [reader EXCEPT ![p][s] = [pc |-> "reading", chunk |-> 0]]
  /\ UNCHANGED <<child, unread, waiter, table, reexecs, said, from>>

\* Slip: a reader goes on when its end of the stream is closed.
ReadEndsAtEOF(p, s) ==
  /\ reader[p][s].pc = "reading"
  /\ WriteEndClosed(p) /\ unread[p][s] = << >>
  /\ reader' = [reader EXCEPT ![p][s] = NoReader]
  /\ UNCHANGED <<child, unread, waiter, table, hub, conn, reexecs, history>>

\* reader.Read returns an error: nobody holds the stream any more and it has been
\* read, or boxd has closed its own end.
ReadEnds(p, s) ==
  /\ reader[p][s].pc = "reading"
  /\ ReadEndClosed(p) \/ (WriteEndClosed(p) /\ unread[p][s] = << >>)
  /\ reader' = [reader EXCEPT ![p][s] = NoReader]
  /\ UNCHANGED <<child, unread, waiter, table, hub, conn, reexecs, history>>

\* Cmd.Wait returns: for a pipe process it does not wait for the readers and
\* closes the read ends; for /exec it owns the readers and waits for them.
CmdWait(p) ==
  /\ waiter[p] = "waiting" /\ child[p].st = "zombie"
  /\ child[p].kind = "exec" => ReadersEnded(p)
  /\ child'  = [child EXCEPT ![p].st = "reaped"]
  /\ waiter' = [waiter EXCEPT ![p] = "reaped"]
  /\ UNCHANGED <<unread, reader, table, hub, conn, reexecs, history>>

WaiterStep(p, at, next) ==
  /\ waiter[p] = at /\ child[p].kind # "exec"
  /\ waiter' = [waiter EXCEPT ![p] = next]
  /\ UNCHANGED <<child, unread, reader, reexecs, history>>

\* Slip: the hub is closed before the readers have ended.
CloseOutputEarly(p) == WaiterStep(p, "recorded", "drained") /\ CloseHub(p) /\ UNCHANGED table

\* The exit is recorded and the terminal and stdin are closed; when the readers
\* have ended the hub is closed; then done.
RecordExit(p)  == WaiterStep(p, "reaped", "recorded") /\ UNCHANGED <<table, hub, conn>>
CloseOutput(p) == WaiterStep(p, "recorded", "drained") /\ ReadersEnded(p)
                    /\ CloseHub(p) /\ UNCHANGED table
CloseDone(p)   == WaiterStep(p, "drained", "done") /\ UNCHANGED <<table, hub, conn>>

\* time.AfterFunc: five minutes later the table forgets the process.
Forget(p) ==
  /\ waiter[p] = "done" /\ p \in table
  /\ table' = table \ {p}
  /\ UNCHANGED <<child, unread, reader, waiter, hub, conn, reexecs, history>>

-----------------------------------------------------------------------------
(***************************************************************************)
(* Connections                                                             *)
(***************************************************************************)
\* Process.Connect names the process by pid or tag, the web socket by id: each
\* finds an entry of the table, exited ones included.
Selectable == table

Attach(c) ==
  /\ conn[c].st = "idle"
  /\ \E p \in Selectable, mode \in {"connect", "ws"} : SubscribeTo(c, p, mode)
  /\ UNCHANGED <<child, unread, reader, waiter, table, reexecs, said, pub, missed>>

Receive(c) ==
  /\ conn[c].st \in {"streaming", "closing"} /\ conn[c].buf # << >>
  /\ conn' = [conn EXCEPT ![c].got = Append(@, Head(conn[c].buf)), ![c].buf = Tail(@)]
  /\ UNCHANGED <<child, unread, reader, waiter, table, hub, reexecs, history>>

\* The channel is closed and empty: an end event with exitInfo is written.
SendEnd(c) ==
  /\ conn[c].st \in {"streaming", "closing"} /\ conn[c].mode # "exec"
  /\ conn[c].buf = << >> /\ ~conn[c].open
  /\ conn' = [conn EXCEPT ![c].st = "ended", ![c].end = ExitInfo(conn[c].proc)]
  /\ UNCHANGED <<child, unread, reader, waiter, table, hub, reexecs, history>>

\* The request context ends or a write to the connection fails.  For /exec
\* the context kills the child.
Leave(c) ==
  /\ conn[c].st \in {"streaming", "waiting"}
  /\ CASE conn[c].mode \in {"start", "connect", "ws"} -> Cancel(c, "left") /\ UNCHANGED child
       [] conn[c].mode = "wait" -> conn' = [conn EXCEPT ![c].st = "left"] /\ UNCHANGED <<child, hub>>
       [] OTHER -> /\ conn' = [conn EXCEPT ![c].st = "left"]
                   /\ IF child[conn[c].proc].st = "running" THEN Dies(conn[c].proc) ELSE UNCHANGED child
                   /\ UNCHANGED hub
  /\ UNCHANGED <<unread, reader, waiter, table, reexecs, history>>

\* Input for a process that takes none ends the web socket handler: cancel
\* runs while the output goroutine is still reading the channel.
InputFails(c) ==
  /\ conn[c].st = "streaming" /\ conn[c].mode = "ws" /\ ~CanWrite(conn[c].proc)
  /\ Cancel(c, "closing")
  /\ UNCHANGED <<child, unread, reader, waiter, table, reexecs, history>>

CloseSocket(c) ==
  /\ conn[c].st = "closing"
  /\ conn' = [conn EXCEPT ![c].st = "left"]
  /\ UNCHANGED <<child, unread, reader, waiter, table, hub, reexecs, history>>

WaitCall(c) ==
  /\ conn[c].st = "idle"
  /\ \E p \in table : conn' = [conn EXCEPT ![c] = [NoConn EXCEPT !.st = "waiting", !.mode = "wait", !.proc = p]]
  /\ UNCHANGED <<child, unread, reader, waiter, table, hub, reexecs, history>>

WaitReply(c) ==
  /\ conn[c].st = "waiting" /\ waiter[conn[c].proc] = "done"
  /\ conn' = [conn EXCEPT ![c].st = "ended", ![c].end = ExitInfo(conn[c].proc)]
  /\ UNCHANGED <<child, unread, reader, waiter, table, hub, reexecs, history>>

ExecReply(c) ==
  /\ conn[c].st = "streaming" /\ conn[c].mode = "exec" /\ waiter[conn[c].proc] = "reaped"
  /\ conn' = [conn EXCEPT ![c].st = "ended", ![c].end = "exit"]
  /\ UNCHANGED <<child, unread, reader, waiter, table, hub, reexecs, history>>

\* A signal the process dies of; the others change nothing here, and a reaped
\* process answers with an error.
Signal(p) == p \in Selectable /\ ChildExits(p)

\* /admin/reexec: syscall.Exec replaces the agent.  The kernel keeps the
\* children, every goroutine, connection and the table are gone.
Reexec ==
  /\ reexecs < MaxReexecs
  /\ reexecs' = reexecs + 1
  /\ table'   = {}
  /\ conn'    = [c \in Clients |-> IF conn[c].st \in {"streaming", "closing", "waiting"}
                                   THEN [conn[c] EXCEPT !.st = "left", !.open = FALSE] ELSE conn[c]]
  /\ reader'  = [p \in Procs |-> [s \in AllStreams |-> NoReader]]
  /\ waiter'  = [p \in Procs |-> IF waiter[p] = "none" THEN "none" ELSE "lost"]
  /\ hub'     = [p \in Procs |-> [hub[p] EXCEPT !.subs = {}]]
  /\ UNCHANGED <<child, unread, history>>

-----------------------------------------------------------------------------
ProcNext(p) ==
  \/ StartProcess(p) \/ ChildExits(p) \/ LetGo(p) \/ Signal(p)
  \/ CmdWait(p) \/ RecordExit(p) \/ CloseOutput(p) \/ CloseDone(p) \/ Forget(p)
  \/ \E s \in AllStreams : ChildWrites(p, s) \/ Read(p, s) \/ PublishRead(p, s) \/ ReadEnds(p, s)

ConnNext(c) ==
  \/ \E p \in Procs : ConnectStart(c, p) \/ ExecStart(c, p)
  \/ Attach(c) \/ Receive(c) \/ SendEnd(c) \/ Leave(c) \/ InputFails(c) \/ CloseSocket(c)
  \/ WaitCall(c) \/ WaitReply(c) \/ ExecReply(c)

Next ==
  \/ \E p \in Procs : ProcNext(p)
  \/ \E c \in Clients : ConnNext(c)
  \/ Reexec

Spec == Init /\ [][Next]_vars

\* A reader that is not blocked for good: one in a read of the PTY stays there when
\* the terminal is closed, as long as a descendant holds the other end.
Returns(p, s) == ReadEnds(p, s) /\ (child[p].kind = "pty" => WriteEndClosed(p))

\* The Go scheduler runs every runnable goroutine; nothing makes a child exit, a
\* descendant let go of the output or a client leave.
Fairness ==
  /\ \A p \in Procs :
       /\ WF_vars(CmdWait(p) \/ RecordExit(p) \/ CloseOutput(p) \/ CloseDone(p))
       /\ \A s \in AllStreams : WF_vars(Read(p, s) \/ PublishRead(p, s) \/ Returns(p, s))
  /\ \A c \in Clients :
       WF_vars(Receive(c) \/ SendEnd(c) \/ WaitReply(c) \/ ExecReply(c) \/ CloseSocket(c))

FairSpec == Spec /\ Fairness

-----------------------------------------------------------------------------
(***************************************************************************)
(* Properties                                                              *)
(***************************************************************************)
Subscriptions == {c \in Clients : conn[c].mode \in {"start", "connect", "ws"}}
Delivered(c)  == conn[c].got \o conn[c].buf
Share(c)      == (from[c]..upto[c]) \ missed[c]

\* What a connection has been given, and holds in its channel, is what was
\* published from the replayed chunks on to the end of its subscription, in
\* order and without repetition, except the chunks its full channel dropped.
StreamFaithful ==
  \A c \in Subscriptions :
    \E place \in [DOMAIN Delivered(c) -> Share(c)] :
      /\ \A i, j \in DOMAIN place : i < j => place[i] < place[j]
      /\ \A n \in Share(c) : \E i \in DOMAIN place : place[i] = n
      /\ \A i \in DOMAIN place : Delivered(c)[i] = pub[conn[c].proc][place[i]]

\* publish, subscribe, cancel and close never send on or close a closed
\* channel (the agent would panic), and subscribe never blocks on the replay
\* while it holds the hub's lock.
HubSound ==
  \A p \in Procs :
    /\ hub[p].closed => hub[p].subs = {}
    /\ \A c \in Subscriptions : c \in hub[p].subs <=> (conn[c].open /\ conn[c].proc = p)
    /\ Len(hub[p].pending) <= Buffer
    /\ hub[p].subs # {} => hub[p].pending = << >>

\* A published chunk that reached no connection's share of the stream is in the
\* replay ring, or at least Buffer newer chunks pushed it out of the ring.
NothingVanishes ==
  \A p \in Procs : \A i \in DOMAIN pub[p] :
    \/ \E c \in Subscriptions : conn[c].proc = p /\ from[c] <= i /\ i <= upto[c]
    \/ pub[p][i] \in ToSet(hub[p].pending)
    \/ i + Buffer <= Len(pub[p])

\* A Connect stream and a wait call that end report the recorded exit, and a
\* stream's end comes after the last output of the process.
EndIsLast ==
  \A c \in Clients :
    conn[c].st = "ended" /\ conn[c].mode \in {"start", "connect", "wait"} =>
      /\ conn[c].end = "exit"
      /\ conn[c].mode # "wait" => upto[c] = Len(pub[conn[c].proc]) /\ conn[c].buf = << >>

\* Every exit is seen: once a process has exited, and nobody holds the terminal, or
\* the pipes of an /exec, that it wrote to, its wait goroutine reaches done and every
\* connection of it ends, unless a reexec took the goroutine away; for a process with
\* pipes of its own, whoever holds them, since Cmd.Wait closes boxd's ends.  A
\* descendant that does hold the terminal keeps every caller waiting (process.go:803).
Exited(p) == child[p].st \in {"zombie", "reaped"} /\ (child[p].kind \in {"pty", "exec"} => WriteEndClosed(p))
ExitReachesEveryone ==
  /\ \A p \in Procs : Exited(p) /\ child[p].kind # "exec" ~> waiter[p] \in {"done", "lost"}
  /\ \A c \in Clients :
       (conn[c].st \in {"streaming", "waiting", "closing"} /\ Exited(conn[c].proc))
         ~> conn[c].st \in {"ended", "left"}

\* The caller that started a process and kept up with it has all the process
\* wrote when the end event comes (what server_test.go expects of a stream).
AllOutputDelivered ==
  \A c \in Clients :
    conn[c].st = "ended" /\ conn[c].mode = "start" /\ missed[c] = {} =>
      ToSet(said[conn[c].proc]) = ToSet(conn[c].got)
=============================================================================
