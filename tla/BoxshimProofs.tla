-------------------------- MODULE BoxshimProofs --------------------------
(***************************************************************************)
(* What the driver's mutex protects is never seen half done: for any calls *)
(* and any number of launches and faults, Spec keeps the invariants of     *)
(* Boxshim.                                                                *)
(*                                                                         *)
(* The first part of the module, Control, is about which steps a call of   *)
(* boxshim can have left, and that the call whose next step needs the      *)
(* driver's mutex is the one that holds it.  A call's steps are a list;    *)
(* what matters of it is which kind of step can follow which in an         *)
(* operation.  Doing and Following are the next two steps of the call that *)
(* holds the mutex and Serving is its operation.  The second part says,    *)
(* for each next step, what must be true of processes and files before it  *)
(* is taken.                                                               *)
(***************************************************************************)
EXTENDS Boxshim, TLAPS

-----------------------------------------------------------------------------
(***************************************************************************)
(* Kinds of steps                                                          *)
(***************************************************************************)
CommonKinds == {"lock", "unlock", "check", "running", "stopped", "exited", "onkill"}
GVisorKinds == {"notrunning", "clear", "bundle", "runcreate", "runstart", "rundelete", "poll", "runkill"}
LaunchKinds == {"launch", "mount", "spawn", "api", "configure", "load", "watch"}
PauseKinds  == {"freeze", "write", "backmem", "backsnap", "mem", "snap", "dropold",
                "rollmem", "rollsnap", "discard", "paused"}
VMKinds(op) == {"nocmd", "respec", "alive", "ask", "term", "signal", "unjail"}
               \cup {k \in LaunchKinds  : op \in {"create", "resume", "reboot"}}
               \cup {k \in PauseKinds   : op = "pause"}
               \cup {k \in {"waitexit"} : op \in {"stop", "reboot"}}

\* The kinds a driver's operation is made of.
KindsOf(d, op) == CommonKinds \cup IF d = "firecracker" THEN VMKinds(op) ELSE GVisorKinds

\* Steps taken without the mutex.
Outside == {"lock", "onkill"}

\* How each kind of step fails.
ErrOf(k) ==
  CASE k = "spawn"                                   -> "unjail"
    [] k \in {"api", "configure", "load", "watch"}   -> "kill"
    [] k \in {"write", "backmem"}                    -> "discard"
    [] k = "backsnap"                                -> "rollmem"
    [] k \in {"mem", "snap"}                         -> "rollback"
    [] k \in {"runcreate", "runstart"}               -> "delete"
    [] OTHER                                         -> "stop"

\* The kinds that can come after kind k in a call of operation op.
After(op, k) ==
  CASE k = "lock"       -> {"check", "nocmd", "respec", "notrunning"}
                           \cup {x \in {"launch"} : op = "resume"}
    [] k = "check"      -> {"alive", "waitexit", "poll", "runkill"} \cup {x \in {"term"} : op = "kill"}
    [] k = "nocmd"      -> {"launch"}
    [] k = "launch"     -> {"mount"}
    [] k = "mount"      -> {"spawn"}
    [] k = "spawn"      -> {"api"}
    [] k = "api"        -> {"configure", "load"}
    [] k \in {"configure", "load"} -> {"watch"}
    [] k \in {"watch", "runstart"} -> {"running"}
    [] k = "alive"      -> {"freeze", "ask"}
    [] k = "freeze"     -> {"write"}
    [] k = "write"      -> {"backmem"}
    [] k = "backmem"    -> {"backsnap"}
    [] k = "backsnap"   -> {"mem"}
    [] k = "mem"        -> {"snap"}
    [] k = "snap"       -> {"dropold"}
    [] k = "dropold"    -> {"term"}
    [] k = "term"       -> {"signal"}
    [] k = "signal"     -> {"unjail"}
    [] k = "waitexit"   -> {"unjail"}
    [] k = "unjail"     -> IF op = "pause" THEN {"paused"}
                           ELSE IF op = "kill" THEN {"exited"} ELSE {"stopped", "unlock"}
    [] k = "rollmem"    -> {"rollsnap", "discard"}
    [] k = "rollsnap"   -> {"discard"}
    [] k = "notrunning" -> {"clear"}
    [] k = "clear"      -> {"bundle"}
    [] k = "bundle"     -> {"runcreate"}
    [] k = "runcreate"  -> {"runstart"}
    [] k = "poll"       -> {"runkill"}
    [] k = "runkill"    -> {"stopped", "exited", "unlock"}
    [] k = "unlock"     -> {"lock", "onkill"}
    [] k = "onkill"     -> {}
    [] OTHER            -> {"unlock"}

StepSet(d, op) == {Do(k, ErrOf(k)) : k \in KindsOf(d, op)}

\* Steps that follow each other in an operation; the jail that a stop cleans up is
\* that of a VM it then reports stopped.
Links(d, op) ==
  {s \in Seq(StepSet(d, op)) :
     /\ \A i \in 1..Len(s) - 1 : s[i + 1].do \in After(op, s[i].do)
     /\ \A i \in 1..Len(s) - 2 : s[i].do = "waitexit" => s[i + 2].do = "stopped"}

\* What a call can have left to do.
Todos(d, op) ==
  {s \in Links(d, op) : s # << >> => s[Len(s)].do \in {"unlock", "onkill"}}

\* Who holds the mutex: the call whose next step is taken with it.
Holds(c) == Active(c) /\ Head(call[c].todo).do \notin Outside

CallOK(c) ==
  /\ call[c] \in [op : OpNames \cup {"idle"}, cancelled : BOOLEAN, todo : Seq(StepSet(driver, call[c].op))]
  /\ call[c].todo \in Todos(driver, call[c].op)
  /\ call[c].op = "idle" => call[c].todo = << >>
  /\ mu = c <=> Holds(c)

Control ==
  /\ driver \in Drivers /\ mu \in Calls \cup {NoCall}
  /\ DOMAIN call = Calls
  /\ \A c \in Calls : CallOK(c)

\* What the holder of the mutex does next and then, and its operation.
Doing     == IF mu \in Calls THEN call[mu].todo[1].do ELSE "rest"
Following == IF mu \in Calls /\ Len(call[mu].todo) > 1 THEN call[mu].todo[2].do ELSE "rest"
Serving   == IF mu \in Calls THEN call[mu].op ELSE "idle"

-----------------------------------------------------------------------------
(***************************************************************************)
(* Lists of steps                                                          *)
(***************************************************************************)
\* A list of legal steps that begins with kind a and ends with kind b.
List(s, d, op, a, b) == s \in Links(d, op) /\ s # << >> /\ s[1].do = a /\ s[Len(s)].do = b

\* One list after another is a list, when its first step may follow the last; what
\* cleans up the jail of a VM that stops is not followed by a return without an answer.
LEMMA Joined ==
  ASSUME NEW d, NEW op, NEW s, NEW t, NEW a, NEW b, NEW x, NEW y,
         List(s, d, op, a, b), List(t, d, op, x, y), x \in After(op, b),
         b # "waitexit",
         b = "unjail" /\ x = "unlock" => \A i \in 1..Len(s) : s[i].do # "waitexit"
  PROVE  List(s \o t, d, op, a, y)
<1>1. /\ s \in Seq(StepSet(d, op)) /\ t \in Seq(StepSet(d, op))
      /\ Len(s) \in Nat /\ Len(t) \in Nat /\ Len(s) > 0 /\ Len(t) > 0
  BY DEF Links, List
<1>2. /\ s \o t \in Seq(StepSet(d, op)) /\ Len(s \o t) = Len(s) + Len(t)
      /\ \A i \in 1..Len(s) + Len(t) : (s \o t)[i] = IF i <= Len(s) THEN s[i] ELSE t[i - Len(s)]
  BY <1>1
<1>3. ASSUME NEW i \in 1..Len(s \o t) - 1
      PROVE  (s \o t)[i + 1].do \in After(op, (s \o t)[i].do)
  <2>1. CASE i < Len(s)
    <3>1. i \in 1..Len(s) - 1 /\ i + 1 <= Len(s)
      BY <1>1, <1>2, <2>1
    <3>2. s[i + 1].do \in After(op, s[i].do)
      BY <3>1 DEF Links, List
    <3> QED  BY <1>1, <1>2, <2>1, <3>1, <3>2
  <2>2. CASE i = Len(s)
    <3>1. (s \o t)[i] = s[Len(s)] /\ (s \o t)[i + 1] = t[1]
      BY <1>1, <1>2, <2>2
    <3> QED  BY <3>1 DEF List
  <2>3. CASE i > Len(s)
    <3>1. i - Len(s) \in 1..Len(t) - 1 /\ (s \o t)[i] = t[i - Len(s)]
          /\ (s \o t)[i + 1] = t[(i - Len(s)) + 1]
      BY <1>1, <1>2, <2>3
    <3>2. t[(i - Len(s)) + 1].do \in After(op, t[i - Len(s)].do)
      BY <3>1 DEF Links, List
    <3> QED  BY <3>1, <3>2
  <2> QED  BY <1>1, <1>2, <2>1, <2>2, <2>3
<1>4. ASSUME NEW i \in 1..Len(s \o t) - 2, (s \o t)[i].do = "waitexit"
      PROVE  (s \o t)[i + 2].do = "stopped"
  <2>1. CASE i < Len(s) - 1
    <3>1. i \in 1..Len(s) - 2 /\ i + 2 <= Len(s)
      BY <1>1, <1>2, <2>1
    <3>2. s[i].do = "waitexit" => s[i + 2].do = "stopped"
      BY <3>1 DEF Links, List
    <3> QED  BY <1>1, <1>2, <1>4, <2>1, <3>1, <3>2
  <2>2. CASE i = Len(s) - 1
    <3>1. i \in 1..Len(s) - 1 /\ i + 1 = Len(s) /\ (s \o t)[i] = s[i] /\ (s \o t)[i + 2] = t[1]
      BY <1>1, <1>2, <2>2
    <3>2. s[i + 1].do \in After(op, "waitexit")
      BY <1>4, <3>1 DEF Links, List
    <3>3. b = "unjail"
      BY <3>1, <3>2 DEF List, After
    <3>4. s[i] \in StepSet(d, op)
      BY <1>1, <3>1
    <3>5. op \notin {"pause", "kill"}
      BY <1>4, <3>1, <3>4 DEF StepSet, Do, KindsOf, CommonKinds, VMKinds, GVisorKinds, LaunchKinds, PauseKinds
    <3>6. x # "unlock"
      BY <1>1, <1>4, <3>1, <3>3
    <3> QED  BY <3>1, <3>3, <3>5, <3>6 DEF List, After
  <2>3. CASE i = Len(s)
    BY <1>1, <1>2, <1>4, <2>3 DEF List
  <2>4. CASE i > Len(s)
    <3>1. i - Len(s) \in 1..Len(t) - 2 /\ (s \o t)[i] = t[i - Len(s)]
          /\ (s \o t)[i + 2] = t[(i - Len(s)) + 2]
      BY <1>1, <1>2, <2>4
    <3>2. t[i - Len(s)].do = "waitexit" => t[(i - Len(s)) + 2].do = "stopped"
      BY <3>1 DEF Links, List
    <3> QED  BY <1>4, <3>1, <3>2
  <2> QED  BY <1>1, <1>2, <2>1, <2>2, <2>3, <2>4
<1>5. s \o t \in Links(d, op)
  BY <1>2, <1>3, <1>4 DEF Links
<1> QED  BY <1>1, <1>2, <1>5 DEF List

\* What is left of a list is a list.
LEMMA Onward ==
  ASSUME NEW d, NEW op, NEW s \in Todos(d, op), s # << >>
  PROVE  /\ s \in Seq(StepSet(d, op)) /\ Tail(s) \in Todos(d, op)
         /\ Head(s) = s[1] /\ s[1].do \in KindsOf(d, op) /\ s[1].err = ErrOf(s[1].do)
         /\ Tail(s) # << >> => /\ Len(s) > 1 /\ Tail(s)[1] = s[2] /\ s[2].do \in After(op, s[1].do)
                               /\ Len(Tail(s)) > 1 => /\ Tail(s)[2] = s[3]
                                                      /\ s[1].do = "waitexit" => s[3].do = "stopped"
         /\ Tail(s) = << >> => Len(s) = 1 /\ s[1].do \in {"unlock", "onkill"}
<1>1. /\ s \in Seq(StepSet(d, op)) /\ Len(s) \in Nat /\ Len(s) > 0
      /\ \A i \in 1..Len(s) - 1 : s[i + 1].do \in After(op, s[i].do)
      /\ \A i \in 1..Len(s) - 2 : s[i].do = "waitexit" => s[i + 2].do = "stopped"
      /\ s[Len(s)].do \in {"unlock", "onkill"}
  BY DEF Todos, Links
<1>2. /\ Tail(s) \in Seq(StepSet(d, op)) /\ Len(Tail(s)) = Len(s) - 1 /\ Head(s) = s[1]
      /\ \A i \in 1..Len(s) - 1 : Tail(s)[i] = s[i + 1]
  BY <1>1
<1>3. ASSUME NEW i \in 1..Len(Tail(s)) - 1
      PROVE  Tail(s)[i + 1].do \in After(op, Tail(s)[i].do)
  <2>1. i + 1 \in 1..Len(s) - 1
    BY <1>1, <1>2
  <2>2. s[(i + 1) + 1].do \in After(op, s[i + 1].do)
    BY <1>1, <2>1
  <2> QED  BY <1>1, <1>2, <2>1, <2>2
<1>4. ASSUME NEW i \in 1..Len(Tail(s)) - 2, Tail(s)[i].do = "waitexit"
      PROVE  Tail(s)[i + 2].do = "stopped"
  <2>1. i + 1 \in 1..Len(s) - 2
    BY <1>1, <1>2
  <2>2. s[i + 1].do = "waitexit" => s[(i + 1) + 2].do = "stopped"
    BY <1>1, <2>1
  <2>3. Tail(s)[i] = s[i + 1] /\ Tail(s)[i + 2] = s[(i + 1) + 2]
    BY <1>1, <1>2, <2>1
  <2> QED  BY <1>4, <2>2, <2>3
<1>5. Tail(s) \in Links(d, op)
  BY <1>2, <1>3, <1>4 DEF Links
<1>6. Tail(s) # << >> => Len(s) > 1 /\ Tail(s)[Len(Tail(s))] = s[Len(s)]
  BY <1>1, <1>2
<1>7. Tail(s) \in Todos(d, op)
  BY <1>1, <1>5, <1>6 DEF Todos
<1>8. s[1] \in StepSet(d, op)
  BY <1>1
<1>9. s[1].do \in KindsOf(d, op) /\ s[1].err = ErrOf(s[1].do)
  BY <1>8 DEF StepSet, Do
<1>10. ASSUME Tail(s) # << >>
       PROVE  /\ Len(s) > 1 /\ Tail(s)[1] = s[2] /\ s[2].do \in After(op, s[1].do)
              /\ Len(Tail(s)) > 1 => /\ Tail(s)[2] = s[3]
                                     /\ s[1].do = "waitexit" => s[3].do = "stopped"
  <2>1. Len(s) > 1
    BY <1>6, <1>10
  <2>2. Tail(s)[1] = s[1 + 1] /\ s[1 + 1].do \in After(op, s[1].do)
    BY <1>1, <1>2, <2>1
  <2>3. Len(Tail(s)) > 1 => Tail(s)[2] = s[2 + 1] /\ (s[1].do = "waitexit" => s[1 + 2].do = "stopped")
    BY <1>1, <1>2
  <2> QED  BY <2>1, <2>2, <2>3
<1>11. ASSUME Tail(s) = << >>
       PROVE  Len(s) = 1
  <2>1. ASSUME NEW S, NEW t \in Seq(S), t = << >>
        PROVE  Len(t) = 0
    BY <2>1
  <2>2. Len(s) - 1 = 0
    BY <1>2, <1>11, <2>1
  <2> QED  BY <1>1, <2>2
<1> QED  BY <1>1, <1>2, <1>7, <1>9, <1>10, <1>11

\* A short list without a stop.
LEMMA Short ==
  ASSUME NEW d, NEW op, NEW s \in Seq(StepSet(d, op)), s # << >>,
         \A i \in 1..Len(s) - 1 : s[i + 1].do \in After(op, s[i].do),
         \A i \in 1..Len(s) : s[i].do # "waitexit"
  PROVE  List(s, d, op, s[1].do, s[Len(s)].do)
<1>1. Len(s) \in Nat
  OBVIOUS
<1>2. \A i \in 1..Len(s) - 2 : s[i].do # "waitexit"
  BY <1>1
<1> QED  BY <1>2 DEF List, Links

\* A kind of an operation, with the way it fails, is one of its steps.
LEMMA IsStep ==
  ASSUME NEW d, NEW op, NEW k, NEW e, k \in KindsOf(d, op), e = ErrOf(k)
  PROVE  Do(k, e) \in StepSet(d, op)
BY DEF StepSet

\* A list of one step.
LEMMA OneStep ==
  ASSUME NEW d, NEW op, NEW k, NEW e, k \in KindsOf(d, op), e = ErrOf(k)
  PROVE  List(<<Do(k, e)>>, d, op, k, k)
<1>1. Do(k, e) \in StepSet(d, op)
  BY IsStep
<1>2. Do(k, e).do = k
  BY DEF Do
<1> QED  BY <1>1, <1>2 DEF List, Links

\* The parts operations are made of.
LEMMA CommonParts ==
  ASSUME NEW d, NEW op
  PROVE  /\ List(Unlock, d, op, "unlock", "unlock")
         /\ List(Enter, d, op, "lock", "check")
<1>1. List(Unlock, d, op, "unlock", "unlock")
  BY OneStep DEF KindsOf, CommonKinds, ErrOf, Unlock
<1>2. List(Enter, d, op, "lock", "check")
  <2>1. /\ Do("lock", "stop") \in StepSet(d, op) /\ Do("check", "stop") \in StepSet(d, op)
    BY IsStep DEF KindsOf, CommonKinds, ErrOf
  <2>2. /\ Enter \in Seq(StepSet(d, op)) /\ Enter # << >>
        /\ \A i \in 1..Len(Enter) - 1 : Enter[i + 1].do \in After(op, Enter[i].do)
        /\ \A i \in 1..Len(Enter) : Enter[i].do # "waitexit"
        /\ Enter[1].do = "lock" /\ Enter[Len(Enter)].do = "check"
    BY <2>1 DEF Enter, Do, After
  <2> QED  BY <2>2, Short
<1> QED  BY <1>1, <1>2

\* The parts the operations of a VM are made of.
LEMMA VMParts ==
  ASSUME NEW op
  PROVE  LET d == "firecracker" IN
         /\ List(KillLocked, d, op, "term", "unjail")
         /\ op \in {"create", "resume", "reboot"} => List(LaunchSteps, d, op, "launch", "api")
         /\ op = "pause" => List(Commit, d, op, "backmem", "dropold")
<1> DEFINE d == "firecracker"
<1>1. List(KillLocked, d, op, "term", "unjail")
  <2>1. /\ Do("term", "stop") \in StepSet(d, op) /\ Do("signal", "stop") \in StepSet(d, op)
        /\ Do("unjail", "stop") \in StepSet(d, op)
    BY IsStep DEF KindsOf, VMKinds, ErrOf
  <2>2. /\ KillLocked \in Seq(StepSet(d, op)) /\ KillLocked # << >>
        /\ \A i \in 1..Len(KillLocked) - 1 : KillLocked[i + 1].do \in After(op, KillLocked[i].do)
        /\ \A i \in 1..Len(KillLocked) : KillLocked[i].do # "waitexit"
        /\ KillLocked[1].do = "term" /\ KillLocked[Len(KillLocked)].do = "unjail"
    BY <2>1 DEF KillLocked, Do, After
  <2> QED  BY <2>2, Short
<1>2. ASSUME op \in {"create", "resume", "reboot"} PROVE List(LaunchSteps, d, op, "launch", "api")
  <2>1. /\ Do("launch", "stop") \in StepSet(d, op) /\ Do("mount", "stop") \in StepSet(d, op)
        /\ Do("spawn", "unjail") \in StepSet(d, op) /\ Do("api", "kill") \in StepSet(d, op)
    BY <1>2, IsStep DEF KindsOf, VMKinds, LaunchKinds, ErrOf
  <2>2. /\ LaunchSteps \in Seq(StepSet(d, op)) /\ LaunchSteps # << >>
        /\ \A i \in 1..Len(LaunchSteps) - 1 : LaunchSteps[i + 1].do \in After(op, LaunchSteps[i].do)
        /\ \A i \in 1..Len(LaunchSteps) : LaunchSteps[i].do # "waitexit"
        /\ LaunchSteps[1].do = "launch" /\ LaunchSteps[Len(LaunchSteps)].do = "api"
    BY <1>2, <2>1 DEF LaunchSteps, Do, After
  <2> QED  BY <2>2, Short
<1>3. ASSUME op = "pause" PROVE List(Commit, d, op, "backmem", "dropold")
  <2>1. /\ Do("backmem", "discard") \in StepSet(d, op) /\ Do("backsnap", "rollmem") \in StepSet(d, op)
        /\ Do("mem", "rollback") \in StepSet(d, op) /\ Do("snap", "rollback") \in StepSet(d, op)
        /\ Do("dropold", "stop") \in StepSet(d, op)
    BY <1>3, IsStep DEF KindsOf, VMKinds, PauseKinds, ErrOf
  <2>0. /\ "backsnap" \in After(op, "backmem") /\ "mem" \in After(op, "backsnap")
        /\ "snap" \in After(op, "mem") /\ "dropold" \in After(op, "snap")
    BY DEF After
  <2>2. /\ Commit \in Seq(StepSet(d, op)) /\ Commit # << >>
        /\ \A i \in 1..Len(Commit) - 1 : Commit[i + 1].do \in After(op, Commit[i].do)
        /\ \A i \in 1..Len(Commit) : Commit[i].do # "waitexit"
        /\ Commit[1].do = "backmem" /\ Commit[Len(Commit)].do = "dropold"
    BY <2>0, <2>1 DEF Commit, Do
  <2> QED  BY <2>2, Short
<1> QED  BY <1>1, <1>2, <1>3

\* What ends an operation that succeeds.
LEMMA Returns ==
  ASSUME NEW d \in {"firecracker", "gvisor"}, NEW op,
         NEW state \in {"running", "stopped", "exited"} \cup {x \in {"paused"} : d = "firecracker" /\ op = "pause"}
  PROVE  List(Return(state), d, op, state, "unlock")
<1>1. List(<<Do(state, "stop")>>, d, op, state, state)
  BY OneStep DEF KindsOf, CommonKinds, VMKinds, PauseKinds, ErrOf
<1>2. "unlock" \in After(op, state)
  BY DEF After
<1> QED  BY <1>1, <1>2, CommonParts, Joined DEF Return

\* The steps of every operation of a VM: they begin with the mutex and end without.
LEMMA VMOperations ==
  LET d == "firecracker" IN
  /\ \A op \in {"create", "reboot"} : List(CreateSteps, d, op, "lock", "unlock")
  /\ List(ResumeSteps, d, "resume", "lock", "unlock")
  /\ List(PauseSteps, d, "pause", "lock", "unlock")
  /\ \A op \in {"stop", "reboot"} : List(StopSteps, d, op, "lock", "unlock")
  /\ List(RebootSteps, d, "reboot", "lock", "unlock")
  /\ List(KillSteps, d, "kill", "lock", "onkill")
  /\ List(BalloonSteps, d, "balloon", "lock", "unlock")
<1> DEFINE d == "firecracker"
<1>1. ASSUME NEW op \in {"create", "reboot"}
      PROVE  List(CreateSteps, d, op, "lock", "unlock")
  <2>0. List(<<Do("lock", "stop"), Do("nocmd", "stop")>>, d, op, "lock", "nocmd")
    <3> DEFINE s == <<Do("lock", "stop"), Do("nocmd", "stop")>>
    <3>1. /\ Do("lock", "stop") \in StepSet(d, op) /\ Do("nocmd", "stop") \in StepSet(d, op)
      BY IsStep DEF KindsOf, CommonKinds, VMKinds, ErrOf
    <3>2. /\ s \in Seq(StepSet(d, op)) /\ s # << >>
          /\ \A i \in 1..Len(s) - 1 : s[i + 1].do \in After(op, s[i].do)
          /\ \A i \in 1..Len(s) : s[i].do # "waitexit"
          /\ s[1].do = "lock" /\ s[Len(s)].do = "nocmd"
      BY <3>1 DEF Do, After
    <3> HIDE DEF s
    <3>3. List(s, d, op, "lock", "nocmd")
      BY <3>2, Short
    <3> QED  BY <3>3 DEF s
  <2>1. List(<<Do("configure", "kill"), Do("watch", "kill")>>, d, op, "configure", "watch")
    <3> DEFINE s == <<Do("configure", "kill"), Do("watch", "kill")>>
    <3>1. /\ Do("configure", "kill") \in StepSet(d, op) /\ Do("watch", "kill") \in StepSet(d, op)
      BY IsStep DEF KindsOf, VMKinds, LaunchKinds, ErrOf
    <3>2. /\ s \in Seq(StepSet(d, op)) /\ s # << >>
          /\ \A i \in 1..Len(s) - 1 : s[i + 1].do \in After(op, s[i].do)
          /\ \A i \in 1..Len(s) : s[i].do # "waitexit"
          /\ s[1].do = "configure" /\ s[Len(s)].do = "watch"
      BY <3>1 DEF Do, After
    <3> HIDE DEF s
    <3>3. List(s, d, op, "configure", "watch")
      BY <3>2, Short
    <3> QED  BY <3>3 DEF s
  <2>2. "launch" \in After(op, "nocmd") /\ "configure" \in After(op, "api") /\ "running" \in After(op, "watch")
    BY DEF After
  <2>3. List(<<Do("lock", "stop"), Do("nocmd", "stop")>> \o LaunchSteps, d, op, "lock", "api")
    BY <2>0, <2>2, VMParts, Joined
  <2>4. List(<<Do("lock", "stop"), Do("nocmd", "stop")>> \o LaunchSteps
               \o <<Do("configure", "kill"), Do("watch", "kill")>>, d, op, "lock", "watch")
    BY <2>1, <2>2, <2>3, Joined
  <2> QED  BY <2>2, <2>4, Returns, Joined DEF CreateSteps
<1>2. List(ResumeSteps, d, "resume", "lock", "unlock")
  <2>0. List(<<Do("lock", "stop")>>, d, "resume", "lock", "lock")
    BY OneStep DEF KindsOf, CommonKinds, ErrOf
  <2>1. List(<<Do("load", "kill"), Do("watch", "kill")>>, d, "resume", "load", "watch")
    <3> DEFINE s == <<Do("load", "kill"), Do("watch", "kill")>>
    <3>1. /\ Do("load", "kill") \in StepSet(d, "resume") /\ Do("watch", "kill") \in StepSet(d, "resume")
      BY IsStep DEF KindsOf, VMKinds, LaunchKinds, ErrOf
    <3>2. /\ s \in Seq(StepSet(d, "resume")) /\ s # << >>
          /\ \A i \in 1..Len(s) - 1 : s[i + 1].do \in After("resume", s[i].do)
          /\ \A i \in 1..Len(s) : s[i].do # "waitexit"
          /\ s[1].do = "load" /\ s[Len(s)].do = "watch"
      BY <3>1 DEF Do, After
    <3> HIDE DEF s
    <3>3. List(s, d, "resume", "load", "watch")
      BY <3>2, Short
    <3> QED  BY <3>3 DEF s
  <2>2. "launch" \in After("resume", "lock") /\ "load" \in After("resume", "api")
        /\ "running" \in After("resume", "watch")
    BY DEF After
  <2>3. List(<<Do("lock", "stop")>> \o LaunchSteps, d, "resume", "lock", "api")
    BY <2>0, <2>2, VMParts, Joined
  <2>4. List(<<Do("lock", "stop")>> \o LaunchSteps \o <<Do("load", "kill"), Do("watch", "kill")>>,
             d, "resume", "lock", "watch")
    BY <2>1, <2>2, <2>3, Joined
  <2> QED  BY <2>2, <2>4, Returns, Joined DEF ResumeSteps
<1>3. List(PauseSteps, d, "pause", "lock", "unlock")
  <2>1. List(<<Do("alive", "stop"), Do("freeze", "stop"), Do("write", "discard")>>, d, "pause", "alive", "write")
    <3> DEFINE s == <<Do("alive", "stop"), Do("freeze", "stop"), Do("write", "discard")>>
    <3>1. /\ Do("alive", "stop") \in StepSet(d, "pause") /\ Do("freeze", "stop") \in StepSet(d, "pause")
          /\ Do("write", "discard") \in StepSet(d, "pause")
      BY IsStep DEF KindsOf, VMKinds, PauseKinds, ErrOf
    <3>2. /\ s \in Seq(StepSet(d, "pause")) /\ s # << >>
          /\ \A i \in 1..Len(s) - 1 : s[i + 1].do \in After("pause", s[i].do)
          /\ \A i \in 1..Len(s) : s[i].do # "waitexit"
          /\ s[1].do = "alive" /\ s[Len(s)].do = "write"
      BY <3>1 DEF Do, After
    <3> HIDE DEF s
    <3>3. List(s, d, "pause", "alive", "write")
      BY <3>2, Short
    <3> QED  BY <3>3 DEF s
  <2>2. "alive" \in After("pause", "check") /\ "backmem" \in After("pause", "write")
        /\ "term" \in After("pause", "dropold") /\ "paused" \in After("pause", "unjail")
    BY DEF After
  <2>3. List(Enter \o <<Do("alive", "stop"), Do("freeze", "stop"), Do("write", "discard")>>,
             d, "pause", "lock", "write")
    BY <2>1, <2>2, CommonParts, Joined
  <2>4. List(Enter \o <<Do("alive", "stop"), Do("freeze", "stop"), Do("write", "discard")>> \o Commit,
             d, "pause", "lock", "dropold")
    BY <2>2, <2>3, VMParts, Joined
  <2>5. List(Enter \o <<Do("alive", "stop"), Do("freeze", "stop"), Do("write", "discard")>> \o Commit
               \o KillLocked, d, "pause", "lock", "unjail")
    BY <2>2, <2>4, VMParts, Joined
  <2> QED  BY <2>2, <2>5, Returns, Joined DEF PauseSteps
<1>4. ASSUME NEW op \in {"stop", "reboot"}
      PROVE  List(StopSteps, d, op, "lock", "unlock")
  <2>1. List(<<Do("waitexit", "stop"), Do("unjail", "stop")>>, d, op, "waitexit", "unjail")
    <3> DEFINE s == <<Do("waitexit", "stop"), Do("unjail", "stop")>>
    <3>1. /\ Do("waitexit", "stop") \in StepSet(d, op) /\ Do("unjail", "stop") \in StepSet(d, op)
      BY IsStep DEF KindsOf, VMKinds, ErrOf
    <3>2. /\ s \in Seq(StepSet(d, op)) /\ s # << >>
          /\ \A i \in 1..Len(s) - 1 : s[i + 1].do \in After(op, s[i].do)
          /\ \A i \in 1..Len(s) - 2 : s[i].do = "waitexit" => s[i + 2].do = "stopped"
          /\ s[1].do = "waitexit" /\ s[Len(s)].do = "unjail"
      BY <3>1 DEF Do, After
    <3> HIDE DEF s
    <3>3. List(s, d, op, "waitexit", "unjail")
      BY <3>2 DEF List, Links
    <3> QED  BY <3>3 DEF s
  <2>2. "waitexit" \in After(op, "check") /\ "stopped" \in After(op, "unjail")
    BY DEF After
  <2>3. List(Enter \o <<Do("waitexit", "stop"), Do("unjail", "stop")>>, d, op, "lock", "unjail")
    BY <2>1, <2>2, CommonParts, Joined
  <2> QED  BY <2>2, <2>3, Returns, Joined DEF StopSteps
<1>5. List(RebootSteps, d, "reboot", "lock", "unlock")
  <2>1. List(<<Do("lock", "stop"), Do("respec", "stop")>>, d, "reboot", "lock", "respec")
    <3> DEFINE s == <<Do("lock", "stop"), Do("respec", "stop")>>
    <3>1. /\ Do("lock", "stop") \in StepSet(d, "reboot") /\ Do("respec", "stop") \in StepSet(d, "reboot")
      BY IsStep DEF KindsOf, CommonKinds, VMKinds, ErrOf
    <3>2. /\ s \in Seq(StepSet(d, "reboot")) /\ s # << >>
          /\ \A i \in 1..Len(s) - 1 : s[i + 1].do \in After("reboot", s[i].do)
          /\ \A i \in 1..Len(s) : s[i].do # "waitexit"
          /\ s[1].do = "lock" /\ s[Len(s)].do = "respec"
      BY <3>1 DEF Do, After
    <3> HIDE DEF s
    <3>3. List(s, d, "reboot", "lock", "respec")
      BY <3>2, Short
    <3> QED  BY <3>3 DEF s
  <2>2. "lock" \in After("reboot", "unlock") /\ "unlock" \in After("reboot", "respec")
    BY DEF After
  <2>3. List(StopSteps \o <<Do("lock", "stop"), Do("respec", "stop")>>, d, "reboot", "lock", "respec")
    BY <1>4, <2>1, <2>2, Joined
  <2>4. List(StopSteps \o <<Do("lock", "stop"), Do("respec", "stop")>> \o Unlock, d, "reboot", "lock", "unlock")
    BY <2>2, <2>3, CommonParts, Joined
  <2> QED  BY <1>1, <2>2, <2>4, Joined DEF RebootSteps
<1>6. List(KillSteps, d, "kill", "lock", "onkill")
  <2>1. List(<<Do("onkill", "stop")>>, d, "kill", "onkill", "onkill")
    BY OneStep DEF KindsOf, CommonKinds, ErrOf
  <2>2. "term" \in After("kill", "check") /\ "exited" \in After("kill", "unjail")
        /\ "onkill" \in After("kill", "unlock")
    BY DEF After
  <2>3. List(Enter \o KillLocked, d, "kill", "lock", "unjail")
    BY <2>2, CommonParts, VMParts, Joined
  <2>4. List(Enter \o KillLocked \o Return("exited"), d, "kill", "lock", "unlock")
    BY <2>2, <2>3, Returns, Joined
  <2> QED  BY <2>1, <2>2, <2>4, Joined DEF KillSteps
<1>7. List(BalloonSteps, d, "balloon", "lock", "unlock")
  <2>1. List(<<Do("alive", "stop"), Do("ask", "stop")>>, d, "balloon", "alive", "ask")
    <3> DEFINE s == <<Do("alive", "stop"), Do("ask", "stop")>>
    <3>1. /\ Do("alive", "stop") \in StepSet(d, "balloon") /\ Do("ask", "stop") \in StepSet(d, "balloon")
      BY IsStep DEF KindsOf, VMKinds, ErrOf
    <3>2. /\ s \in Seq(StepSet(d, "balloon")) /\ s # << >>
          /\ \A i \in 1..Len(s) - 1 : s[i + 1].do \in After("balloon", s[i].do)
          /\ \A i \in 1..Len(s) : s[i].do # "waitexit"
          /\ s[1].do = "alive" /\ s[Len(s)].do = "ask"
      BY <3>1 DEF Do, After
    <3> HIDE DEF s
    <3>3. List(s, d, "balloon", "alive", "ask")
      BY <3>2, Short
    <3> QED  BY <3>3 DEF s
  <2>2. "alive" \in After("balloon", "check") /\ "unlock" \in After("balloon", "ask")
    BY DEF After
  <2>3. List(Enter \o <<Do("alive", "stop"), Do("ask", "stop")>>, d, "balloon", "lock", "ask")
    BY <2>1, <2>2, CommonParts, Joined
  <2> QED  BY <2>2, <2>3, CommonParts, Joined DEF BalloonSteps
<1> QED  BY <1>1, <1>2, <1>3, <1>4, <1>5, <1>6, <1>7

\* The same for containers.
LEMMA ContainerOperations ==
  ASSUME NEW op
  PROVE  LET d == "gvisor" IN
         /\ List(StartContainer, d, op, "lock", "unlock")
         /\ List(StopContainer, d, op, "lock", "runkill")
         /\ List(StopContainer \o Return("stopped"), d, op, "lock", "unlock")
         /\ List(StopContainer \o Unlock \o StartContainer, d, op, "lock", "unlock")
         /\ List(Enter \o <<Do("runkill", "stop")>> \o Return("exited") \o <<Do("onkill", "stop")>>,
                 d, op, "lock", "onkill")
<1> DEFINE d == "gvisor"
<1>1. "running" \in After(op, "runstart") /\ "poll" \in After(op, "check") /\ "stopped" \in After(op, "runkill")
      /\ "unlock" \in After(op, "runkill") /\ "lock" \in After(op, "unlock")
      /\ "runkill" \in After(op, "check") /\ "exited" \in After(op, "runkill") /\ "onkill" \in After(op, "unlock")
  BY DEF After
<1>2. List(StartContainer, d, op, "lock", "unlock")
  <2>1. List(<<Do("lock", "stop"), Do("notrunning", "stop"), Do("clear", "stop"),
               Do("bundle", "stop"), Do("runcreate", "delete"), Do("runstart", "delete")>>,
               d, op, "lock", "runstart")
    <3> DEFINE s == <<Do("lock", "stop"), Do("notrunning", "stop"), Do("clear", "stop"),
                      Do("bundle", "stop"), Do("runcreate", "delete"), Do("runstart", "delete")>>
    <3>1. /\ Do("lock", "stop") \in StepSet(d, op) /\ Do("notrunning", "stop") \in StepSet(d, op)
          /\ Do("clear", "stop") \in StepSet(d, op) /\ Do("bundle", "stop") \in StepSet(d, op)
          /\ Do("runcreate", "delete") \in StepSet(d, op) /\ Do("runstart", "delete") \in StepSet(d, op)
      BY IsStep DEF KindsOf, CommonKinds, GVisorKinds, ErrOf
    <3>0. /\ "notrunning" \in After(op, "lock") /\ "clear" \in After(op, "notrunning")
          /\ "bundle" \in After(op, "clear") /\ "runcreate" \in After(op, "bundle")
          /\ "runstart" \in After(op, "runcreate")
      BY DEF After
    <3>2. /\ s \in Seq(StepSet(d, op)) /\ s # << >>
          /\ \A i \in 1..Len(s) - 1 : s[i + 1].do \in After(op, s[i].do)
          /\ \A i \in 1..Len(s) : s[i].do # "waitexit"
          /\ s[1].do = "lock" /\ s[Len(s)].do = "runstart"
      BY <3>0, <3>1 DEF Do
    <3> HIDE DEF s
    <3>3. List(s, d, op, "lock", "runstart")
      BY <3>2, Short
    <3> QED  BY <3>3 DEF s
  <2> QED  BY <1>1, <2>1, Returns, Joined DEF StartContainer
<1>3. List(StopContainer, d, op, "lock", "runkill")
  <2>1. List(<<Do("poll", "stop"), Do("runkill", "stop")>>, d, op, "poll", "runkill")
    <3> DEFINE s == <<Do("poll", "stop"), Do("runkill", "stop")>>
    <3>1. /\ Do("poll", "stop") \in StepSet(d, op) /\ Do("runkill", "stop") \in StepSet(d, op)
      BY IsStep DEF KindsOf, GVisorKinds, ErrOf
    <3>2. /\ s \in Seq(StepSet(d, op)) /\ s # << >>
          /\ \A i \in 1..Len(s) - 1 : s[i + 1].do \in After(op, s[i].do)
          /\ \A i \in 1..Len(s) : s[i].do # "waitexit"
          /\ s[1].do = "poll" /\ s[Len(s)].do = "runkill"
      BY <3>1 DEF Do, After
    <3> HIDE DEF s
    <3>3. List(s, d, op, "poll", "runkill")
      BY <3>2, Short
    <3> QED  BY <3>3 DEF s
  <2> QED  BY <1>1, <2>1, CommonParts, Joined DEF StopContainer
<1>4. List(StopContainer \o Return("stopped"), d, op, "lock", "unlock")
  BY <1>1, <1>3, Returns, Joined
<1>5. List(StopContainer \o Unlock \o StartContainer, d, op, "lock", "unlock")
  <2>1. List(StopContainer \o Unlock, d, op, "lock", "unlock")
    BY <1>1, <1>3, CommonParts, Joined
  <2> QED  BY <1>1, <1>2, <2>1, Joined
<1>6. List(Enter \o <<Do("runkill", "stop")>> \o Return("exited") \o <<Do("onkill", "stop")>>, d, op, "lock", "onkill")
  <2>1. List(<<Do("runkill", "stop")>>, d, op, "runkill", "runkill")
        /\ List(<<Do("onkill", "stop")>>, d, op, "onkill", "onkill")
    BY OneStep DEF KindsOf, CommonKinds, GVisorKinds, ErrOf
  <2>2. List(Enter \o <<Do("runkill", "stop")>>, d, op, "lock", "runkill")
    BY <1>1, <2>1, CommonParts, Joined
  <2>3. List(Enter \o <<Do("runkill", "stop")>> \o Return("exited"), d, op, "lock", "unlock")
    BY <1>1, <2>2, Returns, Joined
  <2> QED  BY <1>1, <2>1, <2>3, Joined
<1> QED  BY <1>2, <1>3, <1>4, <1>5, <1>6

\* What a call starts with.
LEMMA Started ==
  ASSUME driver \in {"firecracker", "gvisor"}, NEW op \in OpNames, StepsOf(op) # << >>
  PROVE  StepsOf(op) \in Todos(driver, op) /\ StepsOf(op)[1].do = "lock"
<1>1. ASSUME NEW s, NEW z \in {"unlock", "onkill"}, List(s, driver, op, "lock", z)
      PROVE  s \in Todos(driver, op) /\ s[1].do = "lock"
  BY <1>1 DEF List, Todos
<1>2. CASE driver = "firecracker"
  <2>1. \E z \in {"unlock", "onkill"} : List(StepsOf(op), driver, op, "lock", z)
    BY <1>2, VMOperations DEF StepsOf, OpNames
  <2> QED  BY <1>1, <2>1
<1>3. CASE driver = "gvisor"
  <2>1. \E z \in {"unlock", "onkill"} : List(StepsOf(op), driver, op, "lock", z)
    BY <1>3, ContainerOperations DEF StepsOf, OpNames
  <2> QED  BY <1>1, <2>1
<1> QED  BY <1>2, <1>3

\* How a step that fails is undone.
LEMMA Undone ==
  ASSUME NEW d \in {"firecracker", "gvisor"}, NEW op, NEW k \in KindsOf(d, op)
  PROVE  LET e == ErrOf(k)
             s == Undo(e) IN
         /\ s \in Todos(d, op) /\ s # << >>
         /\ e \in {"stop", "unjail", "kill", "delete", "discard", "rollmem", "rollback"}
         /\ e = "stop"     => s[1].do = "unlock"
         /\ e = "unjail"   => s[1].do = "unjail" /\ Len(s) > 1 /\ s[2].do = "unlock"
         /\ e = "kill"     => s[1].do = "term" /\ op \notin {"pause", "kill"}
         /\ e = "delete"   => s[1].do = "rundelete"
         /\ e = "discard"  => s[1].do = "discard"
         /\ e = "rollmem"  => s[1].do = "rollmem" /\ Len(s) > 1 /\ s[2].do = "discard"
         /\ e = "rollback" => s[1].do = "rollmem" /\ Len(s) > 1 /\ s[2].do = "rollsnap"
<1>0. ErrOf(k) \in {"stop", "unjail", "kill", "delete", "discard", "rollmem", "rollback"}
  BY DEF ErrOf
<1>1. ASSUME NEW s, NEW a, List(s, d, op, a, "unlock")
      PROVE  s \in Todos(d, op) /\ s # << >> /\ s[1].do = a
  BY <1>1 DEF List, Todos
<1>2. List(Unlock, d, op, "unlock", "unlock")
  BY CommonParts
<1>3. ASSUME NEW s, NEW a, NEW z, List(s, d, op, a, z), "unlock" \in After(op, z), z # "waitexit",
             z = "unjail" => \A i \in 1..Len(s) : s[i].do # "waitexit"
      PROVE  List(s \o Unlock, d, op, a, "unlock")
  BY <1>2, <1>3, Joined
<1>4. ASSUME NEW a, NEW b
      PROVE  /\ Len(<<a>> \o Unlock) > 1 /\ (<<a>> \o Unlock)[2].do = "unlock"
             /\ Len(<<a, b>> \o Unlock) > 1 /\ (<<a, b>> \o Unlock)[2] = b
  BY DEF Unlock, Do
<1>5. CASE ErrOf(k) = "stop"
  BY <1>0, <1>1, <1>2, <1>5 DEF Undo
<1>6. CASE ErrOf(k) = "unjail"
  <2>1. d = "firecracker" /\ op \in {"create", "resume", "reboot"}
    BY <1>6 DEF ErrOf, KindsOf, CommonKinds, GVisorKinds, VMKinds, LaunchKinds, PauseKinds
  <2>2. List(<<Do("unjail", "stop")>>, d, op, "unjail", "unjail")
    BY <2>1, OneStep DEF KindsOf, VMKinds, ErrOf
  <2>3. \A i \in 1..Len(<<Do("unjail", "stop")>>) : (<<Do("unjail", "stop")>>)[i].do # "waitexit"
    BY DEF Do
  <2>4. List(<<Do("unjail", "stop")>> \o Unlock, d, op, "unjail", "unlock")
    BY <1>3, <2>1, <2>2, <2>3 DEF After
  <2> QED  BY <1>0, <1>1, <1>4, <1>6, <2>4 DEF Undo
<1>7. CASE ErrOf(k) = "kill"
  <2>1. d = "firecracker" /\ op \in {"create", "resume", "reboot"}
    BY <1>7 DEF ErrOf, KindsOf, CommonKinds, GVisorKinds, VMKinds, LaunchKinds, PauseKinds
  <2>2. List(KillLocked, d, op, "term", "unjail")
    BY <2>1, VMParts
  <2>3. \A i \in 1..Len(KillLocked) : KillLocked[i].do # "waitexit"
    BY DEF KillLocked, Do
  <2>4. List(KillLocked \o Unlock, d, op, "term", "unlock")
    BY <1>3, <2>1, <2>2, <2>3 DEF After
  <2> QED  BY <1>0, <1>1, <1>7, <2>1, <2>4 DEF Undo
<1>8. CASE ErrOf(k) = "delete"
  <2>1. d = "gvisor"
    BY <1>8 DEF ErrOf, KindsOf, CommonKinds, GVisorKinds, VMKinds, LaunchKinds, PauseKinds
  <2>2. List(<<Do("rundelete", "stop")>>, d, op, "rundelete", "rundelete")
    BY <2>1, OneStep DEF KindsOf, GVisorKinds, ErrOf
  <2>3. List(<<Do("rundelete", "stop")>> \o Unlock, d, op, "rundelete", "unlock")
    BY <1>3, <2>2 DEF After
  <2> QED  BY <1>0, <1>1, <1>8, <2>3 DEF Undo
<1>9. ASSUME ErrOf(k) \in {"discard", "rollmem", "rollback"}
      PROVE  /\ d = "firecracker" /\ op = "pause"
             /\ Do("rollmem", "stop") \in StepSet(d, op) /\ Do("rollsnap", "stop") \in StepSet(d, op)
             /\ Do("discard", "stop") \in StepSet(d, op)
  <2>1. d = "firecracker" /\ op = "pause"
    BY <1>9 DEF ErrOf, KindsOf, CommonKinds, GVisorKinds, VMKinds, LaunchKinds, PauseKinds
  <2> QED  BY <2>1, IsStep DEF KindsOf, VMKinds, PauseKinds, ErrOf
<1>10. CASE ErrOf(k) = "discard"
  <2>1. List(<<Do("discard", "stop")>>, d, op, "discard", "discard")
    BY <1>9, <1>10, OneStep DEF KindsOf, VMKinds, PauseKinds, ErrOf
  <2>2. List(<<Do("discard", "stop")>> \o Unlock, d, op, "discard", "unlock")
    BY <1>3, <2>1 DEF After
  <2> QED  BY <1>0, <1>1, <1>10, <2>2 DEF Undo
<1>11. CASE ErrOf(k) = "rollmem"
  <2> DEFINE s == <<Do("rollmem", "stop"), Do("discard", "stop")>>
  <2>1. /\ s \in Seq(StepSet(d, op)) /\ s # << >>
        /\ \A i \in 1..Len(s) - 1 : s[i + 1].do \in After(op, s[i].do)
        /\ \A i \in 1..Len(s) : s[i].do # "waitexit"
        /\ s[1].do = "rollmem" /\ s[Len(s)].do = "discard"
    BY <1>9, <1>11 DEF Do, After
  <2>2. Len(s \o Unlock) > 1 /\ (s \o Unlock)[2].do = "discard"
    BY <1>4 DEF Do
  <2>3. Undo("rollmem") = s \o Unlock
    BY DEF Undo
  <2> HIDE DEF s
  <2>4. List(s, d, op, "rollmem", "discard")
    BY <2>1, Short
  <2>5. List(s \o Unlock, d, op, "rollmem", "unlock")
    BY <1>3, <2>4 DEF After
  <2> QED  BY <1>0, <1>1, <1>11, <2>2, <2>3, <2>5
<1>12. CASE ErrOf(k) = "rollback"
  <2> DEFINE s == <<Do("rollmem", "stop"), Do("rollsnap", "stop"), Do("discard", "stop")>>
  <2>0. /\ "rollsnap" \in After(op, "rollmem") /\ "discard" \in After(op, "rollsnap")
    BY DEF After
  <2>1. /\ s \in Seq(StepSet(d, op)) /\ s # << >>
        /\ \A i \in 1..Len(s) - 1 : s[i + 1].do \in After(op, s[i].do)
        /\ \A i \in 1..Len(s) : s[i].do # "waitexit"
        /\ s[1].do = "rollmem" /\ s[Len(s)].do = "discard"
    BY <1>9, <1>12, <2>0 DEF Do
  <2>2. Len(s \o Unlock) > 1 /\ (s \o Unlock)[2].do = "rollsnap"
    BY DEF Do, Unlock
  <2>3. Undo("rollback") = s \o Unlock
    BY DEF Undo
  <2> HIDE DEF s
  <2>4. List(s, d, op, "rollmem", "discard")
    BY <2>1, Short
  <2>5. List(s \o Unlock, d, op, "rollmem", "unlock")
    BY <1>3, <2>4 DEF After
  <2> QED  BY <1>0, <1>1, <1>12, <2>2, <2>3, <2>5
<1> QED  BY <1>0, <1>5, <1>6, <1>7, <1>8, <1>10, <1>11, <1>12

-----------------------------------------------------------------------------
(***************************************************************************)
(* How the holder of the mutex moves                                       *)
(***************************************************************************)
\* The mutex is with the call whose next step is taken with it.
LEMMA Holder ==
  ASSUME Control, NEW c \in Calls, NEW k, At(c, k)
  PROVE  LET s == call[c].todo IN
         /\ s \in Todos(driver, call[c].op) /\ s # << >> /\ s[1].do = k /\ Head(s) = s[1]
         /\ k \in KindsOf(driver, call[c].op) /\ s[1].err = ErrOf(k)
         /\ k \notin Outside => /\ mu = c /\ Doing = k /\ Serving = call[c].op
                                /\ Following = IF Len(s) > 1 THEN s[2].do ELSE "rest"
         /\ k \in Outside => mu # c
<1> DEFINE s == call[c].todo
<1>1. s \in Todos(driver, call[c].op) /\ s # << >> /\ Head(s).do = k /\ (mu = c <=> Holds(c))
  BY DEF Control, CallOK, At, Active
<1>2. /\ Head(s) = s[1] /\ s[1].do = k
      /\ s[1].do \in KindsOf(driver, call[c].op) /\ s[1].err = ErrOf(s[1].do)
  <2> HIDE DEF s
  <2>1. ASSUME NEW d, NEW op, s \in Todos(d, op), s # << >>
        PROVE  Head(s) = s[1] /\ s[1].do \in KindsOf(d, op) /\ s[1].err = ErrOf(s[1].do)
    BY <2>1, Onward
  <2> QED  BY <1>1, <2>1
<1>3. Holds(c) <=> k \notin Outside
  BY <1>1 DEF Holds, Active
<1> QED  BY <1>1, <1>2, <1>3 DEF Doing, Following, Serving

\* The holder takes up other steps.
LEMMA TakesUp ==
  ASSUME Control, NEW c \in Calls, mu = c, driver' = driver, mu' = mu,
         NEW s \in Todos(driver, call[c].op), s # << >>, s[1].do \notin Outside, Then(c, s)
  PROVE  /\ Control' /\ Doing' = s[1].do /\ Serving' = Serving
         /\ Following' = IF Len(s) > 1 THEN s[2].do ELSE "rest"
<1>1. /\ DOMAIN call' = Calls
      /\ \A d \in Calls \ {c} : call'[d] = call[d]
      /\ call'[c].todo = s /\ call'[c].op = call[c].op
      /\ call'[c] \in [op : OpNames \cup {"idle"}, cancelled : BOOLEAN, todo : Seq(StepSet(driver, call[c].op))]
  <2>1. DOMAIN call = Calls /\ call' = [call EXCEPT ![c].todo = s]
    BY DEF Control, Then
  <2>2. call'[c] = [call[c] EXCEPT !.todo = s]
    BY <2>1
  <2>3. call[c] \in [op : OpNames \cup {"idle"}, cancelled : BOOLEAN, todo : Seq(StepSet(driver, call[c].op))]
    BY DEF Control, CallOK
  <2>4. s \in Seq(StepSet(driver, call[c].op))
    BY Onward
  <2> QED  BY <2>1, <2>2, <2>3, <2>4
<1>2. Head(s) = s[1]
  BY Onward
<1>3. ASSUME NEW d \in Calls
      PROVE  CallOK(d)'
  <2>1. CASE d = c
    BY <1>1, <1>2, <2>1 DEF Control, CallOK, Holds, Active
  <2>2. CASE d # c
    BY <1>1, <2>2 DEF Control, CallOK, Holds, Active
  <2> QED  BY <2>1, <2>2
<1> QED  BY <1>1, <1>3 DEF Control, Doing, Following, Serving

\* A step succeeds: the next one is up.
LEMMA Forward ==
  ASSUME Control, NEW c \in Calls, NEW k, At(c, k), k \notin Outside \cup {"unlock"},
         Then(c, Rest(c)), driver' = driver, mu' = mu
  PROVE  /\ Control' /\ mu = c /\ Doing = k /\ k \in KindsOf(driver, Serving)
         /\ Following \in After(Serving, k) /\ Doing' = Following /\ Serving' = Serving
         /\ Following # "unlock" => Following' \in After(Serving, Following)
         /\ k = "waitexit" => Following' = "stopped"
<1> DEFINE s == call[c].todo
           op == call[c].op
<1>1. /\ s \in Todos(driver, op) /\ s # << >> /\ s[1].do = k /\ k \in KindsOf(driver, op)
      /\ mu = c /\ Doing = k /\ Serving = op /\ Following = IF Len(s) > 1 THEN s[2].do ELSE "rest"
  BY Holder
<1>2. /\ Tail(s) \in Todos(driver, op) /\ Tail(s) # << >>
      /\ Len(s) > 1 /\ Tail(s)[1] = s[2] /\ s[2].do \in After(op, k)
      /\ Len(Tail(s)) > 1 => Tail(s)[2] = s[3] /\ (k = "waitexit" => s[3].do = "stopped")
  <2> HIDE DEF s, op
  <2> QED  BY <1>1, Onward DEF Outside
<1>3. s[2].do \notin Outside
  BY <1>2 DEF After, Outside
<1>4. /\ Control' /\ Doing' = Tail(s)[1].do /\ Serving' = Serving
      /\ Following' = IF Len(Tail(s)) > 1 THEN Tail(s)[2].do ELSE "rest"
  <2>1. Then(c, Tail(s))
    BY DEF Rest
  <2> HIDE DEF s
  <2> QED  BY <1>1, <1>2, <1>3, <2>1, TakesUp
<1>5. /\ s[2].do # "unlock" => Len(Tail(s)) > 1 /\ Tail(s)[2].do \in After(op, s[2].do)
      /\ k = "waitexit" => Len(Tail(s)) > 1
  <2> DEFINE t == Tail(s)
  <2>1. s[2].do # "onkill"
    BY <1>3 DEF Outside
  <2>2. /\ Tail(t) # << >> => Len(t) > 1 /\ t[2].do \in After(op, t[1].do)
        /\ Tail(t) = << >> => t[1].do \in {"unlock", "onkill"}
    <3>1. t \in Todos(driver, op) /\ t # << >>
      BY <1>2
    <3> HIDE DEF t
    <3> QED  BY <3>1, Onward
  <2>3. k = "waitexit" => s[2].do = "unjail"
    BY <1>2 DEF After
  <2> QED  BY <1>2, <2>1, <2>2, <2>3
<1> QED  BY <1>1, <1>2, <1>4, <1>5

\* A step fails: what it leaves is undone.
LEMMA Failing ==
  ASSUME Control, BoxshimAssumption, NEW c \in Calls, NEW k, At(c, k), k \notin Outside,
         Fails(c), driver' = driver, mu' = mu
  PROVE  /\ Control' /\ mu = c /\ Doing = k /\ k \in KindsOf(driver, Serving) /\ Serving' = Serving
         /\ LET e == ErrOf(k) IN
            \/ e = "stop"     /\ Doing' = "unlock"
            \/ e = "unjail"   /\ Doing' = "unjail" /\ Following' = "unlock"
            \/ e = "kill"     /\ Doing' = "term" /\ Serving \notin {"pause", "kill"}
            \/ e = "delete"   /\ Doing' = "rundelete"
            \/ e = "discard"  /\ Doing' = "discard"
            \/ e = "rollmem"  /\ Doing' = "rollmem" /\ Following' = "discard"
            \/ e = "rollback" /\ Doing' = "rollmem" /\ Following' = "rollsnap"
<1> DEFINE op == call[c].op
           s  == Undo(ErrOf(k))
<1>1. /\ k \in KindsOf(driver, op) /\ mu = c /\ Doing = k /\ Serving = op
      /\ Head(call[c].todo).err = ErrOf(k)
  BY Holder
<1>2. driver \in {"firecracker", "gvisor"}
  BY DEF Control, BoxshimAssumption
<1>3. /\ s \in Todos(driver, op) /\ s # << >>
      /\ LET e == ErrOf(k) IN
         \/ e = "stop"     /\ s[1].do = "unlock"
         \/ e = "unjail"   /\ s[1].do = "unjail" /\ Len(s) > 1 /\ s[2].do = "unlock"
         \/ e = "kill"     /\ s[1].do = "term" /\ op \notin {"pause", "kill"}
         \/ e = "delete"   /\ s[1].do = "rundelete"
         \/ e = "discard"  /\ s[1].do = "discard"
         \/ e = "rollmem"  /\ s[1].do = "rollmem" /\ Len(s) > 1 /\ s[2].do = "discard"
         \/ e = "rollback" /\ s[1].do = "rollmem" /\ Len(s) > 1 /\ s[2].do = "rollsnap"
  BY <1>1, <1>2, Undone
<1>4. Then(c, s)
  BY <1>1 DEF Fails
<1> HIDE DEF s
<1>5. s[1].do \notin Outside
  BY <1>3 DEF Outside
<1>6. /\ Control' /\ Doing' = s[1].do /\ Serving' = Serving
      /\ Following' = IF Len(s) > 1 THEN s[2].do ELSE "rest"
  BY <1>1, <1>3, <1>4, <1>5, TakesUp
<1> QED  BY <1>1, <1>3, <1>6

\* Steps that find nothing to do leave out what follows.
LEMMA SkipsOne ==
  ASSUME Control, NEW c \in Calls, NEW k \in {"waitexit", "poll"}, At(c, k),
         Then(c, Tail(Rest(c))), driver' = driver, mu' = mu
  PROVE  /\ Control' /\ mu = c /\ Doing = k /\ k \in KindsOf(driver, Serving) /\ Serving' = Serving
         /\ k = "waitexit" => Doing' = "stopped"
         /\ k = "poll" => Doing' \in {"stopped", "exited", "unlock"}
<1> DEFINE s  == call[c].todo
           t  == Tail(s)
           op == call[c].op
<1>1. /\ s \in Todos(driver, op) /\ s # << >> /\ s[1].do = k /\ k \in KindsOf(driver, op)
      /\ mu = c /\ Doing = k /\ Serving = op
  BY Holder DEF Outside
<1>2. /\ t \in Todos(driver, op) /\ t # << >> /\ t[1].do \in After(op, k)
      /\ Len(t) > 1 /\ k = "waitexit" => t[2].do = "stopped"
  <2> HIDE DEF s, op
  <2>1. Tail(s) \in Todos(driver, op) /\ Tail(s) # << >> /\ Tail(s)[1].do \in After(op, k)
        /\ (Len(Tail(s)) > 1 /\ k = "waitexit" => Tail(s)[2].do = "stopped")
    BY <1>1, Onward
  <2> QED  BY <2>1
<1>3. /\ Tail(t) \in Todos(driver, op) /\ Tail(t) # << >>
      /\ Len(t) > 1 /\ Tail(t)[1] = t[2] /\ t[2].do \in After(op, t[1].do)
  <2>1. t[1].do \notin {"unlock", "onkill"}
    BY <1>2 DEF After
  <2> HIDE DEF t, op
  <2> QED  BY <1>2, <2>1, Onward
<1>4. /\ k = "waitexit" => Tail(t)[1].do = "stopped"
      /\ k = "poll" => Tail(t)[1].do \in {"stopped", "exited", "unlock"}
  <2>1. k = "poll" => t[1].do = "runkill"
    BY <1>2 DEF After
  <2> QED  BY <1>2, <1>3, <2>1 DEF After
<1>5. Control' /\ Doing' = Tail(t)[1].do /\ Serving' = Serving
  <2>1. Then(c, Tail(t)) /\ Tail(t)[1].do \notin Outside
    BY <1>4 DEF Rest, Outside
  <2> HIDE DEF t
  <2> QED  BY <1>1, <1>3, <2>1, TakesUp
<1> QED  BY <1>1, <1>4, <1>5

\* A VM that is not there is not signalled, nor its jail taken down.
LEMMA SkipsTwo ==
  ASSUME Control, NEW c \in Calls, At(c, "term"), Then(c, Tail(Tail(Rest(c)))), driver' = driver, mu' = mu
  PROVE  /\ Control' /\ mu = c /\ Doing = "term" /\ "term" \in KindsOf(driver, Serving) /\ Serving' = Serving
         /\ Doing' \in After(Serving, "unjail")
<1> DEFINE s  == call[c].todo
           t  == Tail(s)
           u  == Tail(t)
           op == call[c].op
<1>1. /\ s \in Todos(driver, op) /\ s # << >> /\ s[1].do = "term" /\ "term" \in KindsOf(driver, op)
      /\ mu = c /\ Doing = "term" /\ Serving = op
  BY Holder DEF Outside
<1>2. t \in Todos(driver, op) /\ t # << >> /\ t[1].do = "signal"
  <2> HIDE DEF s, op
  <2>1. Tail(s) \in Todos(driver, op) /\ Tail(s) # << >> /\ Tail(s)[1].do \in After(op, "term")
    BY <1>1, Onward
  <2> QED  BY <2>1 DEF After
<1>3. u \in Todos(driver, op) /\ u # << >> /\ u[1].do = "unjail"
  <2> HIDE DEF t, op
  <2>1. Tail(t) \in Todos(driver, op) /\ Tail(t) # << >> /\ Tail(t)[1].do \in After(op, "signal")
    BY <1>2, Onward
  <2> QED  BY <2>1 DEF After
<1>4. Tail(u) \in Todos(driver, op) /\ Tail(u) # << >> /\ Tail(u)[1].do \in After(op, "unjail")
  <2> HIDE DEF u, op
  <2> QED  BY <1>3, Onward
<1>5. Control' /\ Doing' = Tail(u)[1].do /\ Serving' = Serving
  <2>1. Then(c, Tail(u)) /\ Tail(u)[1].do \notin Outside
    BY <1>4 DEF Rest, Outside, After
  <2> HIDE DEF u
  <2> QED  BY <1>1, <1>4, <2>1, TakesUp
<1> QED  BY <1>1, <1>4, <1>5

\* A call that does not hold the mutex, or gives it up or takes it, changes its steps.
LEMMA Elsewhere ==
  ASSUME Control, NEW c \in Calls, driver' = driver, mu' \in Calls \cup {NoCall},
         DOMAIN call' = Calls, \A d \in Calls \ {c} : call'[d] = call[d] /\ (mu' = d <=> mu = d),
         CallOK(c)'
  PROVE  Control'
<1>1. ASSUME NEW d \in Calls \ {c}
      PROVE  CallOK(d)'
  BY DEF Control, CallOK, Holds, Active
<1> QED  BY <1>1 DEF Control

\* What is left of the steps of such a call.
LEMMA Leaves ==
  ASSUME Control, BoxshimAssumption, NEW c \in Calls, NEW k \in {"lock", "unlock", "onkill"}, At(c, k),
         Then(c, Rest(c)), driver' = driver,
         k = "lock"   => mu = NoCall /\ mu' = c,
         k = "unlock" => mu' = NoCall,
         k = "onkill" => mu' = mu
  PROVE  /\ Control'
         /\ k = "lock"   => /\ Doing = "rest" /\ Doing' \in After(Serving', "lock")
                            /\ Doing' \in KindsOf(driver, Serving') /\ Serving' = call[c].op
                            /\ Following' \in After(Serving', Doing')
         /\ k = "unlock" => mu = c /\ Doing = "unlock" /\ Doing' = "rest"
         /\ k = "onkill" => Doing' = Doing /\ Following' = Following /\ Serving' = Serving
<1> DEFINE s  == call[c].todo
           t  == Tail(s)
           op == call[c].op
<1>1. /\ s \in Todos(driver, op) /\ s # << >> /\ s[1].do = k
      /\ k = "unlock" => mu = c /\ Doing = k
      /\ k # "unlock" => mu # c
  BY Holder DEF Outside
<1>2. /\ t \in Todos(driver, op) /\ (t = << >> => k # "lock")
      /\ t # << >> => t[1].do \in After(op, k)
  <2> HIDE DEF s, op
  <2>1. Tail(s) \in Todos(driver, op) /\ (Tail(s) # << >> => Tail(s)[1].do \in After(op, s[1].do))
        /\ (Tail(s) = << >> => s[1].do \in {"unlock", "onkill"})
    BY <1>1, Onward
  <2> QED  BY <1>1, <2>1
<1>3. ASSUME t # << >>
      PROVE  /\ Head(t) = t[1] /\ t[1].do \in KindsOf(driver, op) /\ t \in Seq(StepSet(driver, op))
             /\ Tail(t) # << >> => Len(t) > 1 /\ t[2].do \in After(op, t[1].do)
             /\ Tail(t) = << >> => t[1].do \in {"unlock", "onkill"}
  <2> HIDE DEF t, op
  <2>1. t \in Todos(driver, op) /\ t # << >>
    BY <1>2, <1>3
  <2> QED  BY <2>1, Onward
<1>4. k = "lock" => t[1].do \notin Outside /\ t[1].do # "unlock"
  BY <1>2 DEF After, Outside
<1>5. k = "unlock" /\ t # << >> => t[1].do \in Outside
  BY <1>2 DEF After, Outside
<1>6. k = "onkill" => t = << >>
  BY <1>2 DEF After
<1>7. /\ DOMAIN call' = Calls /\ \A d \in Calls \ {c} : call'[d] = call[d]
      /\ call'[c] = [call[c] EXCEPT !.todo = t]
  BY DEF Control, Then, Rest
<1>8. op # "idle"
  BY <1>1 DEF Control, CallOK
<1>9. /\ call'[c] \in [op : OpNames \cup {"idle"}, cancelled : BOOLEAN, todo : Seq(StepSet(driver, op))]
      /\ call'[c].op = op /\ call'[c].todo = t
  <2>1. call[c] \in [op : OpNames \cup {"idle"}, cancelled : BOOLEAN, todo : Seq(StepSet(driver, op))]
    BY DEF Control, CallOK
  <2>2. t \in Seq(StepSet(driver, op))
    BY <1>2 DEF Todos, Links
  <2> HIDE DEF t
  <2> QED  BY <1>7, <2>1, <2>2
<1>10. Holds(c)' <=> t # << >> /\ t[1].do \notin Outside
  <2> HIDE DEF t
  <2> QED  BY <1>3, <1>9 DEF Holds, Active
<1>11. (mu' = c) <=> (t # << >> /\ t[1].do \notin Outside)
  BY <1>1, <1>2, <1>4, <1>5, <1>6 DEF BoxshimAssumption
<1>12. CallOK(c)'
  <2> HIDE DEF t
  <2> QED  BY <1>2, <1>8, <1>9, <1>10, <1>11 DEF CallOK
<1>13. Control'
  <2>1. \A d \in Calls \ {c} : mu' = d <=> mu = d
    BY <1>1 DEF BoxshimAssumption
  <2>2. mu' \in Calls \cup {NoCall}
    BY DEF Control
  <2> QED  BY <1>7, <1>12, <2>1, <2>2, Elsewhere
<1>14. ASSUME k = "lock"
       PROVE  /\ Doing = "rest" /\ Doing' = t[1].do /\ Serving' = op
              /\ Following' = IF Len(t) > 1 THEN t[2].do ELSE "rest"
  <2> HIDE DEF t, op
  <2> QED  BY <1>9, <1>14 DEF Doing, Following, Serving, BoxshimAssumption
<1>15. ASSUME k = "unlock"
       PROVE  Doing' = "rest"
  BY <1>15 DEF Doing, BoxshimAssumption
<1>16. ASSUME k = "onkill"
       PROVE  Doing' = Doing /\ Following' = Following /\ Serving' = Serving
  BY <1>1, <1>7, <1>16 DEF Doing, Following, Serving
<1>17. k = "lock" => Following' \in After(op, t[1].do)
  <2>1. k = "lock" => Tail(t) # << >>
    BY <1>2, <1>3, <1>4 DEF Outside
  <2> HIDE DEF t, op
  <2> QED  BY <1>2, <1>3, <1>14, <2>1
<1> QED  BY <1>1, <1>2, <1>3, <1>13, <1>14, <1>15, <1>16, <1>17

\* Calls that arrive and requests that are cancelled.
LEMMA Callers ==
  ASSUME Control, BoxshimAssumption, NEW c \in Calls, Request(c) \/ Cancel(c)
  PROVE  Control' /\ Doing' = Doing /\ Following' = Following /\ Serving' = Serving
<1>1. driver \in {"firecracker", "gvisor"} /\ driver' = driver /\ mu' = mu /\ DOMAIN call = Calls
      /\ CallOK(c) /\ mu \in Calls \cup {NoCall}
  BY DEF Control, BoxshimAssumption, Request, Cancel, theDriver
<1>2. CASE Request(c)
  <2>1. call[c].op = "idle" /\ call[c].todo = << >> /\ mu # c
    BY <1>1, <1>2 DEF Request, CallOK, Holds, Active
  <2>2. PICK op \in Ops : /\ StepsOf(op) # << >>
                          /\ call' = [call EXCEPT ![c] = [op |-> op, cancelled |-> FALSE, todo |-> StepsOf(op)]]
    BY <1>2 DEF Request
  <2>3. op \in OpNames
    BY DEF BoxshimAssumption
  <2>4. StepsOf(op) \in Todos(driver, op) /\ StepsOf(op)[1].do = "lock"
        /\ StepsOf(op) \in Seq(StepSet(driver, op)) /\ Head(StepsOf(op)) = StepsOf(op)[1]
    BY <1>1, <2>2, <2>3, Started, Onward
  <2>5. /\ DOMAIN call' = Calls /\ \A d \in Calls \ {c} : call'[d] = call[d]
        /\ call'[c] = [op |-> op, cancelled |-> FALSE, todo |-> StepsOf(op)]
    BY <1>1, <2>2
  <2>6. CallOK(c)'
    BY <1>1, <2>1, <2>2, <2>3, <2>4, <2>5 DEF CallOK, Holds, Active, Outside, OpNames
  <2>7. Control'
    BY <1>1, <2>5, <2>6, Elsewhere
  <2> QED  BY <1>1, <2>1, <2>5, <2>7 DEF Doing, Following, Serving
<1>3. CASE Cancel(c)
  <2>1. /\ DOMAIN call' = Calls /\ \A d \in Calls \ {c} : call'[d] = call[d]
        /\ call'[c] = [call[c] EXCEPT !.cancelled = TRUE]
    BY <1>1, <1>3 DEF Cancel
  <2>2. /\ call'[c].op = call[c].op /\ call'[c].todo = call[c].todo
        /\ call'[c] \in [op : OpNames \cup {"idle"}, cancelled : BOOLEAN, todo : Seq(StepSet(driver, call[c].op))]
    BY <1>1, <2>1 DEF CallOK
  <2>3. CallOK(c)'
    BY <1>1, <2>2 DEF CallOK, Holds, Active
  <2>4. Control'
    BY <1>1, <2>1, <2>3, Elsewhere
  <2> QED  BY <1>1, <2>1, <2>2, <2>4 DEF Doing, Following, Serving
<1> QED  BY <1>2, <1>3

\* The shim dies: no call is left.
LEMMA Dies ==
  ASSUME Control, BoxshimAssumption, Forget
  PROVE  Control' /\ Doing' = "rest"
<1>1. driver' = driver /\ mu' = NoCall /\ DOMAIN call' = Calls
  BY DEF Forget
<1>2. ASSUME NEW c \in Calls
      PROVE  CallOK(c)'
  <2>1. /\ call'[c] = [call[c] EXCEPT !.todo = << >>]
        /\ call[c] \in [op : OpNames \cup {"idle"}, cancelled : BOOLEAN, todo : Seq(StepSet(driver, call[c].op))]
    BY DEF Forget, Control, CallOK
  <2>2. /\ call'[c].op = call[c].op /\ call'[c].todo = << >>
        /\ call'[c] \in [op : OpNames \cup {"idle"}, cancelled : BOOLEAN, todo : Seq(StepSet(driver, call[c].op))]
    <3>1. << >> \in Seq(StepSet(driver, call[c].op))
      OBVIOUS
    <3> QED  BY <2>1, <3>1
  <2>3. << >> \in Todos(driver, call[c].op)
    BY DEF Todos, Links
  <2> QED  BY <1>1, <2>2, <2>3 DEF CallOK, Holds, Active, BoxshimAssumption
<1>3. Control'
  BY <1>1, <1>2 DEF Control
<1> QED  BY <1>1, <1>3 DEF Doing, BoxshimAssumption

\* Nothing but data changes.
LEMMA Still ==
  ASSUME Control, UNCHANGED <<driver, mu, call>>
  PROVE  Control' /\ Doing' = Doing /\ Following' = Following /\ Serving' = Serving
BY DEF Control, CallOK, Holds, Active, Doing, Following, Serving

\* A shim starts without calls.
LEMMA ControlInit ==
  ASSUME BoxshimAssumption, Init
  PROVE  Control /\ Doing = "rest"
<1>1. ASSUME NEW c \in Calls
      PROVE  CallOK(c)
  <2>1. << >> \in Todos(driver, "idle") /\ << >> \in Seq(StepSet(driver, "idle"))
    BY DEF Todos, Links
  <2> QED  BY <2>1 DEF Init, CallOK, Idle, Holds, Active, BoxshimAssumption
<1> QED  BY <1>1 DEF Init, Control, Doing, BoxshimAssumption

\* What comes after a step that does not end an operation.
LEMMA Follows ==
  ASSUME Control, Doing \notin {"rest", "unlock"}
  PROVE  Following \in After(Serving, Doing)
<1>1. mu \in Calls
  BY DEF Doing
<1> DEFINE s  == call[mu].todo
           op == call[mu].op
<1>2. /\ s \in Todos(driver, op) /\ s # << >> /\ Head(s).do \notin Outside
      /\ Doing = s[1].do /\ Serving = op /\ Following = IF Len(s) > 1 THEN s[2].do ELSE "rest"
  BY <1>1 DEF Control, CallOK, Holds, Active, Doing, Following, Serving
<1>3. Head(s) = s[1]
  <2> HIDE DEF s, op
  <2> QED  BY <1>2, Onward
<1>4. Len(s) > 1 /\ s[2].do \in After(op, s[1].do)
  <2>1. s[1].do \notin {"unlock", "onkill"}
    BY <1>2, <1>3 DEF Outside
  <2> HIDE DEF s, op
  <2> QED  BY <1>2, <2>1, Onward
<1> QED  BY <1>2, <1>4

-----------------------------------------------------------------------------
(***************************************************************************)
(* The inductive invariant                                                 *)
(***************************************************************************)
Hurts == {"unkillable", "mounts", "rollback", "kept", "halfway"}

Types ==
  /\ shim \in {"up", "stopping", "down"}
  /\ info \in Reports \cup {"none"} /\ spec \in BOOLEAN
  /\ jail \in {"none", "made", "mounted"}
  /\ mem \in Held /\ snap \in Held /\ tmp \in Held /\ old \in [mem : Held, snap : Held]
  /\ hurt \subseteq Hurts /\ over \in BOOLEAN

\* Steps before which a VM has been started by this call, and which end one.
Starting == {"api", "configure", "load", "watch"}
Ending   == {"term", "signal", "unjail"}
Alarm    == hurt \cap {"unkillable"}

\* Processes are numbered as they are launched; the one being jailed is the one the
\* driver holds, and a call that goes on with a VM or a container has one.
ProcInv ==
  /\ launched \in 0..MaxLaunch /\ cmd \in 0..launched /\ known \in 0..launched
  /\ proc \in [Runtimes -> {"none", "jailing", "live", "gone"}]
  /\ orphans \subseteq 1..launched /\ cmd \notin orphans
  /\ driver = "gvisor" => cmd = 0
  /\ \A v \in Runtimes : proc[v] = "none" <=> v > launched
  /\ \A v \in Runtimes \ orphans :
       proc[v] = "jailing" /\ "unkillable" \notin hurt =>
         v = cmd /\ Doing \in {"api", "term", "signal"}
  /\ driver = "firecracker" /\ Doing \in Starting \cup {"running"} => cmd # 0
  /\ Doing \in {"freeze", "ask", "write", "backmem", "backsnap", "mem", "snap", "dropold"} => cmd # 0

\* No runtime is forgotten.
ForgottenInv ==
  Alarm = {} =>
    /\ Doing \in {"paused", "stopped", "exited"} => Running \subseteq orphans
    /\ driver = "firecracker" =>
         /\ Doing \notin Starting \cup Ending \cup {"running"} /\ (info \in Parked \/ cmd = 0)
              => Running \subseteq orphans
         /\ Doing = "term" /\ cmd = 0 => Running \subseteq orphans
    /\ driver = "gvisor" =>
         /\ Running \subseteq orphans \cup {known}
         /\ Doing \in {"clear", "bundle", "runcreate", "runstart", "rundelete"} => info # "running"
         /\ Doing \notin {"runstart", "running", "rundelete"} /\ info # "running"
              => Running \subseteq orphans

\* A VM reported running is one the driver holds; a start that failed is being undone.
Undoing == \/ Doing \in {"term", "signal"} /\ Serving \notin {"pause", "kill"}
           \/ Doing = "unjail" /\ Following = "unlock"
HonestInv ==
  driver = "firecracker" /\ hurt \subseteq {"rollback", "kept", "halfway"} /\ ~over =>
    /\ Doing \in {"launch", "mount", "spawn"} \cup Starting \/ Undoing => info # "running"
    /\ Doing \notin {"signal", "unjail", "paused", "stopped", "exited"} /\ info = "running" => cmd # 0

\* The two files of a snapshot fit; and the same for a backup of the memory file,
\* which is there whenever its state file is.
Whole  == hurt \cap {"halfway", "kept"} = {}
Fit(m, s)  == Whole /\ s # NoFile /\ m # NoFile => m = s
Same(m, s) == Whole /\ s # NoFile => m = s
SnapshotInv ==
  /\ Doing \notin {"backsnap", "mem", "snap", "rollmem", "rollsnap"} => Fit(mem, snap)
  /\ Doing \in {"backmem", "backsnap", "mem", "snap"} => tmp = cmd
  /\ Doing = "backsnap" => mem = NoFile /\ Same(old.mem, snap)
  /\ Doing = "mem"  => mem = NoFile /\ snap = NoFile /\ Same(old.mem, old.snap)
  /\ Doing = "snap" => mem = tmp /\ snap = NoFile /\ Same(old.mem, old.snap)
  /\ Doing = "rollmem" /\ Following = "discard"  => mem = NoFile /\ Same(old.mem, snap)
  /\ Doing = "rollmem" /\ Following = "rollsnap" => snap = NoFile /\ Same(old.mem, old.snap)
  /\ Doing = "rollsnap" => /\ snap = NoFile
                           /\ Whole /\ old.snap # NoFile => mem \in {old.snap, NoFile}

\* Between the commit of a pause and the end of its VM.
Pausing == Doing \in {"dropold", "term", "signal"} /\ Serving = "pause"
Ended   == Doing = "unjail" /\ Serving = "pause"
Saved(m, s) == m \in Runtimes /\ s = m /\ ("unkillable" \notin hurt => proc[m] = "gone")
PausedInv ==
  /\ Pausing => cmd # 0 /\ mem = cmd /\ snap = cmd
  /\ Ended => mem \in Runtimes /\ snap = mem /\ proc[mem] \in {"live", "gone"}
  /\ Doing = "paused" => Saved(mem, snap)
  /\ info = "paused" /\ hurt \cap {"mounts", "rollback"} = {} =>
       /\ ~Pausing /\ ~Ended /\ Doing \notin {"backsnap", "mem", "snap", "rollmem", "rollsnap"}
            => Saved(mem, snap)
       /\ Doing = "backsnap" => Saved(old.mem, snap)
       /\ Doing \in {"mem", "snap"} => Saved(old.mem, old.snap)
       /\ Doing = "rollmem" /\ Following = "discard"  => Saved(old.mem, snap)
       /\ Doing = "rollmem" /\ Following = "rollsnap" => Saved(old.mem, old.snap)
       /\ Doing = "rollsnap" => Saved(mem, old.snap)

IInv == Control /\ Types /\ ProcInv /\ ForgottenInv /\ HonestInv /\ SnapshotInv /\ PausedInv

-----------------------------------------------------------------------------
(***************************************************************************)
(* Steps that only look, or whose effect no invariant is about             *)
(***************************************************************************)
\* Looks at what is reported and at the process.
LEMMA LooksKeeps ==
  ASSUME IInv, BoxshimAssumption, NEW c \in Calls, Check(c) \/ NoCmd(c) \/ Respec(c) \/ NotRunning(c) \/ Alive(c)
  PROVE  IInv'
<1> USE DEF IInv
<1>1. PICK k \in {"check", "nocmd", "respec", "notrunning", "alive"} :
        /\ At(c, k) /\ UNCHANGED <<theDriver, procs, files, faults, history>>
        /\ Then(c, Rest(c)) \/ Fails(c)
        /\ k = "nocmd" /\ Then(c, Rest(c)) => cmd = 0 \/ Fails(c)
        /\ k = "notrunning" /\ Then(c, Rest(c)) => info # "running" \/ Fails(c)
        /\ k = "alive" /\ Then(c, Rest(c)) => cmd # 0 \/ Fails(c)
  BY DEF Check, NoCmd, Respec, NotRunning, Alive, ProcessAlive, Looks, Passes
<1>2. /\ Control' /\ Doing = k /\ Serving' = Serving
      /\ \/ Doing' = "unlock"
         \/ /\ Following \in After(Serving, k) /\ Doing' = Following
            /\ k = "nocmd" => cmd = 0
            /\ k = "notrunning" => info # "running"
            /\ k = "alive" => cmd # 0
  <2>1. CASE Fails(c)
    BY <1>1, <2>1, Failing DEF ErrOf, Outside, theDriver
  <2>2. CASE Then(c, Rest(c)) /\ ~Fails(c)
    BY <1>1, <2>2, Forward DEF Outside, theDriver
  <2> QED  BY <1>1, <2>1, <2>2
<1>3. Types'
  BY <1>1 DEF Types, theDriver, procs, files, history
<1>4. ProcInv'
  BY <1>1, <1>2 DEF ProcInv, Starting, After, theDriver, procs, files, history
<1>5. ForgottenInv'
  BY <1>1, <1>2 DEF ForgottenInv, Running, Alarm, Starting, Ending, After, theDriver, procs, files, history,
     Parked
<1>6. HonestInv'
  BY <1>1, <1>2 DEF HonestInv, Undoing, Starting, After, theDriver, procs, files, history
<1>7. SnapshotInv'
  BY <1>1, <1>2 DEF SnapshotInv, Fit, Same, Whole, After, theDriver, procs, files, history
<1>8. PausedInv'
  BY <1>1, <1>2 DEF PausedInv, Pausing, Ended, Saved, After, theDriver, procs, files, history
<1> QED  BY <1>2, <1>3, <1>4, <1>5, <1>6, <1>7, <1>8

\* The jail and a container's bundle are prepared.
LEMMA PreparesKeeps ==
  ASSUME IInv, BoxshimAssumption, NEW c \in Calls, Launch(c) \/ Mount(c) \/ Bundle(c)
  PROVE  IInv'
<1> USE DEF IInv
<1>1. PICK k \in {"launch", "mount", "bundle"} :
        /\ At(c, k) /\ (Then(c, Rest(c)) \/ Fails(c)) /\ jail' \in {jail, "none", "made", "mounted"}
        /\ UNCHANGED <<theDriver, procs, mem, snap, tmp, old, history>>
  BY DEF Launch, Mount, Bundle, Breaks, files
<1>2. /\ Control' /\ Doing = k /\ Serving' = Serving
      /\ \/ Doing' = "unlock"
         \/ Following \in After(Serving, k) /\ Doing' = Following
  <2>1. CASE Fails(c)
    <3>1. ErrOf(k) = "stop" /\ k \notin Outside
      BY DEF ErrOf, Outside
    <3>2. driver' = driver /\ mu' = mu
      BY <1>1 DEF theDriver
    <3> QED  BY <1>1, <2>1, <3>1, <3>2, Failing
  <2>2. CASE Then(c, Rest(c))
    BY <1>1, <2>2, Forward DEF Outside, theDriver
  <2> QED  BY <1>1, <2>1, <2>2
<1>3. Types'
  BY <1>1, <1>2 DEF Types, After, theDriver, procs, files, history
<1>4. ProcInv'
  BY <1>1, <1>2 DEF ProcInv, Starting, After, theDriver, procs, files, history
<1>5. ForgottenInv'
  BY <1>1, <1>2 DEF ForgottenInv, Running, Alarm, Starting, Ending, Parked, After, theDriver, procs, files,
     history
<1>6. HonestInv'
  BY <1>1, <1>2 DEF HonestInv, Undoing, Starting, After, theDriver, procs, files, history
<1>7. SnapshotInv'
  BY <1>1, <1>2 DEF SnapshotInv, Fit, Same, Whole, After, theDriver, procs, files, history
<1>8. PausedInv'
  BY <1>1, <1>2 DEF PausedInv, Pausing, Ended, Saved, After, theDriver, procs, files, history
<1> QED  BY <1>2, <1>3, <1>4, <1>5, <1>6, <1>7, <1>8

\* A VM is launched.
LEMMA SpawnKeeps ==
  ASSUME IInv, BoxshimAssumption, NEW c \in Calls, Spawn(c)
  PROVE  IInv'
<1> USE DEF IInv
<1>1. /\ At(c, "spawn") /\ UNCHANGED <<driver, shim, mu, info, spec, known, files, history>>
      /\ \/ /\ Then(c, Rest(c)) /\ launched < MaxLaunch /\ launched' = launched + 1 /\ cmd' = launched + 1
            /\ proc' = [proc EXCEPT ![launched + 1] = "jailing"]
         \/ Fails(c) /\ UNCHANGED <<launched, cmd, proc>>
  BY DEF Spawn, Breaks
<1>2. /\ Control' /\ Doing = "spawn" /\ Serving' = Serving /\ driver = "firecracker" /\ Serving # "pause"
      /\ \/ /\ Doing' = "api" /\ launched < MaxLaunch /\ launched' = launched + 1 /\ cmd' = launched + 1
            /\ proc' = [proc EXCEPT ![launched + 1] = "jailing"]
         \/ Doing' = "unjail" /\ Following' = "unlock" /\ UNCHANGED <<launched, cmd, proc>>
  <2>1. CASE Fails(c) /\ UNCHANGED <<launched, cmd, proc>>
    BY <1>1, <2>1, Failing DEF ErrOf, Outside, KindsOf, CommonKinds, GVisorKinds, VMKinds, LaunchKinds,
       PauseKinds
  <2>2. CASE Then(c, Rest(c)) /\ ~(Fails(c) /\ UNCHANGED <<launched, cmd, proc>>)
    BY <1>1, <2>2, Forward DEF After, Outside, KindsOf, CommonKinds, GVisorKinds, VMKinds, LaunchKinds,
       PauseKinds
  <2> QED  BY <1>1, <2>1, <2>2
<1>3. Types'
  BY <1>1, <1>2 DEF Types, After, theDriver, procs, files, history
<1>4. ProcInv'
  BY <1>1, <1>2 DEF ProcInv, Starting, Runtimes, BoxshimAssumption, After, theDriver, procs, files, history
<1>5. ForgottenInv'
  BY <1>1, <1>2 DEF ForgottenInv, Running, Alarm, Starting, Ending, Parked, After, theDriver, procs, files,
     history
<1>6. HonestInv'
  BY <1>1, <1>2 DEF HonestInv, Undoing, Starting, After, theDriver, procs, files, history
<1>7. SnapshotInv'
  BY <1>1, <1>2 DEF SnapshotInv, Fit, Same, Whole, After, theDriver, procs, files, history
<1>8. PausedInv'
  <2>1. \A v \in Runtimes : proc[v] = "gone" => proc'[v] = "gone"
    BY <1>1, <1>2 DEF ProcInv, Runtimes, BoxshimAssumption
  <2> QED  BY <1>1, <1>2, <2>1 DEF PausedInv, Pausing, Ended, Saved, After, theDriver, procs, files, history
<1> QED  BY <1>2, <1>3, <1>4, <1>5, <1>6, <1>7, <1>8

\* Processes start and end by themselves.
LEMMA ProcessesKeep ==
  ASSUME IInv, BoxshimAssumption, NEW v \in Runtimes, Jailed(v) \/ Exits(v)
  PROVE  IInv'
<1> USE DEF IInv
<1>1. /\ UNCHANGED <<theDriver, known, launched, files, call, history>> /\ proc[v] \in {"jailing", "live"}
      /\ \/ proc[v] = "jailing" /\ proc' = [proc EXCEPT ![v] = "live"]
         \/ proc' = [proc EXCEPT ![v] = "gone"]
  BY DEF Jailed, Exits
<1>2. Control' /\ Doing' = Doing /\ Following' = Following /\ Serving' = Serving
  BY <1>1, Still DEF theDriver
<1>3. Types'
  BY <1>1, <1>2 DEF Types, theDriver, procs, files, history
<1>4. ProcInv'
  BY <1>1, <1>2 DEF ProcInv, Starting, theDriver, procs, files, history
<1>5. ForgottenInv'
  BY <1>1, <1>2 DEF ForgottenInv, Running, Alarm, Starting, Ending, Parked, ProcInv, theDriver, procs, files,
     history
<1>6. HonestInv'
  BY <1>1, <1>2 DEF HonestInv, Undoing, Starting, theDriver, procs, files, history
<1>7. SnapshotInv'
  BY <1>1, <1>2 DEF SnapshotInv, Fit, Same, Whole, theDriver, procs, files, history
<1>8. PausedInv'
  BY <1>1, <1>2 DEF PausedInv, Pausing, Ended, Saved, ProcInv, theDriver, procs, files, history
<1> QED  BY <1>2, <1>3, <1>4, <1>5, <1>6, <1>7, <1>8

\* Requests to firecracker, but for the one that writes a snapshot.
LEMMA AsksKeeps ==
  ASSUME IInv, BoxshimAssumption, NEW c \in Calls,
         Api(c) \/ Configure(c) \/ Load(c) \/ Watch(c) \/ Balloon(c) \/ Freeze(c)
  PROVE  IInv'
<1> USE DEF IInv
<1>1. PICK k \in {"api", "configure", "load", "watch", "ask", "freeze"} :
        /\ At(c, k) /\ UNCHANGED <<theDriver, procs, files, history>>
        /\ Fails(c) \/ (Then(c, Rest(c)) /\ (k = "api" => proc[cmd] = "live"))
  BY DEF Api, Configure, Load, Watch, Balloon, Freeze, Ask, Passes, Breaks, Quiet, files
<1>2. /\ Control' /\ Doing = k /\ Serving' = Serving
      /\ \/ Following \in After(Serving, k) /\ Doing' = Following /\ (k = "api" => proc[cmd] = "live")
         \/ k \in {"ask", "freeze"} /\ Doing' = "unlock"
         \/ k \in Starting /\ Doing' = "term" /\ Serving \notin {"pause", "kill"}
      /\ k \in Starting => driver = "firecracker"
  <2>1. driver' = driver /\ mu' = mu /\ k \notin Outside \cup {"unlock"}
    BY <1>1 DEF theDriver, Outside
  <2>2. CASE Fails(c)
    <3>1. ErrOf(k) = IF k \in Starting THEN "kill" ELSE "stop"
      BY DEF ErrOf, Starting
    <3> QED  BY <1>1, <2>1, <2>2, <3>1, Failing DEF KindsOf, CommonKinds, GVisorKinds, Starting
  <2>3. CASE Then(c, Rest(c)) /\ (k = "api" => proc[cmd] = "live")
    BY <1>1, <2>1, <2>3, Forward DEF KindsOf, CommonKinds, GVisorKinds, Starting
  <2> QED  BY <1>1, <2>2, <2>3
<1>3. Types'
  BY <1>1, <1>2 DEF Types, After, theDriver, procs, files, history
<1>4. ProcInv'
  BY <1>1, <1>2 DEF ProcInv, Starting, After, theDriver, procs, files, history
<1>5. ForgottenInv'
  BY <1>1, <1>2 DEF ForgottenInv, Running, Alarm, Starting, Ending, Parked, ProcInv, After, theDriver, procs,
     files, history
<1>6. HonestInv'
  BY <1>1, <1>2 DEF HonestInv, Undoing, Starting, After, theDriver, procs, files, history
<1>7. SnapshotInv'
  BY <1>1, <1>2 DEF SnapshotInv, Fit, Same, Whole, After, theDriver, procs, files, history
<1>8. PausedInv'
  BY <1>1, <1>2 DEF PausedInv, Pausing, Ended, Saved, After, theDriver, procs, files, history
<1> QED  BY <1>2, <1>3, <1>4, <1>5, <1>6, <1>7, <1>8

\* Firecracker writes the snapshot into temporary files.
LEMMA WriteKeeps ==
  ASSUME IInv, BoxshimAssumption, NEW c \in Calls, WriteSnapshot(c)
  PROVE  IInv'
<1> USE DEF IInv
<1>1. /\ At(c, "write") /\ UNCHANGED <<theDriver, procs, jail, mem, snap, old, history>> /\ tmp' \in {cmd, tmp}
      /\ Fails(c) \/ (Then(c, Rest(c)) /\ tmp' = cmd)
  BY DEF WriteSnapshot, Ask, Passes, Breaks, Quiet
<1>2. /\ Control' /\ Doing = "write" /\ Serving' = Serving
      /\ \/ Doing' = "backmem" /\ tmp' = cmd
         \/ Doing' = "discard"
  <2>1. CASE Fails(c)
    BY <1>1, <2>1, Failing DEF ErrOf, Outside, theDriver
  <2>2. CASE Then(c, Rest(c)) /\ tmp' = cmd
    BY <1>1, <2>2, Forward DEF After, Outside, theDriver
  <2> QED  BY <1>1, <2>1, <2>2
<1>3. Types'
  BY <1>1, <1>2 DEF Types, ProcInv, Runtimes, Held, BoxshimAssumption, theDriver, procs, files, history
<1>4. ProcInv'
  BY <1>1, <1>2 DEF ProcInv, Starting, theDriver, procs, files, history
<1>5. ForgottenInv'
  BY <1>1, <1>2 DEF ForgottenInv, Running, Alarm, Starting, Ending, Parked, theDriver, procs, files, history
<1>6. HonestInv'
  BY <1>1, <1>2 DEF HonestInv, Undoing, Starting, theDriver, procs, files, history
<1>7. SnapshotInv'
  BY <1>1, <1>2 DEF SnapshotInv, Fit, Same, Whole, theDriver, procs, files, history
<1>8. PausedInv'
  BY <1>1, <1>2 DEF PausedInv, Pausing, Ended, Saved, theDriver, procs, files, history
<1> QED  BY <1>2, <1>3, <1>4, <1>5, <1>6, <1>7, <1>8

-----------------------------------------------------------------------------
(***************************************************************************)
(* Ending a VM                                                             *)
(***************************************************************************)

\* The sandbox's cgroup is killed, or there is nothing to kill.
LEMMA TerminateKeeps ==
  ASSUME IInv, BoxshimAssumption, NEW c \in Calls, Terminate(c)
  PROVE  IInv'
<1> USE DEF IInv
<1>1. /\ At(c, "term") /\ UNCHANGED <<theDriver, known, launched, files, orphans, over>>
      /\ \/ cmd = 0 /\ Then(c, Tail(Tail(Rest(c)))) /\ UNCHANGED <<proc, hurt>>
         \/ cmd # 0 /\ proc' = Killed(LivePIDs) /\ Then(c, Rest(c)) /\ UNCHANGED hurt
         \/ cmd # 0 /\ Fails(c) /\ hurt' = hurt \cup {"unkillable"} /\ UNCHANGED proc
  BY DEF Terminate, Breaks
<1>2. /\ Control' /\ Doing = "term" /\ Serving' = Serving /\ driver = "firecracker"
      /\ \/ cmd = 0 /\ Doing' \in After(Serving, "unjail") /\ UNCHANGED <<proc, hurt>>
         \/ cmd # 0 /\ proc' = Killed(LivePIDs) /\ Doing' = "signal" /\ UNCHANGED hurt
         \/ cmd # 0 /\ Doing' = "unlock" /\ hurt' = hurt \cup {"unkillable"} /\ UNCHANGED proc
  <2>1. driver' = driver /\ mu' = mu
    BY <1>1 DEF theDriver
  <2>2. CASE cmd = 0 /\ Then(c, Tail(Tail(Rest(c)))) /\ UNCHANGED <<proc, hurt>>
    BY <1>1, <2>1, <2>2, SkipsTwo DEF KindsOf, CommonKinds, GVisorKinds
  <2>3. CASE cmd # 0 /\ proc' = Killed(LivePIDs) /\ Then(c, Rest(c)) /\ UNCHANGED hurt
    BY <1>1, <2>1, <2>3, Forward DEF After, Outside, KindsOf, CommonKinds, GVisorKinds
  <2>4. CASE cmd # 0 /\ Fails(c) /\ hurt' = hurt \cup {"unkillable"} /\ UNCHANGED proc
    BY <1>1, <2>1, <2>4, Failing DEF ErrOf, Outside, KindsOf, CommonKinds, GVisorKinds
  <2> QED  BY <1>1, <2>2, <2>3, <2>4
<1>3. Types'
  BY <1>1, <1>2 DEF Types, Hurts, After, theDriver, procs, files, history
<1>4. ProcInv'
  BY <1>1, <1>2 DEF ProcInv, Starting, Runtimes, Killed, LivePIDs, BoxshimAssumption, After, theDriver, procs,
     files, history
<1>5. ForgottenInv'
  BY <1>1, <1>2 DEF ForgottenInv, Running, Alarm, Starting, Ending, Parked, ProcInv, Runtimes, Killed,
     LivePIDs, BoxshimAssumption, After, theDriver, procs, files, history
<1>6. HonestInv'
  BY <1>1, <1>2 DEF HonestInv, Undoing, Starting, After, theDriver, procs, files, history
<1>7. SnapshotInv'
  BY <1>1, <1>2 DEF SnapshotInv, Fit, Same, Whole, After, theDriver, procs, files, history
<1>8. PausedInv'
  BY <1>1, <1>2 DEF PausedInv, Pausing, Ended, Saved, ProcInv, Runtimes, Killed, LivePIDs, BoxshimAssumption,
     After, theDriver, procs, files, history
<1> QED  BY <1>2, <1>3, <1>4, <1>5, <1>6, <1>7, <1>8

\* The process the driver started is killed and reaped.
LEMMA SignalKeeps ==
  ASSUME IInv, BoxshimAssumption, NEW c \in Calls, Signal(c)
  PROVE  IInv'
<1> USE DEF IInv
<1>1. /\ At(c, "signal") /\ UNCHANGED <<driver, shim, mu, info, spec, known, launched, files, faults, history>>
      /\ Then(c, Rest(c)) /\ proc' = Killed({v \in {cmd} : proc[v] = "jailing"}) /\ cmd' = 0
  BY DEF Signal
<1>2. /\ Control' /\ Doing = "signal" /\ Serving' = Serving /\ driver = "firecracker"
      /\ Doing' = "unjail" /\ Following' \in After(Serving, "unjail")
  BY <1>1, Forward DEF After, Outside, KindsOf, CommonKinds, GVisorKinds
<1>3. Types'
  BY <1>1, <1>2 DEF Types, After, theDriver, procs, files, history
<1>4. ProcInv'
  BY <1>1, <1>2 DEF ProcInv, Starting, Runtimes, Killed, LivePIDs, BoxshimAssumption, After, theDriver, procs,
     files, history
<1>5. ForgottenInv'
  BY <1>1, <1>2 DEF ForgottenInv, Running, Alarm, Starting, Ending, Parked, ProcInv, Runtimes, Killed,
     LivePIDs, BoxshimAssumption, After, theDriver, procs, files, history
<1>6. HonestInv'
  BY <1>1, <1>2 DEF HonestInv, Undoing, Starting, After, theDriver, procs, files, history
<1>7. SnapshotInv'
  BY <1>1, <1>2 DEF SnapshotInv, Fit, Same, Whole, After, theDriver, procs, files, history
<1>8. PausedInv'
  BY <1>1, <1>2 DEF PausedInv, Pausing, Ended, Saved, ProcInv, Runtimes, Killed, LivePIDs, BoxshimAssumption,
     After, theDriver, procs, files, history
<1> QED  BY <1>2, <1>3, <1>4, <1>5, <1>6, <1>7, <1>8

\* The guest shuts down or is killed, or there is none.
LEMMA WaitExitKeeps ==
  ASSUME IInv, BoxshimAssumption, NEW c \in Calls, WaitExit(c)
  PROVE  IInv'
<1> USE DEF IInv
<1>1. /\ At(c, "waitexit") /\ UNCHANGED <<driver, shim, mu, info, spec, known, launched, files, orphans, over>>
      /\ \/ cmd = 0 /\ Then(c, Tail(Rest(c))) /\ UNCHANGED <<proc, cmd, hurt>>
         \/ cmd # 0 /\ proc' = Killed(LivePIDs) /\ cmd' = 0 /\ Then(c, Rest(c)) /\ UNCHANGED hurt
         \/ cmd # 0 /\ Fails(c) /\ hurt' = hurt \cup {"unkillable"} /\ UNCHANGED <<proc, cmd>>
  BY DEF WaitExit, Breaks
<1>2. /\ Control' /\ Doing = "waitexit" /\ Serving' = Serving /\ driver = "firecracker" /\ Serving # "pause"
      /\ \/ cmd = 0 /\ Doing' = "stopped" /\ UNCHANGED <<proc, cmd, hurt>>
         \/ /\ cmd # 0 /\ proc' = Killed(LivePIDs) /\ cmd' = 0 /\ UNCHANGED hurt
            /\ Doing' = "unjail" /\ Following' = "stopped"
         \/ cmd # 0 /\ Doing' = "unlock" /\ hurt' = hurt \cup {"unkillable"} /\ UNCHANGED <<proc, cmd>>
  <2>1. CASE cmd = 0 /\ Then(c, Tail(Rest(c))) /\ UNCHANGED <<proc, cmd, hurt>>
    BY <1>1, <2>1, SkipsOne DEF KindsOf, CommonKinds, GVisorKinds, VMKinds, LaunchKinds, PauseKinds
  <2>2. CASE cmd # 0 /\ proc' = Killed(LivePIDs) /\ cmd' = 0 /\ Then(c, Rest(c)) /\ UNCHANGED hurt
    BY <1>1, <2>2, Forward DEF After, Outside, KindsOf, CommonKinds, GVisorKinds, VMKinds, LaunchKinds,
       PauseKinds
  <2>3. CASE cmd # 0 /\ Fails(c) /\ hurt' = hurt \cup {"unkillable"} /\ UNCHANGED <<proc, cmd>>
    BY <1>1, <2>3, Failing DEF ErrOf, Outside, KindsOf, CommonKinds, GVisorKinds, VMKinds, LaunchKinds,
       PauseKinds
  <2> QED  BY <1>1, <2>1, <2>2, <2>3
<1>3. Types'
  BY <1>1, <1>2 DEF Types, Hurts, After, theDriver, procs, files, history
<1>4. ProcInv'
  BY <1>1, <1>2 DEF ProcInv, Starting, Runtimes, Killed, LivePIDs, BoxshimAssumption, After, theDriver, procs,
     files, history
<1>5. ForgottenInv'
  BY <1>1, <1>2 DEF ForgottenInv, Running, Alarm, Starting, Ending, Parked, ProcInv, Runtimes, Killed,
     LivePIDs, BoxshimAssumption, After, theDriver, procs, files, history
<1>6. HonestInv'
  BY <1>1, <1>2 DEF HonestInv, Undoing, Starting, After, theDriver, procs, files, history
<1>7. SnapshotInv'
  BY <1>1, <1>2 DEF SnapshotInv, Fit, Same, Whole, After, theDriver, procs, files, history
<1>8. PausedInv'
  BY <1>1, <1>2 DEF PausedInv, Pausing, Ended, Saved, ProcInv, Runtimes, Killed, LivePIDs, BoxshimAssumption,
     After, theDriver, procs, files, history
<1> QED  BY <1>2, <1>3, <1>4, <1>5, <1>6, <1>7, <1>8

\* The jail is taken down.
LEMMA CleanupKeeps ==
  ASSUME IInv, BoxshimAssumption, NEW c \in Calls, Cleanup(c)
  PROVE  IInv'
<1> USE DEF IInv
<1>1. /\ At(c, "unjail") /\ UNCHANGED <<theDriver, known, launched, tmp, old, orphans, over>> /\ jail' = "none"
      /\ \/ proc' = Killed(LivePIDs) /\ Then(c, Rest(c)) /\ UNCHANGED <<mem, snap, hurt>>
         \/ Fails(c) /\ hurt' = hurt \cup {"unkillable"} /\ UNCHANGED <<proc, mem, snap>>
         \/ /\ Fails(c) /\ proc' = Killed(LivePIDs)
            /\ mem' = NoFile /\ snap' = NoFile /\ hurt' = hurt \cup {"mounts"}
  BY DEF Cleanup, Breaks
<1>2. /\ Control' /\ Doing = "unjail" /\ Serving' = Serving /\ driver = "firecracker"
      /\ \/ /\ proc' = Killed(LivePIDs) /\ UNCHANGED <<mem, snap, hurt>>
            /\ Following \in After(Serving, "unjail") /\ Doing' = Following
         \/ Doing' = "unlock" /\ hurt' = hurt \cup {"unkillable"} /\ UNCHANGED <<proc, mem, snap>>
         \/ /\ Doing' = "unlock" /\ proc' = Killed(LivePIDs)
            /\ mem' = NoFile /\ snap' = NoFile /\ hurt' = hurt \cup {"mounts"}
  <2>1. driver' = driver /\ mu' = mu
    BY <1>1 DEF theDriver
  <2>2. CASE Then(c, Rest(c)) /\ proc' = Killed(LivePIDs) /\ UNCHANGED <<mem, snap, hurt>>
    BY <1>1, <2>1, <2>2, Forward DEF Outside, KindsOf, CommonKinds, GVisorKinds
  <2>3. ASSUME Fails(c)
        PROVE  Control' /\ Doing = "unjail" /\ Serving' = Serving /\ driver = "firecracker" /\ Doing' = "unlock"
    BY <1>1, <2>1, <2>3, Failing DEF ErrOf, Outside, KindsOf, CommonKinds, GVisorKinds
  <2> QED  BY <1>1, <2>2, <2>3
<1>3. Types'
  BY <1>1, <1>2 DEF Types, Hurts, Held, Runtimes, NoFile, BoxshimAssumption, After, theDriver, procs, files,
     history
<1>4. ProcInv'
  BY <1>1, <1>2 DEF ProcInv, Starting, Runtimes, Killed, LivePIDs, BoxshimAssumption, After, theDriver, procs,
     files, history
<1>5. ForgottenInv'
  BY <1>1, <1>2 DEF ForgottenInv, Running, Alarm, Starting, Ending, Parked, ProcInv, Runtimes, Killed,
     LivePIDs, BoxshimAssumption, After, theDriver, procs, files, history
<1>6. HonestInv'
  BY <1>1, <1>2 DEF HonestInv, Undoing, Starting, After, theDriver, procs, files, history
<1>7. SnapshotInv'
  BY <1>1, <1>2 DEF SnapshotInv, Fit, Same, Whole, After, theDriver, procs, files, history
<1>8. PausedInv'
  BY <1>1, <1>2 DEF PausedInv, Pausing, Ended, Saved, ProcInv, Runtimes, Killed, LivePIDs, BoxshimAssumption,
     After, theDriver, procs, files, history
<1> QED  BY <1>2, <1>3, <1>4, <1>5, <1>6, <1>7, <1>8

-----------------------------------------------------------------------------
(***************************************************************************)
(* Committing a snapshot and taking it back                                *)
(***************************************************************************)

\* The memory file is put aside.
LEMMA BackMemKeeps ==
  ASSUME IInv, BoxshimAssumption, NEW c \in Calls, BackMem(c)
  PROVE  IInv'
<1> USE DEF IInv
<1>1. /\ At(c, "backmem") /\ UNCHANGED <<theDriver, procs, jail, snap, tmp, orphans, over>>
      /\ \/ Then(c, Rest(c)) /\ old' = [old EXCEPT !.mem = mem] /\ mem' = NoFile
            /\ hurt' = hurt \cup {h \in {"halfway"} : mem = NoFile /\ snap # NoFile}
         \/ Fails(c) /\ UNCHANGED <<mem, old, hurt>>
  BY DEF BackMem, Renames, Breaks, history
<1>2. /\ Control' /\ Doing = "backmem" /\ Serving' = Serving /\ driver = "firecracker" /\ Serving = "pause"
      /\ \/ Doing' = "backsnap" /\ old' = [old EXCEPT !.mem = mem] /\ mem' = NoFile
            /\ hurt' = hurt \cup {h \in {"halfway"} : mem = NoFile /\ snap # NoFile}
         \/ Doing' = "discard" /\ UNCHANGED <<mem, old, hurt>>
  <2>1. driver' = driver /\ mu' = mu
    BY <1>1 DEF theDriver
  <2>2. CASE Then(c, Rest(c)) /\ old' = [old EXCEPT !.mem = mem] /\ mem' = NoFile
            /\ hurt' = hurt \cup {h \in {"halfway"} : mem = NoFile /\ snap # NoFile}
    BY <1>1, <2>1, <2>2, Forward DEF After, Outside, KindsOf, CommonKinds, GVisorKinds, VMKinds, LaunchKinds
  <2>3. CASE Fails(c) /\ UNCHANGED <<mem, old, hurt>>
    BY <1>1, <2>1, <2>3, Failing DEF ErrOf, Outside, KindsOf, CommonKinds, GVisorKinds, VMKinds, LaunchKinds
  <2> QED  BY <1>1, <2>2, <2>3
<1>3. Types'
  BY <1>1, <1>2 DEF Types, ProcInv, Held, Hurts, NoFile, Runtimes, BoxshimAssumption, theDriver, procs, files,
     history
<1>4. ProcInv'
  BY <1>1, <1>2 DEF ProcInv, Starting, NoFile, Runtimes, BoxshimAssumption, theDriver, procs, files, history
<1>5. ForgottenInv'
  BY <1>1, <1>2 DEF ForgottenInv, Running, Alarm, Starting, Ending, Parked, theDriver, procs, files, history
<1>6. HonestInv'
  BY <1>1, <1>2 DEF HonestInv, Undoing, Starting, theDriver, procs, files, history
<1>7. SnapshotInv'
  BY <1>1, <1>2 DEF SnapshotInv, Fit, Same, Whole, Types, ProcInv, NoFile, Runtimes, BoxshimAssumption,
     theDriver, procs, files, history
<1>8. PausedInv'
  BY <1>1, <1>2 DEF PausedInv, Pausing, Ended, Saved, ProcInv, Types, NoFile, Runtimes, BoxshimAssumption,
     theDriver, procs, files, history
<1> QED  BY <1>2, <1>3, <1>4, <1>5, <1>6, <1>7, <1>8

\* And the state file.
LEMMA BackSnapKeeps ==
  ASSUME IInv, BoxshimAssumption, NEW c \in Calls, BackSnap(c)
  PROVE  IInv'
<1> USE DEF IInv
<1>1. /\ At(c, "backsnap") /\ UNCHANGED <<theDriver, procs, jail, history>>
      /\ \/ Then(c, Rest(c)) /\ old' = [old EXCEPT !.snap = snap] /\ snap' = NoFile /\ UNCHANGED <<mem, tmp>>
         \/ Fails(c) /\ UNCHANGED <<mem, snap, tmp, old>>
  BY DEF BackSnap, Renames, Breaks, history
<1>2. /\ Control' /\ Doing = "backsnap" /\ Serving' = Serving /\ driver = "firecracker" /\ Serving = "pause"
      /\ \/ Doing' = "mem" /\ old' = [old EXCEPT !.snap = snap] /\ snap' = NoFile /\ UNCHANGED <<mem, tmp>>
         \/ Doing' = "rollmem" /\ Following' = "discard" /\ UNCHANGED <<mem, snap, tmp, old>>
  <2>1. driver' = driver /\ mu' = mu
    BY <1>1 DEF theDriver
  <2>2. CASE Then(c, Rest(c)) /\ old' = [old EXCEPT !.snap = snap] /\ snap' = NoFile /\ UNCHANGED <<mem, tmp>>
    BY <1>1, <2>1, <2>2, Forward DEF After, Outside, KindsOf, CommonKinds, GVisorKinds, VMKinds, LaunchKinds
  <2>3. CASE Fails(c) /\ UNCHANGED <<mem, snap, tmp, old>>
    BY <1>1, <2>1, <2>3, Failing DEF ErrOf, Outside, KindsOf, CommonKinds, GVisorKinds, VMKinds, LaunchKinds
  <2> QED  BY <1>1, <2>2, <2>3
<1>3. Types'
  BY <1>1, <1>2 DEF Types, ProcInv, Held, Hurts, NoFile, Runtimes, BoxshimAssumption, theDriver, procs, files,
     history
<1>4. ProcInv'
  BY <1>1, <1>2 DEF ProcInv, Starting, NoFile, Runtimes, BoxshimAssumption, theDriver, procs, files, history
<1>5. ForgottenInv'
  BY <1>1, <1>2 DEF ForgottenInv, Running, Alarm, Starting, Ending, Parked, theDriver, procs, files, history
<1>6. HonestInv'
  BY <1>1, <1>2 DEF HonestInv, Undoing, Starting, theDriver, procs, files, history
<1>7. SnapshotInv'
  BY <1>1, <1>2 DEF SnapshotInv, Fit, Same, Whole, Types, ProcInv, NoFile, Runtimes, BoxshimAssumption,
     theDriver, procs, files, history
<1>8. PausedInv'
  BY <1>1, <1>2 DEF PausedInv, Pausing, Ended, Saved, ProcInv, Types, NoFile, Runtimes, BoxshimAssumption,
     theDriver, procs, files, history
<1> QED  BY <1>2, <1>3, <1>4, <1>5, <1>6, <1>7, <1>8

\* The new memory file takes its place.
LEMMA NewMemKeeps ==
  ASSUME IInv, BoxshimAssumption, NEW c \in Calls, NewMem(c)
  PROVE  IInv'
<1> USE DEF IInv
<1>1. /\ At(c, "mem") /\ UNCHANGED <<theDriver, procs, jail, history>>
      /\ \/ Then(c, Rest(c)) /\ mem' = tmp /\ UNCHANGED <<snap, tmp, old>>
         \/ Fails(c) /\ UNCHANGED <<mem, snap, tmp, old>>
  BY DEF NewMem, Renames, Breaks, history
<1>2. /\ Control' /\ Doing = "mem" /\ Serving' = Serving /\ driver = "firecracker" /\ Serving = "pause"
      /\ \/ Doing' = "snap" /\ mem' = tmp /\ UNCHANGED <<snap, tmp, old>>
         \/ Doing' = "rollmem" /\ Following' = "rollsnap" /\ UNCHANGED <<mem, snap, tmp, old>>
  <2>1. driver' = driver /\ mu' = mu
    BY <1>1 DEF theDriver
  <2>2. CASE Then(c, Rest(c)) /\ mem' = tmp /\ UNCHANGED <<snap, tmp, old>>
    BY <1>1, <2>1, <2>2, Forward DEF After, Outside, KindsOf, CommonKinds, GVisorKinds, VMKinds, LaunchKinds
  <2>3. CASE Fails(c) /\ UNCHANGED <<mem, snap, tmp, old>>
    BY <1>1, <2>1, <2>3, Failing DEF ErrOf, Outside, KindsOf, CommonKinds, GVisorKinds, VMKinds, LaunchKinds
  <2> QED  BY <1>1, <2>2, <2>3
<1>3. Types'
  BY <1>1, <1>2 DEF Types, ProcInv, Held, Hurts, NoFile, Runtimes, BoxshimAssumption, theDriver, procs, files,
     history
<1>4. ProcInv'
  BY <1>1, <1>2 DEF ProcInv, Starting, NoFile, Runtimes, BoxshimAssumption, theDriver, procs, files, history
<1>5. ForgottenInv'
  BY <1>1, <1>2 DEF ForgottenInv, Running, Alarm, Starting, Ending, Parked, theDriver, procs, files, history
<1>6. HonestInv'
  BY <1>1, <1>2 DEF HonestInv, Undoing, Starting, theDriver, procs, files, history
<1>7. SnapshotInv'
  BY <1>1, <1>2 DEF SnapshotInv, Fit, Same, Whole, Types, ProcInv, NoFile, Runtimes, BoxshimAssumption,
     theDriver, procs, files, history
<1>8. PausedInv'
  BY <1>1, <1>2 DEF PausedInv, Pausing, Ended, Saved, ProcInv, Types, NoFile, Runtimes, BoxshimAssumption,
     theDriver, procs, files, history
<1> QED  BY <1>2, <1>3, <1>4, <1>5, <1>6, <1>7, <1>8

\* And the new state file.
LEMMA NewSnapKeeps ==
  ASSUME IInv, BoxshimAssumption, NEW c \in Calls, NewSnap(c)
  PROVE  IInv'
<1> USE DEF IInv
<1>1. /\ At(c, "snap") /\ UNCHANGED <<theDriver, procs, jail, history>>
      /\ \/ Then(c, Rest(c)) /\ snap' = tmp /\ UNCHANGED <<mem, tmp, old>>
         \/ Fails(c) /\ UNCHANGED <<mem, snap, tmp, old>>
  BY DEF NewSnap, Renames, Breaks, history
<1>2. /\ Control' /\ Doing = "snap" /\ Serving' = Serving /\ driver = "firecracker" /\ Serving = "pause"
      /\ \/ Doing' = "dropold" /\ snap' = tmp /\ UNCHANGED <<mem, tmp, old>>
         \/ Doing' = "rollmem" /\ Following' = "rollsnap" /\ UNCHANGED <<mem, snap, tmp, old>>
  <2>1. driver' = driver /\ mu' = mu
    BY <1>1 DEF theDriver
  <2>2. CASE Then(c, Rest(c)) /\ snap' = tmp /\ UNCHANGED <<mem, tmp, old>>
    BY <1>1, <2>1, <2>2, Forward DEF After, Outside, KindsOf, CommonKinds, GVisorKinds, VMKinds, LaunchKinds
  <2>3. CASE Fails(c) /\ UNCHANGED <<mem, snap, tmp, old>>
    BY <1>1, <2>1, <2>3, Failing DEF ErrOf, Outside, KindsOf, CommonKinds, GVisorKinds, VMKinds, LaunchKinds
  <2> QED  BY <1>1, <2>2, <2>3
<1>3. Types'
  BY <1>1, <1>2 DEF Types, ProcInv, Held, Hurts, NoFile, Runtimes, BoxshimAssumption, theDriver, procs, files,
     history
<1>4. ProcInv'
  BY <1>1, <1>2 DEF ProcInv, Starting, NoFile, Runtimes, BoxshimAssumption, theDriver, procs, files, history
<1>5. ForgottenInv'
  BY <1>1, <1>2 DEF ForgottenInv, Running, Alarm, Starting, Ending, Parked, theDriver, procs, files, history
<1>6. HonestInv'
  BY <1>1, <1>2 DEF HonestInv, Undoing, Starting, theDriver, procs, files, history
<1>7. SnapshotInv'
  BY <1>1, <1>2 DEF SnapshotInv, Fit, Same, Whole, Types, ProcInv, NoFile, Runtimes, BoxshimAssumption,
     theDriver, procs, files, history
<1>8. PausedInv'
  BY <1>1, <1>2 DEF PausedInv, Pausing, Ended, Saved, SnapshotInv, ProcInv, NoFile, Runtimes,
     BoxshimAssumption, theDriver, procs, files, history
<1> QED  BY <1>2, <1>3, <1>4, <1>5, <1>6, <1>7, <1>8

\* A memory file is put back, or lost, or the new one stays.
LEMMA RollMemKeeps ==
  ASSUME IInv, BoxshimAssumption, NEW c \in Calls, RollMem(c)
  PROVE  IInv'
<1> USE DEF IInv
<1>1. /\ At(c, "rollmem") /\ UNCHANGED <<theDriver, procs, jail, snap, tmp, orphans, over>> /\ Then(c, Rest(c))
      /\ \/ old.mem = NoFile /\ UNCHANGED <<mem, old, hurt>>
         \/ old.mem # NoFile /\ mem' = old.mem /\ old' = [old EXCEPT !.mem = NoFile] /\ UNCHANGED hurt
         \/ mem' = NoFile /\ hurt' = hurt \cup {"rollback"} /\ UNCHANGED old
         \/ mem' = mem /\ hurt' = hurt \cup {"rollback", "kept"} /\ UNCHANGED old
  BY DEF RollMem, history
<1>2. /\ Control' /\ Doing = "rollmem" /\ Serving' = Serving /\ driver = "firecracker" /\ Serving = "pause"
      /\ Doing' = Following /\ Following \in {"rollsnap", "discard"}
  BY <1>1, Forward DEF After, Outside, theDriver, KindsOf, CommonKinds, GVisorKinds, VMKinds, LaunchKinds
<1>3. Types'
  BY <1>1, <1>2 DEF Types, Held, Hurts, NoFile, Runtimes, BoxshimAssumption, theDriver, procs, files, history
<1>4. ProcInv'
  BY <1>1, <1>2 DEF ProcInv, Starting, theDriver, procs, files, history
<1>5. ForgottenInv'
  BY <1>1, <1>2 DEF ForgottenInv, Running, Alarm, Starting, Ending, Parked, theDriver, procs, files, history
<1>6. HonestInv'
  BY <1>1, <1>2 DEF HonestInv, Undoing, Starting, theDriver, procs, files, history
<1>7. SnapshotInv'
  BY <1>1, <1>2 DEF SnapshotInv, Fit, Same, Whole, Types, NoFile, Runtimes, BoxshimAssumption, theDriver,
     procs, files, history
<1>8. PausedInv'
  BY <1>1, <1>2 DEF PausedInv, Pausing, Ended, Saved, Types, NoFile, Runtimes, BoxshimAssumption, theDriver,
     procs, files, history
<1> QED  BY <1>2, <1>3, <1>4, <1>5, <1>6, <1>7, <1>8

\* A state file is put back, or lost.
LEMMA RollSnapKeeps ==
  ASSUME IInv, BoxshimAssumption, NEW c \in Calls, RollSnap(c)
  PROVE  IInv'
<1> USE DEF IInv
<1>1. /\ At(c, "rollsnap") /\ UNCHANGED <<theDriver, procs, jail, mem, tmp, orphans, over>> /\ Then(c, Rest(c))
      /\ \/ old.snap = NoFile /\ UNCHANGED <<snap, old, hurt>>
         \/ old.snap # NoFile /\ snap' = old.snap /\ old' = [old EXCEPT !.snap = NoFile] /\ UNCHANGED hurt
         \/ snap' = NoFile /\ hurt' = hurt \cup {"rollback"} /\ UNCHANGED old
  BY DEF RollSnap, history
<1>2. /\ Control' /\ Doing = "rollsnap" /\ Serving' = Serving /\ driver = "firecracker" /\ Serving = "pause"
      /\ Doing' = "discard"
  BY <1>1, Forward DEF After, Outside, theDriver, KindsOf, CommonKinds, GVisorKinds, VMKinds, LaunchKinds
<1>3. Types'
  BY <1>1, <1>2 DEF Types, Held, Hurts, NoFile, Runtimes, BoxshimAssumption, theDriver, procs, files, history
<1>4. ProcInv'
  BY <1>1, <1>2 DEF ProcInv, Starting, theDriver, procs, files, history
<1>5. ForgottenInv'
  BY <1>1, <1>2 DEF ForgottenInv, Running, Alarm, Starting, Ending, Parked, theDriver, procs, files, history
<1>6. HonestInv'
  BY <1>1, <1>2 DEF HonestInv, Undoing, Starting, theDriver, procs, files, history
<1>7. SnapshotInv'
  BY <1>1, <1>2 DEF SnapshotInv, Fit, Same, Whole, Types, NoFile, Runtimes, BoxshimAssumption, theDriver,
     procs, files, history
<1>8. PausedInv'
  BY <1>1, <1>2 DEF PausedInv, Pausing, Ended, Saved, Types, NoFile, Runtimes, BoxshimAssumption, theDriver,
     procs, files, history
<1> QED  BY <1>2, <1>3, <1>4, <1>5, <1>6, <1>7, <1>8

\* Temporary files and backups are removed.
LEMMA DropsKeep ==
  ASSUME IInv, BoxshimAssumption, NEW c \in Calls, Discard(c) \/ DropOld(c)
  PROVE  IInv'
<1> USE DEF IInv
<1>1. PICK k \in {"discard", "dropold"} :
        /\ At(c, k) /\ UNCHANGED <<theDriver, procs, jail, mem, snap, history>> /\ Then(c, Rest(c))
        /\ tmp' = NoFile /\ old' = [mem |-> NoFile, snap |-> NoFile]
  BY DEF Discard, DropOld
<1>2. /\ Control' /\ Doing = k /\ Serving' = Serving /\ driver = "firecracker" /\ Serving = "pause"
      /\ k = "discard" => Doing' = "unlock"
      /\ k = "dropold" => Doing' = "term"
  BY <1>1, Forward DEF After, Outside, theDriver, KindsOf, CommonKinds, GVisorKinds, VMKinds, LaunchKinds
<1>3. Types'
  BY <1>1, <1>2 DEF Types, Held, Hurts, NoFile, Runtimes, BoxshimAssumption, theDriver, procs, files, history
<1>4. ProcInv'
  BY <1>1, <1>2 DEF ProcInv, Starting, theDriver, procs, files, history
<1>5. ForgottenInv'
  BY <1>1, <1>2 DEF ForgottenInv, Running, Alarm, Starting, Ending, Parked, ProcInv, theDriver, procs, files,
     history
<1>6. HonestInv'
  BY <1>1, <1>2 DEF HonestInv, Undoing, Starting, theDriver, procs, files, history
<1>7. SnapshotInv'
  BY <1>1, <1>2 DEF SnapshotInv, Fit, Same, Whole, theDriver, procs, files, history
<1>8. PausedInv'
  BY <1>1, <1>2 DEF PausedInv, Pausing, Ended, Saved, theDriver, procs, files, history
<1> QED  BY <1>2, <1>3, <1>4, <1>5, <1>6, <1>7, <1>8

-----------------------------------------------------------------------------
(***************************************************************************)
(* Containers                                                              *)
(***************************************************************************)

\* The state directory is emptied.
LEMMA ClearKeeps ==
  ASSUME IInv, BoxshimAssumption, NEW c \in Calls, Clear(c)
  PROVE  IInv'
<1> USE DEF IInv
<1>1. /\ At(c, "clear") /\ UNCHANGED <<theDriver, proc, launched, files, history>> /\ known' \in {known, 0}
      /\ Then(c, Rest(c)) \/ Fails(c)
  BY DEF Clear, Breaks
<1>2. /\ Control' /\ Doing = "clear" /\ Serving' = Serving /\ driver = "gvisor"
      /\ Doing' = "bundle" \/ Doing' = "unlock"
  <2>1. CASE Fails(c)
    BY <1>1, <2>1, Failing DEF ErrOf, Outside, theDriver, BoxshimAssumption, Control, KindsOf, CommonKinds,
       VMKinds, LaunchKinds, PauseKinds
  <2>2. CASE Then(c, Rest(c))
    BY <1>1, <2>2, Forward DEF After, Outside, theDriver, BoxshimAssumption, Control, KindsOf, CommonKinds,
       VMKinds, LaunchKinds, PauseKinds
  <2> QED  BY <1>1, <2>1, <2>2
<1>3. Types'
  BY <1>1, <1>2 DEF Types, theDriver, procs, files, history
<1>4. ProcInv'
  BY <1>1, <1>2 DEF ProcInv, Starting, Runtimes, Killed, BoxshimAssumption, theDriver, procs, files, history
<1>5. ForgottenInv'
  BY <1>1, <1>2 DEF ForgottenInv, Running, Alarm, Starting, Ending, Parked, theDriver, procs, files, history
<1>6. HonestInv'
  BY <1>1, <1>2 DEF HonestInv, Undoing, Starting, theDriver, procs, files, history
<1>7. SnapshotInv'
  BY <1>1, <1>2 DEF SnapshotInv, Fit, Same, Whole, theDriver, procs, files, history
<1>8. PausedInv'
  BY <1>1, <1>2 DEF PausedInv, Pausing, Ended, Saved, theDriver, procs, files, history
<1> QED  BY <1>2, <1>3, <1>4, <1>5, <1>6, <1>7, <1>8

\* A container is made.
LEMMA RunCreateKeeps ==
  ASSUME IInv, BoxshimAssumption, NEW c \in Calls, RunCreate(c)
  PROVE  IInv'
<1> USE DEF IInv
<1>1. /\ At(c, "runcreate") /\ UNCHANGED <<theDriver, files, history>>
      /\ \/ /\ Then(c, Rest(c)) \/ Fails(c)
            /\ launched < MaxLaunch /\ launched' = launched + 1 /\ known' = launched + 1
            /\ proc' = [proc EXCEPT ![launched + 1] = "live"]
         \/ Fails(c) /\ UNCHANGED <<launched, known, proc>>
  BY DEF RunCreate, Breaks
<1>2. /\ Control' /\ Doing = "runcreate" /\ Serving' = Serving /\ driver = "gvisor"
      /\ \/ Doing' = "runstart" /\ ~Fails(c)
         \/ Doing' = "rundelete"
  <2>1. CASE Fails(c)
    BY <1>1, <2>1, Failing DEF ErrOf, Outside, theDriver, BoxshimAssumption, Control, KindsOf, CommonKinds,
       VMKinds, LaunchKinds, PauseKinds
  <2>2. CASE Then(c, Rest(c)) /\ ~Fails(c)
    BY <1>1, <2>2, Forward DEF After, Outside, theDriver, BoxshimAssumption, Control, KindsOf, CommonKinds,
       VMKinds, LaunchKinds, PauseKinds
  <2> QED  BY <1>1, <2>1, <2>2
<1>3. Types'
  BY <1>1, <1>2 DEF Types, theDriver, procs, files, history
<1>4. ProcInv'
  BY <1>1, <1>2 DEF ProcInv, Starting, Runtimes, BoxshimAssumption, theDriver, procs, files, history
<1>5. ForgottenInv'
  BY <1>1, <1>2 DEF ForgottenInv, Running, Alarm, Starting, Ending, Parked, ProcInv, Runtimes,
     BoxshimAssumption, theDriver, procs, files, history
<1>6. HonestInv'
  BY <1>1, <1>2 DEF HonestInv, Undoing, Starting, theDriver, procs, files, history
<1>7. SnapshotInv'
  BY <1>1, <1>2 DEF SnapshotInv, Fit, Same, Whole, theDriver, procs, files, history
<1>8. PausedInv'
  <2>1. \A v \in Runtimes : proc[v] = "gone" => proc'[v] = "gone"
    BY <1>1, <1>2 DEF ProcInv, Runtimes, BoxshimAssumption
  <2> QED  BY <1>1, <1>2, <2>1 DEF PausedInv, Pausing, Ended, Saved, theDriver, procs, files, history
<1> QED  BY <1>2, <1>3, <1>4, <1>5, <1>6, <1>7, <1>8

\* It is started.
LEMMA RunStartKeeps ==
  ASSUME IInv, BoxshimAssumption, NEW c \in Calls, RunStart(c)
  PROVE  IInv'
<1> USE DEF IInv
<1>1. /\ At(c, "runstart") /\ UNCHANGED <<theDriver, procs, files, history>> /\ (Then(c, Rest(c)) \/ Fails(c))
  BY DEF RunStart, Passes, Breaks
<1>2. /\ Control' /\ Doing = "runstart" /\ Serving' = Serving /\ driver = "gvisor"
      /\ Doing' = "running" \/ Doing' = "rundelete"
  <2>1. CASE Fails(c)
    BY <1>1, <2>1, Failing DEF ErrOf, Outside, theDriver, BoxshimAssumption, Control, KindsOf, CommonKinds,
       VMKinds, LaunchKinds, PauseKinds
  <2>2. CASE Then(c, Rest(c))
    BY <1>1, <2>2, Forward DEF After, Outside, theDriver, BoxshimAssumption, Control, KindsOf, CommonKinds,
       VMKinds, LaunchKinds, PauseKinds
  <2> QED  BY <1>1, <2>1, <2>2
<1>3. Types'
  BY <1>1, <1>2 DEF Types, theDriver, procs, files, history
<1>4. ProcInv'
  BY <1>1, <1>2 DEF ProcInv, Starting, theDriver, procs, files, history
<1>5. ForgottenInv'
  BY <1>1, <1>2 DEF ForgottenInv, Running, Alarm, Starting, Ending, Parked, theDriver, procs, files, history
<1>6. HonestInv'
  BY <1>1, <1>2 DEF HonestInv, Undoing, Starting, theDriver, procs, files, history
<1>7. SnapshotInv'
  BY <1>1, <1>2 DEF SnapshotInv, Fit, Same, Whole, theDriver, procs, files, history
<1>8. PausedInv'
  BY <1>1, <1>2 DEF PausedInv, Pausing, Ended, Saved, theDriver, procs, files, history
<1> QED  BY <1>2, <1>3, <1>4, <1>5, <1>6, <1>7, <1>8

\* One that did not start is deleted.
LEMMA RunDeleteKeeps ==
  ASSUME IInv, BoxshimAssumption, NEW c \in Calls, RunDelete(c)
  PROVE  IInv'
<1> USE DEF IInv
<1>1. /\ At(c, "rundelete") /\ UNCHANGED <<theDriver, launched, files, hurt, over>> /\ Then(c, Rest(c))
      /\ \/ proc' = Killed({known} \ {0}) /\ known' = 0 /\ UNCHANGED orphans
         \/ orphans' = orphans \cup ({known} \ {0}) /\ UNCHANGED <<proc, known>>
  BY DEF RunDelete, Deleted, Left
<1>2. Control' /\ Doing = "rundelete" /\ Serving' = Serving /\ driver = "gvisor" /\ Doing' = "unlock"
  BY <1>1, Forward DEF After, Outside, theDriver, BoxshimAssumption, Control, KindsOf, CommonKinds, VMKinds,
     LaunchKinds, PauseKinds
<1>3. Types'
  BY <1>1, <1>2 DEF Types, Hurts, theDriver, procs, files, history
<1>4. ProcInv'
  <2>1. CASE proc' = Killed({known} \ {0}) /\ known' = 0 /\ UNCHANGED orphans
    BY <1>1, <1>2, <2>1 DEF ProcInv, Starting, Runtimes, Killed, BoxshimAssumption, theDriver, procs, files, history
  <2>2. CASE orphans' = orphans \cup ({known} \ {0}) /\ UNCHANGED <<proc, known>>
    <3>1. orphans' \subseteq 1..launched
      <4>1. launched \in Nat /\ known \in 0..launched /\ orphans \subseteq 1..launched
        BY BoxshimAssumption DEF ProcInv
      <4>2. known # 0 => known \in 1..launched
        BY <4>1
      <4> QED  BY <2>2, <4>1, <4>2
    <3>2. cmd = 0 /\ cmd \notin orphans /\ cmd' = cmd
      BY <1>1, <1>2 DEF ProcInv, theDriver
    <3> QED  BY <1>1, <1>2, <2>2, <3>1, <3>2 DEF ProcInv, Starting, Runtimes, theDriver, procs, files, history
  <2> QED  BY <1>1, <2>1, <2>2
<1>5. ForgottenInv'
  BY <1>1, <1>2 DEF ForgottenInv, Running, Alarm, Starting, Ending, Parked, ProcInv, Runtimes, Killed,
     BoxshimAssumption, theDriver, procs, files, history
<1>6. HonestInv'
  BY <1>1, <1>2 DEF HonestInv, Undoing, Starting, theDriver, procs, files, history
<1>7. SnapshotInv'
  BY <1>1, <1>2 DEF SnapshotInv, Fit, Same, Whole, theDriver, procs, files, history
<1>8. PausedInv'
  BY <1>1, <1>2 DEF PausedInv, Pausing, Ended, Saved, ProcInv, Runtimes, Killed, BoxshimAssumption, theDriver,
     procs, files, history
<1> QED  BY <1>2, <1>3, <1>4, <1>5, <1>6, <1>7, <1>8

\* A stop waits for the container to end.
LEMMA PollKeeps ==
  ASSUME IInv, BoxshimAssumption, NEW c \in Calls, Poll(c)
  PROVE  IInv'
<1> USE DEF IInv
<1>1. /\ At(c, "poll") /\ UNCHANGED <<theDriver, launched, files, hurt, over>>
      /\ \/ proc' = Killed({known} \ {0}) /\ known' = 0 /\ Then(c, Tail(Rest(c))) /\ UNCHANGED orphans
         \/ (Then(c, Rest(c)) \/ Fails(c)) /\ UNCHANGED <<proc, known, orphans>>
         \/ Then(c, Tail(Rest(c))) /\ orphans' = orphans \cup ({known} \ {0}) /\ UNCHANGED <<proc, known>>
  BY DEF Poll, Deleted, Left
<1>2. /\ Control' /\ Doing = "poll" /\ Serving' = Serving /\ driver = "gvisor"
      /\ \/ proc' = Killed({known} \ {0}) /\ known' = 0 /\ Doing' \in {"stopped", "exited", "unlock"} /\ UNCHANGED orphans
         \/ Doing' \in {"runkill", "unlock"} /\ UNCHANGED <<proc, known, orphans>>
         \/ /\ Doing' \in {"stopped", "exited", "unlock"} /\ UNCHANGED <<proc, known>>
            /\ orphans' = orphans \cup ({known} \ {0})
  <2>1. driver' = driver /\ mu' = mu
    BY <1>1 DEF theDriver
  <2>2. ASSUME Fails(c)
        PROVE  Control' /\ Doing = "poll" /\ Serving' = Serving /\ driver = "gvisor" /\ Doing' = "unlock"
    BY <1>1, <2>1, <2>2, Failing DEF ErrOf, Outside, BoxshimAssumption, Control, KindsOf, CommonKinds, VMKinds,
       LaunchKinds, PauseKinds
  <2>3. ASSUME Then(c, Rest(c))
        PROVE  Control' /\ Doing = "poll" /\ Serving' = Serving /\ driver = "gvisor" /\ Doing' = "runkill"
    BY <1>1, <2>1, <2>3, Forward DEF After, Outside, BoxshimAssumption, Control, KindsOf, CommonKinds, VMKinds,
       LaunchKinds, PauseKinds
  <2>4. ASSUME Then(c, Tail(Rest(c)))
        PROVE  /\ Control' /\ Doing = "poll" /\ Serving' = Serving /\ driver = "gvisor"
               /\ Doing' \in {"stopped", "exited", "unlock"}
    BY <1>1, <2>1, <2>4, SkipsOne DEF BoxshimAssumption, Control, KindsOf, CommonKinds, VMKinds, LaunchKinds,
       PauseKinds
  <2> QED  BY <1>1, <2>2, <2>3, <2>4
<1>3. Types'
  BY <1>1, <1>2 DEF Types, Hurts, theDriver, procs, files, history
<1>4. ProcInv'
  <2>1. CASE proc' = Killed({known} \ {0}) /\ known' = 0 /\ UNCHANGED orphans
    BY <1>1, <1>2, <2>1 DEF ProcInv, Starting, Runtimes, Killed, BoxshimAssumption, theDriver, procs, files, history
  <2>2. CASE orphans' = orphans \cup ({known} \ {0}) /\ UNCHANGED <<proc, known>>
    <3>1. orphans' \subseteq 1..launched
      <4>1. launched \in Nat /\ known \in 0..launched /\ orphans \subseteq 1..launched
        BY BoxshimAssumption DEF ProcInv
      <4>2. known # 0 => known \in 1..launched
        BY <4>1
      <4> QED  BY <2>2, <4>1, <4>2
    <3>2. cmd = 0 /\ cmd \notin orphans /\ cmd' = cmd
      BY <1>1, <1>2 DEF ProcInv, theDriver
    <3> QED  BY <1>1, <1>2, <2>2, <3>1, <3>2 DEF ProcInv, Starting, Runtimes, theDriver, procs, files, history
  <2>3. CASE UNCHANGED <<proc, known, orphans>>
    BY <1>1, <1>2, <2>3 DEF ProcInv, Starting, Runtimes, theDriver, procs, files, history
  <2> QED  BY <1>2, <2>1, <2>2, <2>3
<1>5. ForgottenInv'
  BY <1>1, <1>2 DEF ForgottenInv, Running, Alarm, Starting, Ending, Parked, ProcInv, Runtimes, Killed,
     BoxshimAssumption, theDriver, procs, files, history
<1>6. HonestInv'
  BY <1>1, <1>2 DEF HonestInv, Undoing, Starting, theDriver, procs, files, history
<1>7. SnapshotInv'
  BY <1>1, <1>2 DEF SnapshotInv, Fit, Same, Whole, theDriver, procs, files, history
<1>8. PausedInv'
  BY <1>1, <1>2 DEF PausedInv, Pausing, Ended, Saved, ProcInv, Runtimes, Killed, BoxshimAssumption, theDriver,
     procs, files, history
<1> QED  BY <1>2, <1>3, <1>4, <1>5, <1>6, <1>7, <1>8

\* Or kills and deletes it.
LEMMA RunKillKeeps ==
  ASSUME IInv, BoxshimAssumption, NEW c \in Calls, RunKill(c)
  PROVE  IInv'
<1> USE DEF IInv
<1>1. /\ At(c, "runkill") /\ UNCHANGED <<theDriver, launched, files, history>>
      /\ \/ proc' = Killed({known} \ {0}) /\ known' = 0 /\ Then(c, Rest(c))
         \/ Fails(c) /\ UNCHANGED <<proc, known>>
  BY DEF RunKill, Breaks, Deleted
<1>2. /\ Control' /\ Doing = "runkill" /\ Serving' = Serving /\ driver = "gvisor"
      /\ \/ proc' = Killed({known} \ {0}) /\ known' = 0 /\ Doing' \in {"stopped", "exited", "unlock"}
         \/ Doing' = "unlock" /\ UNCHANGED <<proc, known>>
  <2>1. CASE Fails(c) /\ UNCHANGED <<proc, known>>
    BY <1>1, <2>1, Failing DEF ErrOf, Outside, theDriver, BoxshimAssumption, Control, KindsOf, CommonKinds,
       VMKinds, LaunchKinds, PauseKinds
  <2>2. CASE Then(c, Rest(c)) /\ proc' = Killed({known} \ {0}) /\ known' = 0
    BY <1>1, <2>2, Forward DEF After, Outside, theDriver, BoxshimAssumption, Control, KindsOf, CommonKinds,
       VMKinds, LaunchKinds, PauseKinds
  <2> QED  BY <1>1, <2>1, <2>2
<1>3. Types'
  BY <1>1, <1>2 DEF Types, theDriver, procs, files, history
<1>4. ProcInv'
  BY <1>1, <1>2 DEF ProcInv, Starting, Runtimes, Killed, BoxshimAssumption, theDriver, procs, files, history
<1>5. ForgottenInv'
  BY <1>1, <1>2 DEF ForgottenInv, Running, Alarm, Starting, Ending, Parked, ProcInv, Runtimes, Killed,
     BoxshimAssumption, theDriver, procs, files, history
<1>6. HonestInv'
  BY <1>1, <1>2 DEF HonestInv, Undoing, Starting, theDriver, procs, files, history
<1>7. SnapshotInv'
  BY <1>1, <1>2 DEF SnapshotInv, Fit, Same, Whole, theDriver, procs, files, history
<1>8. PausedInv'
  BY <1>1, <1>2 DEF PausedInv, Pausing, Ended, Saved, ProcInv, Runtimes, Killed, BoxshimAssumption, theDriver,
     procs, files, history
<1> QED  BY <1>2, <1>3, <1>4, <1>5, <1>6, <1>7, <1>8

-----------------------------------------------------------------------------
(***************************************************************************)
(* The mutex, what is reported, and the server                             *)
(***************************************************************************)

\* What happened is reported.
LEMMA SetKeeps ==
  ASSUME IInv, BoxshimAssumption, NEW c \in Calls, Set(c)
  PROVE  IInv'
<1> USE DEF IInv
<1>1. PICK k \in Reports :
        /\ At(c, k) /\ info' = k /\ spec' = (spec \/ k = "running") /\ Then(c, Rest(c))
        /\ UNCHANGED <<driver, shim, mu, cmd, procs, files, hurt, orphans, over>>
  BY DEF Set
<1>2. Control' /\ Doing = k /\ Serving' = Serving /\ Doing' = "unlock" /\ driver \in {"firecracker", "gvisor"}
  BY <1>1, Forward DEF After, Outside, Reports, Control, BoxshimAssumption
<1>3. Types'
  BY <1>1, <1>2 DEF Types, theDriver, procs, files, history
<1>4. ProcInv'
  BY <1>1, <1>2 DEF ProcInv, Starting, Reports, theDriver, procs, files, history
<1>5. ForgottenInv'
  BY <1>1, <1>2 DEF ForgottenInv, Running, Alarm, Starting, Ending, Parked, ProcInv, Reports, theDriver, procs,
     files, history
<1>6. HonestInv'
  BY <1>1, <1>2 DEF HonestInv, Undoing, Starting, ProcInv, Reports, theDriver, procs, files, history
<1>7. SnapshotInv'
  BY <1>1, <1>2 DEF SnapshotInv, Fit, Same, Whole, Reports, theDriver, procs, files, history
<1>8. PausedInv'
  BY <1>1, <1>2 DEF PausedInv, Pausing, Ended, Saved, Reports, theDriver, procs, files, history
<1> QED  BY <1>2, <1>3, <1>4, <1>5, <1>6, <1>7, <1>8

\* A VM that has ended is reported so.
LEMMA StatusKeeps ==
  ASSUME IInv, BoxshimAssumption, Status
  PROVE  IInv'
<1> USE DEF IInv
<1>1. /\ mu = NoCall /\ driver = "firecracker" /\ info = "running" /\ cmd # 0 /\ ~ProcessAlive /\ info' = "exited"
      /\ UNCHANGED <<driver, shim, mu, cmd, spec, procs, files, call, faults, history>>
  BY DEF Status
<1>2. Control' /\ Doing = "rest" /\ Doing' = Doing /\ Following' = Following /\ Serving' = Serving
  BY <1>1, Still DEF Doing, BoxshimAssumption
<1>3. Types'
  BY <1>1, <1>2 DEF Types, Reports, theDriver, procs, files, history
<1>4. ProcInv'
  BY <1>1, <1>2 DEF ProcInv, Starting, theDriver, procs, files, history
<1>5. ForgottenInv'
  BY <1>1, <1>2 DEF ForgottenInv, Running, Alarm, Starting, Ending, Parked, ProcInv, ProcessAlive, LivePIDs,
     theDriver, procs, files, history
<1>6. HonestInv'
  BY <1>1, <1>2 DEF HonestInv, Undoing, Starting, theDriver, procs, files, history
<1>7. SnapshotInv'
  BY <1>1, <1>2 DEF SnapshotInv, Fit, Same, Whole, theDriver, procs, files, history
<1>8. PausedInv'
  BY <1>1, <1>2 DEF PausedInv, Pausing, Ended, Saved, theDriver, procs, files, history
<1> QED  BY <1>2, <1>3, <1>4, <1>5, <1>6, <1>7, <1>8

\* The mutex is taken.
LEMMA LockKeeps ==
  ASSUME IInv, BoxshimAssumption, NEW c \in Calls, Lock(c)
  PROVE  IInv'
<1> USE DEF IInv
<1>1. /\ At(c, "lock") /\ mu = NoCall /\ mu' = c /\ Then(c, Rest(c))
      /\ over' = (over \/ (call[c].op = "resume" /\ info = "running"))
      /\ UNCHANGED <<driver, shim, info, cmd, spec, procs, files, faults, hurt, orphans>>
  BY DEF Lock
<1>2. /\ Control' /\ Doing = "rest" /\ Doing' \in After(Serving', "lock")
      /\ Doing' = "launch" => Serving' = "resume"
      /\ over' = (over \/ (Serving' = "resume" /\ info = "running"))
  BY <1>1, Leaves DEF After
<1>3. Types'
  BY <1>1, <1>2 DEF Types, After, theDriver, procs, files, history
<1>4. ProcInv'
  BY <1>1, <1>2 DEF ProcInv, Starting, After, theDriver, procs, files, history
<1>5. ForgottenInv'
  BY <1>1, <1>2 DEF ForgottenInv, Running, Alarm, Starting, Ending, Parked, After, theDriver, procs, files,
     history
<1>6. HonestInv'
  BY <1>1, <1>2 DEF HonestInv, Undoing, Starting, After, theDriver, procs, files, history
<1>7. SnapshotInv'
  BY <1>1, <1>2 DEF SnapshotInv, Fit, Same, Whole, After, theDriver, procs, files, history
<1>8. PausedInv'
  BY <1>1, <1>2 DEF PausedInv, Pausing, Ended, Saved, After, theDriver, procs, files, history
<1> QED  BY <1>2, <1>3, <1>4, <1>5, <1>6, <1>7, <1>8

\* The mutex is given back.
LEMMA ReleaseKeeps ==
  ASSUME IInv, BoxshimAssumption, NEW c \in Calls, Release(c)
  PROVE  IInv'
<1> USE DEF IInv
<1>1. /\ At(c, "unlock") /\ mu' = NoCall /\ Then(c, Rest(c))
      /\ UNCHANGED <<driver, shim, info, cmd, spec, procs, files, faults, history>>
  BY DEF Release
<1>2. Control' /\ Doing = "unlock" /\ Doing' = "rest"
  BY <1>1, Leaves
<1>3. Types'
  BY <1>1, <1>2 DEF Types, theDriver, procs, files, history
<1>4. ProcInv'
  BY <1>1, <1>2 DEF ProcInv, Starting, theDriver, procs, files, history
<1>5. ForgottenInv'
  BY <1>1, <1>2 DEF ForgottenInv, Running, Alarm, Starting, Ending, Parked, theDriver, procs, files, history
<1>6. HonestInv'
  BY <1>1, <1>2 DEF HonestInv, Undoing, Starting, theDriver, procs, files, history
<1>7. SnapshotInv'
  BY <1>1, <1>2 DEF SnapshotInv, Fit, Same, Whole, theDriver, procs, files, history
<1>8. PausedInv'
  BY <1>1, <1>2 DEF PausedInv, Pausing, Ended, Saved, theDriver, procs, files, history
<1> QED  BY <1>2, <1>3, <1>4, <1>5, <1>6, <1>7, <1>8

\* What calls do that do not hold the mutex.
LEMMA OthersKeep ==
  ASSUME IInv, BoxshimAssumption, NEW c \in Calls, OnKill(c) \/ Request(c) \/ Cancel(c)
  PROVE  IInv'
<1> USE DEF IInv
<1>1. /\ UNCHANGED <<driver, mu, info, cmd, spec, procs, files, history>> /\ shim' \in {"up", "stopping", "down"}
      /\ OnKill(c) => At(c, "onkill") /\ Then(c, Rest(c))
  BY DEF OnKill, Request, Cancel, theDriver, Types
<1>2. Control' /\ Doing' = Doing /\ Following' = Following /\ Serving' = Serving
  BY <1>1, Leaves, Callers
<1>3. Types'
  BY <1>1, <1>2 DEF Types, theDriver, procs, files, history
<1>4. ProcInv'
  BY <1>1, <1>2 DEF ProcInv, Starting, theDriver, procs, files, history
<1>5. ForgottenInv'
  BY <1>1, <1>2 DEF ForgottenInv, Running, Alarm, Starting, Ending, Parked, theDriver, procs, files, history
<1>6. HonestInv'
  BY <1>1, <1>2 DEF HonestInv, Undoing, Starting, theDriver, procs, files, history
<1>7. SnapshotInv'
  BY <1>1, <1>2 DEF SnapshotInv, Fit, Same, Whole, theDriver, procs, files, history
<1>8. PausedInv'
  BY <1>1, <1>2 DEF PausedInv, Pausing, Ended, Saved, theDriver, procs, files, history
<1> QED  BY <1>2, <1>3, <1>4, <1>5, <1>6, <1>7, <1>8

\* The shim ends.
LEMMA DeathKeeps ==
  ASSUME IInv, BoxshimAssumption, Stopped \/ Crash
  PROVE  IInv'
<1> USE DEF IInv
<1>1. /\ Forget /\ orphans' = orphans \cup {v \in Runtimes : proc[v] \in {"jailing", "live"}}
      /\ UNCHANGED <<hurt, over>> /\ shim' \in {"up", "stopping", "down"}
  BY DEF Stopped, Crash, Die, Types
<1>2. /\ Control' /\ Doing' = "rest" /\ info' = "none" /\ cmd' = 0 /\ spec' = FALSE
      /\ UNCHANGED <<driver, proc, known, launched, jail, mem, snap, tmp, old, hurt, over>>
  BY <1>1, Dies DEF Forget
<1>3. Doing \in {"rollmem"} => Following \in {"rollsnap", "discard"}
  BY Follows DEF After
<1>4. Types'
  BY <1>1, <1>2, <1>3 DEF Types, theDriver, procs, files, history
<1>5. ProcInv'
  <2>1. \A v \in Runtimes : proc[v] \in {"jailing", "live"} => v \in 1..launched /\ v \in orphans'
    BY <1>1 DEF ProcInv, Runtimes, BoxshimAssumption
  <2>2. orphans' \subseteq 1..launched /\ 0 \notin orphans'
    <3>1. orphans \subseteq 1..launched /\ launched \in Nat
      BY DEF ProcInv, BoxshimAssumption
    <3>2. \A v \in orphans' : v \in 1..launched
      BY <1>1, <2>1, <3>1
    <3> QED  BY <3>1, <3>2
  <2>3. cmd' \in 0..launched /\ cmd' \notin orphans'
    BY <1>2, <2>2 DEF ProcInv, BoxshimAssumption
  <2> QED  BY <1>2, <2>1, <2>2, <2>3 DEF ProcInv, Starting
<1>6. ForgottenInv'
  BY <1>1, <1>2, <1>3 DEF ForgottenInv, Running, Alarm, Starting, Ending, Parked, theDriver, procs, files,
     history
<1>7. HonestInv'
  BY <1>1, <1>2, <1>3 DEF HonestInv, Undoing, Starting, theDriver, procs, files, history
<1>8. SnapshotInv'
  BY <1>1, <1>2, <1>3 DEF SnapshotInv, Fit, Same, Whole, theDriver, procs, files, history
<1>9. PausedInv'
  BY <1>1, <1>2, <1>3 DEF PausedInv, Pausing, Ended, Saved, theDriver, procs, files, history
<1> QED  BY <1>2, <1>4, <1>5, <1>6, <1>7, <1>8, <1>9

-----------------------------------------------------------------------------
(***************************************************************************)
(* The invariant holds in every state, and what follows from it            *)
(***************************************************************************)
\* A shim that starts, with the snapshot of a sandbox or without.
LEMMA IInvInit ==
  ASSUME BoxshimAssumption, Init
  PROVE  IInv
<1>1. Control /\ Doing = "rest"
  BY ControlInit
<1>2. Types
  <2>1. Template \in Held /\ NoFile \in Held
    BY DEF Template, NoFile, Held, BoxshimAssumption
  <2>2. mem \in Held /\ snap \in Held /\ tmp \in Held /\ old \in [mem : Held, snap : Held]
    BY <2>1 DEF Init
  <2> QED  BY <2>2 DEF Init, Types
<1>3. ProcInv
  BY <1>1 DEF Init, ProcInv, Runtimes, Starting, BoxshimAssumption
<1>4. ForgottenInv
  BY <1>1 DEF Init, ForgottenInv, Running
<1>5. HonestInv /\ SnapshotInv /\ PausedInv
  BY <1>1 DEF Init, HonestInv, Undoing, Starting, SnapshotInv, Fit, PausedInv, Pausing, Ended
<1> QED  BY <1>1, <1>2, <1>3, <1>4, <1>5 DEF IInv

\* Every step keeps it.
LEMMA IInvNext ==
  ASSUME BoxshimAssumption, IInv, [Next]_vars
  PROVE  IInv'
<1>1. ASSUME NEW c \in Calls, Step(c)
      PROVE  IInv'
  <2>1. CASE Lock(c) \/ Release(c) \/ Set(c) \/ OnKill(c)
    BY <2>1, LockKeeps, ReleaseKeeps, SetKeeps, OthersKeep
  <2>2. CASE Check(c) \/ NoCmd(c) \/ Respec(c) \/ NotRunning(c) \/ Alive(c)
    BY <2>2, LooksKeeps
  <2>3. CASE Launch(c) \/ Mount(c) \/ Bundle(c) \/ Spawn(c)
    BY <2>3, PreparesKeeps, SpawnKeeps
  <2>4. CASE Api(c) \/ Configure(c) \/ Load(c) \/ Watch(c) \/ Balloon(c) \/ Freeze(c)
    BY <2>4, AsksKeeps
  <2>5. CASE Terminate(c) \/ Signal(c) \/ WaitExit(c) \/ Cleanup(c)
    BY <2>5, TerminateKeeps, SignalKeeps, WaitExitKeeps, CleanupKeeps
  <2>6. CASE WriteSnapshot(c) \/ BackMem(c) \/ BackSnap(c) \/ NewMem(c) \/ NewSnap(c)
    BY <2>6, WriteKeeps, BackMemKeeps, BackSnapKeeps, NewMemKeeps, NewSnapKeeps
  <2>7. CASE RollMem(c) \/ RollSnap(c) \/ Discard(c) \/ DropOld(c)
    BY <2>7, RollMemKeeps, RollSnapKeeps, DropsKeep
  <2>8. CASE Clear(c) \/ RunCreate(c) \/ RunStart(c) \/ RunDelete(c) \/ Poll(c) \/ RunKill(c)
    BY <2>8, ClearKeeps, RunCreateKeeps, RunStartKeeps, RunDeleteKeeps, PollKeeps, RunKillKeeps
  <2> QED  BY <1>1, <2>1, <2>2, <2>3, <2>4, <2>5, <2>6, <2>7, <2>8 DEF Step
<1>2. ASSUME UNCHANGED vars
      PROVE  IInv'
  <2>1. UNCHANGED <<theDriver, procs, files, call, faults, history>>
    BY <1>2 DEF vars
  <2>2. Control' /\ Doing' = Doing /\ Following' = Following /\ Serving' = Serving
    BY <2>1, Still DEF IInv, theDriver
  <2>3. Types' /\ ProcInv'
    BY <2>1, <2>2 DEF IInv, Types, ProcInv, theDriver, procs, files, history
  <2>4. ForgottenInv' /\ HonestInv'
    BY <2>1, <2>2 DEF IInv, ForgottenInv, Running, Alarm, HonestInv, Undoing, theDriver, procs, files, history
  <2>5. SnapshotInv'
    BY <2>1, <2>2 DEF IInv, SnapshotInv, Fit, Same, Whole, theDriver, procs, files, history
  <2>6. PausedInv'
    BY <2>1, <2>2 DEF IInv, PausedInv, Pausing, Ended, Saved, theDriver, procs, files, history
  <2> QED  BY <2>2, <2>3, <2>4, <2>5, <2>6 DEF IInv
<1> QED  BY <1>1, <1>2, OthersKeep, ProcessesKeep, StatusKeeps, DeathKeeps DEF Next

\* The inductive invariant holds in every state of every behaviour.
THEOREM ShimInvariant == Spec => []IInv
<1>1. Init => IInv
  BY BoxshimAssumption, IInvInit
<1>2. IInv /\ [Next]_vars => IInv'
  BY BoxshimAssumption, IInvNext
<1> QED  BY <1>1, <1>2, PTL DEF Spec

\* Whichever way calls return, the state is well typed and the mutex is held by a
\* call in progress (every method of firecracker.go and gvisor.go that locks).
THEOREM ShimTypes == Spec => []TypeOK
<1>1. ASSUME IInv
      PROVE  TypeOK
  <2>1. mu # NoCall => Active(mu)
    BY <1>1 DEF IInv, Control, CallOK, Holds
  <2>2. driver \in Drivers /\ mu \in Calls \cup {NoCall}
    BY <1>1 DEF IInv, Control
  <2>3. cmd \in 0..MaxLaunch /\ known \in 0..MaxLaunch /\ launched \in 0..MaxLaunch /\ orphans \subseteq Runtimes
    BY <1>1, BoxshimAssumption DEF IInv, ProcInv, Runtimes
  <2> QED  BY <1>1, <2>1, <2>2, <2>3 DEF IInv, Types, ProcInv, TypeOK
<1> QED  BY <1>1, ShimInvariant, PTL

\* The two files of a snapshot are of one VM at every step of a pause, after every
\* failed rename and rollback and after a crash (atomicSnapshotPaths.commit).
THEOREM SnapshotIsWhole == Spec => []SnapshotWhole
<1>1. ASSUME IInv
      PROVE  SnapshotWhole
  <2>1. Doing = "rollmem" => Following \in {"rollsnap", "discard"}
    BY <1>1, Follows DEF IInv, After
  <2> QED  BY <1>1, <2>1 DEF IInv, SnapshotInv, Fit, Whole, SnapshotWhole
<1> QED  BY <1>1, ShimInvariant, PTL

\* Nobody sees a sandbox paused that has no snapshot or still runs
\* (FirecrackerDriver.Pause ends the VM after the commit).
THEOREM PausedVMIsSaved == Spec => []PausedIsSaved
<1>1. ASSUME IInv
      PROVE  PausedIsSaved
  <2>1. mu = NoCall => Doing = "rest"
    BY BoxshimAssumption DEF Doing
  <2> QED  BY <1>1, <2>1 DEF IInv, PausedInv, Pausing, Ended, Saved, PausedIsSaved, AtRest
<1> QED  BY <1>1, ShimInvariant, PTL

\* Whatever starts were cancelled, failed or overtaken, no runtime goes on behind
\* the driver's back (startFirecrackerLocked, killLocked, gvisor's start and stop).
THEOREM NothingForgotten == Spec => []NoForgottenRuntime
<1>1. ASSUME IInv
      PROVE  NoForgottenRuntime
  <2>1. /\ mu = NoCall => Doing = "rest"
        /\ driver \in {"firecracker", "gvisor"}
        /\ "running" \notin Parked
    BY <1>1, BoxshimAssumption DEF Doing, IInv, Control, Parked
  <2>2. "unkillable" \notin hurt => Alarm = {}
    BY DEF Alarm
  <2> QED  BY <1>1, <2>1, <2>2 DEF IInv, ForgottenInv, Starting, Ending, NoForgottenRuntime, AtRest
<1> QED  BY <1>1, ShimInvariant, PTL

\* A VM reported running is one whose process Status looks at
\* (FirecrackerDriver.Status, Resume, Stop, killLocked).
THEOREM StatusIsHonest == Spec => []StatusHonest
<1>1. ASSUME IInv
      PROVE  StatusHonest
  <2>1. mu = NoCall => Doing = "rest"
    BY BoxshimAssumption DEF Doing
  <2> QED  BY <1>1, <2>1 DEF IInv, HonestInv, StatusHonest, AtRest
<1> QED  BY <1>1, ShimInvariant, PTL
=============================================================================
