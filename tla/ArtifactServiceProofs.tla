----------------------- MODULE ArtifactServiceProofs -----------------------
(***************************************************************************)
(* Template builds are exclusive, end, and leave nothing behind; templates *)
(* stay coherent, and images faithful, for any templates, builds, images,  *)
(* calls and slots.                                                        *)
(*                                                                         *)
(* A call's steps are always the end of one of the lists of its operation  *)
(* (Control); Goes is read off those lists: what a call does after each    *)
(* step.  The rest of the invariant says what holds before each step: of   *)
(* the build's row (RowInv), of the build sandbox (SandboxInv), and of the *)
(* files of templates and images (ArtifactInv).                            *)
(***************************************************************************)
EXTENDS ArtifactService, TLAPS

-----------------------------------------------------------------------------
(***************************************************************************)
(* Lists of steps                                                          *)
(***************************************************************************)
\* What can be left of a list.
Suffixes(p) == {SubSeq(p, i, Len(p)) : i \in 1..Len(p) + 1}

\* How a build that has failed ends, with its sandbox and without it.
Clearing == <<Do("cleanup", "next"), Do("failed", "stop")>>
Failing  == <<Do("failed", "stop")>>

\* The lists of an operation, and for an export before and after its copy.
Plans(op, ok) ==
  CASE op = "new"     -> {NewSteps}
    [] op = "build"   -> {ClaimSteps, BuildSteps, Clearing, Failing}
    [] op = "delete"  -> {DeleteSteps}
    [] op = "convert" -> {ConvertSteps}
    [] op = "unimage" -> {UnimageSteps}
    [] op = "export"  -> {ExportSteps("vm"), ExportSteps("dir")} \cup
         (IF ok THEN {Late} ELSE {ExportBegin, Restore, Undone, Unswapped, Deferred})
    [] OTHER          -> {<< >>}
Todos(op, ok) == UNION {Suffixes(p) : p \in Plans(op, ok)}

\* The next step of a list; the copy that an export makes of a container's rootfs is
\* told from that of a VM's, which is made while its build sandbox is there.
Kind(s) == IF s = << >> THEN "rest"
           ELSE IF Head(s) = Do("copyout", "stop") THEN "copydir" ELSE Head(s).do
Doing(c) == Kind(call[c].todo)

\* A list begins with a step of kind k, which fails as err says, and goes on with kind t.
Row(s, k, err, t) == Kind(s) = k /\ Head(s).err = err /\ Kind(Tail(s)) = t

IsList(p) == \E S : p \in Seq(S)

\* A list that begins with the element at i of p and goes on as p does.
Begins(s, p, i) ==
  /\ Head(s) = p[i]
  /\ i < Len(p) => Tail(s) # << >> /\ Head(Tail(s)) = p[i + 1]
  /\ i = Len(p) => Tail(s) = << >>

\* What is left of a list begins with an element of it and goes on with the next.
LEMMA Onward ==
  ASSUME NEW p, IsList(p), NEW s \in Suffixes(p), s # << >>
  PROVE  /\ IsList(s) /\ Tail(s) \in Suffixes(p)
         /\ \E i \in 1..Len(p) : Begins(s, p, i)
<1>0. PICK S : p \in Seq(S)
  BY DEF IsList
<1>1. PICK i \in 1..Len(p) + 1 : s = SubSeq(p, i, Len(p))
  BY DEF Suffixes
<1>2. /\ Len(p) \in Nat /\ s \in Seq(S) /\ Len(s) = Len(p) - i + 1
      /\ \A j \in 1..Len(s) : s[j] = p[i + j - 1]
  BY <1>0, <1>1
<1>3. Len(s) > 0
  BY <1>2
<1>4. /\ Head(s) = s[1] /\ Tail(s) \in Seq(S) /\ Len(Tail(s)) = Len(s) - 1
      /\ \A j \in 1..Len(s) - 1 : Tail(s)[j] = s[j + 1]
  BY <1>2, <1>3
<1>5. i + 1 \in 1..Len(p) + 1 /\ i \in 1..Len(p)
  BY <1>2, <1>3
<1>6. Tail(s) = SubSeq(p, i + 1, Len(p))
  BY <1>0, <1>1, <1>2, <1>3, <1>4
<1>7. Tail(s) \in Suffixes(p)
  BY <1>5, <1>6 DEF Suffixes
<1>8. s[1] = p[i + 1 - 1] /\ i + 1 - 1 = i
  BY <1>2, <1>3
<1>9. ASSUME i < Len(p) PROVE Tail(s) # << >> /\ Head(Tail(s)) = p[i + 1]
  <2>1. Len(s) > 1
    BY <1>2, <1>9
  <2>2. Tail(s) # << >> /\ Head(Tail(s)) = Tail(s)[1]
    <3>1. ASSUME NEW t \in Seq(S), Len(t) > 0
          PROVE  t # << >> /\ Head(t) = t[1]
      BY <3>1
    <3>2. Len(Tail(s)) > 0
      BY <1>4, <2>1
    <3> QED  BY <1>4, <3>1, <3>2
  <2>3. Tail(s)[1] = s[2]
    BY <1>2, <1>4, <2>1
  <2>4. s[2] = p[i + 2 - 1] /\ i + 2 - 1 = i + 1
    BY <1>2, <2>1
  <2> QED  BY <2>2, <2>3, <2>4
<1>10. ASSUME i = Len(p) PROVE Tail(s) = << >>
  BY <1>0, <1>2, <1>6, <1>10
<1> QED  BY <1>2, <1>4, <1>5, <1>7, <1>8, <1>9, <1>10 DEF IsList, Begins

\* A list is left of itself, and nothing is left of any at last.
LEMMA Whole ==
  ASSUME NEW p, IsList(p)
  PROVE  p \in Suffixes(p) /\ << >> \in Suffixes(p)
<1>0. PICK S : p \in Seq(S)
  BY DEF IsList
<1>1. Len(p) \in Nat /\ p = SubSeq(p, 1, Len(p)) /\ << >> = SubSeq(p, Len(p) + 1, Len(p))
  BY <1>0
<1>2. 1 \in 1..Len(p) + 1 /\ Len(p) + 1 \in 1..Len(p) + 1
  BY <1>1
<1> QED  BY <1>1, <1>2 DEF Suffixes

\* Lists written down are lists.
LEMMA Lists ==
  /\ \A a : IsList(<<a>>)
  /\ \A a, b : IsList(<<a, b>>)
  /\ \A a, b, c : IsList(<<a, b, c>>)
  /\ \A a, b, c, d : IsList(<<a, b, c, d>>)
  /\ \A a, b, c, d, e, f, g, h, i, j, k : IsList(<<a, b, c, d, e, f, g, h, i, j, k>>)
  /\ \A a, b, c, d, e, f, g, h, i, j, k, l, m, n : IsList(<<a, b, c, d, e, f, g, h, i, j, k, l, m, n>>)
<1>0. ASSUME NEW a PROVE IsList(<<a>>)
  <2>1. <<a>> \in Seq({a})
    OBVIOUS
  <2> QED  BY <2>1 DEF IsList
<1>1. ASSUME NEW a, NEW b PROVE IsList(<<a, b>>)
  <2>1. <<a, b>> \in Seq({a, b})
    OBVIOUS
  <2> QED  BY <2>1 DEF IsList
<1>2. ASSUME NEW a, NEW b, NEW c PROVE IsList(<<a, b, c>>)
  <2>1. <<a, b, c>> \in Seq({a, b, c})
    OBVIOUS
  <2> QED  BY <2>1 DEF IsList
<1>3. ASSUME NEW a, NEW b, NEW c, NEW d PROVE IsList(<<a, b, c, d>>)
  <2>1. <<a, b, c, d>> \in Seq({a, b, c, d})
    OBVIOUS
  <2> QED  BY <2>1 DEF IsList
<1>4. ASSUME NEW a, NEW b, NEW c, NEW d, NEW e, NEW f, NEW g, NEW h, NEW i, NEW j, NEW k
      PROVE  IsList(<<a, b, c, d, e, f, g, h, i, j, k>>)
  <2>1. <<a, b, c, d, e, f, g, h, i, j, k>> \in Seq({a, b, c, d, e, f, g, h, i, j, k})
    OBVIOUS
  <2> QED  BY <2>1 DEF IsList
<1>5. ASSUME NEW a, NEW b, NEW c, NEW d, NEW e, NEW f, NEW g, NEW h, NEW i, NEW j, NEW k,
             NEW l, NEW m, NEW n
      PROVE  IsList(<<a, b, c, d, e, f, g, h, i, j, k, l, m, n>>)
  <2>1. <<a, b, c, d, e, f, g, h, i, j, k, l, m, n>> \in Seq({a, b, c, d, e, f, g, h, i, j, k, l, m, n})
    OBVIOUS
  <2> QED  BY <2>1 DEF IsList
<1> QED  BY <1>0, <1>1, <1>2, <1>3, <1>4, <1>5

\* The steps of CreateTemplateV3.
LEMMA NewList ==
  ASSUME NEW s \in Suffixes(NewSteps), s # << >>
  PROVE  /\ Tail(s) \in Suffixes(NewSteps)
         /\ \/ Row(s, "ensure", "stop", "addrow")
            \/ Row(s, "addrow", "stop", "addbuild")
            \/ Row(s, "addbuild", "stop", "rest")
<1>1. IsList(NewSteps) /\ Len(NewSteps) = 3
  BY Lists DEF NewSteps
<1>2. /\ NewSteps[1] = Do("ensure", "stop")
      /\ NewSteps[2] = Do("addrow", "stop")
      /\ NewSteps[3] = Do("addbuild", "stop")
  BY DEF NewSteps
<1>3. Tail(s) \in Suffixes(NewSteps) /\ \E i \in 1..Len(NewSteps) : Begins(s, NewSteps, i)
  BY <1>1, Onward
<1>4. PICK i \in 1..3 : Begins(s, NewSteps, i)
  BY <1>1, <1>3
<1>5. /\ Head(s) = NewSteps[i]
      /\ i < 3 => Tail(s) # << >> /\ Head(Tail(s)) = NewSteps[i + 1]
      /\ i = 3 => Tail(s) = << >>
  BY <1>1, <1>4 DEF Begins
<1>6. /\ i = 1 => Head(s) = Do("ensure", "stop") /\ Tail(s) # << >> /\ Head(Tail(s)) = Do("addrow", "stop")
      /\ i = 2 => Head(s) = Do("addrow", "stop") /\ Tail(s) # << >> /\ Head(Tail(s)) = Do("addbuild", "stop")
      /\ i = 3 => Head(s) = Do("addbuild", "stop") /\ Tail(s) = << >>
  BY <1>2, <1>5
<1>7. /\ i = 1 => Row(s, "ensure", "stop", "addrow")
      /\ i = 2 => Row(s, "addrow", "stop", "addbuild")
      /\ i = 3 => Row(s, "addbuild", "stop", "rest")
  BY <1>6 DEF Kind, Row, Do
<1> QED  BY <1>3, <1>7

\* The steps of a build before it runs.
LEMMA ClaimList ==
  ASSUME NEW s \in Suffixes(ClaimSteps), s # << >>
  PROVE  /\ Tail(s) \in Suffixes(ClaimSteps)
         /\ \/ Row(s, "load", "stop", "claim")
            \/ Row(s, "claim", "stop", "paths")
            \/ Row(s, "paths", "unclaim", "rest")
<1>1. IsList(ClaimSteps) /\ Len(ClaimSteps) = 3
  BY Lists DEF ClaimSteps
<1>2. /\ ClaimSteps[1] = Do("load", "stop")
      /\ ClaimSteps[2] = Do("claim", "stop")
      /\ ClaimSteps[3] = Do("paths", "unclaim")
  BY DEF ClaimSteps
<1>3. Tail(s) \in Suffixes(ClaimSteps) /\ \E i \in 1..Len(ClaimSteps) : Begins(s, ClaimSteps, i)
  BY <1>1, Onward
<1>4. PICK i \in 1..3 : Begins(s, ClaimSteps, i)
  BY <1>1, <1>3
<1>5. /\ Head(s) = ClaimSteps[i]
      /\ i < 3 => Tail(s) # << >> /\ Head(Tail(s)) = ClaimSteps[i + 1]
      /\ i = 3 => Tail(s) = << >>
  BY <1>1, <1>4 DEF Begins
<1>6. /\ i = 1 => Head(s) = Do("load", "stop") /\ Tail(s) # << >> /\ Head(Tail(s)) = Do("claim", "stop")
      /\ i = 2 => Head(s) = Do("claim", "stop") /\ Tail(s) # << >> /\ Head(Tail(s)) = Do("paths", "unclaim")
      /\ i = 3 => Head(s) = Do("paths", "unclaim") /\ Tail(s) = << >>
  BY <1>2, <1>5
<1>7. /\ i = 1 => Row(s, "load", "stop", "claim")
      /\ i = 2 => Row(s, "claim", "stop", "paths")
      /\ i = 3 => Row(s, "paths", "unclaim", "rest")
  BY <1>6 DEF Kind, Row, Do
<1> QED  BY <1>3, <1>7

\* The steps of a build.
LEMMA BuildList ==
  ASSUME NEW s \in Suffixes(BuildSteps), s # << >>
  PROVE  /\ Tail(s) \in Suffixes(BuildSteps)
         /\ \/ Row(s, "materialize", "unclaim", "inject")
            \/ Row(s, "inject", "unclaim", "shim")
            \/ Row(s, "shim", "cleanup", "pick")
            \/ Row(s, "pick", "cleanup", "net")
            \/ Row(s, "net", "cleanup", "create")
            \/ Row(s, "create", "cleanup", "commands")
            \/ Row(s, "commands", "cleanup", "seal")
            \/ Row(s, "seal", "cleanup", "cleanup")
            \/ Row(s, "cleanup", "next", "record")
            \/ Row(s, "record", "unclaim", "ready")
            \/ Row(s, "ready", "stop", "rest")
<1>1. IsList(BuildSteps) /\ Len(BuildSteps) = 11
  BY Lists DEF BuildSteps, BuildFailed, MaterializeFailed
<1>2. /\ BuildSteps[1] = Do("materialize", "unclaim")
      /\ BuildSteps[2] = Do("inject", "unclaim")
      /\ BuildSteps[3] = Do("shim", "cleanup")
      /\ BuildSteps[4] = Do("pick", "cleanup")
      /\ BuildSteps[5] = Do("net", "cleanup")
      /\ BuildSteps[6] = Do("create", "cleanup")
      /\ BuildSteps[7] = Do("commands", "cleanup")
      /\ BuildSteps[8] = Do("seal", "cleanup")
      /\ BuildSteps[9] = Do("cleanup", "next")
      /\ BuildSteps[10] = Do("record", "unclaim")
      /\ BuildSteps[11] = Do("ready", "stop")
  BY DEF BuildSteps, BuildFailed, MaterializeFailed
<1>3. Tail(s) \in Suffixes(BuildSteps) /\ \E i \in 1..Len(BuildSteps) : Begins(s, BuildSteps, i)
  BY <1>1, Onward
<1>4. PICK i \in 1..11 : Begins(s, BuildSteps, i)
  BY <1>1, <1>3
<1>5. /\ Head(s) = BuildSteps[i]
      /\ i < 11 => Tail(s) # << >> /\ Head(Tail(s)) = BuildSteps[i + 1]
      /\ i = 11 => Tail(s) = << >>
  BY <1>1, <1>4 DEF Begins
<1>6. /\ i = 1 => Head(s) = Do("materialize", "unclaim") /\ Tail(s) # << >> /\ Head(Tail(s)) = Do("inject", "unclaim")
      /\ i = 2 => Head(s) = Do("inject", "unclaim") /\ Tail(s) # << >> /\ Head(Tail(s)) = Do("shim", "cleanup")
      /\ i = 3 => Head(s) = Do("shim", "cleanup") /\ Tail(s) # << >> /\ Head(Tail(s)) = Do("pick", "cleanup")
      /\ i = 4 => Head(s) = Do("pick", "cleanup") /\ Tail(s) # << >> /\ Head(Tail(s)) = Do("net", "cleanup")
      /\ i = 5 => Head(s) = Do("net", "cleanup") /\ Tail(s) # << >> /\ Head(Tail(s)) = Do("create", "cleanup")
      /\ i = 6 => Head(s) = Do("create", "cleanup") /\ Tail(s) # << >> /\ Head(Tail(s)) = Do("commands", "cleanup")
      /\ i = 7 => Head(s) = Do("commands", "cleanup") /\ Tail(s) # << >> /\ Head(Tail(s)) = Do("seal", "cleanup")
      /\ i = 8 => Head(s) = Do("seal", "cleanup") /\ Tail(s) # << >> /\ Head(Tail(s)) = Do("cleanup", "next")
      /\ i = 9 => Head(s) = Do("cleanup", "next") /\ Tail(s) # << >> /\ Head(Tail(s)) = Do("record", "unclaim")
      /\ i = 10 => Head(s) = Do("record", "unclaim") /\ Tail(s) # << >> /\ Head(Tail(s)) = Do("ready", "stop")
      /\ i = 11 => Head(s) = Do("ready", "stop") /\ Tail(s) = << >>
  BY SMTT(30), <1>2, <1>5
<1>7. /\ i = 1 => Row(s, "materialize", "unclaim", "inject")
      /\ i = 2 => Row(s, "inject", "unclaim", "shim")
      /\ i = 3 => Row(s, "shim", "cleanup", "pick")
      /\ i = 4 => Row(s, "pick", "cleanup", "net")
      /\ i = 5 => Row(s, "net", "cleanup", "create")
      /\ i = 6 => Row(s, "create", "cleanup", "commands")
      /\ i = 7 => Row(s, "commands", "cleanup", "seal")
      /\ i = 8 => Row(s, "seal", "cleanup", "cleanup")
      /\ i = 9 => Row(s, "cleanup", "next", "record")
      /\ i = 10 => Row(s, "record", "unclaim", "ready")
      /\ i = 11 => Row(s, "ready", "stop", "rest")
  BY <1>6 DEF Kind, Row, Do
<1> QED  BY <1>3, <1>7

\* The steps of a build that has failed.
LEMMA ClearingList ==
  ASSUME NEW s \in Suffixes(Clearing), s # << >>
  PROVE  /\ Tail(s) \in Suffixes(Clearing)
         /\ \/ Row(s, "cleanup", "next", "failed")
            \/ Row(s, "failed", "stop", "rest")
<1>1. IsList(Clearing) /\ Len(Clearing) = 2
  BY Lists DEF Clearing
<1>2. /\ Clearing[1] = Do("cleanup", "next")
      /\ Clearing[2] = Do("failed", "stop")
  BY DEF Clearing
<1>3. Tail(s) \in Suffixes(Clearing) /\ \E i \in 1..Len(Clearing) : Begins(s, Clearing, i)
  BY <1>1, Onward
<1>4. PICK i \in 1..2 : Begins(s, Clearing, i)
  BY <1>1, <1>3
<1>5. /\ Head(s) = Clearing[i]
      /\ i < 2 => Tail(s) # << >> /\ Head(Tail(s)) = Clearing[i + 1]
      /\ i = 2 => Tail(s) = << >>
  BY <1>1, <1>4 DEF Begins
<1>6. /\ i = 1 => Head(s) = Do("cleanup", "next") /\ Tail(s) # << >> /\ Head(Tail(s)) = Do("failed", "stop")
      /\ i = 2 => Head(s) = Do("failed", "stop") /\ Tail(s) = << >>
  BY <1>2, <1>5
<1>7. /\ i = 1 => Row(s, "cleanup", "next", "failed")
      /\ i = 2 => Row(s, "failed", "stop", "rest")
  BY <1>6 DEF Kind, Row, Do
<1> QED  BY <1>3, <1>7

\* The step of a build whose sandbox is gone.
LEMMA FailingList ==
  ASSUME NEW s \in Suffixes(Failing), s # << >>
  PROVE  /\ Tail(s) \in Suffixes(Failing)
         /\ \/ Row(s, "failed", "stop", "rest")
<1>1. IsList(Failing) /\ Len(Failing) = 1
  BY Lists DEF Failing
<1>2. /\ Failing[1] = Do("failed", "stop")
  BY DEF Failing
<1>3. Tail(s) \in Suffixes(Failing) /\ \E i \in 1..Len(Failing) : Begins(s, Failing, i)
  BY <1>1, Onward
<1>4. PICK i \in 1..1 : Begins(s, Failing, i)
  BY <1>1, <1>3
<1>5. /\ Head(s) = Failing[i]
      /\ i < 1 => Tail(s) # << >> /\ Head(Tail(s)) = Failing[i + 1]
      /\ i = 1 => Tail(s) = << >>
  BY <1>1, <1>4 DEF Begins
<1>6. /\ i = 1 => Head(s) = Do("failed", "stop") /\ Tail(s) = << >>
  BY <1>2, <1>5
<1>7. /\ i = 1 => Row(s, "failed", "stop", "rest")
  BY <1>6 DEF Kind, Row, Do
<1> QED  BY <1>3, <1>7

\* The steps of DeleteTemplate.
LEMMA DeleteList ==
  ASSUME NEW s \in Suffixes(DeleteSteps), s # << >>
  PROVE  /\ Tail(s) \in Suffixes(DeleteSteps)
         /\ \/ Row(s, "lookup", "stop", "delrow")
            \/ Row(s, "delrow", "stop", "rmdir")
            \/ Row(s, "rmdir", "stop", "rest")
<1>1. IsList(DeleteSteps) /\ Len(DeleteSteps) = 3
  BY Lists DEF DeleteSteps
<1>2. /\ DeleteSteps[1] = Do("lookup", "stop")
      /\ DeleteSteps[2] = Do("delrow", "stop")
      /\ DeleteSteps[3] = Do("rmdir", "stop")
  BY DEF DeleteSteps
<1>3. Tail(s) \in Suffixes(DeleteSteps) /\ \E i \in 1..Len(DeleteSteps) : Begins(s, DeleteSteps, i)
  BY <1>1, Onward
<1>4. PICK i \in 1..3 : Begins(s, DeleteSteps, i)
  BY <1>1, <1>3
<1>5. /\ Head(s) = DeleteSteps[i]
      /\ i < 3 => Tail(s) # << >> /\ Head(Tail(s)) = DeleteSteps[i + 1]
      /\ i = 3 => Tail(s) = << >>
  BY <1>1, <1>4 DEF Begins
<1>6. /\ i = 1 => Head(s) = Do("lookup", "stop") /\ Tail(s) # << >> /\ Head(Tail(s)) = Do("delrow", "stop")
      /\ i = 2 => Head(s) = Do("delrow", "stop") /\ Tail(s) # << >> /\ Head(Tail(s)) = Do("rmdir", "stop")
      /\ i = 3 => Head(s) = Do("rmdir", "stop") /\ Tail(s) = << >>
  BY <1>2, <1>5
<1>7. /\ i = 1 => Row(s, "lookup", "stop", "delrow")
      /\ i = 2 => Row(s, "delrow", "stop", "rmdir")
      /\ i = 3 => Row(s, "rmdir", "stop", "rest")
  BY <1>6 DEF Kind, Row, Do
<1> QED  BY <1>3, <1>7

\* The steps of ConvertTemplate.
LEMMA ConvertList ==
  ASSUME NEW s \in Suffixes(ConvertSteps), s # << >>
  PROVE  /\ Tail(s) \in Suffixes(ConvertSteps)
         /\ \/ Row(s, "lookup", "stop", "share")
            \/ Row(s, "share", "stop", "rest")
<1>1. IsList(ConvertSteps) /\ Len(ConvertSteps) = 2
  BY Lists DEF ConvertSteps
<1>2. /\ ConvertSteps[1] = Do("lookup", "stop")
      /\ ConvertSteps[2] = Do("share", "stop")
  BY DEF ConvertSteps
<1>3. Tail(s) \in Suffixes(ConvertSteps) /\ \E i \in 1..Len(ConvertSteps) : Begins(s, ConvertSteps, i)
  BY <1>1, Onward
<1>4. PICK i \in 1..2 : Begins(s, ConvertSteps, i)
  BY <1>1, <1>3
<1>5. /\ Head(s) = ConvertSteps[i]
      /\ i < 2 => Tail(s) # << >> /\ Head(Tail(s)) = ConvertSteps[i + 1]
      /\ i = 2 => Tail(s) = << >>
  BY <1>1, <1>4 DEF Begins
<1>6. /\ i = 1 => Head(s) = Do("lookup", "stop") /\ Tail(s) # << >> /\ Head(Tail(s)) = Do("share", "stop")
      /\ i = 2 => Head(s) = Do("share", "stop") /\ Tail(s) = << >>
  BY <1>2, <1>5
<1>7. /\ i = 1 => Row(s, "lookup", "stop", "share")
      /\ i = 2 => Row(s, "share", "stop", "rest")
  BY <1>6 DEF Kind, Row, Do
<1> QED  BY <1>3, <1>7

\* The steps of DeleteImage.
LEMMA UnimageList ==
  ASSUME NEW s \in Suffixes(UnimageSteps), s # << >>
  PROVE  /\ Tail(s) \in Suffixes(UnimageSteps)
         /\ \/ Row(s, "lookimage", "stop", "delimage")
            \/ Row(s, "delimage", "stop", "rmimage")
            \/ Row(s, "rmimage", "stop", "rest")
<1>1. IsList(UnimageSteps) /\ Len(UnimageSteps) = 3
  BY Lists DEF UnimageSteps
<1>2. /\ UnimageSteps[1] = Do("lookimage", "stop")
      /\ UnimageSteps[2] = Do("delimage", "stop")
      /\ UnimageSteps[3] = Do("rmimage", "stop")
  BY DEF UnimageSteps
<1>3. Tail(s) \in Suffixes(UnimageSteps) /\ \E i \in 1..Len(UnimageSteps) : Begins(s, UnimageSteps, i)
  BY <1>1, Onward
<1>4. PICK i \in 1..3 : Begins(s, UnimageSteps, i)
  BY <1>1, <1>3
<1>5. /\ Head(s) = UnimageSteps[i]
      /\ i < 3 => Tail(s) # << >> /\ Head(Tail(s)) = UnimageSteps[i + 1]
      /\ i = 3 => Tail(s) = << >>
  BY <1>1, <1>4 DEF Begins
<1>6. /\ i = 1 => Head(s) = Do("lookimage", "stop") /\ Tail(s) # << >> /\ Head(Tail(s)) = Do("delimage", "stop")
      /\ i = 2 => Head(s) = Do("delimage", "stop") /\ Tail(s) # << >> /\ Head(Tail(s)) = Do("rmimage", "stop")
      /\ i = 3 => Head(s) = Do("rmimage", "stop") /\ Tail(s) = << >>
  BY <1>2, <1>5
<1>7. /\ i = 1 => Row(s, "lookimage", "stop", "delimage")
      /\ i = 2 => Row(s, "delimage", "stop", "rmimage")
      /\ i = 3 => Row(s, "rmimage", "stop", "rest")
  BY <1>6 DEF Kind, Row, Do
<1> QED  BY <1>3, <1>7

\* The steps of an export before it knows the kind of its template.
LEMMA ExportBeginList ==
  ASSUME NEW s \in Suffixes(ExportBegin), s # << >>
  PROVE  /\ Tail(s) \in Suffixes(ExportBegin)
         /\ \/ Row(s, "imagefree", "stop", "lookup")
            \/ Row(s, "lookup", "stop", "rest")
<1>1. IsList(ExportBegin) /\ Len(ExportBegin) = 2
  BY Lists DEF ExportBegin
<1>2. /\ ExportBegin[1] = Do("imagefree", "stop")
      /\ ExportBegin[2] = Do("lookup", "stop")
  BY DEF ExportBegin
<1>3. Tail(s) \in Suffixes(ExportBegin) /\ \E i \in 1..Len(ExportBegin) : Begins(s, ExportBegin, i)
  BY <1>1, Onward
<1>4. PICK i \in 1..2 : Begins(s, ExportBegin, i)
  BY <1>1, <1>3
<1>5. /\ Head(s) = ExportBegin[i]
      /\ i < 2 => Tail(s) # << >> /\ Head(Tail(s)) = ExportBegin[i + 1]
      /\ i = 2 => Tail(s) = << >>
  BY <1>1, <1>4 DEF Begins
<1>6. /\ i = 1 => Head(s) = Do("imagefree", "stop") /\ Tail(s) # << >> /\ Head(Tail(s)) = Do("lookup", "stop")
      /\ i = 2 => Head(s) = Do("lookup", "stop") /\ Tail(s) = << >>
  BY <1>2, <1>5
<1>7. /\ i = 1 => Row(s, "imagefree", "stop", "lookup")
      /\ i = 2 => Row(s, "lookup", "stop", "rest")
  BY <1>6 DEF Kind, Row, Do
<1> QED  BY <1>3, <1>7

\* The steps of an export of a container's template.
LEMMA ExportDirList ==
  ASSUME NEW s \in Suffixes(ExportSteps("dir")), s # << >>
  PROVE  /\ Tail(s) \in Suffixes(ExportSteps("dir"))
         /\ \/ Row(s, "copydir", "stop", "own")
            \/ Row(s, "own", "stop", "rest")
<1>1. IsList(ExportSteps("dir")) /\ Len(ExportSteps("dir")) = 2
  BY Lists DEF ExportSteps
<1>2. /\ ExportSteps("dir")[1] = Do("copyout", "stop")
      /\ ExportSteps("dir")[2] = Do("own", "stop")
  BY DEF ExportSteps
<1>3. Tail(s) \in Suffixes(ExportSteps("dir")) /\ \E i \in 1..Len(ExportSteps("dir")) : Begins(s, ExportSteps("dir"), i)
  BY <1>1, Onward
<1>4. PICK i \in 1..2 : Begins(s, ExportSteps("dir"), i)
  BY <1>1, <1>3
<1>5. /\ Head(s) = ExportSteps("dir")[i]
      /\ i < 2 => Tail(s) # << >> /\ Head(Tail(s)) = ExportSteps("dir")[i + 1]
      /\ i = 2 => Tail(s) = << >>
  BY <1>1, <1>4 DEF Begins
<1>6. /\ i = 1 => Head(s) = Do("copyout", "stop") /\ Tail(s) # << >> /\ Head(Tail(s)) = Do("own", "stop")
      /\ i = 2 => Head(s) = Do("own", "stop") /\ Tail(s) = << >>
  BY <1>2, <1>5
<1>7. /\ i = 1 => Row(s, "copydir", "stop", "own")
      /\ i = 2 => Row(s, "own", "stop", "rest")
  BY <1>6 DEF Kind, Row, Do
<1> QED  BY <1>3, <1>7

\* The steps of an export of a VM's template.
LEMMA ExportVMList ==
  ASSUME NEW s \in Suffixes(ExportSteps("vm")), s # << >>
  PROVE  /\ Tail(s) \in Suffixes(ExportSteps("vm"))
         /\ \/ Row(s, "memfiles", "stop", "shim")
            \/ Row(s, "shim", "stop", "pick")
            \/ Row(s, "pick", "stop", "net")
            \/ Row(s, "net", "stop", "workcopy")
            \/ Row(s, "workcopy", "stop", "aside")
            \/ Row(s, "aside", "undo", "swap")
            \/ Row(s, "swap", "unswap", "resume")
            \/ Row(s, "resume", "restore", "halt")
            \/ Row(s, "halt", "restore", "copyout")
            \/ Row(s, "copyout", "restore", "unlink")
            \/ Row(s, "unlink", "retry", "putback")
            \/ Row(s, "putback", "retry", "cleanup")
            \/ Row(s, "cleanup", "next", "own")
            \/ Row(s, "own", "stop", "rest")
<1>1. IsList(ExportSteps("vm")) /\ Len(ExportSteps("vm")) = 14
  BY Lists DEF ExportSteps
<1>2. /\ ExportSteps("vm")[1] = Do("memfiles", "stop")
      /\ ExportSteps("vm")[2] = Do("shim", "stop")
      /\ ExportSteps("vm")[3] = Do("pick", "stop")
      /\ ExportSteps("vm")[4] = Do("net", "stop")
      /\ ExportSteps("vm")[5] = Do("workcopy", "stop")
      /\ ExportSteps("vm")[6] = Do("aside", "undo")
      /\ ExportSteps("vm")[7] = Do("swap", "unswap")
      /\ ExportSteps("vm")[8] = Do("resume", "restore")
      /\ ExportSteps("vm")[9] = Do("halt", "restore")
      /\ ExportSteps("vm")[10] = Do("copyout", "restore")
      /\ ExportSteps("vm")[11] = Do("unlink", "retry")
      /\ ExportSteps("vm")[12] = Do("putback", "retry")
      /\ ExportSteps("vm")[13] = Do("cleanup", "next")
      /\ ExportSteps("vm")[14] = Do("own", "stop")
  BY DEF ExportSteps
<1>3. Tail(s) \in Suffixes(ExportSteps("vm")) /\ \E i \in 1..Len(ExportSteps("vm")) : Begins(s, ExportSteps("vm"), i)
  BY <1>1, Onward
<1>4. PICK i \in 1..14 : Begins(s, ExportSteps("vm"), i)
  BY <1>1, <1>3
<1>5. /\ Head(s) = ExportSteps("vm")[i]
      /\ i < 14 => Tail(s) # << >> /\ Head(Tail(s)) = ExportSteps("vm")[i + 1]
      /\ i = 14 => Tail(s) = << >>
  BY <1>1, <1>4 DEF Begins
<1>6. /\ i = 1 => Head(s) = Do("memfiles", "stop") /\ Tail(s) # << >> /\ Head(Tail(s)) = Do("shim", "stop")
      /\ i = 2 => Head(s) = Do("shim", "stop") /\ Tail(s) # << >> /\ Head(Tail(s)) = Do("pick", "stop")
      /\ i = 3 => Head(s) = Do("pick", "stop") /\ Tail(s) # << >> /\ Head(Tail(s)) = Do("net", "stop")
      /\ i = 4 => Head(s) = Do("net", "stop") /\ Tail(s) # << >> /\ Head(Tail(s)) = Do("workcopy", "stop")
      /\ i = 5 => Head(s) = Do("workcopy", "stop") /\ Tail(s) # << >> /\ Head(Tail(s)) = Do("aside", "undo")
      /\ i = 6 => Head(s) = Do("aside", "undo") /\ Tail(s) # << >> /\ Head(Tail(s)) = Do("swap", "unswap")
      /\ i = 7 => Head(s) = Do("swap", "unswap") /\ Tail(s) # << >> /\ Head(Tail(s)) = Do("resume", "restore")
      /\ i = 8 => Head(s) = Do("resume", "restore") /\ Tail(s) # << >> /\ Head(Tail(s)) = Do("halt", "restore")
      /\ i = 9 => Head(s) = Do("halt", "restore") /\ Tail(s) # << >> /\ Head(Tail(s)) = Do("copyout", "restore")
      /\ i = 10 => Head(s) = Do("copyout", "restore") /\ Tail(s) # << >> /\ Head(Tail(s)) = Do("unlink", "retry")
      /\ i = 11 => Head(s) = Do("unlink", "retry") /\ Tail(s) # << >> /\ Head(Tail(s)) = Do("putback", "retry")
      /\ i = 12 => Head(s) = Do("putback", "retry") /\ Tail(s) # << >> /\ Head(Tail(s)) = Do("cleanup", "next")
      /\ i = 13 => Head(s) = Do("cleanup", "next") /\ Tail(s) # << >> /\ Head(Tail(s)) = Do("own", "stop")
      /\ i = 14 => Head(s) = Do("own", "stop") /\ Tail(s) = << >>
  BY SMTT(30), <1>2, <1>5
<1>7. /\ i = 1 => Row(s, "memfiles", "stop", "shim")
      /\ i = 2 => Row(s, "shim", "stop", "pick")
      /\ i = 3 => Row(s, "pick", "stop", "net")
      /\ i = 4 => Row(s, "net", "stop", "workcopy")
      /\ i = 5 => Row(s, "workcopy", "stop", "aside")
      /\ i = 6 => Row(s, "aside", "undo", "swap")
      /\ i = 7 => Row(s, "swap", "unswap", "resume")
      /\ i = 8 => Row(s, "resume", "restore", "halt")
      /\ i = 9 => Row(s, "halt", "restore", "copyout")
      /\ i = 10 => Row(s, "copyout", "restore", "unlink")
      /\ i = 11 => Row(s, "unlink", "retry", "putback")
      /\ i = 12 => Row(s, "putback", "retry", "cleanup")
      /\ i = 13 => Row(s, "cleanup", "next", "own")
      /\ i = 14 => Row(s, "own", "stop", "rest")
  BY <1>6 DEF Kind, Row, Do
<1> QED  BY <1>3, <1>7

\* The steps of an export that puts the rootfs back.
LEMMA RestoreList ==
  ASSUME NEW s \in Suffixes(Restore), s # << >>
  PROVE  /\ Tail(s) \in Suffixes(Restore)
         /\ \/ Row(s, "unlink", "retry", "putback")
            \/ Row(s, "putback", "retry", "rest")
<1>1. IsList(Restore) /\ Len(Restore) = 2
  BY Lists DEF Restore
<1>2. /\ Restore[1] = Do("unlink", "retry")
      /\ Restore[2] = Do("putback", "retry")
  BY DEF Restore
<1>3. Tail(s) \in Suffixes(Restore) /\ \E i \in 1..Len(Restore) : Begins(s, Restore, i)
  BY <1>1, Onward
<1>4. PICK i \in 1..2 : Begins(s, Restore, i)
  BY <1>1, <1>3
<1>5. /\ Head(s) = Restore[i]
      /\ i < 2 => Tail(s) # << >> /\ Head(Tail(s)) = Restore[i + 1]
      /\ i = 2 => Tail(s) = << >>
  BY <1>1, <1>4 DEF Begins
<1>6. /\ i = 1 => Head(s) = Do("unlink", "retry") /\ Tail(s) # << >> /\ Head(Tail(s)) = Do("putback", "retry")
      /\ i = 2 => Head(s) = Do("putback", "retry") /\ Tail(s) = << >>
  BY <1>2, <1>5
<1>7. /\ i = 1 => Row(s, "unlink", "retry", "putback")
      /\ i = 2 => Row(s, "putback", "retry", "rest")
  BY <1>6 DEF Kind, Row, Do
<1> QED  BY <1>3, <1>7

\* The steps of an export that could not move the rootfs aside.
LEMMA UndoneList ==
  ASSUME NEW s \in Suffixes(Undone), s # << >>
  PROVE  /\ Tail(s) \in Suffixes(Undone)
         /\ \/ Row(s, "dropwork", "next", "unlink")
            \/ Row(s, "unlink", "next", "putback")
            \/ Row(s, "putback", "next", "dropwork")
            \/ Row(s, "dropwork", "next", "rest")
<1>1. IsList(Undone) /\ Len(Undone) = 4
  BY Lists DEF Undone
<1>2. /\ Undone[1] = Do("dropwork", "next")
      /\ Undone[2] = Do("unlink", "next")
      /\ Undone[3] = Do("putback", "next")
      /\ Undone[4] = Do("dropwork", "next")
  BY DEF Undone
<1>3. Tail(s) \in Suffixes(Undone) /\ \E i \in 1..Len(Undone) : Begins(s, Undone, i)
  BY <1>1, Onward
<1>4. PICK i \in 1..4 : Begins(s, Undone, i)
  BY <1>1, <1>3
<1>5. /\ Head(s) = Undone[i]
      /\ i < 4 => Tail(s) # << >> /\ Head(Tail(s)) = Undone[i + 1]
      /\ i = 4 => Tail(s) = << >>
  BY <1>1, <1>4 DEF Begins
<1>6. /\ i = 1 => Head(s) = Do("dropwork", "next") /\ Tail(s) # << >> /\ Head(Tail(s)) = Do("unlink", "next")
      /\ i = 2 => Head(s) = Do("unlink", "next") /\ Tail(s) # << >> /\ Head(Tail(s)) = Do("putback", "next")
      /\ i = 3 => Head(s) = Do("putback", "next") /\ Tail(s) # << >> /\ Head(Tail(s)) = Do("dropwork", "next")
      /\ i = 4 => Head(s) = Do("dropwork", "next") /\ Tail(s) = << >>
  BY <1>2, <1>5
<1>7. /\ i = 1 => Row(s, "dropwork", "next", "unlink")
      /\ i = 2 => Row(s, "unlink", "next", "putback")
      /\ i = 3 => Row(s, "putback", "next", "dropwork")
      /\ i = 4 => Row(s, "dropwork", "next", "rest")
  BY <1>6 DEF Kind, Row, Do
<1> QED  BY <1>3, <1>7

\* The steps of an export that has only moved the rootfs aside.
LEMMA UnswappedList ==
  ASSUME NEW s \in Suffixes(Unswapped), s # << >>
  PROVE  /\ Tail(s) \in Suffixes(Unswapped)
         /\ \/ Row(s, "putback", "next", "unlink")
            \/ Row(s, "unlink", "next", "putback")
            \/ Row(s, "putback", "next", "dropwork")
            \/ Row(s, "dropwork", "next", "rest")
<1>1. IsList(Unswapped) /\ Len(Unswapped) = 4
  BY Lists DEF Unswapped
<1>2. /\ Unswapped[1] = Do("putback", "next")
      /\ Unswapped[2] = Do("unlink", "next")
      /\ Unswapped[3] = Do("putback", "next")
      /\ Unswapped[4] = Do("dropwork", "next")
  BY DEF Unswapped
<1>3. Tail(s) \in Suffixes(Unswapped) /\ \E i \in 1..Len(Unswapped) : Begins(s, Unswapped, i)
  BY <1>1, Onward
<1>4. PICK i \in 1..4 : Begins(s, Unswapped, i)
  BY <1>1, <1>3
<1>5. /\ Head(s) = Unswapped[i]
      /\ i < 4 => Tail(s) # << >> /\ Head(Tail(s)) = Unswapped[i + 1]
      /\ i = 4 => Tail(s) = << >>
  BY <1>1, <1>4 DEF Begins
<1>6. /\ i = 1 => Head(s) = Do("putback", "next") /\ Tail(s) # << >> /\ Head(Tail(s)) = Do("unlink", "next")
      /\ i = 2 => Head(s) = Do("unlink", "next") /\ Tail(s) # << >> /\ Head(Tail(s)) = Do("putback", "next")
      /\ i = 3 => Head(s) = Do("putback", "next") /\ Tail(s) # << >> /\ Head(Tail(s)) = Do("dropwork", "next")
      /\ i = 4 => Head(s) = Do("dropwork", "next") /\ Tail(s) = << >>
  BY <1>2, <1>5
<1>7. /\ i = 1 => Row(s, "putback", "next", "unlink")
      /\ i = 2 => Row(s, "unlink", "next", "putback")
      /\ i = 3 => Row(s, "putback", "next", "dropwork")
      /\ i = 4 => Row(s, "dropwork", "next", "rest")
  BY <1>6 DEF Kind, Row, Do
<1> QED  BY <1>3, <1>7

\* The steps of an export whose first restore has failed.
LEMMA DeferredList ==
  ASSUME NEW s \in Suffixes(Deferred), s # << >>
  PROVE  /\ Tail(s) \in Suffixes(Deferred)
         /\ \/ Row(s, "unlink", "next", "putback")
            \/ Row(s, "putback", "next", "dropwork")
            \/ Row(s, "dropwork", "next", "rest")
<1>1. IsList(Deferred) /\ Len(Deferred) = 3
  BY Lists DEF Deferred
<1>2. /\ Deferred[1] = Do("unlink", "next")
      /\ Deferred[2] = Do("putback", "next")
      /\ Deferred[3] = Do("dropwork", "next")
  BY DEF Deferred
<1>3. Tail(s) \in Suffixes(Deferred) /\ \E i \in 1..Len(Deferred) : Begins(s, Deferred, i)
  BY <1>1, Onward
<1>4. PICK i \in 1..3 : Begins(s, Deferred, i)
  BY <1>1, <1>3
<1>5. /\ Head(s) = Deferred[i]
      /\ i < 3 => Tail(s) # << >> /\ Head(Tail(s)) = Deferred[i + 1]
      /\ i = 3 => Tail(s) = << >>
  BY <1>1, <1>4 DEF Begins
<1>6. /\ i = 1 => Head(s) = Do("unlink", "next") /\ Tail(s) # << >> /\ Head(Tail(s)) = Do("putback", "next")
      /\ i = 2 => Head(s) = Do("putback", "next") /\ Tail(s) # << >> /\ Head(Tail(s)) = Do("dropwork", "next")
      /\ i = 3 => Head(s) = Do("dropwork", "next") /\ Tail(s) = << >>
  BY <1>2, <1>5
<1>7. /\ i = 1 => Row(s, "unlink", "next", "putback")
      /\ i = 2 => Row(s, "putback", "next", "dropwork")
      /\ i = 3 => Row(s, "dropwork", "next", "rest")
  BY <1>6 DEF Kind, Row, Do
<1> QED  BY <1>3, <1>7

\* The steps of an export that has its image and did not restore at first.
LEMMA LateList ==
  ASSUME NEW s \in Suffixes(Late), s # << >>
  PROVE  /\ Tail(s) \in Suffixes(Late)
         /\ \/ Row(s, "unlink", "next", "putback")
            \/ Row(s, "putback", "next", "dropwork")
            \/ Row(s, "dropwork", "next", "cleanup")
            \/ Row(s, "cleanup", "next", "rest")
<1>1. IsList(Late) /\ Len(Late) = 4
  BY Lists DEF Late
<1>2. /\ Late[1] = Do("unlink", "next")
      /\ Late[2] = Do("putback", "next")
      /\ Late[3] = Do("dropwork", "next")
      /\ Late[4] = Do("cleanup", "next")
  BY DEF Late
<1>3. Tail(s) \in Suffixes(Late) /\ \E i \in 1..Len(Late) : Begins(s, Late, i)
  BY <1>1, Onward
<1>4. PICK i \in 1..4 : Begins(s, Late, i)
  BY <1>1, <1>3
<1>5. /\ Head(s) = Late[i]
      /\ i < 4 => Tail(s) # << >> /\ Head(Tail(s)) = Late[i + 1]
      /\ i = 4 => Tail(s) = << >>
  BY <1>1, <1>4 DEF Begins
<1>6. /\ i = 1 => Head(s) = Do("unlink", "next") /\ Tail(s) # << >> /\ Head(Tail(s)) = Do("putback", "next")
      /\ i = 2 => Head(s) = Do("putback", "next") /\ Tail(s) # << >> /\ Head(Tail(s)) = Do("dropwork", "next")
      /\ i = 3 => Head(s) = Do("dropwork", "next") /\ Tail(s) # << >> /\ Head(Tail(s)) = Do("cleanup", "next")
      /\ i = 4 => Head(s) = Do("cleanup", "next") /\ Tail(s) = << >>
  BY <1>2, <1>5
<1>7. /\ i = 1 => Row(s, "unlink", "next", "putback")
      /\ i = 2 => Row(s, "putback", "next", "dropwork")
      /\ i = 3 => Row(s, "dropwork", "next", "cleanup")
      /\ i = 4 => Row(s, "cleanup", "next", "rest")
  BY <1>6 DEF Kind, Row, Do
<1> QED  BY <1>3, <1>7

-----------------------------------------------------------------------------
(***************************************************************************)
(* What a call does next                                                   *)
(***************************************************************************)
\* After a step of kind k the call's next step is of kind l.
Goes(op, ok, k, l) ==
  \/ op = "new" /\ \/ k = "ensure" /\ l \in {"addrow", "addbuild", "rest"}
                   \/ k = "addrow" /\ l \in {"addbuild", "rest"}
                   \/ k = "addbuild" /\ l = "rest"
  \/ op = "build" /\ \/ k = "load" /\ l \in {"claim", "rest"}
                     \/ k = "claim" /\ l \in {"paths", "rest"}
                     \/ k = "paths" /\ l \in {"materialize", "failed"}
                     \/ k = "materialize" /\ l \in {"inject", "failed"}
                     \/ k = "inject" /\ l \in {"shim", "failed"}
                     \/ k = "shim" /\ l \in {"pick", "cleanup"}
                     \/ k = "pick" /\ l \in {"net", "cleanup"}
                     \/ k = "net" /\ l \in {"create", "cleanup"}
                     \/ k = "create" /\ l \in {"commands", "cleanup"}
                     \/ k = "commands" /\ l \in {"seal", "cleanup"}
                     \/ k = "seal" /\ l = "cleanup"
                     \/ k = "cleanup" /\ l \in {"record", "failed"}
                     \/ k = "record" /\ l \in {"ready", "failed"}
                     \/ k \in {"ready", "failed"} /\ l = "rest"
  \/ op = "delete" /\ \/ k = "lookup" /\ l \in {"delrow", "rest"}
                      \/ k = "delrow" /\ l \in {"rmdir", "rest"}
                      \/ k = "rmdir" /\ l = "rest"
  \/ op = "convert" /\ \/ k = "lookup" /\ l \in {"share", "rest"}
                       \/ k = "share" /\ l = "rest"
  \/ op = "unimage" /\ \/ k = "lookimage" /\ l \in {"delimage", "rest"}
                       \/ k = "delimage" /\ l \in {"rmimage", "rest"}
                       \/ k = "rmimage" /\ l = "rest"
  \/ op = "export" /\ \/ k = "imagefree" /\ l \in {"lookup", "rest"}
                      \/ k = "lookup" /\ l \in {"memfiles", "copydir", "rest"}
                      \/ k = "memfiles" /\ l \in {"shim", "rest"}
                      \/ k = "shim" /\ l \in {"pick", "rest"}
                      \/ k = "pick" /\ l \in {"net", "rest"}
                      \/ k = "net" /\ l \in {"workcopy", "rest"}
                      \/ k = "workcopy" /\ l \in {"aside", "rest"}
                      \/ k = "aside" /\ l \in {"swap", "dropwork"}
                      \/ k = "swap" /\ l \in {"resume", "putback"}
                      \/ k = "resume" /\ l \in {"halt", "unlink"}
                      \/ k = "halt" /\ l \in {"copyout", "unlink"}
                      \/ k = "copyout" /\ l = "unlink"
                      \/ k = "copydir" /\ l \in {"own", "rest"}
                      \/ k = "unlink" /\ l \in {"putback", "unlink"}
                      \/ k = "putback" /\ l \in {"cleanup", "unlink", "dropwork"} \cup (IF ok THEN {} ELSE {"rest"})
                      \/ k = "dropwork" /\ l \in (IF ok THEN {"cleanup"} ELSE {"unlink", "rest"})
                      \/ k = "cleanup" /\ l \in {"own", "rest"}
                      \/ k = "own" /\ l = "rest"

\* The kinds of the lists that a step which fails leaves.
LEMMA FailKinds ==
  /\ Kind(<< >>) = "rest" /\ Kind(Failing) = "failed" /\ Kind(Clearing) = "cleanup"
  /\ Kind(Restore) = "unlink" /\ Kind(Undone) = "dropwork" /\ Kind(Unswapped) = "putback"
  /\ Kind(Late) = "unlink" /\ Kind(Deferred) = "unlink"
  /\ Kind(BuildSteps) = "materialize" /\ Kind(ClaimSteps) = "load" /\ Kind(NewSteps) = "ensure"
  /\ Kind(DeleteSteps) = "lookup" /\ Kind(ConvertSteps) = "lookup" /\ Kind(UnimageSteps) = "lookimage"
  /\ Kind(ExportBegin) = "imagefree" /\ Kind(ExportSteps("vm")) = "memfiles"
  /\ Kind(ExportSteps("dir")) = "copydir"
<1>1. /\ Kind(<< >>) = "rest" /\ Kind(Failing) = "failed" /\ Kind(Clearing) = "cleanup"
      /\ Kind(Restore) = "unlink" /\ Kind(Undone) = "dropwork" /\ Kind(Unswapped) = "putback"
      /\ Kind(Late) = "unlink" /\ Kind(Deferred) = "unlink"
  BY DEF Kind, Do, Failing, Clearing, Restore, Undone, Unswapped, Late, Deferred
<1>2. /\ Kind(ClaimSteps) = "load" /\ Kind(NewSteps) = "ensure"
      /\ Kind(DeleteSteps) = "lookup" /\ Kind(ConvertSteps) = "lookup"
      /\ Kind(UnimageSteps) = "lookimage" /\ Kind(ExportBegin) = "imagefree"
  BY DEF Kind, Do, ClaimSteps, NewSteps, DeleteSteps, ConvertSteps, UnimageSteps, ExportBegin
<1>3. Kind(BuildSteps) = "materialize"
  BY DEF Kind, Do, BuildSteps
<1>4. Kind(ExportSteps("vm")) = "memfiles" /\ Kind(ExportSteps("dir")) = "copydir"
  BY DEF Kind, Do, ExportSteps
<1> QED  BY <1>1, <1>2, <1>3, <1>4

\* The lists of an operation, one by one.
LEMMA TodosOf ==
  /\ \A op, ok, p, s : p \in Plans(op, ok) /\ s \in Suffixes(p) => s \in Todos(op, ok)
  /\ \A op, ok, s : s \in Todos(op, ok) => \E p \in Plans(op, ok) : s \in Suffixes(p)
BY DEF Todos

\* Nothing and each list that a failed step leaves is among the lists of its operation.
LEMMA Leaves ==
  /\ \A ok : \A op \in OpNames \cup {"idle"} : << >> \in Todos(op, ok)
  /\ \A ok : {NewSteps} \subseteq Todos("new", ok)
  /\ \A ok : {ClaimSteps, BuildSteps, Clearing, Failing} \subseteq Todos("build", ok)
  /\ \A ok : DeleteSteps \in Todos("delete", ok)
  /\ \A ok : ConvertSteps \in Todos("convert", ok)
  /\ \A ok : UnimageSteps \in Todos("unimage", ok)
  /\ {ExportBegin, ExportSteps("vm"), ExportSteps("dir"), Restore, Undone, Unswapped, Deferred}
       \subseteq Todos("export", FALSE)
  /\ Late \in Todos("export", TRUE)
<1>1. /\ IsList(NewSteps) /\ IsList(ClaimSteps) /\ IsList(BuildSteps) /\ IsList(Clearing)
      /\ IsList(Failing) /\ IsList(DeleteSteps) /\ IsList(ConvertSteps) /\ IsList(UnimageSteps)
      /\ IsList(ExportBegin) /\ IsList(Restore) /\ IsList(Undone) /\ IsList(Unswapped)
      /\ IsList(Deferred) /\ IsList(Late)
  BY Lists DEF NewSteps, ClaimSteps, BuildSteps, Clearing, Failing, DeleteSteps, ConvertSteps,
               UnimageSteps, ExportBegin, Restore, Undone, Unswapped, Deferred, Late
<1>2. IsList(ExportSteps("vm")) /\ IsList(ExportSteps("dir")) /\ IsList(<< >>)
  <2>1. << >> \in Seq({})
    OBVIOUS
  <2> QED  BY <2>1, Lists DEF ExportSteps, IsList
<1>3. \A ok : \A op \in OpNames \cup {"idle"} : \A p \in Plans(op, ok) : p \in Todos(op, ok) /\ << >> \in Todos(op, ok)
  <2> SUFFICES ASSUME NEW op \in OpNames \cup {"idle"}, NEW ok, NEW p \in Plans(op, ok)
               PROVE  p \in Todos(op, ok) /\ << >> \in Todos(op, ok)
    OBVIOUS
  <2>1. IsList(p)
    BY <1>1, <1>2 DEF Plans, OpNames
  <2> QED  BY <2>1, Whole, TodosOf
<1>4. /\ \A ok : \A op \in OpNames \cup {"idle"} : \E p : p \in Plans(op, ok)
      /\ \A ok : /\ NewSteps \in Plans("new", ok) /\ DeleteSteps \in Plans("delete", ok)
                 /\ ConvertSteps \in Plans("convert", ok) /\ UnimageSteps \in Plans("unimage", ok)
                 /\ {ClaimSteps, BuildSteps, Clearing, Failing} = Plans("build", ok)
      /\ Late \in Plans("export", TRUE)
      /\ {ExportBegin, ExportSteps("vm"), ExportSteps("dir"), Restore, Undone, Unswapped, Deferred}
         = Plans("export", FALSE)
  BY DEF Plans, OpNames
<1> QED  BY <1>3, <1>4 DEF OpNames

\* What a failed step leaves is a list of its operation.
LEMMA Undoes ==
  ASSUME NEW c, NEW err
  PROVE  /\ err = "stop" => Undo(c, err) = << >>
         /\ err = "next" => Undo(c, err) = Rest(c)
         /\ err = "unclaim" => Undo(c, err) = Failing
         /\ err = "cleanup" => Undo(c, err) = Clearing
         /\ err = "restore" => Undo(c, err) = Restore
         /\ err = "undo" => Undo(c, err) = Undone
         /\ err = "unswap" => Undo(c, err) = Unswapped
         /\ err = "retry" /\ call[c].ok => Undo(c, err) = Late
         /\ err = "retry" /\ ~call[c].ok => Undo(c, err) = Deferred
BY DEF Undo, Rest, Failing, Clearing

\* The steps of a build.
LEMMA BuildMoves ==
  ASSUME NEW c, call[c].op = "build", NEW ok, call[c].todo \in Todos("build", ok), Active(c)
  PROVE  /\ Rest(c) \in Todos("build", ok) /\ Err(c) \in Todos("build", ok)
         /\ Doing(c) # "paths" => Goes("build", ok, Doing(c), Kind(Rest(c)))
         /\ Goes("build", ok, Doing(c), Kind(Err(c)))
         /\ Doing(c) = "claim" => Kind(Rest(c)) = "paths"
         /\ Doing(c) = "record" => Kind(Err(c)) = "failed"
         /\ Doing(c) \in {"pick", "net"} => Kind(Err(c)) = "cleanup"
<1> DEFINE s == call[c].todo
<1>1. PICK p \in Plans("build", ok) : s \in Suffixes(p)
  BY TodosOf
<1>2. s # << >> /\ p \in {ClaimSteps, BuildSteps, Clearing, Failing}
  BY DEF Active, Plans
<1>3. \/ Row(s, "load", "stop", "claim") \/ Row(s, "claim", "stop", "paths") \/ Row(s, "paths", "unclaim", "rest")
      \/ Row(s, "materialize", "unclaim", "inject") \/ Row(s, "inject", "unclaim", "shim")
      \/ Row(s, "shim", "cleanup", "pick") \/ Row(s, "pick", "cleanup", "net")
      \/ Row(s, "net", "cleanup", "create") \/ Row(s, "create", "cleanup", "commands")
      \/ Row(s, "commands", "cleanup", "seal") \/ Row(s, "seal", "cleanup", "cleanup")
      \/ Row(s, "cleanup", "next", "record") \/ Row(s, "record", "unclaim", "ready")
      \/ Row(s, "ready", "stop", "rest")
      \/ Row(s, "cleanup", "next", "failed") \/ Row(s, "failed", "stop", "rest")
  BY <1>1, <1>2, ClaimList, BuildList, ClearingList, FailingList
<1>4. Tail(s) \in Suffixes(p)
  BY <1>1, <1>2, ClaimList, BuildList, ClearingList, FailingList
<1>5. Rest(c) \in Todos("build", ok) /\ Rest(c) = Tail(s)
  BY <1>4, TodosOf DEF Rest
<1>6. /\ Head(s).err = "stop" => Err(c) = << >>
      /\ Head(s).err = "next" => Err(c) = Rest(c)
      /\ Head(s).err = "unclaim" => Err(c) = Failing
      /\ Head(s).err = "cleanup" => Err(c) = Clearing
  BY Undoes DEF Err
<1>7. {<< >>, Failing, Clearing} \subseteq Todos("build", ok)
  BY Leaves DEF OpNames
<1>8. Err(c) \in Todos("build", ok)
  BY <1>3, <1>5, <1>6, <1>7 DEF Row
<1>9. /\ Head(s).err = "stop" => Kind(Err(c)) = "rest"
      /\ Head(s).err = "next" => Kind(Err(c)) = Kind(Tail(s))
      /\ Head(s).err = "unclaim" => Kind(Err(c)) = "failed"
      /\ Head(s).err = "cleanup" => Kind(Err(c)) = "cleanup"
  BY <1>5, <1>6, FailKinds
<1>10. Doing(c) = Kind(s) /\ Kind(Rest(c)) = Kind(Tail(s))
  BY <1>5 DEF Doing
<1> HIDE DEF s
<1> QED  BY <1>3, <1>5, <1>8, <1>9, <1>10 DEF Row, Goes

\* The steps of CreateTemplateV3 once more, for its call.
LEMMA NewMoves ==
  ASSUME NEW c, call[c].op = "new", NEW ok, call[c].todo \in Todos("new", ok), Active(c)
  PROVE  /\ Rest(c) \in Todos("new", ok) /\ Err(c) \in Todos("new", ok)
         /\ Goes("new", ok, Doing(c), Kind(Rest(c)))
         /\ Goes("new", ok, Doing(c), Kind(Err(c)))
         /\ Doing(c) = "ensure" => Tail(Rest(c)) \in Todos("new", ok) /\ Kind(Tail(Rest(c))) = "addbuild"
<1> DEFINE s == call[c].todo
<1>1. s # << >> /\ s \in Suffixes(NewSteps)
  BY TodosOf DEF Active, Plans
<1>2. \/ Row(s, "ensure", "stop", "addrow")
      \/ Row(s, "addrow", "stop", "addbuild")
      \/ Row(s, "addbuild", "stop", "rest")
  BY <1>1, NewList
<1>3. Rest(c) = Tail(s) /\ Rest(c) \in Todos("new", ok)
  BY <1>1, NewList, TodosOf DEF Rest, Plans
<1>4. Err(c) = << >>
  BY <1>2, Undoes DEF Err, Row
<1>5. Kind(Err(c)) = "rest" /\ Err(c) \in Todos("new", ok)
  BY <1>4, FailKinds, Leaves DEF OpNames
<1>6. Doing(c) = Kind(s)
  BY DEF Doing
<1>7. Rest(c) \in Suffixes(NewSteps)
  BY <1>1, <1>3, NewList
<1>8. ASSUME Doing(c) = "ensure"
       PROVE  Tail(Rest(c)) \in Todos("new", ok) /\ Kind(Tail(Rest(c))) = "addbuild"
  <2>1. Kind(Rest(c)) = "addrow" /\ Rest(c) # << >>
    BY <1>2, <1>3, <1>6, <1>8 DEF Row, Kind
  <2>2. Tail(Rest(c)) \in Suffixes(NewSteps)
    BY <1>7, <2>1, NewList
  <2>3. Kind(Tail(Rest(c))) = "addbuild"
    BY <1>7, <2>1, NewList DEF Row
  <2> QED  BY <2>2, <2>3, TodosOf DEF Plans
<1> HIDE DEF s
<1> QED  BY <1>2, <1>3, <1>5, <1>6, <1>8 DEF Row, Goes

\* The steps of DeleteTemplate once more.
LEMMA DeleteMoves ==
  ASSUME NEW c, call[c].op = "delete", NEW ok, call[c].todo \in Todos("delete", ok), Active(c)
  PROVE  /\ Rest(c) \in Todos("delete", ok) /\ Err(c) \in Todos("delete", ok)
         /\ Goes("delete", ok, Doing(c), Kind(Rest(c)))
         /\ Goes("delete", ok, Doing(c), Kind(Err(c)))
<1> DEFINE s == call[c].todo
<1>1. s # << >> /\ s \in Suffixes(DeleteSteps)
  BY TodosOf DEF Active, Plans
<1>2. \/ Row(s, "lookup", "stop", "delrow")
      \/ Row(s, "delrow", "stop", "rmdir")
      \/ Row(s, "rmdir", "stop", "rest")
  BY <1>1, DeleteList
<1>3. Rest(c) = Tail(s) /\ Rest(c) \in Todos("delete", ok)
  BY <1>1, DeleteList, TodosOf DEF Rest, Plans
<1>4. Err(c) = << >>
  BY <1>2, Undoes DEF Err, Row
<1>5. Kind(Err(c)) = "rest" /\ Err(c) \in Todos("delete", ok)
  BY <1>4, FailKinds, Leaves DEF OpNames
<1>6. Doing(c) = Kind(s)
  BY DEF Doing
<1> HIDE DEF s
<1> QED  BY <1>2, <1>3, <1>5, <1>6 DEF Row, Goes

\* The steps of ConvertTemplate once more.
LEMMA ConvertMoves ==
  ASSUME NEW c, call[c].op = "convert", NEW ok, call[c].todo \in Todos("convert", ok), Active(c)
  PROVE  /\ Rest(c) \in Todos("convert", ok) /\ Err(c) \in Todos("convert", ok)
         /\ Goes("convert", ok, Doing(c), Kind(Rest(c)))
         /\ Goes("convert", ok, Doing(c), Kind(Err(c)))
<1> DEFINE s == call[c].todo
<1>1. s # << >> /\ s \in Suffixes(ConvertSteps)
  BY TodosOf DEF Active, Plans
<1>2. \/ Row(s, "lookup", "stop", "share")
      \/ Row(s, "share", "stop", "rest")
  BY <1>1, ConvertList
<1>3. Rest(c) = Tail(s) /\ Rest(c) \in Todos("convert", ok)
  BY <1>1, ConvertList, TodosOf DEF Rest, Plans
<1>4. Err(c) = << >>
  BY <1>2, Undoes DEF Err, Row
<1>5. Kind(Err(c)) = "rest" /\ Err(c) \in Todos("convert", ok)
  BY <1>4, FailKinds, Leaves DEF OpNames
<1>6. Doing(c) = Kind(s)
  BY DEF Doing
<1> HIDE DEF s
<1> QED  BY <1>2, <1>3, <1>5, <1>6 DEF Row, Goes

\* The steps of DeleteImage once more.
LEMMA UnimageMoves ==
  ASSUME NEW c, call[c].op = "unimage", NEW ok, call[c].todo \in Todos("unimage", ok), Active(c)
  PROVE  /\ Rest(c) \in Todos("unimage", ok) /\ Err(c) \in Todos("unimage", ok)
         /\ Goes("unimage", ok, Doing(c), Kind(Rest(c)))
         /\ Goes("unimage", ok, Doing(c), Kind(Err(c)))
<1> DEFINE s == call[c].todo
<1>1. s # << >> /\ s \in Suffixes(UnimageSteps)
  BY TodosOf DEF Active, Plans
<1>2. \/ Row(s, "lookimage", "stop", "delimage")
      \/ Row(s, "delimage", "stop", "rmimage")
      \/ Row(s, "rmimage", "stop", "rest")
  BY <1>1, UnimageList
<1>3. Rest(c) = Tail(s) /\ Rest(c) \in Todos("unimage", ok)
  BY <1>1, UnimageList, TodosOf DEF Rest, Plans
<1>4. Err(c) = << >>
  BY <1>2, Undoes DEF Err, Row
<1>5. Kind(Err(c)) = "rest" /\ Err(c) \in Todos("unimage", ok)
  BY <1>4, FailKinds, Leaves DEF OpNames
<1>6. Doing(c) = Kind(s)
  BY DEF Doing
<1> HIDE DEF s
<1> QED  BY <1>2, <1>3, <1>5, <1>6 DEF Row, Goes

\* The steps of an export; the copy leaves what an export that has its image has left.
LEMMA ExportMoves ==
  ASSUME NEW c, call[c].op = "export", call[c].ok \in BOOLEAN,
         call[c].todo \in Todos("export", call[c].ok), Active(c)
  PROVE  /\ Rest(c) \in Todos("export", call[c].ok)
         /\ Goes("export", call[c].ok, Doing(c), Kind(Rest(c)))
         /\ Goes("export", call[c].ok, Doing(c), Kind(Err(c)))
         /\ ~call[c].ok \/ Doing(c) \in {"unlink", "putback", "dropwork", "cleanup", "own"} =>
              Err(c) \in Todos("export", call[c].ok)
         /\ Doing(c) \in {"copyout", "copydir"} => Rest(c) \in Todos("export", TRUE)
         /\ Doing(c) \in {"pick", "net"} => Kind(Err(c)) = "rest"
<1> DEFINE s == call[c].todo
           ok == call[c].ok
<1>1. PICK p \in Plans("export", ok) : s \in Suffixes(p)
  BY TodosOf
<1>2. /\ s # << >>
      /\ ok => p \in {ExportSteps("vm"), ExportSteps("dir"), Late}
      /\ ~ok => p \in {ExportSteps("vm"), ExportSteps("dir"), ExportBegin, Restore, Undone, Unswapped, Deferred}
  BY DEF Active, Plans
<1>3. Tail(s) \in Suffixes(p)
  BY <1>1, <1>2, ExportVMList, ExportDirList, LateList, ExportBeginList, RestoreList, UndoneList,
     UnswappedList, DeferredList
<1>4. Rest(c) = Tail(s) /\ Rest(c) \in Todos("export", ok)
  BY <1>1, <1>3, TodosOf DEF Rest
<1>5. \/ Row(s, "imagefree", "stop", "lookup") \/ Row(s, "lookup", "stop", "rest")
      \/ Row(s, "memfiles", "stop", "shim") \/ Row(s, "shim", "stop", "pick") \/ Row(s, "pick", "stop", "net")
      \/ Row(s, "net", "stop", "workcopy") \/ Row(s, "workcopy", "stop", "aside")
      \/ Row(s, "aside", "undo", "swap") \/ Row(s, "swap", "unswap", "resume")
      \/ Row(s, "resume", "restore", "halt") \/ Row(s, "halt", "restore", "copyout")
      \/ Row(s, "copyout", "restore", "unlink") \/ Row(s, "copydir", "stop", "own")
      \/ Row(s, "unlink", "next", "putback") \/ Row(s, "unlink", "retry", "putback")
      \/ Row(s, "putback", "retry", "cleanup")
      \/ Row(s, "cleanup", "next", "own") \/ Row(s, "own", "stop", "rest")
      \/ Row(s, "putback", "next", "unlink")
      \/ Row(s, "putback", "next", "dropwork") \/ Row(s, "cleanup", "next", "rest")
      \/ ~ok /\ (Row(s, "dropwork", "next", "unlink") \/ Row(s, "dropwork", "next", "rest")
                 \/ Row(s, "putback", "retry", "rest"))
      \/ ok /\ Row(s, "dropwork", "next", "cleanup")
  <2>1. CASE p \in {ExportSteps("vm"), ExportSteps("dir")}
    BY <1>1, <1>2, <2>1, ExportVMList, ExportDirList
  <2>2. CASE ok /\ p = Late
    BY <1>1, <1>2, <2>2, LateList
  <2>3. CASE ~ok /\ p \in {ExportBegin, Restore, Undone, Unswapped, Deferred}
    BY <1>1, <1>2, <2>3, ExportBeginList, RestoreList, UndoneList, UnswappedList, DeferredList
  <2> QED  BY <1>2, <2>1, <2>2, <2>3
<1>6. ASSUME Doing(c) \in {"copyout", "copydir"}
      PROVE  Rest(c) \in Todos("export", TRUE)
  <2>1. p \in {ExportSteps("vm"), ExportSteps("dir")}
    <3>1. Kind(s) \in {"copyout", "copydir"}
      BY <1>6 DEF Doing
    <3> QED  BY <1>1, <1>2, <3>1, LateList, ExportBeginList, RestoreList, UndoneList, UnswappedList,
                DeferredList DEF Row
  <2>2. p \in Plans("export", TRUE)
    BY <2>1 DEF Plans
  <2> QED  BY <1>3, <1>4, <2>2, TodosOf
<1>7. /\ Head(s).err = "stop" => Err(c) = << >>
      /\ Head(s).err = "next" => Err(c) = Rest(c)
      /\ Head(s).err = "restore" => Err(c) = Restore
      /\ Head(s).err = "undo" => Err(c) = Undone
      /\ Head(s).err = "unswap" => Err(c) = Unswapped
      /\ Head(s).err = "retry" => Err(c) = IF ok THEN Late ELSE Deferred
  BY Undoes DEF Err
<1>8. /\ << >> \in Todos("export", ok)
      /\ ~ok => {Restore, Undone, Unswapped, Deferred} \subseteq Todos("export", ok)
      /\ ok => Late \in Todos("export", ok)
  BY Leaves DEF OpNames
<1>9. /\ Head(s).err = "stop" => Kind(Err(c)) = "rest"
      /\ Head(s).err = "next" => Kind(Err(c)) = Kind(Tail(s))
      /\ Head(s).err = "restore" => Kind(Err(c)) = "unlink"
      /\ Head(s).err = "undo" => Kind(Err(c)) = "dropwork"
      /\ Head(s).err = "unswap" => Kind(Err(c)) = "putback"
      /\ Head(s).err = "retry" => Kind(Err(c)) = "unlink"
  BY <1>4, <1>7, FailKinds
<1>10. Doing(c) = Kind(s)
  BY DEF Doing
<1> HIDE DEF s
<1>11. ~ok \/ Doing(c) \in {"unlink", "putback", "dropwork", "cleanup", "own"} => Err(c) \in Todos("export", ok)
  BY <1>4, <1>5, <1>7, <1>8, <1>10 DEF Row
<1>12. Goes("export", ok, Doing(c), Kind(Rest(c)))
  BY <1>4, <1>5, <1>10 DEF Row, Goes
<1>13. Goes("export", ok, Doing(c), Kind(Err(c)))
  BY <1>4, <1>5, <1>9, <1>10 DEF Row, Goes
<1>14. Doing(c) \in {"pick", "net"} => Kind(Err(c)) = "rest"
  BY <1>5, <1>9, <1>10 DEF Row
<1> QED  BY <1>4, <1>6, <1>11, <1>12, <1>13, <1>14

-----------------------------------------------------------------------------
(***************************************************************************)
(* The calls                                                               *)
(***************************************************************************)
\* The steps an export has left once it has its image.
Ended == {"unlink", "putback", "dropwork", "cleanup", "own", "rest"}

CallInv(c) ==
  /\ DOMAIN call[c] = DOMAIN Idle
  /\ call[c].op \in OpNames \cup {"idle"}
  /\ call[c].op \notin {"idle", "unimage"} => call[c].t \in Templates
  /\ call[c].op \in {"new", "build"} => call[c].b \in Builds
  /\ call[c].kind \in Kinds
  /\ call[c].ok \in BOOLEAN /\ call[c].net \in BOOLEAN
  /\ call[c].todo \in Todos(call[c].op, call[c].ok)
  /\ call[c].ok => call[c].op = "export" /\ Doing(c) \in Ended

Control == DOMAIN call = Calls /\ \A c \in Calls : CallInv(c)

RowType ==
  /\ rows \in [Templates -> Kinds \cup {"none"}]
  /\ builds \in [Builds -> [of : Templates \cup {"none"}, st : {"none", "waiting", "building", "ready", "error"}]]

\* What a call does next, whatever its operation.
LEMMA Moves ==
  ASSUME NEW c, CallInv(c), Active(c)
  PROVE  /\ Rest(c) \in Todos(call[c].op, call[c].ok)
         /\ Err(c) \in Todos(call[c].op, call[c].ok)
         /\ Doing(c) # "paths" => Goes(call[c].op, call[c].ok, Doing(c), Kind(Rest(c)))
         /\ Goes(call[c].op, call[c].ok, Doing(c), Kind(Err(c)))
         /\ Doing(c) \in {"copyout", "copydir"} => Rest(c) \in Todos("export", TRUE)
         /\ Doing(c) = "ensure" => Tail(Rest(c)) \in Todos("new", call[c].ok) /\ Kind(Tail(Rest(c))) = "addbuild"
         /\ Doing(c) = "claim" => Kind(Rest(c)) = "paths"
         /\ Doing(c) = "record" => Kind(Err(c)) = "failed"
         /\ Doing(c) \in {"pick", "net"} => Kind(Err(c)) \in {"cleanup", "rest"}
<1>1. call[c].op \in OpNames \cup {"idle"} /\ call[c].todo \in Todos(call[c].op, call[c].ok) /\ call[c].ok \in BOOLEAN
      /\ (call[c].ok => Doing(c) \in Ended /\ call[c].op = "export")
  BY DEF CallInv
<1>2. CASE call[c].op = "idle"
  <2>1. call[c].todo \in Suffixes(<< >>)
    BY <1>1, <1>2, TodosOf DEF Plans
  <2>2. Len(<< >>) = 0 /\ \A i \in 1..1 : SubSeq(<< >>, i, 0) = << >>
    OBVIOUS
  <2> QED  BY <2>1, <2>2 DEF Suffixes, Active
<1>3. CASE call[c].op = "new"
  BY <1>1, <1>3, NewMoves DEF Goes
<1>4. CASE call[c].op = "build"
  BY <1>1, <1>4, BuildMoves DEF Goes
<1>5. CASE call[c].op = "delete"
  BY <1>1, <1>5, DeleteMoves DEF Goes
<1>6. CASE call[c].op = "convert"
  BY <1>1, <1>6, ConvertMoves DEF Goes
<1>7. CASE call[c].op = "unimage"
  BY <1>1, <1>7, UnimageMoves DEF Goes
<1>8. CASE call[c].op = "export"
  <2>1. ~call[c].ok \/ Doing(c) \in {"unlink", "putback", "dropwork", "cleanup", "own"}
    BY <1>1, <1>8, ExportMoves DEF Goes, Ended
  <2>2. Doing(c) \notin {"ensure", "claim", "record"}
    BY <1>1, <1>8, ExportMoves DEF Goes
  <2> QED  BY <1>1, <1>8, <2>1, <2>2, ExportMoves
<1> QED  BY <1>1, <1>2, <1>3, <1>4, <1>5, <1>6, <1>7, <1>8 DEF OpNames

\* The next step by its name.
LEMMA Names ==
  ASSUME NEW c, CallInv(c)
  PROVE  /\ Active(c) <=> Doing(c) # "rest"
         /\ \A k : At(c, k) => Active(c) /\ (k # "copyout" => Doing(c) = k)
         /\ At(c, "copyout") => Doing(c) \in {"copyout", "copydir"}
         /\ Claimed(c) <=> call[c].op = "build" /\ Doing(c) \notin {"load", "claim", "rest"}
<1>1. ~Active(c) => Doing(c) = "rest"
  BY DEF Active, Doing, Kind
<1>2. Active(c) => Doing(c) # "rest"
  BY Moves DEF Goes
<1>3. Active(c) => \/ Doing(c) = Head(call[c].todo).do
                   \/ Doing(c) = "copydir" /\ Head(call[c].todo).do = "copyout"
  BY DEF Active, Doing, Kind, Do
<1>4. Active(c) /\ call[c].op = "build" => Doing(c) # "copydir"
  BY Moves DEF Goes
<1> QED  BY <1>1, <1>2, <1>3, <1>4 DEF At, Claimed

\* A step of c: the other calls stay as they are, and what identifies c's does.
Moved(c) ==
  /\ DOMAIN call' = Calls
  /\ \A d \in Calls \ {c} : call'[d] = call[d]
  /\ call'[c].op = call[c].op /\ call'[c].t = call[c].t /\ call'[c].b = call[c].b
  /\ Doing(c) # "pick" => call'[c].slot = call[c].slot
  /\ Doing(c) # "net" => call'[c].net = call[c].net
  /\ Doing(c) \notin {"copyout", "copydir"} => call'[c].ok = call[c].ok
  /\ CallInv(c)'
  /\ Goes(call[c].op, call[c].ok, Doing(c), Doing(c)')

\* A step that changes nothing of a call but what is left to do.
LEMMA ThenMoves ==
  ASSUME Control, NEW c \in Calls, NEW steps, Then(c, steps),
         steps \in Todos(call[c].op, call[c].ok), Goes(call[c].op, call[c].ok, Doing(c), Kind(steps))
  PROVE  Moved(c)
<1>1. CallInv(c) /\ DOMAIN call = Calls
  BY DEF Control
<1>2. /\ DOMAIN call' = Calls /\ DOMAIN call'[c] = DOMAIN Idle
      /\ \A d \in Calls \ {c} : call'[d] = call[d]
      /\ call'[c].todo = steps
  BY <1>1 DEF Then, CallInv, Idle
<1>3. /\ call'[c].op = call[c].op /\ call'[c].t = call[c].t /\ call'[c].b = call[c].b
      /\ call'[c].kind = call[c].kind
      /\ call'[c].slot = call[c].slot /\ call'[c].net = call[c].net /\ call'[c].ok = call[c].ok
  BY <1>1 DEF Then, CallInv, Idle
<1>4. Doing(c)' = Kind(steps)
  BY <1>2 DEF Doing
<1>5. call[c].ok => Kind(steps) \in Ended
  BY <1>1 DEF CallInv, Goes, Ended
<1>6. CallInv(c)'
  BY <1>1, <1>2, <1>3, <1>4, <1>5 DEF CallInv
<1> QED  BY <1>2, <1>3, <1>4, <1>6 DEF Moved

\* Every step of a call goes on with its list.
LEMMA Steps ==
  ASSUME Control, RowType, NEW c \in Calls, Step(c)
  PROVE  Active(c) /\ Moved(c)
<1>1. CallInv(c) /\ DOMAIN call = Calls
  BY DEF Control
<1>2. Active(c)
  BY DEF Step, At, Ensure, AddRow, AddBuild, LoadBuild, Claim, Failed, Ready, ChoosePaths, Lookup,
         Record, DeleteRow, RemoveDir, ImageFree, OwnImage, ShareImage, LookImage, DeleteImage,
         RemoveImage, StartShim, PickSlot, PrepareNet, CreateRuntime, ResumeRuntime, RunCommands, Seal,
         Cleanup, Materialize, Inject, CopyMemory, CopyWork, Aside, Swap, Halt, CopyOut, Unlink, PutBack,
         DropWork, Boot, AddImage, Ends
<1> DEFINE op == call[c].op
           ok == call[c].ok
<1>3. /\ Rest(c) \in Todos(op, ok) /\ Err(c) \in Todos(op, ok)
      /\ Goes(op, ok, Doing(c), Kind(Err(c)))
      /\ Doing(c) # "paths" => Goes(op, ok, Doing(c), Kind(Rest(c)))
  BY <1>1, <1>2, Moves
<1>4. Then(c, Err(c)) => Moved(c)
  BY <1>3, ThenMoves
<1>5. Then(c, Rest(c)) /\ Doing(c) # "paths" => Moved(c)
  BY <1>3, ThenMoves
<1>6. << >> \in Todos(op, ok) /\ Kind(<< >>) = "rest"
  BY <1>1, Leaves, FailKinds DEF CallInv
<1>7. Then(c, << >>) /\ Doing(c) \in {"ensure", "addbuild", "load", "claim", "failed", "ready", "lookimage"} => Moved(c)
  <2>1. Doing(c) \in {"ensure", "addbuild", "load", "claim", "failed", "ready", "lookimage"}
        => Goes(op, ok, Doing(c), "rest")
    BY <1>3 DEF Goes
  <2> QED  BY <1>6, <2>1, ThenMoves
<1>8. /\ \A k : At(c, k) => (k # "copyout" => Doing(c) = k)
      /\ At(c, "copyout") => Doing(c) \in {"copyout", "copydir"}
  BY <1>1, Names
<1> HIDE DEF op, ok
<1>9. CASE Ensure(c)
  <2>1. Doing(c) = "ensure"
    BY <1>8, <1>9 DEF Ensure
  <2>2. Then(c, Tail(Rest(c))) => Moved(c)
    <3>1. op = "new" /\ Goes(op, ok, "ensure", "addbuild")
      BY <1>3, <2>1 DEF Goes
    <3>2. Tail(Rest(c)) \in Todos("new", ok) /\ Kind(Tail(Rest(c))) = "addbuild"
      BY <1>1, <1>2, <2>1, Moves DEF ok
    <3> QED  BY <2>1, <3>1, <3>2, ThenMoves DEF op, ok
  <2>3. Then(c, << >>) \/ Then(c, Rest(c)) \/ Then(c, Tail(Rest(c)))
    BY <1>9 DEF Ensure, Gives
  <2> QED  BY <1>2, <1>5, <1>7, <2>1, <2>2, <2>3
<1>10. CASE \/ AddRow(c) \/ Record(c) \/ DeleteRow(c) \/ RemoveDir(c) \/ ImageFree(c)
            \/ OwnImage(c) \/ ShareImage(c) \/ DeleteImage(c) \/ RemoveImage(c)
  <2>1. Doing(c) # "paths" /\ (Then(c, Rest(c)) \/ Then(c, Err(c)))
    BY <1>8, <1>10 DEF AddRow, Record, DeleteRow, RemoveDir, ImageFree, OwnImage, ShareImage, AddImage,
       DeleteImage, RemoveImage, Gives
  <2> QED  BY <1>2, <1>4, <1>5, <2>1
<1>11. CASE AddBuild(c) \/ Claim(c) \/ Failed(c) \/ Ready(c)
  BY <1>2, <1>5, <1>7, <1>8, <1>11 DEF AddBuild, Claim, Failed, Ready, Ends
<1>12. CASE \/ StartShim(c) \/ CreateRuntime(c) \/ ResumeRuntime(c) \/ RunCommands(c) \/ Seal(c)
            \/ Cleanup(c) \/ Inject(c)
  <2>1. Doing(c) # "paths" /\ (Then(c, Rest(c)) \/ Then(c, Err(c)))
    BY <1>8, <1>12 DEF StartShim, Gives, CreateRuntime, ResumeRuntime, Boot, RunCommands, Seal, Cleanup, Inject
  <2> QED  BY <1>2, <1>4, <1>5, <2>1
<1>13. CASE CopyWork(c) \/ Aside(c) \/ Swap(c) \/ Halt(c) \/ Unlink(c) \/ PutBack(c) \/ DropWork(c)
  <2>1. Doing(c) # "paths" /\ (Then(c, Rest(c)) \/ Then(c, Err(c)))
    BY <1>8, <1>13 DEF CopyWork, Aside, Swap, Halt, Unlink, PutBack, DropWork
  <2> QED  BY <1>2, <1>4, <1>5, <2>1
<1>14. /\ op \notin {"idle", "unimage"} => call[c].t \in Templates
       /\ op \in {"new", "build"} => call[c].b \in Builds
       /\ DOMAIN call[c] = DOMAIN Idle /\ call[c].kind \in Kinds /\ ok \in BOOLEAN
       /\ call[c].net \in BOOLEAN /\ op \in OpNames \cup {"idle"}
       /\ (ok => op = "export" /\ Doing(c) \in Ended)
  BY <1>1 DEF CallInv, ok, op
<1>15. ASSUME NEW steps, steps \in Todos(op, ok), Goes(op, ok, Doing(c), Kind(steps)),
              DOMAIN call' = Calls, DOMAIN call'[c] = DOMAIN Idle,
              \A d \in Calls \ {c} : call'[d] = call[d],
              call'[c].todo = steps, call'[c].op = op, call'[c].t = call[c].t, call'[c].b = call[c].b,
              call'[c].kind \in Kinds,
              Doing(c) # "pick" => call'[c].slot = call[c].slot,
              Doing(c) # "net" => call'[c].net = call[c].net,
              call'[c].net \in BOOLEAN, call'[c].ok = ok
       PROVE  Moved(c)
  <2>1. Doing(c)' = Kind(steps)
    BY <1>15 DEF Doing
  <2>2. ok => Kind(steps) \in Ended
    BY <1>14, <1>15 DEF Goes, Ended
  <2>3. CallInv(c)'
    BY <1>14, <1>15, <2>1, <2>2 DEF CallInv
  <2> QED  BY <1>15, <2>1, <2>3 DEF Moved, op, ok
<1>16. CASE LoadBuild(c)
  <2>1. Doing(c) = "load"
    BY <1>8, <1>16 DEF LoadBuild
  <2>2. PICK steps \in {Rest(c), << >>}, seen \in {builds[call[c].b].st} :
             call' = [call EXCEPT ![c].seen = seen, ![c].todo = steps]
    BY <1>16 DEF LoadBuild
  <2>3. steps \in Todos(op, ok) /\ Goes(op, ok, Doing(c), Kind(steps))
    BY <1>3, <1>6, <2>1 DEF Goes
  <2>4. Moved(c)
    BY <1>1, <1>14, <1>15, <2>2, <2>3 DEF Idle, op, ok
  <2> QED  BY <1>2, <2>4
<1>17. CASE LookImage(c)
  <2>1. Doing(c) = "lookimage"
    BY <1>8, <1>17 DEF LookImage
  <2>2. PICK steps \in {Rest(c), << >>}, seen \in {images[call[c].i].st} :
             call' = [call EXCEPT ![c].seen = seen, ![c].todo = steps]
    BY <1>17 DEF LookImage
  <2>3. steps \in Todos(op, ok) /\ Goes(op, ok, Doing(c), Kind(steps))
    BY <1>3, <1>6, <2>1 DEF Goes
  <2>4. Moved(c)
    BY <1>1, <1>14, <1>15, <2>2, <2>3 DEF Idle, op, ok
  <2> QED  BY <1>2, <2>4
<1>18. CASE ChoosePaths(c)
  <2>1. Doing(c) = "paths"
    BY <1>8, <1>18 DEF ChoosePaths
  <2>2. op = "build" /\ call[c].t \in Templates
    BY <1>3, <1>14, <2>1 DEF Goes
  <2>3. PICK steps \in {BuildSteps, Err(c)}, kind \in Kinds :
             call' = [call EXCEPT ![c].kind = kind, ![c].todo = steps]
    BY <1>18, <2>2 DEF ChoosePaths, RowType, Kinds
  <2>4. steps \in Todos(op, ok) /\ Goes(op, ok, Doing(c), Kind(steps))
    BY <1>3, <2>1, <2>2, Leaves, FailKinds DEF Goes
  <2>5. Moved(c)
    BY <1>1, <1>14, <1>15, <2>3, <2>4 DEF Idle, op, ok
  <2> QED  BY <1>2, <2>5
<1>19. CASE Lookup(c)
  <2>1. Doing(c) = "lookup"
    BY <1>8, <1>19 DEF Lookup
  <2>2. op \in {"export", "delete", "convert"} /\ call[c].t \in Templates /\ ~ok
    BY <1>3, <1>14, <2>1 DEF Goes, Ended
  <2>3. CASE Then(c, Err(c))
    BY <1>2, <1>4, <2>3
  <2>4. CASE ~Then(c, Err(c))
    <3> DEFINE kind == rows[call[c].t]
               seen == IF last[call[c].t] = NoFile THEN "unbuilt" ELSE "built"
               steps == IF op = "export" THEN ExportSteps(kind) ELSE Rest(c)
    <3>1. /\ kind \in Kinds
          /\ call' = [call EXCEPT ![c].kind = kind, ![c].seen = seen, ![c].todo = steps]
      BY <1>19, <2>2, <2>4 DEF Lookup, RowType, Kinds, op
    <3> HIDE DEF kind, seen
    <3>2. steps \in Todos(op, ok) /\ Goes(op, ok, Doing(c), Kind(steps))
      <4>1. CASE op # "export"
        BY <1>3, <2>1, <4>1
      <4>2. CASE op = "export"
        <5>1. steps \in Todos(op, FALSE) /\ Kind(steps) \in {"memfiles", "copydir"}
          BY <3>1, <4>2, Leaves, FailKinds DEF Kinds
        <5> QED  BY <1>14, <2>1, <2>2, <4>2, <5>1 DEF Goes
      <4> QED  BY <4>1, <4>2
    <3> HIDE DEF steps
    <3>3. Moved(c)
      BY <1>1, <1>14, <1>15, <3>1, <3>2 DEF Idle, op, ok
    <3> QED  BY <1>2, <3>3
  <2> QED  BY <2>3, <2>4
<1>20. CASE PickSlot(c)
  <2>1. Doing(c) = "pick"
    BY <1>8, <1>20 DEF PickSlot
  <2>2. CASE Then(c, Err(c))
    BY <1>2, <1>4, <2>2
  <2>3. CASE ~Then(c, Err(c))
    <3>1. PICK n \in Slots : call' = [call EXCEPT ![c].slot = n, ![c].todo = Rest(c)]
      BY <1>20, <2>3 DEF PickSlot, Picks, Slots, Rest
    <3>2. Moved(c)
      BY <1>1, <1>3, <1>14, <1>15, <2>1, <3>1 DEF Idle, op, ok
    <3> QED  BY <1>2, <3>2
  <2> QED  BY <2>2, <2>3
<1>21. CASE PrepareNet(c)
  <2>1. Doing(c) = "net"
    BY <1>8, <1>21 DEF PrepareNet
  <2>2. CASE Then(c, Err(c))
    BY <1>2, <1>4, <2>2
  <2>3. CASE ~Then(c, Err(c))
    <3>1. call' = [call EXCEPT ![c].net = TRUE, ![c].todo = Rest(c)]
      BY <1>21, <2>3 DEF PrepareNet, Rest
    <3>2. Moved(c)
      BY <1>1, <1>3, <1>14, <1>15, <2>1, <3>1 DEF Idle, op, ok
    <3> QED  BY <1>2, <3>2
  <2> QED  BY <2>2, <2>3
<1>22. CASE Materialize(c)
  <2>1. Doing(c) = "materialize"
    BY <1>8, <1>22 DEF Materialize
  <2>2. CASE Then(c, Err(c))
    BY <1>2, <1>4, <2>2
  <2>3. CASE ~Then(c, Err(c))
    <3>1. PICK steps \in {Rest(c), Err(c)}, seen \in {SourceKind(c)} :
             call' = [call EXCEPT ![c].seen = seen, ![c].todo = steps]
      BY <1>22, <2>3 DEF Materialize
    <3>2. Moved(c)
      BY <1>1, <1>3, <1>14, <1>15, <2>1, <3>1 DEF Idle, op, ok
    <3> QED  BY <1>2, <3>2
  <2> QED  BY <2>2, <2>3
<1>23. CASE CopyMemory(c)
  <2>1. Doing(c) = "memfiles"
    BY <1>8, <1>23 DEF CopyMemory
  <2>2. CASE Then(c, Err(c))
    BY <1>2, <1>4, <2>2
  <2>3. CASE ~Then(c, Err(c))
    <3>1. PICK mem \in {snap[call[c].t]} : call' = [call EXCEPT ![c].mem = mem, ![c].todo = Rest(c)]
      BY <1>23, <2>3 DEF CopyMemory, Rest
    <3>2. Moved(c)
      BY <1>1, <1>3, <1>14, <1>15, <2>1, <3>1 DEF Idle, op, ok
    <3> QED  BY <1>2, <3>2
  <2> QED  BY <2>2, <2>3
<1>24. CASE CopyOut(c)
  <2>1. Doing(c) \in {"copyout", "copydir"}
    BY <1>8, <1>24 DEF CopyOut
  <2>2. CASE Then(c, Err(c))
    BY <1>2, <1>4, <2>2
  <2>3. CASE ~Then(c, Err(c))
    <3>1. call' = [call EXCEPT ![c].ok = TRUE, ![c].todo = Rest(c)]
      BY <1>1, <1>14, <1>24, <2>3 DEF CopyOut, Rest
    <3>2. op = "export" /\ Rest(c) \in Todos("export", TRUE) /\ Goes(op, ok, Doing(c), Kind(Rest(c)))
      BY <1>1, <1>2, <1>3, <2>1, Moves DEF Goes
    <3>3. /\ DOMAIN call' = Calls /\ DOMAIN call'[c] = DOMAIN Idle
          /\ \A d \in Calls \ {c} : call'[d] = call[d]
          /\ call'[c].todo = Rest(c) /\ call'[c].ok = TRUE
          /\ call'[c].op = op /\ call'[c].t = call[c].t /\ call'[c].b = call[c].b
          /\ call'[c].kind = call[c].kind
          /\ call'[c].slot = call[c].slot /\ call'[c].net = call[c].net
      BY <1>1, <1>14, <3>1 DEF Idle, op
    <3>4. Doing(c)' = Kind(Rest(c)) /\ Kind(Rest(c)) \in Ended
      BY <2>1, <3>2, <3>3 DEF Doing, Goes, Ended
    <3>5. CallInv(c)'
      BY <1>14, <3>2, <3>3, <3>4 DEF CallInv
    <3>6. Moved(c)
      BY <2>1, <3>2, <3>3, <3>4, <3>5 DEF Moved, op, ok
    <3> QED  BY <1>2, <3>6
  <2> QED  BY <2>2, <2>3
<1> QED  BY <1>9, <1>10, <1>11, <1>12, <1>13, <1>16, <1>17, <1>18, <1>19, <1>20, <1>21, <1>22, <1>23, <1>24
         DEF Step

-----------------------------------------------------------------------------
(***************************************************************************)
(* Builds                                                                  *)
(***************************************************************************)
\* Claimed, by the kind of the next step.
Holding(c) == call[c].op = "build" /\ Doing(c) \notin {"load", "claim", "rest"}

\* An identifier is a new call's own until its build has been added.
NewInv ==
  /\ \A b \in Builds : builds[b].of = "none" => builds[b].st = "none"
  /\ \A c \in Calls : call[c].op = "new" =>
       /\ Doing(c) # "rest" => builds[call[c].b].of = "none"
       /\ \A d \in Calls \ {c} : call[d].op = "new" => call[d].b # call[c].b

\* A build's row before each of its steps: a claimed one is building, or deleted.
BuildInv ==
  \A c \in Calls : call[c].op = "build" =>
    /\ call[c].t = builds[call[c].b].of
    /\ Doing(c) = "claim" => call[c].seen \in {"waiting", "error"}
    /\ Holding(c) => builds[call[c].b].st \in {"building", "none"}
    /\ Doing(c) = "ready" /\ builds[call[c].b].st # "none" => rows[call[c].t] # "none"

OneHolder == \A c, d \in Calls : c # d /\ Holding(c) /\ Holding(d) => call[c].b # call[d].b

Tended ==
  \A b \in Builds : builds[b].st = "building" =>
    \E c \in Calls : call[c].op = "build" /\ call[c].b = b /\ (Holding(c) \/ c \in refused)

RowInv == NewInv /\ BuildInv /\ OneHolder /\ Tended /\ ReadyHasTemplate

Request(c) == \/ RequestTemplate(c) \/ RequestBuild(c) \/ RequestImage(c)
              \/ RequestDelete(c) \/ RequestConvert(c) \/ RequestUnimage(c)

\* What is noted stays noted.
LEMMA Noted ==
  ASSUME [Next]_vars
  PROVE  mixed \subseteq mixed' /\ spoilt \subseteq spoilt' /\ stuck \subseteq stuck' /\ refused \subseteq refused'
<1>1. CASE UNCHANGED vars
  BY <1>1 DEF vars, history
<1>2. ASSUME NEW c \in Calls, Request(c) \/ GuestWrites(c)
      PROVE  mixed \subseteq mixed' /\ spoilt \subseteq spoilt' /\ stuck \subseteq stuck' /\ refused \subseteq refused'
  <2>1. CASE GuestWrites(c)
    BY <2>1 DEF GuestWrites, history
  <2>2. CASE Request(c)
    <3>1. \E r : Begin(c, r)
      BY <2>2 DEF Request, RequestTemplate, RequestBuild, RequestImage, RequestDelete, RequestConvert, RequestUnimage
    <3> QED  BY <3>1 DEF Begin
  <2> QED  BY <1>2, <2>1, <2>2
<1>3. ASSUME NEW c \in Calls, Step(c)
      PROVE  mixed \subseteq mixed' /\ spoilt \subseteq spoilt' /\ stuck \subseteq stuck' /\ refused \subseteq refused'
  <2>1. mixed' = mixed
    BY <1>3 DEF Step, history, Ensure, AddRow, AddBuild, LoadBuild, Claim, Failed, Ready, Ends, ChoosePaths, Lookup,
       Record, DeleteRow, RemoveDir, ImageFree, OwnImage, ShareImage, AddImage, LookImage, DeleteImage, RemoveImage,
       StartShim, PickSlot, PrepareNet, CreateRuntime, ResumeRuntime, Boot, RunCommands, Seal, Cleanup, Materialize,
       Inject, CopyMemory, CopyWork, Aside, Swap, Halt, CopyOut, Unlink, PutBack, DropWork
  <2>2. spoilt \subseteq spoilt'
    BY <1>3 DEF Step, history, Ensure, AddRow, AddBuild, LoadBuild, Claim, Failed, Ready, Ends, ChoosePaths, Lookup,
       Record, DeleteRow, RemoveDir, ImageFree, OwnImage, ShareImage, AddImage, LookImage, DeleteImage, RemoveImage,
       StartShim, PickSlot, PrepareNet, CreateRuntime, ResumeRuntime, Boot, RunCommands, Seal, Cleanup, Materialize,
       Inject, CopyMemory, CopyWork, Aside, Swap, Halt, CopyOut, Unlink, PutBack, DropWork, Spoils
  <2>3. stuck \subseteq stuck'
    BY <1>3 DEF Step, history, Ensure, AddRow, AddBuild, LoadBuild, Claim, Failed, Ready, Ends, ChoosePaths, Lookup,
       Record, DeleteRow, RemoveDir, ImageFree, OwnImage, ShareImage, AddImage, LookImage, DeleteImage, RemoveImage,
       StartShim, PickSlot, PrepareNet, CreateRuntime, ResumeRuntime, Boot, RunCommands, Seal, Cleanup, Materialize,
       Inject, CopyMemory, CopyWork, Aside, Swap, Halt, CopyOut, Unlink, PutBack, DropWork
  <2>4. refused \subseteq refused'
    BY <1>3 DEF Step, history, Ensure, AddRow, AddBuild, LoadBuild, Claim, Failed, Ready, Ends, ChoosePaths, Lookup,
       Record, DeleteRow, RemoveDir, ImageFree, OwnImage, ShareImage, AddImage, LookImage, DeleteImage, RemoveImage,
       StartShim, PickSlot, PrepareNet, CreateRuntime, ResumeRuntime, Boot, RunCommands, Seal, Cleanup, Materialize,
       Inject, CopyMemory, CopyWork, Aside, Swap, Halt, CopyOut, Unlink, PutBack, DropWork
  <2> QED  BY <2>1, <2>2, <2>3, <2>4
<1> QED  BY <1>1, <1>2, <1>3 DEF Next, Request

\* A step that leaves the builds alone, whatever template rows it adds.
LEMMA BuildsKept ==
  ASSUME Control, RowType, RowInv, NEW c \in Calls, Moved(c), builds' = builds, refused \subseteq refused',
         \A t \in Templates : rows[t] # "none" => rows'[t] # "none",
         Doing(c) \notin {"load", "claim", "failed", "ready"},
         call[c].op = "build" /\ Doing(c)' = "ready" => rows'[call[c].t] # "none"
  PROVE  RowInv'
<1>1. \A d \in Calls : CallInv(d)
  BY DEF Control
<1>2. /\ \A d \in Calls \ {c} : call'[d] = call[d] /\ Doing(d)' = Doing(d)
      /\ call'[c].op = call[c].op /\ call'[c].t = call[c].t /\ call'[c].b = call[c].b
      /\ Goes(call[c].op, call[c].ok, Doing(c), Doing(c)')
  BY DEF Moved, Doing
<1>3. Doing(c) # "rest"
  BY <1>2 DEF Goes
<1>4. call[c].op = "build" => Holding(c) /\ Holding(c)' /\ Doing(c)' # "claim"
  BY <1>2, <1>3 DEF Goes, Holding
<1>5. \A d \in Calls : /\ Holding(d)' = Holding(d)
                       /\ call'[d].op = call[d].op /\ call'[d].t = call[d].t /\ call'[d].b = call[d].b
  BY <1>2, <1>4 DEF Holding
<1>6. NewInv'
  BY <1>2, <1>3, <1>5 DEF RowInv, NewInv
<1>7. BuildInv'
  <2> SUFFICES ASSUME NEW d \in Calls, call'[d].op = "build"
               PROVE  /\ call'[d].t = builds[call'[d].b].of
                      /\ Doing(d)' = "claim" => call'[d].seen \in {"waiting", "error"}
                      /\ Holding(d)' => builds[call'[d].b].st \in {"building", "none"}
                      /\ Doing(d)' = "ready" /\ builds[call'[d].b].st # "none" => rows'[call'[d].t] # "none"
    BY DEF BuildInv
  <2>1. call[d].t \in Templates /\ call[d].op = "build"
    BY <1>1, <1>5 DEF CallInv
  <2>2. CASE d = c
    BY <1>2, <1>4, <1>5, <2>1, <2>2 DEF RowInv, BuildInv
  <2>3. CASE d # c
    BY <1>2, <1>5, <2>1, <2>3 DEF RowInv, BuildInv
  <2> QED  BY <2>2, <2>3
<1>8. OneHolder'
  BY <1>5 DEF RowInv, OneHolder
<1>9. Tended'
  BY <1>5 DEF RowInv, Tended
<1>10. ReadyHasTemplate'
  <2>1. \A b \in Builds : builds[b].st = "ready" => builds[b].of \in Templates
    BY DEF RowType, RowInv, NewInv
  <2> QED  BY <2>1 DEF RowInv, ReadyHasTemplate
<1> QED  BY <1>6, <1>7, <1>8, <1>9, <1>10 DEF RowInv

\* The steps at which a build's row changes.
LEMMA BuildsChange ==
  ASSUME ArtifactAssumption, Control, RowType, RowInv, NEW c \in Calls, Moved(c),
         LoadBuild(c) \/ Claim(c) \/ Failed(c) \/ Ready(c) \/ AddBuild(c) \/ DeleteRow(c)
  PROVE  RowInv'
<1>1. /\ \A d \in Calls : CallInv(d)
      /\ DOMAIN call = Calls
  BY DEF Control
<1>2. /\ \A d \in Calls \ {c} : call'[d] = call[d] /\ Doing(d)' = Doing(d)
      /\ call'[c].op = call[c].op /\ call'[c].t = call[c].t /\ call'[c].b = call[c].b
      /\ Goes(call[c].op, call[c].ok, Doing(c), Doing(c)')
  BY DEF Moved, Doing
<1>3. /\ LoadBuild(c) => Doing(c) = "load" /\ call[c].op = "build"
      /\ Claim(c) => Doing(c) = "claim" /\ call[c].op = "build"
      /\ Failed(c) => Doing(c) = "failed" /\ call[c].op = "build"
      /\ Ready(c) => Doing(c) = "ready" /\ call[c].op = "build"
      /\ AddBuild(c) => Doing(c) = "addbuild" /\ call[c].op = "new"
      /\ DeleteRow(c) => Doing(c) = "delrow" /\ call[c].op = "delete"
  <2>1. \A k : At(c, k) /\ k # "copyout" => Doing(c) = k
    BY <1>1, Names
  <2>2. /\ LoadBuild(c) => Doing(c) = "load"
        /\ Claim(c) => Doing(c) = "claim"
        /\ Failed(c) => Doing(c) = "failed"
        /\ Ready(c) => Doing(c) = "ready"
        /\ AddBuild(c) => Doing(c) = "addbuild"
        /\ DeleteRow(c) => Doing(c) = "delrow"
    BY <2>1 DEF LoadBuild, Claim, Failed, Ready, AddBuild, DeleteRow
  <2> QED  BY <1>2, <2>2 DEF Goes
<1>4. \A d \in Calls \ {c} : /\ Holding(d)' = Holding(d)
                             /\ call'[d].op = call[d].op /\ call'[d].b = call[d].b
  BY <1>2 DEF Holding
<1>5. /\ \A d \in Calls : call[d].op = "build" => call[d].b \in Builds /\ call[d].t \in Templates
      /\ \A d \in Calls : call[d].op = "new" => call[d].b \in Builds /\ call[d].t \in Templates
  BY <1>1 DEF CallInv
<1>6. "none" \notin Templates
  BY DEF ArtifactAssumption
<1> DEFINE b == call[c].b
<1>7. CASE LoadBuild(c)
  <2>1. UNCHANGED <<rows, builds, refused>> /\ Doing(c) = "load" /\ call[c].op = "build"
    BY <1>3, <1>7 DEF LoadBuild, store, history
  <2>2. ~Holding(c) /\ ~Holding(c)'
    BY <1>2, <2>1 DEF Holding, Goes
  <2>3. Doing(c)' = "claim" => call'[c].seen \in {"waiting", "error"}
    <3>1. PICK st \in {builds[b].st}, steps \in {<< >>, Rest(c)} :
                                            /\ call' = [call EXCEPT ![c].seen = st, ![c].todo = steps]
                                            /\ steps # << >> => st \in {"waiting", "error"}
      BY <1>7 DEF LoadBuild
    <3>2. DOMAIN call = Calls /\ DOMAIN call[c] = DOMAIN Idle
      BY <1>1 DEF CallInv
    <3>3. call'[c].seen = st /\ call'[c].todo = steps
      BY <3>1, <3>2 DEF Idle
    <3>4. Doing(c)' = Kind(steps)
      BY <3>3 DEF Doing
    <3>5. CASE steps = << >>
      BY <3>4, <3>5, FailKinds
    <3> QED  BY <3>1, <3>3, <3>5
  <2>4. BuildInv'
    BY <1>2, <1>4, <2>1, <2>2, <2>3 DEF RowInv, BuildInv, Goes
  <2>5. NewInv' /\ OneHolder' /\ Tended' /\ ReadyHasTemplate'
    BY <1>2, <1>4, <2>1, <2>2 DEF RowInv, NewInv, OneHolder, Tended, ReadyHasTemplate
  <2> QED  BY <2>4, <2>5 DEF RowInv
<1>8. CASE Claim(c)
  <2>1. UNCHANGED <<rows, refused>> /\ Doing(c) = "claim" /\ call[c].op = "build" /\ b \in Builds
    BY <1>3, <1>5, <1>8 DEF Claim, history
  <2> DEFINE set == builds[b].st = call[c].seen /\ Then(c, Rest(c)) /\ builds' = [builds EXCEPT ![b].st = "building"]
  <2>2. CASE set
    <3>1. builds' = [builds EXCEPT ![b].st = "building"] /\ builds[b].st \in {"waiting", "error"}
      BY <2>1, <2>2 DEF RowInv, BuildInv
    <3>2. /\ \A x \in Builds : builds'[x].of = builds[x].of
          /\ \A x \in Builds \ {b} : builds'[x].st = builds[x].st
          /\ builds'[b].st = "building"
      BY <2>1, <3>1 DEF RowType
    <3>3. \A d \in Calls \ {c} : Holding(d) => call[d].b # b
      BY <3>1 DEF RowInv, BuildInv, Holding
    <3>4. Doing(c)' \notin {"claim", "ready"}
      BY <1>2, <2>1 DEF Goes
    <3>5. NewInv'
      BY <1>2, <1>4, <1>5, <2>1, <3>1, <3>2 DEF RowInv, NewInv
    <3>6. BuildInv'
      BY <1>2, <1>4, <1>5, <2>1, <3>2, <3>3, <3>4 DEF RowInv, BuildInv, Holding
    <3>7. OneHolder'
      BY <1>2, <1>4, <3>3 DEF RowInv, OneHolder
    <3>8. Tended'
      <4>1. Holding(c)'
        <5>1. call' = [call EXCEPT ![c].todo = Rest(c)] /\ Kind(Rest(c)) = "paths"
          BY <1>1, <1>8, <2>1, <2>2, Moves, Names DEF Claim, Then
        <5>2. call'[c].todo = Rest(c)
          BY <1>1, <5>1 DEF CallInv, Idle
        <5> QED  BY <1>2, <2>1, <5>1, <5>2 DEF Holding, Doing
      <4>2. \A x \in Builds \ {b} : builds'[x].st = "building" =>
              \E d \in Calls \ {c} : call[d].op = "build" /\ call[d].b = x /\ (Holding(d) \/ d \in refused)
        BY <3>2 DEF RowInv, Tended
      <4> QED  BY <1>2, <1>4, <2>1, <4>1, <4>2 DEF Tended
    <3>9. ReadyHasTemplate'
      BY <2>1, <3>2 DEF RowInv, ReadyHasTemplate
    <3> QED  BY <3>5, <3>6, <3>7, <3>8, <3>9 DEF RowInv
  <2>3. CASE ~set
    <3>1. builds' = builds /\ call'[c].todo = << >>
      BY <1>1, <1>8, <2>3 DEF Claim, SetBuild, Then, CallInv, Idle
    <3>2. Doing(c)' = "rest"
      BY <3>1, FailKinds DEF Doing
    <3>3. ~Holding(c) /\ ~Holding(c)'
      BY <2>1, <3>2 DEF Holding
    <3>4. BuildInv'
      BY <1>2, <1>4, <2>1, <3>1, <3>2, <3>3 DEF RowInv, BuildInv
    <3>5. NewInv' /\ OneHolder' /\ Tended' /\ ReadyHasTemplate'
      BY <1>2, <1>4, <2>1, <3>1, <3>3 DEF RowInv, NewInv, OneHolder, Tended, ReadyHasTemplate
    <3> QED  BY <3>4, <3>5 DEF RowInv
  <2> QED  BY <2>2, <2>3
<1>9. CASE Failed(c) \/ Ready(c)
  <2>1. UNCHANGED rows /\ Doing(c) \in {"failed", "ready"} /\ call[c].op = "build" /\ b \in Builds
    BY <1>3, <1>5, <1>9 DEF Failed, Ready, Ends
  <2>2. Doing(c)' = "rest" /\ Holding(c) /\ ~Holding(c)'
    BY <1>2, <2>1 DEF Goes, Holding
  <2>3. \A d \in Calls \ {c} : Holding(d) => call[d].b # b
    BY <2>1, <2>2 DEF RowInv, OneHolder
  <2>4. OneHolder'
    BY <1>2, <1>4, <2>2 DEF RowInv, OneHolder
  <2>5. CASE builds' # builds
    <3>1. PICK st \in {"error", "ready"} : /\ builds' = [builds EXCEPT ![b].st = st] /\ refused' = refused
                                           /\ builds[b].st = "building"
                                           /\ st = "ready" => Doing(c) = "ready"
      BY <1>3, <1>9, <2>5 DEF Failed, Ready, Ends, SetBuild
    <3>2. /\ \A x \in Builds : builds'[x].of = builds[x].of
          /\ \A x \in Builds \ {b} : builds'[x].st = builds[x].st
          /\ builds'[b].st = st
      BY <2>1, <3>1 DEF RowType
    <3>3. NewInv'
      BY <1>2, <1>4, <1>5, <2>1, <3>1, <3>2 DEF RowInv, NewInv
    <3>4. BuildInv'
      BY <1>2, <1>4, <1>5, <2>1, <2>2, <2>3, <3>2 DEF RowInv, BuildInv, Holding
    <3>5. Tended'
      <4>1. \A x \in Builds \ {b} : builds'[x].st = "building" =>
              \E d \in Calls \ {c} : call[d].op = "build" /\ call[d].b = x /\ (Holding(d) \/ d \in refused)
        BY <3>2 DEF RowInv, Tended
      <4> QED  BY <1>2, <1>4, <3>1, <3>2, <4>1 DEF Tended
    <3>6. st = "ready" => rows[builds[b].of] # "none"
      BY <2>1, <3>1 DEF RowInv, BuildInv
    <3>7. ReadyHasTemplate'
      BY <2>1, <3>2, <3>6 DEF RowInv, ReadyHasTemplate
    <3> QED  BY <2>4, <3>3, <3>4, <3>5, <3>7 DEF RowInv
  <2>6. CASE builds' = builds
    <3>1. (builds[b].st # "building" /\ refused' = refused) \/ refused' = refused \cup {c}
      <4>1. ASSUME NEW st \in {"error", "ready"}, SetBuild(c, "building", st)
            PROVE  builds[b].st # "building"
        BY <2>1, <2>6, <4>1 DEF SetBuild, RowType
      <4>2. \/ refused' = refused \cup {c}
            \/ refused' = refused /\ \E st \in {"error", "ready"} : SetBuild(c, "building", st)
        BY <1>9 DEF Failed, Ready, Ends
      <4> QED  BY <4>1, <4>2
    <3>2. NewInv' /\ ReadyHasTemplate'
      BY <1>2, <1>4, <2>1, <2>6 DEF RowInv, NewInv, ReadyHasTemplate
    <3>3. BuildInv'
      BY <1>2, <1>4, <2>1, <2>2, <2>6 DEF RowInv, BuildInv
    <3>4. Tended'
      BY <1>2, <1>4, <2>1, <2>6, <3>1 DEF RowInv, Tended
    <3> QED  BY <2>4, <3>2, <3>3, <3>4 DEF RowInv
  <2> QED  BY <2>5, <2>6
<1>10. CASE AddBuild(c)
  <2>1. UNCHANGED <<rows, refused>> /\ Doing(c) = "addbuild" /\ call[c].op = "new" /\ b \in Builds /\ call[c].t \in Templates
    BY <1>3, <1>5, <1>10 DEF AddBuild, history
  <2>2. Doing(c)' = "rest" /\ ~Holding(c) /\ ~Holding(c)'
    BY <1>2, <2>1 DEF Goes, Holding
  <2>3. /\ builds[b].of = "none" /\ builds[b].st = "none"
        /\ \A d \in Calls \ {c} : call[d].op = "new" => call[d].b # b
    BY <2>1 DEF RowInv, NewInv
  <2>4. \/ builds' = builds
        \/ /\ \A x \in Builds \ {b} : builds'[x] = builds[x]
           /\ builds'[b].of = call[c].t /\ builds'[b].st = "waiting"
    BY <1>10, <2>1 DEF AddBuild, RowType
  <2>5. \A d \in Calls \ {c} : call[d].op = "build" => call[d].b # b
    BY <1>5, <1>6, <2>3 DEF RowInv, BuildInv
  <2>6. NewInv'
    BY <1>2, <1>4, <1>5, <1>6, <2>1, <2>2, <2>3, <2>4 DEF RowInv, NewInv
  <2>7. BuildInv'
    BY <1>2, <1>4, <1>5, <2>1, <2>4, <2>5 DEF RowInv, BuildInv
  <2>8. OneHolder' /\ ReadyHasTemplate'
    BY <1>2, <1>4, <2>1, <2>2, <2>4 DEF RowInv, OneHolder, ReadyHasTemplate
  <2>9. Tended'
    BY <1>2, <1>4, <2>1, <2>4 DEF RowInv, Tended
  <2> QED  BY <2>6, <2>7, <2>8, <2>9 DEF RowInv
<1>11. CASE DeleteRow(c)
  <2>1. Doing(c) = "delrow" /\ call[c].op = "delete" /\ refused' = refused
    BY <1>3, <1>11 DEF DeleteRow, history
  <2>2. ~Holding(c) /\ ~Holding(c)' /\ call'[c].op = "delete"
    BY <1>2, <2>1 DEF Holding
  <2>3. \/ UNCHANGED <<rows, builds>>
        \/ /\ \A x \in Builds : builds'[x].of = builds[x].of
           /\ \A x \in Builds : /\ builds[x].of = call[c].t => builds'[x].st = "none"
                                /\ builds[x].of # call[c].t => builds'[x].st = builds[x].st
           /\ \A t \in Templates \ {call[c].t} : rows'[t] = rows[t]
    BY <1>11 DEF DeleteRow, RowType
  <2>4. NewInv'
    BY <1>2, <1>4, <1>5, <2>2, <2>3 DEF RowInv, NewInv
  <2>5. BuildInv'
    BY <1>2, <1>4, <1>5, <2>2, <2>3 DEF RowInv, BuildInv
  <2>6. OneHolder'
    BY <1>2, <1>4, <2>2 DEF RowInv, OneHolder
  <2>7. Tended'
    BY <1>2, <1>4, <2>1, <2>2, <2>3 DEF RowInv, Tended
  <2>8. \A x \in Builds : builds[x].st = "ready" => builds[x].of \in Templates
    BY DEF RowType, RowInv, NewInv
  <2>9. ReadyHasTemplate'
    BY <2>3, <2>8 DEF RowInv, ReadyHasTemplate
  <2> QED  BY <2>4, <2>5, <2>6, <2>7, <2>9 DEF RowInv
<1> QED  BY <1>7, <1>8, <1>9, <1>10, <1>11

\* A call as it begins.
Fresh(c) ==
  /\ call[c].op = "idle"
  /\ DOMAIN call' = Calls
  /\ \A d \in Calls \ {c} : call'[d] = call[d]
  /\ CallInv(c)'
  /\ call'[c].slot = 0 /\ ~call'[c].net /\ ~call'[c].ok
  /\ <<call'[c].op, Doing(c)'>> \in {<<"new", "ensure">>, <<"build", "load">>, <<"delete", "lookup">>,
       <<"convert", "lookup">>, <<"unimage", "lookimage">>, <<"export", "imagefree">>}
  /\ call'[c].op = "build" => call'[c].t = builds[call'[c].b].of
  /\ call'[c].op = "new" => /\ builds[call'[c].b].of = "none"
                            /\ \A d \in Calls : call[d].op = "new" => call[d].b # call'[c].b

\* Every request makes a fresh call.
LEMMA Requests ==
  ASSUME ArtifactAssumption, Control, RowType, NewInv, NEW c \in Calls, Request(c)
  PROVE  Fresh(c)
<1>1. CallInv(c) /\ DOMAIN call = Calls
  BY DEF Control
<1>2. ASSUME NEW r, Begin(c, r), DOMAIN r = DOMAIN Idle,
             r.slot = 0, r.net = FALSE, r.ok = FALSE, r.kind \in Kinds,
             r.op \in OpNames, r.op # "unimage" => r.t \in Templates, r.op \in {"new", "build"} => r.b \in Builds,
             r.todo \in Todos(r.op, FALSE),
             <<r.op, Kind(r.todo)>> \in {<<"new", "ensure">>, <<"build", "load">>, <<"delete", "lookup">>,
               <<"convert", "lookup">>, <<"unimage", "lookimage">>, <<"export", "imagefree">>},
             r.op = "build" => r.t = builds[r.b].of,
             r.op = "new" => /\ builds[r.b].of = "none"
                             /\ \A d \in Calls : call[d].op = "new" => call[d].b # r.b
      PROVE  Fresh(c)
  <2>1. /\ call[c].op = "idle" /\ DOMAIN call' = Calls
        /\ \A d \in Calls \ {c} : call'[d] = call[d]
        /\ call'[c] = r
    BY <1>1, <1>2 DEF Begin
  <2>2. Doing(c)' = Kind(r.todo)
    BY <2>1 DEF Doing
  <2>3. CallInv(c)'
    BY <1>2, <2>1, <2>2 DEF CallInv
  <2> QED  BY <1>2, <2>1, <2>2, <2>3 DEF Fresh
<1>3. CASE RequestTemplate(c)
  <2>1. PICK t \in Templates, b \in Builds, k \in Kinds :
          /\ builds[b].of = "none" /\ \A d \in Calls : call[d].op = "new" => call[d].b # b
          /\ Begin(c, [Idle EXCEPT !.op = "new", !.t = t, !.b = b, !.kind = k, !.todo = NewSteps])
    BY <1>3 DEF RequestTemplate
  <2> DEFINE r == [Idle EXCEPT !.op = "new", !.t = t, !.b = b, !.kind = k, !.todo = NewSteps]
  <2>2. /\ DOMAIN r = DOMAIN Idle /\ r.slot = 0 /\ r.net = FALSE /\ r.ok = FALSE
        /\ r.kind = k /\ r.op = "new" /\ r.t = t /\ r.b = b /\ r.todo = NewSteps
    BY DEF Idle
  <2> HIDE DEF r
  <2>3. NewSteps \in Todos("new", FALSE) /\ Kind(NewSteps) = "ensure"
    BY Leaves, FailKinds
  <2> QED  BY <1>2, <2>1, <2>2, <2>3 DEF OpNames, r
<1>4. CASE RequestBuild(c)
  <2>1. PICK b \in Builds, s \in Sources :
          /\ builds[b].st # "none"
          /\ Begin(c, [Idle EXCEPT !.op = "build", !.t = builds[b].of, !.b = b, !.src = s, !.todo = ClaimSteps])
    BY <1>4 DEF RequestBuild
  <2> DEFINE r == [Idle EXCEPT !.op = "build", !.t = builds[b].of, !.b = b, !.src = s, !.todo = ClaimSteps]
  <2>2. /\ DOMAIN r = DOMAIN Idle /\ r.slot = 0 /\ r.net = FALSE /\ r.ok = FALSE
        /\ r.kind \in Kinds /\ r.op = "build" /\ r.t = builds[b].of /\ r.b = b /\ r.todo = ClaimSteps
    BY DEF Idle, Kinds
  <2> HIDE DEF r
  <2>3. ClaimSteps \in Todos("build", FALSE) /\ Kind(ClaimSteps) = "load"
    BY Leaves, FailKinds
  <2>4. builds[b].of \in Templates
    BY <2>1 DEF RowType, NewInv
  <2> QED  BY <1>2, <2>1, <2>2, <2>3, <2>4 DEF OpNames, r
<1>5. CASE RequestImage(c)
  <2>1. PICK t \in Templates, i \in Images :
          Begin(c, [Idle EXCEPT !.op = "export", !.t = t, !.i = i, !.todo = ExportBegin])
    BY <1>5 DEF RequestImage
  <2> DEFINE r == [Idle EXCEPT !.op = "export", !.t = t, !.i = i, !.todo = ExportBegin]
  <2>2. /\ DOMAIN r = DOMAIN Idle /\ r.slot = 0 /\ r.net = FALSE /\ r.ok = FALSE
        /\ r.kind \in Kinds /\ r.op = "export" /\ r.t = t /\ r.todo = ExportBegin
    BY DEF Idle, Kinds
  <2> HIDE DEF r
  <2>3. ExportBegin \in Todos("export", FALSE) /\ Kind(ExportBegin) = "imagefree"
    BY Leaves, FailKinds
  <2> QED  BY <1>2, <2>1, <2>2, <2>3 DEF OpNames, r
<1>6. CASE RequestDelete(c)
  <2>1. PICK t \in Templates : Begin(c, [Idle EXCEPT !.op = "delete", !.t = t, !.todo = DeleteSteps])
    BY <1>6 DEF RequestDelete
  <2> DEFINE r == [Idle EXCEPT !.op = "delete", !.t = t, !.todo = DeleteSteps]
  <2>2. /\ DOMAIN r = DOMAIN Idle /\ r.slot = 0 /\ r.net = FALSE /\ r.ok = FALSE
        /\ r.kind \in Kinds /\ r.op = "delete" /\ r.t = t /\ r.todo = DeleteSteps
    BY DEF Idle, Kinds
  <2> HIDE DEF r
  <2>3. DeleteSteps \in Todos("delete", FALSE) /\ Kind(DeleteSteps) = "lookup"
    BY Leaves, FailKinds
  <2> QED  BY <1>2, <2>1, <2>2, <2>3 DEF OpNames, r
<1>7. CASE RequestConvert(c)
  <2>1. PICK t \in Templates, i \in Images :
          Begin(c, [Idle EXCEPT !.op = "convert", !.t = t, !.i = i, !.todo = ConvertSteps])
    BY <1>7 DEF RequestConvert
  <2> DEFINE r == [Idle EXCEPT !.op = "convert", !.t = t, !.i = i, !.todo = ConvertSteps]
  <2>2. /\ DOMAIN r = DOMAIN Idle /\ r.slot = 0 /\ r.net = FALSE /\ r.ok = FALSE
        /\ r.kind \in Kinds /\ r.op = "convert" /\ r.t = t /\ r.todo = ConvertSteps
    BY DEF Idle, Kinds
  <2> HIDE DEF r
  <2>3. ConvertSteps \in Todos("convert", FALSE) /\ Kind(ConvertSteps) = "lookup"
    BY Leaves, FailKinds
  <2> QED  BY <1>2, <2>1, <2>2, <2>3 DEF OpNames, r
<1>8. CASE RequestUnimage(c)
  <2>1. PICK i \in Images : Begin(c, [Idle EXCEPT !.op = "unimage", !.i = i, !.todo = UnimageSteps])
    BY <1>8 DEF RequestUnimage
  <2> DEFINE r == [Idle EXCEPT !.op = "unimage", !.i = i, !.todo = UnimageSteps]
  <2>2. /\ DOMAIN r = DOMAIN Idle /\ r.slot = 0 /\ r.net = FALSE /\ r.ok = FALSE
        /\ r.kind \in Kinds /\ r.op = "unimage" /\ r.todo = UnimageSteps
    BY DEF Idle, Kinds
  <2> HIDE DEF r
  <2>3. UnimageSteps \in Todos("unimage", FALSE) /\ Kind(UnimageSteps) = "lookimage"
    BY Leaves, FailKinds
  <2> QED  BY <1>2, <2>1, <2>2, <2>3 DEF OpNames, r
<1> QED  BY <1>3, <1>4, <1>5, <1>6, <1>7, <1>8 DEF Request

\* Which rows a step changes, and which steps it can be.
LEMMA OtherSteps ==
  ASSUME Control, NEW c \in Calls, Step(c)
  PROVE  /\ \/ AddRow(c) \/ Record(c) \/ DeleteRow(c) \/ AddBuild(c) \/ Claim(c) \/ Failed(c) \/ Ready(c)
            \/ UNCHANGED <<rows, builds>>
         /\ AddRow(c) \/ Record(c) => builds' = builds
         /\ Doing(c) = "load" => LoadBuild(c)
         /\ Doing(c) = "claim" => Claim(c)
         /\ Doing(c) = "failed" => Failed(c)
         /\ Doing(c) = "ready" => Ready(c)
         /\ Doing(c) = "record" => Record(c)
<1>1. CallInv(c)
  BY DEF Control
<1>2. \A k : At(c, k) => (k # "copyout" => Doing(c) = k)
  BY <1>1, Names
<1>3. At(c, "copyout") => Doing(c) \in {"copyout", "copydir"}
  BY <1>1, Names
<1>4. \/ /\ AddRow(c) \/ Record(c) \/ DeleteRow(c) \/ AddBuild(c) \/ Claim(c) \/ Failed(c) \/ Ready(c)
      \/ UNCHANGED <<rows, builds>>
  BY DEF Step, Ensure, LoadBuild, ChoosePaths, Lookup, RemoveDir, ImageFree, OwnImage, ShareImage, AddImage,
     LookImage, DeleteImage, RemoveImage, StartShim, PickSlot, PrepareNet, CreateRuntime, ResumeRuntime, Boot,
     RunCommands, Seal, Cleanup, Materialize, Inject, CopyMemory, CopyWork, Aside, Swap, Halt, CopyOut, Unlink,
     PutBack, DropWork, store
<1>5. AddRow(c) \/ Record(c) => builds' = builds
  BY DEF AddRow, Record
<1>6. Doing(c) \in {"load", "claim", "failed", "ready", "record"} =>
        LoadBuild(c) \/ Claim(c) \/ Failed(c) \/ Ready(c) \/ Record(c)
  BY <1>2, <1>3 DEF Step, Ensure, AddRow, AddBuild, DeleteRow, ChoosePaths, Lookup, RemoveDir, ImageFree,
     OwnImage, ShareImage, LookImage, DeleteImage, RemoveImage, StartShim, PickSlot, PrepareNet, CreateRuntime,
     ResumeRuntime, Boot, RunCommands, Seal, Cleanup, Materialize, Inject, CopyMemory, CopyWork, Aside, Swap,
     Halt, CopyOut, Unlink, PutBack, DropWork
<1>7. /\ LoadBuild(c) => Doing(c) = "load"
      /\ Claim(c) => Doing(c) = "claim"
      /\ Failed(c) => Doing(c) = "failed"
      /\ Ready(c) => Doing(c) = "ready"
      /\ Record(c) => Doing(c) = "record"
  BY <1>2 DEF LoadBuild, Claim, Failed, Ready, Record
<1> QED  BY <1>4, <1>5, <1>6, <1>7

\* The rows and the calls keep their form, and a step by its kind.
LEMMA ControlKept ==
  ASSUME ArtifactAssumption, Control, RowType, NewInv, [Next]_vars
  PROVE  Control' /\ RowType'
<1>1. \A c \in Calls : CallInv(c)
  BY DEF Control
<1>2. CASE UNCHANGED vars
  BY <1>2 DEF vars, store, Control, CallInv, Doing, RowType
<1>3. ASSUME NEW c \in Calls, Request(c)
      PROVE  Control' /\ RowType'
  <2>1. Fresh(c)
    BY <1>3, Requests
  <2>2. UNCHANGED <<rows, builds>>
    BY <1>3 DEF Request, RequestTemplate, RequestBuild, RequestImage, RequestDelete, RequestConvert,
       RequestUnimage, Begin, store
  <2>3. \A d \in Calls \ {c} : CallInv(d)'
    BY <1>1, <2>1 DEF Fresh, CallInv, Doing
  <2> QED  BY <2>1, <2>2, <2>3 DEF Fresh, Control, RowType
<1>4. ASSUME NEW c \in Calls, GuestWrites(c)
      PROVE  Control' /\ RowType'
  BY <1>4 DEF GuestWrites, store, Control, CallInv, Doing, RowType
<1>5. ASSUME NEW c \in Calls, Step(c)
      PROVE  Control' /\ RowType'
  <2>1. Moved(c)
    BY <1>5, Steps
  <2>2. \A d \in Calls \ {c} : CallInv(d)'
    BY <1>1, <2>1 DEF Moved, CallInv, Doing
  <2>3. Control'
    BY <2>1, <2>2 DEF Moved, Control
  <2>4. RowType'
    <3>1. Doing(c) \in {"addrow", "record", "delrow", "addbuild", "claim", "failed", "ready"} => call[c].op \in {"new", "build", "delete"}
      BY <2>1 DEF Moved, Goes
    <3>2. /\ AddRow(c) \/ Record(c) \/ DeleteRow(c) \/ AddBuild(c) => call[c].t \in Templates
      BY <1>1, <3>1, Names DEF AddRow, Record, DeleteRow, AddBuild, CallInv
    <3>3. CASE AddRow(c) \/ Record(c)
      BY <1>1, <3>2, <3>3 DEF AddRow, Record, RowType, CallInv
    <3>4. CASE DeleteRow(c)
      BY <3>2, <3>4 DEF DeleteRow, RowType
    <3>5. CASE AddBuild(c)
      BY <3>2, <3>5 DEF AddBuild, RowType
    <3>6. CASE Claim(c) \/ Failed(c) \/ Ready(c)
      <4>1. \E st \in {"building", "error", "ready"} : builds' \in {builds, [builds EXCEPT ![call[c].b].st = st]}
        BY <3>6 DEF Claim, Failed, Ready, Ends, SetBuild
      <4>2. rows' = rows
        BY <3>6 DEF Claim, Failed, Ready, Ends
      <4> QED  BY <4>1, <4>2 DEF RowType
    <3>7. CASE UNCHANGED <<rows, builds>>
      BY <3>7 DEF RowType
    <3>8. \/ AddRow(c) \/ Record(c) \/ DeleteRow(c) \/ AddBuild(c) \/ Claim(c) \/ Failed(c) \/ Ready(c)
          \/ UNCHANGED <<rows, builds>>
      BY <1>5, OtherSteps
    <3> QED  BY <3>3, <3>4, <3>5, <3>6, <3>7, <3>8
  <2> QED  BY <2>3, <2>4
<1> QED  BY <1>2, <1>3, <1>4, <1>5 DEF Next, Request

\* Builds: the invariant is kept.
LEMMA RowsKept ==
  ASSUME ArtifactAssumption, Control, RowType, RowInv, [Next]_vars
  PROVE  RowInv'
<1>1. \A c \in Calls : CallInv(c)
  BY DEF Control
<1>2. CASE UNCHANGED vars
  BY <1>2 DEF vars, store, RowInv, NewInv, BuildInv, OneHolder, Tended, ReadyHasTemplate, Holding, Doing, history
<1>3. ASSUME NEW c \in Calls, Request(c)
      PROVE  RowInv'
  <2>1. Fresh(c)
    BY <1>3, Requests DEF RowInv
  <2>2. UNCHANGED <<rows, builds, refused>>
    BY <1>3 DEF Request, RequestTemplate, RequestBuild, RequestImage, RequestDelete, RequestConvert,
       RequestUnimage, Begin, store
  <2>3. /\ \A d \in Calls \ {c} : call'[d] = call[d] /\ Doing(d)' = Doing(d) /\ Holding(d)' = Holding(d)
        /\ call[c].op = "idle" /\ ~Holding(c) /\ ~Holding(c)'
    BY <2>1 DEF Fresh, Holding, Doing
  <2>4. NewInv'
    BY <2>1, <2>2, <2>3 DEF RowInv, NewInv, Fresh
  <2>5. BuildInv'
    BY <2>1, <2>2, <2>3 DEF RowInv, BuildInv, Fresh
  <2>6. OneHolder' /\ ReadyHasTemplate'
    BY <2>2, <2>3 DEF RowInv, OneHolder, ReadyHasTemplate
  <2>7. Tended'
    BY <2>2, <2>3 DEF RowInv, Tended
  <2> QED  BY <2>4, <2>5, <2>6, <2>7 DEF RowInv
<1>4. ASSUME NEW c \in Calls, GuestWrites(c)
      PROVE  RowInv'
  BY <1>4 DEF GuestWrites, store, RowInv, NewInv, BuildInv, OneHolder, Tended, ReadyHasTemplate, Holding,
     Doing, history
<1>5. ASSUME NEW c \in Calls, Step(c)
      PROVE  RowInv'
  <2>1. Moved(c) /\ Active(c)
    BY <1>5, Steps
  <2>2. CASE LoadBuild(c) \/ Claim(c) \/ Failed(c) \/ Ready(c) \/ AddBuild(c) \/ DeleteRow(c)
    BY <2>1, <2>2, BuildsChange
  <2>3. CASE ~(LoadBuild(c) \/ Claim(c) \/ Failed(c) \/ Ready(c) \/ AddBuild(c) \/ DeleteRow(c))
    <3>1. /\ builds' = builds /\ Doing(c) \notin {"load", "claim", "failed", "ready"}
          /\ AddRow(c) \/ Record(c) \/ rows' = rows
      BY <1>5, <2>3, OtherSteps
    <3>2. \A t \in Templates : rows[t] # "none" => rows'[t] # "none"
      BY <1>1, <3>1 DEF AddRow, Record, CallInv, Kinds, RowType
    <3>3. ASSUME call[c].op = "build", Doing(c)' = "ready"
          PROVE  rows'[call[c].t] # "none"
      <4>1. Doing(c) = "record" /\ call[c].t \in Templates
        BY <1>1, <2>1, <3>3 DEF Moved, Goes, CallInv
      <4>2. Kind(Err(c)) = "failed"
        BY <1>1, <2>1, <4>1, Moves
      <4>3. Record(c)
        BY <1>5, <4>1, OtherSteps
      <4>4. ~Then(c, Err(c))
        BY <1>1, <3>3, <4>2 DEF Then, Doing, CallInv, Idle, Control
      <4> QED  BY <1>1, <4>1, <4>3, <4>4 DEF Record, RowType, CallInv, Kinds
    <3> QED  BY <2>1, <3>1, <3>2, <3>3, Noted, BuildsKept
  <2> QED  BY <2>2, <2>3
<1> QED  BY <1>2, <1>3, <1>4, <1>5 DEF Next, Request

\* The initial states.
LEMMA AtFirst ==
  ASSUME ArtifactAssumption, Init
  PROVE  Control /\ RowType /\ RowInv
<1>1. \A c \in Calls : call[c] = Idle
  BY DEF Init
<1>2. \A c \in Calls : Doing(c) = "rest" /\ call[c].op = "idle"
  BY <1>1, FailKinds DEF Doing, Idle
<1>3. << >> \in Todos("idle", FALSE)
  BY Leaves
<1>4. Control
  BY <1>1, <1>2, <1>3 DEF Init, Control, CallInv, Idle, Kinds
<1>5. /\ rows \in [Templates -> Kinds \cup {"none"}]
      /\ \E t \in Templates \cup {"none"}, st \in {"none", "waiting", "error"} :
           /\ t = "none" => st = "none"
           /\ builds = [b \in Builds |-> [of |-> t, st |-> st]]
  <2>1. PICK t0 \in Templates, there \in Kinds \cup {"none"}, st \in {"none", "waiting", "error"} :
          /\ rows = [t \in Templates |-> IF t = t0 THEN there ELSE "none"]
          /\ builds = [b \in Builds |-> [of |-> IF st = "none" THEN "none" ELSE t0, st |-> st]]
    BY DEF Init
  <2> QED  BY <2>1
<1>6. RowType /\ \A b \in Builds : builds[b].st \notin {"building", "ready"} /\ (builds[b].of = "none" => builds[b].st = "none")
  BY <1>5 DEF RowType
<1>7. RowInv
  BY <1>2, <1>6 DEF RowInv, NewInv, BuildInv, OneHolder, Holding, Tended, ReadyHasTemplate
<1> QED  BY <1>4, <1>6, <1>7

-----------------------------------------------------------------------------
(***************************************************************************)
(* Build sandboxes                                                         *)
(***************************************************************************)
\* The steps before there is a build sandbox, and those made while it is there.
Before == {"load", "claim", "paths", "materialize", "inject", "shim", "imagefree", "lookup", "memfiles", "copydir"}
Boxed  == {"pick", "net", "create", "commands", "seal", "cleanup", "workcopy", "aside", "swap", "resume",
           "halt", "copyout", "unlink", "putback", "dropwork"}

Keeps(c) == c \in dirs \/ disk[c] # NoFile \/ \E n \in Slots : route[n] = c
Bare(c)  == call[c].op \notin {"build", "export"} \/ Doing(c) \in Before

\* A call has no sandbox before StartShim, no network before PrepareNet, and is stuck
\* only after its cleanup.
BoxInv(c) ==
  /\ Bare(c) => ~Keeps(c) /\ call[c].slot = 0 /\ ~call[c].net
  /\ Doing(c) = "pick" => /\ disk[c] = NoFile /\ \A n \in Slots : route[n] # c
                          /\ call[c].slot = 0 /\ ~call[c].net
  /\ Doing(c) = "net" \/ call[c].net => call[c].slot \in Slots
  /\ Doing(c) \in Boxed => c \in dirs
  /\ Doing(c) \in Boxed \ {"pick", "net", "cleanup"} => call[c].net
  /\ \A n \in Slots : route[n] = c => call[c].slot = n
  /\ c \in stuck => ~Bare(c) /\ Doing(c) \notin Boxed

\* A build, and an export that has its image, keeps no sandbox but in the steps before its cleanup.
LeaveInv(c) ==
  c \notin stuck /\ Keeps(c) /\ (call[c].op = "build" \/ call[c].ok) => Doing(c) \in Boxed

\* Calls that have a slot, from their pick to their cleanup; an export that fails has it ever after.
Holder(c) == c \in dirs \ stuck /\ (call[c].net \/ Doing(c) \in {"net", "cleanup"}) /\ call[c].slot # 0

\* Two calls have one slot only if they picked it with no Prepare between, or one blindly.
SlotInv == \A c, d \in Calls : c # d /\ Holder(c) /\ Holder(d) /\ call[c].slot = call[d].slot => call[c].slot \in raced

HostType == DOMAIN disk = Calls /\ DOMAIN route = Slots

SandboxInv == HostType /\ (\A c \in Calls : BoxInv(c) /\ LeaveInv(c)) /\ SlotInv /\ BuildKeepsRoute

\* A step of c leaves the sandboxes of other calls.
Apart(c) ==
  /\ DOMAIN disk' = Calls /\ DOMAIN route' = Slots
  /\ \A d \in Calls \ {c} : /\ call'[d] = call[d] /\ (d \in dirs' <=> d \in dirs) /\ disk'[d] = disk[d]
                            /\ (d \in stuck' <=> d \in stuck)
                            /\ \A n \in Slots : route'[n] = d => route[n] = d
  /\ stuck \subseteq stuck' /\ raced \subseteq raced'

\* What holds of the other calls goes on to hold.
LEMMA OthersApart ==
  ASSUME SandboxInv, NEW c \in Calls, Apart(c)
  PROVE  \A d \in Calls \ {c} : BoxInv(d)' /\ LeaveInv(d)' /\ Holder(d)' = Holder(d)
<1> SUFFICES ASSUME NEW d \in Calls \ {c}
             PROVE  BoxInv(d)' /\ LeaveInv(d)' /\ Holder(d)' = Holder(d)
  OBVIOUS
<1>1. /\ call'[d] = call[d] /\ Doing(d)' = Doing(d) /\ Bare(d)' = Bare(d)
      /\ d \in dirs' <=> d \in dirs
      /\ disk'[d] = disk[d] /\ (d \in stuck' <=> d \in stuck)
      /\ \A n \in Slots : route'[n] = d => route[n] = d
  BY DEF Apart, Doing, Bare
<1>2. Keeps(d)' => Keeps(d)
  BY <1>1 DEF Keeps
<1>3. BoxInv(d)'
  BY <1>1, <1>2 DEF SandboxInv, BoxInv
<1>4. LeaveInv(d)'
  BY <1>1, <1>2 DEF SandboxInv, LeaveInv
<1>5. Holder(d)' = Holder(d)
  BY <1>1 DEF Holder
<1> QED  BY <1>3, <1>4, <1>5

\* A step of c that changes no more of its sandbox than the disk its VM has open.
LEMMA BoxesStill ==
  ASSUME Control, SandboxInv, NEW c \in Calls, Moved(c), Apart(c),
         UNCHANGED <<dirs, route, stuck, raced>>,
         disk'[c] = disk[c] \/ Doing(c) \in {"create", "resume", "commands", "seal", "halt"},
         Doing(c) \notin {"shim", "pick", "net", "cleanup"}
  PROVE  SandboxInv'
<1>1. /\ call'[c].op = call[c].op /\ call'[c].slot = call[c].slot /\ call'[c].net = call[c].net
      /\ Goes(call[c].op, call[c].ok, Doing(c), Doing(c)')
      /\ Doing(c) \notin {"copyout", "copydir"} => call'[c].ok = call[c].ok
      /\ CallInv(c) /\ CallInv(c)'
  BY DEF Moved, Control
<1>2. Bare(c)' => Bare(c) /\ disk'[c] = disk[c]
  BY <1>1 DEF Bare, Before, Goes
<1>3. Doing(c)' \notin {"pick", "net"} /\ (Doing(c)' \in Boxed => Doing(c) \in Boxed)
  BY <1>1 DEF Goes, Boxed
<1>4. Doing(c) \in {"create", "resume", "commands", "seal", "halt"} => c \in dirs
  BY DEF SandboxInv, BoxInv, Boxed
<1>5. Keeps(c)' => Keeps(c)
  BY <1>4 DEF Keeps
<1>6. BoxInv(c)'
  BY <1>1, <1>2, <1>3, <1>5 DEF SandboxInv, BoxInv
<1>7. LeaveInv(c)'
  <2> SUFFICES ASSUME c \notin stuck, Keeps(c), call'[c].op = "build" \/ call'[c].ok
               PROVE  Doing(c)' \in Boxed
    BY <1>5 DEF LeaveInv
  <2>1. CASE Doing(c) = "copyout"
    BY <1>1, <2>1 DEF Goes, Boxed
  <2>2. CASE Doing(c) = "copydir"
    BY <2>2 DEF SandboxInv, BoxInv, Bare, Before
  <2>3. CASE Doing(c) \notin {"copyout", "copydir"}
    <3>1. Doing(c) \in Boxed \ {"cleanup"}
      BY <1>1, <2>3 DEF SandboxInv, LeaveInv
    <3> QED  BY <1>1, <2>3, <3>1 DEF Goes, Boxed, CallInv, Ended
  <2> QED  BY <2>1, <2>2, <2>3
<1>8. Holder(c)' => Holder(c) /\ call'[c].slot = call[c].slot
  BY <1>1, <1>3 DEF Holder, SandboxInv, BoxInv, Boxed, Goes
<1>9. \A d \in Calls \ {c} : BoxInv(d)' /\ LeaveInv(d)' /\ Holder(d)' = Holder(d) /\ call'[d] = call[d]
  BY OthersApart DEF Apart
<1>10. SlotInv'
  BY <1>8, <1>9 DEF SandboxInv, SlotInv
<1>11. BuildKeepsRoute'
  BY <1>1, <1>9 DEF SandboxInv, BuildKeepsRoute
<1> QED  BY <1>6, <1>7, <1>9, <1>10, <1>11 DEF SandboxInv, HostType, Apart

\* The steps that make a build sandbox, give it a slot and a route, and end it.
LEMMA BoxesChange ==
  ASSUME ArtifactAssumption, Control, SandboxInv, NEW c \in Calls, Active(c), Moved(c),
         StartShim(c) \/ PickSlot(c) \/ PrepareNet(c) \/ Cleanup(c)
  PROVE  SandboxInv'
<1>1. /\ call'[c].op = call[c].op
      /\ Doing(c) # "pick" => call'[c].slot = call[c].slot
      /\ Doing(c) # "net" => call'[c].net = call[c].net
      /\ Goes(call[c].op, call[c].ok, Doing(c), Doing(c)')
      /\ Doing(c) \notin {"copyout", "copydir"} => call'[c].ok = call[c].ok
      /\ CallInv(c) /\ CallInv(c)' /\ DOMAIN call = Calls
      /\ \A d \in Calls \ {c} : call'[d] = call[d] /\ Doing(d)' = Doing(d)
  BY DEF Moved, Control, Doing
<1>2. /\ StartShim(c) => Doing(c) = "shim"
      /\ PickSlot(c) => Doing(c) = "pick"
      /\ PrepareNet(c) => Doing(c) = "net"
      /\ Cleanup(c) => Doing(c) = "cleanup"
  <2>1. \A k : At(c, k) /\ k # "copyout" => Doing(c) = k
    BY <1>1, Names
  <2> QED  BY <2>1 DEF StartShim, PickSlot, PrepareNet, Cleanup
<1>3. NoFile \notin Calls
  BY DEF ArtifactAssumption
<1>4. Apart(c) => \A d \in Calls \ {c} : BoxInv(d)' /\ LeaveInv(d)' /\ Holder(d)' = Holder(d) /\ call'[d] = call[d]
  BY OthersApart DEF Apart
<1>5. /\ BoxInv(c) /\ LeaveInv(c) /\ HostType
      /\ \A d \in Calls : BoxInv(d)
  BY DEF SandboxInv
<1>6. CASE StartShim(c)
  <2>1. /\ Doing(c) = "shim" /\ Doing(c)' \in {"pick", "cleanup", "rest"}
        /\ call[c].slot = 0 /\ ~call[c].net /\ ~Keeps(c) /\ c \notin stuck
        /\ call[c].op = "build" => Doing(c)' \in {"pick", "cleanup"}
        /\ call[c].op \in {"build", "export"} /\ ~call[c].ok
    BY <1>1, <1>2, <1>5, <1>6 DEF Goes, BoxInv, Bare, Before, CallInv, Ended
  <2>2. dirs' = dirs \cup {c} /\ UNCHANGED <<disk, route, stuck, raced>>
    BY <1>6 DEF StartShim, history
  <2>3. Apart(c)
    BY <1>1, <1>5, <2>2 DEF Apart, HostType
  <2>4. BoxInv(c)'
    BY <1>1, <2>1, <2>2 DEF BoxInv, Bare, Before, Boxed, Keeps
  <2>5. LeaveInv(c)'
    BY <1>1, <2>1 DEF LeaveInv, Boxed
  <2>6. ~Holder(c)'
    BY <1>1, <2>1 DEF Holder
  <2>7. SlotInv'
    BY <1>4, <2>2, <2>3, <2>6 DEF SandboxInv, SlotInv
  <2>8. BuildKeepsRoute'
    BY <1>1, <1>4, <2>1, <2>2, <2>3 DEF SandboxInv, BuildKeepsRoute
  <2> QED  BY <1>4, <2>3, <2>4, <2>5, <2>7, <2>8 DEF SandboxInv, HostType, Apart
<1>7. CASE PickSlot(c)
  <2>1. /\ Doing(c) = "pick" /\ Doing(c)' \in {"net", "cleanup", "rest"} /\ ~call[c].ok
        /\ call[c].op = "build" => Doing(c)' \in {"net", "cleanup"}
        /\ call[c].op \in {"build", "export"}
        /\ disk[c] = NoFile /\ call[c].slot = 0 /\ ~call[c].net /\ c \in dirs \ stuck
        /\ \A n \in Slots : route[n] # c
    BY <1>1, <1>2, <1>5, <1>7 DEF Goes, BoxInv, Boxed, CallInv, Ended
  <2>2. UNCHANGED <<dirs, disk, route, stuck>> /\ raced \subseteq raced' /\ call'[c].net = call[c].net
    BY <1>1, <1>7, <2>1 DEF PickSlot, Picks, host
  <2>3. Apart(c)
    BY <1>1, <1>5, <2>2 DEF Apart, HostType
  <2>4. CASE Then(c, Err(c))
    <3>1. Doing(c)' \in {"cleanup", "rest"} /\ call'[c].slot = 0
      <4>1. call'[c].todo = Err(c) /\ call'[c].slot = call[c].slot
        BY <1>1, <2>4 DEF Then, CallInv, Idle
      <4>2. Kind(Err(c)) \in {"cleanup", "rest"}
        BY <1>1, <2>1, Moves
      <4> QED  BY <2>1, <4>1, <4>2 DEF Doing
    <3>2. BoxInv(c)' /\ LeaveInv(c)' /\ ~Holder(c)'
      BY <1>1, <2>1, <2>2, <3>1 DEF BoxInv, LeaveInv, Holder, Bare, Before, Boxed
    <3>3. SlotInv'
      BY <1>4, <2>2, <2>3, <3>2 DEF SandboxInv, SlotInv
    <3>4. BuildKeepsRoute'
      BY <1>4, <2>1, <2>2, <2>3 DEF SandboxInv, BuildKeepsRoute
    <3> QED  BY <1>4, <2>3, <3>2, <3>3, <3>4 DEF SandboxInv, HostType, Apart
  <2>5. CASE ~Then(c, Err(c))
    <3>1. PICK n \in Slots : /\ route[n] # NoFile => n \in raced'
                             /\ call' = [call EXCEPT ![c].slot = n, ![c].todo = Tail(@)]
                             /\ Unprepared(c, n) => n \in raced'
      BY <1>7, <2>5 DEF PickSlot, Picks
    <3>2. call'[c].slot = n
      BY <1>1, <3>1 DEF CallInv, Idle
    <3>3. BoxInv(c)' /\ LeaveInv(c)'
      BY <1>1, <2>1, <2>2, <3>2 DEF BoxInv, LeaveInv, Bare, Before, Boxed
    <3>4. ASSUME NEW d \in Calls \ {c}, Holder(d), call[d].slot = n PROVE n \in raced'
      <4>1. CASE call[d].net
        <5>1. d \in dirs \ stuck /\ (route[n] = d => n \in raced')
          BY <1>3, <3>1, <3>4 DEF Holder
        <5> QED  BY <2>2, <3>4, <4>1, <5>1 DEF SandboxInv, BuildKeepsRoute
      <4>2. CASE ~call[d].net
        <5>1. Active(d)
          BY <3>4, <4>2, Names DEF Holder, Control
        <5> QED  BY <3>1, <3>4, <4>2, <5>1 DEF Unprepared
      <4> QED  BY <4>1, <4>2
    <3>5. SlotInv'
      BY <1>4, <2>2, <2>3, <3>2, <3>4 DEF SandboxInv, SlotInv
    <3>6. BuildKeepsRoute'
      BY <1>4, <2>1, <2>2, <2>3 DEF SandboxInv, BuildKeepsRoute
    <3> QED  BY <1>4, <2>3, <3>3, <3>5, <3>6 DEF SandboxInv, HostType, Apart
  <2> QED  BY <2>4, <2>5
<1>8. CASE PrepareNet(c)
  <2>1. /\ Doing(c) = "net" /\ Doing(c)' \in {"create", "workcopy", "cleanup", "rest"} /\ ~call[c].ok
        /\ call[c].op = "build" => Doing(c)' \in {"create", "cleanup"}
        /\ call[c].op \in {"build", "export"}
        /\ call[c].slot \in Slots /\ c \in dirs \ stuck /\ call'[c].slot = call[c].slot
        /\ \A n \in Slots : route[n] = c => call[c].slot = n
    BY <1>1, <1>2, <1>5, <1>8 DEF Goes, BoxInv, Boxed, CallInv, Ended
  <2>2. UNCHANGED <<dirs, disk, stuck, raced>> /\ route' \in {route, [route EXCEPT ![call[c].slot] = c]}
    BY <1>8 DEF PrepareNet, history
  <2>3. DOMAIN route' = Slots /\ \A n \in Slots : route'[n] = route[n] \/ (n = call[c].slot /\ route'[n] = c)
    BY <1>5, <2>2 DEF HostType
  <2>4. Apart(c)
    BY <1>1, <1>5, <2>2, <2>3 DEF Apart, HostType
  <2>5. \/ call'[c].net /\ route'[call[c].slot] = c
        \/ call'[c].net = call[c].net /\ Doing(c)' \in {"cleanup", "rest"}
    <3>1. CASE Then(c, Err(c))
      <4>1. call'[c].todo = Err(c) /\ call'[c].net = call[c].net
        BY <1>1, <3>1 DEF Then, CallInv, Idle
      <4>2. Kind(Err(c)) \in {"cleanup", "rest"}
        BY <1>1, <2>1, Moves
      <4> QED  BY <4>1, <4>2 DEF Doing
    <3>2. CASE ~Then(c, Err(c))
      <4>1. /\ route' = [route EXCEPT ![call[c].slot] = c]
            /\ call' = [call EXCEPT ![c].net = TRUE, ![c].todo = Tail(@)]
        BY <1>8, <3>2 DEF PrepareNet
      <4> QED  BY <1>1, <1>5, <2>1, <4>1 DEF CallInv, Idle, HostType
    <3> QED  BY <3>1, <3>2
  <2>6. BoxInv(c)'
    BY <1>1, <1>5, <2>1, <2>2, <2>3, <2>5 DEF BoxInv, Bare, Before, Boxed
  <2>7. LeaveInv(c)'
    BY <1>1, <2>1 DEF LeaveInv, Boxed
  <2>8. Holder(c) /\ (Holder(c)' => call'[c].slot = call[c].slot)
    <3>1. call[c].slot # 0 /\ c \notin stuck
      BY <1>5, <2>1 DEF Slots, BoxInv, Boxed
    <3> QED  BY <2>1, <3>1 DEF Holder
  <2>9. SlotInv'
    BY <1>4, <2>2, <2>4, <2>8 DEF SandboxInv, SlotInv
  <2>10. BuildKeepsRoute'
    <3>1. ASSUME NEW d \in Calls \ {c}, d \in dirs \ stuck, call[d].net, call[d].slot \notin raced
          PROVE  route'[call[d].slot] = d
      <4>1. call[d].slot \in Slots /\ route[call[d].slot] = d
        BY <1>5, <3>1 DEF SandboxInv, BuildKeepsRoute, BoxInv
      <4>2. Holder(d)
        BY <3>1, <4>1 DEF Holder, Slots
      <4>3. call[d].slot # call[c].slot
        BY <2>8, <3>1, <4>2 DEF SandboxInv, SlotInv
      <4> QED  BY <2>3, <4>1, <4>3
    <3>2. ASSUME call'[c].net, call[c].slot \notin raced
          PROVE  route'[call[c].slot] = c
      BY <2>1, <2>3, <2>5, <3>2 DEF SandboxInv, BuildKeepsRoute
    <3> QED  BY <1>1, <2>1, <2>2, <3>1, <3>2 DEF BuildKeepsRoute
  <2> QED  BY <1>4, <2>4, <2>6, <2>7, <2>9, <2>10 DEF SandboxInv, HostType, Apart
<1>9. CASE Cleanup(c)
  <2>1. /\ Doing(c) = "cleanup" /\ Doing(c)' \in {"record", "failed", "own", "rest"}
        /\ call[c].op \in {"build", "export"} /\ c \in dirs
        /\ call'[c].slot = call[c].slot /\ call'[c].net = call[c].net
    BY <1>1, <1>2, <1>5, <1>9 DEF Goes, BoxInv, Boxed
  <2> DEFINE cut == [n \in Slots |-> IF n = call[c].slot THEN NoFile ELSE route[n]]
  <2>2. /\ disk' \in {disk, [disk EXCEPT ![c] = NoFile]} /\ raced' = raced
        /\ dirs' \in {dirs, dirs \ {c}} /\ route' \in {route, cut}
        /\ \/ stuck' = stuck \cup {c}
           \/ stuck' = stuck /\ dirs' = dirs \ {c} /\ route' = cut /\ disk'[c] = NoFile
    BY <1>9 DEF Cleanup, Killed
  <2>3. DOMAIN route' = Slots /\ \A n \in Slots : route'[n] = route[n] \/ (n = call[c].slot /\ route'[n] = NoFile)
    BY <1>5, <2>2 DEF HostType
  <2>4. Apart(c)
    BY <1>1, <1>3, <1>5, <2>2, <2>3 DEF Apart, HostType
  <2>5. BoxInv(c)'
    BY <1>1, <1>3, <1>5, <2>1, <2>2, <2>3 DEF BoxInv, Bare, Before, Boxed
  <2>6. c \notin stuck' => ~Keeps(c)'
    <3>1. c \notin stuck' => disk'[c] = NoFile
      BY <2>2
    <3>2. c \notin stuck' => c \notin dirs' /\ \A n \in Slots : route'[n] # c
      BY <1>3, <1>5, <2>2 DEF BoxInv
    <3> QED  BY <3>1, <3>2 DEF Keeps
  <2>7. LeaveInv(c)'
    BY <2>6 DEF LeaveInv
  <2>8. Holder(c)' => Holder(c)
    BY <1>1, <2>1, <2>2 DEF Holder
  <2>9. SlotInv'
    BY <1>4, <2>1, <2>2, <2>4, <2>8 DEF SandboxInv, SlotInv
  <2>10. BuildKeepsRoute'
    <3>1. ASSUME NEW d \in Calls \ {c}, d \in dirs \ stuck, call[d].net, call[d].slot \notin raced
          PROVE  route'[call[d].slot] = d
      <4>1. call[d].slot \in Slots /\ route[call[d].slot] = d
        BY <1>5, <3>1 DEF SandboxInv, BuildKeepsRoute, BoxInv
      <4>2. Holder(d) /\ call[d].slot # 0
        BY <3>1, <4>1 DEF Holder, Slots
      <4>3. call[d].slot # call[c].slot
        <5>1. call[c].slot # 0 => Holder(c)
          BY <1>5, <2>1 DEF Holder, BoxInv, Boxed
        <5> QED  BY <3>1, <4>2, <5>1 DEF SandboxInv, SlotInv
      <4> QED  BY <2>3, <4>1, <4>3
    <3>2. c \notin stuck' => c \notin dirs'
      BY <2>2
    <3> QED  BY <1>1, <2>1, <2>2, <3>1, <3>2 DEF BuildKeepsRoute
  <2> QED  BY <1>4, <2>4, <2>5, <2>7, <2>9, <2>10 DEF SandboxInv, HostType, Apart
<1> QED  BY <1>6, <1>7, <1>8, <1>9

\* Which steps change a sandbox.
LEMMA StillSteps ==
  ASSUME Control, NEW c \in Calls, Step(c), DOMAIN disk = Calls,
         ~(StartShim(c) \/ PickSlot(c) \/ PrepareNet(c) \/ Cleanup(c))
  PROVE  /\ UNCHANGED <<dirs, route, stuck, raced>> /\ DOMAIN disk' = DOMAIN disk
         /\ \A d \in Calls \ {c} : disk'[d] = disk[d]
         /\ disk'[c] = disk[c] \/ Doing(c) \in {"create", "resume", "commands", "seal", "halt"}
         /\ Doing(c) \notin {"shim", "pick", "net", "cleanup"}
<1>1. /\ \A k : At(c, k) => (k # "copyout" => Doing(c) = k)
      /\ At(c, "copyout") => Doing(c) \in {"copyout", "copydir"}
  BY Names DEF Control
<1>2. Doing(c) \notin {"shim", "pick", "net", "cleanup"}
  BY <1>1 DEF Step, Ensure, AddRow, AddBuild, LoadBuild, Claim, Failed, Ready, Record, DeleteRow, ChoosePaths,
     Lookup, RemoveDir, ImageFree, OwnImage, ShareImage, LookImage, DeleteImage, RemoveImage, CreateRuntime,
     ResumeRuntime, Boot, RunCommands, Seal, Materialize, Inject, CopyMemory, CopyWork, Aside, Swap, Halt,
     CopyOut, Unlink, PutBack, DropWork
<1>3. CASE CreateRuntime(c) \/ ResumeRuntime(c) \/ RunCommands(c) \/ Seal(c) \/ Halt(c)
  <2>1. Doing(c) \in {"create", "resume", "commands", "seal", "halt"}
    BY <1>1, <1>3 DEF CreateRuntime, ResumeRuntime, Boot, RunCommands, Seal, Halt
  <2>2. UNCHANGED <<dirs, route, stuck, raced>>
    BY <1>3 DEF CreateRuntime, ResumeRuntime, Boot, RunCommands, Seal, Halt, history
  <2>3. \E f : disk' \in {disk, [disk EXCEPT ![c] = f]}
    BY <1>3 DEF CreateRuntime, ResumeRuntime, Boot, RunCommands, Seal, Halt, Killed
  <2> QED  BY <1>2, <2>1, <2>2, <2>3
<1>4. CASE ~(CreateRuntime(c) \/ ResumeRuntime(c) \/ RunCommands(c) \/ Seal(c) \/ Halt(c))
  <2>1. UNCHANGED <<dirs, route, disk, stuck, raced>>
    BY <1>4 DEF Step, Ensure, AddRow, AddBuild, LoadBuild, Claim, Failed, Ready, Record, DeleteRow, ChoosePaths,
       Lookup, RemoveDir, ImageFree, OwnImage, ShareImage, AddImage, LookImage, DeleteImage, RemoveImage,
       Materialize, Inject, CopyMemory, CopyWork, Aside, Swap, CopyOut, Unlink, PutBack, DropWork, Ends, host, history
  <2> QED  BY <1>2, <2>1
<1> QED  BY <1>3, <1>4

\* Sandboxes: the invariant is kept.
LEMMA BoxesKept ==
  ASSUME ArtifactAssumption, Control, RowType, NewInv, SandboxInv, [Next]_vars
  PROVE  SandboxInv'
<1>1. \A c \in Calls : CallInv(c)
  BY DEF Control
<1>2. CASE UNCHANGED vars
  BY <1>2 DEF vars, host, history, SandboxInv, HostType, BoxInv, LeaveInv, SlotInv, BuildKeepsRoute, Holder,
     Keeps, Bare, Doing
<1>3. ASSUME NEW c \in Calls, Request(c)
      PROVE  SandboxInv'
  <2>1. Fresh(c) /\ BoxInv(c)
    BY <1>3, Requests DEF SandboxInv
  <2>2. UNCHANGED <<dirs, disk, route, stuck, raced>>
    BY <1>3 DEF Request, RequestTemplate, RequestBuild, RequestImage, RequestDelete, RequestConvert,
       RequestUnimage, Begin, host
  <2>3. Apart(c)
    BY <2>1, <2>2 DEF Fresh, Apart, SandboxInv, HostType
  <2>4. ~Keeps(c)' /\ c \notin stuck'
    BY <2>1, <2>2 DEF Fresh, BoxInv, Bare, Keeps
  <2>5. /\ Doing(c)' \in Before \cup {"ensure", "lookimage"}
        /\ call'[c].slot = 0 /\ ~call'[c].net
    BY <2>1 DEF Fresh, Before
  <2>6. BoxInv(c)' /\ LeaveInv(c)' /\ ~Holder(c)'
    BY <2>4, <2>5 DEF BoxInv, LeaveInv, Holder, Before, Boxed, Keeps
  <2>7. \A d \in Calls \ {c} : BoxInv(d)' /\ LeaveInv(d)' /\ Holder(d)' = Holder(d) /\ call'[d] = call[d]
    BY <2>3, OthersApart DEF Apart
  <2>8. SlotInv'
    BY <2>2, <2>6, <2>7 DEF SandboxInv, SlotInv
  <2>9. BuildKeepsRoute'
    BY <2>2, <2>5, <2>7 DEF SandboxInv, BuildKeepsRoute
  <2> QED  BY <2>2, <2>6, <2>7, <2>8, <2>9 DEF SandboxInv, HostType
<1>4. ASSUME NEW c \in Calls, GuestWrites(c)
      PROVE  SandboxInv'
  BY <1>4 DEF GuestWrites, host, history, SandboxInv, HostType, BoxInv, LeaveInv, SlotInv, BuildKeepsRoute,
     Holder, Keeps, Bare, Doing
<1>5. ASSUME NEW c \in Calls, Step(c)
      PROVE  SandboxInv'
  <2>1. Moved(c) /\ Active(c)
    BY <1>5, Steps
  <2>2. CASE StartShim(c) \/ PickSlot(c) \/ PrepareNet(c) \/ Cleanup(c)
    BY <2>1, <2>2, BoxesChange
  <2>3. CASE ~(StartShim(c) \/ PickSlot(c) \/ PrepareNet(c) \/ Cleanup(c))
    <3>1. /\ UNCHANGED <<dirs, route, stuck, raced>> /\ DOMAIN disk' = DOMAIN disk
          /\ \A d \in Calls \ {c} : disk'[d] = disk[d]
          /\ disk'[c] = disk[c] \/ Doing(c) \in {"create", "resume", "commands", "seal", "halt"}
          /\ Doing(c) \notin {"shim", "pick", "net", "cleanup"}
      BY <1>5, <2>3, StillSteps DEF SandboxInv, HostType
    <3>2. Apart(c)
      BY <2>1, <3>1 DEF Moved, Apart, SandboxInv, HostType
    <3> QED  BY <2>1, <3>1, <3>2, BoxesStill
  <2> QED  BY <2>2, <2>3
<1> QED  BY <1>2, <1>3, <1>4, <1>5 DEF Next, Request

\* Builds, and the sandboxes of builds and exports, are kept in order: the inductive invariant.
THEOREM ArtifactsSafe == Spec => [](Control /\ RowType /\ RowInv /\ SandboxInv)
<1>1. Init => Control /\ RowType /\ RowInv /\ SandboxInv
  <2> SUFFICES ASSUME Init PROVE Control /\ RowType /\ RowInv /\ SandboxInv
    OBVIOUS
  <2>1. Control /\ RowType /\ RowInv
    BY AtFirst, ArtifactAssumption
  <2>2. /\ \A c \in Calls : call[c] = Idle /\ disk[c] = NoFile
        /\ dirs = {} /\ stuck = {} /\ DOMAIN disk = Calls /\ route = [n \in Slots |-> NoFile]
    BY DEF Init
  <2>3. \A c \in Calls : /\ Doing(c) = "rest" /\ call[c].op = "idle" /\ call[c].slot = 0
                         /\ call[c].net = FALSE /\ call[c].ok = FALSE
    BY <2>2, FailKinds DEF Doing, Idle
  <2>4. \A c \in Calls : ~Keeps(c) /\ ~Holder(c)
    BY <2>2, ArtifactAssumption DEF Keeps, Holder, ArtifactAssumption
  <2>5. \A c \in Calls : BoxInv(c) /\ LeaveInv(c)
    BY <2>2, <2>3, <2>4 DEF BoxInv, LeaveInv, Boxed, Keeps
  <2>6. SlotInv /\ BuildKeepsRoute /\ HostType
    BY <2>2, <2>3, <2>4 DEF SlotInv, BuildKeepsRoute, HostType
  <2> QED  BY <2>1, <2>5, <2>6 DEF SandboxInv
<1>2. Control /\ RowType /\ RowInv /\ SandboxInv /\ [Next]_vars => (Control /\ RowType /\ RowInv /\ SandboxInv)'
  BY ControlKept, RowsKept, BoxesKept, ArtifactAssumption DEF RowInv
<1> QED  BY <1>1, <1>2, PTL DEF Spec

\* A build is built by one request at a time: of the requests that read it as waiting
\* or failed, one gets past UpdateTemplateBuildStatus.
THEOREM BuildsAreExclusive == Spec => []BuildExclusive
<1>1. Control /\ RowInv => BuildExclusive
  BY Names DEF Control, RowInv, OneHolder, Holding, BuildExclusive
<1> QED  BY ArtifactsSafe, <1>1, PTL

\* A build that says building is being built, or the store refused its request's last
\* statement: whichever other steps fail, and however calls interleave.
THEOREM BuildsEnd == Spec => []NoStuckBuild
<1>1. Control /\ RowInv => NoStuckBuild
  BY Names DEF Control, RowInv, Tended, Holding, NoStuckBuild
<1> QED  BY ArtifactsSafe, <1>1, PTL

\* Whatever DeleteTemplate deletes meanwhile, a ready build has its template.
THEOREM ReadyTemplates == Spec => []ReadyHasTemplate
<1>1. RowInv => ReadyHasTemplate
  BY DEF RowInv
<1> QED  BY ArtifactsSafe, <1>1, PTL

\* A build, and an export that has its image, end without a sandbox, a VM or a route but
\* what their cleanup could not end or remove.
THEOREM NothingIsLeft == Spec => []BuildLeavesNothing
<1>1. Control /\ SandboxInv => BuildLeavesNothing
  BY Names DEF Control, SandboxInv, LeaveInv, Keeps, Boxed, BuildLeavesNothing
<1> QED  BY ArtifactsSafe, <1>1, PTL

\* A build sandbox keeps the route of its slot until its cleanup, unless the slot was picked
\* twice: with no Prepare between, or by a pick that did not see the routes.
THEOREM RoutesAreKept == Spec => []BuildKeepsRoute
<1>1. SandboxInv => BuildKeepsRoute
  BY DEF SandboxInv
<1> QED  BY ArtifactsSafe, <1>1, PTL

-----------------------------------------------------------------------------
(***************************************************************************)
(* Files.  A template's files are those of its path, of the exports and    *)
(* builds of it, and what their sandboxes have open: a step changes those  *)
(* of its own call's template only.                                        *)
(***************************************************************************)
FileType ==
  /\ DOMAIN root = Paths /\ DOMAIN data = Files
  /\ DOMAIN work = Calls /\ DOMAIN backup = Calls /\ DOMAIN disk = Calls
  /\ DOMAIN last = Templates /\ DOMAIN snap = Templates
  /\ DOMAIN images = Images /\ DOMAIN img = Images
  /\ \A c \in Calls : call[c].op \in {"export", "convert", "unimage"} => call[c].i \in Images
  /\ \A c \in Calls : call[c].op = "idle" => call[c].t = "none"

\* File f is one of template t, if h is the template of the earlier build.
Of(f, t, h) == \/ f = NoFile
               \/ f = Earlier /\ t = h
               \/ f \in Calls /\ call[f].op \in {"build", "export"} /\ call[f].t = t

Homes(h) ==
  /\ \A p \in Paths : Of(root[p], p[1], h)
  /\ \A c \in Calls : Of(work[c], call[c].t, h) /\ Of(backup[c], call[c].t, h) /\ Of(disk[c], call[c].t, h)

\* The operations that change a template.
Writers == {"new", "build", "delete", "export"}

\* All that a step of c reaches.
Reaches(c, h) ==
  LET t == call[c].t
      op == call[c].op IN
  /\ \A f \in Files : data'[f] # data[f] => op \in {"build", "export"} /\ f # NoFile /\ Of(f, t, h)
  /\ \A p \in Paths : root'[p] # root[p] => op \in Writers /\ p[1] = t /\ Of(root'[p], t, h)
  /\ \A u \in Templates : rows'[u] # rows[u] \/ last'[u] # last[u] \/ snap'[u] # snap[u] => op \in Writers /\ u = t
  /\ \A d \in Calls :
       /\ work'[d] # work[d] => op \in Writers /\ call[d].t = t /\ Of(work'[d], t, h)
       /\ backup'[d] # backup[d] => op \in Writers /\ call[d].t = t /\ Of(backup'[d], t, h)
       /\ disk'[d] # disk[d] => op \in {"build", "export"} /\ d = c /\ Of(disk'[d], t, h)
  /\ mixed' = mixed

\* A file is of one template.
LEMMA OneHome ==
  ASSUME ArtifactAssumption, NEW f, NEW t, NEW u, NEW h, Of(f, t, h), Of(f, u, h), f # NoFile
  PROVE  t = u
BY DEF Of, ArtifactAssumption

\* A step that leaves a call's steps only.
LEMMA ThenLeaves ==
  ASSUME Control, NEW c \in Calls, NEW steps, Then(c, steps)
  PROVE  /\ call'[c].todo = steps /\ Doing(c)' = Kind(steps)
         /\ call'[c].i = call[c].i /\ call'[c].kind = call[c].kind
         /\ call'[c].seen = call[c].seen /\ call'[c].mem = call[c].mem /\ call'[c].ok = call[c].ok
<1>1. CallInv(c) /\ DOMAIN call = Calls
  BY DEF Control
<1>2. /\ call'[c].todo = steps
      /\ call'[c].i = call[c].i /\ call'[c].kind = call[c].kind
      /\ call'[c].seen = call[c].seen /\ call'[c].mem = call[c].mem /\ call'[c].ok = call[c].ok
  BY <1>1 DEF Then, CallInv, Idle
<1> QED  BY <1>2 DEF Doing

\* The steps that files, rows and artifacts come through as they were.
Dry(c) == UNCHANGED <<rows, root, snap, data, work, backup, disk, mixed, spoilt, last>>

\* The operations that take each step on a template's files.
LEMMA Whose ==
  ASSUME Control, NEW c \in Calls, Moved(c)
  PROVE  /\ Doing(c) \in {"imagefree", "memfiles", "workcopy", "aside", "swap", "resume", "halt", "copyout",
                          "copydir", "unlink", "putback", "dropwork", "own"} => call[c].op = "export"
         /\ Doing(c) \in {"load", "claim", "paths", "materialize", "inject", "create", "commands", "seal", "record",
                          "failed", "ready"} => call[c].op = "build"
         /\ Doing(c) \in {"shim", "pick", "net", "cleanup"} => call[c].op \in {"build", "export"}
         /\ Doing(c) \in {"delrow", "rmdir"} => call[c].op = "delete"
         /\ Doing(c) \in {"ensure", "addrow", "addbuild"} => call[c].op = "new"
         /\ Doing(c) = "lookup" => call[c].op \in {"export", "delete", "convert"}
         /\ Doing(c) = "share" => call[c].op = "convert"
         /\ Doing(c) \in {"lookimage", "delimage", "rmimage"} => call[c].op = "unimage"
BY DEF Moved, Goes

\* Which steps change what belongs to templates.
LEMMA DrySteps ==
  ASSUME NEW c \in Calls, Step(c)
  PROVE  \/ Dry(c)
         \/ AddRow(c) \/ Record(c) \/ DeleteRow(c) \/ RemoveDir(c) \/ CreateRuntime(c) \/ ResumeRuntime(c)
         \/ RunCommands(c) \/ Seal(c) \/ Cleanup(c) \/ Materialize(c) \/ Inject(c) \/ CopyWork(c)
         \/ Aside(c) \/ Swap(c) \/ Halt(c) \/ Unlink(c) \/ PutBack(c) \/ DropWork(c)
<1>1. CASE Ensure(c) \/ AddBuild(c) \/ LoadBuild(c) \/ Claim(c) \/ Failed(c) \/ Ready(c) \/ ChoosePaths(c) \/ Lookup(c)
  BY <1>1 DEF Ends, Ensure, AddBuild, LoadBuild, Claim, Failed, Ready, ChoosePaths, Lookup, store, files, host, history, Dry
<1>2. CASE ImageFree(c) \/ OwnImage(c) \/ ShareImage(c) \/ LookImage(c) \/ DeleteImage(c) \/ RemoveImage(c)
  BY <1>2 DEF ImageFree, OwnImage, ShareImage, AddImage, LookImage, DeleteImage, RemoveImage, store, files, host,
     history, Dry
<1>3. CASE StartShim(c) \/ PickSlot(c) \/ PrepareNet(c) \/ CopyMemory(c) \/ CopyOut(c)
  BY <1>3 DEF StartShim, PickSlot, PrepareNet, CopyMemory, CopyOut, store, files, host, history, Dry
<1> QED  BY <1>1, <1>2, <1>3 DEF Step

\* The paths of a call's own files.
LEMMA Destination ==
  ASSUME Control, NEW c \in Calls, call[c].op \in Writers
  PROVE  call[c].t \in Templates /\ call[c].kind \in Kinds /\ Dest(c) \in Paths /\ Dest(c)[1] = call[c].t
         /\ Dest(c) = <<call[c].t, call[c].kind>>
BY DEF Control, CallInv, Dest, Paths, Writers

\* What of a call each step may change.
LEMMA Details ==
  ASSUME Control, NEW c \in Calls, Step(c)
  PROVE  /\ call'[c].i = call[c].i
         /\ Doing(c) \notin {"paths", "lookup"} => call'[c].kind = call[c].kind
         /\ Doing(c) \notin {"load", "lookup", "lookimage", "materialize"} => call'[c].seen = call[c].seen
         /\ Doing(c) # "memfiles" => call'[c].mem = call[c].mem
<1>1. CallInv(c) /\ DOMAIN call = Calls /\ DOMAIN call[c] = DOMAIN Idle
  BY DEF Control, CallInv
<1>2. \A k : At(c, k) => (k # "copyout" => Doing(c) = k)
  BY <1>1, Names
<1>3. (\E steps : Then(c, steps)) => call'[c].i = call[c].i /\ call'[c].kind = call[c].kind
                                     /\ call'[c].seen = call[c].seen /\ call'[c].mem = call[c].mem
  BY ThenLeaves
<1>4. CASE LoadBuild(c) \/ LookImage(c)
  <2>1. Doing(c) \in {"load", "lookimage"}
    BY <1>2, <1>4 DEF LoadBuild, LookImage
  <2>2. \E s, q : call' = [call EXCEPT ![c].seen = s, ![c].todo = q]
    BY <1>4 DEF LoadBuild, LookImage
  <2> QED  BY <1>1, <2>1, <2>2 DEF Idle
<1>5. CASE ChoosePaths(c)
  <2>1. Doing(c) = "paths"
    BY <1>2, <1>5 DEF ChoosePaths
  <2>2. \E s, q : call' = [call EXCEPT ![c].kind = s, ![c].todo = q]
    BY <1>5 DEF ChoosePaths
  <2> QED  BY <1>1, <2>1, <2>2 DEF Idle
<1>6. CASE Lookup(c)
  <2>1. Doing(c) = "lookup"
    BY <1>2, <1>6 DEF Lookup
  <2>2. CASE Then(c, Err(c))
    BY <1>3, <2>2
  <2>3. CASE ~Then(c, Err(c))
    <3>1. call' = [call EXCEPT ![c].kind = rows[call[c].t],
                     ![c].seen = IF last[call[c].t] = NoFile THEN "unbuilt" ELSE "built",
                     ![c].todo = IF call[c].op = "export" THEN ExportSteps(rows[call[c].t]) ELSE Rest(c)]
      BY <1>6, <2>3 DEF Lookup
    <3> QED  BY <1>1, <2>1, <3>1 DEF Idle
  <2> QED  BY <2>2, <2>3
<1>7. CASE PickSlot(c)
  <2>1. CASE Then(c, Err(c))
    BY <1>3, <2>1
  <2>2. CASE ~Then(c, Err(c))
    <3>1. PICK n \in Slots : call' = [call EXCEPT ![c].slot = n, ![c].todo = Rest(c)]
      BY <1>7, <2>2 DEF PickSlot, Picks, Rest
    <3> QED  BY <1>1, <3>1 DEF Idle
  <2> QED  BY <2>1, <2>2
<1>8. CASE PrepareNet(c)
  <2>1. (\E q : call' = [call EXCEPT ![c].net = TRUE, ![c].todo = q]) \/ (\E q : Then(c, q))
    BY <1>8 DEF PrepareNet
  <2> QED  BY <1>1, <1>3, <2>1 DEF Idle
<1>9. CASE Materialize(c)
  <2>1. Doing(c) = "materialize"
    BY <1>2, <1>9 DEF Materialize
  <2>2. CASE Then(c, Err(c))
    BY <1>3, <2>2
  <2>3. CASE ~Then(c, Err(c))
    <3>1. PICK steps \in {Rest(c), Err(c)}, seen \in {SourceKind(c)} :
             call' = [call EXCEPT ![c].seen = seen, ![c].todo = steps]
      BY <1>9, <2>3 DEF Materialize
    <3> QED  BY <1>1, <2>1, <3>1 DEF Idle
  <2> QED  BY <2>2, <2>3
<1>10. CASE CopyMemory(c)
  <2>1. Doing(c) = "memfiles"
    BY <1>2, <1>10 DEF CopyMemory
  <2>2. CASE Then(c, Err(c))
    BY <1>3, <2>2
  <2>3. CASE ~Then(c, Err(c))
    <3>1. call' = [call EXCEPT ![c].mem = snap[call[c].t], ![c].todo = Rest(c)]
      BY <1>10, <2>3 DEF CopyMemory, Rest
    <3> QED  BY <1>1, <2>1, <3>1 DEF Idle
  <2> QED  BY <2>2, <2>3
<1>11. CASE CopyOut(c)
  <2>1. (\E q : call' = [call EXCEPT ![c].ok = TRUE, ![c].todo = q]) \/ (\E q : Then(c, q))
    BY <1>11 DEF CopyOut
  <2> QED  BY <1>1, <1>3, <2>1 DEF Idle
<1>12. CASE \/ Ensure(c) \/ AddRow(c) \/ AddBuild(c) \/ Claim(c) \/ Failed(c) \/ Ready(c) \/ Record(c) \/ DeleteRow(c)
            \/ RemoveDir(c) \/ ImageFree(c) \/ OwnImage(c) \/ ShareImage(c) \/ DeleteImage(c) \/ RemoveImage(c)
  <2>1. \E q : Then(c, q)
    BY <1>12 DEF Gives, Ends, Ensure, AddRow, AddBuild, Claim, Failed, Ready, Record, DeleteRow, RemoveDir, ImageFree, OwnImage,
       ShareImage, AddImage, DeleteImage, RemoveImage
  <2> QED  BY <1>3, <2>1
<1>13. CASE \/ StartShim(c) \/ CreateRuntime(c) \/ ResumeRuntime(c) \/ RunCommands(c) \/ Seal(c) \/ Cleanup(c) \/ Inject(c)
            \/ CopyWork(c) \/ Aside(c) \/ Swap(c) \/ Halt(c) \/ Unlink(c) \/ PutBack(c) \/ DropWork(c)
  <2>1. \E q : Then(c, q)
    BY <1>13 DEF Gives, StartShim, CreateRuntime, ResumeRuntime, Boot, RunCommands, Seal, Cleanup, Inject, CopyWork, Aside,
       Swap, Halt, Unlink, PutBack, DropWork
  <2> QED  BY <1>3, <2>1
<1> QED  BY <1>4, <1>5, <1>6, <1>7, <1>8, <1>9, <1>10, <1>11, <1>12, <1>13 DEF Step

\* A step of c changes what belongs to its own template, and takes its files from there.
LEMMA StepReaches ==
  ASSUME ArtifactAssumption, Control, RowType, FileType, NEW h, Homes(h), NEW c \in Calls, Step(c)
  PROVE  Reaches(c, h) /\ FileType'
<1>1. CallInv(c) /\ Moved(c)
  BY Steps DEF Control
<1>2. \A k : At(c, k) => (k # "copyout" => Doing(c) = k)
  BY <1>1, Names
<1>3. call[c].op \in Writers => Dest(c) \in Paths /\ Dest(c)[1] = call[c].t /\ call[c].t \in Templates
  BY Destination
<1>4. /\ \A t : Of(NoFile, t, h)
      /\ call[c].op \in {"build", "export"} => Of(c, call[c].t, h) /\ c # NoFile
  BY DEF Of, ArtifactAssumption
<1>5. /\ \A p \in Paths : Of(root[p], p[1], h)
      /\ \A d \in Calls : Of(work[d], call[d].t, h) /\ Of(backup[d], call[d].t, h) /\ Of(disk[d], call[d].t, h)
  BY DEF Homes
<1>6. /\ \A d \in Calls : call'[d].op = call[d].op /\ call'[d].t = call[d].t /\ call'[d].i = call[d].i
      /\ {"build", "export"} \subseteq Writers /\ {"new", "delete"} \subseteq Writers
  BY <1>1, Details DEF Moved, Writers
<1>7. CASE Dry(c)
  <2>1. Reaches(c, h)
    BY <1>7 DEF Dry, Reaches
  <2>2. DOMAIN images' = Images /\ DOMAIN img' = Images
    <3>1. \/ UNCHANGED images \/ \E r : images' = [images EXCEPT ![call[c].i] = r]
      BY DEF Ends, Step, Ensure, AddRow, AddBuild, LoadBuild, Claim, Failed, Ready, Record, DeleteRow, ChoosePaths, Lookup,
       RemoveDir, ImageFree, OwnImage, ShareImage, AddImage, LookImage, DeleteImage, RemoveImage, StartShim, PickSlot,
       PrepareNet, CreateRuntime, ResumeRuntime, Boot, RunCommands, Seal, Cleanup, Materialize, Inject, CopyMemory,
       CopyWork, Aside, Swap, Halt, CopyOut, Unlink, PutBack, DropWork, store
    <3>2. \/ UNCHANGED img \/ \E r : img' = [img EXCEPT ![call[c].i] = r]
      BY DEF Ends, Step, Ensure, AddRow, AddBuild, LoadBuild, Claim, Failed, Ready, Record, DeleteRow, ChoosePaths, Lookup,
       RemoveDir, ImageFree, OwnImage, ShareImage, AddImage, LookImage, DeleteImage, RemoveImage, StartShim, PickSlot,
       PrepareNet, CreateRuntime, ResumeRuntime, Boot, RunCommands, Seal, Cleanup, Materialize, Inject, CopyMemory,
       CopyWork, Aside, Swap, Halt, CopyOut, Unlink, PutBack, DropWork, files
    <3> QED  BY <3>1, <3>2 DEF FileType
  <2> QED  BY <1>6, <1>7, <2>1, <2>2 DEF Dry, FileType
<1>8. CASE AddRow(c) \/ Record(c) \/ DeleteRow(c)
  <2>1. call[c].op \in Writers /\ call[c].t \in Templates
    BY <1>1, <1>2, <1>3, <1>6, <1>8, Whose DEF AddRow, Record, DeleteRow
  <2>2. UNCHANGED <<root, snap, img, images, data, work, backup, disk, mixed>>
    BY <1>8 DEF AddRow, Record, DeleteRow, files, host, history
  <2>3. /\ DOMAIN last' = Templates
        /\ \A u \in Templates \ {call[c].t} : rows'[u] = rows[u] /\ last'[u] = last[u]
    BY <1>8 DEF AddRow, Record, DeleteRow, history, FileType, RowType
  <2>4. Reaches(c, h)
    BY <2>1, <2>2, <2>3 DEF Reaches
  <2> QED  BY <1>6, <2>2, <2>3, <2>4 DEF FileType
<1>9. CASE CreateRuntime(c) \/ ResumeRuntime(c)
  <2>1. call[c].op \in {"build", "export"}
    BY <1>1, <1>2, <1>9, Whose DEF CreateRuntime, ResumeRuntime, Boot
  <2>2. /\ UNCHANGED <<rows, last, root, snap, img, images, data, work, backup, mixed>>
        /\ disk' \in {disk, [disk EXCEPT ![c] = root[Dest(c)]]}
    BY <1>9 DEF CreateRuntime, ResumeRuntime, Boot, files, store, history
  <2>3. Of(root[Dest(c)], call[c].t, h)
    BY <1>3, <1>5, <1>6, <2>1
  <2>4. DOMAIN disk' = Calls /\ \A d \in Calls : disk'[d] # disk[d] => d = c /\ disk'[d] = root[Dest(c)]
    BY <2>2 DEF FileType
  <2>5. Reaches(c, h)
    BY <2>1, <2>2, <2>3, <2>4 DEF Reaches
  <2> QED  BY <1>6, <2>2, <2>4, <2>5 DEF FileType
<1>10. CASE RunCommands(c) \/ Seal(c) \/ Cleanup(c) \/ Halt(c)
  <2>1. call[c].op \in {"build", "export"} /\ call[c].op \in Writers /\ call[c].t \in Templates
    BY <1>1, <1>2, <1>3, <1>6, <1>10, Whose DEF RunCommands, Seal, Cleanup, Halt
  <2>2. UNCHANGED <<rows, last, root, img, images, work, backup, mixed>>
    BY <1>10 DEF RunCommands, Seal, Cleanup, Halt, files, store, history
  <2>3. DOMAIN snap' = Templates /\ \A u \in Templates \ {call[c].t} : snap'[u] = snap[u]
    BY <1>10 DEF RunCommands, Seal, Cleanup, Halt, files, FileType
  <2>4. DOMAIN disk' = Calls /\ \A d \in Calls : disk'[d] # disk[d] => d = c /\ disk'[d] = NoFile
    BY <1>10 DEF RunCommands, Seal, Cleanup, Halt, Killed, FileType
  <2>5. DOMAIN data' = Files /\ \A f \in Files : data'[f] # data[f] => f = disk[c]
    BY <1>10 DEF RunCommands, Seal, Cleanup, Halt, files, FileType
  <2>6. \A f \in Files : f # NoFile
    BY DEF Files, ArtifactAssumption
  <2>7. Reaches(c, h)
    BY <1>4, <1>5, <2>1, <2>2, <2>3, <2>4, <2>5, <2>6 DEF Reaches
  <2> QED  BY <1>6, <2>2, <2>3, <2>4, <2>5, <2>7 DEF FileType
<1>11. CASE Materialize(c)
  <2>1. call[c].op = "build" /\ call[c].op \in Writers /\ call[c].t \in Templates
    BY <1>1, <1>2, <1>3, <1>6, <1>11, Whose DEF Materialize
  <2>2. UNCHANGED <<rows, snap, img, images, work, backup, disk, mixed>>
    BY <1>11 DEF Materialize, store, host
  <2>3. DOMAIN last' = Templates /\ \A u \in Templates \ {call[c].t} : last'[u] = last[u]
    BY <1>11 DEF Materialize, FileType
  <2>4. PICK f \in {root[Dest(c)], c} : /\ root' \in {root, [root EXCEPT ![Dest(c)] = f]}
                                        /\ \E v : data' \in {data, [data EXCEPT ![f] = v]}
    BY <1>11 DEF Materialize
  <2>5. Of(f, call[c].t, h)
    BY <1>3, <1>4, <1>5, <2>1, <2>4
  <2>6. DOMAIN root' = Paths /\ \A p \in Paths : root'[p] # root[p] => p = Dest(c) /\ root'[p] = f
    BY <2>4 DEF FileType
  <2>7. DOMAIN data' = Files /\ \A g \in Files : data'[g] # data[g] => g = f
    BY <2>4 DEF FileType
  <2>8. \A g \in Files : g # NoFile
    BY DEF Files, ArtifactAssumption
  <2>9. Reaches(c, h)
    BY <1>3, <2>1, <2>2, <2>3, <2>5, <2>6, <2>7, <2>8 DEF Reaches
  <2> QED  BY <1>6, <2>2, <2>3, <2>6, <2>7, <2>9 DEF FileType
<1>12. CASE Inject(c) \/ CopyWork(c)
  <2>1. call[c].op \in {"build", "export"} /\ call[c].op \in Writers
    BY <1>1, <1>2, <1>6, <1>12, Whose DEF Inject, CopyWork
  <2>2. UNCHANGED <<rows, last, root, snap, img, images, backup, disk, mixed>>
    BY <1>12 DEF Inject, CopyWork, store, host, history
  <2>3. /\ \E f \in {root[Dest(c)], c} : \E v : data' \in {data, [data EXCEPT ![f] = v]}
        /\ work' \in {work, [work EXCEPT ![c] = c]}
    BY <1>12 DEF Inject, CopyWork, host
  <2>4. DOMAIN work' = Calls /\ \A d \in Calls : work'[d] # work[d] => d = c /\ work'[d] = c
    BY <2>3 DEF FileType
  <2>5. DOMAIN data' = Files /\ \A g \in Files : data'[g] # data[g] => g \in {root[Dest(c)], c}
    BY <2>3 DEF FileType
  <2>6. \A g \in Files : g # NoFile
    BY DEF Files, ArtifactAssumption
  <2>7. Of(root[Dest(c)], call[c].t, h)
    BY <1>3, <1>5, <2>1
  <2>8. Reaches(c, h)
    BY <1>4, <2>1, <2>2, <2>4, <2>5, <2>6, <2>7 DEF Reaches
  <2> QED  BY <1>6, <2>2, <2>4, <2>5, <2>8 DEF FileType
<1>13. CASE Aside(c) \/ Swap(c) \/ Unlink(c) \/ PutBack(c) \/ DropWork(c)
  <2>1. call[c].op = "export" /\ call[c].op \in Writers
    BY <1>1, <1>2, <1>6, <1>13, Whose DEF Aside, Swap, Unlink, PutBack, DropWork
  <2>2. UNCHANGED <<rows, last, data, snap, img, images, disk, mixed>>
    BY <1>13 DEF Aside, Swap, Unlink, PutBack, DropWork, store, files, host, history
  <2>3. /\ \E f \in {NoFile, work[c], backup[c]} : root' \in {root, [root EXCEPT ![Dest(c)] = f]}
        /\ work' \in {work, [work EXCEPT ![c] = NoFile]}
        /\ \E f \in {NoFile, root[Dest(c)]} : backup' \in {backup, [backup EXCEPT ![c] = f]}
    BY <1>13 DEF Aside, Swap, Unlink, PutBack, DropWork, files, host
  <2>4. Of(root[Dest(c)], call[c].t, h) /\ Of(work[c], call[c].t, h) /\ Of(backup[c], call[c].t, h)
    BY <1>3, <1>5, <2>1
  <2>5. /\ DOMAIN root' = Paths
        /\ \A p \in Paths : root'[p] # root[p] => p = Dest(c) /\ root'[p] \in {NoFile, work[c], backup[c]}
    BY <2>3 DEF FileType
  <2>6. DOMAIN work' = Calls /\ \A d \in Calls : work'[d] # work[d] => d = c /\ work'[d] = NoFile
    BY <2>3 DEF FileType
  <2>7. /\ DOMAIN backup' = Calls
        /\ \A d \in Calls : backup'[d] # backup[d] => d = c /\ backup'[d] \in {NoFile, root[Dest(c)]}
    BY <2>3 DEF FileType
  <2>8. Reaches(c, h)
    BY <1>3, <1>4, <2>1, <2>2, <2>4, <2>5, <2>6, <2>7 DEF Reaches
  <2> QED  BY <1>6, <2>2, <2>5, <2>6, <2>7, <2>8 DEF FileType
<1>14. CASE RemoveDir(c)
  <2>1. call[c].op = "delete" /\ call[c].op \in Writers /\ call[c].t \in Templates
    BY <1>1, <1>2, <1>3, <1>6, <1>14, Whose DEF RemoveDir
  <2>2. UNCHANGED <<rows, data, img, images, disk, mixed>>
    BY <1>14 DEF RemoveDir, store
  <2>3. DOMAIN last' = Templates /\ DOMAIN snap' = Templates
        /\ \A u \in Templates \ {call[c].t} : last'[u] = last[u] /\ snap'[u] = snap[u]
    BY <1>14 DEF RemoveDir, FileType
  <2>4. DOMAIN root' = Paths /\ \A p \in Paths : root'[p] # root[p] => p[1] = call[c].t /\ root'[p] = NoFile
    BY <1>14 DEF RemoveDir, FileType
  <2>5. DOMAIN work' = Calls /\ \A d \in Calls : work'[d] # work[d] => call[d].t = call[c].t /\ work'[d] = NoFile
    BY <1>14 DEF RemoveDir, FileType
  <2>6. /\ DOMAIN backup' = Calls
        /\ \A d \in Calls : backup'[d] # backup[d] => call[d].t = call[c].t /\ backup'[d] = NoFile
    BY <1>14 DEF RemoveDir, FileType
  <2>7. Reaches(c, h)
    BY <1>4, <2>1, <2>2, <2>3, <2>4, <2>5, <2>6 DEF Reaches
  <2> QED  BY <1>6, <2>2, <2>3, <2>4, <2>5, <2>6, <2>7 DEF FileType
<1> QED  BY <1>7, <1>8, <1>9, <1>10, <1>11, <1>12, <1>13, <1>14, DrySteps

\* What a guest writes, it writes to its own template's files.
LEMMA GuestReaches ==
  ASSUME ArtifactAssumption, Control, SandboxInv, FileType, NEW h, Homes(h), NEW c \in Calls, GuestWrites(c)
  PROVE  Reaches(c, h) /\ FileType'
<1>1. call[c].op \in {"build", "export"} /\ disk[c] # NoFile
  BY DEF SandboxInv, BoxInv, Bare, Keeps, GuestWrites
<1>2. /\ UNCHANGED <<rows, last, root, snap, img, images, work, backup, disk, mixed, call>>
      /\ \E v : data' = [data EXCEPT ![disk[c]] = v]
  BY DEF GuestWrites, store, host, history
<1>3. DOMAIN data' = Files /\ \A f \in Files : data'[f] # data[f] => f = disk[c]
  BY <1>2 DEF FileType
<1>4. Of(disk[c], call[c].t, h)
  BY DEF Homes
<1>5. Reaches(c, h)
  BY <1>1, <1>2, <1>3, <1>4 DEF Reaches
<1> QED  BY <1>2, <1>3, <1>5 DEF FileType

\* The calls are the same, whatever they have left to do.
SameCalls == \A d \in Calls : call'[d].op = call[d].op /\ call'[d].t = call[d].t /\ call'[d].i = call[d].i

\* Files stay at home.
LEMMA HomesKept ==
  ASSUME FileType, NEW h, Homes(h), NEW c \in Calls, Reaches(c, h), SameCalls
  PROVE  Homes(h)'
<1>1. ASSUME NEW f, NEW t, Of(f, t, h) PROVE Of(f, t, h)'
  BY <1>1 DEF Of, SameCalls
<1>2. \A p \in Paths : Of(root'[p], p[1], h)
  <2> TAKE p \in Paths
  <2>1. CASE root'[p] = root[p]
    BY <2>1 DEF Homes
  <2>2. CASE root'[p] # root[p]
    BY <2>2 DEF Reaches
  <2> QED  BY <2>1, <2>2
<1>3. \A d \in Calls : Of(work'[d], call[d].t, h) /\ Of(backup'[d], call[d].t, h) /\ Of(disk'[d], call[d].t, h)
  <2> TAKE d \in Calls
  <2>1. Of(work[d], call[d].t, h) /\ Of(backup[d], call[d].t, h) /\ Of(disk[d], call[d].t, h)
    BY DEF Homes
  <2>2. Of(work'[d], call[d].t, h)
    BY <2>1 DEF Reaches
  <2>3. Of(backup'[d], call[d].t, h)
    BY <2>1 DEF Reaches
  <2>4. Of(disk'[d], call[d].t, h)
    BY <2>1 DEF Reaches
  <2> QED  BY <2>2, <2>3, <2>4
<1>4. \A p \in Paths : Of(root[p], p[1], h)'
  <2> TAKE p \in Paths
  <2> QED  BY <1>2 DEF Of, SameCalls
<1>5. \A d \in Calls : Of(work[d], call[d].t, h)' /\ Of(backup[d], call[d].t, h)' /\ Of(disk[d], call[d].t, h)'
  <2> TAKE d \in Calls
  <2> QED  BY <1>3 DEF Of, SameCalls
<1> QED  BY <1>4, <1>5 DEF Homes

\* Of two calls at a time that change the same template or image, it is noted.
Alone == \A c, d \in Calls : c # d /\ Active(c) /\ Active(d) => Changes(call[c]) \cap Changes(call[d]) \subseteq mixed

\* A call that writes template t, or image i, is in progress.
Busy(c, t) == call[c].op \in Writers /\ call[c].t = t /\ Doing(c) # "rest"
Uncertain(c, i) == call[c].op \in {"export", "convert", "unimage"} /\ call[c].i = i /\ Doing(c) # "rest"

\* Unless it is noted, one call at a time writes a template or an image.
LEMMA OneWriter ==
  ASSUME Control, Alone, NEW c \in Calls, NEW d \in Calls, c # d, NEW t
  PROVE  /\ Busy(c, t) /\ Busy(d, t) => t \in mixed
         /\ Uncertain(c, t) /\ Uncertain(d, t) => t \in mixed
<1>1. CallInv(c) /\ CallInv(d)
  BY DEF Control
<1>2. (Active(c) <=> Doing(c) # "rest") /\ (Active(d) <=> Doing(d) # "rest")
  BY <1>1, Names
<1>3. /\ \A e \in {c, d} : call[e].op \in Writers => call[e].t \in Changes(call[e])
      /\ \A e \in {c, d} : call[e].op \in {"export", "convert", "unimage"} => call[e].i \in Changes(call[e])
  BY DEF Changes, Writers
<1> QED  BY <1>2, <1>3 DEF Alone, Busy, Uncertain

\* As long as no call begins, no two calls begin to meet.
LEMMA AloneKept ==
  ASSUME Alone, SameCalls, mixed' = mixed, \A d \in Calls : Active(d)' => Active(d)
  PROVE  Alone'
<1>1. \A d \in Calls : Changes(call[d])' = Changes(call[d])
  BY DEF SameCalls, Changes
<1> QED  BY <1>1 DEF Alone

\* A request begins its call, and notes the calls in progress that change what it does.
LEMMA BeginsCall ==
  ASSUME ArtifactAssumption, Control, RowType, NewInv, NEW c \in Calls, Request(c)
  PROVE  /\ Fresh(c) /\ UNCHANGED <<rows, images, root, snap, img, data, work, backup, disk, last, spoilt>>
         /\ call'[c].op = "export" => call'[c].todo = ExportBegin
         /\ call'[c].op \in {"export", "convert", "unimage"} => call'[c].i \in Images
         /\ mixed \subseteq mixed' /\ call'[c].mem = {}
         /\ \A d \in Calls : Active(d) => Changes(call[c])' \cap Changes(call[d]) \subseteq mixed'
<1>1. Fresh(c) /\ DOMAIN call = Calls
  BY Requests DEF Control
<1>2. ASSUME NEW r, Begin(c, r)
      PROVE  /\ UNCHANGED <<rows, images, root, snap, img, data, work, backup, disk, last, spoilt>>
             /\ mixed \subseteq mixed' /\ call'[c] = r
             /\ \A d \in Calls : Active(d) => Changes(r) \cap Changes(call[d]) \subseteq mixed'
  <2>1. /\ UNCHANGED <<rows, images, root, snap, img, data, work, backup, disk, last, spoilt>>
        /\ mixed \subseteq mixed' /\ call'[c] = r
    BY <1>1, <1>2 DEF Begin, store, files, host
  <2>2. ASSUME NEW d \in Calls, Active(d)
        PROVE  Changes(r) \cap Changes(call[d]) \subseteq mixed'
    <3>1. Changes(r) \cap Uses(call[d]) \subseteq mixed'
      BY <1>2, <2>2 DEF Begin
    <3>2. Changes(call[d]) \subseteq Uses(call[d])
      BY DEF Uses
    <3> QED  BY <3>1, <3>2
  <2> QED  BY <2>1, <2>2
<1>3. ASSUME NEW r, Begin(c, r), r.op = "export" => r.todo = ExportBegin,
             r.op \in {"export", "convert", "unimage"} => r.i \in Images, r.mem = {}
      PROVE  /\ call'[c].op = "export" => call'[c].todo = ExportBegin
             /\ call'[c].op \in {"export", "convert", "unimage"} => call'[c].i \in Images
             /\ UNCHANGED <<rows, images, root, snap, img, data, work, backup, disk, last, spoilt>>
             /\ mixed \subseteq mixed' /\ call'[c].mem = {}
             /\ \A d \in Calls : Active(d) => Changes(call[c])' \cap Changes(call[d]) \subseteq mixed'
  <2>1. call'[c] = r /\ Changes(call[c])' = Changes(r)
    BY <1>2, <1>3 DEF Changes
  <2> QED  BY <1>2, <1>3, <2>1
<1>4. CASE RequestTemplate(c)
  <2>1. PICK t \in Templates, b \in Builds, k \in Kinds :
          Begin(c, [Idle EXCEPT !.op = "new", !.t = t, !.b = b, !.kind = k, !.todo = NewSteps])
    BY <1>4 DEF RequestTemplate
  <2>2. [Idle EXCEPT !.op = "new", !.t = t, !.b = b, !.kind = k, !.todo = NewSteps].op = "new"
        /\ [Idle EXCEPT !.op = "new", !.t = t, !.b = b, !.kind = k, !.todo = NewSteps].mem = {}
    BY DEF Idle
  <2> QED  BY <1>1, <1>3, <2>1, <2>2
<1>5. CASE RequestBuild(c)
  <2>1. PICK b \in Builds, s \in Sources :
          Begin(c, [Idle EXCEPT !.op = "build", !.t = builds[b].of, !.b = b, !.src = s, !.todo = ClaimSteps])
    BY <1>5 DEF RequestBuild
  <2>2. [Idle EXCEPT !.op = "build", !.t = builds[b].of, !.b = b, !.src = s, !.todo = ClaimSteps].op = "build"
        /\ [Idle EXCEPT !.op = "build", !.t = builds[b].of, !.b = b, !.src = s, !.todo = ClaimSteps].mem = {}
    BY DEF Idle
  <2> QED  BY <1>1, <1>3, <2>1, <2>2
<1>6. CASE RequestImage(c)
  <2>1. PICK t \in Templates, i \in Images :
          Begin(c, [Idle EXCEPT !.op = "export", !.t = t, !.i = i, !.todo = ExportBegin])
    BY <1>6 DEF RequestImage
  <2> DEFINE r == [Idle EXCEPT !.op = "export", !.t = t, !.i = i, !.todo = ExportBegin]
  <2>2. r.op = "export" /\ r.i = i /\ r.todo = ExportBegin /\ r.mem = {}
    BY DEF Idle
  <2> HIDE DEF r
  <2> QED  BY <1>1, <1>3, <2>1, <2>2 DEF r
<1>7. CASE RequestDelete(c)
  <2>1. PICK t \in Templates : Begin(c, [Idle EXCEPT !.op = "delete", !.t = t, !.todo = DeleteSteps])
    BY <1>7 DEF RequestDelete
  <2>2. [Idle EXCEPT !.op = "delete", !.t = t, !.todo = DeleteSteps].op = "delete"
        /\ [Idle EXCEPT !.op = "delete", !.t = t, !.todo = DeleteSteps].mem = {}
    BY DEF Idle
  <2> QED  BY <1>1, <1>3, <2>1, <2>2
<1>8. CASE RequestConvert(c)
  <2>1. PICK t \in Templates, i \in Images :
          Begin(c, [Idle EXCEPT !.op = "convert", !.t = t, !.i = i, !.todo = ConvertSteps])
    BY <1>8 DEF RequestConvert
  <2>2. [Idle EXCEPT !.op = "convert", !.t = t, !.i = i, !.todo = ConvertSteps].op = "convert"
        /\ [Idle EXCEPT !.op = "convert", !.t = t, !.i = i, !.todo = ConvertSteps].mem = {}
        /\ [Idle EXCEPT !.op = "convert", !.t = t, !.i = i, !.todo = ConvertSteps].i = i
    BY DEF Idle
  <2> QED  BY <1>1, <1>3, <2>1, <2>2
<1>9. CASE RequestUnimage(c)
  <2>1. PICK i \in Images : Begin(c, [Idle EXCEPT !.op = "unimage", !.i = i, !.todo = UnimageSteps])
    BY <1>9 DEF RequestUnimage
  <2>2. [Idle EXCEPT !.op = "unimage", !.i = i, !.todo = UnimageSteps].op = "unimage"
        /\ [Idle EXCEPT !.op = "unimage", !.i = i, !.todo = UnimageSteps].mem = {}
        /\ [Idle EXCEPT !.op = "unimage", !.i = i, !.todo = UnimageSteps].i = i
    BY DEF Idle
  <2> QED  BY <1>1, <1>3, <2>1, <2>2
<1> QED  BY <1>4, <1>5, <1>6, <1>7, <1>8, <1>9 DEF Request

-----------------------------------------------------------------------------
(***************************************************************************)
(* Templates.  A template that no two calls change at a time is fine but   *)
(* while its row is deleted or an export has its rootfs aside.             *)
(***************************************************************************)
\* What is left of an export whose renames of the rootfs aside and back do not fail, but
\* perhaps the first one back.
Retries == Suffixes(Deferred) \cup Suffixes(Late)
Plain == Suffixes(ExportBegin) \cup Suffixes(ExportSteps("vm")) \cup Suffixes(ExportSteps("dir"))
           \cup Suffixes(Restore) \cup Retries
\* What is left of one that ends without its image.
Puts == Suffixes(Restore) \cup Suffixes(Deferred)

\* How such an export goes on.
LEMMA PlainMoves ==
  ASSUME NEW c, call[c].todo \in Plain, Active(c)
  PROVE  /\ Rest(c) \in Plain
         /\ Doing(c) \in {"imagefree", "lookup", "memfiles", "shim", "pick", "net", "workcopy", "copydir", "own"}
              => Err(c) = << >>
         /\ Doing(c) \in {"resume", "halt", "copyout"} => Err(c) = Restore
         /\ Doing(c) \in {"unlink", "putback"} =>
              Err(c) = IF Head(call[c].todo).err = "next" THEN Rest(c) ELSE IF call[c].ok THEN Late ELSE Deferred
         /\ <<Doing(c), Kind(Rest(c))>> \in
              {<<"imagefree", "lookup">>, <<"lookup", "rest">>, <<"memfiles", "shim">>, <<"shim", "pick">>,
               <<"pick", "net">>, <<"net", "workcopy">>, <<"workcopy", "aside">>, <<"aside", "swap">>,
               <<"swap", "resume">>, <<"resume", "halt">>, <<"halt", "copyout">>, <<"copyout", "unlink">>,
               <<"unlink", "putback">>, <<"putback", "cleanup">>, <<"putback", "rest">>, <<"putback", "dropwork">>,
               <<"dropwork", "rest">>, <<"dropwork", "cleanup">>, <<"cleanup", "own">>, <<"cleanup", "rest">>,
               <<"own", "rest">>, <<"copydir", "own">>}
         /\ call[c].todo \in Puts => Rest(c) \in Puts
         /\ Doing(c) \in {"cleanup", "own"} => call[c].todo \notin Puts
<1> DEFINE s == call[c].todo
<1>1. s # << >> /\ Rest(c) = Tail(s) /\ Doing(c) = Kind(s) /\ Err(c) = Undo(c, Head(s).err)
  BY DEF Active, Rest, Doing, Err
<1>2. /\ Head(s).err = "stop" => Err(c) = << >>
      /\ Head(s).err = "restore" => Err(c) = Restore
      /\ Head(s).err = "next" => Err(c) = Rest(c)
      /\ Head(s).err = "retry" => Err(c) = IF call[c].ok THEN Late ELSE Deferred
  BY <1>1, Undoes
<1>3. s \in Suffixes(Restore) => /\ Tail(s) \in Suffixes(Restore)
                                 /\ Row(s, "unlink", "retry", "putback") \/ Row(s, "putback", "retry", "rest")
  BY <1>1, RestoreList
<1>4. s \in Suffixes(ExportBegin) => /\ Tail(s) \in Suffixes(ExportBegin)
                                     /\ Row(s, "imagefree", "stop", "lookup") \/ Row(s, "lookup", "stop", "rest")
  BY <1>1, ExportBeginList
<1>5. s \in Suffixes(ExportSteps("dir")) => /\ Tail(s) \in Suffixes(ExportSteps("dir"))
                                            /\ Row(s, "copydir", "stop", "own") \/ Row(s, "own", "stop", "rest")
  BY <1>1, ExportDirList
<1>6. s \in Suffixes(ExportSteps("vm")) =>
        /\ Tail(s) \in Suffixes(ExportSteps("vm"))
        /\ \/ Row(s, "memfiles", "stop", "shim") \/ Row(s, "shim", "stop", "pick") \/ Row(s, "pick", "stop", "net")
           \/ Row(s, "net", "stop", "workcopy") \/ Row(s, "workcopy", "stop", "aside")
           \/ Row(s, "aside", "undo", "swap") \/ Row(s, "swap", "unswap", "resume")
           \/ Row(s, "resume", "restore", "halt") \/ Row(s, "halt", "restore", "copyout")
           \/ Row(s, "copyout", "restore", "unlink")
           \/ Row(s, "unlink", "retry", "putback") \/ Row(s, "putback", "retry", "cleanup")
           \/ Row(s, "cleanup", "next", "own") \/ Row(s, "own", "stop", "rest")
  BY <1>1, ExportVMList
<1>7. s \in Suffixes(Deferred) => /\ Tail(s) \in Suffixes(Deferred)
                                  /\ \/ Row(s, "unlink", "next", "putback") \/ Row(s, "putback", "next", "dropwork")
                                     \/ Row(s, "dropwork", "next", "rest")
  BY <1>1, DeferredList
<1>8. s \in Suffixes(Late) => /\ Tail(s) \in Suffixes(Late)
                              /\ \/ Row(s, "unlink", "next", "putback") \/ Row(s, "putback", "next", "dropwork")
                                 \/ Row(s, "dropwork", "next", "cleanup") \/ Row(s, "cleanup", "next", "rest")
  BY <1>1, LateList
<1> HIDE DEF s
<1>9. Tail(s) \in Plain /\ (s \in Suffixes(ExportBegin) \/ s \in Suffixes(ExportSteps("vm"))
                            \/ s \in Suffixes(ExportSteps("dir")) \/ s \in Suffixes(Restore)
                            \/ s \in Suffixes(Deferred) \/ s \in Suffixes(Late))
  BY <1>3, <1>4, <1>5, <1>6, <1>7, <1>8 DEF Plain, Retries, s
<1>10. /\ Kind(s) \in {"imagefree", "lookup", "memfiles", "shim", "pick", "net", "workcopy", "copydir", "own"}
            => Head(s).err = "stop"
       /\ Kind(s) \in {"resume", "halt", "copyout"} => Head(s).err = "restore"
       /\ Kind(s) \in {"unlink", "putback"} => Head(s).err \in {"retry", "next"}
  BY <1>3, <1>4, <1>5, <1>6, <1>7, <1>8, <1>9 DEF Row
<1>11. <<Kind(s), Kind(Tail(s))>> \in
              {<<"imagefree", "lookup">>, <<"lookup", "rest">>, <<"memfiles", "shim">>, <<"shim", "pick">>,
               <<"pick", "net">>, <<"net", "workcopy">>, <<"workcopy", "aside">>, <<"aside", "swap">>,
               <<"swap", "resume">>, <<"resume", "halt">>, <<"halt", "copyout">>, <<"copyout", "unlink">>,
               <<"unlink", "putback">>, <<"putback", "cleanup">>, <<"putback", "rest">>, <<"putback", "dropwork">>,
               <<"dropwork", "rest">>, <<"dropwork", "cleanup">>, <<"cleanup", "own">>, <<"cleanup", "rest">>,
               <<"own", "rest">>, <<"copydir", "own">>}
  BY <1>3, <1>4, <1>5, <1>6, <1>7, <1>8, <1>9 DEF Row
<1>12. s \in Puts => Tail(s) \in Puts /\ Kind(s) \in {"unlink", "putback", "dropwork"}
  BY <1>3, <1>7 DEF Row, Puts
<1> QED  BY <1>1, <1>2, <1>9, <1>10, <1>11, <1>12 DEF s

\* The lists that such an export begins with and falls back to.
LEMMA PlainLists ==
  /\ {<< >>, Restore, ExportBegin, ExportSteps("vm"), ExportSteps("dir"), Deferred, Late} \subseteq Plain
  /\ {Restore, Deferred} \subseteq Puts
<1>1. /\ IsList(ExportBegin) /\ IsList(Restore) /\ IsList(ExportSteps("vm")) /\ IsList(ExportSteps("dir"))
      /\ IsList(Deferred) /\ IsList(Late)
  BY Lists DEF ExportBegin, Restore, ExportSteps, Deferred, Late
<1> QED  BY <1>1, Whole DEF Plain, Retries, Puts

\* How a build goes on, and what is left of it when its sandbox cannot go on.
LEMMA BuildGoes ==
  ASSUME NEW c, CallInv(c), call[c].op = "build", Active(c)
  PROVE  /\ Doing(c) \in {"shim", "pick", "net", "create", "commands", "seal"} => Err(c) = Clearing
         /\ Doing(c) \in {"paths", "materialize", "inject", "record"} => Err(c) = Failing
         /\ Kind(Tail(Clearing)) = "failed"
         /\ Doing(c) \in {"shim", "pick", "net", "create", "commands", "seal"} =>
              <<Doing(c), Kind(Rest(c))>> \in {<<"shim", "pick">>, <<"pick", "net">>, <<"net", "create">>,
                <<"create", "commands">>, <<"commands", "seal">>, <<"seal", "cleanup">>}
         /\ Doing(c) = "seal" => Kind(Tail(Rest(c))) = "record"
<1> DEFINE s == call[c].todo
<1>1. s # << >> /\ Doing(c) = Kind(s) /\ Err(c) = Undo(c, Head(s).err) /\ Rest(c) = Tail(s)
  BY DEF Active, Doing, Err, Rest
<1>2. PICK p \in {ClaimSteps, BuildSteps, Clearing, Failing} : s \in Suffixes(p)
  <2>1. s \in Todos("build", call[c].ok)
    BY DEF CallInv
  <2>2. PICK p \in Plans("build", call[c].ok) : s \in Suffixes(p)
    BY <2>1, TodosOf
  <2> QED  BY <2>2 DEF Plans
<1>3. \/ Row(s, "load", "stop", "claim") \/ Row(s, "claim", "stop", "paths") \/ Row(s, "paths", "unclaim", "rest")
      \/ Row(s, "materialize", "unclaim", "inject") \/ Row(s, "inject", "unclaim", "shim")
      \/ Row(s, "shim", "cleanup", "pick") \/ Row(s, "pick", "cleanup", "net")
      \/ Row(s, "net", "cleanup", "create") \/ Row(s, "create", "cleanup", "commands")
      \/ Row(s, "commands", "cleanup", "seal") \/ Row(s, "seal", "cleanup", "cleanup")
      \/ Row(s, "cleanup", "next", "record") \/ Row(s, "record", "unclaim", "ready")
      \/ Row(s, "ready", "stop", "rest")
      \/ Row(s, "cleanup", "next", "failed") \/ Row(s, "failed", "stop", "rest")
  BY <1>1, <1>2, ClaimList, BuildList, ClearingList, FailingList
<1>4. /\ Head(s).err = "cleanup" => Err(c) = Clearing
      /\ Head(s).err = "unclaim" => Err(c) = Failing
  BY <1>1, Undoes
<1>5. Kind(Tail(Clearing)) = "failed"
  BY DEF Kind, Clearing, Do
<1>6. ASSUME Kind(s) = "seal" PROVE Kind(Tail(Tail(s))) = "record"
  <2>1. s \in Suffixes(BuildSteps)
    BY <1>1, <1>2, <1>6, ClaimList, ClearingList, FailingList DEF Row
  <2>2. Kind(Tail(s)) = "cleanup" /\ Tail(s) \in Suffixes(BuildSteps)
    BY <1>1, <1>6, <2>1, BuildList DEF Row
  <2>3. Tail(s) # << >>
    BY <2>2, FailKinds
  <2> QED  BY <2>2, <2>3, BuildList DEF Row
<1> HIDE DEF s
<1> QED  BY <1>1, <1>3, <1>4, <1>5, <1>6 DEF Row

\* The file is an export's copy of the rootfs.
Exported(f) == f \in Calls /\ call[f].op = "export"

\* f is the rootfs that the last build of t left.
Kept(t, f) == last[t] # NoFile =>
  /\ f # NoFile /\ ~Exported(f)
  /\ {<<last[t], "init">>, <<last[t], "cmds">>} \subseteq data[f]
  /\ rows[t] = "vm" => snap[t] = data[f]

Fine(t) ==
  /\ \A k \in Kinds : ~Exported(root[<<t, k>>])
  /\ rows[t] = "none" => last[t] = NoFile
  /\ Kept(t, root[<<t, rows[t]>>])

\* The steps of an export that has the rootfs aside, and of a delete with no row.
AwaySteps == {"swap", "resume", "halt", "copyout", "unlink", "putback"}
Disturbs(c) == \/ call[c].op = "export" /\ Doing(c) \in AwaySteps
               \/ call[c].op = "delete" /\ Doing(c) = "rmdir"

\* The steps of a build that has its rootfs, and those with its snapshot.
Wet == {"shim", "pick", "net", "create", "commands", "seal"}
Sealed(c) == Doing(c) = "record" \/ (Doing(c) = "cleanup" /\ Kind(Rest(c)) = "record")

BuildFacts(c) ==
  LET t == call[c].t
      f == root[Dest(c)]
      d == Doing(c) IN
  /\ d \in Wet \cup {"inject", "record", "cleanup"} => last[t] = NoFile
  /\ d \in Wet \cup {"materialize", "inject"} \/ Sealed(c) =>
       call[c].kind = IF rows[t] = "none" THEN "vm" ELSE rows[t]
  /\ d \in Wet \/ Sealed(c) => f # NoFile /\ <<c, "init">> \in data[f]
  /\ d = "seal" \/ Sealed(c) => <<c, "cmds">> \in data[f]
  /\ d \in {"commands", "seal"} => disk[c] = f
  /\ Sealed(c) /\ call[c].kind = "vm" => disk[c] = NoFile /\ snap[t] = data[f]
  /\ disk[c] # NoFile => d \in {"commands", "seal", "cleanup"} /\ ~Exported(disk[c])

\* The rootfs that an export has aside is the one the last build left.
Away(c) ==
  LET t == call[c].t IN
  /\ rows[t] = "vm" /\ call[c].kind = "vm"
  /\ backup[c] # NoFile /\ ~Exported(backup[c]) /\ Kept(t, backup[c])
  /\ ~Exported(root[<<t, "dir">>])

\* The steps of an export up to its copy of the rootfs.
Copying == {"memfiles", "shim", "pick", "net", "workcopy"}

ExportFacts(c) ==
  LET t == call[c].t
      f == root[Dest(c)]
      d == Doing(c) IN
  /\ call[c].todo \in Plain
  /\ d \in {"unlink", "putback", "dropwork", "cleanup", "own"} => call[c].ok \/ call[c].todo \in Puts
  /\ d \in Copying \cup {"aside"} => rows[t] = "vm" /\ call[c].kind = "vm"
  /\ d = "aside" => f # NoFile
  /\ d = "copydir" => call[c].kind = "dir"
  /\ d \in {"aside", "swap"} => work[c] = c
  /\ d \in AwaySteps => Away(c)
  /\ d \in {"resume", "halt", "copyout"} => f = c
  /\ disk[c] \in {NoFile, c}

\* What an export has of the last build's memory, and of its rootfs.
CopyFacts(c) ==
  LET t == call[c].t
      d == Doing(c)
      made == call[c].ok /\ call[c].kind = "vm" IN
  /\ call[c].seen = "built" =>
       /\ d \in Copying => last[t] # NoFile
       /\ d \in Copying \ {"memfiles"} => call[c].mem = snap[t]
       /\ d \in {"aside", "swap", "resume"} => call[c].mem = data[c]
       /\ d \in {"halt", "copyout"} \/ made => call[c].mem = data[c] \ {<<c, "run">>}
  /\ d = "copyout" \/ made => disk[c] = NoFile

TemplateInv ==
  \A t \in Templates \ Doubtful :
    /\ (\A c \in Calls : call[c].t = t => ~Disturbs(c)) => Fine(t)
    /\ \A c \in Calls : call[c].t = t =>
         /\ call[c].op = "build" => BuildFacts(c)
         /\ call[c].op = "export" => ExportFacts(c) /\ CopyFacts(c)
         /\ call[c].op = "delete" /\ Doing(c) = "rmdir" =>
              rows[t] = "none" /\ \A k \in Kinds : ~Exported(root[<<t, k>>])

\* Before its VM is resumed, c has left no mark of its guest.
Early == {"imagefree", "lookup", "memfiles", "shim", "pick", "net", "workcopy", "aside", "swap", "resume"}
NoMark(m) ==
  /\ \A f \in Files : m \notin data[f]
  /\ \A t \in Templates : m \notin snap[t]
  /\ \A i \in Images : m \notin img[i]
  /\ \A c \in Calls : m \notin call[c].mem
Unmarked == \A c \in Calls :
  call[c].op = "idle" \/ (call[c].op = "export" /\ Doing(c) \in Early) => disk[c] = NoFile /\ NoMark(<<c, "run">>)

\* Images.  An image that no two calls change at a time is absent until its export
\* records it, with the content that the export has copied.
SharedPaths == \A i \in Images : images[i].st = "shared" => images[i].at \in Paths

ImageFacts(c) ==
  LET i == call[c].i IN
  /\ call[c].op = "export" /\ i \notin mixed =>
       /\ Doing(c) \notin {"imagefree", "rest"} => images[i].st = "none"
       /\ Active(c) /\ call[c].ok /\ call[c].kind = "vm" /\ call[c].t \notin Doubtful => img[i] = data[c]
  /\ call[c].op = "unimage" /\ i \notin mixed /\ Doing(c) = "rmimage" => images[i].st = "none"

Recorded(i) ==
  LET c == images[i].by IN
  images[i].st = "own" =>
    /\ c \in Calls /\ call[c].op = "export" /\ call[c].i = i /\ images[i].at[2] = call[c].kind
    /\ call[c].t \notin Doubtful => call[c].ok /\ (call[c].kind = "vm" => img[i] = data[c])

ImageInv == SharedPaths /\ (\A c \in Calls : ImageFacts(c)) /\ \A i \in Images \ mixed : Recorded(i)

\* A call that does not go on.
Alike(d) ==
  /\ call'[d].op = call[d].op /\ call'[d].t = call[d].t /\ call'[d].i = call[d].i
  /\ call'[d].kind = call[d].kind /\ call'[d].seen = call[d].seen /\ call'[d].mem = call[d].mem
  /\ call'[d].ok = call[d].ok /\ call'[d].todo = call[d].todo

\* Such a call goes on with the same steps.
LEMMA AlikeGoes ==
  ASSUME NEW d \in Calls, Alike(d)
  PROVE  /\ Doing(d)' = Doing(d) /\ Dest(d)' = Dest(d) /\ Kind(Rest(d))' = Kind(Rest(d)) /\ Active(d)' = Active(d)
         /\ Disturbs(d)' = Disturbs(d) /\ Sealed(d)' = Sealed(d)
<1>1. Doing(d)' = Doing(d) /\ Dest(d)' = Dest(d) /\ Kind(Rest(d))' = Kind(Rest(d)) /\ Active(d)' = Active(d)
  BY DEF Alike, Doing, Dest, Rest, Active
<1> QED  BY <1>1 DEF Disturbs, Sealed, Alike

\* A template stays fine as long as its rows, paths and snapshot, and the content of its
\* rootfs, stay as they are.
LEMMA FineStays ==
  ASSUME RowType, SameCalls, NEW t \in Templates, Fine(t),
         rows'[t] = rows[t], last'[t] = last[t], snap'[t] = snap[t],
         \A k \in Kinds : root'[<<t, k>>] = root[<<t, k>>],
         \A k \in Kinds : last[t] # NoFile /\ root[<<t, k>>] # NoFile => data'[root[<<t, k>>]] = data[root[<<t, k>>]]
  PROVE  Fine(t)'
<1>1. \A f : Exported(f)' <=> Exported(f)
  BY DEF SameCalls, Exported
<1>2. \A k \in Kinds : ~Exported(root'[<<t, k>>])
  BY DEF Fine
<1>3. \A k \in Kinds : ~Exported(root[<<t, k>>])'
  BY <1>2 DEF SameCalls, Exported
<1>4. rows[t] \in Kinds \cup {"none"}
  BY DEF RowType
<1>5. Kept(t, root[<<t, rows[t]>>])'
  <2> SUFFICES ASSUME last'[t] # NoFile PROVE Kept(t, root[<<t, rows[t]>>])'
    BY DEF Kept
  <2>1. rows[t] \in Kinds /\ last[t] # NoFile
    BY <1>4 DEF Fine
  <2>2. root'[<<t, rows'[t]>>] = root[<<t, rows[t]>>]
    BY <2>1
  <2>3. Kept(t, root[<<t, rows[t]>>])
    BY DEF Fine
  <2>4. data'[root'[<<t, rows'[t]>>]] = data[root[<<t, rows[t]>>]]
    BY <2>1, <2>2, <2>3 DEF Kept
  <2>5. ~Exported(root[<<t, rows[t]>>])'
    BY <1>3, <2>1, <2>2 DEF Exported
  <2> QED  BY <2>2, <2>3, <2>4, <2>5, <2>1 DEF Kept
<1> QED  BY <1>3, <1>5 DEF Fine

\* What holds of a build as long as its template and its rootfs stay as they are.
LEMMA BuildStays ==
  ASSUME SameCalls, NEW d \in Calls, NEW t, t = call[d].t, Alike(d), BuildFacts(d),
         rows'[t] = rows[t], last'[t] = last[t], snap'[t] = snap[t], disk'[d] = disk[d],
         root'[Dest(d)] = root[Dest(d)],
         Doing(d) \in Wet \/ Sealed(d) => data'[root[Dest(d)]] = data[root[Dest(d)]]
  PROVE  BuildFacts(d)'
<1>1. /\ Doing(d)' = Doing(d) /\ Dest(d)' = Dest(d) /\ Sealed(d)' = Sealed(d)
      /\ call'[d].t = t /\ call'[d].kind = call[d].kind
      /\ root'[Dest(d)'] = root[Dest(d)]
  BY AlikeGoes DEF Alike
<1>2. Exported(disk[d])' = Exported(disk[d])
  BY DEF Exported, SameCalls
<1> QED  BY <1>1, <1>2 DEF BuildFacts, Wet

\* What holds of an export as long as its template and its files stay as they are.
LEMMA ExportStays ==
  ASSUME SameCalls, NEW d \in Calls, NEW t, t = call[d].t, Alike(d), call[d].kind \in Kinds,
         rows'[t] = rows[t], last'[t] = last[t], snap'[t] = snap[t],
         disk'[d] = disk[d], work'[d] = work[d], backup'[d] = backup[d],
         \A k \in Kinds : root'[<<t, k>>] = root[<<t, k>>],
         backup[d] # NoFile /\ ~Exported(backup[d]) => data'[backup[d]] = data[backup[d]]
  PROVE  /\ ExportFacts(d) => ExportFacts(d)'
         /\ data'[d] = data[d] /\ CopyFacts(d) => CopyFacts(d)'
<1>1. /\ Doing(d)' = Doing(d) /\ Dest(d)' = Dest(d) /\ Dest(d) = <<t, call[d].kind>>
      /\ call'[d].t = t /\ call'[d].kind = call[d].kind /\ call'[d].todo = call[d].todo
      /\ call'[d].seen = call[d].seen /\ call'[d].mem = call[d].mem /\ call'[d].ok = call[d].ok
  BY AlikeGoes DEF Alike, Dest
<1>2. /\ root'[Dest(d)'] = root[Dest(d)]
      /\ root'[<<t, "dir">>] = root[<<t, "dir">>]
  BY <1>1 DEF Kinds
<1>3. Exported(backup[d])' = Exported(backup[d]) /\ Exported(root[<<t, "dir">>])' = Exported(root[<<t, "dir">>])
  BY <1>2 DEF Exported, SameCalls
<1>4. Away(d) => Away(d)'
  <2> SUFFICES ASSUME Away(d) PROVE Away(d)'
    OBVIOUS
  <2>1. /\ rows[t] = "vm" /\ call[d].kind = "vm" /\ backup[d] # NoFile /\ ~Exported(backup[d])
        /\ Kept(t, backup[d]) /\ ~Exported(root[<<t, "dir">>])
    BY DEF Away
  <2>2. Kept(t, backup[d])'
    BY <1>3, <2>1 DEF Kept
  <2>3. ~Exported(root[<<call[d].t, "dir">>])'
    BY <1>1, <1>3, <2>1 DEF Exported
  <2>4. Kept(call[d].t, backup[d])'
    BY <1>1, <2>2 DEF Kept
  <2> QED  BY <1>1, <1>3, <2>1, <2>3, <2>4 DEF Away
<1>5. ExportFacts(d) => ExportFacts(d)'
  BY <1>1, <1>2, <1>4 DEF ExportFacts
<1>6. data'[d] = data[d] /\ CopyFacts(d) => CopyFacts(d)'
  BY <1>1 DEF CopyFacts
<1> QED  BY <1>5, <1>6

\* Nothing of template u changes.
Untouched(u, h) ==
  /\ rows'[u] = rows[u] /\ last'[u] = last[u] /\ snap'[u] = snap[u]
  /\ \A k \in Kinds : root'[<<u, k>>] = root[<<u, k>>]
  /\ \A d \in Calls : call[d].t = u => work'[d] = work[d] /\ backup'[d] = backup[d] /\ disk'[d] = disk[d]
  /\ \A f \in Files : Of(f, u, h) => data'[f] = data[f]

\* A call leaves the templates of other calls as they are.
LEMMA Untouches ==
  ASSUME ArtifactAssumption, NEW h, NEW c \in Calls, Reaches(c, h), NEW u \in Templates,
         call[c].op \notin Writers \/ call[c].t # u
  PROVE  Untouched(u, h)
<1>1. {"build", "export"} \subseteq Writers
  BY DEF Writers
<1>2. rows'[u] = rows[u] /\ last'[u] = last[u] /\ snap'[u] = snap[u]
  BY DEF Reaches
<1>3. \A k \in Kinds : root'[<<u, k>>] = root[<<u, k>>]
  <2> TAKE k \in Kinds
  <2>1. <<u, k>> \in Paths /\ <<u, k>>[1] = u
    BY DEF Paths
  <2> QED  BY <2>1 DEF Reaches
<1>4. \A d \in Calls : call[d].t = u => work'[d] = work[d] /\ backup'[d] = backup[d] /\ disk'[d] = disk[d]
  BY <1>1 DEF Reaches
<1>5. \A f \in Files : Of(f, u, h) => data'[f] = data[f]
  BY <1>1, OneHome DEF Reaches
<1> QED  BY <1>2, <1>3, <1>4, <1>5 DEF Untouched

\* What holds of a template and its calls goes on to hold as long as nothing of it changes.
LEMMA StaysUntouched ==
  ASSUME ArtifactAssumption, Control, RowType, SameCalls, NEW h, Homes(h), NEW u \in Templates, Untouched(u, h)
  PROVE  /\ Fine(u) => Fine(u)'
         /\ \A d \in Calls : Alike(d) /\ call[d].t = u =>
              /\ call[d].op = "build" /\ BuildFacts(d) => BuildFacts(d)'
              /\ call[d].op = "export" /\ ExportFacts(d) => ExportFacts(d)'
              /\ call[d].op = "export" /\ CopyFacts(d) => CopyFacts(d)'
<1>1. \A f : Of(f, u, h) /\ f # NoFile => data'[f] = data[f]
  BY DEF Of, Untouched, Files
<1>2. \A k \in Kinds : root[<<u, k>>] # NoFile => data'[root[<<u, k>>]] = data[root[<<u, k>>]]
  <2> TAKE k \in Kinds
  <2>1. <<u, k>> \in Paths /\ <<u, k>>[1] = u
    BY DEF Paths
  <2> QED  BY <1>1, <2>1 DEF Homes
<1>3. /\ rows'[u] = rows[u] /\ last'[u] = last[u] /\ snap'[u] = snap[u]
      /\ \A k \in Kinds : root'[<<u, k>>] = root[<<u, k>>]
  BY DEF Untouched
<1>4. Fine(u) => Fine(u)'
  BY <1>2, <1>3, FineStays
<1>5. ASSUME NEW d \in Calls, Alike(d), call[d].t = u, call[d].op = "build", BuildFacts(d)
      PROVE  BuildFacts(d)'
  <2>1. disk'[d] = disk[d] /\ Dest(d) = <<u, call[d].kind>> /\ call[d].kind \in Kinds
    BY <1>5 DEF Untouched, Dest, Control, CallInv
  <2>2. Doing(d) \in Wet \/ Sealed(d) => data'[root[Dest(d)]] = data[root[Dest(d)]]
    BY <1>2, <1>5, <2>1 DEF BuildFacts
  <2> QED  BY <1>3, <1>5, <2>1, <2>2, BuildStays
<1>6. ASSUME NEW d \in Calls, Alike(d), call[d].t = u, call[d].op = "export"
      PROVE  (ExportFacts(d) => ExportFacts(d)') /\ (CopyFacts(d) => CopyFacts(d)')
  <2>1. disk'[d] = disk[d] /\ work'[d] = work[d] /\ backup'[d] = backup[d] /\ call[d].kind \in Kinds
    BY <1>6 DEF Untouched, Control, CallInv
  <2>2. backup[d] # NoFile => data'[backup[d]] = data[backup[d]]
    BY <1>1, <1>6 DEF Homes
  <2>3. data'[d] = data[d]
    BY <1>6 DEF Of, Untouched, Files
  <2> QED  BY <1>3, <1>6, <2>1, <2>2, <2>3, ExportStays
<1> QED  BY <1>4, <1>5, <1>6

\* What is written with a call of the same template in progress: its own file, and
\* none that an export has made.
Writes(c) == \A f \in Files : data'[f] # data[f] => f = c \/ ~Exported(f)

\* A call that has ended, or does not change its template, comes through as it was.
LEMMA Beside ==
  ASSUME SameCalls, NEW h, NEW c \in Calls, Reaches(c, h), Writes(c),
         NEW d \in Calls, d # c, Alike(d), Doing(d) = "rest"
  PROVE  /\ call[d].op = "build" /\ BuildFacts(d) => BuildFacts(d)'
         /\ call[d].op = "export" /\ ExportFacts(d) => ExportFacts(d)'
         /\ call[d].op = "export" /\ CopyFacts(d) => CopyFacts(d)'
         /\ ~Disturbs(d) /\ ~Disturbs(d)'
<1>1. disk'[d] = disk[d]
  BY DEF Reaches
<1>2. /\ Doing(d)' = "rest" /\ Sealed(d)' = Sealed(d) /\ ~Sealed(d)
      /\ call'[d].kind = call[d].kind /\ call'[d].todo = call[d].todo
      /\ call'[d].seen = call[d].seen /\ call'[d].mem = call[d].mem /\ call'[d].ok = call[d].ok
  BY AlikeGoes DEF Alike, Sealed
<1>3. call[d].op = "build" /\ BuildFacts(d) => BuildFacts(d)'
  BY <1>1, <1>2 DEF BuildFacts, Wet
<1>4. call[d].op = "export" /\ ExportFacts(d) => ExportFacts(d)'
  BY <1>1, <1>2 DEF ExportFacts, Copying, AwaySteps
<1>5. call[d].op = "export" => data'[d] = data[d]
  BY DEF Writes, Exported, Files
<1>6. call[d].op = "export" /\ CopyFacts(d) => CopyFacts(d)'
  BY <1>1, <1>2, <1>5 DEF CopyFacts, Copying
<1>7. ~Disturbs(d) /\ ~Disturbs(d)'
  BY <1>2, AlikeGoes DEF Disturbs, AwaySteps
<1> QED  BY <1>3, <1>4, <1>6, <1>7

\* A step goes on with the rest of the list or with what is left when it fails.
LEMMA Continues ==
  ASSUME Control, NEW c \in Calls, Step(c),
         Doing(c) \notin {"ensure", "addbuild", "load", "claim", "failed", "ready", "paths", "lookup", "lookimage"}
  PROVE  call'[c].todo \in {Rest(c), Err(c)}
<1>1. DOMAIN call = Calls /\ DOMAIN call[c] = DOMAIN Idle
  BY DEF Control, CallInv
<1>2. \A k : At(c, k) => (k # "copyout" => Doing(c) = k)
  BY Names DEF Control
<1>3. \A q : Then(c, q) => call'[c].todo = q
  BY ThenLeaves
<1>4. CASE ~(PickSlot(c) \/ PrepareNet(c) \/ Materialize(c) \/ CopyMemory(c) \/ CopyOut(c))
  <2>1. Then(c, Rest(c)) \/ Then(c, Err(c))
    BY <1>2, <1>4 DEF Step, Gives, Ensure, AddRow, AddBuild, LoadBuild, Claim, Failed, Ready, Record, DeleteRow, ChoosePaths,
     Lookup, RemoveDir, ImageFree, OwnImage, ShareImage, AddImage, LookImage, DeleteImage, RemoveImage, StartShim,
     CreateRuntime, ResumeRuntime, Boot, RunCommands, Seal, Cleanup, Inject, CopyWork, Aside, Swap, Halt,
     Unlink, PutBack, DropWork
  <2> QED  BY <1>3, <2>1
<1>5. CASE PickSlot(c)
  <2>1. Then(c, Err(c)) \/ \E n \in Slots : call' = [call EXCEPT ![c].slot = n, ![c].todo = Rest(c)]
    BY <1>5 DEF PickSlot, Picks, Rest
  <2> QED  BY <1>1, <1>3, <2>1 DEF Idle
<1>6. CASE PrepareNet(c)
  <2>1. Then(c, Err(c)) \/ call' = [call EXCEPT ![c].net = TRUE, ![c].todo = Rest(c)]
    BY <1>6 DEF PrepareNet, Rest
  <2> QED  BY <1>1, <1>3, <2>1 DEF Idle
<1>7. CASE Materialize(c)
  <2>1. CASE Then(c, Err(c))
    BY <1>3, <2>1
  <2>2. CASE ~Then(c, Err(c))
    <3>1. PICK steps \in {Rest(c), Err(c)}, seen \in {SourceKind(c)} :
             call' = [call EXCEPT ![c].seen = seen, ![c].todo = steps]
      BY <1>7, <2>2 DEF Materialize
    <3> QED  BY <1>1, <3>1 DEF Idle
  <2> QED  BY <2>1, <2>2
<1>8. CASE CopyMemory(c)
  <2>1. Then(c, Err(c)) \/ call' = [call EXCEPT ![c].mem = snap[call[c].t], ![c].todo = Rest(c)]
    BY <1>8 DEF CopyMemory, Rest
  <2> QED  BY <1>1, <1>3, <2>1 DEF Idle
<1>9. CASE CopyOut(c)
  <2>1. Then(c, Err(c)) \/ call' = [call EXCEPT ![c].ok = TRUE, ![c].todo = Rest(c)]
    BY <1>9 DEF CopyOut, Rest
  <2> QED  BY <1>1, <1>3, <2>1 DEF Idle
<1> QED  BY <1>4, <1>5, <1>6, <1>7, <1>8, <1>9

\* A step of a build whose template no other call changes.
LEMMA BuildStep ==
  ASSUME ArtifactAssumption, Control, RowType, FileType, NEW h, Homes(h), NEW c \in Calls, Step(c),
         call[c].op = "build", NEW t \in Templates, t = call[c].t, Fine(t), BuildFacts(c), t \notin spoilt'
  PROVE  BuildFacts(c)' /\ Fine(t)' /\ Writes(c)
<1> DEFINE p == Dest(c)
           f == root[p]
<1>1. CallInv(c) /\ DOMAIN call = Calls /\ Active(c) /\ Moved(c)
  BY Steps DEF Control
<1>2. /\ \A k : At(c, k) => (k # "copyout" => Doing(c) = k)
      /\ At(c, "copyout") => Doing(c) \in {"copyout", "copydir"}
  BY <1>1, Names
<1>3. p \in Paths /\ p = <<t, call[c].kind>> /\ call[c].kind \in Kinds /\ p[1] = t
  BY Destination DEF Writers
<1>4. /\ \A k \in Kinds : <<t, k>> \in Paths
      /\ \A k \in Kinds : ~Exported(root[<<t, k>>])
      /\ ~Exported(f) /\ ~Exported(c) /\ ~Exported(NoFile)
  BY <1>3 DEF Fine, Paths, Exported, ArtifactAssumption
<1>5. f = NoFile \/ f \in Files
  BY <1>3 DEF Homes, Of, Files
<1>6. /\ SameCalls /\ call'[c].t = t /\ call'[c].op = "build"
      /\ \A g : Exported(g)' <=> Exported(g)
  <2>1. SameCalls
    BY <1>1, Details DEF Moved, SameCalls
  <2> QED  BY <1>1, <2>1 DEF Moved, SameCalls, Exported
<1>7. Goes("build", call[c].ok, Doing(c), Doing(c)')
  BY <1>1 DEF Moved
<1>8. Doing(c)' = Kind(call'[c].todo) /\ Kind(Rest(c))' = Kind(Tail(call'[c].todo))
  BY DEF Doing, Rest
<1>9. Dry(c) => Fine(t)' /\ Writes(c)
  BY <1>6, FineStays DEF Dry, Writes
<1>10. /\ Doing(c) # "paths" => call'[c].kind = call[c].kind /\ Dest(c)' = p
       /\ rows[t] \in Kinds \cup {"none"}
  BY <1>1, <1>6, Details, Whose DEF Dest, RowType
<1>11. call'[c].todo = Clearing => Doing(c)' = "cleanup" /\ ~Sealed(c)'
  BY <1>1, <1>8, FailKinds, BuildGoes DEF Sealed
<1>12. call'[c].todo = Failing => Doing(c)' = "failed"
  BY <1>8, FailKinds
<1>13. ASSUME disk'[c] = NoFile, Doing(c)' \in {"claim", "paths", "failed", "ready", "rest"}
       PROVE  BuildFacts(c)'
  BY <1>13 DEF BuildFacts, Sealed, Wet
<1> HIDE DEF p, f
<1>14. CASE LoadBuild(c) \/ Claim(c) \/ Failed(c) \/ Ready(c)
  <2>1. Dry(c) /\ Doing(c) \in {"load", "claim", "failed", "ready"}
    BY <1>2, <1>14 DEF LoadBuild, Claim, Failed, Ready, Ends, Dry, files, host, history, store
  <2>2. Doing(c)' \in {"claim", "paths", "rest"} /\ disk[c] = NoFile
    BY <1>7, <2>1 DEF Goes, BuildFacts
  <2> QED  BY <1>9, <1>13, <2>1, <2>2 DEF Dry
<1>15. CASE ChoosePaths(c)
  <2>1. Dry(c) /\ Doing(c) = "paths"
    BY <1>2, <1>15 DEF ChoosePaths, Dry, files, host, history, store
  <2>2. Doing(c)' \in {"materialize", "failed"} /\ disk[c] = NoFile
    BY <1>7, <2>1 DEF Goes, BuildFacts
  <2>3. call'[c].kind = IF rows[t] = "none" THEN "vm" ELSE rows[t]
    <3>1. \E q : call' = [call EXCEPT ![c].kind = IF rows[t] = "none" THEN "vm" ELSE rows[t], ![c].todo = q]
      BY <1>15 DEF ChoosePaths
    <3> QED  BY <1>1, <3>1 DEF CallInv, Idle
  <2>4. BuildFacts(c)'
    BY <1>6, <2>1, <2>2, <2>3 DEF BuildFacts, Sealed, Wet, Dry
  <2> QED  BY <1>9, <2>1, <2>4
<1>16. CASE Materialize(c)
  <2>1. Doing(c) = "materialize" /\ disk[c] = NoFile /\ call[c].kind = IF rows[t] = "none" THEN "vm" ELSE rows[t]
    BY <1>2, <1>16 DEF Materialize, BuildFacts
  <2>2. Doing(c)' \in {"inject", "failed"} /\ UNCHANGED <<rows, snap, disk, work, backup>>
    BY <1>7, <1>16, <2>1 DEF Goes, Materialize, store, host
  <2>3. CASE UNCHANGED <<root, data, last>>
    <3>1. Fine(t)' /\ Writes(c)
      BY <1>6, <2>2, <2>3, FineStays DEF Writes
    <3>2. CASE Doing(c)' = "failed"
      BY <1>13, <2>1, <2>2, <3>1, <3>2
    <3>3. CASE Doing(c)' = "inject" /\ last[t] = NoFile
      BY <1>6, <1>10, <2>1, <2>2, <2>3, <3>1, <3>3 DEF BuildFacts, Sealed, Wet
    <3>4. CASE Doing(c)' = "inject" /\ last[t] # NoFile
      <4>1. ~Then(c, Err(c))
        BY <1>1, <1>12, <2>1, <3>4, BuildGoes, ThenLeaves
      <4>2. last' = [last EXCEPT ![t] = NoFile]
        BY <1>16, <4>1 DEF Materialize
      <4> QED  BY <2>3, <3>4, <4>2 DEF FileType
    <3> QED  BY <2>2, <3>2, <3>3, <3>4
  <2>4. CASE ~UNCHANGED <<root, data, last>>
    <3>1. PICK g \in {f, c} : /\ root' \in {root, [root EXCEPT ![p] = g]}
                              /\ \E v : data' \in {data, [data EXCEPT ![g] = v]}
      BY <1>16 DEF Materialize, p, f
    <3>2. last'[t] = NoFile
      BY <1>16, <2>4 DEF Materialize, FileType
    <3>3. \A k \in Kinds : root'[<<t, k>>] \in {root[<<t, k>>], f, c}
      BY <1>4, <3>1 DEF FileType
    <3>4. \A k \in Kinds : ~Exported(root[<<t, k>>])'
      <4> TAKE k \in Kinds
      <4>1. ~Exported(root'[<<t, k>>])
        BY <1>4, <3>3
      <4> QED  BY <1>6, <4>1 DEF Exported
    <3>5. Fine(t)'
      BY <3>2, <3>4 DEF Fine, Kept
    <3>6. Writes(c)
      BY <1>4, <3>1 DEF Writes, FileType
    <3>7. BuildFacts(c)'
      BY <1>6, <1>10, <2>1, <2>2, <3>2 DEF BuildFacts, Sealed, Wet
    <3> QED  BY <3>5, <3>6, <3>7
  <2> QED  BY <2>3, <2>4
<1>17. CASE Inject(c)
  <2>1. /\ Doing(c) = "inject" /\ disk[c] = NoFile /\ last[t] = NoFile
        /\ call[c].kind = IF rows[t] = "none" THEN "vm" ELSE rows[t]
    BY <1>2, <1>17 DEF Inject, BuildFacts
  <2>2. UNCHANGED <<rows, root, snap, disk, last>>
    BY <1>17 DEF Inject, store, host, history
  <2>3. Fine(t)'
    BY <1>6, <2>1, <2>2, FineStays
  <2>4. CASE Then(c, Err(c)) /\ data' = data
    <3>1. Doing(c)' = "failed"
      BY <1>1, <1>12, <2>1, <2>4, BuildGoes, ThenLeaves
    <3> QED  BY <1>13, <2>1, <2>2, <2>3, <2>4, <3>1 DEF Writes
  <2>5. CASE f # NoFile /\ data' = [data EXCEPT ![f] = @ \cup {<<c, "init">>}]
    <3>1. <<c, "init">> \in data'[f] /\ Writes(c)
      BY <1>4, <1>5, <2>5 DEF FileType, Writes
    <3>2. Doing(c)' \in {"shim", "failed"}
      BY <1>7, <2>1 DEF Goes
    <3>3. root'[Dest(c)'] = f
      BY <1>10, <2>1, <2>2 DEF f
    <3>4. BuildFacts(c)'
      BY <1>6, <1>10, <2>1, <2>2, <2>5, <3>1, <3>2, <3>3 DEF BuildFacts, Sealed, Wet
    <3> QED  BY <2>3, <3>1, <3>4
  <2> QED  BY <1>17, <2>4, <2>5 DEF Inject, f, p
<1>18. CASE StartShim(c) \/ PickSlot(c) \/ PrepareNet(c) \/ CreateRuntime(c)
  <2>1. Doing(c) \in {"shim", "pick", "net", "create"}
    BY <1>2, <1>18 DEF StartShim, PickSlot, PrepareNet, CreateRuntime, Boot
  <2>2. UNCHANGED <<rows, root, snap, data, last>>
    BY <1>18 DEF StartShim, PickSlot, PrepareNet, CreateRuntime, Boot, store, files, history
  <2>3. /\ disk[c] = NoFile /\ last[t] = NoFile /\ f # NoFile /\ <<c, "init">> \in data[f]
        /\ call[c].kind = IF rows[t] = "none" THEN "vm" ELSE rows[t]
    BY <2>1 DEF BuildFacts, Wet, f, p
  <2>4. Fine(t)' /\ Writes(c)
    BY <1>6, <2>2, FineStays DEF Writes
  <2>5. disk'[c] \in {NoFile, f} /\ (Doing(c) # "create" => disk'[c] = NoFile)
    BY <1>2, <1>18, <2>1, <2>3 DEF StartShim, PickSlot, PrepareNet, CreateRuntime, Boot, host, FileType, f, p
  <2>6. \/ /\ call'[c].todo = Rest(c)
           /\ <<Doing(c), Doing(c)'>> \in
                {<<"shim", "pick">>, <<"pick", "net">>, <<"net", "create">>, <<"create", "commands">>}
        \/ call'[c].todo = Clearing
    BY <1>1, <1>8, <2>1, Continues, BuildGoes
  <2>7. root'[Dest(c)'] = f
    BY <1>10, <2>1, <2>2 DEF f
  <2>8. Doing(c)' = "commands" => disk'[c] = f
    <3> SUFFICES ASSUME Doing(c)' = "commands" PROVE disk'[c] = f
      OBVIOUS
    <3>1. CreateRuntime(c)
      BY <1>2, <1>11, <1>18, <2>6 DEF StartShim, PickSlot, PrepareNet
    <3>2. ~Then(c, Err(c))
      BY <1>1, <1>11, <2>1, BuildGoes, ThenLeaves
    <3> QED  BY <3>1, <3>2 DEF CreateRuntime, Boot, FileType, f, p
  <2>9. ~Exported(disk'[c]) /\ ~Exported(disk[c])'
    BY <1>4, <1>6, <2>5 DEF Exported
  <2>10. Doing(c)' \in {"pick", "net", "create", "commands", "cleanup"} /\ ~Sealed(c)'
         /\ (disk'[c] # NoFile => Doing(c)' \in {"commands", "cleanup"})
    BY <1>11, <2>5, <2>6 DEF Sealed
  <2>11. BuildFacts(c)'
    BY <1>6, <1>10, <2>1, <2>2, <2>3, <2>7, <2>8, <2>9, <2>10 DEF BuildFacts, Wet
  <2> QED  BY <2>4, <2>11
<1>19. CASE RunCommands(c)
  <2>1. /\ Doing(c) = "commands" /\ disk[c] = f /\ last[t] = NoFile /\ f # NoFile /\ <<c, "init">> \in data[f]
        /\ call[c].kind = IF rows[t] = "none" THEN "vm" ELSE rows[t]
    BY <1>2, <1>19 DEF RunCommands, BuildFacts, Wet, f, p
  <2>2. UNCHANGED <<rows, root, snap, last>>
    BY <1>19 DEF RunCommands, store, history
  <2>3. Fine(t)'
    BY <1>6, <2>1, <2>2, FineStays
  <2>4. root'[Dest(c)'] = f
    BY <1>10, <2>1, <2>2 DEF f
  <2>5. CASE Then(c, Err(c))
    <3>1. data' = data \/ data' = [data EXCEPT ![f] = @ \cup {<<c, "cmds">>}]
      BY <1>19, <2>1 DEF RunCommands
    <3>2. Writes(c)
      BY <1>4, <3>1 DEF FileType, Writes
    <3>3. call'[c].todo = Clearing
      BY <1>1, <2>1, <2>5, BuildGoes, ThenLeaves
    <3>4. disk'[c] = NoFile \/ disk'[c] = f
      BY <1>19, <2>1 DEF RunCommands, Killed, FileType
    <3>5. ~Exported(disk'[c]) /\ ~Exported(disk[c])'
      BY <1>4, <1>6, <3>4 DEF Exported
    <3>6. BuildFacts(c)'
      BY <1>6, <1>11, <2>1, <2>2, <3>3, <3>5 DEF BuildFacts, Wet
    <3> QED  BY <2>3, <3>2, <3>6
  <2>6. CASE ~Then(c, Err(c))
    <3>1. data' = [data EXCEPT ![f] = @ \cup {<<c, "cmds">>}] /\ disk' = disk /\ Then(c, Rest(c))
      BY <1>19, <2>1, <2>6 DEF RunCommands
    <3>2. {<<c, "init">>, <<c, "cmds">>} \subseteq data'[f] /\ Writes(c)
      BY <1>4, <1>5, <2>1, <3>1 DEF FileType, Writes
    <3>3. Doing(c)' = "seal"
      BY <1>1, <1>8, <2>1, <3>1, BuildGoes, ThenLeaves
    <3>4. ~Exported(disk[c])'
      BY <1>4, <1>6, <2>1, <3>1 DEF Exported
    <3>5. BuildFacts(c)'
      BY <1>6, <1>10, <2>1, <2>2, <2>4, <3>1, <3>2, <3>3, <3>4 DEF BuildFacts, Wet, Sealed
    <3> QED  BY <2>3, <3>2, <3>5
  <2> QED  BY <2>5, <2>6
<1>20. CASE Seal(c)
  <2>1. /\ Doing(c) = "seal" /\ disk[c] = f /\ last[t] = NoFile /\ f # NoFile
        /\ {<<c, "init">>, <<c, "cmds">>} \subseteq data[f]
        /\ call[c].kind = IF rows[t] = "none" THEN "vm" ELSE rows[t]
    BY <1>2, <1>20 DEF Seal, BuildFacts, Wet, f, p
  <2>2. UNCHANGED <<rows, root, data, last>> /\ disk'[c] \in {NoFile, f}
    BY <1>20, <2>1 DEF Seal, Killed, store, history, FileType
  <2>3. Writes(c) /\ ~Exported(disk'[c]) /\ ~Exported(disk[c])'
    BY <1>4, <1>6, <2>2 DEF Writes, Exported
  <2>4. Fine(t)'
    BY <1>6, <2>1, <2>2 DEF Fine, Kept, Exported
  <2>5. root'[Dest(c)'] = f
    BY <1>10, <2>1, <2>2 DEF f
  <2>6. CASE Then(c, Err(c))
    <3>1. call'[c].todo = Clearing
      BY <1>1, <2>1, <2>6, BuildGoes, ThenLeaves
    <3>2. BuildFacts(c)'
      BY <1>6, <1>11, <2>1, <2>2, <2>3, <3>1 DEF BuildFacts, Wet
    <3> QED  BY <2>3, <2>4, <3>2
  <2>7. CASE ~Then(c, Err(c))
    <3>1. /\ Then(c, Rest(c)) /\ snap' = IF call[c].kind = "vm" THEN [snap EXCEPT ![t] = data[f]] ELSE snap
          /\ call[c].kind = "vm" => disk'[c] = NoFile
      BY <1>20, <2>1, <2>7 DEF Seal
    <3>2. Doing(c)' = "cleanup" /\ Kind(Rest(c))' = "record"
      BY <1>1, <1>8, <2>1, <3>1, BuildGoes, ThenLeaves
    <3>3. call[c].kind = "vm" => snap'[t] = data[f]
      BY <3>1 DEF FileType
    <3>4. BuildFacts(c)'
      BY <1>6, <1>10, <2>1, <2>2, <2>3, <2>5, <3>1, <3>2, <3>3 DEF BuildFacts, Wet, Sealed
    <3> QED  BY <2>3, <2>4, <3>4
  <2> QED  BY <2>6, <2>7
<1>21. CASE Cleanup(c)
  <2>1. Doing(c) = "cleanup" /\ last[t] = NoFile
    BY <1>2, <1>21 DEF Cleanup, BuildFacts
  <2>2. UNCHANGED <<rows, root, snap, data, last>> /\ disk'[c] = NoFile /\ Then(c, Rest(c))
    BY <1>21 DEF Cleanup, store, files, FileType
  <2>3. Fine(t)' /\ Writes(c)
    BY <1>6, <2>2, FineStays DEF Writes
  <2>4. Doing(c)' = Kind(Rest(c)) /\ Doing(c)' \in {"record", "failed"}
    BY <1>7, <1>8, <2>1, <2>2, ThenLeaves DEF Goes
  <2>5. CASE Doing(c)' = "failed"
    BY <1>13, <2>2, <2>3, <2>5
  <2>6. CASE Doing(c)' = "record"
    <3>1. Sealed(c)
      BY <2>1, <2>4, <2>6 DEF Sealed
    <3>2. root'[Dest(c)'] = f
      BY <1>10, <2>1, <2>2 DEF f
    <3>3. /\ call[c].kind = IF rows[t] = "none" THEN "vm" ELSE rows[t]
          /\ f # NoFile /\ <<c, "init">> \in data[f] /\ <<c, "cmds">> \in data[f]
          /\ call[c].kind = "vm" => snap[t] = data[f]
      BY <3>1 DEF BuildFacts, f, p
    <3>4. BuildFacts(c)'
      BY <1>6, <1>10, <2>1, <2>2, <2>6, <3>2, <3>3 DEF BuildFacts, Wet, Sealed
    <3> QED  BY <2>3, <3>4
  <2> QED  BY <2>4, <2>5, <2>6
<1>22. CASE Record(c)
  <2>1. Doing(c) = "record" /\ Sealed(c)
    BY <1>2, <1>22 DEF Record, Sealed
  <2>2. /\ call[c].kind = IF rows[t] = "none" THEN "vm" ELSE rows[t]
        /\ f # NoFile /\ {<<c, "init">>, <<c, "cmds">>} \subseteq data[f]
        /\ call[c].kind = "vm" => snap[t] = data[f]
        /\ disk[c] = NoFile
    BY <2>1 DEF BuildFacts, f, p
  <2>3. UNCHANGED <<root, snap, data, disk>> /\ Doing(c)' \in {"ready", "failed"}
    BY <1>7, <1>22, <2>1 DEF Record, files, host, Goes
  <2>4. BuildFacts(c)' /\ Writes(c)
    BY <1>13, <2>2, <2>3 DEF Writes
  <2>5. CASE UNCHANGED <<rows, last>>
    BY <1>6, <2>3, <2>4, <2>5, FineStays
  <2>6. CASE ~UNCHANGED <<rows, last>>
    <3>1. /\ rows' = [rows EXCEPT ![t] = IF @ = "none" THEN call[c].kind ELSE @]
          /\ last' = [last EXCEPT ![t] = c]
      BY <1>22, <2>6 DEF Record
    <3>2. rows'[t] = call[c].kind /\ last'[t] = c
      BY <1>3, <2>2, <3>1 DEF RowType, FileType
    <3>3. \A k \in Kinds : ~Exported(root[<<t, k>>])'
      BY <1>4, <1>6, <2>3 DEF Exported
    <3>4. root'[<<t, rows'[t]>>] = f
      BY <1>3, <2>3, <3>2 DEF f
    <3>5. Kept(t, root[<<t, rows[t]>>])'
      BY <1>4, <1>6, <2>2, <2>3, <3>2, <3>4 DEF Kept, Exported
    <3>6. rows'[t] # "none"
      BY <1>3, <3>2 DEF Kinds
    <3> QED  BY <2>4, <3>3, <3>5, <3>6 DEF Fine
  <2> QED  BY <2>5, <2>6
<1>23. \/ LoadBuild(c) \/ Claim(c) \/ Failed(c) \/ Ready(c) \/ ChoosePaths(c) \/ Materialize(c) \/ Inject(c)
       \/ StartShim(c) \/ PickSlot(c) \/ PrepareNet(c) \/ CreateRuntime(c) \/ RunCommands(c) \/ Seal(c) \/ Cleanup(c)
       \/ Record(c)
  BY <1>1, <1>2, Whose DEF Step, Ensure, AddRow, AddBuild, DeleteRow, Lookup, RemoveDir, ImageFree, OwnImage, ShareImage,
     LookImage, DeleteImage, RemoveImage, ResumeRuntime, Boot, CopyMemory, CopyWork, Aside, Swap, Halt, CopyOut, Unlink,
     PutBack, DropWork
<1> QED  BY <1>14, <1>15, <1>16, <1>17, <1>18, <1>19, <1>20, <1>21, <1>22, <1>23

\* A step of an export whose template no other call changes.
LEMMA ExportStep ==
  ASSUME ArtifactAssumption, Control, RowType, FileType, Unmarked, NEW h, Homes(h), NEW c \in Calls, Step(c),
         call[c].op = "export", NEW t \in Templates, t = call[c].t, ~Disturbs(c) => Fine(t),
         ExportFacts(c), CopyFacts(c), t \notin spoilt'
  PROVE  ExportFacts(c)' /\ CopyFacts(c)' /\ (~Disturbs(c)' => Fine(t)') /\ Writes(c)
<1> DEFINE p == Dest(c)
           f == root[p]
<1>1. CallInv(c) /\ DOMAIN call = Calls /\ Active(c) /\ Moved(c)
  BY Steps DEF Control
<1>2. /\ \A k : At(c, k) => (k # "copyout" => Doing(c) = k)
      /\ At(c, "copyout") => Doing(c) \in {"copyout", "copydir"}
  BY <1>1, Names
<1>3. /\ p \in Paths /\ p = <<t, call[c].kind>> /\ call[c].kind \in Kinds
      /\ \A k \in Kinds : <<t, k>> \in Paths
  BY Destination DEF Writers, Paths
<1>4. call[c].todo \in Plain /\ disk[c] \in {NoFile, c} /\ Exported(c) /\ c # NoFile
  BY DEF ExportFacts, Exported, ArtifactAssumption
<1>5. /\ SameCalls /\ call'[c].t = t /\ call'[c].op = "export"
      /\ \A g : Exported(g)' <=> Exported(g)
  <2>1. SameCalls
    BY <1>1, Details DEF Moved, SameCalls
  <2> QED  BY <1>1, <2>1 DEF Moved, SameCalls, Exported
<1>6. Doing(c)' = Kind(call'[c].todo)
  BY DEF Doing
<1>7. /\ Doing(c) # "lookup" => call'[c].kind = call[c].kind /\ Dest(c)' = p /\ call'[c].seen = call[c].seen
      /\ Doing(c) # "memfiles" => call'[c].mem = call[c].mem
      /\ Doing(c) \notin {"copyout", "copydir"} => call'[c].ok = call[c].ok
      /\ call[c].ok => Doing(c) \in Ended
      /\ call[c].ok \in BOOLEAN
  BY <1>1, <1>4, <1>5, Details, PlainMoves DEF Dest, Moved, CallInv
<1>8. ~Disturbs(c) <=> Doing(c) \notin AwaySteps
  BY DEF Disturbs
<1>9. ~Disturbs(c)' <=> Doing(c)' \notin AwaySteps
  BY <1>5 DEF Disturbs
<1>10. Fine(t) /\ Dry(c) => Fine(t)'
  BY <1>5, FineStays DEF Dry
<1>11. data' = data => Writes(c)
  BY DEF Writes
<1>12. Doing(c) \notin {"lookup"} => call'[c].todo \in {Rest(c), Err(c)}
  BY <1>1, <1>4, Continues, PlainMoves
<1>13. /\ Rest(c) \in Plain /\ << >> \in Plain /\ Restore \in Plain /\ Late \in Plain /\ Deferred \in Plain
       /\ Kind(<< >>) = "rest" /\ Kind(Restore) = "unlink" /\ Kind(Late) = "unlink" /\ Kind(Deferred) = "unlink"
       /\ Restore \in Puts /\ Deferred \in Puts
       /\ call[c].todo \in Puts => Rest(c) \in Puts
  BY <1>1, <1>4, PlainMoves, PlainLists, FailKinds
<1>14. /\ Doing(c) \in {"imagefree", "lookup", "memfiles", "shim", "pick", "net", "workcopy", "copydir", "own"} =>
            Err(c) = << >>
       /\ Doing(c) \in {"resume", "halt", "copyout"} => Err(c) = Restore
       /\ Doing(c) \in {"unlink", "putback"} =>
            Err(c) = IF Head(call[c].todo).err = "next" THEN Rest(c) ELSE IF call[c].ok THEN Late ELSE Deferred
       /\ <<Doing(c), Kind(Rest(c))>> \in
              {<<"imagefree", "lookup">>, <<"lookup", "rest">>, <<"memfiles", "shim">>, <<"shim", "pick">>,
               <<"pick", "net">>, <<"net", "workcopy">>, <<"workcopy", "aside">>, <<"aside", "swap">>,
               <<"swap", "resume">>, <<"resume", "halt">>, <<"halt", "copyout">>, <<"copyout", "unlink">>,
               <<"unlink", "putback">>, <<"putback", "cleanup">>, <<"putback", "rest">>, <<"putback", "dropwork">>,
               <<"dropwork", "rest">>, <<"dropwork", "cleanup">>, <<"cleanup", "own">>, <<"cleanup", "rest">>,
               <<"own", "rest">>, <<"copydir", "own">>}
  BY <1>1, <1>4, PlainMoves
<1>15. ASSUME NEW b, UNCHANGED <<rows, last, snap, data>>, backup'[c] = b, b # NoFile, ~Exported(b), Kept(t, b),
              rows[t] = "vm", call'[c].kind = "vm", root'[<<t, "dir">>] = root[<<t, "dir">>],
              ~Exported(root[<<t, "dir">>])
       PROVE  Away(c)'
  <2>1. ~Exported(backup[c])' /\ ~Exported(root[<<t, "dir">>])'
    BY <1>5, <1>15 DEF Exported
  <2>2. Kept(t, backup[c])'
    BY <1>5, <1>15, <2>1 DEF Kept, Exported
  <2>3. Kept(call[c].t, backup[c])' /\ ~Exported(root[<<call[c].t, "dir">>])'
    BY <1>5, <2>1, <2>2 DEF Kept, Exported
  <2> QED  BY <1>5, <1>15, <2>1, <2>3 DEF Away
<1> HIDE DEF p, f
<1>16. CASE ImageFree(c) \/ OwnImage(c)
  <2>1. Dry(c) /\ Doing(c) \in {"imagefree", "own"}
    BY <1>2, <1>16 DEF ImageFree, OwnImage, AddImage, Dry, files, host, history, store
  <2>2. Doing(c)' \in {"lookup", "rest"} /\ call'[c].todo \in Plain
    BY <1>6, <1>12, <1>13, <1>14, <2>1
  <2>3. ExportFacts(c)'
    BY <1>4, <1>5, <2>1, <2>2 DEF ExportFacts, Copying, AwaySteps, Dry
  <2>4. CopyFacts(c)'
    BY <1>5, <1>7, <2>1, <2>2 DEF CopyFacts, Copying, Dry
  <2> QED  BY <1>8, <1>10, <1>11, <2>1, <2>3, <2>4 DEF AwaySteps, Dry
<1>17. CASE Lookup(c)
  <2>1. Dry(c) /\ Doing(c) = "lookup"
    BY <1>2, <1>17 DEF Lookup, Dry, files, host, history, store
  <2>2. Fine(t)' /\ ~call[c].ok /\ ~call'[c].ok
    BY <1>7, <1>8, <1>10, <2>1 DEF AwaySteps, Ended
  <2>3. CASE Then(c, Err(c))
    <3>1. call'[c].todo = << >> /\ Doing(c)' = "rest"
      BY <1>6, <1>13, <1>14, <2>1, <2>3, ThenLeaves
    <3>2. ExportFacts(c)'
      BY <1>4, <1>5, <1>13, <2>1, <3>1 DEF ExportFacts, Copying, AwaySteps, Dry
    <3>3. CopyFacts(c)'
      BY <2>2, <3>1 DEF CopyFacts, Copying
    <3> QED  BY <1>11, <2>1, <2>2, <3>2, <3>3 DEF Dry
  <2>4. CASE ~Then(c, Err(c))
    <3>1. /\ rows[t] # "none"
          /\ call' = [call EXCEPT ![c].kind = rows[t],
                     ![c].seen = IF last[t] = NoFile THEN "unbuilt" ELSE "built",
                     ![c].todo = ExportSteps(rows[t])]
      BY <1>17, <2>4 DEF Lookup
    <3>2. /\ call'[c].kind = rows[t] /\ call'[c].todo = ExportSteps(rows[t])
          /\ call'[c].seen = IF last[t] = NoFile THEN "unbuilt" ELSE "built"
      BY <1>1, <3>1 DEF CallInv, Idle
    <3>3. rows[t] \in Kinds
      BY <3>1 DEF RowType
    <3>4. call'[c].todo \in Plain /\ Doing(c)' = IF rows[t] = "vm" THEN "memfiles" ELSE "copydir"
      BY <1>6, <3>2, <3>3, PlainLists, FailKinds DEF Kinds
    <3>5. ExportFacts(c)'
      BY <1>4, <1>5, <2>1, <3>2, <3>3, <3>4 DEF ExportFacts, Copying, AwaySteps, Dry, Kinds
    <3>6. CopyFacts(c)'
      BY <1>5, <2>1, <2>2, <3>2, <3>4 DEF CopyFacts, Copying, Dry
    <3> QED  BY <1>11, <2>1, <2>2, <3>5, <3>6 DEF Dry
  <2> QED  BY <2>3, <2>4
<1>18. CASE StartShim(c) \/ PickSlot(c) \/ PrepareNet(c)
  <2>1. Doing(c) \in {"shim", "pick", "net"} /\ UNCHANGED <<rows, root, snap, data, work, backup, disk, last>>
    BY <1>2, <1>18 DEF StartShim, PickSlot, PrepareNet, store, files, host, history
  <2>2. Doing(c)' \in {"pick", "net", "workcopy", "rest"} /\ call'[c].todo \in Plain
    BY <1>6, <1>12, <1>13, <1>14, <2>1
  <2>3. rows[t] = "vm" /\ call[c].kind = "vm"
    BY <2>1 DEF ExportFacts, Copying
  <2>4. ExportFacts(c)'
    BY <1>4, <1>5, <1>7, <2>1, <2>2, <2>3 DEF ExportFacts, Copying, AwaySteps
  <2>5. CopyFacts(c)'
    BY <1>5, <1>7, <2>1, <2>2 DEF CopyFacts, Copying, Ended
  <2>6. Fine(t)'
    BY <1>5, <1>8, <2>1, FineStays DEF AwaySteps
  <2> QED  BY <1>11, <2>1, <2>4, <2>5, <2>6
<1>19. CASE CopyMemory(c)
  <2>1. Doing(c) = "memfiles" /\ UNCHANGED <<rows, root, snap, data, work, backup, disk, last>>
    BY <1>2, <1>19 DEF CopyMemory, store, files, host, history
  <2>2. Doing(c)' \in {"shim", "rest"} /\ call'[c].todo \in Plain
    BY <1>6, <1>12, <1>13, <1>14, <2>1
  <2>3. rows[t] = "vm" /\ call[c].kind = "vm"
    BY <2>1 DEF ExportFacts, Copying
  <2>4. ExportFacts(c)'
    BY <1>4, <1>5, <1>7, <2>1, <2>2, <2>3 DEF ExportFacts, Copying, AwaySteps
  <2>5. Doing(c)' = "shim" => call'[c].mem = snap[t]
    <3> SUFFICES ASSUME Doing(c)' = "shim" PROVE call'[c].mem = snap[t]
      OBVIOUS
    <3>1. ~Then(c, Err(c))
      BY <1>6, <1>13, <1>14, <2>1, ThenLeaves
    <3>2. call' = [call EXCEPT ![c].mem = snap[t], ![c].todo = Rest(c)]
      BY <1>19, <3>1 DEF CopyMemory, Rest
    <3> QED  BY <1>1, <3>2 DEF CallInv, Idle
  <2>6. CopyFacts(c)'
    BY <1>5, <1>7, <2>1, <2>2, <2>5 DEF CopyFacts, Copying, Ended
  <2>7. Fine(t)'
    BY <1>5, <1>8, <2>1, FineStays DEF AwaySteps
  <2> QED  BY <1>11, <2>1, <2>4, <2>6, <2>7
<1>20. CASE CopyWork(c)
  <2>1. Doing(c) = "workcopy" /\ UNCHANGED <<rows, root, snap, backup, disk, last>>
    BY <1>2, <1>20 DEF CopyWork, store, files, host, history
  <2>2. rows[t] = "vm" /\ call[c].kind = "vm" /\ Fine(t)
    BY <1>8, <2>1 DEF ExportFacts, Copying, AwaySteps
  <2>3. CASE UNCHANGED <<work, data>> /\ Then(c, Err(c))
    <3>1. Doing(c)' = "rest" /\ call'[c].todo \in Plain
      BY <1>6, <1>13, <1>14, <2>1, <2>3, ThenLeaves
    <3>2. ExportFacts(c)' /\ CopyFacts(c)'
      BY <1>4, <1>5, <1>7, <2>1, <2>3, <3>1 DEF ExportFacts, CopyFacts, Copying, AwaySteps, Ended
    <3> QED  BY <1>5, <1>11, <2>1, <2>2, <2>3, <3>2, FineStays
  <2>4. CASE f # NoFile /\ work' = [work EXCEPT ![c] = c] /\ data' = [data EXCEPT ![c] = data[f]] /\ Then(c, Rest(c))
    <3>1. Doing(c)' = "aside" /\ call'[c].todo \in Plain
      BY <1>6, <1>13, <1>14, <2>1, <2>4, ThenLeaves
    <3>2. data'[c] = data[f] /\ work'[c] = c /\ \A g : g # c => data'[g] = data[g]
      BY <2>4 DEF FileType, Files
    <3>3. Fine(t)'
      <4>1. \A k \in Kinds : root[<<t, k>>] # c
        BY <1>4, <2>2 DEF Fine
      <4> QED  BY <1>5, <2>1, <2>2, <3>2, <4>1, FineStays
    <3>4. ExportFacts(c)'
      BY <1>4, <1>5, <1>7, <2>1, <2>2, <2>4, <3>1, <3>2 DEF ExportFacts, Copying, AwaySteps, f
    <3>5. call[c].seen = "built" => call[c].mem = data'[c]
      <4> SUFFICES ASSUME call[c].seen = "built" PROVE call[c].mem = data'[c]
        OBVIOUS
      <4>1. last[t] # NoFile /\ call[c].mem = snap[t]
        BY <2>1 DEF CopyFacts, Copying
      <4>2. snap[t] = data[f]
        BY <1>3, <2>2, <4>1 DEF Fine, Kept, f
      <4> QED  BY <3>2, <4>1, <4>2
    <3>6. CopyFacts(c)'
      BY <1>5, <1>7, <2>1, <3>1, <3>5 DEF CopyFacts, Copying, Ended
    <3>7. Writes(c)
      BY <3>2 DEF Writes
    <3> QED  BY <3>3, <3>4, <3>6, <3>7
  <2> QED  BY <1>20, <2>3, <2>4 DEF CopyWork, f, p
<1>21. CASE Aside(c)
  <2>1. Doing(c) = "aside" /\ UNCHANGED <<rows, snap, data, work, disk, last>>
    BY <1>2, <1>21 DEF Aside, store, files, host, history
  <2>2. rows[t] = "vm" /\ call[c].kind = "vm" /\ Fine(t) /\ f # NoFile /\ work[c] = c
    BY <1>8, <2>1 DEF ExportFacts, Copying, AwaySteps, f, p
  <2>3. backup' = [backup EXCEPT ![c] = f] /\ root' = [root EXCEPT ![p] = NoFile] /\ Then(c, Rest(c))
    BY <1>21, <2>2 DEF Aside, Spoils, f, p
  <2>4. Doing(c)' = "swap" /\ call'[c].todo \in Plain
    BY <1>6, <1>13, <1>14, <2>1, <2>3, ThenLeaves
  <2>5. backup'[c] = f /\ root'[<<t, "dir">>] = root[<<t, "dir">>] /\ f = root[<<t, "vm">>]
    BY <1>3, <2>2, <2>3 DEF FileType, Kinds, f
  <2>6. ~Exported(f) /\ Kept(t, f) /\ ~Exported(root[<<t, "dir">>])
    BY <2>2, <2>5 DEF Fine, Kinds
  <2>7. Away(c)'
    BY <1>7, <1>15, <2>1, <2>2, <2>5, <2>6
  <2>8. ExportFacts(c)' /\ CopyFacts(c)'
    BY <1>4, <1>5, <1>7, <2>1, <2>2, <2>4, <2>7 DEF ExportFacts, CopyFacts, Copying, AwaySteps, Ended
  <2> QED  BY <1>9, <1>11, <2>1, <2>4, <2>8 DEF AwaySteps
<1>22. CASE Swap(c) \/ ResumeRuntime(c) \/ Halt(c) \/ (CopyOut(c) /\ Doing(c) = "copyout") \/ Unlink(c)
  <2>1. Doing(c) \in {"swap", "resume", "halt", "copyout", "unlink"} /\ UNCHANGED <<rows, snap, data, backup, last>>
    BY <1>2, <1>22 DEF Swap, ResumeRuntime, Boot, Halt, CopyOut, Unlink, store, files, host, history
  <2>2. /\ rows[t] = "vm" /\ call[c].kind = "vm" /\ backup[c] # NoFile /\ ~Exported(backup[c])
        /\ Kept(t, backup[c]) /\ ~Exported(root[<<t, "dir">>])
    BY <2>1 DEF ExportFacts, Away, AwaySteps
  <2>3. \E g : root' \in {root, [root EXCEPT ![p] = g]}
    BY <1>22 DEF Swap, ResumeRuntime, Boot, Halt, CopyOut, Unlink, store, files, p
  <2>4. root'[<<t, "dir">>] = root[<<t, "dir">>]
    BY <1>3, <2>2, <2>3 DEF FileType, Kinds
  <2>5. Away(c)'
    BY <1>7, <1>15, <2>1, <2>2, <2>4
  <2>6. CASE Swap(c)
    <3>1. Doing(c) = "swap" /\ work[c] = c /\ disk' = disk
      BY <1>2, <2>6 DEF Swap, ExportFacts, host
    <3>2. root' = [root EXCEPT ![p] = c] /\ Then(c, Rest(c))
      BY <1>4, <2>6, <3>1 DEF Swap, Spoils, p
    <3>3. Doing(c)' = "resume" /\ call'[c].todo \in Plain
      BY <1>6, <1>13, <1>14, <3>1, <3>2, ThenLeaves
    <3>4. root'[Dest(c)'] = c
      BY <1>3, <1>7, <3>1, <3>2 DEF FileType
    <3>5. ExportFacts(c)' /\ CopyFacts(c)'
      BY <1>4, <1>5, <1>7, <2>1, <2>5, <3>1, <3>3, <3>4 DEF ExportFacts, CopyFacts, Copying, AwaySteps, Ended
    <3> QED  BY <1>9, <1>11, <2>1, <3>3, <3>5 DEF AwaySteps
  <2>7. CASE ResumeRuntime(c)
    <3>1. Doing(c) = "resume" /\ root' = root /\ disk' \in {disk, [disk EXCEPT ![c] = f]} /\ f = c
      BY <1>2, <2>7 DEF ResumeRuntime, Boot, ExportFacts, files, f, p
    <3>2. disk'[c] \in {NoFile, c}
      BY <1>4, <3>1 DEF FileType
    <3>3. call[c].seen = "built" => call[c].mem = data[c] \ {<<c, "run">>}
      <4>1. <<c, "run">> \notin data[c]
        BY <3>1 DEF Unmarked, Early, NoMark, Files
      <4>2. call[c].seen = "built" => call[c].mem = data[c]
        BY <3>1 DEF CopyFacts
      <4> QED  BY <4>1, <4>2
    <3>4. CASE call'[c].todo = Restore
      <4>1. Doing(c)' = "unlink"
        BY <1>6, <1>13, <3>4
      <4> QED  BY <1>5, <1>7, <1>9, <1>11, <1>13, <2>1, <2>5, <3>1, <3>2, <3>4, <4>1
                 DEF ExportFacts, CopyFacts, Copying, AwaySteps, Ended
    <3>5. CASE call'[c].todo = Rest(c)
      <4>1. Doing(c)' = "halt"
        BY <1>6, <1>14, <3>1, <3>5
      <4>2. root'[Dest(c)'] = c
        BY <1>7, <3>1 DEF f
      <4> QED  BY <1>5, <1>7, <1>9, <1>11, <1>13, <2>1, <2>5, <3>1, <3>2, <3>3, <3>5, <4>1, <4>2
                 DEF ExportFacts, CopyFacts, Copying, AwaySteps, Ended
    <3> QED  BY <1>12, <1>14, <3>1, <3>4, <3>5
  <2>8. CASE Halt(c)
    <3>1. Doing(c) = "halt" /\ root' = root /\ disk' \in {disk, [disk EXCEPT ![c] = NoFile]} /\ f = c
      BY <1>2, <2>8 DEF Halt, Killed, ExportFacts, files, f, p
    <3>2. disk'[c] \in {NoFile, c}
      BY <1>4, <3>1 DEF FileType
    <3>3. CASE Then(c, Err(c))
      <4>1. Doing(c)' = "unlink" /\ call'[c].todo = Restore
        BY <1>6, <1>13, <1>14, <3>1, <3>3, ThenLeaves
      <4> QED  BY <1>5, <1>7, <1>9, <1>11, <1>13, <2>1, <2>5, <3>1, <3>2, <4>1
                 DEF ExportFacts, CopyFacts, Copying, AwaySteps, Ended
    <3>4. CASE ~Then(c, Err(c))
      <4>1. Then(c, Rest(c)) /\ disk'[c] = NoFile
        BY <2>8, <3>4 DEF Halt, FileType
      <4>2. Doing(c)' = "copyout" /\ call'[c].todo \in Plain
        BY <1>6, <1>13, <1>14, <3>1, <4>1, ThenLeaves
      <4>3. root'[Dest(c)'] = c
        BY <1>7, <3>1 DEF f
      <4> QED  BY <1>5, <1>7, <1>9, <1>11, <2>1, <2>5, <3>1, <4>1, <4>2, <4>3
                 DEF ExportFacts, CopyFacts, Copying, AwaySteps, Ended
    <3> QED  BY <3>3, <3>4
  <2>9. CASE CopyOut(c) /\ Doing(c) = "copyout"
    <3>1. root' = root /\ disk' = disk /\ disk[c] = NoFile
      BY <2>9 DEF CopyOut, CopyFacts, host
    <3>2. CASE Then(c, Err(c))
      <4>1. Doing(c)' = "unlink" /\ call'[c].todo = Restore /\ call'[c].ok = call[c].ok
        BY <1>6, <1>13, <1>14, <2>9, <3>2, ThenLeaves
      <4> QED  BY <1>5, <1>7, <1>9, <1>11, <1>13, <2>1, <2>5, <2>9, <3>1, <4>1
                 DEF ExportFacts, CopyFacts, Copying, AwaySteps, Ended
    <3>3. CASE ~Then(c, Err(c))
      <4>1. call' = [call EXCEPT ![c].ok = TRUE, ![c].todo = Rest(c)]
        BY <2>9, <3>3 DEF CopyOut, Rest
      <4>2. call'[c].ok = TRUE /\ call'[c].todo = Rest(c)
        BY <1>1, <4>1 DEF CallInv, Idle
      <4>3. Doing(c)' = "unlink"
        BY <1>6, <1>14, <2>9, <4>2
      <4> QED  BY <1>5, <1>7, <1>9, <1>11, <1>13, <2>1, <2>5, <2>9, <3>1, <4>2, <4>3
                 DEF ExportFacts, CopyFacts, Copying, AwaySteps, Ended
    <3> QED  BY <3>2, <3>3
  <2>10. CASE Unlink(c)
    <3>1. Doing(c) = "unlink" /\ disk' = disk /\ (call[c].ok \/ call[c].todo \in Puts)
      BY <1>2, <2>10 DEF Unlink, host, ExportFacts
    <3>2. CASE call'[c].todo = Rest(c)
      <4>1. Doing(c)' = "putback"
        BY <1>6, <1>14, <3>1, <3>2
      <4> QED  BY <1>4, <1>5, <1>7, <1>9, <1>11, <1>13, <2>1, <2>5, <3>1, <3>2, <4>1
                 DEF ExportFacts, CopyFacts, Copying, AwaySteps, Ended
    <3>3. CASE call'[c].todo # Rest(c)
      <4>1. call'[c].todo = IF call[c].ok THEN Late ELSE Deferred
        BY <1>12, <1>14, <3>1, <3>3
      <4>2. Doing(c)' = "unlink" /\ call'[c].todo \in Plain /\ (call[c].ok \/ call'[c].todo \in Puts)
        BY <1>6, <1>13, <4>1
      <4> QED  BY <1>4, <1>5, <1>7, <1>9, <1>11, <2>1, <2>5, <3>1, <4>2
                 DEF ExportFacts, CopyFacts, Copying, AwaySteps, Ended
    <3> QED  BY <3>2, <3>3
  <2> QED  BY <1>22, <2>6, <2>7, <2>8, <2>9, <2>10
<1>23. CASE CopyOut(c) /\ Doing(c) = "copydir"
  <2>1. UNCHANGED <<rows, root, snap, data, work, backup, disk, last>> /\ Fine(t) /\ call[c].kind = "dir"
    BY <1>8, <1>23 DEF CopyOut, store, host, history, ExportFacts, AwaySteps
  <2>2. call'[c].todo \in Plain /\ Doing(c)' \in {"own", "rest"}
    BY <1>6, <1>12, <1>13, <1>14, <1>23
  <2>3. Doing(c)' = "own" => call'[c].ok
    <3> SUFFICES ASSUME Doing(c)' = "own" PROVE call'[c].ok
      OBVIOUS
    <3>1. ~Then(c, Err(c))
      BY <1>6, <1>13, <1>14, <1>23, ThenLeaves
    <3>2. call' = [call EXCEPT ![c].ok = TRUE, ![c].todo = Rest(c)]
      BY <1>23, <3>1 DEF CopyOut, Rest
    <3> QED  BY <1>1, <3>2 DEF CallInv, Idle
  <2>4. call'[c].kind = "dir"
    BY <1>7, <1>23, <2>1
  <2>5. ExportFacts(c)' /\ CopyFacts(c)'
    BY <1>4, <1>5, <2>1, <2>2, <2>3, <2>4 DEF ExportFacts, CopyFacts, Copying, AwaySteps
  <2>6. Fine(t)'
    BY <1>5, <2>1, FineStays
  <2> QED  BY <1>11, <2>1, <2>5, <2>6
<1>24. CASE PutBack(c)
  <2>1. Doing(c) = "putback" /\ UNCHANGED <<rows, snap, data, work, disk, last>>
    BY <1>2, <1>24 DEF PutBack, store, files, host, history
  <2>2. /\ rows[t] = "vm" /\ call[c].kind = "vm" /\ backup[c] # NoFile /\ ~Exported(backup[c])
        /\ Kept(t, backup[c]) /\ ~Exported(root[<<t, "dir">>])
        /\ call[c].ok \/ call[c].todo \in Puts
    BY <2>1 DEF ExportFacts, Away, AwaySteps
  <2>3. CASE root' = [root EXCEPT ![p] = backup[c]] /\ Then(c, Rest(c))
    <3>1. call'[c].todo = Rest(c) /\ Doing(c)' \in {"cleanup", "rest", "dropwork"}
      BY <1>6, <1>14, <2>1, <2>3, ThenLeaves
    <3>2. root'[<<t, "vm">>] = backup[c] /\ root'[<<t, "dir">>] = root[<<t, "dir">>]
      BY <1>3, <2>2, <2>3 DEF FileType, Kinds
    <3>3. \A k \in Kinds : ~Exported(root[<<t, k>>])'
      BY <1>5, <2>2, <3>2 DEF Exported, Kinds
    <3>4. Kept(t, root[<<t, rows[t]>>])'
      BY <1>5, <2>1, <2>2, <3>2 DEF Kept, Exported
    <3>5. Fine(t)'
      BY <2>1, <2>2, <3>3, <3>4 DEF Fine
    <3>6. ExportFacts(c)'
      BY <1>4, <1>5, <1>7, <1>13, <2>1, <2>2, <3>1 DEF ExportFacts, Copying, AwaySteps
    <3>7. CopyFacts(c)'
      BY <1>4, <1>5, <1>7, <2>1, <2>2, <3>1 DEF CopyFacts, Copying, Ended
    <3> QED  BY <1>11, <2>1, <3>5, <3>6, <3>7
  <2>4. CASE ~(root' = [root EXCEPT ![p] = backup[c]] /\ Then(c, Rest(c)))
    <3>1. /\ Then(c, Err(c)) /\ root' = root /\ backup' = backup
          /\ Spoils(c, backup[c] # NoFile /\ Head(call[c].todo).err = "next")
      BY <1>24, <2>4 DEF PutBack, p
    <3>2. Head(call[c].todo).err # "next"
      BY <2>2, <3>1 DEF Spoils
    <3>3. call'[c].todo = IF call[c].ok THEN Late ELSE Deferred
      BY <1>14, <2>1, <3>1, <3>2, ThenLeaves
    <3>4. Doing(c)' = "unlink" /\ call'[c].todo \in Plain /\ (call[c].ok \/ call'[c].todo \in Puts)
      BY <1>6, <1>13, <3>3
    <3>5. Away(c)'
      BY <1>7, <1>15, <2>1, <2>2, <3>1
    <3> QED  BY <1>4, <1>5, <1>7, <1>9, <1>11, <2>1, <3>1, <3>4, <3>5
               DEF ExportFacts, CopyFacts, Copying, AwaySteps, Ended
  <2> QED  BY <2>3, <2>4
<1>25. CASE Cleanup(c)
  <2>1. Doing(c) = "cleanup" /\ UNCHANGED <<rows, root, snap, data, work, backup, last>> /\ disk'[c] = NoFile
        /\ Then(c, Rest(c))
    BY <1>2, <1>25 DEF Cleanup, store, files, FileType
  <2>2. Doing(c)' \in {"own", "rest"} /\ call'[c].todo = Rest(c)
    BY <1>6, <1>14, <2>1, ThenLeaves
  <2>3. Fine(t)'
    BY <1>5, <1>8, <2>1, FineStays DEF AwaySteps
  <2>4. call[c].ok \/ call[c].todo \in Puts
    BY <2>1 DEF ExportFacts
  <2>5. ExportFacts(c)' /\ CopyFacts(c)'
    BY <1>5, <1>7, <1>13, <2>1, <2>2, <2>4 DEF ExportFacts, CopyFacts, Copying, AwaySteps
  <2> QED  BY <1>11, <2>1, <2>3, <2>5
<1>26. CASE DropWork(c)
  <2>1. Doing(c) = "dropwork" /\ UNCHANGED <<rows, root, snap, data, backup, disk, last>> /\ Then(c, Rest(c))
    BY <1>2, <1>26 DEF DropWork, store, files, history
  <2>2. Doing(c)' \in {"rest", "cleanup"} /\ call'[c].todo = Rest(c)
    BY <1>6, <1>14, <2>1, ThenLeaves
  <2>3. Fine(t)'
    BY <1>5, <1>8, <2>1, FineStays DEF AwaySteps
  <2>4. call[c].ok \/ call[c].todo \in Puts
    BY <2>1 DEF ExportFacts
  <2>5. ExportFacts(c)' /\ CopyFacts(c)'
    BY <1>4, <1>5, <1>7, <1>13, <2>1, <2>2, <2>4 DEF ExportFacts, CopyFacts, Copying, AwaySteps, Ended
  <2> QED  BY <1>11, <2>1, <2>3, <2>5
<1>27. \/ ImageFree(c) \/ OwnImage(c) \/ Lookup(c) \/ StartShim(c) \/ PickSlot(c) \/ PrepareNet(c) \/ CopyMemory(c)
       \/ CopyWork(c) \/ Aside(c) \/ Swap(c) \/ ResumeRuntime(c) \/ Halt(c) \/ CopyOut(c) \/ Unlink(c) \/ PutBack(c)
       \/ Cleanup(c) \/ DropWork(c)
  BY <1>1, <1>2, Whose DEF Step, Ensure, AddRow, AddBuild, LoadBuild, Claim, Failed, Ready, ChoosePaths,
     Record, DeleteRow, RemoveDir, ShareImage, LookImage, DeleteImage, RemoveImage, CreateRuntime, Boot, RunCommands,
     Seal, Materialize, Inject
<1> QED  BY <1>2, <1>16, <1>17, <1>18, <1>19, <1>20, <1>21, <1>22, <1>23, <1>24, <1>25, <1>26, <1>27 DEF CopyOut

\* A step of a create call, whose template no other call changes.
LEMMA NewStep ==
  ASSUME ArtifactAssumption, Control, RowType, FileType, NEW c \in Calls, Step(c),
         call[c].op = "new", NEW t \in Templates, t = call[c].t, Fine(t)
  PROVE  Fine(t)' /\ Writes(c)
<1>1. CallInv(c) /\ Moved(c)
  BY Steps DEF Control
<1>2. \A k : At(c, k) => (k # "copyout" => Doing(c) = k)
  BY <1>1, Names
<1>3. SameCalls
  BY <1>1, Details DEF Moved, SameCalls
<1>4. CASE Dry(c)
  BY <1>3, <1>4, FineStays DEF Dry, Writes
<1>5. CASE AddRow(c)
  <2>1. UNCHANGED <<root, snap, data, last>>
    BY <1>5 DEF AddRow, files, history
  <2>2. CASE rows' = rows
    BY <1>3, <2>1, <2>2, FineStays DEF Writes
  <2>3. CASE rows' # rows
    <3>1. rows[t] = "none"
      BY <1>5, <2>3 DEF AddRow
    <3>2. last'[t] = NoFile /\ \A k \in Kinds : ~Exported(root[<<t, k>>])'
      BY <1>3, <2>1, <3>1 DEF Fine, SameCalls, Exported
    <3> QED  BY <2>1, <3>2 DEF Fine, Kept, Writes
  <2> QED  BY <2>2, <2>3
<1>6. Dry(c) \/ AddRow(c)
  BY <1>1, <1>2, DrySteps, Whose DEF Record, DeleteRow, RemoveDir, CreateRuntime, ResumeRuntime, Boot, RunCommands, Seal,
     Cleanup, Materialize, Inject, CopyWork, Aside, Swap, Halt, Unlink, PutBack, DropWork, Moved, Goes
<1> QED  BY <1>4, <1>5, <1>6

\* A step of a delete call, whose template no other call changes.
LEMMA DeleteStep ==
  ASSUME ArtifactAssumption, Control, RowType, FileType, NEW c \in Calls, Step(c),
         call[c].op = "delete", NEW t \in Templates, t = call[c].t, ~Disturbs(c) => Fine(t),
         Doing(c) = "rmdir" => rows[t] = "none" /\ \A k \in Kinds : ~Exported(root[<<t, k>>])
  PROVE  /\ Doing(c)' = "rmdir" => rows'[t] = "none" /\ \A k \in Kinds : ~Exported(root[<<t, k>>])'
         /\ ~Disturbs(c)' => Fine(t)'
         /\ Writes(c)
<1>1. CallInv(c) /\ Active(c) /\ Moved(c)
  BY Steps DEF Control
<1>2. /\ \A k : At(c, k) => (k # "copyout" => Doing(c) = k)
      /\ At(c, "copyout") => Doing(c) \in {"copyout", "copydir"}
  BY <1>1, Names
<1>3. SameCalls /\ call'[c].op = "delete"
  BY <1>1, Details DEF Moved, SameCalls
<1>4. Doing(c)' = Kind(call'[c].todo) /\ Goes("delete", call[c].ok, Doing(c), Doing(c)')
  BY <1>1 DEF Doing, Moved
<1>5. CASE Lookup(c)
  <2>1. Dry(c) /\ Doing(c) = "lookup"
    BY <1>2, <1>5 DEF Lookup, Dry, files, host, history, store
  <2>2. Doing(c)' # "rmdir"
    BY <1>4, <2>1 DEF Goes
  <2> QED  BY <1>3, <2>1, <2>2, FineStays DEF Dry, Disturbs, Writes
<1>6. CASE DeleteRow(c)
  <2>1. Doing(c) = "delrow" /\ UNCHANGED <<root, snap, data, last>> /\ Fine(t)
    BY <1>2, <1>6 DEF DeleteRow, files, history, Disturbs
  <2>2. Kind(Rest(c)) = "rmdir" /\ Err(c) = << >>
    <3>1. call[c].todo \in Suffixes(DeleteSteps) /\ call[c].todo # << >>
      BY <1>1, TodosOf DEF CallInv, Plans, Active
    <3>2. Row(call[c].todo, "delrow", "stop", "rmdir")
      BY <2>1, <3>1, DeleteList DEF Row, Doing
    <3> QED  BY <3>2, Undoes DEF Row, Rest, Err
  <2>3. CASE Then(c, Err(c)) /\ rows' = rows
    <3>1. Doing(c)' = "rest"
      BY <1>4, <2>2, <2>3, FailKinds, ThenLeaves
    <3> QED  BY <1>3, <2>1, <2>3, <3>1, FineStays DEF Writes
  <2>4. CASE rows' = [rows EXCEPT ![t] = "none"] /\ Then(c, Rest(c))
    <3>1. Doing(c)' = "rmdir" /\ rows'[t] = "none"
      BY <1>4, <2>2, <2>4, ThenLeaves DEF RowType
    <3>2. \A k \in Kinds : ~Exported(root[<<t, k>>])'
      BY <1>3, <2>1 DEF Fine, SameCalls, Exported
    <3> QED  BY <1>3, <2>1, <3>1, <3>2 DEF Disturbs, Writes
  <2> QED  BY <1>6, <2>3, <2>4 DEF DeleteRow
<1>7. CASE RemoveDir(c)
  <2>1. Doing(c) = "rmdir" /\ UNCHANGED <<rows, data>>
    BY <1>2, <1>7 DEF RemoveDir, store
  <2>2. Doing(c)' # "rmdir"
    BY <1>4, <2>1 DEF Goes
  <2>3. last'[t] = NoFile /\ \A k \in Kinds : root'[<<t, k>>] \in {NoFile, root[<<t, k>>]}
    BY <1>7 DEF RemoveDir, FileType, Paths
  <2>4. \A k \in Kinds : ~Exported(root[<<t, k>>])'
    <3> TAKE k \in Kinds
    <3>1. ~Exported(root'[<<t, k>>])
      BY <2>1, <2>3 DEF Exported, ArtifactAssumption
    <3> QED  BY <1>3, <3>1 DEF SameCalls, Exported
  <2> QED  BY <2>1, <2>2, <2>3, <2>4 DEF Fine, Kept, Writes
<1>8. Lookup(c) \/ DeleteRow(c) \/ RemoveDir(c)
  BY <1>1, <1>2, <1>4, Whose DEF Step, Ensure, AddRow, AddBuild, LoadBuild, Claim, Failed, Ready, ChoosePaths, Record,
     ImageFree, OwnImage, ShareImage, LookImage, DeleteImage, RemoveImage, StartShim, PickSlot, PrepareNet,
     CreateRuntime, ResumeRuntime, Boot, RunCommands, Seal, Cleanup, Materialize, Inject, CopyMemory, CopyWork, Aside,
     Swap, Halt, CopyOut, Unlink, PutBack, DropWork, Goes
<1> QED  BY <1>5, <1>6, <1>7, <1>8

\* What holds of one call of a template t that is not in doubt.
CallFacts(c, t) ==
  /\ call[c].op = "build" => BuildFacts(c)
  /\ call[c].op = "export" => ExportFacts(c) /\ CopyFacts(c)
  /\ call[c].op = "delete" /\ Doing(c) = "rmdir" =>
       rows[t] = "none" /\ \A k \in Kinds : ~Exported(root[<<t, k>>])

\* A step of a call that writes a template, no other call being at it.
LEMMA OwnStep ==
  ASSUME ArtifactAssumption, Control, RowType, FileType, Alone, Unmarked, TemplateInv, NEW h, Homes(h),
         NEW c \in Calls, Step(c), NEW t \in Templates \ Doubtful, t \notin spoilt', t = call[c].t, call[c].op \in Writers
  PROVE  /\ CallFacts(c, t)' /\ (~Disturbs(c)' => Fine(t)') /\ Writes(c)
         /\ \A d \in Calls \ {c} : call[d].op \in Writers /\ call[d].t = t => Doing(d) = "rest"
<1>1. CallInv(c) /\ Active(c) /\ Moved(c) /\ Doing(c) # "rest"
  BY Steps, Names DEF Control
<1>2. ASSUME NEW d \in Calls \ {c}, call[d].op \in Writers, call[d].t = t
      PROVE  Doing(d) = "rest"
  <2>1. Busy(c, t)
    BY <1>1 DEF Busy
  <2> QED  BY <1>2, <2>1, OneWriter DEF Busy, Doubtful
<1>3. ~Disturbs(c) => Fine(t)
  <2>1. \A d \in Calls \ {c} : call[d].t = t => ~Disturbs(d)
    BY <1>2 DEF Disturbs, Writers, AwaySteps
  <2> QED  BY <2>1 DEF TemplateInv
<1>4. CallFacts(c, t)
  BY DEF TemplateInv, CallFacts
<1>5. call'[c].op = call[c].op /\ call'[c].t = t
  BY <1>1 DEF Moved
<1>6. CASE call[c].op = "build"
  <2>1. Fine(t)
    BY <1>3, <1>6 DEF Disturbs
  <2>2. BuildFacts(c)' /\ Fine(t)' /\ Writes(c)
    BY <1>4, <1>6, <2>1, BuildStep DEF CallFacts
  <2> QED  BY <1>2, <1>5, <1>6, <2>2 DEF CallFacts
<1>7. CASE call[c].op = "export"
  <2>1. ExportFacts(c)' /\ CopyFacts(c)' /\ (~Disturbs(c)' => Fine(t)') /\ Writes(c)
    BY <1>3, <1>4, <1>7, ExportStep DEF CallFacts
  <2> QED  BY <1>2, <1>5, <1>7, <2>1 DEF CallFacts
<1>8. CASE call[c].op = "delete"
  <2>1. /\ Doing(c)' = "rmdir" => rows'[t] = "none" /\ \A k \in Kinds : ~Exported(root[<<t, k>>])'
        /\ ~Disturbs(c)' => Fine(t)'
        /\ Writes(c)
    BY <1>3, <1>4, <1>8, DeleteStep DEF CallFacts
  <2> QED  BY <1>2, <1>5, <1>8, <2>1 DEF CallFacts
<1>9. CASE call[c].op = "new"
  <2>1. Fine(t)
    BY <1>3, <1>9 DEF Disturbs
  <2>2. Fine(t)' /\ Writes(c)
    BY <1>9, <2>1, NewStep
  <2> QED  BY <1>2, <1>5, <1>9, <2>2 DEF CallFacts
<1> QED  BY <1>6, <1>7, <1>8, <1>9 DEF Writers

\* Steps keep templates fine.
LEMMA TemplateStep ==
  ASSUME ArtifactAssumption, Control, RowType, FileType, Alone, Unmarked, TemplateInv, NEW h, Homes(h),
         NEW c \in Calls, Step(c)
  PROVE  TemplateInv'
<1>1. CallInv(c) /\ Active(c) /\ Moved(c) /\ Reaches(c, h)
  BY Steps, StepReaches DEF Control
<1>2. SameCalls /\ Doubtful \subseteq Doubtful'
  <2>1. [Next]_vars
    BY DEF Next
  <2> QED  BY <1>1, <2>1, Details, Noted DEF Moved, SameCalls, Doubtful
<1>3. \A d \in Calls \ {c} : Alike(d)
  BY <1>1 DEF Moved, Alike
<1>4. SUFFICES ASSUME NEW t \in Templates \ Doubtful, t \notin spoilt'
      PROVE  /\ (\A d \in Calls : call'[d].t = t => ~Disturbs(d)') => Fine(t)'
             /\ \A d \in Calls : call'[d].t = t => CallFacts(d, t)'
  <2> SUFFICES ASSUME NEW t \in Templates \ Doubtful'
               PROVE  /\ (\A d \in Calls : call'[d].t = t => ~Disturbs(d)') => Fine(t)'
                      /\ \A d \in Calls : call'[d].t = t => CallFacts(d, t)'
    BY DEF TemplateInv, CallFacts
  <2>1. t \in Templates \ Doubtful /\ t \notin spoilt'
    BY <1>2 DEF Doubtful
  <2> QED  BY <1>4, <2>1
<1>5. \A d \in Calls : call'[d].t = call[d].t /\ call'[d].op = call[d].op
  BY <1>2 DEF SameCalls
<1>6. CASE call[c].op \in Writers /\ call[c].t = t
  <2>1. /\ CallFacts(c, t)' /\ (~Disturbs(c)' => Fine(t)') /\ Writes(c)
        /\ \A d \in Calls \ {c} : call[d].op \in Writers /\ call[d].t = t => Doing(d) = "rest"
    BY <1>4, <1>6, OwnStep
  <2>2. ASSUME NEW d \in Calls \ {c}, call[d].t = t
        PROVE  CallFacts(d, t)'
    <3>1. CASE call[d].op \notin Writers
      BY <1>5, <3>1 DEF Writers, CallFacts
    <3>2. CASE call[d].op \in Writers
      <4>1. Doing(d) = "rest" /\ Doing(d)' = "rest" /\ CallFacts(d, t)
        BY <1>3, <2>1, <2>2, <3>2, AlikeGoes DEF TemplateInv, CallFacts
      <4> QED  BY <1>1, <1>2, <1>3, <1>5, <2>1, <4>1, Beside DEF CallFacts
    <3> QED  BY <3>1, <3>2
  <2> QED  BY <1>5, <1>6, <2>1, <2>2
<1>7. CASE ~(call[c].op \in Writers /\ call[c].t = t)
  <2>1. Untouched(t, h)
    BY <1>1, <1>7, Untouches
  <2>2. /\ Fine(t) => Fine(t)'
        /\ \A d \in Calls : Alike(d) /\ call[d].t = t =>
              /\ call[d].op = "build" /\ BuildFacts(d) => BuildFacts(d)'
              /\ call[d].op = "export" /\ ExportFacts(d) => ExportFacts(d)'
              /\ call[d].op = "export" /\ CopyFacts(d) => CopyFacts(d)'
    BY <1>2, <2>1, StaysUntouched
  <2>3. ASSUME NEW d \in Calls, call[d].t = t
        PROVE  CallFacts(d, t)' /\ (~Disturbs(d)' => ~Disturbs(d))
    <3>1. CASE d = c
      BY <1>5, <1>7, <2>3, <3>1 DEF Writers, CallFacts, Disturbs
    <3>2. CASE d # c
      <4>1. Doing(d)' = Doing(d) /\ Disturbs(d)' = Disturbs(d) /\ CallFacts(d, t) /\ rows'[t] = rows[t]
        BY <1>3, <2>1, <2>3, <3>2, AlikeGoes DEF TemplateInv, CallFacts, Untouched
      <4>2. (\A k \in Kinds : ~Exported(root[<<t, k>>])) => \A k \in Kinds : ~Exported(root[<<t, k>>])'
        BY <1>2, <2>1 DEF Untouched, SameCalls, Exported
      <4> QED  BY <1>3, <1>5, <2>2, <2>3, <3>2, <4>1, <4>2 DEF CallFacts
    <3> QED  BY <3>1, <3>2
  <2>4. (\A d \in Calls : call[d].t = t => ~Disturbs(d)) => Fine(t)
    BY DEF TemplateInv
  <2> QED  BY <1>5, <2>2, <2>3, <2>4
<1> QED  BY <1>6, <1>7

\* A guest writes the file its sandbox has open, which no other call looks at.
LEMMA TemplateGuest ==
  ASSUME ArtifactAssumption, Control, RowType, FileType, SandboxInv, Alone, Unmarked, TemplateInv, NEW h, Homes(h),
         NEW c \in Calls, GuestWrites(c)
  PROVE  TemplateInv'
<1> DEFINE f == disk[c]
<1>1. /\ f # NoFile /\ data' = [data EXCEPT ![f] = @ \cup {<<c, "run">>}]
      /\ UNCHANGED <<rows, root, snap, work, backup, disk, last, call, mixed, spoilt>>
  BY DEF GuestWrites, store, host, history
<1>2. SameCalls /\ (\A d \in Calls : Alike(d)) /\ Reaches(c, h)
  BY <1>1, GuestReaches DEF SameCalls, Alike
<1>3. \A d \in Calls : Doing(d)' = Doing(d) /\ (Disturbs(d) <=> Disturbs(d)')
  BY <1>2, AlikeGoes
<1>4. call[c].op \in {"build", "export"} /\ Of(f, call[c].t, h)
  BY <1>1 DEF SandboxInv, BoxInv, Bare, Keeps, Homes
<1>5. /\ \A g : g # f => data'[g] = data[g]
      /\ f \in Files => data'[f] = data[f] \cup {<<c, "run">>}
  BY <1>1 DEF FileType
<1>6. SUFFICES ASSUME NEW t \in Templates \ Doubtful
      PROVE  /\ Fine(t) => Fine(t)'
             /\ \A d \in Calls : call[d].t = t => CallFacts(d, t)'
  BY <1>1, <1>3 DEF TemplateInv, CallFacts, Doubtful
<1>7. /\ (\A d \in Calls : call[d].t = t => ~Disturbs(d)) => Fine(t)
      /\ \A d \in Calls : call[d].t = t => CallFacts(d, t)
  BY DEF TemplateInv, CallFacts
<1>8. /\ \A d \in Calls : call'[d].op = call[d].op /\ call'[d].t = call[d].t /\ rows'[t] = rows[t]
      /\ (\A k \in Kinds : ~Exported(root[<<t, k>>])) => \A k \in Kinds : ~Exported(root[<<t, k>>])'
  BY <1>1 DEF Exported
<1> HIDE DEF f
<1>9. CASE call[c].t # t
  <2>1. \A g : Of(g, t, h) => g # f
    BY <1>1, <1>4, <1>9, OneHome
  <2>2. Untouched(t, h)
    BY <1>1, <1>5, <2>1 DEF Untouched
  <2>3. /\ Fine(t) => Fine(t)'
        /\ \A d \in Calls : Alike(d) /\ call[d].t = t =>
              /\ call[d].op = "build" /\ BuildFacts(d) => BuildFacts(d)'
              /\ call[d].op = "export" /\ ExportFacts(d) => ExportFacts(d)'
              /\ call[d].op = "export" /\ CopyFacts(d) => CopyFacts(d)'
    BY <1>2, <2>2, StaysUntouched
  <2> QED  BY <1>2, <1>3, <1>7, <1>8, <2>3 DEF CallFacts
<1>10. CASE call[c].t = t /\ call[c].op = "export"
  <2>1. f = c /\ ExportFacts(c) /\ CopyFacts(c)
    BY <1>1, <1>7, <1>10 DEF CallFacts, ExportFacts, f
  <2>2. Exported(c)
    BY <1>10 DEF Exported
  <2>3. Fine(t) => \A k \in Kinds : root[<<t, k>>] # c
    BY <2>2 DEF Fine
  <2>4. Fine(t) => Fine(t)'
    BY <1>1, <1>2, <1>5, <2>1, <2>3, FineStays
  <2>5. ASSUME NEW d \in Calls, call[d].t = t, call[d].op = "build"
        PROVE  BuildFacts(d)'
    <3>1. BuildFacts(d) /\ Dest(d) = <<t, call[d].kind>> /\ call[d].kind \in Kinds
      BY <1>7, <2>5, Destination DEF CallFacts, Writers
    <3>2. Doing(d) # "rest" => Fine(t)
      <4> SUFFICES ASSUME Doing(d) # "rest" PROVE Fine(t)
        OBVIOUS
      <4>1. Busy(d, t)
        BY <2>5 DEF Busy, Writers
      <4>2. \A e \in Calls : call[e].t = t => ~Disturbs(e)
        BY <2>5, <4>1, OneWriter DEF Busy, Doubtful, Writers, Disturbs, AwaySteps
      <4> QED  BY <1>7, <4>2
    <3>3. Doing(d) \in Wet \/ Sealed(d) => data'[root[Dest(d)]] = data[root[Dest(d)]]
      BY <1>5, <2>1, <2>3, <3>1, <3>2 DEF Wet, Sealed
    <3> QED  BY <1>1, <1>2, <2>5, <3>1, <3>3, BuildStays
  <2>6. ASSUME NEW d \in Calls, call[d].t = t, call[d].op = "export"
        PROVE  ExportFacts(d)' /\ CopyFacts(d)'
    <3>1. ExportFacts(d) /\ CopyFacts(d) /\ call[d].kind \in Kinds
      BY <1>7, <2>6, Destination DEF CallFacts, Writers
    <3>2. ~Exported(backup[d]) => data'[backup[d]] = data[backup[d]]
      BY <1>5, <2>1, <2>2
    <3>3. ExportFacts(d)' /\ (data'[d] = data[d] => CopyFacts(d)')
      BY <1>1, <1>2, <2>6, <3>1, <3>2, ExportStays
    <3>4. CASE d # c
      BY <1>5, <2>1, <3>3, <3>4
    <3>5. CASE d = c
      <4>1. Doing(c) \notin {"aside", "swap", "resume", "copyout"} /\ ~(call[c].ok /\ call[c].kind = "vm")
        BY <1>1, <1>10, <2>1 DEF Unmarked, Early, CopyFacts, f
      <4>2. data'[c] \ {<<c, "run">>} = data[c] \ {<<c, "run">>}
        BY <1>5, <2>1 DEF Files
      <4> QED  BY <1>1, <1>3, <2>1, <3>3, <3>5, <4>1, <4>2 DEF CopyFacts
    <3> QED  BY <3>3, <3>4, <3>5
  <2> QED  BY <1>7, <1>8, <1>3, <2>4, <2>5, <2>6 DEF CallFacts
<1>11. CASE call[c].t = t /\ call[c].op = "build"
  <2>1. BuildFacts(c) /\ Doing(c) \in {"commands", "seal", "cleanup"} /\ ~Exported(f) /\ last[t] = NoFile
    BY <1>1, <1>7, <1>11 DEF CallFacts, BuildFacts, f, Wet
  <2>2. \A d \in Calls \ {c} : call[d].op \in Writers /\ call[d].t = t => Doing(d) = "rest"
    BY <1>11, <2>1, OneWriter DEF Busy, Doubtful, Writers
  <2>3. Fine(t) => Fine(t)'
    BY <1>1, <1>2, <2>1, FineStays
  <2>4. Writes(c)
    BY <1>5, <2>1 DEF Writes
  <2>5. ASSUME NEW d \in Calls \ {c}, call[d].t = t
        PROVE  CallFacts(d, t)'
    <3>1. CASE call[d].op \notin Writers
      BY <1>8, <3>1 DEF Writers, CallFacts
    <3>2. CASE call[d].op \in Writers
      <4>1. Doing(d) = "rest" /\ Doing(d)' = "rest" /\ CallFacts(d, t)
        BY <1>3, <1>7, <2>2, <2>5, <3>2
      <4> QED  BY <1>2, <1>8, <2>4, <4>1, Beside DEF CallFacts
    <3> QED  BY <3>1, <3>2
  <2>6. BuildFacts(c)'
    <3>1. ~(Sealed(c) /\ call[c].kind = "vm") /\ (Sealed(c) <=> Sealed(c)') /\ Dest(c)' = Dest(c)
      BY <1>1, <1>2, <2>1, AlikeGoes DEF BuildFacts, f
    <3>2. root[Dest(c)] \in Files => data[root[Dest(c)]] \subseteq data'[root[Dest(c)]]
      BY <1>5
    <3>3. root[Dest(c)] # NoFile => root[Dest(c)] \in Files
      BY <1>11, Destination DEF Homes, Of, Files, Writers
    <3>4. ~Exported(disk[c])'
      BY <1>1, <2>1 DEF Exported, f
    <3> QED  BY <1>1, <1>3, <2>1, <3>1, <3>2, <3>3, <3>4 DEF BuildFacts, Wet
  <2> QED  BY <1>8, <1>11, <2>3, <2>5, <2>6 DEF CallFacts
<1> QED  BY <1>4, <1>9, <1>10, <1>11

\* What no call changes stays as it was.
LEMMA TemplateStill ==
  ASSUME ArtifactAssumption, Control, RowType, TemplateInv, NEW h, Homes(h), \A d \in Calls : Alike(d),
         UNCHANGED <<rows, root, snap, data, work, backup, disk, last, mixed, spoilt>>
  PROVE  TemplateInv'
<1>1. SameCalls /\ \A d \in Calls : call'[d].op = call[d].op /\ call'[d].t = call[d].t
  BY DEF Alike, SameCalls
<1>2. \A d \in Calls : Doing(d)' = Doing(d) /\ (Disturbs(d) <=> Disturbs(d)')
  BY AlikeGoes
<1>3. SUFFICES ASSUME NEW t \in Templates \ Doubtful
      PROVE  /\ Fine(t) => Fine(t)'
             /\ \A d \in Calls : call[d].t = t => CallFacts(d, t)'
  BY <1>1, <1>2 DEF TemplateInv, CallFacts, Doubtful
<1>4. Untouched(t, h)
  BY DEF Untouched
<1>5. /\ Fine(t) => Fine(t)'
      /\ \A d \in Calls : call[d].t = t =>
              /\ call[d].op = "build" /\ BuildFacts(d) => BuildFacts(d)'
              /\ call[d].op = "export" /\ ExportFacts(d) => ExportFacts(d)'
              /\ call[d].op = "export" /\ CopyFacts(d) => CopyFacts(d)'
  BY <1>1, <1>4, StaysUntouched
<1>6. \A d \in Calls : call[d].t = t => CallFacts(d, t)
  BY DEF TemplateInv, CallFacts
<1>7. (\A k \in Kinds : ~Exported(root[<<t, k>>])) => \A k \in Kinds : ~Exported(root[<<t, k>>])'
  BY <1>1 DEF Exported
<1> QED  BY <1>1, <1>2, <1>5, <1>6, <1>7 DEF CallFacts

\* A call that begins has no file yet, and its template is as fine as before.
LEMMA TemplateRequest ==
  ASSUME ArtifactAssumption, Control, RowType, NewInv, FileType, SandboxInv, TemplateInv, NEW h, Homes(h),
         NEW c \in Calls, Request(c)
  PROVE  TemplateInv'
<1>1. /\ Fresh(c) /\ UNCHANGED <<rows, images, root, snap, img, data, work, backup, disk, last, spoilt>>
      /\ call'[c].op = "export" => call'[c].todo = ExportBegin
      /\ mixed \subseteq mixed'
  BY BeginsCall
<1>2. call[c].op = "idle" /\ disk[c] = NoFile /\ \A d \in Calls \ {c} : call'[d] = call[d]
  BY <1>1 DEF Fresh, SandboxInv, BoxInv, Bare, Keeps
<1>3. \A t : ~Of(c, t, h)
  BY <1>2 DEF Of, ArtifactAssumption
<1>4. \A g : g # c => (Exported(g)' <=> Exported(g))
  BY <1>2 DEF Exported
<1>5. /\ \A p \in Paths : root[p] # c
      /\ \A d \in Calls : backup[d] # c /\ disk[d] # c
  BY <1>3 DEF Homes
<1>6. \A d \in Calls \ {c} : Alike(d) /\ Doing(d)' = Doing(d) /\ (Disturbs(d) <=> Disturbs(d)')
  BY <1>2 DEF Alike, Doing, Disturbs
<1>7. ~Disturbs(c) /\ ~Disturbs(c)'
  BY <1>1, <1>2 DEF Fresh, Disturbs, AwaySteps
<1>8. SUFFICES ASSUME NEW t \in Templates, t \notin Doubtful
      PROVE  /\ Fine(t) => Fine(t)'
             /\ \A d \in Calls : call'[d].t = t => CallFacts(d, t)'
  <2> SUFFICES ASSUME NEW t \in Templates \ Doubtful'
               PROVE  /\ (\A d \in Calls : call'[d].t = t => ~Disturbs(d)') => Fine(t)'
                      /\ \A d \in Calls : call'[d].t = t => CallFacts(d, t)'
    BY DEF TemplateInv, CallFacts
  <2>1. (\A d \in Calls : call[d].t = t => ~Disturbs(d)) => Fine(t)
    BY <1>1 DEF TemplateInv, Doubtful
  <2>2. (\A d \in Calls : call'[d].t = t => ~Disturbs(d)') => (\A d \in Calls : call[d].t = t => ~Disturbs(d))
    BY <1>2, <1>6, <1>7
  <2>3. t \in Templates /\ t \notin Doubtful
    BY <1>1 DEF Doubtful
  <2> QED  BY <1>8, <2>1, <2>2, <2>3
<1>9. \A k \in Kinds : <<t, k>> \in Paths
  BY DEF Paths
<1>10. \A f : f # c => (Kept(t, f)' <=> Kept(t, f))
  <2> TAKE f
  <2>1. ASSUME f # c PROVE Exported(f)' <=> Exported(f)
    BY <1>4, <2>1
  <2> QED  BY <1>1, <2>1 DEF Kept, Exported
<1>11. Fine(t) => Fine(t)'
  <2> SUFFICES ASSUME Fine(t) PROVE Fine(t)'
    OBVIOUS
  <2>1. \A k \in Kinds : ~Exported(root[<<t, k>>])'
    BY <1>1, <1>2, <1>5, <1>9 DEF Fine, Exported
  <2>2. Kept(t, root[<<t, rows[t]>>])'
    <3>1. CASE rows[t] \in Kinds
      BY <1>1, <1>2, <1>5, <1>9, <3>1 DEF Fine, Kept, Exported
    <3>2. CASE rows[t] \notin Kinds
      BY <1>1, <3>2 DEF Fine, Kept, RowType
    <3> QED  BY <3>1, <3>2
  <2> QED  BY <1>1, <2>1, <2>2 DEF Fine
<1>12. ASSUME NEW d \in Calls \ {c}, call[d].t = t
       PROVE  CallFacts(d, t)'
  <2>1. CallFacts(d, t) /\ call[d].kind \in Kinds /\ Dest(d) = <<t, call[d].kind>> /\ Dest(d)' = Dest(d)
    BY <1>2, <1>8, <1>12 DEF TemplateInv, CallFacts, Control, CallInv, Dest
  <2>2. root[Dest(d)] # c /\ disk[d] # c /\ backup[d] # c /\ root[<<t, "dir">>] # c
    BY <1>5, <1>9, <2>1 DEF Kinds
  <2>3. call'[d] = call[d] /\ Rest(d)' = Rest(d) /\ Sealed(d)' = Sealed(d) /\ Doing(d)' = Doing(d)
    BY <1>2 DEF Rest, Sealed, Doing
  <2>4. call[d].op = "build" => BuildFacts(d)'
    <3>1. Exported(disk[d])' <=> Exported(disk[d])
      BY <1>1, <1>2, <2>2 DEF Exported
    <3> QED  BY <1>1, <2>1, <2>3, <3>1 DEF CallFacts, BuildFacts, Wet
  <2>5. call[d].op = "export" => ExportFacts(d)' /\ CopyFacts(d)'
    <3>1. Away(d) => Away(d)'
      <4>1. /\ Exported(backup[d])' <=> Exported(backup[d])
            /\ Exported(root[<<call[d].t, "dir">>])' <=> Exported(root[<<call[d].t, "dir">>])
        BY <1>1, <1>2, <1>12, <2>2, <2>3 DEF Exported
      <4>2. Kept(call[d].t, backup[d])' <=> Kept(call[d].t, backup[d])
        BY <1>1, <2>3, <4>1 DEF Kept
      <4> QED  BY <1>1, <2>3, <4>1, <4>2 DEF Away
    <3> QED  BY <1>1, <2>1, <2>3, <3>1 DEF CallFacts, ExportFacts, CopyFacts
  <2>6. (\A k \in Kinds : ~Exported(root[<<t, k>>])) => \A k \in Kinds : ~Exported(root[<<t, k>>])'
    BY <1>1, <1>4, <1>5, <1>9
  <2> QED  BY <1>1, <2>1, <2>3, <2>4, <2>5, <2>6 DEF CallFacts
<1>13. call'[c].t = t => CallFacts(c, t)'
  <2>1. call'[c].op = "build" => BuildFacts(c)'
    <3> SUFFICES ASSUME call'[c].op = "build" PROVE BuildFacts(c)'
      OBVIOUS
    <3>1. Doing(c)' = "load" /\ disk'[c] = NoFile
      BY <1>1, <1>2 DEF Fresh
    <3>2. ~Sealed(c)'
      BY <3>1 DEF Sealed
    <3> QED  BY <3>1, <3>2 DEF BuildFacts, Wet
  <2>2. call'[c].op = "export" => ExportFacts(c)' /\ CopyFacts(c)'
    <3> SUFFICES ASSUME call'[c].op = "export" PROVE ExportFacts(c)' /\ CopyFacts(c)'
      OBVIOUS
    <3>1. Doing(c)' = "imagefree" /\ disk'[c] = NoFile /\ ~call'[c].ok /\ call'[c].todo \in Plain
      BY <1>1, <1>2, PlainLists DEF Fresh
    <3> QED  BY <3>1 DEF ExportFacts, CopyFacts, Copying, AwaySteps
  <2>3. Doing(c)' # "rmdir"
    BY <1>1 DEF Fresh
  <2> QED  BY <2>1, <2>2, <2>3 DEF CallFacts
<1> QED  BY <1>2, <1>11, <1>12, <1>13

-----------------------------------------------------------------------------
(***************************************************************************)
(* The marks of a guest: none before its VM is resumed.                    *)
(***************************************************************************)
\* A build that runs its commands, or writes its snapshot, has its disk open.
Booted == \A c \in Calls : Doing(c) \in {"commands", "seal"} => disk[c] # NoFile

\* Every step keeps it.
LEMMA BootedStep ==
  ASSUME ArtifactAssumption, Control, RowType, FileType, Booted, NEW h, Homes(h), NEW c \in Calls, Step(c)
  PROVE  Booted'
<1>1. CallInv(c) /\ Active(c) /\ Moved(c) /\ Reaches(c, h)
  BY Steps, StepReaches DEF Control
<1>2. \A k : At(c, k) => (k # "copyout" => Doing(c) = k)
  BY <1>1, Names
<1>3. ASSUME NEW d \in Calls \ {c}, Doing(d)' \in {"commands", "seal"}
      PROVE  disk'[d] # NoFile
  <2>1. Doing(d)' = Doing(d) /\ disk'[d] = disk[d]
    BY <1>1 DEF Moved, Doing, Reaches
  <2> QED  BY <1>3, <2>1 DEF Booted
<1>4. ASSUME Doing(c)' \in {"commands", "seal"}
      PROVE  disk'[c] # NoFile
  <2>1. call[c].op = "build" /\ Doing(c) \in {"create", "commands"}
    BY <1>1, <1>4 DEF Moved, Goes
  <2>2. ~Then(c, Err(c))
    BY <1>1, <1>4, <2>1, BuildGoes, ThenLeaves, FailKinds
  <2>3. CreateRuntime(c) \/ RunCommands(c)
    BY <1>1, <1>2, <2>1, Whose, Names DEF Step, Ensure, AddRow, AddBuild, LoadBuild, Claim, Failed, Ready, Ends, ChoosePaths,
       Lookup, Record, DeleteRow, RemoveDir, ImageFree, OwnImage, ShareImage, LookImage, DeleteImage, RemoveImage,
       StartShim, PickSlot, PrepareNet, ResumeRuntime, Boot, Seal, Cleanup, Materialize, Inject, CopyMemory, CopyWork,
       Aside, Swap, Halt, CopyOut, Unlink, PutBack, DropWork
  <2>4. CASE CreateRuntime(c)
    BY <2>2, <2>4 DEF CreateRuntime, Boot, FileType
  <2>5. CASE RunCommands(c)
    <3>1. disk' = disk /\ Doing(c) = "commands"
      BY <1>2, <2>2, <2>5 DEF RunCommands
    <3> QED  BY <3>1 DEF Booted
  <2> QED  BY <2>3, <2>4, <2>5
<1> QED  BY <1>3, <1>4 DEF Booted

\* A step brings marks of its own, and carries those that are there.
LEMMA NoMarkStep ==
  ASSUME ArtifactAssumption, Control, RowType, FileType, Booted, NEW h, Homes(h),
         \A i \in Images : images[i].st = "shared" => images[i].at \in Paths,
         NEW c \in Calls, Step(c), NEW m, m \notin Calls \X {"base", "init", "cmds"}, NoMark(m)
  PROVE  NoMark(m)'
<1>1. CallInv(c) /\ Active(c) /\ Moved(c)
  BY Steps DEF Control
<1>2. /\ \A k : At(c, k) => (k # "copyout" => Doing(c) = k)
      /\ At(c, "copyout") => Doing(c) \in {"copyout", "copydir"}
  BY <1>1, Names
<1>3. /\ \A p \in Paths : root[p] # NoFile => root[p] \in Files /\ m \notin data[root[p]]
      /\ \A d \in Calls : disk[d] # NoFile => disk[d] \in Files /\ m \notin data[disk[d]]
  BY DEF Homes, Of, Files, NoMark
<1>4. call[c].op \in {"build", "export"} => Dest(c) \in Paths
  BY Destination DEF Writers
<1>5. m # <<c, "base">> /\ m # <<c, "init">> /\ m # <<c, "cmds">>
  OBVIOUS
<1>6. \A f \in Files : m \notin data'[f]
  <2>1. CASE RunCommands(c)
    <3>1. data' \in {data, [data EXCEPT ![disk[c]] = @ \cup {<<c, "cmds">>}]}
      BY <2>1 DEF RunCommands
    <3> QED  BY <1>5, <3>1 DEF NoMark, FileType
  <2>2. CASE Inject(c)
    <3>1. data' \in {data, [data EXCEPT ![root[Dest(c)]] = @ \cup {<<c, "init">>}]}
      BY <2>2 DEF Inject
    <3> QED  BY <1>5, <3>1 DEF NoMark, FileType
  <2>3. CASE CopyWork(c)
    <3>1. data' = data \/ (root[Dest(c)] # NoFile /\ data' = [data EXCEPT ![c] = data[root[Dest(c)]]])
      BY <2>3 DEF CopyWork
    <3>2. call[c].op = "export"
      BY <1>1, <1>2, <2>3, Whose DEF CopyWork
    <3> QED  BY <1>3, <1>4, <3>1, <3>2 DEF NoMark, FileType
  <2>4. CASE Materialize(c)
    <3>1. data' = data \/ \E f : data' = [data EXCEPT ![f] = SourceContent(c) \cup {<<c, "base">>}]
      BY <2>4 DEF Materialize
    <3>2. m \notin SourceContent(c)
      <4> DEFINE s == call[c].src
      <4>1. CASE s \in Templates
        <5>1. rows[s] # "none" => <<s, rows[s]>> \in Paths
          BY <4>1 DEF RowType, Paths
        <5> QED  BY <1>3, <4>1, <5>1 DEF SourceContent, Content
      <4>2. CASE s \notin Templates /\ s \in Images
        <5>1. CASE images[s].st = "own"
          BY <4>2, <5>1 DEF SourceContent, NoMark
        <5>2. CASE images[s].st = "shared" /\ root[images[s].at] # NoFile
          <6>1. SourceContent(c) = data[root[images[s].at]]
            BY <4>2, <5>2 DEF SourceContent, Content
          <6> QED  BY <1>3, <4>2, <5>2, <6>1
        <5>3. CASE images[s].st # "own" /\ ~(images[s].st = "shared" /\ root[images[s].at] # NoFile)
          BY <4>2, <5>3 DEF SourceContent
        <5> QED  BY <5>1, <5>2, <5>3
      <4>3. CASE s \notin Templates /\ s \notin Images
        BY <1>5, <4>3 DEF SourceContent
      <4> QED  BY <4>1, <4>2, <4>3
    <3> QED  BY <1>5, <3>1, <3>2 DEF NoMark, FileType
  <2>5. CASE ~(RunCommands(c) \/ Inject(c) \/ CopyWork(c) \/ Materialize(c))
    <3>1. data' = data
      BY <2>5 DEF Step, Ensure, AddRow, AddBuild, LoadBuild, Claim, Failed, Ready, Ends, Record, DeleteRow, ChoosePaths, Lookup,
       RemoveDir, ImageFree, OwnImage, ShareImage, AddImage, LookImage, DeleteImage, RemoveImage, StartShim, PickSlot,
       PrepareNet, CreateRuntime, ResumeRuntime, Boot, Seal, Cleanup, CopyMemory, Aside, Swap, Halt, CopyOut, Unlink,
       PutBack, DropWork, files
    <3> QED  BY <3>1 DEF NoMark
  <2> QED  BY <2>1, <2>2, <2>3, <2>4, <2>5
<1>7. \A t \in Templates : m \notin snap'[t]
  <2>1. CASE Seal(c)
    <3>1. snap' \in {snap, [snap EXCEPT ![call[c].t] = data[disk[c]]]}
      BY <2>1 DEF Seal
    <3>2. disk[c] # NoFile
      BY <1>2, <2>1 DEF Booted, Seal
    <3> QED  BY <1>3, <3>1, <3>2 DEF NoMark, FileType
  <2>2. CASE RemoveDir(c)
    BY <2>2 DEF RemoveDir, NoMark, FileType
  <2>3. CASE ~(Seal(c) \/ RemoveDir(c))
    <3>1. snap' = snap
      BY <2>3 DEF Step, Ensure, AddRow, AddBuild, LoadBuild, Claim, Failed, Ready, Ends, Record, DeleteRow, ChoosePaths, Lookup,
       ImageFree, OwnImage, ShareImage, AddImage, LookImage, DeleteImage, RemoveImage, StartShim, PickSlot,
       PrepareNet, CreateRuntime, ResumeRuntime, Boot, RunCommands, Inject, Materialize, Cleanup, CopyMemory, CopyWork,
       Aside, Swap, Halt, CopyOut, Unlink, PutBack, DropWork, files
    <3> QED  BY <3>1 DEF NoMark
  <2> QED  BY <2>1, <2>2, <2>3
<1>8. \A i \in Images : m \notin img'[i]
  <2>1. CASE CopyOut(c)
    <3>1. img' = img \/ (root[Dest(c)] # NoFile /\ img' = [img EXCEPT ![call[c].i] = data[root[Dest(c)]]])
      BY <2>1 DEF CopyOut
    <3>2. call[c].op = "export"
      BY <1>1, <1>2, <2>1, Whose DEF CopyOut
    <3> QED  BY <1>3, <1>4, <3>1, <3>2 DEF NoMark, FileType
  <2>2. CASE RemoveImage(c)
    BY <2>2 DEF RemoveImage, NoMark, FileType
  <2>3. CASE ~(CopyOut(c) \/ RemoveImage(c))
    <3>1. img' = img
      BY <2>3 DEF Step, Ensure, AddRow, AddBuild, LoadBuild, Claim, Failed, Ready, Ends, Record, DeleteRow, ChoosePaths, Lookup,
       ImageFree, OwnImage, ShareImage, AddImage, LookImage, DeleteImage, RemoveDir, StartShim, PickSlot,
       PrepareNet, CreateRuntime, ResumeRuntime, Boot, RunCommands, Inject, Materialize, Seal, Cleanup, CopyMemory,
       CopyWork, Aside, Swap, Halt, Unlink, PutBack, DropWork, files
    <3> QED  BY <3>1 DEF NoMark
  <2> QED  BY <2>1, <2>2, <2>3
<1>9. \A d \in Calls : m \notin call'[d].mem
  <2>1. \A d \in Calls \ {c} : call'[d].mem = call[d].mem
    BY <1>1 DEF Moved
  <2>2. Doing(c) # "memfiles" => call'[c].mem = call[c].mem
    BY Details
  <2>3. ASSUME Doing(c) = "memfiles" PROVE call'[c].mem \in {call[c].mem, snap[call[c].t]} /\ call[c].t \in Templates
    <3>1. call[c].op = "export"
      BY <1>1, <2>3, Whose
    <3>2. CopyMemory(c)
      BY <1>2, <2>3 DEF Step, Ensure, AddRow, AddBuild, LoadBuild, Claim, Failed, Ready, Ends, ChoosePaths, Lookup, Record,
       DeleteRow, RemoveDir, ImageFree, OwnImage, ShareImage, LookImage, DeleteImage, RemoveImage, StartShim, PickSlot,
       PrepareNet, CreateRuntime, ResumeRuntime, Boot, RunCommands, Seal, Cleanup, Materialize, Inject, CopyWork, Aside,
       Swap, Halt, CopyOut, Unlink, PutBack, DropWork
    <3>3. CASE Then(c, Err(c))
      BY <1>1, <3>1, <3>3, ThenLeaves DEF CallInv
    <3>4. CASE ~Then(c, Err(c))
      <4>1. call' = [call EXCEPT ![c].mem = snap[call[c].t], ![c].todo = Rest(c)]
        BY <3>2, <3>4 DEF CopyMemory, Rest
      <4> QED  BY <1>1, <3>1, <4>1 DEF CallInv, Idle, Control
    <3> QED  BY <3>3, <3>4
  <2> QED  BY <2>1, <2>2, <2>3 DEF NoMark
<1> QED  BY <1>6, <1>7, <1>8, <1>9 DEF NoMark

\* A call without a mark is one that begins, or an export before its VM is resumed.
Marking(c) == call[c].op = "idle" \/ (call[c].op = "export" /\ Doing(c) \in Early)

\* Steps leave no mark of the guest of another sandbox.
LEMMA UnmarkedStep ==
  ASSUME ArtifactAssumption, Control, RowType, FileType, Booted, Unmarked, NEW h, Homes(h),
         \A i \in Images : images[i].st = "shared" => images[i].at \in Paths,
         NEW c \in Calls, Step(c)
  PROVE  Unmarked'
<1>1. CallInv(c) /\ Active(c) /\ Moved(c) /\ Reaches(c, h) /\ Doing(c) # "rest"
  BY Steps, StepReaches, Names DEF Control
<1>2. SUFFICES ASSUME NEW d \in Calls, Marking(d)'
      PROVE  disk'[d] = NoFile /\ NoMark(<<d, "run">>)'
  BY DEF Unmarked, Marking
<1>3. Marking(d) /\ disk'[d] = disk[d]
  <2>1. CASE d # c
    BY <1>1, <1>2, <2>1 DEF Moved, Marking, Doing, Reaches
  <2>2. CASE d = c
    <3>1. CASE call[c].op = "idle"
      BY <1>1, <3>1 DEF Moved, Goes
    <3>2. CASE call[c].op # "idle"
      <4>1. call[c].op = "export" /\ Doing(c)' \in Early
        BY <1>1, <1>2, <2>2, <3>2 DEF Moved, Marking
      <4>2. Doing(c) \in Early /\ Doing(c) # "resume"
        BY <1>1, <4>1 DEF Moved, Goes, Early
      <4>3. Doing(c) \notin {"create", "resume", "commands", "seal", "halt", "cleanup"}
        BY <4>2 DEF Early
      <4>4. ~Cleanup(c) /\ (StartShim(c) \/ PickSlot(c) \/ PrepareNet(c) => disk' = disk)
        BY <1>1, <4>3, Names DEF Cleanup, StartShim, PickSlot, PrepareNet, host
      <4>5. disk'[c] = disk[c]
        BY <4>3, <4>4, StillSteps DEF FileType
      <4> QED  BY <2>2, <4>1, <4>2, <4>5 DEF Marking
    <3> QED  BY <3>1, <3>2
  <2> QED  BY <2>1, <2>2
<1>4. disk[d] = NoFile /\ NoMark(<<d, "run">>)
  BY <1>3 DEF Unmarked, Marking
<1>5. <<d, "run">> \notin Calls \X {"base", "init", "cmds"}
  OBVIOUS
<1>6. NoMark(<<d, "run">>)'
  BY <1>4, <1>5, NoMarkStep
<1> QED  BY <1>3, <1>4, <1>6

\* A guest marks what its own sandbox has open.
LEMMA UnmarkedGuest ==
  ASSUME FileType, Unmarked, NEW c \in Calls, GuestWrites(c)
  PROVE  Unmarked'
<1>1. UNCHANGED <<call, disk, snap, img>> /\ disk[c] # NoFile
      /\ data' = [data EXCEPT ![disk[c]] = @ \cup {<<c, "run">>}]
  BY DEF GuestWrites, host
<1>2. SUFFICES ASSUME NEW d \in Calls, Marking(d)
      PROVE  disk[d] = NoFile /\ NoMark(<<d, "run">>)'
  BY <1>1 DEF Unmarked, Marking, Doing
<1>3. disk[d] = NoFile /\ NoMark(<<d, "run">>) /\ d # c
  BY <1>1, <1>2 DEF Unmarked, Marking
<1>4. \A f \in Files : <<d, "run">> \notin data'[f]
  BY <1>1, <1>3 DEF NoMark, FileType
<1> QED  BY <1>1, <1>3, <1>4 DEF NoMark

\* A call that begins has no sandbox, and has read no memory.
LEMMA UnmarkedRequest ==
  ASSUME ArtifactAssumption, Control, RowType, NewInv, SandboxInv, Unmarked, NEW c \in Calls, Request(c)
  PROVE  Unmarked'
<1>1. Fresh(c) /\ UNCHANGED <<snap, img, data, disk>> /\ call'[c].mem = {}
  BY BeginsCall
<1>2. call[c].op = "idle" /\ \A d \in Calls \ {c} : call'[d] = call[d]
  BY <1>1 DEF Fresh
<1>3. SUFFICES ASSUME NEW d \in Calls, Marking(d)'
      PROVE  disk'[d] = NoFile /\ NoMark(<<d, "run">>)'
  BY DEF Unmarked, Marking
<1>4. Marking(d)
  BY <1>2, <1>3 DEF Marking, Doing
<1>5. disk[d] = NoFile /\ NoMark(<<d, "run">>)
  BY <1>4 DEF Unmarked, Marking
<1> QED  BY <1>1, <1>2, <1>5 DEF NoMark

\* Nothing else marks anything.
LEMMA UnmarkedStill ==
  ASSUME Unmarked, \A d \in Calls : Alike(d), UNCHANGED <<snap, img, data, disk>>
  PROVE  Unmarked'
<1> SUFFICES ASSUME NEW d \in Calls, Marking(d)'
             PROVE  disk'[d] = NoFile /\ NoMark(<<d, "run">>)'
  BY DEF Unmarked, Marking
<1>1. Marking(d)
  BY AlikeGoes DEF Marking, Alike
<1>2. disk[d] = NoFile /\ NoMark(<<d, "run">>)
  BY <1>1 DEF Unmarked, Marking
<1> QED  BY <1>2 DEF NoMark, Alike

-----------------------------------------------------------------------------
(***************************************************************************)
(* Images                                                                  *)
(***************************************************************************)
\* An export that finds its image there ends, and so does a call that finds it gone.
LEMMA ImageEnds ==
  ASSUME NEW c, CallInv(c), Active(c)
  PROVE  /\ call[c].op = "export" /\ Doing(c) = "imagefree" => Err(c) = << >>
         /\ call[c].op = "unimage" /\ Doing(c) = "delimage" => Err(c) = << >>
<1> DEFINE s == call[c].todo
<1>1. s # << >> /\ s \in Todos(call[c].op, call[c].ok) /\ call[c].ok \in BOOLEAN /\ Doing(c) = Kind(s)
  BY DEF CallInv, Active, Doing
<1>2. PICK p \in Plans(call[c].op, call[c].ok) : s \in Suffixes(p)
  BY <1>1, TodosOf
<1>3. ASSUME call[c].op = "export", Kind(s) = "imagefree"
      PROVE  Head(s).err = "stop"
  <2>1. p \in {ExportSteps("vm"), ExportSteps("dir"), Late, ExportBegin, Restore, Undone, Unswapped, Deferred}
    BY <1>2, <1>3 DEF Plans
  <2> QED  BY <1>1, <1>2, <1>3, <2>1, ExportVMList, ExportDirList, LateList, ExportBeginList, RestoreList, UndoneList,
             UnswappedList, DeferredList DEF Row
<1>4. ASSUME call[c].op = "unimage", Kind(s) = "delimage"
      PROVE  Head(s).err = "stop"
  BY <1>1, <1>2, <1>4, UnimageList DEF Plans, Row
<1> QED  BY <1>1, <1>3, <1>4, Undoes DEF Err

\* A step changes the image of its own call only, and these are the steps that do.
LEMMA ImageChange ==
  ASSUME Control, RowType, FileType, NEW c \in Calls, Step(c)
  PROVE  /\ \/ images' = images
            \/ /\ Doing(c) = "own" /\ call[c].op = "export"
               /\ images' = [images EXCEPT ![call[c].i] = [st |-> "own", at |-> Dest(c), by |-> c]]
            \/ /\ Doing(c) = "share" /\ call[c].op = "convert"
               /\ images' = [images EXCEPT ![call[c].i] = [st |-> "shared", at |-> Dest(c), by |-> c]]
            \/ /\ Doing(c) = "delimage" /\ call[c].op = "unimage"
               /\ images' = [images EXCEPT ![call[c].i] = [st |-> "none"]]
         /\ \/ img' = img
            \/ Doing(c) \in {"copyout", "copydir"} /\ call[c].op = "export" /\ CopyOut(c)
            \/ Doing(c) = "rmimage" /\ call[c].op = "unimage"
         /\ \A i \in Images : images'[i] # images[i] \/ img'[i] # img[i] => i = call[c].i /\ Uncertain(c, i)
         /\ Doing(c) = "imagefree" => ImageFree(c)
         /\ Doing(c) = "delimage" => DeleteImage(c)
         /\ Doing(c) = "copyout" => CopyOut(c)
<1>1. CallInv(c) /\ Active(c) /\ Moved(c) /\ Doing(c) # "rest"
  BY Steps, Names DEF Control
<1>2. /\ \A k : At(c, k) => (k # "copyout" => Doing(c) = k)
      /\ At(c, "copyout") => Doing(c) \in {"copyout", "copydir"}
  BY <1>1, Names
<1>3. \/ images' = images
      \/ /\ Doing(c) = "own" /\ call[c].op = "export"
         /\ images' = [images EXCEPT ![call[c].i] = [st |-> "own", at |-> Dest(c), by |-> c]]
      \/ /\ Doing(c) = "share" /\ call[c].op = "convert"
         /\ images' = [images EXCEPT ![call[c].i] = [st |-> "shared", at |-> Dest(c), by |-> c]]
      \/ /\ Doing(c) = "delimage" /\ call[c].op = "unimage"
         /\ images' = [images EXCEPT ![call[c].i] = [st |-> "none"]]
  <2>1. CASE OwnImage(c)
    BY <1>1, <1>2, <2>1, Whose DEF OwnImage, AddImage
  <2>2. CASE ShareImage(c)
    BY <1>1, <1>2, <2>2, Whose DEF ShareImage, AddImage
  <2>3. CASE DeleteImage(c)
    BY <1>1, <1>2, <2>3, Whose DEF DeleteImage
  <2>4. CASE ~(OwnImage(c) \/ ShareImage(c) \/ DeleteImage(c))
    BY <2>4 DEF Step, Ensure, AddRow, AddBuild, LoadBuild, Claim, Failed, Ready, Ends, Record, DeleteRow, ChoosePaths, Lookup,
       RemoveDir, ImageFree, LookImage, RemoveImage, StartShim, PickSlot, PrepareNet, CreateRuntime, ResumeRuntime, Boot,
       RunCommands, Seal, Cleanup, Materialize, Inject, CopyMemory, CopyWork, Aside, Swap, Halt, CopyOut, Unlink,
       PutBack, DropWork, store
  <2> QED  BY <2>1, <2>2, <2>3, <2>4
<1>4. /\ \/ img' = img
         \/ Doing(c) \in {"copyout", "copydir"} /\ CopyOut(c)
         \/ Doing(c) = "rmimage" /\ RemoveImage(c)
      /\ Doing(c) \in {"copyout", "copydir"} => call[c].op = "export"
      /\ Doing(c) = "rmimage" => call[c].op = "unimage"
  <2>1. CASE CopyOut(c) \/ RemoveImage(c)
    BY <1>1, <1>2, <2>1, Whose DEF CopyOut, RemoveImage
  <2>2. CASE ~(CopyOut(c) \/ RemoveImage(c))
    <3>1. img' = img
      BY <2>2 DEF Step, Ensure, AddRow, AddBuild, LoadBuild, Claim, Failed, Ready, Ends, Record, DeleteRow, ChoosePaths, Lookup,
       ImageFree, OwnImage, ShareImage, AddImage, LookImage, DeleteImage, RemoveDir, StartShim, PickSlot,
       PrepareNet, CreateRuntime, ResumeRuntime, Boot, RunCommands, Inject, Materialize, Seal, Cleanup, CopyMemory,
       CopyWork, Aside, Swap, Halt, Unlink, PutBack, DropWork, files
    <3> QED  BY <1>1, <3>1, Whose
  <2> QED  BY <2>1, <2>2
<1>5. CopyOut(c) \/ RemoveImage(c) => \E v : img' \in {img, [img EXCEPT ![call[c].i] = v]}
  BY DEF CopyOut, RemoveImage
<1>6. \A i \in Images : images'[i] # images[i] \/ img'[i] # img[i] => i = call[c].i /\ Uncertain(c, i)
  <2> TAKE i \in Images
  <2>1. images'[i] # images[i] => i = call[c].i /\ call[c].op \in {"export", "convert", "unimage"}
    BY <1>3 DEF FileType
  <2>2. img'[i] # img[i] => i = call[c].i /\ call[c].op \in {"export", "convert", "unimage"}
    BY <1>4, <1>5 DEF FileType
  <2> QED  BY <1>1, <2>1, <2>2 DEF Uncertain
<1>7. Doing(c) = "imagefree" => ImageFree(c)
  BY <1>2 DEF Step, Ensure, AddRow, AddBuild, LoadBuild, Claim, Failed, Ready, Ends, ChoosePaths, Lookup, Record,
     DeleteRow, RemoveDir, OwnImage, ShareImage, LookImage, RemoveImage, StartShim, PickSlot,
     PrepareNet, CreateRuntime, ResumeRuntime, Boot, RunCommands, Seal, Cleanup, Materialize, Inject, CopyMemory,
     CopyWork, Aside, Swap, Halt, Unlink, PutBack, DropWork, DeleteImage, CopyOut
<1>8. Doing(c) = "delimage" => DeleteImage(c)
  BY <1>2 DEF Step, Ensure, AddRow, AddBuild, LoadBuild, Claim, Failed, Ready, Ends, ChoosePaths, Lookup, Record,
     DeleteRow, RemoveDir, OwnImage, ShareImage, LookImage, RemoveImage, StartShim, PickSlot,
     PrepareNet, CreateRuntime, ResumeRuntime, Boot, RunCommands, Seal, Cleanup, Materialize, Inject, CopyMemory,
     CopyWork, Aside, Swap, Halt, Unlink, PutBack, DropWork, ImageFree, CopyOut
<1>9. Doing(c) = "copyout" => CopyOut(c)
  BY <1>2 DEF Step, Ensure, AddRow, AddBuild, LoadBuild, Claim, Failed, Ready, Ends, ChoosePaths, Lookup, Record,
     DeleteRow, RemoveDir, OwnImage, ShareImage, LookImage, RemoveImage, StartShim, PickSlot,
     PrepareNet, CreateRuntime, ResumeRuntime, Boot, RunCommands, Seal, Cleanup, Materialize, Inject, CopyMemory,
     CopyWork, Aside, Swap, Halt, Unlink, PutBack, DropWork, ImageFree, DeleteImage
<1> QED  BY <1>3, <1>4, <1>6, <1>7, <1>8, <1>9

\* A step of c leaves the disk that an export of another call has copied.
LEMMA CopyStays ==
  ASSUME ArtifactAssumption, Control, RowType, FileType, Alone, Unmarked, TemplateInv, NEW h, Homes(h),
         NEW c \in Calls, Step(c), NEW d \in Calls \ {c}, call[d].op = "export", call[d].t \notin Doubtful \cup spoilt'
  PROVE  data'[d] = data[d]
<1>1. Reaches(c, h) /\ call[d].t \in Templates
  BY StepReaches DEF Control, CallInv
<1>2. CASE call[c].op \in Writers /\ call[c].t = call[d].t
  <2>1. Writes(c)
    <3> SUFFICES ASSUME NEW t \in Templates \ Doubtful, t \notin spoilt', t = call[c].t PROVE Writes(c)
      BY <1>1, <1>2
    <3> QED  BY <1>2, OwnStep
  <2> QED  BY <2>1 DEF Writes, Exported, Files
<1>3. CASE ~(call[c].op \in Writers /\ call[c].t = call[d].t)
  <2>1. Untouched(call[d].t, h)
    BY <1>1, <1>3, Untouches
  <2> QED  BY <2>1 DEF Untouched, Of, Files
<1> QED  BY <1>2, <1>3

\* Steps keep the facts of images.
LEMMA ImageStep ==
  ASSUME ArtifactAssumption, Control, RowType, FileType, Alone, Unmarked, TemplateInv, ImageInv, NEW h, Homes(h),
         NEW c \in Calls, Step(c)
  PROVE  ImageInv'
<1> DEFINE j == call[c].i
<1>1. CallInv(c) /\ Active(c) /\ Moved(c) /\ Reaches(c, h) /\ Doing(c) # "rest"
  BY Steps, StepReaches, Names DEF Control
<1>2. SameCalls /\ mixed' = mixed /\ Doubtful \subseteq Doubtful'
  <2>1. [Next]_vars
    BY DEF Next
  <2>2. SameCalls /\ mixed' = mixed
    BY <1>1, Details DEF Moved, SameCalls, Reaches
  <2> QED  BY <2>1, <2>2, Noted DEF Doubtful
<1>3. \A d \in Calls \ {c} : Alike(d) /\ Doing(d)' = Doing(d) /\ Active(d)' = Active(d)
  BY <1>1 DEF Moved, Alike, Doing, Active
<1>4. \A i \in Images : images'[i] # images[i] \/ img'[i] # img[i] => i = j /\ Uncertain(c, i)
  BY ImageChange
<1>5. \A d \in Calls \ {c} : \A i \in Images \ mixed :
        Uncertain(d, i) => images'[i] = images[i] /\ img'[i] = img[i]
  BY <1>4, OneWriter
<1>6. \A d \in Calls \ {c} : call[d].op = "export" /\ call[d].t \notin Doubtful' => data'[d] = data[d]
  BY <1>2, CopyStays DEF Doubtful
<1>7. \A d \in Calls : call[d].op \in {"export", "convert", "unimage"} => call[d].i \in Images
  BY DEF FileType
<1>8. \A d \in Calls : call'[d].op = call[d].op /\ call'[d].t = call[d].t /\ call'[d].i = call[d].i
  BY <1>2 DEF SameCalls
<1>9. Goes(call[c].op, call[c].ok, Doing(c), Doing(c)') /\ Doing(c)' = Kind(call'[c].todo)
  BY <1>1 DEF Moved, Doing
<1>0. ASSUME NEW i \in Images, images'[i] # images[i]
      PROVE  \/ /\ i = j /\ Doing(c) = "own" /\ call[c].op = "export"
                /\ images'[i] = [st |-> "own", at |-> Dest(c), by |-> c]
             \/ /\ i = j /\ Doing(c) = "share" /\ call[c].op = "convert"
                /\ images'[i] = [st |-> "shared", at |-> Dest(c), by |-> c]
             \/ /\ i = j /\ Doing(c) = "delimage" /\ call[c].op = "unimage"
                /\ images'[i] = [st |-> "none"]
  <2>1. i = call[c].i /\ DOMAIN images = Images
    BY <1>4, <1>0 DEF FileType
  <2> QED  BY <1>0, <2>1, ImageChange
<1>10. SharedPaths'
  <2> SUFFICES ASSUME NEW i \in Images, images'[i].st = "shared" PROVE images'[i].at \in Paths
    BY DEF SharedPaths
  <2>1. CASE images'[i] = images[i]
    BY <2>1 DEF ImageInv, SharedPaths
  <2>2. CASE images'[i] # images[i]
    <3>1. images'[i].at = Dest(c) /\ call[c].op = "convert"
      BY <1>0, <2>2
    <3> QED  BY <1>1, <3>1 DEF Dest, Paths, CallInv
  <2> QED  BY <2>1, <2>2
<1>11. ASSUME NEW d \in Calls \ {c} PROVE ImageFacts(d)'
  <2>1. ImageFacts(d)
    BY DEF ImageInv
  <2>2. call[d].op \in {"export", "unimage"} /\ call[d].i \notin mixed /\ Doing(d) # "rest" =>
          images'[call[d].i] = images[call[d].i] /\ img'[call[d].i] = img[call[d].i]
    BY <1>5, <1>7 DEF Uncertain
  <2>3. Active(d) => Doing(d) # "rest"
    BY Names DEF Control
  <2> QED  BY <1>2, <1>3, <1>6, <1>8, <2>1, <2>2, <2>3 DEF ImageFacts, Alike
<1>12. ASSUME call[c].op = "export", j \notin mixed, Doing(c)' \notin {"imagefree", "rest"}
       PROVE  images'[j].st = "none"
  <2>1. CASE Doing(c) = "imagefree"
    <3>1. Err(c) = << >> /\ images' = images /\ ImageFree(c)
      BY <1>1, <1>12, <2>1, ImageEnds, ImageChange DEF ImageFree, store
    <3>2. ~Then(c, Err(c))
      BY <1>9, <1>12, <3>1, ThenLeaves, FailKinds
    <3>3. PICK s \in {Err(c)} \cup (IF images[j].st = "none" THEN {Rest(c)} ELSE {}) : Then(c, s)
      BY <3>1 DEF ImageFree, Gives
    <3> QED  BY <3>1, <3>2, <3>3
  <2>2. CASE Doing(c) # "imagefree"
    <3>1. images[j].st = "none"
      BY <1>1, <1>12, <2>2 DEF ImageInv, ImageFacts
    <3>2. Doing(c) # "own"
      BY <1>9, <1>12 DEF Goes
    <3> QED  BY <1>12, <3>1, <3>2, ImageChange
  <2> QED  BY <2>1, <2>2
<1>13. ASSUME call[c].op = "export", call[c].t \notin Doubtful, Active(c)', call'[c].ok, call'[c].kind = "vm", j \notin mixed
       PROVE  img'[j] = data'[c]
  <2>1. call[c].t \in Templates /\ ExportFacts(c) /\ j \in Images
    BY <1>1, <1>7, <1>13 DEF TemplateInv, CallInv
  <2>2. CASE call[c].ok
    <3>1. Doing(c) \in Ended /\ call[c].kind = "vm"
      BY <1>1, <1>13, <2>2, Details DEF CallInv, Ended
    <3>2. img[j] = data[c]
      BY <1>1, <1>13, <2>2, <3>1 DEF ImageInv, ImageFacts
    <3>3. img' = img
      BY <1>13, <3>1, ImageChange DEF Ended
    <3>4. data' = data
      <4>1. \A k : At(c, k) => (k # "copyout" => Doing(c) = k)
        BY <1>1, Names
      <4> QED  BY <3>1, <4>1, <1>13, Whose, <1>1 DEF Step, Ensure, AddRow, AddBuild, LoadBuild, Claim, Failed, Ready, Ends,
           ChoosePaths, Lookup, Record, DeleteRow, RemoveDir, ImageFree, OwnImage, ShareImage, AddImage, LookImage,
           DeleteImage, RemoveImage, StartShim, PickSlot, PrepareNet, CreateRuntime, ResumeRuntime, Boot, RunCommands,
           Seal, Cleanup, Materialize, Inject, CopyMemory, CopyWork, Aside, Swap, Halt, CopyOut, Unlink, PutBack,
           DropWork, files, Ended
    <3> QED  BY <3>2, <3>3, <3>4
  <2>3. CASE ~call[c].ok
    <3>1. Doing(c) \in {"copyout", "copydir"}
      BY <1>1, <1>13, <2>3 DEF Moved
    <3>2. Doing(c) = "copyout" /\ CopyOut(c)
      BY <1>13, <2>1, <3>1, Details, ImageChange DEF ExportFacts
    <3>3. root[Dest(c)] = c
      BY <2>1, <3>2 DEF ExportFacts
    <3>4. ~Then(c, Err(c))
      BY <1>13, <2>3, ThenLeaves
    <3>5. img' = [img EXCEPT ![j] = data[c]] /\ data' = data
      BY <3>2, <3>3, <3>4 DEF CopyOut
    <3> QED  BY <2>1, <3>5 DEF FileType
  <2> QED  BY <2>2, <2>3
<1>14. ASSUME call[c].op = "unimage", j \notin mixed, Doing(c)' = "rmimage"
       PROVE  images'[j].st = "none"
  <2>1. Doing(c) = "delimage" /\ j \in Images
    BY <1>7, <1>9, <1>14 DEF Goes
  <2>2. Err(c) = << >> /\ DeleteImage(c)
    BY <1>1, <1>14, <2>1, ImageEnds, ImageChange
  <2>3. ~Then(c, Err(c))
    BY <1>9, <1>14, <2>2, ThenLeaves, FailKinds
  <2> QED  BY <2>1, <2>2, <2>3 DEF DeleteImage, FileType
<1>15. ImageFacts(c)'
  BY <1>2, <1>8, <1>12, <1>13, <1>14 DEF ImageFacts
<1>16. ASSUME NEW i \in Images \ mixed PROVE Recorded(i)'
  <2> SUFFICES ASSUME images'[i].st = "own" PROVE Recorded(i)'
    BY DEF Recorded
  <2>1. CASE images'[i] = images[i]
    <3> DEFINE e == images[i].by
    <3>1. /\ e \in Calls /\ call[e].op = "export" /\ call[e].i = i /\ images[i].at[2] = call[e].kind
          /\ call[e].t \notin Doubtful => call[e].ok /\ (call[e].kind = "vm" => img[i] = data[e])
      BY <2>1 DEF ImageInv, Recorded
    <3>2. images'[i].by = e /\ images'[i].at = images[i].at
      BY <2>1
    <3>3. Doing(e) \in {"imagefree", "rest"}
      BY <2>1, <3>1 DEF ImageInv, ImageFacts
    <3>4. img'[i] = img[i]
      <4> SUFFICES ASSUME img'[i] # img[i] PROVE FALSE
        OBVIOUS
      <4>1. i = j /\ Uncertain(c, i)
        BY <1>4
      <4>2. \/ call[c].op = "export" /\ Doing(c) \in {"copyout", "copydir"}
            \/ call[c].op = "unimage" /\ Doing(c) = "rmimage"
        BY ImageChange
      <4>3. images[i].st = "none"
        BY <1>1, <4>1, <4>2 DEF ImageInv, ImageFacts
      <4> QED  BY <2>1, <4>3
    <3> HIDE DEF e
    <3>5. call'[e].kind = call[e].kind
      <4>1. CASE e # c
        BY <1>3, <3>1, <4>1 DEF Alike
      <4>2. CASE e = c
        BY <3>3, <4>2, Details
      <4> QED  BY <4>1, <4>2
    <3>6. ASSUME call[e].t \notin Doubtful' PROVE call'[e].ok /\ (call[e].kind = "vm" => img'[i] = data'[e])
      <4>1. e # c
        <5>1. CASE e = c
          <6>1. Doing(c) = "imagefree" /\ call[c].ok
            BY <1>1, <1>2, <3>1, <3>3, <3>6, <5>1
          <6> QED  BY <1>1, <6>1 DEF CallInv, Ended
        <5> QED  BY <5>1
      <4>2. call'[e].ok = call[e].ok /\ data'[e] = data[e]
        BY <1>3, <1>6, <3>1, <3>6, <4>1 DEF Alike
      <4> QED  BY <1>2, <3>1, <3>4, <3>6, <4>2
    <3> QED  BY <1>2, <1>8, <3>1, <3>2, <3>5, <3>6 DEF Recorded
  <2>2. CASE images'[i] # images[i]
    <3>1. i = j /\ Doing(c) = "own" /\ call[c].op = "export" /\ images'[i].by = c /\ images'[i].at = Dest(c)
      BY <1>0, <2>2
    <3>2. call'[c].kind = call[c].kind /\ Dest(c)[2] = call[c].kind /\ call'[c].ok = call[c].ok
      BY <1>1, <3>1, Details DEF Dest, Moved
    <3>3. ASSUME call[c].t \notin Doubtful PROVE call[c].ok /\ (call[c].kind = "vm" => img'[i] = data'[c])
      <4>1. ExportFacts(c) /\ call[c].t \in Templates
        BY <1>1, <3>1, <3>3 DEF TemplateInv, CallInv
      <4>2. call[c].ok
        BY <1>1, <3>1, <4>1, PlainMoves DEF ExportFacts
      <4>3. call[c].kind = "vm" => img[i] = data[c]
        BY <1>1, <3>1, <3>3, <4>2 DEF ImageInv, ImageFacts
      <4>4. img' = img
        BY <3>1, ImageChange
      <4>5. OwnImage(c)
        <5>1. \A k : At(c, k) => (k # "copyout" => Doing(c) = k)
          BY <1>1, Names
        <5> QED  BY <2>2, <3>1, <5>1 DEF Step, Ensure, AddRow, AddBuild, LoadBuild, Claim, Failed, Ready, Ends, ChoosePaths,
             Lookup, Record, DeleteRow, RemoveDir, ImageFree, ShareImage, LookImage, DeleteImage, RemoveImage,
             StartShim, PickSlot, PrepareNet, CreateRuntime, ResumeRuntime, Boot, RunCommands, Seal, Cleanup,
             Materialize, Inject, CopyMemory, CopyWork, Aside, Swap, Halt, CopyOut, Unlink, PutBack, DropWork, store
      <4>6. data' = data
        BY <4>5 DEF OwnImage, AddImage, files
      <4> QED  BY <4>2, <4>3, <4>4, <4>6
    <3> QED  BY <1>2, <1>8, <3>1, <3>2, <3>3 DEF Recorded
  <2> QED  BY <2>1, <2>2
<1> QED  BY <1>2, <1>10, <1>11, <1>15, <1>16 DEF ImageInv

\* What a guest writes is in no image yet.
LEMMA ImageGuest ==
  ASSUME ArtifactAssumption, Control, RowType, FileType, SandboxInv, TemplateInv, ImageInv, NEW h, Homes(h),
         NEW c \in Calls, GuestWrites(c)
  PROVE  ImageInv'
<1>1. /\ disk[c] # NoFile /\ data' = [data EXCEPT ![disk[c]] = @ \cup {<<c, "run">>}]
      /\ UNCHANGED <<call, images, img, mixed, spoilt>>
  BY DEF GuestWrites, store, host, history
<1>2. call[c].op \in {"build", "export"} /\ call[c].t \in Templates /\ Of(disk[c], call[c].t, h)
  BY <1>1 DEF SandboxInv, BoxInv, Bare, Keeps, Homes, Control, CallInv
<1>3. ASSUME NEW d \in Calls, call[d].op = "export", call[d].ok, call[d].kind = "vm", call[d].t \notin Doubtful
      PROVE  data'[d] = data[d]
  <2> SUFFICES ASSUME disk[c] = d PROVE FALSE
    BY <1>1 DEF FileType
  <2>1. Of(d, call[d].t, h) /\ call[d].t \in Templates
    BY <1>3 DEF Of, Control, CallInv
  <2>2. call[c].t = call[d].t
    BY <1>1, <1>2, <2>1, OneHome
  <2>3. c # d
    BY <1>1, <1>3, <2>1 DEF TemplateInv, CopyFacts
  <2>4. CASE call[c].op = "export"
    BY <1>1, <1>3, <2>1, <2>2, <2>3, <2>4 DEF TemplateInv, ExportFacts
  <2>5. CASE call[c].op = "build"
    BY <1>1, <1>3, <2>1, <2>2, <2>5 DEF TemplateInv, BuildFacts, Exported
  <2> QED  BY <1>2, <2>4, <2>5
<1>4. \A d \in Calls : Doing(d)' = Doing(d) /\ (Active(d)' <=> Active(d))
  BY <1>1 DEF Doing, Active
<1>5. SharedPaths'
  BY <1>1 DEF ImageInv, SharedPaths
<1>6. ASSUME NEW d \in Calls PROVE ImageFacts(d)'
  <2>1. ImageFacts(d)
    BY DEF ImageInv
  <2> QED  BY <1>1, <1>3, <1>4, <2>1 DEF ImageFacts, Doubtful
<1>7. ASSUME NEW i \in Images \ mixed PROVE Recorded(i)'
  <2>1. Recorded(i)
    BY <1>7 DEF ImageInv
  <2> QED  BY <1>1, <1>3, <2>1 DEF Recorded, Doubtful
<1> QED  BY <1>1, <1>5, <1>6, <1>7 DEF ImageInv

\* What no call changes stays as it was.
LEMMA ImageStill ==
  ASSUME ImageInv, \A d \in Calls : Alike(d), UNCHANGED <<images, img, data, mixed, spoilt>>
  PROVE  ImageInv'
<1>1. \A d \in Calls : Doing(d)' = Doing(d) /\ (Active(d)' <=> Active(d))
  BY AlikeGoes
<1>2. SharedPaths'
  BY DEF ImageInv, SharedPaths
<1>3. ASSUME NEW d \in Calls PROVE ImageFacts(d)'
  BY <1>1 DEF ImageInv, ImageFacts, Alike, Doubtful
<1>4. ASSUME NEW i \in Images \ mixed PROVE Recorded(i)'
  BY <1>4 DEF ImageInv, Recorded, Alike, Doubtful
<1> QED  BY <1>2, <1>3, <1>4 DEF ImageInv

\* A call that begins has no image yet.
LEMMA ImageRequest ==
  ASSUME ArtifactAssumption, Control, RowType, NewInv, ImageInv, NEW c \in Calls, Request(c)
  PROVE  ImageInv'
<1>1. Fresh(c) /\ UNCHANGED <<images, img, data>> /\ mixed \subseteq mixed' /\ Doubtful \subseteq Doubtful'
  BY BeginsCall DEF Doubtful
<1>2. /\ call[c].op = "idle" /\ \A d \in Calls \ {c} : call'[d] = call[d]
      /\ ~call'[c].ok
      /\ call'[c].op = "export" => Doing(c)' = "imagefree"
      /\ call'[c].op = "unimage" => Doing(c)' = "lookimage"
  BY <1>1 DEF Fresh
<1>3. SharedPaths'
  BY <1>1 DEF ImageInv, SharedPaths
<1>4. ASSUME NEW d \in Calls PROVE ImageFacts(d)'
  <2>1. CASE d = c
    BY <1>2, <2>1 DEF ImageFacts
  <2>2. CASE d # c
    <3>1. ImageFacts(d) /\ call'[d] = call[d] /\ Doing(d)' = Doing(d) /\ (Active(d)' <=> Active(d))
      BY <1>2, <2>2 DEF ImageInv, Doing, Active
    <3> QED  BY <1>1, <3>1 DEF ImageFacts
  <2> QED  BY <2>1, <2>2
<1>5. ASSUME NEW i \in Images, i \notin mixed PROVE Recorded(i)'
  <2> SUFFICES ASSUME images[i].st = "own" PROVE Recorded(i)'
    BY <1>1 DEF Recorded
  <2> DEFINE e == images[i].by
  <2>1. Recorded(i) /\ images'[i] = images[i] /\ img'[i] = img[i] /\ data' = data
    BY <1>1, <1>5 DEF ImageInv
  <2>2. e \in Calls /\ call[e].op = "export"
    BY <2>1 DEF Recorded
  <2>3. call'[e] = call[e]
    BY <1>2, <2>2
  <2> QED  BY <1>1, <2>1, <2>2, <2>3 DEF Recorded
<1> QED  BY <1>1, <1>3, <1>4, <1>5 DEF ImageInv

-----------------------------------------------------------------------------
(***************************************************************************)
(* Templates and images together                                           *)
(***************************************************************************)
\* The files and the calls keep their form and their templates, and a request notes what meets.
LEMMA RequestKeeps ==
  ASSUME ArtifactAssumption, Control, RowType, NewInv, SandboxInv, FileType, Alone, Booted,
         NEW h \in Templates, Homes(h), NEW c \in Calls, Request(c)
  PROVE  FileType' /\ Alone' /\ Booted' /\ Homes(h)'
<1>1. /\ Fresh(c) /\ UNCHANGED <<rows, images, root, snap, img, data, work, backup, disk, last>>
      /\ call'[c].op \in {"export", "convert", "unimage"} => call'[c].i \in Images
      /\ mixed \subseteq mixed'
      /\ \A d \in Calls : Active(d) => Changes(call[c])' \cap Changes(call[d]) \subseteq mixed'
  BY BeginsCall
<1>2. /\ call[c].op = "idle" /\ call'[c].op # "idle" /\ \A d \in Calls \ {c} : call'[d] = call[d]
      /\ Doing(c)' \notin {"commands", "seal"}
  BY <1>1 DEF Fresh
<1>3. FileType'
  <2>1. \A d \in Calls : call'[d].op \in {"export", "convert", "unimage"} => call'[d].i \in Images
    BY <1>1, <1>2 DEF FileType
  <2>2. \A d \in Calls : call'[d].op = "idle" => call'[d].t = "none"
    BY <1>2 DEF FileType
  <2> QED  BY <1>1, <2>1, <2>2 DEF FileType
<1>4. Alone'
  <2> SUFFICES ASSUME NEW d \in Calls, NEW e \in Calls, d # e, Active(d)', Active(e)'
               PROVE  Changes(call[d])' \cap Changes(call[e])' \subseteq mixed'
    BY DEF Alone
  <2>1. \A g \in Calls \ {c} : (Active(g)' <=> Active(g)) /\ Changes(call[g])' = Changes(call[g])
    BY <1>2 DEF Active, Changes
  <2>2. CASE d # c /\ e # c
    <3>1. Changes(call[d]) \cap Changes(call[e]) \subseteq mixed
      BY <2>1, <2>2 DEF Alone
    <3> QED  BY <1>1, <2>1, <2>2, <3>1
  <2>3. CASE d = c
    <3>1. Changes(call[c])' \cap Changes(call[e]) \subseteq mixed'
      BY <1>1, <2>1, <2>3
    <3> QED  BY <2>1, <2>3, <3>1
  <2>4. CASE e = c
    <3>1. Changes(call[c])' \cap Changes(call[d]) \subseteq mixed'
      BY <1>1, <2>1, <2>4
    <3> QED  BY <2>1, <2>4, <3>1
  <2> QED  BY <2>2, <2>3, <2>4
<1>5. Booted'
  BY <1>1, <1>2 DEF Booted, Doing
<1>6. Homes(h)'
  <2>1. \A f, t : Of(f, t, h) => Of(f, t, h)'
    BY <1>2 DEF Of
  <2>2. \A p \in Paths : Of(root[p], p[1], h)'
    <3> TAKE p \in Paths
    <3>1. Of(root[p], p[1], h)
      BY DEF Homes
    <3> QED  BY <1>1, <1>2, <3>1 DEF Of
  <2>3. work[c] = NoFile /\ backup[c] = NoFile /\ disk[c] = NoFile
    <3>1. call[c].t = "none"
      BY <1>2 DEF FileType
    <3>2. disk[c] = NoFile
      BY <1>2 DEF SandboxInv, BoxInv, Bare, Keeps
    <3>3. \A f : Of(f, "none", h) => f = NoFile
      BY DEF Of, Control, CallInv, ArtifactAssumption
    <3>4. Of(work[c], call[c].t, h) /\ Of(backup[c], call[c].t, h)
      BY DEF Homes
    <3> QED  BY <3>1, <3>2, <3>3, <3>4
  <2>4. ASSUME NEW d \in Calls
        PROVE  Of(work[d], call[d].t, h)' /\ Of(backup[d], call[d].t, h)' /\ Of(disk[d], call[d].t, h)'
    <3>1. CASE d = c
      BY <1>1, <2>3, <3>1 DEF Of
    <3>2. CASE d # c
      <4>1. Of(work[d], call[d].t, h) /\ Of(backup[d], call[d].t, h) /\ Of(disk[d], call[d].t, h)
        BY DEF Homes
      <4> QED  BY <1>1, <1>2, <3>2, <4>1 DEF Of
    <3> QED  BY <3>1, <3>2
  <2> QED  BY <2>2, <2>4 DEF Homes
<1> QED  BY <1>3, <1>4, <1>5, <1>6

\* Templates and their images, in every state.
HomeInv == \E h \in Templates : Homes(h)
ArtifactInv == FileType /\ HomeInv /\ Alone /\ Booted /\ Unmarked /\ TemplateInv /\ ImageInv

\* A call that begins, a step, and what a guest writes keep them.
LEMMA ArtifactsKept ==
  ASSUME ArtifactAssumption, Control, RowType, NewInv, SandboxInv, ArtifactInv, [Next]_vars
  PROVE  ArtifactInv'
<1>1. PICK h \in Templates : Homes(h)
  BY DEF ArtifactInv, HomeInv
<1>2. FileType /\ Alone /\ Booted /\ Unmarked /\ TemplateInv /\ ImageInv /\ SharedPaths
  BY DEF ArtifactInv, ImageInv
<1>3. SUFFICES FileType' /\ Homes(h)' /\ Alone' /\ Booted' /\ Unmarked' /\ TemplateInv' /\ ImageInv'
  BY DEF ArtifactInv, HomeInv
<1>4. ASSUME \A d \in Calls : Alike(d),
             UNCHANGED <<rows, images, root, snap, img, data, work, backup, disk, last, mixed, spoilt>>
      PROVE  FileType' /\ Homes(h)' /\ Alone' /\ Booted' /\ Unmarked' /\ TemplateInv' /\ ImageInv'
  <2>1. FileType'
    BY <1>2, <1>4 DEF FileType, Alike
  <2>2. Homes(h)'
    BY <1>1, <1>4 DEF Homes, Of, Alike
  <2>3. SameCalls /\ \A d \in Calls : Doing(d)' = Doing(d) /\ (Active(d)' <=> Active(d))
    BY <1>4, AlikeGoes DEF SameCalls, Alike
  <2>4. Alone'
    BY <1>2, <1>4, <2>3, AloneKept
  <2>5. Booted'
    BY <1>2, <1>4, <2>3 DEF Booted
  <2> QED  BY <1>1, <1>2, <1>4, <2>1, <2>2, <2>4, <2>5, UnmarkedStill, TemplateStill, ImageStill
<1>5. ASSUME NEW c \in Calls, Step(c)
      PROVE  FileType' /\ Homes(h)' /\ Alone' /\ Booted' /\ Unmarked' /\ TemplateInv' /\ ImageInv'
  <2>1. Reaches(c, h) /\ FileType'
    BY <1>1, <1>2, <1>5, StepReaches
  <2>2. Active(c) /\ Moved(c)
    BY <1>5, Steps
  <2>3. SameCalls
    BY <1>5, <2>2, Details DEF Moved, SameCalls
  <2>4. Homes(h)'
    BY <1>1, <1>2, <2>1, <2>3, HomesKept
  <2>5. \A d \in Calls : Active(d)' => Active(d)
    BY <2>2 DEF Moved, Active
  <2>6. Alone'
    BY <1>2, <2>1, <2>3, <2>5, AloneKept DEF Reaches
  <2>7. Booted' /\ Unmarked'
    BY <1>1, <1>2, <1>5, BootedStep, UnmarkedStep DEF SharedPaths
  <2> QED  BY <1>1, <1>2, <1>5, <2>1, <2>4, <2>6, <2>7, TemplateStep, ImageStep
<1>6. ASSUME NEW c \in Calls, GuestWrites(c)
      PROVE  FileType' /\ Homes(h)' /\ Alone' /\ Booted' /\ Unmarked' /\ TemplateInv' /\ ImageInv'
  <2>1. Reaches(c, h) /\ FileType'
    BY <1>1, <1>2, <1>6, GuestReaches
  <2>2. UNCHANGED <<call, disk, mixed>>
    BY <1>6 DEF GuestWrites, host, history
  <2>3. SameCalls /\ \A d \in Calls : Doing(d)' = Doing(d) /\ (Active(d)' <=> Active(d))
    BY <2>2 DEF SameCalls, Doing, Active
  <2>4. Homes(h)' /\ Alone'
    BY <1>1, <1>2, <2>1, <2>2, <2>3, HomesKept, AloneKept
  <2>5. Booted'
    BY <1>2, <2>2, <2>3 DEF Booted
  <2> QED  BY <1>1, <1>2, <1>6, <2>1, <2>4, <2>5, UnmarkedGuest, TemplateGuest, ImageGuest
<1>7. ASSUME NEW c \in Calls, Request(c)
      PROVE  FileType' /\ Homes(h)' /\ Alone' /\ Booted' /\ Unmarked' /\ TemplateInv' /\ ImageInv'
  BY <1>1, <1>2, <1>7, RequestKeeps, UnmarkedRequest, TemplateRequest, ImageRequest
<1>8. CASE UNCHANGED vars
  BY <1>4, <1>8 DEF vars, store, files, host, history, Alike
<1> QED  BY <1>5, <1>6, <1>7, <1>8 DEF Next, Request

\* At first there is at most one template, with what an earlier build has left.
LEMMA ArtifactsFirst ==
  ASSUME ArtifactAssumption, Init
  PROVE  ArtifactInv
<1>1. PICK t0 \in Templates, there \in Kinds \cup {"none"}, made \in BOOLEAN :
        /\ there = "none" => ~made
        /\ rows = [t \in Templates |-> IF t = t0 THEN there ELSE "none"]
        /\ root = [p \in Paths |-> IF made /\ p = <<t0, there>> THEN Earlier ELSE NoFile]
        /\ snap = [t \in Templates |-> IF made /\ t = t0 /\ there = "vm" THEN Old ELSE {}]
        /\ last = [t \in Templates |-> IF made /\ t = t0 THEN Earlier ELSE NoFile]
  BY DEF Init
<1>2. /\ images = [i \in Images |-> [st |-> "none"]] /\ img = [i \in Images |-> {}]
      /\ data = [f \in Files |-> IF f = Earlier THEN Old ELSE {}]
      /\ work = [c \in Calls |-> NoFile] /\ backup = [c \in Calls |-> NoFile] /\ disk = [c \in Calls |-> NoFile]
      /\ call = [c \in Calls |-> Idle]
  BY DEF Init
<1>3. \A c \in Calls : /\ call[c].op = "idle" /\ call[c].t = "none" /\ call[c].mem = {} /\ call[c].todo = << >>
                       /\ Doing(c) = "rest" /\ ~Active(c)
  BY <1>2, FailKinds DEF Idle, Doing, Active
<1>4. \A f : ~Exported(f)
  BY <1>3 DEF Exported
<1>5. FileType
  BY <1>1, <1>2, <1>3 DEF FileType
<1>6. Homes(t0)
  <2>1. \A p \in Paths : Of(root[p], p[1], t0)
    BY <1>1 DEF Of
  <2> QED  BY <1>2, <2>1 DEF Homes, Of
<1>7. Alone /\ Booted
  BY <1>3 DEF Alone, Booted
<1>8. Unmarked
  <2> SUFFICES ASSUME NEW c \in Calls PROVE disk[c] = NoFile /\ NoMark(<<c, "run">>)
    BY DEF Unmarked
  <2>1. <<c, "run">> \notin Old
    BY DEF Old
  <2> QED  BY <1>1, <1>2, <1>3, <2>1 DEF NoMark
<1>9. TemplateInv
  <2>1. ASSUME NEW t \in Templates PROVE Fine(t)
    <3>1. \A k \in Kinds : ~Exported(root[<<t, k>>])
      BY <1>4
    <3>2. rows[t] = "none" => last[t] = NoFile
      BY <1>1
    <3>3. ASSUME last[t] # NoFile PROVE Kept(t, root[<<t, rows[t]>>])
      <4>1. made /\ t = t0 /\ rows[t] = there /\ there \in Kinds /\ last[t] = Earlier
        BY <1>1, <3>3
      <4>2. root[<<t, there>>] = Earlier /\ Earlier # NoFile
        BY <1>1, <4>1 DEF Paths, ArtifactAssumption
      <4>3. data[Earlier] = Old /\ {<<Earlier, "init">>, <<Earlier, "cmds">>} \subseteq Old
        BY <1>2 DEF Files, Old
      <4>4. there = "vm" => snap[t] = Old
        BY <1>1, <4>1
      <4> QED  BY <1>4, <4>1, <4>2, <4>3, <4>4 DEF Kept
    <3> QED  BY <3>1, <3>2, <3>3 DEF Fine, Kept
  <2> QED  BY <1>3, <2>1 DEF TemplateInv
<1>10. ImageInv
  BY <1>2, <1>3 DEF ImageInv, SharedPaths, ImageFacts, Recorded
<1> QED  BY <1>5, <1>6, <1>7, <1>8, <1>9, <1>10 DEF ArtifactInv, HomeInv

\* What holds of templates and images in every state, for any number of calls.
THEOREM ArtifactsCoherent == Spec => []ArtifactInv
<1>1. Init => ArtifactInv
  BY ArtifactsFirst, ArtifactAssumption
<1>2. (Control /\ RowType /\ RowInv /\ SandboxInv) /\ ArtifactInv /\ [Next]_vars => ArtifactInv'
  BY ArtifactsKept, ArtifactAssumption DEF RowInv
<1> QED  BY ArtifactsSafe, <1>1, <1>2, PTL DEF Spec

\* Builds, exports, deletions and their failures leave a template with the rootfs of its
\* last build and the snapshot taken of it; but not one that two calls used at a time, that
\* an export lost the rootfs of (a rename failed), or on which a VM not killed writes on.
THEOREM TemplatesAreCoherent == Spec => []TemplateCoherent
<1>1. Control /\ ArtifactInv => TemplateCoherent
  <2> SUFFICES ASSUME Control, ArtifactInv, NEW t \in Templates \ Doubtful, rows[t] # "none", last[t] # NoFile, Quiet(t)
               PROVE  /\ root[<<t, rows[t]>>] # NoFile
                      /\ {<<last[t], "init">>, <<last[t], "cmds">>} \subseteq Content(<<t, rows[t]>>)
                      /\ rows[t] = "vm" => snap[t] = Content(<<t, rows[t]>>)
    BY DEF TemplateCoherent, Sound
  <2>1. \A c \in Calls : call[c].t = t => ~Disturbs(c)
    <3> SUFFICES ASSUME NEW c \in Calls, call[c].t = t, Disturbs(c) PROVE FALSE
      OBVIOUS
    <3>1. Active(c)
      BY Names DEF Control, Disturbs, AwaySteps
    <3>2. t \in Changes(call[c])
      BY DEF Disturbs, Changes
    <3> QED  BY <3>1, <3>2 DEF Quiet
  <2>2. Fine(t)
    BY <2>1 DEF ArtifactInv, TemplateInv
  <2> QED  BY <2>2 DEF Fine, Kept, Content
<1> QED  BY ArtifactsSafe, ArtifactsCoherent, <1>1, PTL

\* An image that an export has made is the disk of its halted build sandbox, which the
\* sandbox has grown from the rootfs that the memory it was resumed with belongs to.
THEOREM ImagesAreFaithful == Spec => []ImageFaithful
<1>1. Control /\ ArtifactInv => ImageFaithful
  <2> SUFFICES ASSUME Control, ArtifactInv, NEW i \in Images \ mixed, images[i].st = "own", images[i].at[2] = "vm",
                      NEW c, c = images[i].by, call[c].t \notin Doubtful
               PROVE  /\ img[i] = data[c] /\ disk[c] = NoFile
                      /\ call[c].seen = "built" => data[c] \ {<<c, "run">>} = call[c].mem
    BY DEF ImageFaithful
  <2>1. c \in Calls /\ call[c].op = "export" /\ call[c].kind = "vm" /\ call[c].ok /\ img[i] = data[c]
    BY DEF ArtifactInv, ImageInv, Recorded
  <2>2. call[c].t \in Templates \ Doubtful
    BY <2>1 DEF Control, CallInv
  <2>3. CopyFacts(c)
    BY <2>1, <2>2 DEF ArtifactInv, TemplateInv
  <2> QED  BY <2>1, <2>3 DEF CopyFacts
<1> QED  BY ArtifactsSafe, ArtifactsCoherent, <1>1, PTL

=============================================================================
