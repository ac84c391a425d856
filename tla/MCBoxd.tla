------------------------------- MODULE MCBoxd -------------------------------
(***************************************************************************)
(* boxd for TLC: its process goroutines and its wire codec.  The two share *)
(* no state, so a behaviour exercises one or the other: the codec's calls  *)
(* come while no process has been started.                                 *)
(***************************************************************************)
EXTENDS BoxdProcesses, ConnectCodec

CONSTANTS p1, c1, c2

Bytes      == {9, 10, 97}
Texts      == {<<a>> : a \in Bytes} \cup {<<97, b>> : b \in Bytes}
LongText   == [i \in 1..130 |-> 97]
Selectors  == [pid : {0, 10, 300}, tag : {<< >>, <<97>>}] \ {[pid |-> 0, tag |-> << >>]}
Optionals(S) == {<< >>} \cup {<<v>> : v \in S}
Sizes      == {<< >>, <<[size |-> << >>]>>, <<[size |-> <<[cols |-> 80, rows |-> 10]>>]>>}
Configs    == [cmd : Texts \cup {LongText}, args : {<< >>, << <<97>>, <<10>> >>},
               envs : {<< >>, << << <<97>>, <<32>> >> >>}, cwd : Optionals({<<97>>})]
Request(type, reqs) == [type : {type}, req : reqs, enveloped : {FALSE}]

MCRequests ==
       Request("start", [process : {<<c>> : c \in Configs}, pty : Sizes, tag : Optionals({<<9>>}),
                         stdin : Optionals(BOOLEAN)])
  \cup Request("connect", [process : {<<s>> : s \in Selectors}])
  \cup Request("update", [process : {<<s>> : s \in Selectors}, pty : Sizes])
  \cup Request("input", [process : {<<s>> : s \in Selectors},
                         input : {<<i>> : i \in [stdin : Texts, pty : {<< >>}] \cup [stdin : {<< >>}, pty : Texts]}])
  \cup Request("signal", [process : {<<s>> : s \in Selectors}, signal : {9, 10, 15}])

MCEvents ==
       [type : {"start"}, pid : {1, 300}]
  \cup [type : {"data"}, stream : {"out", "err", "pty"}, data : Texts \cup {LongText}]
  \cup [type : {"end"}, exitCode : {-1, 0, 1, 137}, exited : BOOLEAN, status : {<< >>, <<97>>},
        error : Optionals({<<10>>})]
  \cup [type : {"keepalive"}]

MCInit == Init /\ CodecInit
\* Two connections are interchangeable until they begin, and so are the two
\* pipes until the first chunk: c1 begins first, and writing begins on stdout.
InTurn ==
  /\ c2 \in Clients /\ conn'[c2].st # "idle" => conn'[c1].st # "idle"
  /\ said'[p1] # << >> => said'[p1][1][1] # "err"

MCNext ==
  \/ stage = "idle" /\ Next /\ InTurn /\ UNCHANGED codec
  \/ (\A p \in Procs : child[p].st = "none") /\ reexecs = 0 /\ CodecNext /\ UNCHANGED vars
MCSpec == MCInit /\ [][MCNext]_<<vars, codec>> /\ Fairness
=============================================================================
