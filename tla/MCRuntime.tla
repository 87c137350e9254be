------------------------------ MODULE MCRuntime ------------------------------
(***************************************************************************)
(* The parts of the runtime that do not interact, checked in one run: a    *)
(* behaviour is a behaviour of one of the components, chosen at the start, *)
(* with the others left at one initial state.                              *)
(***************************************************************************)
EXTENDS RunProcess, ChildProcs, MCNetLink, Inflate, TestRun, Profiler, HttpMessage, KodHeap

VARIABLE which

Components == {"run", "proc", "net", "inflate", "test", "prof", "message", "heap"}

Whole(n) == [n |-> n, how |-> "whole"]
Endings == [n : {0, 1, 3}, how : {"whole", "cut", "bad"}]
MCInputs ==
  {<<>>, <<Whole(1), Whole(1), Whole(1)>>, <<[n |-> 1, how |-> "bad"], Whole(1)>>}
  \cup {<<m>> : m \in Endings} \cup {<<Whole(n), m>> : n \in 0..2, m \in Endings}

Other == <<"other">>
Length(n) == <<"length", n>>
Coding(c) == <<"coding", c>>
Message(method, interims, number, heads, sizes, tail) ==
  [method |-> method, interim |-> interims, code |-> number, fields |-> heads,
   chunks |-> sizes, spill |-> 0, trailers |-> tail]
Get(heads, sizes, tail) == Message("GET", 0, 200, heads, sizes, tail)
Nothing == Get(<<Length(0)>>, <<>>, <<>>)

\* Each way a response is framed, within the limits and past each of them.
MCMessages ==
  {Nothing, Message("GET", 0, 700, <<Length(1)>>, <<1>>, <<>>),
   [Get(<<Coding("chunked")>>, <<1>>, <<>>) EXCEPT !.spill = 1],
   Get(<<Length(2), Length(2)>>, <<2>>, <<>>), Get(<<Length(2), Length(1)>>, <<2>>, <<>>),
   Get(<<Length(4)>>, <<4>>, <<>>), Get(<<Coding("gzip")>>, <<1>>, <<>>),
   Get(<<Coding("chunked")>>, <<1, 2>>, <<Other>>), Get(<<Coding("chunked")>>, <<2, 2>>, <<>>),
   Get(<<Coding("chunked")>>, <<1>>, <<<<"malformed">>>>),
   Get(<<Length(3), Coding("chunked")>>, <<1>>, <<>>),
   Get(<<>>, <<2>>, <<>>), Get(<<>>, <<3, 2>>, <<>>),
   Get(<<Other, Other, Other, Length(1)>>, <<1>>, <<>>),
   Get(<<Other, Coding("chunked")>>, <<1>>, <<Other>>), Get(<<<<"malformed">>, Length(1)>>, <<1>>, <<>>),
   Message("HEAD", 0, 200, <<Length(2)>>, <<>>, <<>>), Message("GET", 0, 204, <<Length(1)>>, <<>>, <<>>),
   Message("GET", 1, 200, <<Length(1)>>, <<1>>, <<>>), Message("GET", 2, 200, <<Length(1)>>, <<1>>, <<>>)}

MCInit ==
  /\ which \in Components
  /\ RunInit /\ (which # "run" => script = <<>>)
  /\ ProcInit /\ NetInit
  /\ InflateInit /\ (which # "inflate" => input = <<>> /\ mode = 0 /\ limit = 0)
  /\ TestInit /\ (which # "test" => tests = 0)
  /\ ProfInit /\ (which # "prof" => counter = 1)
  /\ MessageInit /\ (which # "message" => message = Nothing /\ cut = 0)
  /\ Init

RunStep == which = "run" /\ RunNext /\ UNCHANGED <<procVars, netVars, inflateVars, testVars, profVars, messageVars, vars>>
ProcStep == which = "proc" /\ ProcNext /\ UNCHANGED <<runVars, netVars, inflateVars, testVars, profVars, messageVars, vars>>
NetStep == which = "net" /\ NetNext /\ UNCHANGED <<runVars, procVars, inflateVars, testVars, profVars, messageVars, vars>>
InflateStep == which = "inflate" /\ InflateNext /\ UNCHANGED <<runVars, procVars, netVars, testVars, profVars, messageVars, vars>>
TestStep == which = "test" /\ TestNext /\ UNCHANGED <<runVars, procVars, netVars, inflateVars, profVars, messageVars, vars>>
ProfStep == which = "prof" /\ ProfNext /\ UNCHANGED <<runVars, procVars, netVars, inflateVars, testVars, messageVars, vars>>
MessageStep ==
  /\ which = "message" /\ MessageNext
  /\ UNCHANGED <<runVars, procVars, netVars, inflateVars, testVars, profVars, vars>>
HeapStep ==
  /\ which = "heap" /\ Next
  /\ UNCHANGED <<runVars, procVars, netVars, inflateVars, testVars, profVars, messageVars>>

MCNext ==
  /\ RunStep \/ ProcStep \/ NetStep \/ InflateStep \/ TestStep \/ ProfStep \/ MessageStep
     \/ HeapStep
  /\ UNCHANGED which

\* Each component's own fairness, when it is the one that runs.
MCFairSpec ==
  /\ MCInit /\ [][MCNext]_<<which, runVars, procVars, netVars, inflateVars, testVars, profVars, messageVars, vars>>
  /\ WF_runVars(which = "run" /\ Parent) /\ WF_runVars(which = "run" /\ Child)
  /\ WF_procVars(which = "proc" /\ WaitReturns) /\ WF_procVars(which = "proc" /\ ChildDies)
  /\ WF_netVars(which = "net" /\ NetProgress)
  /\ WF_inflateVars(which = "inflate" /\ InflateNext)

\* kod_run_process returns (RunProcess!Returns), when that is what runs.
RunReturns == which = "run" => Returns

\* kod_inflate returns (Inflate!InflateEnds), when that is what runs.
InflateReturns == which = "inflate" => InflateEnds

\* Every call that waits for somebody else comes to an end: kod_run_process,
\* kod_kill, a handshake or a read with a (nonzero) timeout, and the loop around zlib.
CallsReturn == RunReturns /\ KillReturns /\ NetReturns /\ InflateReturns
=============================================================================
