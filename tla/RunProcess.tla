----------------------------- MODULE RunProcess -----------------------------
(***************************************************************************)
(* kod_run_process (stdlib/runtime.c), behind process.run: spawn a child   *)
(* with its stdout and stderr on two pipes, drain both with poll, reap the *)
(* child and return {status, stdout, stderr}.                              *)
(*                                                                         *)
(* Parent and child run concurrently; a pipe holds at most PipeCap chunks, and *)
(* a child writing to a full pipe blocks.  The child is any program: its   *)
(* output is any interleaving of at most MaxChunks writes to the streams.  *)
(* MaxSignals is how many handled signals (the profiler's SIGPROF) may     *)
(* interrupt the parent in poll, which SA_RESTART does not resume.         *)
(***************************************************************************)
EXTENDS Integers, Sequences, FiniteSets

CONSTANTS PipeCap, MaxChunks, MaxSignals

ASSUME RunConstants ==
  PipeCap \in Nat \ {0} /\ MaxChunks \in Nat /\ MaxSignals \in Nat

Stream == {1, 2}                       \* 1 = stdout, 2 = stderr; pfds[i - 1]
ReadEnd == {<<i, "r">> : i \in Stream}
WriteEnd == {<<i, "w">> : i \in Stream}

VARIABLES
  pc,         \* the parent's place in kod_run_process
  fds,        \* pipe ends the parent has open
  polled,     \* pfds[i].fd >= 0
  revents,    \* streams poll reported and the scan has not reached
  captured,   \* out_buf, err_buf
  status,     \* result->status, 99 before it is set
  signals,    \* interruptions so far
  pipe,       \* per stream, chunks in the pipe
  script,     \* the streams the child has yet to write to, in order
  child,      \* "none", "running", "zombie" or "reaped"
  exit,       \* the child's exit status (-1: killed by a signal)
  written     \* per stream, everything the child wrote

parentVars == <<pc, fds, polled, revents, captured, status, signals>>
childVars == <<script, child, exit, written>>
runVars == <<parentVars, pipe, childVars>>

None == [i \in Stream |-> <<>>]

RunInit ==
  /\ pc = "start" /\ fds = {} /\ polled = {} /\ revents = {}
  /\ captured = None /\ status = 99 /\ signals = 0
  /\ script \in UNION {[1..n -> Stream] : n \in 0..MaxChunks}
  /\ pipe = None /\ child = "none" /\ exit = 99 /\ written = None

-----------------------------------------------------------------------------
(* The parent.                                                               *)

\* A failure to set up returns -1 with empty buffers.
GiveUp == pc' = "done" /\ status' = -1 /\ UNCHANGED <<polled, revents, captured>>

\* pipe(out_pipe), then pipe(err_pipe); when the second fails the first stays open.
OpenPipes ==
  /\ pc = "start"
  /\ \/ fds' = ReadEnd \cup WriteEnd /\ pc' = "spawn"
        /\ UNCHANGED <<polled, revents, captured, status>>
     \/ fds' = {} /\ GiveUp
     \/ fds' = {<<1, "r">>, <<1, "w">>} /\ GiveUp
  /\ UNCHANGED <<signals, pipe, childVars>>

\* posix_spawnp; either way the parent's write ends are closed.
SpawnChild ==
  /\ pc = "spawn"
  /\ fds' = ReadEnd /\ polled' = Stream /\ pc' = "poll" /\ child' = "running"
  /\ UNCHANGED <<revents, captured, status, signals, pipe, script, exit, written>>

\* Mutant: the read ends stay open.
StartFails_leaks ==
  /\ pc = "spawn"
  /\ fds' = ReadEnd /\ GiveUp
  /\ UNCHANGED <<signals, pipe, childVars>>

StartFails ==
  /\ pc = "spawn"
  /\ fds' = {} /\ GiveUp
  /\ UNCHANGED <<signals, pipe, childVars>>

\* Mutant: stdout is drained to its end before stderr is looked at.
Ready_in_order(i) ==
  /\ i \in polled /\ (pipe[i] # <<>> \/ child # "running")
  /\ i = 2 => 1 \notin polled

\* A stream poll reports: data, or every write end closed.
Ready(i) == i \in polled /\ (pipe[i] # <<>> \/ child # "running")

Poll ==
  /\ pc = "poll" /\ polled # {}
  /\ \E i \in Stream : Ready(i)
  /\ revents' = {i \in Stream : Ready(i)}
  /\ pc' = "scan"
  /\ UNCHANGED <<fds, polled, captured, status, signals, pipe, childVars>>

\* poll returns -1 with EINTR: the loop ends there.
PollInterrupted ==
  /\ pc = "poll" /\ polled # {}
  /\ signals < MaxSignals
  /\ signals' = signals + 1
  /\ pc' = "wait"
  /\ UNCHANGED <<fds, polled, revents, captured, status, pipe, childVars>>

append_to_buf(i, data) == captured' = [captured EXCEPT ![i] = @ \o data]

\* One round of the scan: read some of what is there, or the end of file.
ScanRead ==
  /\ pc = "scan" /\ revents # {}
  /\ LET i == CHOOSE s \in revents : \A t \in revents : s <= t
     IN  /\ revents' = revents \ {i}
         /\ \/ \E n \in 1..Len(pipe[i]) :
                 /\ append_to_buf(i, SubSeq(pipe[i], 1, n))
                 /\ pipe' = [pipe EXCEPT ![i] = SubSeq(@, n + 1, Len(@))]
                 /\ UNCHANGED <<fds, polled>>
            \/ /\ pipe[i] = <<>>
               /\ fds' = fds \ {<<i, "r">>} /\ polled' = polled \ {i}
               /\ UNCHANGED <<captured, pipe>>
  /\ UNCHANGED <<pc, status, signals, childVars>>

\* Mutant: the first end of file ends the loop.
ScanDone_first_eof ==
  /\ pc = "scan" /\ revents = {}
  /\ pc' = IF polled # Stream THEN "wait" ELSE "poll"
  /\ UNCHANGED <<fds, polled, revents, captured, status, signals, pipe, childVars>>

ScanDone ==
  /\ pc = "scan" /\ revents = {}
  /\ pc' = IF polled = {} THEN "wait" ELSE "poll"
  /\ UNCHANGED <<fds, polled, revents, captured, status, signals, pipe, childVars>>

\* waitpid, then the result.
Reap ==
  /\ pc = "wait" /\ child = "zombie"
  /\ child' = "reaped" /\ status' = exit /\ pc' = "done"
  /\ UNCHANGED <<fds, polled, revents, captured, signals, pipe, script, exit, written>>

Parent == OpenPipes \/ SpawnChild \/ StartFails \/ Poll \/ ScanRead \/ ScanDone \/ Reap

-----------------------------------------------------------------------------
(* The child.                                                                *)

\* The next write, blocked while its pipe is full.
ChildWrites ==
  /\ child = "running" /\ script # <<>>
  /\ LET i == Head(script)
         chunk == Len(written[i]) + 1
     IN  /\ <<i, "r">> \in fds /\ Len(pipe[i]) < PipeCap
         /\ pipe' = [pipe EXCEPT ![i] = Append(@, chunk)]
         /\ written' = [written EXCEPT ![i] = Append(@, chunk)]
  /\ script' = Tail(script)
  /\ UNCHANGED <<parentVars, child, exit>>

ChildEnds ==
  /\ child = "running" /\ script = <<>>
  /\ \E code \in {0, 1} : exit' = code
  /\ child' = "zombie"
  /\ UNCHANGED <<parentVars, pipe, script, written>>

\* A signal from elsewhere ends the child early.
ChildKilled ==
  /\ child = "running"
  /\ exit' = -1 /\ child' = "zombie"
  /\ UNCHANGED <<parentVars, pipe, script, written>>

Child == ChildWrites \/ ChildEnds

RunReturned == pc = "done" /\ child \in {"none", "reaped"} /\ UNCHANGED runVars

RunNext == Parent \/ PollInterrupted \/ Child \/ ChildKilled \/ RunReturned

RunSpec == RunInit /\ [][RunNext]_runVars

\* Parent and child are processes the kernel schedules; neither is starved.
\* No signal need arrive.
RunFairSpec == RunSpec /\ WF_runVars(Parent) /\ WF_runVars(Child)

-----------------------------------------------------------------------------
(* Properties.                                                               *)


\* What is captured is what the child wrote, in order, less what is still in
\* the pipe: nothing is lost, duplicated or crossed between the streams.
NothingLost ==
  \A i \in Stream : captured[i] \o pipe[i] = written[i] /\ Len(pipe[i]) <= PipeCap

\* Nothing is lost on the way, and the call returns with the child reaped and its
\* status, interrupted or not; a run that was not interrupted returns everything
\* the child wrote and leaves no pipe end open.
ResultComplete ==
  /\ NothingLost
  /\ pc = "done" /\ child # "none" =>
       /\ child = "reaped" /\ status = exit
       /\ signals = 0 => captured = written /\ fds = {}

\* When the child could not be started the result is -1 and empty; no child is
\* left behind, and no descriptor unless the second pipe() failed after the
\* first (that pair stays open).
FailedStartIsClean ==
  pc = "done" /\ child = "none" =>
    /\ status = -1 /\ captured = None
    /\ fds \in {{}, {<<1, "r">>, <<1, "w">>}}

\* Unless a signal interrupts the poll the call returns, however the child
\* orders its writes to the two pipes.
Returns == [](signals = 0) => <>(pc = "done")

\* process.kod: both streams are captured "concurrently, so neither pipe
\* deadlocks".  Interrupted or not, the call returns.
NeverDeadlocks == <>(pc = "done")
=============================================================================
