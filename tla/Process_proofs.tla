---------------------------- MODULE Process_proofs ----------------------------
(***************************************************************************)
(* The safety properties of the two ways to run a subprocess, for pipes of *)
(* any size, any output, any number of interruptions, and any set of       *)
(* process ids.                                                            *)
(***************************************************************************)
EXTENDS RunProcess, ChildProcs, SequenceTheorems, FiniteSetTheorems, TLAPS

-----------------------------------------------------------------------------
(* kod_spawn and kod_kill.                                                   *)

(* While kod_kill waits for a child, its id stays the child's: only the wait *)
(* itself gives the id back, so no unrelated process can take it.            *)
HeldWhileWaiting ==
  waiting # 0 /\ target \in OurChild => proc[waiting] \in OurChild

ProcInv ==
  /\ proc \in [Pid -> OurChild \cup {"free", "other", "foreign"}]
  /\ waiting \in Pid \cup {0}
  /\ waiting # 0 => hit = {waiting}
  /\ waiting = 0 => hit = {} \/ \E p \in Pid : hit = {p}
  /\ answer = "false" /\ waiting = 0 => hit = {}
  /\ HeldWhileWaiting

\* A signal that is sent reaches exactly the named process, and that is a child
\* of the program or another process of the same user.
LEMMA ReachedIsNamed ==
  ASSUME NEW pid \in Pid \cup {0, -1}, ~Refused(pid)
  PROVE  pid \in Pid /\ pid # 0 /\ Reached(pid) = {pid}
         /\ proc[pid] \in OurChild \cup {"other"}
<1>1. pid \in Int /\ pid > 0 /\ pid # 0 /\ pid \in Pid
  BY PidsPositive DEF Refused
<1>2. Reached(pid) # {} /\ Reached(pid) = {p \in Pid \cap {pid} : proc[p] \in OurChild \cup {"other"}}
  BY <1>1 DEF Refused, Reached
<1> QED
  BY <1>1, <1>2

\* kod_spawn and kod_kill start with nothing signalled.
LEMMA ProcStarts == ProcInit => ProcInv
  BY DEF ProcInit, ProcInv, HeldWhileWaiting

\* Every step of the program and of the machine keeps it.
LEMMA ProcKeeps == ProcInv /\ [ProcNext]_procVars => ProcInv'
<1> SUFFICES ASSUME ProcInv, [ProcNext]_procVars PROVE ProcInv'
  OBVIOUS
<1> USE PidsPositive
<1>1. CASE SpawnOk
  BY <1>1 DEF ProcInv, HeldWhileWaiting, SpawnOk, OurChild, Alive
<1>2. CASE SpawnFails
  BY <1>2 DEF ProcInv, HeldWhileWaiting, SpawnFails
<1>3. ASSUME NEW pid \in Pid \cup {0, -1}, KillRefused(pid) PROVE ProcInv'
  BY <1>3 DEF ProcInv, HeldWhileWaiting, KillRefused
<1>4. ASSUME NEW pid \in Pid \cup {0, -1}, KillSends(pid) PROVE ProcInv'
  <2>1. pid \in Pid /\ pid # 0 /\ Reached(pid) = {pid}
    BY <1>4, ReachedIsNamed DEF KillSends
  <2>2. waiting' = pid /\ hit' = {pid} /\ target' = proc[pid]
    BY <1>4, <2>1 DEF KillSends
  <2>3. proc' = [p \in Pid |-> IF p = pid /\ proc[p] = "child" THEN "dying" ELSE proc[p]]
    BY <1>4, <2>1 DEF KillSends
  <2> QED
    BY <2>1, <2>2, <2>3 DEF ProcInv, HeldWhileWaiting, OurChild, Alive
<1>5. CASE WaitReturns
  BY <1>5 DEF ProcInv, HeldWhileWaiting, WaitReturns, OurChild, Alive
<1>6. CASE ChildDies
  BY <1>6 DEF ProcInv, HeldWhileWaiting, ChildDies, OurChild, Alive
<1>7. CASE ChildExits
  BY <1>7 DEF ProcInv, HeldWhileWaiting, ChildExits, OurChild, Alive
<1>8. CASE OthersChange
  BY <1>8 DEF ProcInv, HeldWhileWaiting, OthersChange, OurChild, Alive
<1>9. CASE UNCHANGED procVars
  BY <1>9 DEF ProcInv, HeldWhileWaiting, procVars
<1> QED
  BY <1>1, <1>2, <1>3, <1>4, <1>5, <1>6, <1>7, <1>8, <1>9 DEF ProcNext

\* ProcInv holds in every state.
LEMMA ProcInvariance == ProcSpec => []ProcInv
  BY ProcStarts, ProcKeeps, PTL DEF ProcSpec

\* kod_kill signals at most the process it names, never a group and never every
\* process, and a kill that answers false has signalled nobody.
THEOREM KillHitsOnlyTheNamed == ProcSpec => []OnlyTheNamed
<1>1. ProcInv => OnlyTheNamed
  <2> SUFFICES ASSUME ProcInv PROVE OnlyTheNamed
    OBVIOUS
  <2>1. hit = {} \/ \E p : hit = {p}
    BY DEF ProcInv
  <2>2. Cardinality({}) = 0 /\ \A p : Cardinality({p}) = 1
    BY FS_EmptySet, FS_Singleton, Zenon
  <2>3. Cardinality(hit) = 0 \/ Cardinality(hit) = 1
    BY <2>1, <2>2, Zenon
  <2> QED
    BY <2>3 DEF ProcInv, OnlyTheNamed
<1> QED
  BY <1>1, ProcInvariance, PTL

\* kod_kill of a child returns with that child reaped and its id free, whatever
\* other processes start and end while it waits.
THEOREM KillLeavesNoChild == ProcSpec => KillReaps
<1>1. ProcInv /\ [ProcNext]_procVars =>
        [(waiting \in Pid) /\ waiting' = 0 /\ target \in OurChild => proc'[waiting] = "free"]_procVars
  <2> SUFFICES ASSUME ProcInv, ProcNext, waiting \in Pid, waiting' = 0, target \in OurChild
               PROVE  proc'[waiting] = "free"
    OBVIOUS
  <2>1. waiting # 0
    BY PidsPositive
  <2>2. WaitReturns
    BY <2>1 DEF ProcNext, SpawnOk, SpawnFails, KillRefused, KillSends, ChildDies, ChildExits, OthersChange
  <2>3. proc[waiting] = "zombie"
    BY <2>1, <2>2 DEF ProcInv, HeldWhileWaiting, WaitReturns, OurChild
  <2> QED
    BY <2>2, <2>3 DEF WaitReturns, ProcInv
<1> QED
  BY <1>1, ProcInvariance, PTL DEF ProcSpec, KillReaps

-----------------------------------------------------------------------------
(* kod_run_process.                                                          *)

RunType ==
  /\ pc \in {"start", "spawn", "poll", "scan", "wait", "done"}
  /\ polled \subseteq Stream /\ revents \subseteq polled
  /\ captured \in [Stream -> Seq(Nat)] /\ pipe \in [Stream -> Seq(Nat)]
  /\ written \in [Stream -> Seq(Nat)] /\ script \in Seq(Stream)
  /\ child \in {"none", "running", "zombie", "reaped"} /\ signals \in Nat

(* Where the parent is says what has become of the child, and once there is  *)
(* a child the parent's open ends are those of the streams it still polls.   *)
ParentKnows ==
  /\ pc \in {"start", "spawn"} => child = "none" /\ revents = {}
  /\ pc \in {"poll", "scan", "wait"} => child \in {"running", "zombie"}
  /\ child = "none" => captured = None
  /\ child # "none" => fds = {<<i, "r">> : i \in polled}
  /\ pc = "done" /\ child # "none" => child = "reaped" /\ status = exit

(* A stream is dropped at its end only: nothing is left in its pipe and the  *)
(* child that could write more is gone.  What poll reported stays true until *)
(* the scan gets there, and only an interruption ends the loop early.        *)
DroppedAtEnd ==
  /\ \A i \in revents : pipe[i] # <<>> \/ child # "running"
  /\ child # "none" => \A i \in Stream \ polled : pipe[i] = <<>> /\ child # "running"
  /\ pc \in {"wait", "done"} /\ child # "none" /\ signals = 0 => polled = {}

RunInv == RunType /\ NothingLost /\ ParentKnows /\ DroppedAtEnd /\ FailedStartIsClean

\* kod_run_process starts with no child, no pipe and empty buffers.
LEMMA RunStarts == RunInit => RunInv
<1> SUFFICES ASSUME RunInit PROVE RunInv
  OBVIOUS
<1>1. script \in Seq(Stream)
  BY RunConstants DEF RunInit
<1>2. None \in [Stream -> Seq(Nat)] /\ \A i \in Stream : None[i] = <<>>
  BY DEF None
<1>3. NothingLost
  BY <1>2, RunConstants DEF RunInit, NothingLost
<1> QED
  BY <1>1, <1>2, <1>3 DEF RunInit, RunInv, RunType, ParentKnows, DroppedAtEnd, FailedStartIsClean

\* The stream the scan turns to is one that poll reported.
LEMMA ScanPicks ==
  ASSUME RunType, revents # {}
  PROVE  (CHOOSE s \in revents : \A t \in revents : s <= t) \in revents
<1>1. 1 \in revents \/ revents = {2}
  BY DEF RunType, Stream
<1>2. revents \subseteq {1, 2} /\ 1 <= 1 /\ 1 <= 2 /\ 2 <= 2
  BY DEF RunType, Stream
<1>3. \E s \in revents : \A t \in revents : s <= t
  BY <1>1, <1>2, Zenon
<1> QED
  BY <1>3

\* Concatenation associates.
LEMMA Associates ==
  ASSUME NEW c \in Seq(Nat), NEW s \in Seq(Nat), NEW t \in Seq(Nat)
  PROVE  (c \o s) \o t = c \o (s \o t)
  OBVIOUS

\* Moving the first n chunks of a pipe to the buffer loses and reorders nothing.
LEMMA MoveKeeps ==
  ASSUME NEW c \in Seq(Nat), NEW p \in Seq(Nat), NEW n \in 1..Len(p)
  PROVE  /\ SubSeq(p, 1, n) \in Seq(Nat) /\ SubSeq(p, n + 1, Len(p)) \in Seq(Nat)
         /\ c \o SubSeq(p, 1, n) \in Seq(Nat)
         /\ (c \o SubSeq(p, 1, n)) \o SubSeq(p, n + 1, Len(p)) = c \o p
         /\ Len(SubSeq(p, n + 1, Len(p))) <= Len(p)
<1>1. Len(p) \in Nat /\ n \in Nat /\ n <= Len(p) /\ \A j \in 1..Len(p) : p[j] \in Nat
  OBVIOUS
<1>2. SubSeq(p, 1, n) \in Seq(Nat) /\ SubSeq(p, n + 1, Len(p)) \in Seq(Nat)
      /\ Len(SubSeq(p, n + 1, Len(p))) <= Len(p)
  BY <1>1
<1>3. SubSeq(p, 1, n) \o SubSeq(p, n + 1, Len(p)) = p
  BY <1>1
<1>4. (c \o SubSeq(p, 1, n)) \o SubSeq(p, n + 1, Len(p)) = c \o (SubSeq(p, 1, n) \o SubSeq(p, n + 1, Len(p)))
  <2> DEFINE s == SubSeq(p, 1, n)
             t == SubSeq(p, n + 1, Len(p))
  <2>1. s \in Seq(Nat) /\ t \in Seq(Nat)
    BY <1>2
  <2> HIDE DEF s, t
  <2>2. (c \o s) \o t = c \o (s \o t)
    BY <2>1, Associates
  <2> QED
    BY <2>2 DEF s, t
<1>5. c \o SubSeq(p, 1, n) \in Seq(Nat)
  BY <1>2
<1> QED
  BY <1>2, <1>3, <1>4, <1>5, Zenon

\* A chunk written goes to the end of what was written and not yet captured.
LEMMA WriteKeeps ==
  ASSUME NEW c \in Seq(Nat), NEW p \in Seq(Nat), NEW x \in Nat
  PROVE  /\ Append(p, x) \in Seq(Nat) /\ Len(Append(p, x)) = Len(p) + 1
         /\ c \o Append(p, x) = Append(c \o p, x)
  OBVIOUS

\* One round of the scan.
LEMMA ScanKeeps ==
  ASSUME RunInv, ScanRead
  PROVE  RunInv'
<1> DEFINE i == CHOOSE s \in revents : \A t \in revents : s <= t
<1>1. i \in revents /\ i \in polled /\ i \in Stream
  BY ScanPicks DEF RunInv, RunType, ScanRead
<1> HIDE DEF i
<1>2. /\ pc = "scan" /\ revents' = revents \ {i}
      /\ UNCHANGED <<pc, status, signals, script, child, exit, written>>
      /\ \/ \E n \in 1..Len(pipe[i]) :
                 /\ captured' = [captured EXCEPT ![i] = @ \o SubSeq(pipe[i], 1, n)]
                 /\ pipe' = [pipe EXCEPT ![i] = SubSeq(@, n + 1, Len(@))]
                 /\ UNCHANGED <<fds, polled>>
         \/ /\ pipe[i] = <<>>
            /\ fds' = fds \ {<<i, "r">>} /\ polled' = polled \ {i}
            /\ UNCHANGED <<captured, pipe>>
  BY DEF ScanRead, i, append_to_buf, childVars
<1>3. ASSUME NEW n \in 1..Len(pipe[i]),
             captured' = [captured EXCEPT ![i] = @ \o SubSeq(pipe[i], 1, n)],
             pipe' = [pipe EXCEPT ![i] = SubSeq(@, n + 1, Len(@))],
             UNCHANGED <<fds, polled>>
      PROVE  RunInv'
  <2>1. captured[i] \in Seq(Nat) /\ pipe[i] \in Seq(Nat)
    BY <1>1 DEF RunInv, RunType
  <2>2. /\ captured'[i] = captured[i] \o SubSeq(pipe[i], 1, n)
        /\ pipe'[i] = SubSeq(pipe[i], n + 1, Len(pipe[i]))
        /\ \A j \in Stream \ {i} : captured'[j] = captured[j] /\ pipe'[j] = pipe[j]
    BY <1>1, <1>3 DEF RunInv, RunType
  <2>3. /\ captured'[i] \in Seq(Nat) /\ pipe'[i] \in Seq(Nat)
        /\ captured'[i] \o pipe'[i] = captured[i] \o pipe[i]
        /\ Len(pipe'[i]) <= Len(pipe[i])
    <3> DEFINE p == pipe[i]
               c == captured[i]
    <3>1. /\ SubSeq(p, n + 1, Len(p)) \in Seq(Nat) /\ c \o SubSeq(p, 1, n) \in Seq(Nat)
          /\ (c \o SubSeq(p, 1, n)) \o SubSeq(p, n + 1, Len(p)) = c \o p
          /\ Len(SubSeq(p, n + 1, Len(p))) <= Len(p)
      BY <1>3, <2>1, MoveKeeps
    <3> QED
      BY <2>2, <3>1, Zenon
  <2>4. RunType'
    BY <1>1, <1>2, <1>3, <2>2, <2>3 DEF RunInv, RunType
  <2>5. NothingLost'
    <3> SUFFICES ASSUME NEW j \in Stream
                 PROVE  captured'[j] \o pipe'[j] = written'[j] /\ Len(pipe'[j]) <= PipeCap
      BY DEF NothingLost
    <3>1. CASE j = i
      <4>1. captured'[i] \o pipe'[i] = written'[i] /\ Len(pipe[i]) <= PipeCap
        BY <1>1, <1>2, <2>3, Zenon DEF RunInv, NothingLost
      <4>2. Len(pipe[i]) \in Nat /\ Len(pipe'[i]) \in Nat
        BY <2>1, <2>3, LenProperties, Zenon
      <4>3. Len(pipe'[i]) <= PipeCap
        BY <2>3, <4>1, <4>2, RunConstants
      <4> QED
        BY <3>1, <4>1, <4>3, Zenon
    <3>2. CASE j # i
      BY <1>2, <2>2, <3>2 DEF RunInv, NothingLost
    <3> QED
      BY <3>1, <3>2
  <2>6. ParentKnows' /\ FailedStartIsClean'
    BY <1>2, <1>3 DEF RunInv, ParentKnows, FailedStartIsClean
  <2>7. DroppedAtEnd'
    BY <1>1, <1>2, <1>3, <2>2 DEF RunInv, RunType, DroppedAtEnd
  <2> QED
    BY <2>4, <2>5, <2>6, <2>7 DEF RunInv
<1>4. ASSUME pipe[i] = <<>>, fds' = fds \ {<<i, "r">>}, polled' = polled \ {i},
             UNCHANGED <<captured, pipe>>
      PROVE  RunInv'
  <2>1. child # "running"
    BY <1>1, <1>4 DEF RunInv, DroppedAtEnd
  <2>2. RunType' /\ NothingLost'
    BY <1>2, <1>4 DEF RunInv, RunType, NothingLost
  <2>3. fds' = {<<j, "r">> : j \in polled'}
    BY <1>1, <1>2, <1>4 DEF RunInv, ParentKnows
  <2>4. ParentKnows' /\ FailedStartIsClean'
    BY <1>2, <1>4, <2>3 DEF RunInv, ParentKnows, FailedStartIsClean
  <2>5. DroppedAtEnd'
    BY <1>1, <1>2, <1>4, <2>1 DEF RunInv, RunType, DroppedAtEnd
  <2> QED
    BY <2>2, <2>4, <2>5 DEF RunInv
<1> QED
  BY <1>2, <1>3, <1>4

\* One write of the child.
LEMMA WriteStep ==
  ASSUME RunInv, ChildWrites
  PROVE  RunInv'
<1> DEFINE i == Head(script)
<1>1. i \in Stream /\ Tail(script) \in Seq(Stream)
  BY DEF RunInv, RunType, ChildWrites
<1> HIDE DEF i
<1> DEFINE x == Len(written[i]) + 1
<1>2. captured[i] \in Seq(Nat) /\ pipe[i] \in Seq(Nat) /\ written[i] \in Seq(Nat) /\ x \in Nat
  BY <1>1 DEF RunInv, RunType
<1>3. /\ child = "running" /\ <<i, "r">> \in fds /\ Len(pipe[i]) < PipeCap
      /\ pipe' = [pipe EXCEPT ![i] = Append(@, x)]
      /\ written' = [written EXCEPT ![i] = Append(@, x)]
      /\ script' = Tail(script)
      /\ UNCHANGED <<pc, fds, polled, revents, captured, status, signals, child, exit>>
  BY DEF ChildWrites, parentVars, i
<1> HIDE DEF x
<1>4. /\ pipe'[i] = Append(pipe[i], x) /\ written'[i] = Append(written[i], x)
      /\ \A j \in Stream \ {i} : pipe'[j] = pipe[j] /\ written'[j] = written[j]
  BY <1>1, <1>3 DEF RunInv, RunType
<1>5. /\ pipe'[i] \in Seq(Nat) /\ written'[i] \in Seq(Nat) /\ Len(pipe'[i]) = Len(pipe[i]) + 1
      /\ captured[i] \o pipe'[i] = Append(captured[i] \o pipe[i], x)
  <2>1. /\ Append(pipe[i], x) \in Seq(Nat) /\ Len(Append(pipe[i], x)) = Len(pipe[i]) + 1
        /\ captured[i] \o Append(pipe[i], x) = Append(captured[i] \o pipe[i], x)
    BY <1>2, WriteKeeps
  <2>2. Append(written[i], x) \in Seq(Nat)
    BY <1>2, WriteKeeps
  <2> QED
    BY <1>4, <2>1, <2>2, Zenon
<1>6. RunType'
  BY <1>1, <1>3, <1>4, <1>5 DEF RunInv, RunType
<1>7. NothingLost'
  <2> SUFFICES ASSUME NEW j \in Stream
               PROVE  captured'[j] \o pipe'[j] = written'[j] /\ Len(pipe'[j]) <= PipeCap
    BY DEF NothingLost
  <2>1. CASE j = i
    <3>1. captured'[i] \o pipe'[i] = written'[i]
      BY <1>1, <1>3, <1>4, <1>5, Zenon DEF RunInv, NothingLost
    <3>2. Len(pipe[i]) \in Nat
      BY <1>2
    <3>3. Len(pipe'[i]) <= PipeCap
      BY <1>3, <1>5, <3>2, RunConstants
    <3> QED
      BY <2>1, <3>1, <3>3, Zenon
  <2>2. CASE j # i
    BY <1>3, <1>4, <2>2 DEF RunInv, NothingLost
  <2> QED
    BY <2>1, <2>2
<1>8. ParentKnows' /\ FailedStartIsClean'
  BY <1>3 DEF RunInv, ParentKnows, FailedStartIsClean
<1>9. DroppedAtEnd'
  <2>1. pipe'[i] # <<>>
    BY <1>2, <1>4
  <2> QED
    BY <1>1, <1>3, <1>4, <2>1 DEF RunInv, DroppedAtEnd
<1> QED
  BY <1>6, <1>7, <1>8, <1>9 DEF RunInv

\* Every step of the parent and of the child keeps RunInv.
LEMMA RunKeeps == RunInv /\ [RunNext]_runVars => RunInv'
<1> SUFFICES ASSUME RunInv, [RunNext]_runVars PROVE RunInv'
  OBVIOUS
<1> USE DEF RunInv, RunType, NothingLost, ParentKnows, DroppedAtEnd, FailedStartIsClean,
            parentVars, childVars
<1>1. CASE OpenPipes
  BY <1>1 DEF OpenPipes, GiveUp
<1>2. CASE SpawnChild
  BY <1>2 DEF SpawnChild, ReadEnd
<1>3. CASE StartFails
  BY <1>3 DEF StartFails, GiveUp
<1>4. CASE Poll
  BY <1>4 DEF Poll, Ready
<1>5. CASE PollInterrupted
  BY <1>5 DEF PollInterrupted
<1>6. CASE ScanRead
  BY <1>6, ScanKeeps
<1>7. CASE ScanDone
  BY <1>7 DEF ScanDone
<1>8. CASE Reap
  BY <1>8 DEF Reap
<1>9. CASE ChildWrites
  BY <1>9, WriteStep
<1>10. CASE ChildEnds
  BY <1>10 DEF ChildEnds
<1>11. CASE ChildKilled
  BY <1>11 DEF ChildKilled
<1>12. CASE UNCHANGED runVars
  BY <1>12 DEF runVars
<1> QED
  BY <1>1, <1>2, <1>3, <1>4, <1>5, <1>6, <1>7, <1>8, <1>9, <1>10, <1>11, <1>12
     DEF RunNext, Parent, Child, RunReturned

\* RunInv holds in every state.
LEMMA RunInvariance == RunSpec => []RunInv
  BY RunStarts, RunKeeps, PTL DEF RunSpec

\* kod_run_process returns the child's status with the child reaped and, unless a
\* signal ended the poll loop, everything the child wrote to both streams, in
\* order, with no descriptor left open; nothing is lost on the way.
THEOREM RunReturnsAll == RunSpec => []ResultComplete
<1>1. RunInv => ResultComplete
  <2> SUFFICES ASSUME RunInv PROVE ResultComplete
    OBVIOUS
  <2>1. ASSUME pc = "done", child # "none", signals = 0 PROVE captured = written /\ fds = {}
    <3>1. polled = {} /\ \A i \in Stream : pipe[i] = <<>>
      BY <2>1 DEF RunInv, DroppedAtEnd
    <3>2. \A i \in Stream : captured[i] \in Seq(Nat)
      BY DEF RunInv, RunType
    <3>3. \A i \in Stream : captured[i] \o pipe[i] = captured[i]
      BY <3>1, <3>2, ConcatEmptySeq
    <3>4. \A i \in Stream : captured[i] = written[i]
      BY <3>3, Zenon DEF RunInv, NothingLost
    <3>5. captured = written
      BY <3>4 DEF RunInv, RunType
    <3>6. fds = {}
      BY <2>1, <3>1 DEF RunInv, ParentKnows
    <3> QED
      BY <3>5, <3>6
  <2> QED
    BY <2>1 DEF RunInv, ResultComplete, ParentKnows
<1> QED
  BY <1>1, RunInvariance, PTL

\* When kod_run_process cannot start the child it returns -1 and empty output, and
\* leaves no child and no descriptor behind but the first pipe when the second fails.
THEOREM RunFailsClean == RunSpec => []FailedStartIsClean
<1>1. RunInv => FailedStartIsClean
  BY DEF RunInv
<1> QED
  BY <1>1, RunInvariance, PTL
=============================================================================
