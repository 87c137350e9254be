----------------------------- MODULE ChildProcs -----------------------------
(***************************************************************************)
(* kod_spawn and kod_kill (stdlib/runtime.c), behind process.spawn and     *)
(* process.kill: start a child without waiting for it, and later SIGTERM   *)
(* it and wait for it.                                                     *)
(*                                                                         *)
(* The program runs beside the rest of the machine: children end when they *)
(* like, unrelated processes come and go, and a process id that has been   *)
(* reaped is handed out again.                                             *)
(***************************************************************************)
EXTENDS Integers, FiniteSets

CONSTANT Pid    \* the process ids of the machine

ASSUME PidsPositive == Pid \subseteq Nat \ {0}

(* proc[p] is what process id p stands for: nothing, a child of the program *)
(* (alive, alive and ignoring SIGTERM, about to die of SIGTERM, or a        *)
(* zombie), another process of the same user, or one of another user.       *)
Alive == {"child", "stubborn", "dying"}
OurChild == Alive \cup {"zombie"}

VARIABLES
  proc,
  waiting,     \* the pid kod_kill is waiting for, 0 when it is not in waitpid
  target,      \* what that pid was when it was signalled
  hit,         \* who the current or last kill delivered SIGTERM to
  answer       \* the last call's result: "none", "false", "true", "pid" or "-1"

procVars == <<proc, waiting, target, hit, answer>>

ProcInit ==
  /\ proc = [p \in Pid |-> "free"]
  /\ waiting = 0 /\ target = "free" /\ hit = {} /\ answer = "none"

-----------------------------------------------------------------------------
(* The program.                                                              *)

\* posix_spawnp succeeds: a fresh process id.
SpawnOk ==
  /\ waiting = 0
  /\ \E p \in Pid :
       /\ proc[p] = "free"
       /\ \E c \in {"child", "stubborn"} : proc' = [proc EXCEPT ![p] = c]
  /\ answer' = "pid"
  /\ UNCHANGED <<waiting, target, hit>>

\* An empty argv, or a program that cannot be started.
SpawnFails ==
  /\ waiting = 0
  /\ answer' = "-1"
  /\ UNCHANGED <<proc, waiting, target, hit>>

\* kill(2): the processes that signalling pid would reach.
Reached(pid) ==
  IF pid > 0
  THEN {p \in Pid \cap {pid} : proc[p] \in OurChild \cup {"other"}}
  ELSE {p \in Pid : proc[p] \in OurChild \/ (pid = -1 /\ proc[p] = "other")}

\* Mutant: the result of kill(2) is ignored.
Refused_ignored(pid) == pid <= 0

\* pid <= 0, or kill(2) fails: ESRCH, or EPERM for another user's process.
Refused(pid) == pid <= 0 \/ Reached(pid) = {}

KillRefused(pid) ==
  /\ waiting = 0 /\ Refused(pid)
  /\ answer' = "false" /\ hit' = {}
  /\ UNCHANGED <<proc, waiting, target>>

KillSends(pid) ==
  /\ waiting = 0 /\ ~Refused(pid)
  /\ hit' = Reached(pid)
  /\ proc' = [p \in Pid |->
                IF p \in Reached(pid) /\ proc[p] = "child" THEN "dying" ELSE proc[p]]
  /\ waiting' = pid
  /\ target' = IF pid \in Pid THEN proc[pid] ELSE "free"
  /\ UNCHANGED answer

\* Mutant: returns without waiting for the child.
WaitReturns_no_wait ==
  /\ waiting # 0
  /\ waiting' = 0 /\ answer' = "true"
  /\ UNCHANGED <<proc, target, hit>>

\* waitpid returns with the child reaped, or fails at once with ECHILD.
WaitReturns ==
  /\ waiting # 0
  /\ waiting \in Pid => proc[waiting] \notin Alive
  /\ proc' = [p \in Pid |-> IF p = waiting /\ proc[p] = "zombie" THEN "free" ELSE proc[p]]
  /\ waiting' = 0 /\ answer' = "true"
  /\ UNCHANGED <<target, hit>>

-----------------------------------------------------------------------------
(* The machine.                                                              *)

\* SIGTERM takes effect.
ChildDies ==
  /\ \E p \in Pid : proc[p] = "dying" /\ proc' = [proc EXCEPT ![p] = "zombie"]
  /\ UNCHANGED <<waiting, target, hit, answer>>

\* A child ends on its own.
ChildExits ==
  /\ \E p \in Pid :
       proc[p] \in {"child", "stubborn"} /\ proc' = [proc EXCEPT ![p] = "zombie"]
  /\ UNCHANGED <<waiting, target, hit, answer>>

\* Another process starts, under any id that is free, or ends.
OthersChange ==
  /\ \E p \in Pid :
       \/ proc[p] = "free" /\ \E o \in {"other", "foreign"} : proc' = [proc EXCEPT ![p] = o]
       \/ proc[p] \in {"other", "foreign"} /\ proc' = [proc EXCEPT ![p] = "free"]
  /\ UNCHANGED <<waiting, target, hit, answer>>

ProcNext ==
  \/ SpawnOk \/ SpawnFails
  \/ \E pid \in Pid \cup {0, -1} : KillRefused(pid) \/ KillSends(pid)
  \/ WaitReturns
  \/ ChildDies \/ ChildExits \/ OthersChange

ProcSpec == ProcInit /\ [][ProcNext]_procVars

\* The kernel delivers the signal and schedules the program.
ProcFairSpec == ProcSpec /\ WF_procVars(WaitReturns) /\ WF_procVars(ChildDies)

-----------------------------------------------------------------------------
(* Properties.                                                               *)

\* kill reaches at most the one process it names, even when it is handed the
\* -1 of a spawn that failed (kill(2) would signal every process), and a kill
\* that answers false has signalled nobody.
OnlyTheNamed ==
  /\ Cardinality(hit) <= 1
  /\ waiting # 0 => hit = {waiting}
  /\ answer = "false" /\ waiting = 0 => hit = {}

\* When kill of a child returns, that child is gone: reaped, its id free again,
\* whatever else started and ended meanwhile.
KillReaps ==
  [][(waiting \in Pid) /\ waiting' = 0 /\ target \in OurChild
       => proc'[waiting] = "free"]_procVars

\* kill returns, also for a pid that turns out not to be a child, unless the
\* child ignores SIGTERM.
KillReturns == (waiting # 0 /\ target # "stubborn") ~> (waiting = 0)

\* process.kod: kill returns "false for a pid that is not a child of this
\* process, such as one already killed".
TrueMeansChild ==
  [][waiting # 0 /\ waiting' = 0 /\ answer' = "true" => target \in OurChild]_procVars
=============================================================================
