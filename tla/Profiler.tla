------------------------------ MODULE Profiler ------------------------------
(***************************************************************************)
(* The sampling profiler: kod_prof_handler and the _profiling_ calls       *)
(* (stdlib/runtime.c) under start, stop and report (kod/profiling.kod).    *)
(*                                                                         *)
(* SIGPROF interrupts the one thread between any two of its steps, also    *)
(* while it starts, stops or reports; the handler itself runs to its end.  *)
(* The thread's frames are linked from the innermost outward: a frame is   *)
(* at an address above the frames it has called, the outermost one links   *)
(* to 0, and one of the thread's start-up code may return to 0.            *)
(***************************************************************************)
EXTENDS Naturals, Sequences

CONSTANTS Addr,          \* code addresses
          MaxDepth,      \* bound: frames on the stack
          MAX_FRAMES, MAX_SAMPLES

ASSUME ProfConstants ==
  /\ Addr \subseteq Nat \ {0} /\ MaxDepth \in Nat
  /\ MAX_FRAMES \in Nat \ {0} /\ MAX_SAMPLES \in Nat \ {0}

VARIABLES
  counter, stack,     \* the program counter; return addresses, outermost first
  armed, pending,     \* ITIMER_PROF runs; SIGPROF is due
  prof_rows,          \* kod_prof_frames and kod_prof_depths: a row per sample
  prof_count,
  in_call,            \* "none", "start" (between reset and arming) or "report"
  total, tally        \* report: n_samples as read; the leaf addresses counted

profVars == <<counter, stack, armed, pending, prof_rows, prof_count, in_call, total, tally>>

ProfInit ==
  /\ counter \in Addr /\ stack = <<>> /\ armed = FALSE /\ pending = FALSE
  /\ prof_rows = [i \in 1..MAX_SAMPLES |-> <<>>] /\ prof_count = 0
  /\ in_call = "none" /\ total = 0 /\ tally = <<>>

-----------------------------------------------------------------------------
(* The profiled program.                                                     *)

Call ==
  /\ in_call = "none" /\ Len(stack) < MaxDepth
  /\ \E lr \in Addr \cup (IF stack = <<>> THEN {0} ELSE {}) : stack' = Append(stack, lr)
  /\ counter' \in Addr
  /\ UNCHANGED <<armed, pending, prof_rows, prof_count, in_call, total, tally>>

Return ==
  /\ in_call = "none" /\ stack # <<>> /\ stack[Len(stack)] # 0
  /\ counter' = stack[Len(stack)] /\ stack' = SubSeq(stack, 1, Len(stack) - 1)
  /\ UNCHANGED <<armed, pending, prof_rows, prof_count, in_call, total, tally>>

\* The frame at address f: fp[1] and fp[0].
Depth(f) == MaxDepth + 1 - f
lr_of(f) == stack[Depth(f)]
next_of(f) == IF Depth(f) = 1 THEN 0 ELSE f + 1
fp_register == IF stack = <<>> THEN 0 ELSE MaxDepth + 1 - Len(stack)

-----------------------------------------------------------------------------
(* The kernel and the handler.                                               *)

Tick ==
  /\ armed /\ ~pending /\ pending' = TRUE
  /\ UNCHANGED <<counter, stack, armed, prof_rows, prof_count, in_call, total, tally>>

\* Mutant: one frame more than a row has room for.
RowRoom_off_by_one == MAX_FRAMES

\* What is left of a row after the program counter.
RowRoom == MAX_FRAMES - 1

\* With room for that many more entries, the walk from frame f.
walk[room \in 0..MAX_FRAMES] ==
  [f \in 0..MaxDepth |->
     IF room = 0 \/ f = 0 \/ lr_of(f) = 0 THEN <<>>
     ELSE <<lr_of(f)>> \o
          (IF next_of(f) = 0 \/ next_of(f) <= f THEN <<>> ELSE walk[room - 1][next_of(f)])]

\* Mutant: a full buffer takes the sample in its last row.
Slot_overwrites == IF prof_count < MAX_SAMPLES THEN prof_count + 1 ELSE MAX_SAMPLES

\* The row of the next sample, 0 when the buffer is full.
Slot == IF prof_count < MAX_SAMPLES THEN prof_count + 1 ELSE 0

kod_prof_handler ==
  /\ pending /\ pending' = FALSE
  /\ IF Slot = 0 THEN UNCHANGED <<prof_rows, prof_count>>
     ELSE /\ prof_rows' = [prof_rows EXCEPT ![Slot] = <<counter>> \o walk[RowRoom][fp_register]]
          /\ prof_count' = Slot
  /\ UNCHANGED <<counter, stack, armed, in_call, total, tally>>

-----------------------------------------------------------------------------
(* start, stop and report.                                                   *)

\* _profiling_start: the count, then the handler and the timer.
StartResets ==
  /\ in_call = "none" /\ in_call' = "start" /\ prof_count' = 0
  /\ UNCHANGED <<counter, stack, armed, pending, prof_rows, total, tally>>

\* An interval of 0 disarms the timer.
StartArms ==
  /\ in_call = "start" /\ in_call' = "none" /\ armed' \in BOOLEAN
  /\ UNCHANGED <<counter, stack, pending, prof_rows, prof_count, total, tally>>

\* A signal that is due is still delivered.
_profiling_stop ==
  /\ in_call = "none" /\ armed' = FALSE
  /\ UNCHANGED <<counter, stack, pending, prof_rows, prof_count, in_call, total, tally>>

ReportStarts ==
  /\ in_call = "none" /\ prof_count > 0
  /\ in_call' = "report" /\ total' = prof_count /\ tally' = <<>>
  /\ UNCHANGED <<counter, stack, armed, pending, prof_rows, prof_count>>

_profiling_sample_frame(i, frame) ==
  IF i > prof_count \/ frame > Len(prof_rows[i]) THEN 0 ELSE prof_rows[i][frame]

\* Where the loop over the samples ends.
ReportEnd == total

\* One round: the leaf of the next sample (one <<leaf>> per sample; the table
\* that is printed groups and sorts them).
ReportRound ==
  /\ in_call = "report" /\ Len(tally) < ReportEnd
  /\ tally' = Append(tally, _profiling_sample_frame(Len(tally) + 1, 1))
  /\ UNCHANGED <<counter, stack, armed, pending, prof_rows, prof_count, in_call, total>>

ReportPrints ==
  /\ in_call = "report" /\ Len(tally) = ReportEnd
  /\ in_call' = "none" /\ UNCHANGED <<counter, stack, armed, pending, prof_rows, prof_count>>
  /\ total' = 0 /\ tally' = <<>>

ProfNext ==
  \/ Call \/ Return \/ Tick \/ kod_prof_handler
  \/ StartResets \/ StartArms \/ _profiling_stop
  \/ ReportStarts \/ ReportRound \/ ReportPrints

ProfSpec == ProfInit /\ [][ProfNext]_profVars

-----------------------------------------------------------------------------
(* Properties.                                                               *)

\* Whatever the signal interrupts, the buffer is never overrun: at most
\* MAX_SAMPLES rows of 1 to MAX_FRAMES addresses.
RowsFit ==
  /\ DOMAIN prof_rows = 1..MAX_SAMPLES /\ prof_count \in 0..MAX_SAMPLES
  /\ \A i \in 1..prof_count : Len(prof_rows[i]) \in 1..MAX_FRAMES

\* A sample that is recorded is not touched until the next start: a late tick
\* adds one or does nothing.
SamplesKept ==
  [][ in_call' = "start"
      \/ /\ prof_count' >= prof_count
         /\ \A i \in 1..prof_count : prof_rows'[i] = prof_rows[i] ]_profVars

\* The row holds the program counter and the return addresses on the stack, the
\* innermost first, up to MAX_FRAMES of them or to one that is 0.
Recorded(row) ==
  LET n == Len(stack)
  IN  /\ Len(row) \in 1..(n + 1) /\ Len(row) <= MAX_FRAMES
      /\ row[1] = counter
      /\ \A k \in 2..Len(row) : row[k] = stack[n + 2 - k] /\ row[k] # 0
      /\ Len(row) = MAX_FRAMES \/ Len(row) = n + 1 \/ stack[n + 1 - Len(row)] = 0

\* A new sample is the stack at that moment.
SampleIsStack ==
  [][ prof_count' = prof_count + 1 => Recorded(prof_rows'[prof_count']) ]_profVars

\* A report taken while samples still arrive counts each of the `total` samples
\* it announces once, by the address it was recorded with.
ReportAddsUp ==
  in_call = "report" =>
    /\ Len(tally) <= total /\ total <= prof_count
    /\ \A i \in DOMAIN tally : tally[i] = prof_rows[i][1]

\* The buffer and the report on it.
ReportRight == RowsFit /\ ReportAddsUp

\* Samples are right when they are taken and stay so.
SamplesRight == SamplesKept /\ SampleIsStack
=============================================================================
