------------------------------ MODULE RegAlloc ------------------------------
(***************************************************************************)
(* The register allocator of the compiler (stdlib/kod/regalloc.kod) for    *)
(* one function: the pool the code generator takes registers from while it *)
(* emits the body, the eviction of everything live when the pool runs low  *)
(* (codegen.kod), the linear scan that reassigns registers once the body   *)
(* is buffered, and the packing of the callee-saved ones.                  *)
(*                                                                         *)
(* The code generator is the environment: it emits any straight-line body  *)
(* that reads a register only while it holds it and it has a value.  A     *)
(* line is what scan_line sees of one instruction, the registers it writes *)
(* and the registers it reads, plus whether it is a call.                  *)
(***************************************************************************)
EXTENDS Integers, Sequences, FiniteSets, FiniteSetsExt, SequencesExt

CONSTANTS
  CalleeSaved,   \* cs_reg(0), cs_reg(1), ...: x19..x27, in order
  CallerSaved,   \* x8..x15, in order
  EvictBelow,    \* EVICT_BELOW
  MaxVregs,      \* bound: registers handed out in the function
  MaxLines,      \* bound: lines of the body
  MaxReads       \* bound: registers one instruction reads

ASSUME Registers ==
  /\ CalleeSaved \in Seq(ToSet(CalleeSaved)) /\ CallerSaved \in Seq(ToSet(CallerSaved))
  /\ ToSet(CalleeSaved) \cap ToSet(CallerSaved) = {}
  /\ IsInjective(CalleeSaved) /\ IsInjective(CallerSaved)
  /\ EvictBelow \in Nat /\ MaxVregs \in Nat /\ MaxLines \in Nat /\ MaxReads \in Nat

VARIABLES
  phase,       \* "emit", "run", "pack", "done"
  free_regs,   \* the pool
  live,        \* vregs handed out and not freed
  vreg_phys,   \* vreg -> physical
  evicted,     \* whether evict ran in this function
  evictions,   \* the PoolStates of the evictions in progress
  body,        \* body_buf
  readable,    \* vregs that hold a value the emitter may still read
  todo,        \* run: vregs to place, in the order of their first definition
  active,      \* run: active_id
  pool,        \* run: free_callee and free_caller
  new_phys,    \* run: the new assignment
  cs_count     \* pack's result, the callee-saved registers the prologue saves

emitVars == <<free_regs, live, evicted, evictions, body, readable>>
runVars == <<todo, active, pool, new_phys>>
vars == <<phase, vreg_phys, emitVars, runVars, cs_count>>

Phys == ToSet(CalleeSaved) \cup ToSet(CallerSaved)

is_callee_saved_phys(p) == p \in ToSet(CalleeSaved)

Class == {"callee", "caller"}
ClassOf(p) == IF is_callee_saved_phys(p) THEN "callee" ELSE "caller"

\* RegPool.reset: the tail is handed out first, so x19 is.
AllFree == Reverse(CallerSaved) \o Reverse(CalleeSaved)

Init ==
  /\ phase = "emit" /\ free_regs = AllFree /\ live = {} /\ vreg_phys = <<>>
  /\ evicted = FALSE /\ evictions = <<>> /\ body = <<>> /\ readable = {}
  /\ todo = <<>> /\ active = <<>> /\ pool = [c \in Class |-> <<>>]
  /\ new_phys = <<>> /\ cs_count = 0

-----------------------------------------------------------------------------
(* Emission.                                                                 *)

Line(defs, uses, call) == [defs |-> defs, uses |-> uses, call |-> call]

\* The tail of the pool backs a fresh vreg (an empty pool is a compiler panic).
alloc_reg ==
  /\ phase = "emit" /\ free_regs # <<>> /\ Len(vreg_phys) < MaxVregs
  /\ vreg_phys' = Append(vreg_phys, Last(free_regs))
  /\ free_regs' = Front(free_regs)
  /\ live' = live \cup {Len(vreg_phys) + 1}
  /\ UNCHANGED <<phase, evicted, evictions, body, readable, runVars, cs_count>>

\* Mutant: the vreg is not taken off `live`.
free_reg_still_live(v) ==
  /\ phase = "emit" /\ v \in live
  /\ free_regs' = Append(free_regs, vreg_phys[v])
  /\ readable' = readable \ {v}
  /\ UNCHANGED <<phase, live, vreg_phys, evicted, evictions, body, runVars, cs_count>>

free_reg(v) ==
  /\ phase = "emit" /\ v \in live
  /\ free_regs' = Append(free_regs, vreg_phys[v])
  /\ live' = live \ {v} /\ readable' = readable \ {v}
  /\ UNCHANGED <<phase, vreg_phys, evicted, evictions, body, runVars, cs_count>>

\* Room for n more lines, and for the reload of every eviction in progress.
Room(n) == phase = "emit" /\ Len(body) + n + Len(evictions) <= MaxLines

\* An instruction that writes at most one vreg.
EmitInsn ==
  /\ Room(1)
  /\ \E d \in SUBSET live, u \in SUBSET readable :
       /\ Cardinality(d) <= 1 /\ Cardinality(u) <= MaxReads /\ d \cup u # {}
       /\ body' = Append(body, Line(d, u, FALSE))
       /\ readable' = readable \cup d
  /\ UNCHANGED <<phase, free_regs, live, vreg_phys, evicted, evictions, runVars, cs_count>>

\* A call: what is in a caller-saved register is lost, unless the emitter put
\* it on the stack first (spill_across), which it does exactly when the vreg
\* is not callee-saved; the reload is an instruction that writes it.
EmitCall ==
  /\ Room(1)
  /\ body' = Append(body, Line({}, {}, TRUE))
  /\ readable' = {v \in readable : is_callee_saved_phys(vreg_phys[v])}
  /\ UNCHANGED <<phase, free_regs, live, vreg_phys, evicted, evictions, runVars, cs_count>>

\* RegPool.evict and the stores of what is live into frame slots (one line here).
save_live_regs ==
  /\ Room(2) /\ Len(free_regs) < EvictBelow
  /\ evictions' = Append(evictions, [free_regs |-> free_regs, live |-> live, readable |-> readable])
  /\ free_regs' = AllFree /\ live' = {} /\ evicted' = TRUE
  /\ body' = Append(body, Line({}, readable, FALSE))
  /\ readable' = {}
  /\ UNCHANGED <<phase, vreg_phys, runVars, cs_count>>

\* Mutant: the registers are reloaded before the result is moved out.
restore_live_regs_late(r) ==
  /\ Room(1) /\ evictions # <<>> /\ r \in readable
  /\ LET state == Last(evictions)
         v == Len(vreg_phys) + 1
     IN  /\ state.free_regs # <<>> /\ v <= MaxVregs
         /\ vreg_phys' = Append(vreg_phys, Last(state.free_regs))
         /\ free_regs' = Front(state.free_regs)
         /\ live' = state.live \cup {v} /\ readable' = state.readable \cup {v}
         /\ body' = body \o << Line(state.readable, {}, FALSE), Line({v}, {r}, FALSE) >>
  /\ evictions' = Front(evictions)
  /\ UNCHANGED <<phase, evicted, runVars, cs_count>>

\* The result to x17, then RegPool.restore and the reloads, and the result from
\* x17 into a register of its own: one line, which reads before it writes.
restore_live_regs(r) ==
  /\ Room(0) /\ evictions # <<>> /\ r \in readable
  /\ LET state == Last(evictions)
         v == Len(vreg_phys) + 1
     IN  /\ state.free_regs # <<>> /\ v <= MaxVregs
         /\ vreg_phys' = Append(vreg_phys, Last(state.free_regs))
         /\ free_regs' = Front(state.free_regs)
         /\ live' = state.live \cup {v} /\ readable' = state.readable \cup {v}
         /\ body' = Append(body, Line(state.readable \cup {v}, {r}, FALSE))
  /\ evictions' = Front(evictions)
  /\ UNCHANGED <<phase, evicted, runVars, cs_count>>

\* The evicted code left no value in a register.
restore_no_value ==
  /\ Room(0) /\ evictions # <<>>
  /\ LET state == Last(evictions)
     IN  /\ free_regs' = state.free_regs /\ live' = state.live
         /\ readable' = state.readable
         /\ body' = Append(body, Line(state.readable, {}, FALSE))
  /\ evictions' = Front(evictions)
  /\ UNCHANGED <<phase, vreg_phys, evicted, runVars, cs_count>>

-----------------------------------------------------------------------------
(* run: the linear scan.                                                     *)

Vregs == DOMAIN vreg_phys

\* scan_line over the body: the first line that writes v (0 when none does),
\* and the last that mentions it.
Defs(v) == {l \in DOMAIN body : v \in body[l].defs}
Mentions(v) == {l \in DOMAIN body : v \in body[l].defs \cup body[l].uses}
def_line(v) == IF Defs(v) = {} THEN 0 ELSE Min(Defs(v))
last_use(v) == IF Mentions(v) = {} THEN 0 ELSE Max(Mentions(v))

\* The items of s that are in S, in order; each once, or as often as it is in s.
Filtered(s, S, once) ==
  LET kept[i \in 0..Len(s)] ==
        IF i = 0 THEN <<>>
        ELSE IF s[i] \in S /\ (once => s[i] \notin ToSet(kept[i - 1]))
             THEN Append(kept[i - 1], s[i])
             ELSE kept[i - 1]
  IN  kept[Len(s)]

Distinct(s, S) == Filtered(s, S, TRUE)
Selected(s, S) == Filtered(s, S, FALSE)

\* Mutant: a register that backed two vregs is in the pool twice.
ClassPool_repeated(c) == Selected(vreg_phys, {p \in Phys : ClassOf(p) = c})

ClassPool(c) == Distinct(vreg_phys, {p \in Phys : ClassOf(p) = c})

\* The insertion sort: s lists the vregs by first definition, and by number where
\* that is the same.
InOrder(s) ==
  /\ ToSet(s) = Vregs
  /\ \A i, j \in DOMAIN s : i < j =>
       \/ def_line(s[i]) < def_line(s[j])
       \/ def_line(s[i]) = def_line(s[j]) /\ s[i] < s[j]

\* The end of compile_func: `run` unless the function evicted, then `pack`.
start_run ==
  /\ phase = "emit" /\ evictions = <<>> /\ body # <<>>
  /\ IF evicted
     THEN phase' = "pack" /\ UNCHANGED runVars
     ELSE /\ phase' = "run"
          /\ \E s \in [Vregs -> Vregs] : InOrder(s) /\ todo' = s
          /\ active' = <<>>
          /\ pool' = [c \in Class |-> ClassPool(c)]
          /\ new_phys' = vreg_phys
  /\ UNCHANGED <<vreg_phys, emitVars, cs_count>>

\* Mutant: an interval also ends when its last use is the line after.
Expired_early(a, d) == last_use(a) <= d + 1

\* A source that dies on the line that defines v hands its register over.
Expired(a, d) == last_use(a) <= d

\* Mutant: a callee-saved register whenever one is free.
WantedClass_best(v) == IF pool["callee"] # <<>> THEN "callee" ELSE ClassOf(vreg_phys[v])

\* cls_callee: the class of the register the vreg was emitted with.
WantedClass(v) == ClassOf(vreg_phys[v])

\* The pools with the registers of dead, in order, back in the ones of their class.
Freed(free, phys, dead) ==
  [c \in Class |-> free[c] \o Selected([i \in DOMAIN dead |-> phys[dead[i]]],
                                       {p \in Phys : ClassOf(p) = c})]

\* One turn of the loop: expire, choose from the tail of the class, activate.
run_step ==
  /\ phase = "run" /\ todo # <<>>
  /\ LET v == Head(todo)
         d == def_line(v)
         c == WantedClass(v)
         over == {a \in ToSet(active) : Expired(a, d)}
         freed == Freed(pool, new_phys, Selected(active, over))
     IN  IF d = 0
         THEN UNCHANGED <<active, pool, new_phys>>
         ELSE /\ active' = Append(Selected(active, ToSet(active) \ over), v)
              /\ IF freed[c] = <<>>
                 THEN /\ new_phys' = [new_phys EXCEPT ![v] = vreg_phys[v]]
                      /\ pool' = freed
                 ELSE /\ new_phys' = [new_phys EXCEPT ![v] = Last(freed[c])]
                      /\ pool' = [freed EXCEPT ![c] = Front(@)]
  /\ todo' = Tail(todo)
  /\ UNCHANGED <<phase, vreg_phys, emitVars, cs_count>>

\* Write back.
end_run ==
  /\ phase = "run" /\ todo = <<>>
  /\ phase' = "pack" /\ vreg_phys' = new_phys
  /\ UNCHANGED <<emitVars, runVars, cs_count>>

-----------------------------------------------------------------------------
(* pack.                                                                     *)

UsedCallee == Distinct(vreg_phys, ToSet(CalleeSaved))

\* Mutant: the registers keep their names, only the count is returned.
packed_gaps(p) == p

\* cs_reg of the place of p among the registers in use.
packed(p) ==
  IF is_callee_saved_phys(p)
  THEN CalleeSaved[CHOOSE i \in DOMAIN UsedCallee : UsedCallee[i] = p]
  ELSE p

pack ==
  /\ phase = "pack"
  /\ vreg_phys' = [v \in Vregs |-> packed(vreg_phys[v])]
  /\ cs_count' = Len(UsedCallee)
  /\ phase' = "done"
  /\ UNCHANGED <<emitVars, runVars>>

Finished == phase = "done" /\ UNCHANGED vars

Next ==
  \/ alloc_reg \/ \E v \in live : free_reg(v)
  \/ EmitInsn \/ EmitCall
  \/ save_live_regs \/ \E r \in readable : restore_live_regs(r)
  \/ restore_no_value
  \/ start_run \/ run_step \/ end_run \/ pack
  \/ Finished

Spec == Init /\ [][Next]_vars

-----------------------------------------------------------------------------
(* Properties.                                                               *)

\* While the body is emitted every physical register is in the pool once or
\* backs exactly one vreg in use, also inside evicted code.
PoolConserved ==
  phase = "emit" =>
    /\ IsInjective(free_regs)
    /\ \A v \in live : vreg_phys[v] \notin ToSet(free_regs)
    /\ \A v, w \in live : v # w => vreg_phys[v] # vreg_phys[w]
    /\ Len(free_regs) + Cardinality(live) = Cardinality(Phys)

\* A line that leaves something in register p.
Clobbers(l, p) ==
  \/ \E d \in body[l].defs : vreg_phys[d] = p
  \/ body[l].call /\ ~is_callee_saved_phys(p)

\* The value u has at line l is there: a line before it writes u, and none in
\* between leaves anything in the physical register of u.
Holds(u, l) ==
  \E k \in 1..(l - 1) :
    u \in body[k].defs /\ \A m \in (k + 1)..(l - 1) : ~Clobbers(m, vreg_phys[u])

\* Each read, in the registers finally chosen, sees the value the code generator
\* meant, calls and evictions in between included.
ReadsRight == \A l \in DOMAIN body : \A u \in body[l].uses : Holds(u, l)

\* "Shouldn't happen - pool size equals alloc-time pressure": the scan always
\* finds a register of the class and never falls back on the old one, so the
\* registers of the vregs alive at one point stay distinct, and each pool holds
\* registers of its class, once.
ActiveDistinct ==
  phase = "run" =>
    /\ \A i, j \in DOMAIN active : i # j => new_phys[active[i]] # new_phys[active[j]]
    /\ \A i \in DOMAIN active : \A c \in Class :
         new_phys[active[i]] \notin ToSet(pool[c])
    /\ \A c \in Class : IsInjective(pool[c]) /\ \A i \in DOMAIN pool[c] : ClassOf(pool[c][i]) = c

\* The prologue saves the first cs_count callee-saved registers, and those are
\* exactly the ones the body uses.
SavedIsUsed ==
  phase = "done" =>
    {CalleeSaved[i] : i \in 1..cs_count}
      = {vreg_phys[v] : v \in Vregs} \cap ToSet(CalleeSaved)

\* A vreg never changes class, so what the emitter decided from
\* is_callee_saved (whether to spill it around a call) stays right.
ClassKept ==
  [][\A v \in Vregs : ClassOf(vreg_phys'[v]) = ClassOf(vreg_phys[v])]_vars
=============================================================================
