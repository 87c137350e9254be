------------------------------- MODULE KodHeap ------------------------------
(***************************************************************************)
(* The memory behind Kod's arrays, strings and string builders: the arena  *)
(* (stdlib/arena.c) and the operations of stdlib/runtime.c on it.          *)
(*                                                                         *)
(* Memory is a row of 8-byte slots.  A header is slots of the arena like   *)
(* any other, so a write that strays changes whatever it lands on.  A      *)
(* character takes a slot too (in the code eight share one, and the        *)
(* rounding to 8 bytes only leaves slack), and the NUL after a string is   *)
(* one more.                                                               *)
(***************************************************************************)
EXTENDS Integers, Sequences, FiniteSets

CONSTANTS
  Elem,         \* elements and characters
  BlockSize,    \* BLOCK_SIZE, in slots
  SbCap,        \* the capacity of a new builder (32 in the code)
  ArrayCap,     \* the capacity an empty array grows to (4)
  ByteSize,     \* values a byte has (256)
  MaxInt,       \* INT64_MAX
  MaxObjs,      \* bound: values alive
  MaxLen,       \* bound: length of a value
  MaxMem        \* bound: slots of memory

ASSUME HeapConstants ==
  /\ {BlockSize, SbCap, ArrayCap, ByteSize} \subseteq Nat \ {0}
  /\ {MaxInt, MaxObjs, MaxLen, MaxMem} \subseteq Nat /\ Elem \subseteq Nat
  /\ SbCap < 2 * (MaxInt \div 4)     \* 32 and INT64_MAX

VARIABLES
  arena,    \* the current block: where it goes on and where it ends; and where
            \* malloc puts the next one
  mem,      \* slot -> content, 0 before it is written
  objs,     \* header -> "array", "str" or "builder"
  panicked  \* kod_panic or kod_index_oob ended the program

vars == <<arena, mem, objs, panicked>>

Empty == [current |-> 0, end |-> 0, brk |-> 0]

Init ==
  /\ arena = Empty /\ mem = [a \in 0..(MaxMem - 1) |-> 0]
  /\ objs = <<>> /\ panicked = FALSE

-----------------------------------------------------------------------------
(* The arena.                                                                *)

Larger(a, b) == IF a > b THEN a ELSE b

\* The pointer and the arena after it: the rest of the current block, or a new
\* block of BLOCK_SIZE or the size asked for.
arena_alloc(ar, size) ==
  LET new == ar.end = 0 \/ ar.current + size > ar.end
      block == Larger(BlockSize, size)
  IN  IF new
      THEN [ptr |-> ar.brk,
            arena |-> [current |-> ar.brk + size, end |-> ar.brk + block, brk |-> ar.brk + block]]
      ELSE [ptr |-> ar.current, arena |-> [ar EXCEPT !.current = @ + size]]

\* memcpy and element loops.
Put(m, at, s) == [a \in DOMAIN m |-> IF a - at + 1 \in DOMAIN s THEN s[a - at + 1] ELSE m[a]]
Slots(m, at, n) == [i \in 1..n |-> m[at + i - 1]]

\* Headers: KodArray and KodStrBuilder are pointer, length, capacity; KodStr is
\* pointer, length.
Ptr(h) == mem[h]
LenOf(h) == mem[h + 1]
Cap(h) == mem[h + 2]
SeqOf(h) == Slots(mem, Ptr(h), LenOf(h))

Handles == DOMAIN objs
Of(kind) == {h \in Handles : objs[h] = kind}

Running == ~panicked

-----------------------------------------------------------------------------
(* Making values.                                                            *)

\* A header and a buffer of room slots holding s; fits the bounds.
NewObj(kind, s, room, cap) ==
  LET hdr == arena_alloc(arena, 3)
      buf == arena_alloc(hdr.arena, room)
  IN  /\ Cardinality(Handles) < MaxObjs /\ Len(s) <= MaxLen
      /\ buf.arena.brk <= MaxMem
      /\ arena' = buf.arena
      /\ mem' = Put(Put(mem, hdr.ptr, <<buf.ptr, Len(s), cap>>), buf.ptr, s)
      /\ objs' = [h \in Handles \cup {hdr.ptr} |-> IF h = hdr.ptr THEN kind ELSE objs[h]]
      /\ UNCHANGED panicked

\* An array with just the room it needs, at least a slot.
NewArray(s) == NewObj("array", s, Larger(Len(s), 1), Len(s))

\* compile_array_lit_typed.
ArrayLit == Running /\ \E n \in 0..2 : \E s \in [1..n -> Elem] : NewArray(s)

\* clamp_slice: the part of s from start (0-based) up to end.
clamp_slice(s, start, end) ==
  LET from == IF start < 0 THEN 0 ELSE IF start > Len(s) THEN Len(s) ELSE start
      upto == IF end > Len(s) THEN Len(s) ELSE end
  IN  IF upto > from THEN SubSeq(s, from + 1, upto) ELSE <<>>

AnySlice(s) == {clamp_slice(s, i, j) : i, j \in -1..(MaxLen + 1)}

kod_array_slice ==
  /\ Running
  /\ \E h \in Of("array") : \E s \in AnySlice(SeqOf(h)) : NewArray(s)

\* Mutant: the header is copied and the buffer shared, with its room.
kod_array_copy_shared ==
  /\ Running
  /\ \E h \in Of("array") :
       LET hdr == arena_alloc(arena, 3)
       IN  /\ Cardinality(Handles) < MaxObjs /\ hdr.arena.brk <= MaxMem
           /\ arena' = hdr.arena
           /\ mem' = Put(mem, hdr.ptr, <<Ptr(h), LenOf(h), Cap(h)>>)
           /\ objs' = [g \in Handles \cup {hdr.ptr} |-> IF g = hdr.ptr THEN "array" ELSE objs[g]]
  /\ UNCHANGED panicked

kod_array_copy == Running /\ \E h \in Of("array") : NewArray(SeqOf(h))

kod_array_concat_new ==
  Running /\ \E h, g \in Of("array") : NewArray(SeqOf(h) \o SeqOf(g))

\* kod_str_new and a memcpy: the characters and a NUL in one allocation.
NewStr(s) ==
  LET str == arena_alloc(arena, 2 + Len(s) + 1)
  IN  /\ Cardinality(Handles) < MaxObjs /\ Len(s) <= MaxLen
      /\ str.arena.brk <= MaxMem
      /\ arena' = str.arena
      /\ mem' = Put(mem, str.ptr, <<str.ptr + 2, Len(s)>> \o s \o <<0>>)
      /\ objs' = [h \in Handles \cup {str.ptr} |-> IF h = str.ptr THEN "str" ELSE objs[h]]
      /\ UNCHANGED panicked

kod_str_slice ==
  /\ Running
  /\ \E h \in Of("str") : \E s \in AnySlice(SeqOf(h)) : NewStr(s)

kod_str_concat == Running /\ \E h, g \in Of("str") : NewStr(SeqOf(h) \o SeqOf(g))

\* A string has the low eight bits of a number.
Byte(e) == e % ByteSize

kod_bytes_from_array ==
  /\ Running
  /\ \E h \in Of("array") : NewStr([i \in 1..LenOf(h) |-> Byte(SeqOf(h)[i])])

kod_sb_new == Running /\ NewObj("builder", <<>>, SbCap, SbCap)

kod_sb_to_str == Running /\ \E h \in Of("builder") : NewStr(SeqOf(h))

-----------------------------------------------------------------------------
(* Changing values in place.                                                 *)

\* The capacity after each turn of the doubling loop, and the one it stops at.
Doublings(cap, need) ==
  LET c[k \in 0..need] == IF k = 0 THEN cap ELSE c[k - 1] * 2
  IN  c
Doubled(cap, need) ==
  LET c == Doublings(cap, need)
  IN  c[CHOOSE k \in 0..need : c[k] >= need /\ \A j \in 0..(k - 1) : c[j] < need]

\* The header of h and its buffer, grown if need does not fit.
Grown(h, need, base) ==
  LET cap == Doubled(IF Cap(h) > 0 THEN Cap(h) ELSE base, need)
      buf == arena_alloc(arena, cap)
  IN  IF need <= Cap(h)
      THEN [arena |-> arena, mem |-> mem]
      ELSE [arena |-> buf.arena,
            mem |-> Put(Put(mem, buf.ptr, SeqOf(h)), h, <<buf.ptr, LenOf(h), cap>>)]

\* Append s to h in place.
AppendTo(h, s, base) ==
  LET need == LenOf(h) + Len(s)
      g == Grown(h, need, base)
  IN  /\ need <= MaxLen /\ g.arena.brk <= MaxMem
      /\ arena' = g.arena
      /\ mem' = Put(Put(g.mem, g.mem[h] + LenOf(h), s), h + 1, <<need>>)
      /\ UNCHANGED <<objs, panicked>>

\* The n elements that a loop reads upwards from `from` while it writes them
\* upwards from `to`: one it has already overwritten is what it wrote there.
CopyLoop(m, to, from, n) ==
  LET read[i \in 1..n] == IF from + i - 1 \in to..(to + i - 2)
                          THEN read[from + i - to] ELSE m[from + i - 1]
  IN  read

\* Mutant: h has its new length before the loop, which asks for the length of r.
AppendFrom_length_first(h, r, base) ==
  LET need == LenOf(h) + LenOf(r)
      g == Grown(h, need, base)
      n == IF r = h THEN need ELSE g.mem[r + 1]
  IN  /\ need <= MaxLen /\ g.arena.brk <= MaxMem
      /\ AppendTo(h, CopyLoop(g.mem, g.mem[h] + LenOf(h), g.mem[r], n), base)

\* Append the contents of r, which may be h: h is grown first, and the loop then
\* goes through the pointer and the length that r has after that.
AppendFrom(h, r, base) ==
  LET need == LenOf(h) + LenOf(r)
      g == Grown(h, need, base)
  IN  /\ need <= MaxLen /\ g.arena.brk <= MaxMem
      /\ AppendTo(h, CopyLoop(g.mem, g.mem[h] + LenOf(h), g.mem[r], g.mem[r + 1]), base)

\* `xs += ys`; ys may be xs.
kod_array_concat ==
  Running /\ \E h, r \in Of("array") : AppendFrom(h, r, ArrayCap)

\* Mutant: only the sum itself is kept from overflowing.
TooLarge_sum(h, extra) == extra > MaxInt - LenOf(h)

\* kod_sb_reserve's limit leaves room for the doubling.
TooLarge(h, extra) == extra > MaxInt \div 4 - LenOf(h)

Panic == panicked' = TRUE /\ UNCHANGED <<arena, mem, objs>>

kod_sb_append ==
  /\ Running
  /\ \E h \in Of("builder"), s \in Of("str") :
       IF TooLarge(h, LenOf(s)) THEN Panic ELSE AppendFrom(h, s, SbCap)

kod_sb_append_byte ==
  /\ Running
  /\ \E h \in Of("builder"), e \in Elem :
       IF TooLarge(h, 1) THEN Panic ELSE AppendTo(h, <<Byte(e)>>, SbCap)

kod_sb_clear ==
  /\ Running
  /\ \E h \in Of("builder") : mem' = Put(mem, h + 1, <<0>>)
  /\ UNCHANGED <<arena, objs, panicked>>

InBounds(h, i) == i \in 0..(LenOf(h) - 1)

\* `xs[i] = e`: a negative index counts from the end, and one out of bounds is
\* kod_index_oob.
index_store ==
  /\ Running
  /\ \E h \in Of("array"), i \in -(MaxLen + 1)..MaxLen, e \in Elem :
       LET at == IF i < 0 THEN i + LenOf(h) ELSE i
       IN  IF InBounds(h, at)
           THEN mem' = Put(mem, Ptr(h) + at, <<e>>) /\ UNCHANGED <<arena, objs, panicked>>
           ELSE Panic

\* arena_reset: every block is freed, and the caller lets go of every handle.
arena_reset ==
  /\ Running
  /\ arena' = Empty /\ objs' = <<>> /\ mem' = [a \in DOMAIN mem |-> 0]
  /\ UNCHANGED panicked

Stopped == panicked /\ UNCHANGED vars

Next ==
  \/ ArrayLit \/ kod_array_slice \/ kod_array_copy \/ kod_array_concat_new
  \/ kod_array_concat \/ index_store
  \/ kod_str_slice \/ kod_str_concat \/ kod_bytes_from_array
  \/ kod_sb_new \/ kod_sb_append \/ kod_sb_append_byte \/ kod_sb_clear \/ kod_sb_to_str
  \/ arena_reset \/ Stopped

Spec == Init /\ [][Next]_vars

-----------------------------------------------------------------------------
(* Properties.                                                               *)

\* The slots a value occupies: its header and its buffer, spare room included.
Header(h) == h..(h + (IF objs[h] = "str" THEN 1 ELSE 2))
Buffer(h) == Ptr(h)..(Ptr(h) + (IF objs[h] = "str" THEN LenOf(h) ELSE Cap(h) - 1))

\* No value's header or buffer overlaps another's, and all are inside the memory
\* the arena has handed out: arena_alloc never gives a slot twice, and no two
\* arrays share a buffer, whatever was copied, sliced and grown.
Disjoint ==
  /\ arena.current <= arena.end /\ arena.end <= arena.brk /\ arena.brk <= MaxMem
  /\ \A h \in Handles :
       /\ LenOf(h) <= (IF objs[h] = "str" THEN MaxLen ELSE Cap(h))
       /\ Header(h) \cup Buffer(h) \subseteq 0..(arena.brk - 1)
       /\ Header(h) \cap Buffer(h) = {}
       /\ \A g \in Handles \ {h} :
            (Header(h) \cup Buffer(h)) \cap (Header(g) \cup Buffer(g)) = {}

\* A builder's capacity stays below half of INT64_MAX however it is grown, so
\* doubling it never overflows.
CapFits == \A h \in Of("builder") : Cap(h) < 2 * (MaxInt \div 4)

\* The memory implements the values: an operation changes the value it is
\* applied to and nothing else, so a string never changes once made, a copy or
\* a slice is independent of its source, and `xs += xs` doubles xs.
Values == INSTANCE KodValues
            WITH vals <- [h \in Handles |-> [kind |-> objs[h], seq |-> SeqOf(h)]]
ValuesKept == Values!Spec
=============================================================================
