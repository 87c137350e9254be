---------------------------- MODULE KodHeap_proofs ----------------------------
(***************************************************************************)
(* Proofs about KodHeap: values never share memory, a builder's capacity   *)
(* never overflows, and the memory implements the values of KodValues.     *)
(***************************************************************************)
EXTENDS KodHeap, SequenceTheorems, WellFoundedInduction, TLAPS

-----------------------------------------------------------------------------
(* The doubling loop.                                                        *)

\* A set of numbers that is not empty has a least member.
LEMMA LeastMember ==
  ASSUME NEW S, S \subseteq Nat, S # {}
  PROVE  \E d \in S : \A e \in S : d <= e
<1>1. PICK d \in S : \A e \in S : ~(<<e, d>> \in OpToRel(<, Nat))
  BY NatLessThanWellFounded, WFMin
<1>2. ASSUME NEW e \in S PROVE ~(e < d)
  BY <1>1 DEF OpToRel
<1>3. \A e \in S : d <= e
  BY <1>2
<1> QED
  BY <1>3

\* f lists the capacities of the first n turns of the loop; every turn adds at
\* least one.
Turns(f, cap, n) ==
  /\ f \in [0..n -> Nat]
  /\ f = [k \in 0..n |-> IF k = 0 THEN cap ELSE f[k - 1] * 2]
  /\ \A k \in 0..n : f[k] >= k + 1

\* The list exists for any number of turns.
LEMMA TurnsExist ==
  ASSUME NEW cap \in Nat \ {0}, NEW need \in Nat
  PROVE  \E f : Turns(f, cap, need)
<1> DEFINE T == {n \in Nat : ~ \E f : Turns(f, cap, n)}
<1>1. SUFFICES ASSUME T # {} PROVE FALSE
  OBVIOUS
<1>2. PICK n \in T : \A m \in T : n <= m
  <2> HIDE DEF T
  <2>1. T \subseteq Nat
    BY DEF T
  <2> QED
    BY <1>1, <2>1, LeastMember
<1>3. n # 0
  <2>1. Turns([k \in 0..0 |-> cap], cap, 0)
    BY DEF Turns
  <2> QED
    BY <2>1
<1>4. n - 1 \in Nat /\ n - 1 \notin T
  BY <1>2, <1>3
<1>5. PICK f : Turns(f, cap, n - 1)
  BY <1>4
<1> DEFINE g == [k \in 0..n |-> IF k = n THEN f[n - 1] * 2 ELSE f[k]]
<1>6. Turns(g, cap, n)
  <2>0. n \in Nat \ {0} /\ n - 1 \in 0..(n - 1) /\ (n - 1) + 1 = n
    BY <1>2, <1>3
  <2>1. n \in Nat \ {0} /\ f \in [0..(n - 1) -> Nat] /\ f[n - 1] >= n
    BY <1>5, <2>0 DEF Turns
  <2>2. g \in [0..n -> Nat]
    BY <2>1
  <2>3. ASSUME NEW k \in 0..n
        PROVE  g[k] = (IF k = 0 THEN cap ELSE g[k - 1] * 2) /\ g[k] >= k + 1
    <3>1. CASE k = n
      BY <2>1, <3>1
    <3>2. CASE k # n
      <4>1. k \in 0..(n - 1) /\ g[k] = f[k] /\ (k # 0 => g[k - 1] = f[k - 1])
        BY <2>1, <3>2
      <4>2. f[k] = (IF k = 0 THEN cap ELSE f[k - 1] * 2) /\ f[k] >= k + 1
        BY <1>5, <4>1 DEF Turns
      <4> QED
        BY <4>1, <4>2
    <3> QED
      BY <3>1, <3>2
  <2> HIDE DEF g
  <2>4. g = [k \in 0..n |-> IF k = 0 THEN cap ELSE g[k - 1] * 2]
    BY <2>2, <2>3
  <2> QED
    BY <2>2, <2>3, <2>4 DEF Turns
<1> QED
  BY <1>2, <1>6

\* The list is the one the model computes.
LEMMA DoublingsAreTurns ==
  ASSUME NEW cap \in Nat \ {0}, NEW need \in Nat
  PROVE  Turns(Doublings(cap, need), cap, need)
<1>1. PICK f : Turns(f, cap, need)
  BY TurnsExist
<1> DEFINE c == Doublings(cap, need)
<1>2. c = CHOOSE g : g = [k \in 0..need |-> IF k = 0 THEN cap ELSE g[k - 1] * 2]
  BY DEF Doublings
<1>3. c = [k \in 0..need |-> IF k = 0 THEN cap ELSE c[k - 1] * 2]
  BY <1>1, <1>2 DEF Turns
<1> HIDE DEF c
<1> DEFINE D == {k \in 0..need : c[k] # f[k]}
<1>4. D = {}
  <2> SUFFICES ASSUME D # {} PROVE FALSE
    OBVIOUS
  <2>1. PICK k \in D : \A j \in D : k <= j
    <3> HIDE DEF D
    <3>1. D \subseteq Nat
      BY DEF D
    <3> QED
      BY <3>1, LeastMember
  <2>2. k # 0
    BY <1>1, <1>3 DEF Turns
  <2>3. k - 1 \in 0..need /\ c[k - 1] = f[k - 1]
    BY <2>1, <2>2
  <2> QED
    BY <1>1, <1>3, <2>1, <2>2, <2>3 DEF Turns
<1>5. c = f
  BY <1>1, <1>3, <1>4 DEF Turns
<1> QED
  BY <1>1, <1>5 DEF c

\* The loop stops at a capacity that fits need: the one it started from, or one
\* less than twice need.
LEMMA DoubledFits ==
  ASSUME NEW cap \in Nat \ {0}, NEW need \in Nat
  PROVE  /\ Doubled(cap, need) \in Nat
         /\ Doubled(cap, need) >= need
         /\ Doubled(cap, need) = cap \/ Doubled(cap, need) < 2 * need
<1> DEFINE c == Doublings(cap, need)
           K == {k \in 0..need : c[k] >= need}
<1>1. Turns(c, cap, need)
  BY DoublingsAreTurns
<1> HIDE DEF c
<1>2. need \in K
  BY <1>1 DEF Turns
<1>3. PICK k \in K : \A j \in K : k <= j
  <2> HIDE DEF K
  <2>1. K \subseteq Nat
    BY DEF K
  <2> QED
    BY <1>2, <2>1, LeastMember
<1>4. \A j \in 0..(k - 1) : c[j] < need
  BY <1>1, <1>3 DEF Turns
<1> DEFINE stop == CHOOSE i \in 0..need : c[i] >= need /\ \A j \in 0..(i - 1) : c[j] < need
<1>5. stop \in 0..need /\ c[stop] >= need /\ \A j \in 0..(stop - 1) : c[j] < need
  BY <1>3, <1>4
<1>6. Doubled(cap, need) = c[stop]
  BY DEF Doubled, c
<1> HIDE DEF stop
<1>7. c[stop] \in Nat /\ c[stop] = IF stop = 0 THEN cap ELSE c[stop - 1] * 2
  BY <1>1, <1>5 DEF Turns
<1>8. stop # 0 => c[stop - 1] < need /\ c[stop - 1] \in Nat
  <2> SUFFICES ASSUME stop # 0 PROVE c[stop - 1] < need /\ c[stop - 1] \in Nat
    OBVIOUS
  <2>1. stop - 1 \in 0..(stop - 1) /\ stop - 1 \in 0..need
    BY <1>5
  <2> QED
    BY <1>1, <1>5, <2>1 DEF Turns
<1> QED
  BY <1>5, <1>6, <1>7, <1>8

-----------------------------------------------------------------------------
(* The arena and the memory.                                                 *)

Memory == [0..(MaxMem - 1) -> Nat]

ArenaOK(ar) ==
  /\ ar \in [current : Nat, end : Nat, brk : Nat]
  /\ ar.current <= ar.end /\ ar.end <= ar.brk

\* The slots arena_alloc will not hand out again: what malloc has given the arena,
\* without the rest of the current block.
Used(ar) == (0..(ar.brk - 1)) \ (ar.current..(ar.end - 1))

\* arena_alloc hands out slots that were not used, and they are used from then on.
LEMMA AllocIsFresh ==
  ASSUME NEW ar, ArenaOK(ar), NEW size \in Nat, NEW r, r = arena_alloc(ar, size)
  PROVE  /\ ArenaOK(r.arena) /\ r.ptr \in Nat /\ r.ptr + size <= r.arena.brk
         /\ ar.brk <= r.arena.brk
         /\ Used(ar) \cup (r.ptr..(r.ptr + size - 1)) \subseteq Used(r.arena)
         /\ Used(ar) \cap (r.ptr..(r.ptr + size - 1)) = {}
<1> DEFINE block == Larger(BlockSize, size)
<1>1. block \in Nat /\ size <= block
  BY HeapConstants DEF Larger
<1>2. CASE ar.end = 0 \/ ar.current + size > ar.end
  <2> HIDE DEF block
  <2>1. /\ r.ptr = ar.brk
        /\ r.arena = [current |-> ar.brk + size, end |-> ar.brk + block, brk |-> ar.brk + block]
    BY <1>2 DEF arena_alloc, block
  <2>2. ArenaOK(r.arena)
    BY <1>1, <2>1 DEF ArenaOK
  <2> QED
    BY <1>1, <2>1, <2>2 DEF ArenaOK, Used
<1>3. CASE ~(ar.end = 0 \/ ar.current + size > ar.end)
  <2>1. r.ptr = ar.current /\ r.arena = [ar EXCEPT !.current = ar.current + size]
    BY <1>3 DEF arena_alloc
  <2>2. /\ ArenaOK(r.arena) /\ r.arena.current = ar.current + size
        /\ r.arena.end = ar.end /\ r.arena.brk = ar.brk
    BY <1>3, <2>1 DEF ArenaOK
  <2> QED
    BY <1>3, <2>1, <2>2 DEF ArenaOK, Used
<1> QED
  BY <1>2, <1>3

\* A copy to memory writes the slots it covers and no other.
LEMMA PutWrites ==
  ASSUME NEW m \in Memory, NEW at \in Nat, NEW s \in Seq(Nat),
         at + Len(s) <= MaxMem \/ Len(s) = 0
  PROVE  /\ Put(m, at, s) \in Memory
         /\ \A i \in 1..Len(s) : Put(m, at, s)[at + i - 1] = s[i]
         /\ \A a \in 0..(MaxMem - 1) : a \notin at..(at + Len(s) - 1) => Put(m, at, s)[a] = m[a]
<1>0. MaxMem \in Nat /\ Len(s) \in Nat /\ DOMAIN s = 1..Len(s)
  BY HeapConstants
<1>1. ASSUME NEW a \in 0..(MaxMem - 1)
      PROVE  /\ Put(m, at, s)[a] \in Nat
             /\ a \in at..(at + Len(s) - 1) => Put(m, at, s)[a] = s[a - at + 1]
             /\ a \notin at..(at + Len(s) - 1) => Put(m, at, s)[a] = m[a]
  <2>1. Put(m, at, s)[a] = IF a - at + 1 \in 1..Len(s) THEN s[a - at + 1] ELSE m[a]
    BY <1>0 DEF Put, Memory
  <2>2. a - at + 1 \in 1..Len(s) <=> a \in at..(at + Len(s) - 1)
    BY <1>0
  <2> QED
    BY <1>0, <2>1, <2>2 DEF Memory
<1>2. Put(m, at, s) \in Memory
  <2>1. Put(m, at, s) = [a \in 0..(MaxMem - 1) |-> Put(m, at, s)[a]]
    BY DEF Put, Memory
  <2> QED
    BY <1>1, <2>1 DEF Memory
<1>3. ASSUME NEW i \in 1..Len(s) PROVE Put(m, at, s)[at + i - 1] = s[i]
  <2>1. at + i - 1 \in 0..(MaxMem - 1) /\ at + i - 1 \in at..(at + Len(s) - 1)
        /\ (at + i - 1) - at + 1 = i
    BY <1>0
  <2> QED
    BY <1>1, <2>1
<1> QED
  BY <1>1, <1>2, <1>3

\* m2 is m with a header at h.
HeaderAt(m2, m, h, b, l, c) ==
  /\ m2 \in Memory /\ m2[h] = b /\ m2[h + 1] = l /\ m2[h + 2] = c
  /\ \A a \in 0..(MaxMem - 1) : a \notin h..(h + 2) => m2[a] = m[a]

\* A copy of three slots writes that.
LEMMA PutHeader ==
  ASSUME NEW m \in Memory, NEW h \in Nat, h + 3 <= MaxMem,
         NEW b \in Nat, NEW l \in Nat, NEW c \in Nat
  PROVE  HeaderAt(Put(m, h, <<b, l, c>>), m, h, b, l, c)
<1>1. PICK t : t = <<b, l, c>>
  OBVIOUS
<1>2. t \in Seq(Nat) /\ Len(t) = 3 /\ t[1] = b /\ t[2] = l /\ t[3] = c
  BY <1>1
<1>3. h + Len(t) <= MaxMem \/ Len(t) = 0
  BY <1>2
<1>4. /\ Put(m, h, t) \in Memory
      /\ \A i \in 1..Len(t) : Put(m, h, t)[h + i - 1] = t[i]
      /\ \A a \in 0..(MaxMem - 1) : a \notin h..(h + Len(t) - 1) => Put(m, h, t)[a] = m[a]
  BY <1>2, <1>3, PutWrites, Zenon
<1>5. h + 1 - 1 = h /\ h + 2 - 1 = h + 1 /\ h + 3 - 1 = h + 2
  OBVIOUS
<1>6. /\ \A i \in 1..3 : Put(m, h, t)[h + i - 1] = t[i]
      /\ \A a \in 0..(MaxMem - 1) : a \notin h..(h + 2) => Put(m, h, t)[a] = m[a]
  BY <1>2, <1>4, <1>5
<1>7. Put(m, h, t)[h] = b /\ Put(m, h, t)[h + 1] = l /\ Put(m, h, t)[h + 2] = c
  BY <1>2, <1>5, <1>6
<1> QED
  BY <1>1, <1>4, <1>6, <1>7 DEF HeaderAt

-----------------------------------------------------------------------------
(* Values and their memory.                                                  *)

Kinds == {"array", "str", "builder"}
Region(h) == Header(h) \cup Buffer(h)
Fits(h) == LenOf(h) <= (IF objs[h] = "str" THEN MaxLen ELSE Cap(h))

\* Disjoint is kept because the slots of every value stay used: what arena_alloc
\* will hand out next belongs to nobody.
HeapInv ==
  /\ ArenaOK(arena) /\ arena.brk <= MaxMem
  /\ mem \in Memory
  /\ Handles \subseteq Nat /\ objs \in [Handles -> Kinds]
  /\ \A h \in Handles :
       /\ Fits(h) /\ Region(h) \subseteq Used(arena) /\ Header(h) \cap Buffer(h) = {}
       /\ \A g \in Handles \ {h} : Region(h) \cap Region(g) = {}

\* The invariant says what Disjoint says.
LEMMA HeapIsDisjoint == HeapInv => Disjoint
  BY DEF HeapInv, Disjoint, ArenaOK, Used, Region, Fits

\* What the slots of a value hold.
LEMMA Layout ==
  ASSUME HeapInv, NEW h \in Handles
  PROVE  /\ h \in Nat /\ h + 1 < MaxMem /\ {h, h + 1} \subseteq Header(h)
         /\ objs[h] # "str" => h + 2 < MaxMem /\ h + 2 \in Header(h) /\ Cap(h) \in Nat
         /\ Ptr(h) \in Nat /\ LenOf(h) \in Nat
         /\ Ptr(h)..(Ptr(h) + LenOf(h) - 1) \subseteq Buffer(h)
         /\ Ptr(h) + LenOf(h) <= MaxMem \/ LenOf(h) = 0
         /\ SeqOf(h) \in Seq(Nat) /\ Len(SeqOf(h)) = LenOf(h)
         /\ \A i \in 1..LenOf(h) : SeqOf(h)[i] = mem[Ptr(h) + i - 1]
<1>0. MaxMem \in Nat /\ mem \in Memory /\ h \in Nat /\ arena.brk \in Nat /\ arena.brk <= MaxMem
  BY HeapConstants DEF HeapInv, ArenaOK
<1>1. Header(h) \cup Buffer(h) \subseteq 0..(arena.brk - 1)
  BY DEF HeapInv, Region, Used
<1>2. {h, h + 1} \subseteq Header(h) /\ (objs[h] # "str" => h + 2 \in Header(h))
  BY <1>0 DEF Header
<1>3. h + 1 < MaxMem /\ (objs[h] # "str" => h + 2 < MaxMem)
  BY <1>0, <1>1, <1>2
<1>4. Ptr(h) \in Nat /\ LenOf(h) \in Nat /\ (objs[h] # "str" => Cap(h) \in Nat)
  BY <1>0, <1>3 DEF Ptr, LenOf, Cap, Memory
<1>5. Ptr(h)..(Ptr(h) + LenOf(h) - 1) \subseteq Buffer(h)
  <2>1. objs[h] # "str" => LenOf(h) <= Cap(h)
    BY DEF HeapInv, Fits
  <2> QED
    BY <1>4, <2>1 DEF Buffer
<1>6. ASSUME NEW i \in 1..LenOf(h)
      PROVE  Ptr(h) + i - 1 \in 0..(MaxMem - 1) /\ mem[Ptr(h) + i - 1] \in Nat
  <2>1. Ptr(h) + i - 1 \in Ptr(h)..(Ptr(h) + LenOf(h) - 1)
    BY <1>4
  <2>2. Ptr(h) + i - 1 \in 0..(arena.brk - 1)
    BY <1>1, <1>5, <2>1
  <2> QED
    BY <1>0, <2>2 DEF Memory
<1>7. Ptr(h) + LenOf(h) <= MaxMem \/ LenOf(h) = 0
  BY <1>0, <1>4, <1>6
<1>8. SeqOf(h) = [i \in 1..LenOf(h) |-> mem[Ptr(h) + i - 1]]
  BY DEF SeqOf, Slots
<1>9. SeqOf(h) \in Seq(Nat) /\ Len(SeqOf(h)) = LenOf(h)
  <2>1. SeqOf(h) \in [1..LenOf(h) -> Nat]
    BY <1>6, <1>8
  <2> QED
    BY <1>4, <2>1
<1> QED
  BY <1>0, <1>2, <1>3, <1>4, <1>5, <1>7, <1>8, <1>9

\* A value whose slots are not written is the value it was.
Kept(g) ==
  /\ objs'[g] = objs[g] /\ SeqOf(g)' = SeqOf(g)
  /\ objs[g] # "str" => Cap(g)' = Cap(g)

\* Its slots are then the same, too.
LEMMA Untouched ==
  ASSUME HeapInv, NEW g \in Handles, objs'[g] = objs[g],
         \A a \in Region(g) : mem'[a] = mem[a]
  PROVE  /\ Kept(g) /\ Fits(g)' /\ Header(g)' = Header(g) /\ Buffer(g)' = Buffer(g)
         /\ Region(g)' = Region(g)
<1>1. /\ Ptr(g)' = Ptr(g) /\ LenOf(g)' = LenOf(g)
      /\ objs[g] # "str" => Cap(g)' = Cap(g)
  BY Layout DEF Region, Ptr, LenOf, Cap
<1>2. Header(g)' = Header(g) /\ Buffer(g)' = Buffer(g)
  BY <1>1 DEF Header, Buffer
<1>3. SeqOf(g)' = SeqOf(g)
  <2>1. ASSUME NEW i \in 1..LenOf(g) PROVE mem'[Ptr(g) + i - 1] = mem[Ptr(g) + i - 1]
    <3>1. Ptr(g) + i - 1 \in Ptr(g)..(Ptr(g) + LenOf(g) - 1)
      BY Layout
    <3> QED
      BY <3>1, Layout DEF Region
  <2> QED
    BY <1>1, <2>1 DEF SeqOf, Slots
<1>4. Fits(g)'
  BY <1>1 DEF HeapInv, Fits
<1> QED
  BY <1>1, <1>2, <1>3, <1>4 DEF Kept, Region

\* An operation that makes or rewrites one value, h, and no slot of another, keeps
\* the invariant if h ends up in used slots that are nobody else's.
LEMMA OneValue ==
  ASSUME HeapInv, NEW h \in Nat,
         ArenaOK(arena'), arena'.brk <= MaxMem, Used(arena) \subseteq Used(arena'),
         mem' \in Memory, Handles' = Handles \cup {h}, objs' \in [Handles' -> Kinds],
         \A g \in Handles \ {h} : objs'[g] = objs[g] /\ \A a \in Region(g) : mem'[a] = mem[a],
         Fits(h)', Region(h)' \subseteq Used(arena'), Header(h)' \cap Buffer(h)' = {},
         \A g \in Handles \ {h} : Region(h)' \cap Region(g) = {}
  PROVE  HeapInv' /\ \A g \in Handles \ {h} : Kept(g)
<1>1. \A g \in Handles \ {h} :
         /\ Kept(g) /\ Fits(g)' /\ Header(g)' = Header(g) /\ Buffer(g)' = Buffer(g)
         /\ Region(g)' = Region(g)
  BY Untouched
<1>2. Handles' \subseteq Nat
  BY DEF HeapInv
<1>3. ASSUME NEW g \in Handles'
      PROVE  Fits(g)' /\ Region(g)' \subseteq Used(arena') /\ Header(g)' \cap Buffer(g)' = {}
  BY <1>1 DEF HeapInv
<1>4. ASSUME NEW g \in Handles', NEW k \in Handles' \ {g} PROVE Region(g)' \cap Region(k)' = {}
  BY <1>1 DEF HeapInv
<1> QED
  BY <1>1, <1>2, <1>3, <1>4 DEF HeapInv

-----------------------------------------------------------------------------
(* Operations that make a value.                                             *)

\* There is a new value, and the others are what they were.
Made(kind, s, cap) ==
  \E h \in Nat \ Handles :
    /\ Handles' = Handles \cup {h} /\ objs'[h] = kind /\ SeqOf(h)' = s
    /\ kind # "str" => Cap(h)' = cap
    /\ \A g \in Handles : Kept(g)

\* A handle is one of the slots of its value.
LEMMA HandlesUsed == HeapInv => Handles \subseteq Used(arena)
  BY Layout DEF HeapInv, Region

\* NewObj makes a value with the contents asked for.
LEMMA NewObjMakes ==
  ASSUME HeapInv, NEW kind \in {"array", "builder"}, NEW s \in Seq(Nat), NEW room \in Nat,
         NEW cap \in Nat, Len(s) <= cap, cap <= room, NewObj(kind, s, room, cap)
  PROVE  HeapInv' /\ Made(kind, s, cap)
<1>0. MaxMem \in Nat /\ Len(s) \in Nat /\ mem \in Memory /\ ArenaOK(arena)
  BY HeapConstants DEF HeapInv
<1>1. PICK hdr : hdr = arena_alloc(arena, 3)
  OBVIOUS
<1>2. PICK buf : buf = arena_alloc(hdr.arena, room)
  OBVIOUS
<1>3. /\ ArenaOK(hdr.arena) /\ hdr.ptr \in Nat /\ hdr.ptr + 3 <= hdr.arena.brk
      /\ Used(arena) \cup (hdr.ptr..(hdr.ptr + 2)) \subseteq Used(hdr.arena)
      /\ Used(arena) \cap (hdr.ptr..(hdr.ptr + 2)) = {}
  <2>1. /\ ArenaOK(hdr.arena) /\ hdr.ptr \in Nat /\ hdr.ptr + 3 <= hdr.arena.brk
        /\ Used(arena) \cup (hdr.ptr..(hdr.ptr + 3 - 1)) \subseteq Used(hdr.arena)
        /\ Used(arena) \cap (hdr.ptr..(hdr.ptr + 3 - 1)) = {}
    BY <1>0, <1>1, AllocIsFresh
  <2>2. hdr.ptr + 3 - 1 = hdr.ptr + 2
    BY <2>1
  <2> QED
    BY <2>1, <2>2
<1>4. /\ ArenaOK(buf.arena) /\ buf.ptr \in Nat /\ buf.ptr + room <= buf.arena.brk
      /\ hdr.arena.brk <= buf.arena.brk
      /\ Used(hdr.arena) \cup (buf.ptr..(buf.ptr + room - 1)) \subseteq Used(buf.arena)
      /\ Used(hdr.arena) \cap (buf.ptr..(buf.ptr + room - 1)) = {}
  BY <1>2, <1>3, AllocIsFresh
<1>5. PICK h \in Nat, b \in Nat : h = hdr.ptr /\ b = buf.ptr
  BY <1>3, <1>4
<1> DEFINE mem1 == Put(mem, h, <<b, Len(s), cap>>)
<1>6. /\ arena' = buf.arena /\ arena'.brk <= MaxMem
      /\ mem' = Put(mem1, b, s)
      /\ objs' = [g \in Handles \cup {h} |-> IF g = h THEN kind ELSE objs[g]]
      /\ Len(s) <= MaxLen
  BY <1>1, <1>2, <1>5 DEF NewObj
<1>7. h + 3 <= MaxMem /\ b + Len(s) <= MaxMem /\ b + cap <= MaxMem
  <2>1. hdr.arena.brk \in Nat /\ buf.arena.brk \in Nat /\ buf.arena.brk <= MaxMem
    BY <1>3, <1>4, <1>6 DEF ArenaOK
  <2>2. h + 3 <= hdr.arena.brk /\ hdr.arena.brk <= buf.arena.brk /\ b + room <= buf.arena.brk
    BY <1>3, <1>4, <1>5
  <2> QED
    BY <1>0, <2>1, <2>2
<1>8. /\ mem1 \in Memory /\ mem1[h] = b /\ mem1[h + 1] = Len(s) /\ mem1[h + 2] = cap
      /\ \A a \in 0..(MaxMem - 1) : a \notin h..(h + 2) => mem1[a] = mem[a]
  <2>1. HeaderAt(mem1, mem, h, b, Len(s), cap)
    BY <1>0, <1>7, PutHeader
  <2> QED
    BY <2>1 DEF HeaderAt
<1> HIDE DEF mem1
<1>9. /\ mem' \in Memory /\ \A i \in 1..Len(s) : mem'[b + i - 1] = s[i]
      /\ \A a \in 0..(MaxMem - 1) : a \notin b..(b + Len(s) - 1) => mem'[a] = mem1[a]
  <2>1. b + Len(s) <= MaxMem \/ Len(s) = 0
    BY <1>7
  <2>2. /\ Put(mem1, b, s) \in Memory /\ \A i \in 1..Len(s) : Put(mem1, b, s)[b + i - 1] = s[i]
        /\ \A a \in 0..(MaxMem - 1) : a \notin b..(b + Len(s) - 1) => Put(mem1, b, s)[a] = mem1[a]
    BY <1>8, <2>1, PutWrites, Zenon
  <2> QED
    BY <1>6, <2>2, Zenon
<1>10. b..(b + Len(s) - 1) \subseteq b..(b + room - 1) /\ b..(b + cap - 1) \subseteq b..(b + room - 1)
  BY <1>0
<1>11. h..(h + 2) \subseteq Used(hdr.arena) /\ h..(h + 2) \cap b..(b + room - 1) = {}
  BY <1>3, <1>4, <1>5
<1>12. \A a \in Used(arena) : mem'[a] = mem[a]
  <2>1. Used(arena) \subseteq 0..(MaxMem - 1)
    BY <1>0 DEF Used, ArenaOK, HeapInv
  <2> QED
    BY <1>3, <1>4, <1>5, <1>8, <1>9, <1>10, <2>1
<1>13. h \notin Handles
  BY <1>3, <1>5, HandlesUsed
<1>14. mem'[h] = b /\ mem'[h + 1] = Len(s) /\ mem'[h + 2] = cap
  <2>1. {h, h + 1, h + 2} \subseteq h..(h + 2) /\ {h, h + 1, h + 2} \subseteq 0..(MaxMem - 1)
    BY <1>0, <1>7
  <2>2. \A a \in {h, h + 1, h + 2} : mem'[a] = mem1[a]
    BY <1>9, <1>10, <1>11, <2>1
  <2> QED
    BY <1>8, <2>2
<1>15. /\ Handles' = Handles \cup {h} /\ objs'[h] = kind /\ objs' \in [Handles' -> Kinds]
       /\ \A g \in Handles : objs'[g] = objs[g]
  BY <1>6, <1>13 DEF Handles, HeapInv, Kinds
<1>16. /\ Ptr(h)' = b /\ LenOf(h)' = Len(s) /\ Cap(h)' = cap /\ Fits(h)'
       /\ Header(h)' = h..(h + 2) /\ Buffer(h)' = b..(b + cap - 1)
  BY <1>14, <1>15 DEF Ptr, LenOf, Cap, Fits, Header, Buffer
<1>17. SeqOf(h)' = s
  <2>1. SeqOf(h)' = [i \in 1..Len(s) |-> mem'[b + i - 1]]
    BY <1>16 DEF SeqOf, Slots
  <2> QED
    BY <1>9, <2>1
<1>18. /\ Region(h)' \subseteq Used(arena') /\ Header(h)' \cap Buffer(h)' = {}
       /\ Region(h)' \cap Used(arena) = {}
  BY <1>3, <1>4, <1>5, <1>6, <1>10, <1>11, <1>16 DEF Region
<1>19. \A g \in Handles : Region(g) \subseteq Used(arena)
  BY DEF HeapInv
<1>20. HeapInv' /\ \A g \in Handles \ {h} : Kept(g)
  BY <1>3, <1>4, <1>6, <1>9, <1>12, <1>15, <1>16, <1>18, <1>19, OneValue
<1> QED
  BY <1>13, <1>15, <1>16, <1>17, <1>20 DEF Made

\* The members of two sequences in a row.
LEMMA InARow ==
  ASSUME NEW s \in Seq(Nat), NEW t \in Seq(Nat)
  PROVE  /\ s \o t \in Seq(Nat) /\ Len(s \o t) = Len(s) + Len(t)
         /\ \A i \in 1..Len(s) : (s \o t)[i] = s[i]
         /\ \A i \in 1..Len(t) : (s \o t)[i + Len(s)] = t[i]
  OBVIOUS

\* What an inline string's allocation holds: the header, the characters, a NUL.
LEMMA StringSlots ==
  ASSUME NEW h \in Nat, NEW s \in Seq(Nat), NEW t, t = <<h + 2, Len(s)>> \o s \o << 0 >>
  PROVE  /\ t \in Seq(Nat) /\ Len(t) = Len(s) + 3 /\ t[1] = h + 2 /\ t[2] = Len(s)
         /\ \A i \in 1..Len(s) : t[i + 2] = s[i]
<1>1. PICK u : u = <<h + 2, Len(s)>> \o s
  OBVIOUS
<1>2. PICK v : v = <<h + 2, Len(s)>>
  OBVIOUS
<1>3. v \in Seq(Nat) /\ Len(v) = 2 /\ v[1] = h + 2 /\ v[2] = Len(s) /\ Len(s) \in Nat
  BY <1>2
<1>4. /\ u \in Seq(Nat) /\ Len(u) = Len(s) + 2 /\ u[1] = h + 2 /\ u[2] = Len(s)
      /\ \A i \in 1..Len(s) : u[i + 2] = s[i]
  <2>1. u = v \o s
    BY <1>1, <1>2
  <2>2. /\ u \in Seq(Nat) /\ Len(u) = Len(v) + Len(s) /\ \A i \in 1..Len(v) : u[i] = v[i]
        /\ \A i \in 1..Len(s) : u[i + Len(v)] = s[i]
    BY <1>3, <2>1, InARow
  <2> QED
    BY <1>3, <2>2
<1>5. t = u \o << 0 >>
  BY <1>1
<1>6. t \in Seq(Nat) /\ Len(t) = Len(u) + 1 /\ \A i \in 1..Len(u) : t[i] = u[i]
  <2>1. << 0 >> \in Seq(Nat) /\ Len(<< 0 >>) = 1
    OBVIOUS
  <2> QED
    BY <1>4, <1>5, <2>1, InARow
<1> QED
  BY <1>3, <1>4, <1>6

\* NewStr makes a string with the characters asked for.
LEMMA NewStrMakes ==
  ASSUME HeapInv, NEW s \in Seq(Nat), NewStr(s)
  PROVE  HeapInv' /\ Made("str", s, 0)
<1>0. MaxMem \in Nat /\ MaxLen \in Nat /\ Len(s) \in Nat /\ mem \in Memory /\ ArenaOK(arena)
  BY HeapConstants DEF HeapInv
<1>1. PICK str : str = arena_alloc(arena, 2 + Len(s) + 1)
  OBVIOUS
<1>2. /\ ArenaOK(str.arena) /\ str.ptr \in Nat /\ str.ptr + (2 + Len(s) + 1) <= str.arena.brk
      /\ Used(arena) \cup (str.ptr..(str.ptr + (2 + Len(s) + 1) - 1)) \subseteq Used(str.arena)
      /\ Used(arena) \cap (str.ptr..(str.ptr + (2 + Len(s) + 1) - 1)) = {}
  <2>1. PICK n \in Nat : n = 2 + Len(s) + 1
    BY <1>0
  <2>2. str = arena_alloc(arena, n)
    BY <1>1, <2>1
  <2>3. /\ ArenaOK(str.arena) /\ str.ptr \in Nat /\ str.ptr + n <= str.arena.brk
        /\ Used(arena) \cup (str.ptr..(str.ptr + n - 1)) \subseteq Used(str.arena)
        /\ Used(arena) \cap (str.ptr..(str.ptr + n - 1)) = {}
    BY <1>0, <2>2, AllocIsFresh
  <2> QED
    BY <2>1, <2>3
<1>3. PICK h \in Nat : h = str.ptr
  BY <1>2
<1>4. PICK t : t = <<h + 2, Len(s)>> \o s \o << 0 >>
  OBVIOUS
<1>5. /\ t \in Seq(Nat) /\ Len(t) = Len(s) + 3 /\ t[1] = h + 2 /\ t[2] = Len(s)
      /\ \A i \in 1..Len(s) : t[i + 2] = s[i]
  BY <1>4, StringSlots
<1>6. /\ arena' = str.arena /\ arena'.brk <= MaxMem /\ mem' = Put(mem, h, t)
      /\ objs' = [g \in Handles \cup {h} |-> IF g = h THEN "str" ELSE objs[g]]
      /\ Len(s) <= MaxLen
  BY <1>1, <1>3, <1>4 DEF NewStr
<1>7. /\ Used(arena) \cup (h..(h + 2 + Len(s))) \subseteq Used(arena')
      /\ Used(arena) \cap (h..(h + 2 + Len(s))) = {}
      /\ h + Len(t) <= MaxMem
  <2>1. h + (2 + Len(s) + 1) - 1 = h + 2 + Len(s) /\ h + Len(t) = h + (2 + Len(s) + 1)
    BY <1>0, <1>5
  <2>2. str.arena.brk \in Nat /\ str.arena.brk <= MaxMem
    BY <1>2, <1>6 DEF ArenaOK
  <2>3. h + (2 + Len(s) + 1) <= str.arena.brk
    BY <1>2, <1>3
  <2>4. h + Len(t) <= MaxMem
    BY <1>0, <2>1, <2>2, <2>3
  <2> QED
    BY <1>2, <1>3, <1>6, <2>1, <2>4, Zenon
<1>8. /\ mem' \in Memory /\ \A i \in 1..Len(t) : mem'[h + i - 1] = t[i]
      /\ \A a \in 0..(MaxMem - 1) : a \notin h..(h + Len(t) - 1) => mem'[a] = mem[a]
  <2>1. h + Len(t) <= MaxMem \/ Len(t) = 0
    BY <1>7
  <2>2. t \in Seq(Nat) /\ mem \in Memory
    BY <1>0, <1>5
  <2>3. /\ Put(mem, h, t) \in Memory /\ \A i \in 1..Len(t) : Put(mem, h, t)[h + i - 1] = t[i]
        /\ \A a \in 0..(MaxMem - 1) : a \notin h..(h + Len(t) - 1) => Put(mem, h, t)[a] = mem[a]
    BY <2>1, <2>2, PutWrites, Zenon
  <2> QED
    BY <1>6, <2>3, Zenon
<1>9. h + Len(t) - 1 = h + 2 + Len(s)
  BY <1>0, <1>5
<1>10. \A a \in Used(arena) : mem'[a] = mem[a]
  <2>1. Used(arena) \subseteq 0..(MaxMem - 1)
    BY <1>0 DEF Used, ArenaOK, HeapInv
  <2> QED
    BY <1>7, <1>8, <1>9, <2>1
<1>11. h \notin Handles
  <2>1. h \in h..(h + 2 + Len(s))
    BY <1>0
  <2> QED
    BY <1>7, <2>1, HandlesUsed
<1>12. mem'[h] = h + 2 /\ mem'[h + 1] = Len(s)
  <2>1. 1 \in 1..Len(t) /\ 2 \in 1..Len(t) /\ h + 1 - 1 = h /\ h + 2 - 1 = h + 1
    BY <1>0, <1>5
  <2> QED
    BY <1>5, <1>8, <2>1
<1>13. \A i \in 1..Len(s) : mem'[(h + 2) + i - 1] = s[i]
  <2> SUFFICES ASSUME NEW i \in 1..Len(s) PROVE mem'[(h + 2) + i - 1] = s[i]
    OBVIOUS
  <2>1. i + 2 \in 1..Len(t) /\ h + (i + 2) - 1 = (h + 2) + i - 1
    BY <1>0, <1>5
  <2> QED
    BY <1>5, <1>8, <2>1
<1>14. /\ Handles' = Handles \cup {h} /\ objs'[h] = "str" /\ objs' \in [Handles' -> Kinds]
       /\ \A g \in Handles : objs'[g] = objs[g]
  BY <1>6, <1>11 DEF Handles, HeapInv, Kinds
<1>15. /\ Ptr(h)' = h + 2 /\ LenOf(h)' = Len(s) /\ Fits(h)'
       /\ Header(h)' = h..(h + 1) /\ Buffer(h)' = (h + 2)..(h + 2 + Len(s))
  BY <1>6, <1>12, <1>14 DEF Ptr, LenOf, Fits, Header, Buffer
<1>16. SeqOf(h)' = s
  <2>1. SeqOf(h)' = [i \in 1..Len(s) |-> mem'[(h + 2) + i - 1]]
    BY <1>15 DEF SeqOf, Slots
  <2> QED
    BY <1>13, <2>1
<1>17. /\ Header(h)' \cap Buffer(h)' = {} /\ Region(h)' \subseteq h..(h + 2 + Len(s))
  BY <1>0, <1>15 DEF Region
<1>18. \A g \in Handles : Region(g) \subseteq Used(arena)
  BY DEF HeapInv
<1>19. HeapInv' /\ \A g \in Handles \ {h} : Kept(g)
  BY <1>2, <1>6, <1>7, <1>8, <1>10, <1>14, <1>15, <1>17, <1>18, OneValue
<1> QED
  BY <1>11, <1>14, <1>16, <1>19 DEF Made

-----------------------------------------------------------------------------
(* Operations that change a value in place.                                  *)

\* h stands for s now, and the others are what they were.
Changed(h, s) ==
  /\ UNCHANGED objs /\ SeqOf(h)' = s
  /\ \A g \in Handles \ {h} : Kept(g)

\* In memory m the contents of h are in the buffer of c slots at p, which is
\* nobody else's.
Ready(h, m, p, c) ==
  /\ m \in Memory /\ p \in Nat /\ c \in Nat /\ LenOf(h) <= c
  /\ p + c <= MaxMem \/ c = 0
  /\ m[h] = p /\ m[h + 1] = LenOf(h) /\ m[h + 2] = c
  /\ \A i \in 1..LenOf(h) : m[p + i - 1] = SeqOf(h)[i]
  /\ h..(h + 2) \cap p..(p + c - 1) = {}
  /\ \A g \in Handles \ {h} : /\ Region(g) \cap p..(p + c - 1) = {}
                              /\ \A a \in Region(g) : m[a] = mem[a]

\* The header of an array or a builder is three slots that are nobody else's.
LEMMA HeaderSlots ==
  ASSUME HeapInv, NEW h \in Handles, objs[h] # "str"
  PROVE  /\ h \in Nat /\ h + 3 <= MaxMem /\ Header(h) = h..(h + 2)
         /\ h..(h + 2) \subseteq Used(arena)
         /\ \A g \in Handles \ {h} : Region(g) \cap h..(h + 2) = {}
<1>1. h \in Nat /\ h + 2 < MaxMem /\ MaxMem \in Nat
  BY Layout, HeapConstants
<1>2. Header(h) = h..(h + 2)
  BY DEF Header
<1>3. Header(h) \subseteq Region(h) /\ Region(h) \subseteq Used(arena)
      /\ \A g \in Handles \ {h} : Region(h) \cap Region(g) = {}
  BY DEF HeapInv, Region
<1>4. h + 3 <= MaxMem
  BY <1>1
<1> QED
  BY <1>1, <1>2, <1>3, <1>4, Zenon

\* Before an operation the buffer is the one the header points to.
LEMMA ReadyAsIs ==
  ASSUME HeapInv, NEW h \in Handles, objs[h] # "str"
  PROVE  /\ Ready(h, mem, Ptr(h), Cap(h))
         /\ Ptr(h)..(Ptr(h) + Cap(h) - 1) \subseteq Used(arena)
<1>1. /\ mem \in Memory /\ Ptr(h) \in Nat /\ Cap(h) \in Nat /\ LenOf(h) \in Nat
      /\ LenOf(h) <= Cap(h)
  BY Layout DEF HeapInv, Fits
<1>2. Buffer(h) = Ptr(h)..(Ptr(h) + Cap(h) - 1)
  <2>1. Ptr(h) + (Cap(h) - 1) = Ptr(h) + Cap(h) - 1
    BY <1>1
  <2> QED
    BY <2>1 DEF Buffer
<1>3. /\ Buffer(h) \subseteq Used(arena) /\ Header(h) \cap Buffer(h) = {}
      /\ \A g \in Handles \ {h} : Region(g) \cap Buffer(h) = {}
  BY DEF HeapInv, Region
<1>4. Ptr(h) + Cap(h) <= MaxMem \/ Cap(h) = 0
  <2> SUFFICES ASSUME Cap(h) # 0 PROVE Ptr(h) + Cap(h) <= MaxMem
    OBVIOUS
  <2>1. Ptr(h) + Cap(h) - 1 \in Ptr(h)..(Ptr(h) + Cap(h) - 1)
    BY <1>1
  <2>2. Ptr(h) + Cap(h) - 1 \in 0..(arena.brk - 1)
    BY <1>2, <1>3, <2>1 DEF Used
  <2>3. arena.brk \in Nat /\ arena.brk <= MaxMem /\ MaxMem \in Nat
    BY HeapConstants DEF HeapInv, ArenaOK
  <2> QED
    BY <1>1, <2>2, <2>3
<1>5. mem[h] = Ptr(h) /\ mem[h + 1] = LenOf(h) /\ mem[h + 2] = Cap(h)
  BY DEF Ptr, LenOf, Cap
<1>6. \A i \in 1..LenOf(h) : mem[Ptr(h) + i - 1] = SeqOf(h)[i]
  BY Layout
<1>7. h..(h + 2) \cap Ptr(h)..(Ptr(h) + Cap(h) - 1) = {}
  BY <1>2, <1>3, HeaderSlots, Zenon
<1>8. \A g \in Handles \ {h} : Region(g) \cap Ptr(h)..(Ptr(h) + Cap(h) - 1) = {}
  BY <1>2, <1>3, Zenon
<1> QED
  BY <1>1, <1>2, <1>3, <1>4, <1>5, <1>6, <1>7, <1>8 DEF Ready

\* The step writes s behind the contents of h in such a buffer, and the length.
Writes(h, s, m, p, c) ==
  /\ Ready(h, m, p, c) /\ LenOf(h) + Len(s) <= c
  /\ mem' = Put(Put(m, p + LenOf(h), s), h + 1, <<LenOf(h) + Len(s)>>)
  /\ UNCHANGED objs /\ ArenaOK(arena') /\ arena'.brk <= MaxMem
  /\ Used(arena) \cup p..(p + c - 1) \subseteq Used(arena')

\* The slots behind the first l of a buffer, where k more fit.
LEMMA Spans ==
  ASSUME NEW p \in Nat, NEW c \in Nat, NEW l \in Nat, NEW k \in Nat, l + k <= c,
         NEW M \in Nat, p + c <= M \/ c = 0
  PROVE  /\ p + l \in Nat /\ ((p + l) + k <= M \/ k = 0)
         /\ (p + l)..((p + l) + k - 1) \subseteq p..(p + c - 1)
         /\ \A i \in 1..l : /\ p + i - 1 \in p..(p + c - 1) /\ p + i - 1 \in 0..(M - 1)
                            /\ p + i - 1 \notin (p + l)..((p + l) + k - 1)
         /\ \A i \in 1..k : /\ (p + l) + i - 1 \in p..(p + c - 1)
                            /\ (p + l) + i - 1 \in 0..(M - 1)
  OBVIOUS

\* A header at h and, apart from it, a buffer of c slots at p with room for k more
\* than its first l.
Space(h, p, c, l, k) ==
  /\ l + k <= c /\ (p + c <= MaxMem \/ c = 0) /\ h + 3 <= MaxMem
  /\ h..(h + 2) \cap p..(p + c - 1) = {}

\* m2 is m with s behind the first l slots of the buffer, and the new length.
Appended(m2, m, h, p, c, l, s) ==
  /\ m2 \in Memory /\ m2[h] = m[h] /\ m2[h + 1] = l + Len(s) /\ m2[h + 2] = m[h + 2]
  /\ \A i \in 1..l : m2[p + i - 1] = m[p + i - 1]
  /\ \A i \in 1..Len(s) : m2[(p + l) + i - 1] = s[i]
  /\ \A a \in 0..(MaxMem - 1) : a \notin h..(h + 2) \cup p..(p + c - 1) => m2[a] = m[a]

\* The two copies of an append write that.
LEMMA TwoWrites ==
  ASSUME NEW m \in Memory, NEW h \in Nat, NEW p \in Nat, NEW c \in Nat, NEW l \in Nat,
         NEW s \in Seq(Nat), Space(h, p, c, l, Len(s))
  PROVE  Appended(Put(Put(m, p + l, s), h + 1, <<l + Len(s)>>), m, h, p, c, l, s)
<1> DEFINE m3 == Put(Put(m, p + l, s), h + 1, <<l + Len(s)>>)
<1>18. PICK m2 : m2 = m3
  OBVIOUS
<1>0. /\ MaxMem \in Nat /\ Len(s) \in Nat /\ l + Len(s) <= c
      /\ p + c <= MaxMem \/ c = 0
      /\ h + 3 <= MaxMem /\ h..(h + 2) \cap p..(p + c - 1) = {}
  <2>1. MaxMem \in Nat /\ Len(s) \in Nat
    BY HeapConstants
  <2> QED
    BY <2>1, Zenon DEF Space
<1>1. PICK k \in Nat : k = Len(s)
  BY <1>0
<1>2. PICK q \in Nat : q = p + l
  OBVIOUS
<1>3. /\ q + k <= MaxMem \/ k = 0
      /\ q..(q + k - 1) \subseteq p..(p + c - 1)
      /\ \A i \in 1..l : /\ p + i - 1 \in p..(p + c - 1) /\ p + i - 1 \in 0..(MaxMem - 1)
                         /\ p + i - 1 \notin q..(q + k - 1)
      /\ \A i \in 1..k : q + i - 1 \in p..(p + c - 1) /\ q + i - 1 \in 0..(MaxMem - 1)
  <2>1. l + k <= c
    BY <1>0, <1>1
  <2> QED
    BY <1>0, <1>2, <2>1, Spans
<1>4. PICK m1 : m1 = Put(m, q, s)
  OBVIOUS
<1>5. /\ m1 \in Memory /\ \A i \in 1..k : m1[q + i - 1] = s[i]
      /\ \A a \in 0..(MaxMem - 1) : a \notin q..(q + k - 1) => m1[a] = m[a]
  <2>1. q + Len(s) <= MaxMem \/ Len(s) = 0
    BY <1>1, <1>3
  <2>2. /\ Put(m, q, s) \in Memory /\ \A i \in 1..Len(s) : Put(m, q, s)[q + i - 1] = s[i]
        /\ \A a \in 0..(MaxMem - 1) : a \notin q..(q + Len(s) - 1) => Put(m, q, s)[a] = m[a]
    BY <2>1, PutWrites, Zenon
  <2> QED
    BY <1>1, <1>4, <2>2
<1>6. PICK t : t = <<l + k>>
  OBVIOUS
<1>7. PICK r \in Nat : r = h + 1
  OBVIOUS
<1>8. t \in Seq(Nat) /\ Len(t) = 1 /\ t[1] = l + k /\ m2 = Put(m1, r, t)
  BY <1>1, <1>2, <1>4, <1>6, <1>7, <1>18
<1> HIDE DEF m3
<1>9. r + Len(t) <= MaxMem \/ Len(t) = 0
  BY <1>0, <1>7, <1>8
<1>10. /\ m2 \in Memory /\ \A i \in 1..Len(t) : m2[r + i - 1] = t[i]
       /\ \A a \in 0..(MaxMem - 1) : a \notin r..(r + Len(t) - 1) => m2[a] = m1[a]
  <2>1. /\ Put(m1, r, t) \in Memory /\ \A i \in 1..Len(t) : Put(m1, r, t)[r + i - 1] = t[i]
        /\ \A a \in 0..(MaxMem - 1) : a \notin r..(r + Len(t) - 1) => Put(m1, r, t)[a] = m1[a]
    BY <1>5, <1>8, <1>9, PutWrites, Zenon
  <2> QED
    BY <1>8, <2>1, Zenon
<1>11. r + 1 - 1 = r /\ 1 \in 1..Len(t) /\ \A a \in r..(r + Len(t) - 1) : a = r
  BY <1>8
<1>12. m2[r] = l + k /\ \A a \in 0..(MaxMem - 1) : a # r => m2[a] = m1[a]
  BY <1>8, <1>10, <1>11
<1>13. {h, r, h + 2} \subseteq h..(h + 2) /\ h..(h + 2) \subseteq 0..(MaxMem - 1) /\ h # r /\ h + 2 # r
  BY <1>0, <1>7
<1>14. m2[h] = m[h] /\ m2[h + 2] = m[h + 2]
  BY <1>0, <1>3, <1>5, <1>12, <1>13
<1>15. \A i \in 1..l : m2[p + i - 1] = m[p + i - 1]
  BY <1>0, <1>3, <1>5, <1>12, <1>13
<1>16. \A i \in 1..k : m2[q + i - 1] = s[i]
  BY <1>0, <1>3, <1>5, <1>12, <1>13
<1>17. \A a \in 0..(MaxMem - 1) : a \notin h..(h + 2) \cup p..(p + c - 1) => m2[a] = m[a]
  BY <1>0, <1>3, <1>5, <1>12, <1>13
<1> QED
  BY <1>1, <1>2, <1>7, <1>10, <1>12, <1>14, <1>15, <1>16, <1>17, <1>18 DEF Appended, m3

\* A sequence given by its members.
LEMMA ByMembers ==
  ASSUME NEW w \in Seq(Nat), NEW f, f = [i \in 1..Len(w) |-> f[i]],
         \A i \in 1..Len(w) : f[i] = w[i]
  PROVE  f = w
  OBVIOUS

\* The members of old \o s, in a buffer that holds them in a row.
LEMMA RowOfTwo ==
  ASSUME NEW old \in Seq(Nat), NEW s \in Seq(Nat), NEW m, NEW p \in Nat,
         \A i \in 1..Len(old) : m[p + i - 1] = old[i],
         \A i \in 1..Len(s) : m[(p + Len(old)) + i - 1] = s[i]
  PROVE  Slots(m, p, Len(old) + Len(s)) = old \o s
<1>1. PICK w : w = old \o s
  OBVIOUS
<1>2. /\ w \in Seq(Nat) /\ Len(w) = Len(old) + Len(s) /\ Len(old) \in Nat /\ Len(s) \in Nat
      /\ \A i \in 1..Len(old) : w[i] = old[i]
      /\ \A i \in 1..Len(s) : w[i + Len(old)] = s[i]
  BY <1>1, InARow
<1>3. PICK l \in Nat, k \in Nat : l = Len(old) /\ k = Len(s)
  BY <1>2
<1>4. ASSUME NEW i \in 1..(l + k) PROVE m[p + i - 1] = w[i]
  <2>1. CASE i <= l
    <3>1. i \in 1..l
      BY <2>1
    <3> QED
      BY <1>2, <1>3, <3>1
  <2>2. CASE i > l
    <3>1. PICK j \in 1..k : j = i - l
      BY <2>2
    <3>2. (p + l) + j - 1 = p + i - 1 /\ i = j + l
      BY <3>1
    <3> QED
      BY <1>2, <1>3, <3>2
  <2> QED
    BY <2>1, <2>2
<1>5. Slots(m, p, Len(old) + Len(s)) = [i \in 1..Len(w) |-> m[p + i - 1]]
  BY <1>2 DEF Slots
<1>6. PICK f : f = [i \in 1..Len(w) |-> m[p + i - 1]]
  OBVIOUS
<1>7. f = [i \in 1..Len(w) |-> f[i]] /\ \A i \in 1..Len(w) : f[i] = w[i]
  BY <1>2, <1>3, <1>4, <1>6
<1>8. f = w
  BY <1>2, <1>7, ByMembers
<1> QED
  BY <1>1, <1>5, <1>6, <1>8

\* Then h is extended by s, in its own slots.
LEMMA AppendWrites ==
  ASSUME HeapInv, NEW h \in Handles, objs[h] # "str", NEW s \in Seq(Nat),
         NEW m \in Memory, NEW p \in Nat, NEW c \in Nat, Writes(h, s, m, p, c)
  PROVE  HeapInv' /\ Changed(h, SeqOf(h) \o s) /\ Cap(h)' = c
<1>1. PICK l \in Nat : l = LenOf(h)
  BY Layout
<1>2. PICK old \in Seq(Nat) : old = SeqOf(h)
  BY Layout
<1>3. Len(old) = l
  BY <1>1, <1>2, Layout
<1>4. h \in Nat /\ h + 3 <= MaxMem /\ h..(h + 2) \subseteq Used(arena)
  BY HeaderSlots
<1>5. /\ l + Len(s) <= c /\ (p + c <= MaxMem \/ c = 0) /\ m[h] = p /\ m[h + 2] = c
      /\ h..(h + 2) \cap p..(p + c - 1) = {}
      /\ \A i \in 1..l : m[p + i - 1] = old[i]
      /\ mem' = Put(Put(m, p + l, s), h + 1, <<l + Len(s)>>)
  BY <1>1, <1>2 DEF Writes, Ready
<1>6. /\ UNCHANGED objs /\ ArenaOK(arena') /\ arena'.brk <= MaxMem
      /\ Used(arena) \subseteq Used(arena') /\ p..(p + c - 1) \subseteq Used(arena')
      /\ \A g \in Handles \ {h} : /\ Region(g) \cap p..(p + c - 1) = {}
                                  /\ \A a \in Region(g) : m[a] = mem[a]
  BY DEF Writes, Ready
<1>7. PICK n \in Nat : n = l + Len(s)
  OBVIOUS
<1>8. /\ mem' \in Memory /\ mem'[h] = p /\ mem'[h + 1] = n /\ mem'[h + 2] = c
      /\ \A i \in 1..l : mem'[p + i - 1] = old[i]
      /\ \A i \in 1..Len(s) : mem'[(p + l) + i - 1] = s[i]
      /\ \A a \in 0..(MaxMem - 1) : a \notin h..(h + 2) \cup p..(p + c - 1) => mem'[a] = m[a]
  <2>1. Space(h, p, c, l, Len(s))
    BY <1>4, <1>5 DEF Space
  <2>2. Appended(Put(Put(m, p + l, s), h + 1, <<l + Len(s)>>), m, h, p, c, l, s)
    BY <1>4, <2>1, TwoWrites
  <2>3. Appended(mem', m, h, p, c, l, s)
    BY <1>5, <2>2, Zenon
  <2> QED
    BY <1>5, <1>7, <2>3 DEF Appended
<1>9. /\ Handles' = Handles /\ objs'[h] = objs[h]
      /\ Ptr(h)' = p /\ LenOf(h)' = n /\ Cap(h)' = c
  BY <1>6, <1>8 DEF Handles, Ptr, LenOf, Cap
<1>10. Fits(h)' /\ Header(h)' = h..(h + 2) /\ Buffer(h)' = p..(p + c - 1)
  <2>1. p + (c - 1) = p + c - 1 /\ n <= c
    BY <1>5, <1>7
  <2> QED
    BY <1>9, <2>1 DEF Fits, Header, Buffer
<1>11. SeqOf(h)' = old \o s
  <2>1. SeqOf(h)' = Slots(mem', p, n)
    BY <1>9 DEF SeqOf
  <2>2. Slots(mem', p, Len(old) + Len(s)) = old \o s
    <3>1. PICK mm : mm = mem'
      OBVIOUS
    <3>2. /\ \A i \in 1..Len(old) : mm[p + i - 1] = old[i]
          /\ \A i \in 1..Len(s) : mm[(p + Len(old)) + i - 1] = s[i]
      BY <1>3, <1>8, <3>1
    <3>3. Slots(mm, p, Len(old) + Len(s)) = old \o s
      BY <3>2, RowOfTwo
    <3> QED
      BY <3>1, <3>3
  <2> QED
    BY <1>3, <1>7, <2>1, <2>2
<1>12. ASSUME NEW g \in Handles \ {h}
       PROVE  Region(h)' \cap Region(g) = {} /\ \A a \in Region(g) : mem'[a] = mem[a]
  <2>1. Region(g) \cap p..(p + c - 1) = {} /\ Region(g) \cap h..(h + 2) = {}
    BY <1>6, HeaderSlots
  <2>2. Region(g) \subseteq 0..(MaxMem - 1)
    <3>1. Region(g) \subseteq 0..(arena.brk - 1)
      BY DEF HeapInv, Used
    <3>2. arena.brk \in Nat /\ arena.brk <= MaxMem /\ MaxMem \in Nat
      BY HeapConstants DEF HeapInv, ArenaOK
    <3> QED
      BY <3>1, <3>2
  <2>3. \A a \in Region(g) : mem'[a] = m[a] /\ m[a] = mem[a]
    BY <1>6, <1>8, <2>1, <2>2
  <2>4. Region(h)' = h..(h + 2) \cup p..(p + c - 1)
    BY <1>10 DEF Region
  <2> QED
    BY <2>1, <2>3, <2>4
<1>13. Region(h)' \subseteq Used(arena') /\ Header(h)' \cap Buffer(h)' = {}
  BY <1>4, <1>5, <1>6, <1>10 DEF Region
<1>14. objs' \in [Handles' -> Kinds] /\ Handles' = Handles \cup {h}
  <2>1. objs \in [Handles -> Kinds]
    BY DEF HeapInv
  <2> QED
    BY <1>6, <1>9, <2>1
<1>15. HeapInv' /\ \A g \in Handles \ {h} : Kept(g)
  BY <1>4, <1>6, <1>8, <1>10, <1>12, <1>13, <1>14, OneValue
<1> QED
  BY <1>2, <1>6, <1>9, <1>11, <1>15 DEF Changed

\* The first l slots of a buffer of c.
LEMMA FirstSlots ==
  ASSUME NEW p \in Nat, NEW c \in Nat, NEW l \in Nat, l <= c, NEW M \in Nat, p + c <= M
  PROVE  /\ p..(p + l - 1) \subseteq p..(p + c - 1)
         /\ \A i \in 1..l : p + i - 1 \in p..(p + c - 1) /\ p + i - 1 \in 0..(M - 1)
  OBVIOUS

\* A buffer that has to grow: the contents are copied to a new one, and the header
\* points to it.
LEMMA ReadyGrown ==
  ASSUME HeapInv, NEW h \in Handles, objs[h] # "str", NEW c \in Nat, LenOf(h) <= c,
         NEW buf, buf = arena_alloc(arena, c), buf.arena.brk <= MaxMem,
         NEW m, m = Put(Put(mem, buf.ptr, SeqOf(h)), h, <<buf.ptr, LenOf(h), c>>)
  PROVE  /\ Ready(h, m, buf.ptr, c) /\ ArenaOK(buf.arena)
         /\ Used(arena) \cup buf.ptr..(buf.ptr + c - 1) \subseteq Used(buf.arena)
<1>0. MaxMem \in Nat /\ mem \in Memory /\ ArenaOK(arena)
  BY HeapConstants DEF HeapInv
<1>1. /\ ArenaOK(buf.arena) /\ buf.ptr \in Nat /\ buf.ptr + c <= buf.arena.brk
      /\ Used(arena) \cup (buf.ptr..(buf.ptr + c - 1)) \subseteq Used(buf.arena)
      /\ Used(arena) \cap (buf.ptr..(buf.ptr + c - 1)) = {}
  BY <1>0, AllocIsFresh
<1>2. PICK p \in Nat, l \in Nat, s \in Seq(Nat) :
         p = buf.ptr /\ l = LenOf(h) /\ s = SeqOf(h) /\ Len(s) = l
  BY <1>1, Layout
<1>3. h \in Nat /\ h + 3 <= MaxMem /\ h..(h + 2) \subseteq Used(arena)
  BY HeaderSlots
<1>4. p + c <= MaxMem /\ l <= c
  <2>1. buf.arena.brk \in Nat /\ p + c <= buf.arena.brk
    BY <1>1, <1>2 DEF ArenaOK
  <2> QED
    BY <1>0, <1>2, <2>1
<1>5. PICK m1 : m1 = Put(mem, p, s)
  OBVIOUS
<1>6. /\ m1 \in Memory /\ \A i \in 1..l : m1[p + i - 1] = s[i]
      /\ \A a \in 0..(MaxMem - 1) : a \notin p..(p + l - 1) => m1[a] = mem[a]
  <2>1. p + Len(s) <= MaxMem \/ Len(s) = 0
    BY <1>0, <1>2, <1>4
  <2>2. /\ Put(mem, p, s) \in Memory /\ \A i \in 1..Len(s) : Put(mem, p, s)[p + i - 1] = s[i]
        /\ \A a \in 0..(MaxMem - 1) : a \notin p..(p + Len(s) - 1) => Put(mem, p, s)[a] = mem[a]
    BY <1>0, <2>1, PutWrites, Zenon
  <2> QED
    BY <1>2, <1>5, <2>2
<1>7. /\ m \in Memory /\ m[h] = p /\ m[h + 1] = l /\ m[h + 2] = c
      /\ \A a \in 0..(MaxMem - 1) : a \notin h..(h + 2) => m[a] = m1[a]
  <2>1. m = Put(m1, h, <<p, l, c>>)
    BY <1>2, <1>5
  <2>2. HeaderAt(Put(m1, h, <<p, l, c>>), m1, h, p, l, c)
    BY <1>3, <1>6, PutHeader
  <2> QED
    BY <2>1, <2>2 DEF HeaderAt
<1>8. h..(h + 2) \cap p..(p + c - 1) = {}
  BY <1>1, <1>2, <1>3
<1>9. /\ p..(p + l - 1) \subseteq p..(p + c - 1)
      /\ \A i \in 1..l : p + i - 1 \in p..(p + c - 1) /\ p + i - 1 \in 0..(MaxMem - 1)
  BY <1>0, <1>4, FirstSlots
<1>10. \A i \in 1..l : m[p + i - 1] = s[i]
  <2> SUFFICES ASSUME NEW i \in 1..l PROVE m[p + i - 1] = s[i]
    OBVIOUS
  <2>1. PICK a : a = p + i - 1
    OBVIOUS
  <2>2. a \in 0..(MaxMem - 1) /\ a \notin h..(h + 2) /\ m1[a] = s[i]
    BY <1>6, <1>8, <1>9, <2>1
  <2> QED
    BY <1>7, <2>1, <2>2
<1>11. ASSUME NEW g \in Handles \ {h}
       PROVE  Region(g) \cap p..(p + c - 1) = {} /\ \A a \in Region(g) : m[a] = mem[a]
  <2>1. Region(g) \subseteq Used(arena) /\ Region(g) \cap h..(h + 2) = {}
    BY HeaderSlots DEF HeapInv
  <2>2. Used(arena) \subseteq 0..(MaxMem - 1)
    BY <1>0 DEF HeapInv, Used, ArenaOK
  <2>3. Region(g) \cap p..(p + c - 1) = {}
    BY <1>1, <1>2, <2>1
  <2> QED
    BY <1>6, <1>7, <1>9, <2>1, <2>2, <2>3
<1>12. Ready(h, m, p, c)
  BY <1>2, <1>4, <1>7, <1>8, <1>10, <1>11 DEF Ready
<1> QED
  BY <1>1, <1>2, <1>12

\* The capacity a buffer grows to.
NextCap(h, need, base) == Doubled(IF Cap(h) > 0 THEN Cap(h) ELSE base, need)

\* `+=` and StrBuilder.append extend the value they are applied to, in place or in
\* a buffer of at least the length needed.
LEMMA AppendToExtends ==
  ASSUME HeapInv, NEW h \in Handles, objs[h] # "str", NEW s \in Seq(Nat),
         NEW base \in Nat \ {0}, AppendTo(h, s, base)
  PROVE  /\ HeapInv' /\ Changed(h, SeqOf(h) \o s)
         /\ Cap(h)' \in {Cap(h), NextCap(h, LenOf(h) + Len(s), base)}
<1>0. /\ LenOf(h) \in Nat /\ Cap(h) \in Nat /\ LenOf(h) <= Cap(h)
      /\ mem \in Memory /\ Ptr(h) \in Nat
  BY Layout DEF HeapInv, Fits
<1>1. PICK need \in Nat : need = LenOf(h) + Len(s)
  BY <1>0
<1>2. PICK g : g = Grown(h, need, base)
  OBVIOUS
<1>3. /\ g.arena.brk <= MaxMem /\ arena' = g.arena /\ UNCHANGED objs
      /\ mem' = Put(Put(g.mem, g.mem[h] + LenOf(h), s), h + 1, <<LenOf(h) + Len(s)>>)
  BY <1>1, <1>2 DEF AppendTo
<1>4. CASE need <= Cap(h)
  <2>1. g.arena = arena /\ g.mem = mem
    BY <1>2, <1>4 DEF Grown
  <2>2. Ready(h, mem, Ptr(h), Cap(h)) /\ Ptr(h)..(Ptr(h) + Cap(h) - 1) \subseteq Used(arena)
    BY ReadyAsIs
  <2>3. Writes(h, s, mem, Ptr(h), Cap(h))
    <3>1. mem[h] = Ptr(h) /\ ArenaOK(arena)
      BY DEF Ptr, HeapInv
    <3> QED
      BY <1>1, <1>3, <1>4, <2>1, <2>2, <3>1 DEF Writes
  <2>4. PICK m \in Memory, p \in Nat, c \in Nat : m = mem /\ p = Ptr(h) /\ c = Cap(h)
    BY <1>0
  <2>5. HeapInv' /\ Changed(h, SeqOf(h) \o s) /\ Cap(h)' = c
    BY <2>3, <2>4, AppendWrites
  <2> QED
    BY <2>4, <2>5
<1>5. CASE ~(need <= Cap(h))
  <2>1. PICK c : c = NextCap(h, need, base)
    OBVIOUS
  <2>2. c \in Nat /\ need <= c
    <3>1. PICK from \in Nat \ {0} : from = IF Cap(h) > 0 THEN Cap(h) ELSE base
      BY <1>0
    <3>2. c = Doubled(from, need)
      BY <2>1, <3>1 DEF NextCap
    <3> QED
      BY <3>2, DoubledFits
  <2>3. PICK buf : buf = arena_alloc(arena, c)
    OBVIOUS
  <2>4. PICK m : m = Put(Put(mem, buf.ptr, SeqOf(h)), h, <<buf.ptr, LenOf(h), c>>)
    OBVIOUS
  <2>5. g.arena = buf.arena /\ g.mem = m
    BY <1>2, <1>5, <2>1, <2>3, <2>4 DEF Grown, NextCap
  <2>6. LenOf(h) <= c /\ buf.arena.brk <= MaxMem
    BY <1>0, <1>1, <1>3, <2>2, <2>5
  <2>7. /\ Ready(h, m, buf.ptr, c) /\ ArenaOK(buf.arena)
        /\ Used(arena) \cup buf.ptr..(buf.ptr + c - 1) \subseteq Used(buf.arena)
    BY <2>2, <2>3, <2>4, <2>6, ReadyGrown
  <2>8. PICK p : p = buf.ptr
    OBVIOUS
  <2>9. m \in Memory /\ p \in Nat /\ m[h] = p
    BY <2>7, <2>8 DEF Ready
  <2>10. Writes(h, s, m, p, c)
    BY <1>1, <1>3, <2>2, <2>5, <2>7, <2>8, <2>9 DEF Writes
  <2>11. HeapInv' /\ Changed(h, SeqOf(h) \o s) /\ Cap(h)' = c
    BY <2>2, <2>9, <2>10, AppendWrites
  <2> QED
    BY <1>1, <2>1, <2>11
<1> QED
  BY <1>4, <1>5

\* The loop copies what is there before it when no element is overwritten before
\* it is read.
LEMMA LoopCopies ==
  ASSUME NEW m, NEW to \in Nat, NEW from \in Nat, NEW n \in Nat,
         \A i \in 1..n : from + i - 1 \notin to..(to + i - 2)
  PROVE  CopyLoop(m, to, from, n) = Slots(m, from, n)
<1> DEFINE Is(f) == f = [i \in 1..n |-> IF from + i - 1 \in to..(to + i - 2)
                                        THEN f[from + i - to] ELSE m[from + i - 1]]
<1>1. PICK s : s = [i \in 1..n |-> m[from + i - 1]]
  OBVIOUS
<1>2. ASSUME NEW f PROVE Is(f) <=> f = s
  BY <1>1
<1>3. CopyLoop(m, to, from, n) = CHOOSE f : Is(f)
  BY DEF CopyLoop
<1> HIDE DEF Is
<1>4. (CHOOSE f : Is(f)) = s
  BY <1>2
<1> QED
  BY <1>1, <1>3, <1>4 DEF Slots

\* A buffer that is ready for the contents of r keeps them away from the slots
\* behind the contents of h, and unchanged.
LEMMA LoopReadsSource ==
  ASSUME HeapInv, NEW h \in Handles, NEW r \in Handles, NEW m \in Memory,
         NEW p \in Nat, NEW c \in Nat, Ready(h, m, p, c), LenOf(h) + LenOf(r) <= c
  PROVE  CopyLoop(m, m[h] + LenOf(h), m[r], m[r + 1]) = SeqOf(r)
<1>1. PICK l \in Nat, n \in Nat : l = LenOf(h) /\ n = LenOf(r)
  BY Layout
<1>2. PICK from \in Nat :
         /\ m[r] = from /\ m[r + 1] = n
         /\ \A i \in 1..n : /\ from + i - 1 \notin (p + l)..(p + l + i - 2)
                           /\ m[from + i - 1] = SeqOf(r)[i]
  <2>1. CASE r = h
    <3>1. m[h] = p /\ m[h + 1] = l /\ \A i \in 1..l : m[p + i - 1] = SeqOf(h)[i]
      BY <1>1 DEF Ready
    <3>2. \A i \in 1..l : p + i - 1 \notin (p + l)..(p + l + i - 2)
      OBVIOUS
    <3> QED
      BY <1>1, <2>1, <3>1, <3>2
  <2>2. CASE r # h
    <3>1. Region(r) \cap p..(p + c - 1) = {} /\ \A a \in Region(r) : m[a] = mem[a]
      BY <2>2 DEF Ready
    <3>2. PICK from \in Nat : from = Ptr(r)
      BY Layout
    <3>3. /\ {r, r + 1} \subseteq Region(r) /\ from..(from + n - 1) \subseteq Region(r)
          /\ \A i \in 1..n : SeqOf(r)[i] = mem[from + i - 1]
      BY <1>1, <3>2, Layout DEF Region
    <3>4. m[r] = from /\ m[r + 1] = n
      BY <1>1, <3>1, <3>2, <3>3 DEF Ptr, LenOf
    <3>5. ASSUME NEW i \in 1..n
          PROVE  /\ from + i - 1 \notin (p + l)..(p + l + i - 2)
                 /\ m[from + i - 1] = SeqOf(r)[i]
      <4>1. PICK a : a = from + i - 1
        OBVIOUS
      <4>2. a \in from..(from + n - 1)
        BY <4>1
      <4>3. a \in Region(r) /\ a \notin p..(p + c - 1) /\ m[a] = mem[a]
        BY <3>1, <3>3, <4>2
      <4>4. (p + l)..(p + l + i - 2) \subseteq p..(p + c - 1)
        BY <1>1
      <4> QED
        BY <3>3, <4>1, <4>3, <4>4
    <3> QED
      BY <3>4, <3>5
  <2> QED
    BY <2>1, <2>2
<1>3. m[h] + LenOf(h) = p + l
  BY <1>1 DEF Ready
<1>4. CopyLoop(m, p + l, from, n) = Slots(m, from, n)
  BY <1>2, LoopCopies
<1>5. Slots(m, from, n) = SeqOf(r)
  <2>1. SeqOf(r) = [i \in 1..n |-> SeqOf(r)[i]]
    <3>1. SeqOf(r) = [i \in 1..n |-> mem[Ptr(r) + i - 1]]
      BY <1>1 DEF SeqOf, Slots
    <3> QED
      BY <3>1
  <2> QED
    BY <1>2, <2>1 DEF Slots
<1> QED
  BY <1>2, <1>3, <1>4, <1>5

\* `xs += ys` and StrBuilder.append append what ys was before, xs itself included.
LEMMA AppendFromIsAppendTo ==
  ASSUME HeapInv, NEW h \in Handles, objs[h] # "str", NEW r \in Handles,
         NEW base \in Nat \ {0}, AppendFrom(h, r, base)
  PROVE  AppendTo(h, SeqOf(r), base)
<1>0. /\ LenOf(h) \in Nat /\ LenOf(r) \in Nat /\ Cap(h) \in Nat /\ LenOf(h) <= Cap(h)
      /\ mem \in Memory /\ Ptr(h) \in Nat
  BY Layout DEF HeapInv, Fits
<1>1. PICK need \in Nat : need = LenOf(h) + LenOf(r)
  BY <1>0
<1>2. PICK g : g = Grown(h, need, base)
  OBVIOUS
<1>3. /\ g.arena.brk <= MaxMem
      /\ AppendTo(h, CopyLoop(g.mem, g.mem[h] + LenOf(h), g.mem[r], g.mem[r + 1]), base)
  BY <1>1, <1>2 DEF AppendFrom
<1>4. PICK m \in Memory, p \in Nat, c \in Nat : g.mem = m /\ Ready(h, m, p, c) /\ need <= c
  <2>1. CASE need <= Cap(h)
    <3>1. g.mem = mem
      BY <1>2, <2>1 DEF Grown
    <3>2. Ready(h, mem, Ptr(h), Cap(h))
      BY ReadyAsIs
    <3> QED
      BY <1>0, <2>1, <3>1, <3>2
  <2>2. CASE ~(need <= Cap(h))
    <3>1. PICK c : c = NextCap(h, need, base)
      OBVIOUS
    <3>2. c \in Nat /\ need <= c
      <4>1. PICK start \in Nat \ {0} : start = IF Cap(h) > 0 THEN Cap(h) ELSE base
        BY <1>0
      <4>2. c = Doubled(start, need)
        BY <3>1, <4>1 DEF NextCap
      <4> QED
        BY <4>2, DoubledFits
    <3>3. PICK buf : buf = arena_alloc(arena, c)
      OBVIOUS
    <3>4. PICK m : m = Put(Put(mem, buf.ptr, SeqOf(h)), h, <<buf.ptr, LenOf(h), c>>)
      OBVIOUS
    <3>5. g.arena = buf.arena /\ g.mem = m
      BY <1>2, <2>2, <3>1, <3>3, <3>4 DEF Grown, NextCap
    <3>6. LenOf(h) <= c /\ buf.arena.brk <= MaxMem
      BY <1>0, <1>1, <1>3, <3>2, <3>5
    <3>7. Ready(h, m, buf.ptr, c)
      BY <3>2, <3>3, <3>4, <3>6, ReadyGrown
    <3>8. m \in Memory /\ buf.ptr \in Nat
      BY <3>7 DEF Ready
    <3> QED
      BY <3>2, <3>5, <3>7, <3>8
  <2> QED
    BY <2>1, <2>2
<1>5. CopyLoop(m, m[h] + LenOf(h), m[r], m[r + 1]) = SeqOf(r)
  BY <1>1, <1>4, LoopReadsSource
<1> QED
  BY <1>3, <1>4, <1>5

\* m2 is m with one slot written.
SlotAt(m2, m, r, v) ==
  /\ m2 \in Memory /\ m2[r] = v
  /\ \A a \in 0..(MaxMem - 1) : a # r => m2[a] = m[a]

\* A copy of one slot writes that.
LEMMA PutSlot ==
  ASSUME NEW m \in Memory, NEW r \in Nat, r < MaxMem, NEW v \in Nat
  PROVE  SlotAt(Put(m, r, <<v>>), m, r, v)
<1>1. PICK t : t = <<v>>
  OBVIOUS
<1>2. t \in Seq(Nat) /\ Len(t) = 1 /\ t[1] = v
  BY <1>1
<1>3. r + Len(t) <= MaxMem \/ Len(t) = 0
  BY <1>2, HeapConstants
<1>4. /\ Put(m, r, t) \in Memory
      /\ \A i \in 1..Len(t) : Put(m, r, t)[r + i - 1] = t[i]
      /\ \A a \in 0..(MaxMem - 1) : a \notin r..(r + Len(t) - 1) => Put(m, r, t)[a] = m[a]
  BY <1>2, <1>3, PutWrites, Zenon
<1>5. r + 1 - 1 = r /\ 1 \in 1..Len(t) /\ \A a \in r..(r + Len(t) - 1) : a = r
  BY <1>2
<1> QED
  BY <1>1, <1>2, <1>4, <1>5 DEF SlotAt

\* Writing the length, or a slot of the buffer, of an array or a builder.
LEMMA OneSlot ==
  ASSUME HeapInv, NEW h \in Handles, objs[h] # "str", NEW r \in Region(h), NEW v \in Nat,
         (r = h + 1 /\ v <= Cap(h)) \/ r \in Buffer(h),
         mem' = Put(mem, r, <<v>>), UNCHANGED <<arena, objs>>
  PROVE  /\ HeapInv' /\ SlotAt(mem', mem, r, v) /\ \A g \in Handles \ {h} : Kept(g)
         /\ Ptr(h)' = Ptr(h) /\ Cap(h)' = Cap(h)
         /\ LenOf(h)' = IF r = h + 1 THEN v ELSE LenOf(h)
<1>0. MaxMem \in Nat /\ mem \in Memory /\ Region(h) \subseteq Used(arena)
  BY HeapConstants DEF HeapInv
<1>1. Used(arena) \subseteq 0..(MaxMem - 1)
  BY <1>0 DEF HeapInv, Used, ArenaOK
<1>2. r \in Nat /\ r < MaxMem
  BY <1>0, <1>1
<1>3. SlotAt(mem', mem, r, v)
  BY <1>0, <1>2, PutSlot
<1>4. /\ h \in Nat /\ h + 3 <= MaxMem /\ Header(h) = h..(h + 2)
      /\ Header(h) \cap Buffer(h) = {} /\ Cap(h) \in Nat /\ LenOf(h) <= Cap(h)
  BY HeaderSlots, Layout DEF HeapInv, Fits
<1>5. /\ {h, h + 1, h + 2} \subseteq h..(h + 2) /\ h..(h + 2) \subseteq 0..(MaxMem - 1)
      /\ h # h + 1 /\ h + 2 # h + 1
  BY <1>0, <1>4
<1>6. r # h /\ r # h + 2
  BY <1>4, <1>5
<1>7. /\ Ptr(h)' = Ptr(h) /\ Cap(h)' = Cap(h) /\ LenOf(h)' = IF r = h + 1 THEN v ELSE LenOf(h)
  BY <1>3, <1>5, <1>6 DEF SlotAt, Ptr, Cap, LenOf
<1>8. /\ Handles' = Handles /\ objs'[h] = objs[h] /\ Fits(h)' /\ Header(h)' = Header(h)
      /\ Buffer(h)' = Buffer(h) /\ Region(h)' = Region(h)
  BY <1>4, <1>7 DEF Handles, Fits, Header, Buffer, Region
<1>9. ASSUME NEW g \in Handles \ {h}
      PROVE  Region(h) \cap Region(g) = {} /\ \A a \in Region(g) : mem'[a] = mem[a]
  <2>1. Region(h) \cap Region(g) = {} /\ Region(g) \subseteq Used(arena)
    BY DEF HeapInv
  <2> QED
    BY <1>1, <1>3, <2>1 DEF SlotAt
<1>10. objs' \in [Handles' -> Kinds] /\ Handles' = Handles \cup {h}
  <2>1. objs \in [Handles -> Kinds]
    BY DEF HeapInv
  <2> QED
    BY <1>8, <2>1
<1>11. mem' \in Memory /\ ArenaOK(arena') /\ arena'.brk <= MaxMem /\ arena' = arena
  BY <1>3 DEF SlotAt, HeapInv
<1>12. HeapInv' /\ \A g \in Handles \ {h} : Kept(g)
  BY <1>0, <1>4, <1>8, <1>9, <1>10, <1>11, OneValue
<1> QED
  BY <1>3, <1>7, <1>12

\* StrBuilder.clear empties the builder.
LEMMA ClearEmpties ==
  ASSUME HeapInv, NEW h \in Handles, objs[h] # "str", mem' = Put(mem, h + 1, << 0 >>),
         UNCHANGED <<arena, objs>>
  PROVE  HeapInv' /\ Changed(h, <<>>) /\ Cap(h)' = Cap(h)
<1>1. h + 1 \in Region(h) /\ Cap(h) \in Nat
  BY Layout DEF Region
<1>2. HeapInv' /\ LenOf(h)' = 0 /\ Cap(h)' = Cap(h) /\ \A g \in Handles \ {h} : Kept(g)
  <2>1. PICK r \in Region(h) : r = h + 1
    BY <1>1
  <2>2. (r = h + 1 /\ 0 <= Cap(h)) \/ r \in Buffer(h)
    BY <1>1, <2>1
  <2>3. /\ HeapInv' /\ \A g \in Handles \ {h} : Kept(g)
        /\ Cap(h)' = Cap(h) /\ LenOf(h)' = IF r = h + 1 THEN 0 ELSE LenOf(h)
    BY <2>1, <2>2, OneSlot
  <2> QED
    BY <2>1, <2>3
<1>3. SeqOf(h)' = <<>>
  BY <1>2 DEF SeqOf, Slots
<1> QED
  BY <1>2, <1>3 DEF Changed

\* An element assignment inside the bounds sets that element.
LEMMA StoreSets ==
  ASSUME HeapInv, NEW h \in Handles, objs[h] # "str", NEW i \in Int, InBounds(h, i),
         NEW e \in Nat, mem' = Put(mem, Ptr(h) + i, <<e>>), UNCHANGED <<arena, objs>>
  PROVE  /\ HeapInv' /\ Changed(h, [SeqOf(h) EXCEPT ![i + 1] = e])
         /\ Cap(h)' = Cap(h) /\ i + 1 \in DOMAIN SeqOf(h)
<1>1. PICK l \in Nat, p \in Nat : l = LenOf(h) /\ p = Ptr(h)
  BY Layout
<1>2. i \in Nat /\ i < l
  BY <1>1 DEF InBounds
<1>3. p..(p + l - 1) \subseteq Buffer(h) /\ Buffer(h) \subseteq Region(h)
  BY <1>1, Layout DEF Region
<1>4. p + i \in p..(p + l - 1)
  BY <1>2
<1>5. PICK r \in Region(h) : r = p + i
  BY <1>3, <1>4
<1>6. r \in Buffer(h) /\ r # h + 1
  <2>1. Header(h) \cap Buffer(h) = {} /\ h + 1 \in Header(h)
    BY Layout DEF HeapInv
  <2> QED
    BY <1>3, <1>4, <1>5, <2>1
<1>7. /\ HeapInv' /\ SlotAt(mem', mem, r, e) /\ \A g \in Handles \ {h} : Kept(g)
      /\ Ptr(h)' = p /\ Cap(h)' = Cap(h) /\ LenOf(h)' = l
  BY <1>1, <1>5, <1>6, OneSlot
<1>8. SeqOf(h) = [j \in 1..l |-> mem[p + j - 1]]
  BY <1>1 DEF SeqOf, Slots
<1>9. SeqOf(h)' = [j \in 1..l |-> mem'[p + j - 1]]
  BY <1>7 DEF SeqOf, Slots
<1>10. ASSUME NEW j \in 1..l
       PROVE  mem'[p + j - 1] = IF j = i + 1 THEN e ELSE mem[p + j - 1]
  <2>1. p + j - 1 \in p..(p + l - 1) /\ (p + j - 1 = r <=> j = i + 1)
    BY <1>2, <1>5
  <2>2. p + j - 1 \in 0..(MaxMem - 1)
    <3>1. Region(h) \subseteq Used(arena) /\ arena.brk <= MaxMem /\ arena.brk \in Nat
      BY DEF HeapInv, ArenaOK
    <3>2. Used(arena) \subseteq 0..(arena.brk - 1) /\ MaxMem \in Nat
      BY HeapConstants DEF Used
    <3> QED
      BY <1>3, <2>1, <3>1, <3>2
  <2> QED
    BY <1>7, <2>1, <2>2 DEF SlotAt
<1>11. i + 1 \in 1..l
  BY <1>2
<1>12. SeqOf(h)' = [SeqOf(h) EXCEPT ![i + 1] = e]
  <2>1. PICK old : old = SeqOf(h)
    OBVIOUS
  <2>2. PICK k : k = i + 1
    OBVIOUS
  <2>3. old = [j \in 1..l |-> mem[p + j - 1]] /\ k \in 1..l
    BY <1>8, <1>11, <2>1, <2>2
  <2>4. [old EXCEPT ![k] = e] = [j \in 1..l |-> IF j = k THEN e ELSE mem[p + j - 1]]
    BY <2>3
  <2>5. SeqOf(h)' = [j \in 1..l |-> IF j = k THEN e ELSE mem[p + j - 1]]
    BY <1>9, <1>10, <2>2
  <2> QED
    BY <2>1, <2>2, <2>4, <2>5
<1> QED
  BY <1>7, <1>8, <1>11, <1>12 DEF Changed

-----------------------------------------------------------------------------
(* The values the memory stands for.                                         *)

\* Arrays hold elements.
ElemInv == \A h \in Of("array") : SeqOf(h) \in Seq(Elem)

Inv == HeapInv /\ ElemInv /\ CapFits

\* What KodValues calls vals.
Vals == [h \in Handles |-> [kind |-> objs[h], seq |-> SeqOf(h)]]

\* The contents of the values of a kind.
LEMMA SeqsOfKind ==
  ASSUME NEW kind
  PROVE  Values!Seqs(kind) = {SeqOf(h) : h \in Of(kind)}
  BY DEF Values!Seqs, Values!Handles, Of

\* No memory, no values.
LEMMA NoValues == objs = <<>> => Handles = {} /\ Vals = <<>>
  BY DEF Handles, Vals

\* A new value is one KodValues may create.
LEMMA MadeRefines ==
  ASSUME Inv, HeapInv', NEW kind \in Kinds, NEW s, NEW cap, Made(kind, s, cap),
         Values!Fresh(kind, s), kind = "builder" => cap < 2 * (MaxInt \div 4)
  PROVE  Inv' /\ Values!Create
<1>1. PICK h \in Nat \ Handles :
         /\ Handles' = Handles \cup {h} /\ objs'[h] = kind /\ SeqOf(h)' = s
         /\ kind # "str" => Cap(h)' = cap
         /\ \A g \in Handles : Kept(g)
  BY DEF Made
<1>2. ElemInv'
  <2> SUFFICES ASSUME NEW g \in Handles', objs'[g] = "array" PROVE SeqOf(g)' \in Seq(Elem)
    BY DEF ElemInv, Of
  <2>1. CASE g = h
    BY <1>1, <2>1 DEF Values!Fresh
  <2>2. CASE g # h
    BY <1>1, <2>2 DEF Kept, Inv, ElemInv, Of
  <2> QED
    BY <2>1, <2>2
<1>3. CapFits'
  <2> SUFFICES ASSUME NEW g \in Handles', objs'[g] = "builder"
               PROVE  Cap(g)' < 2 * (MaxInt \div 4)
    BY DEF CapFits, Of
  <2>1. CASE g = h
    BY <1>1, <2>1
  <2>2. CASE g # h
    BY <1>1, <2>2 DEF Kept, Inv, CapFits, Of
  <2> QED
    BY <2>1, <2>2
<1>4. Values!Create
  <2>1. Vals' = [g \in Handles' |-> [kind |-> objs'[g], seq |-> SeqOf(g)']]
    BY DEF Vals
  <2>2. DOMAIN Vals' = Handles \cup {h} /\ DOMAIN Vals = Handles
    BY <1>1 DEF Vals
  <2>3. Vals'[h].kind = kind /\ Vals'[h].seq = s
    BY <1>1, <2>1
  <2>4. \A g \in Handles : Vals'[g] = Vals[g]
    BY <1>1, <2>1 DEF Kept, Vals
  <2>5. \E g \in DOMAIN Vals' \ DOMAIN Vals :
           /\ DOMAIN Vals' = DOMAIN Vals \cup {g}
           /\ Values!Fresh(Vals'[g].kind, Vals'[g].seq)
           /\ \A k \in DOMAIN Vals : Vals'[k] = Vals[k]
    BY <2>2, <2>3, <2>4
  <2> QED
    BY <2>5 DEF Values!Create, Values!Handles, Vals
<1> QED
  BY <1>2, <1>3, <1>4 DEF Inv

\* A value that changes changes alone.
LEMMA ChangedRefines ==
  ASSUME Inv, HeapInv', NEW h \in Handles, NEW s, Changed(h, s),
         objs[h] = "array" => s \in Seq(Elem),
         objs[h] = "builder" => Cap(h)' < 2 * (MaxInt \div 4)
  PROVE  Inv' /\ Vals' = [Vals EXCEPT ![h].seq = s]
<1>1. Handles' = Handles /\ objs' = objs /\ SeqOf(h)' = s /\ \A g \in Handles \ {h} : Kept(g)
  BY DEF Changed, Handles
<1>2. ElemInv' /\ CapFits'
  BY <1>1 DEF Kept, Inv, ElemInv, CapFits, Of
<1>3. Vals' = [g \in Handles |-> [kind |-> objs[g], seq |-> SeqOf(g)']]
  BY <1>1 DEF Vals
<1>4. Vals' = [Vals EXCEPT ![h].seq = s]
  BY <1>1, <1>3 DEF Vals, Kept
<1> QED
  BY <1>2, <1>4 DEF Inv

\* What clamp_slice returns is a slice.
LEMMA SlicesAreSlices ==
  ASSUME NEW S, NEW s \in Seq(S), NEW t \in AnySlice(s)
  PROVE  t \in Seq(S) /\ t \in Values!Slices(s)
<1>1. PICK i \in Int, j \in Int : t = clamp_slice(s, i, j)
  BY HeapConstants DEF AnySlice
<1>2. PICK from : from = IF i < 0 THEN 0 ELSE IF i > Len(s) THEN Len(s) ELSE i
  OBVIOUS
<1>3. PICK upto : upto = IF j > Len(s) THEN Len(s) ELSE j
  OBVIOUS
<1>4. from \in 0..Len(s) /\ upto \in Int /\ upto <= Len(s)
  BY <1>2, <1>3
<1>5. t = IF upto > from THEN SubSeq(s, from + 1, upto) ELSE <<>>
  BY <1>1, <1>2, <1>3 DEF clamp_slice
<1>6. CASE upto > from
  <2>1. from + 1 \in 1..Len(s) /\ upto \in 1..Len(s) /\ t = SubSeq(s, from + 1, upto)
    BY <1>4, <1>5, <1>6
  <2>2. t \in Seq(S)
    BY <2>1
  <2>3. PICK a \in 1..Len(s), b \in 1..Len(s) : t = SubSeq(s, a, b)
    BY <2>1
  <2>4. t \in {SubSeq(s, a2, b2) : a2, b2 \in 1..Len(s)}
    BY <2>3
  <2> QED
    BY <2>2, <2>4 DEF Values!Slices
<1>7. CASE ~(upto > from)
  BY <1>5, <1>7 DEF Values!Slices
<1> QED
  BY <1>6, <1>7

\* Elements are kept in memory as numbers.
LEMMA ElementsAreNumbers ==
  ASSUME NEW s \in Seq(Elem)
  PROVE  s \in Seq(Nat)
<1>1. Len(s) \in Nat /\ s \in [1..Len(s) -> Elem]
  OBVIOUS
<1>2. s \in [1..Len(s) -> Nat]
  BY <1>1, HeapConstants
<1> QED
  BY <1>1, <1>2

\* NewArray makes an array of elements.
LEMMA NewArrayRefines ==
  ASSUME Inv, NEW s \in Seq(Elem), NewArray(s)
  PROVE  Inv' /\ Values!Create
<1>1. PICK k \in Nat : k = Len(s)
  OBVIOUS
<1>2. Larger(k, 1) \in Nat /\ k <= Larger(k, 1)
  BY DEF Larger
<1>3. s \in Seq(Nat)
  BY HeapConstants, ElementsAreNumbers
<1>4. HeapInv' /\ Made("array", s, k)
  BY <1>1, <1>2, <1>3, NewObjMakes DEF NewArray, Inv
<1>5. Values!Fresh("array", s)
  BY DEF Values!Fresh
<1> QED
  BY <1>4, <1>5, MadeRefines DEF Kinds

\* NewStr makes a string, of a text KodValues knows.
LEMMA NewStrRefines ==
  ASSUME Inv, NEW s \in Seq(Nat), s \in Values!Text, NewStr(s)
  PROVE  Inv' /\ Values!Create
<1>1. HeapInv' /\ Made("str", s, 0)
  BY NewStrMakes DEF Inv
<1>2. Values!Fresh("str", s)
  BY DEF Values!Fresh
<1> QED
  BY <1>1, <1>2, MadeRefines DEF Kinds

\* An append to a builder, if the limit allows it, leaves the capacity below it.
LEMMA BuilderExtends ==
  ASSUME Inv, NEW h \in Of("builder"), NEW s \in Seq(Nat), ~TooLarge(h, Len(s)),
         AppendTo(h, s, SbCap)
  PROVE  Inv' /\ Vals' = [Vals EXCEPT ![h].seq = SeqOf(h) \o s]
<1>1. h \in Handles /\ objs[h] = "builder" /\ SbCap \in Nat \ {0} /\ HeapInv
  BY HeapConstants DEF Of, Inv
<1>2. PICK q \in Nat : q = MaxInt \div 4
  BY HeapConstants
<1>3. PICK l \in Nat, k \in Nat, need \in Nat : l = LenOf(h) /\ k = Len(s) /\ need = l + k
  BY <1>1, Layout
<1>4. need <= q
  BY <1>2, <1>3 DEF TooLarge
<1>5. PICK c \in Nat : c = Cap(h)
  BY <1>1, Layout
<1>6. c < 2 * q /\ SbCap < 2 * q
  BY <1>2, <1>5, HeapConstants DEF Inv, CapFits
<1>7. NextCap(h, need, SbCap) < 2 * q
  <2>1. PICK from \in Nat \ {0} : from = IF c > 0 THEN c ELSE SbCap
    BY <1>1
  <2>2. PICK d : d = Doubled(from, need)
    OBVIOUS
  <2>3. d \in Nat /\ (d = from \/ d < 2 * need)
    BY <2>2, DoubledFits
  <2>4. d < 2 * q
    BY <1>4, <1>6, <2>1, <2>3
  <2> QED
    BY <1>5, <2>1, <2>2, <2>4 DEF NextCap
<1>8. /\ HeapInv' /\ Changed(h, SeqOf(h) \o s)
      /\ Cap(h)' \in {Cap(h), NextCap(h, LenOf(h) + Len(s), SbCap)}
  BY <1>1, AppendToExtends
<1>9. Cap(h)' < 2 * (MaxInt \div 4)
  BY <1>2, <1>3, <1>5, <1>6, <1>7, <1>8
<1> QED
  BY <1>1, <1>8, <1>9, ChangedRefines

\* A program that stops changes nothing.
LEMMA StopRefines == Inv /\ UNCHANGED <<arena, mem, objs>> => Inv' /\ Vals' = Vals
<1> SUFFICES ASSUME Inv, UNCHANGED <<arena, mem, objs>> PROVE Inv' /\ Vals' = Vals
  OBVIOUS
<1>1. Handles' = Handles /\ \A h : SeqOf(h)' = SeqOf(h) /\ Cap(h)' = Cap(h) /\ LenOf(h)' = LenOf(h)
                                   /\ Header(h)' = Header(h) /\ Buffer(h)' = Buffer(h)
  BY DEF Handles, SeqOf, Slots, Ptr, LenOf, Cap, Header, Buffer
<1>2. HeapInv'
  BY <1>1 DEF Inv, HeapInv, Fits, Region
<1>3. ElemInv' /\ CapFits'
  BY <1>1 DEF Inv, ElemInv, CapFits, Of
<1> QED
  BY <1>1, <1>2, <1>3 DEF Inv, Vals

\* The low bits of a number are a number.
LEMMA BytesAreNumbers ==
  ASSUME NEW e \in Nat
  PROVE  Byte(e) \in Nat
<1>1. PICK b \in Nat \ {0} : b = ByteSize
  BY HeapConstants
<1>2. e % b \in Nat
  OBVIOUS
<1> QED
  BY <1>1, <1>2 DEF Byte

\* Two strings in a row are a text.
LEMMA StringsJoin ==
  ASSUME NEW t \in Values!Seqs("str"), NEW u \in Values!Seqs("str")
  PROVE  t \o u \in Values!Joined
  BY DEF Values!Joined

\* Making a value.
LEMMA MakersRefine ==
  ASSUME Inv,
         \/ ArrayLit \/ kod_array_slice \/ kod_array_copy \/ kod_array_concat_new
         \/ kod_str_slice \/ kod_str_concat \/ kod_bytes_from_array
         \/ kod_sb_new \/ kod_sb_to_str
  PROVE  Inv' /\ Values!Create
<1>1. ASSUME NEW h \in Of("array") PROVE h \in Handles /\ SeqOf(h) \in Seq(Elem)
  BY DEF Inv, ElemInv, Of
<1>2. ASSUME NEW kind, NEW h \in Of(kind)
      PROVE  /\ SeqOf(h) \in Seq(Nat) /\ Len(SeqOf(h)) = LenOf(h) /\ LenOf(h) \in Nat
             /\ SeqOf(h) \in Values!Seqs(kind)
  BY Layout, SeqsOfKind DEF Of, Inv
<1>3. CASE ArrayLit
  <2>0. PICK n \in 0..2 : \E s \in [1..n -> Elem] : NewArray(s)
    BY <1>3 DEF ArrayLit
  <2>1. PICK s \in [1..n -> Elem] : NewArray(s)
    BY <2>0
  <2>2. s \in Seq(Elem)
    BY <2>1
  <2> QED
    BY <2>1, <2>2, NewArrayRefines
<1>4. CASE kod_array_slice
  <2>0. PICK h \in Of("array") : \E s \in AnySlice(SeqOf(h)) : NewArray(s)
    BY <1>4 DEF kod_array_slice
  <2>1. PICK s \in AnySlice(SeqOf(h)) : NewArray(s)
    BY <2>0
  <2> QED
    BY <1>1, <2>1, SlicesAreSlices, NewArrayRefines
<1>5. CASE kod_array_copy
  BY <1>1, <1>5, NewArrayRefines DEF kod_array_copy
<1>6. CASE kod_array_concat_new
  <2>1. PICK h \in Of("array"), g \in Of("array") : NewArray(SeqOf(h) \o SeqOf(g))
    BY <1>6 DEF kod_array_concat_new
  <2>2. PICK s : s = SeqOf(h) \o SeqOf(g)
    OBVIOUS
  <2>3. s \in Seq(Elem)
    BY <1>1, <2>1, <2>2, ConcatProperties
  <2> QED
    BY <2>1, <2>2, <2>3, NewArrayRefines
<1>7. CASE kod_str_slice
  <2>0. PICK h \in Of("str") : \E s \in AnySlice(SeqOf(h)) : NewStr(s)
    BY <1>7 DEF kod_str_slice
  <2>1. PICK s \in AnySlice(SeqOf(h)) : NewStr(s)
    BY <2>0
  <2>2. s \in Seq(Nat) /\ s \in Values!Slices(SeqOf(h))
    BY <1>2, <2>1, SlicesAreSlices
  <2>3. s \in Values!Text
    BY <1>2, <2>1, <2>2 DEF Values!Text, Values!Sliced
  <2> QED
    BY <2>1, <2>2, <2>3, NewStrRefines
<1>8. CASE kod_str_concat
  <2>1. PICK h \in Of("str"), g \in Of("str") : NewStr(SeqOf(h) \o SeqOf(g))
    BY <1>8 DEF kod_str_concat
  <2>2. PICK t \in Seq(Nat), u \in Seq(Nat) : t = SeqOf(h) /\ u = SeqOf(g)
    BY <1>2, <2>1
  <2>3. t \o u \in Seq(Nat)
    BY InARow
  <2>4. t \in Values!Seqs("str") /\ u \in Values!Seqs("str")
    BY <1>2, <2>1, <2>2
  <2>5. t \o u \in Values!Joined
    BY <2>4, StringsJoin
  <2>6. t \o u \in Values!Text
    BY <2>5, Zenon DEF Values!Text
  <2> QED
    BY <2>1, <2>2, <2>3, <2>6, NewStrRefines
<1>9. CASE kod_bytes_from_array
  <2>1. PICK h \in Of("array") : NewStr([i \in 1..LenOf(h) |-> Byte(SeqOf(h)[i])])
    BY <1>9 DEF kod_bytes_from_array
  <2>2. PICK t \in Seq(Nat) : t = SeqOf(h) /\ Len(t) = LenOf(h) /\ t \in Values!Seqs("array")
    BY <1>2, <2>1
  <2>3. PICK s : s = [i \in 1..Len(t) |-> Byte(t[i])]
    OBVIOUS
  <2>4. s \in Seq(Nat)
    <3>1. \A i \in 1..Len(t) : Byte(t[i]) \in Nat
      <4>1. \A i \in 1..Len(t) : t[i] \in Nat
        OBVIOUS
      <4> QED
        BY <4>1, BytesAreNumbers
    <3> QED
      BY <2>3, <3>1
  <2>5. s = [i \in DOMAIN t |-> Values!Byte(t[i])]
    BY <2>3 DEF Byte, Values!Byte
  <2>6. s \in Values!Packed
    BY <2>2, <2>5, Zenon DEF Values!Packed
  <2>7. s \in Values!Text
    BY <2>6, Zenon DEF Values!Text
  <2> QED
    BY <2>1, <2>2, <2>3, <2>4, <2>7, NewStrRefines
<1>10. CASE kod_sb_new
  <2>0. <<>> \in Seq(Nat)
    OBVIOUS
  <2>1. PICK s \in Seq(Nat) : s = <<>>
    BY <2>0, Zenon
  <2>2. SbCap \in Nat /\ Len(s) <= SbCap /\ SbCap <= SbCap /\ SbCap < 2 * (MaxInt \div 4)
    BY <2>1, HeapConstants
  <2>3. HeapInv' /\ Made("builder", s, SbCap)
    BY <1>10, <2>1, <2>2, NewObjMakes DEF kod_sb_new, Inv
  <2>4. Values!Fresh("builder", s)
    BY <2>1 DEF Values!Fresh
  <2> QED
    BY <2>2, <2>3, <2>4, MadeRefines DEF Kinds
<1>11. CASE kod_sb_to_str
  <2>1. PICK h \in Of("builder") : NewStr(SeqOf(h))
    BY <1>11 DEF kod_sb_to_str
  <2>2. SeqOf(h) \in Seq(Nat) /\ SeqOf(h) \in Values!Text
    BY <1>2, <2>1, Zenon DEF Values!Text
  <2> QED
    BY <2>1, <2>2, NewStrRefines
<1> QED
  BY <1>3, <1>4, <1>5, <1>6, <1>7, <1>8, <1>9, <1>10, <1>11

\* KodValues' step on one value, in the words of Vals.
LEMMA OneValueSteps ==
  ASSUME NEW h \in Handles
  PROVE  /\ Vals[h].kind = objs[h] /\ Vals[h].seq = SeqOf(h)
         /\ \A s : Vals' = [Vals EXCEPT ![h].seq = SeqOf(h) \o s]
                     /\ \/ objs[h] = "array" /\ s \in Values!Seqs("array")
                        \/ /\ objs[h] = "builder"
                           /\ s \in Values!Seqs("str") \cup {<<Values!Byte(e)>> : e \in Elem}
                   => Values!Extend
<1>1. Vals[h].kind = objs[h] /\ Vals[h].seq = SeqOf(h) /\ h \in DOMAIN Vals
  BY DEF Vals
<1>2. ASSUME NEW s, Vals' = [Vals EXCEPT ![h].seq = SeqOf(h) \o s],
             \/ objs[h] = "array" /\ s \in Values!Seqs("array")
             \/ /\ objs[h] = "builder"
                /\ s \in Values!Seqs("str") \cup {<<Values!Byte(e)>> : e \in Elem}
      PROVE  Values!Extend
  <2>1. Vals' = [Vals EXCEPT ![h].seq = Vals[h].seq \o s]
    BY <1>1, <1>2
  <2>2. \E g \in DOMAIN Vals :
           \/ /\ Vals[g].kind = "array"
              /\ \E t \in Values!Seqs("array") : Vals' = [Vals EXCEPT ![g].seq = Vals[g].seq \o t]
           \/ /\ Vals[g].kind = "builder"
              /\ \E t \in Values!Seqs("str") \cup {<<Values!Byte(e)>> : e \in Elem} :
                    Vals' = [Vals EXCEPT ![g].seq = Vals[g].seq \o t]
    <3>1. CASE objs[h] = "array" /\ s \in Values!Seqs("array")
      BY <1>1, <2>1, <3>1, Zenon
    <3>2. CASE /\ objs[h] = "builder"
               /\ s \in Values!Seqs("str") \cup {<<Values!Byte(e)>> : e \in Elem}
      BY <1>1, <2>1, <3>2, Zenon
    <3> QED
      BY <1>2, <3>1, <3>2
  <2> QED
    BY <2>2, Zenon DEF Values!Extend, Values!Handles, Vals
<1> QED
  BY <1>1, <1>2

\* Changing a value in place.
LEMMA ChangersRefine ==
  ASSUME Inv, kod_array_concat \/ index_store \/ kod_sb_append \/ kod_sb_append_byte
                \/ kod_sb_clear
  PROVE  /\ Inv'
         /\ Values!Extend \/ Values!Assign \/ Values!Clear \/ Vals' = Vals
<1>0. HeapInv
  BY DEF Inv
<1>1. ASSUME NEW kind, NEW h \in Of(kind)
      PROVE  /\ h \in Handles /\ objs[h] = kind /\ SeqOf(h) \in Seq(Nat)
             /\ SeqOf(h) \in Values!Seqs(kind)
             /\ Len(SeqOf(h)) = LenOf(h)
  BY <1>0, Layout, SeqsOfKind DEF Of
<1>2. CASE kod_array_concat
  <2>1. PICK h \in Of("array"), g \in Of("array") : AppendTo(h, SeqOf(g), ArrayCap)
    <3>1. PICK h \in Of("array"), g \in Of("array") : AppendFrom(h, g, ArrayCap)
      BY <1>2 DEF kod_array_concat
    <3>2. ArrayCap \in Nat \ {0} /\ {h, g} \subseteq Handles /\ objs[h] # "str"
      BY <1>1, HeapConstants
    <3>3. AppendTo(h, SeqOf(g), ArrayCap)
      BY <1>0, <3>1, <3>2, AppendFromIsAppendTo
    <3> QED
      BY <3>3
  <2>2. PICK s \in Seq(Nat) : s = SeqOf(g)
    BY <1>1
  <2>3. ArrayCap \in Nat \ {0} /\ h \in Handles /\ objs[h] = "array"
    BY <1>1, HeapConstants
  <2>4. HeapInv' /\ Changed(h, SeqOf(h) \o s)
    BY <1>0, <2>1, <2>2, <2>3, AppendToExtends
  <2>5. SeqOf(h) \o s \in Seq(Elem)
    <3>1. SeqOf(h) \in Seq(Elem) /\ s \in Seq(Elem)
      BY <2>1, <2>2 DEF Inv, ElemInv
    <3> QED
      BY <3>1, ConcatProperties
  <2>6. Inv' /\ Vals' = [Vals EXCEPT ![h].seq = SeqOf(h) \o s]
    BY <2>3, <2>4, <2>5, ChangedRefines
  <2>7. s \in Values!Seqs("array")
    BY <1>1, <2>2
  <2> QED
    BY <2>3, <2>6, <2>7, OneValueSteps
<1>3. CASE index_store
  <2>1. PICK h \in Of("array"), i \in -(MaxLen + 1)..MaxLen, e \in Elem :
           LET at == IF i < 0 THEN i + LenOf(h) ELSE i
           IN  IF InBounds(h, at)
               THEN mem' = Put(mem, Ptr(h) + at, <<e>>) /\ UNCHANGED <<arena, objs, panicked>>
               ELSE Panic
    BY <1>3 DEF index_store
  <2>2. h \in Handles /\ objs[h] = "array" /\ SeqOf(h) \in Seq(Elem) /\ LenOf(h) \in Nat
        /\ i \in Int /\ e \in Nat
    <3>1. h \in Handles /\ objs[h] = "array" /\ SeqOf(h) \in Seq(Elem)
      BY <1>1 DEF Inv, ElemInv
    <3>2. i \in Int /\ e \in Nat
      BY HeapConstants
    <3> QED
      BY <1>0, <3>1, <3>2, Layout
  <2>3. PICK k \in Int : k = IF i < 0 THEN i + LenOf(h) ELSE i
    BY <2>2
  <2>4. CASE InBounds(h, k)
    <3>1. mem' = Put(mem, Ptr(h) + k, <<e>>) /\ UNCHANGED <<arena, objs>>
      BY <2>1, <2>3, <2>4
    <3>2. /\ HeapInv' /\ Changed(h, [SeqOf(h) EXCEPT ![k + 1] = e])
          /\ k + 1 \in DOMAIN SeqOf(h)
      BY <1>0, <2>2, <2>3, <2>4, <3>1, StoreSets
    <3>3. PICK s : s = [SeqOf(h) EXCEPT ![k + 1] = e]
      OBVIOUS
    <3>4. s \in Seq(Elem)
      BY <2>2, <3>2, <3>3
    <3>5. Inv' /\ Vals' = [Vals EXCEPT ![h].seq = s]
      BY <2>2, <3>2, <3>3, <3>4, ChangedRefines
    <3>6. Vals[h].kind = "array" /\ Vals[h].seq = SeqOf(h) /\ h \in DOMAIN Vals
      BY <2>2 DEF Vals
    <3>7. Vals' = [Vals EXCEPT ![h].seq[k + 1] = e]
      BY <3>3, <3>5, <3>6
    <3>8. \E g \in DOMAIN Vals, d \in Elem : \E j \in DOMAIN Vals[g].seq :
             Vals[g].kind = "array" /\ Vals' = [Vals EXCEPT ![g].seq[j] = d]
      BY <3>2, <3>6, <3>7, Zenon
    <3>9. Values!Assign
      BY <3>8, Zenon DEF Values!Assign, Values!Handles, Vals
    <3> QED
      BY <3>5, <3>9
  <2>5. CASE ~InBounds(h, k)
    BY <2>1, <2>3, <2>5, StopRefines DEF Panic
  <2> QED
    BY <2>4, <2>5
<1>4. CASE kod_sb_append
  <2>1. PICK h \in Of("builder"), g \in Of("str") :
           IF TooLarge(h, LenOf(g)) THEN Panic ELSE AppendTo(h, SeqOf(g), SbCap)
    <3>1. PICK h \in Of("builder"), g \in Of("str") :
             IF TooLarge(h, LenOf(g)) THEN Panic ELSE AppendFrom(h, g, SbCap)
      BY <1>4 DEF kod_sb_append
    <3>2. SbCap \in Nat \ {0} /\ {h, g} \subseteq Handles /\ objs[h] # "str"
      BY <1>1, HeapConstants
    <3>3. AppendFrom(h, g, SbCap) => AppendTo(h, SeqOf(g), SbCap)
      BY <1>0, <3>2, AppendFromIsAppendTo
    <3> QED
      BY <3>1, <3>3
  <2>2. PICK s \in Seq(Nat) : s = SeqOf(g) /\ Len(s) = LenOf(g) /\ s \in Values!Seqs("str")
    BY <1>1
  <2>3. CASE TooLarge(h, LenOf(g))
    BY <2>1, <2>3, StopRefines DEF Panic
  <2>4. CASE ~TooLarge(h, LenOf(g))
    <3>1. Inv' /\ Vals' = [Vals EXCEPT ![h].seq = SeqOf(h) \o s]
      BY <2>1, <2>2, <2>4, BuilderExtends
    <3> QED
      BY <1>1, <2>2, <3>1, OneValueSteps
  <2> QED
    BY <2>3, <2>4
<1>5. CASE kod_sb_append_byte
  <2>1. PICK h \in Of("builder"), e \in Elem :
           IF TooLarge(h, 1) THEN Panic ELSE AppendTo(h, <<Byte(e)>>, SbCap)
    BY <1>5 DEF kod_sb_append_byte
  <2>2. PICK s : s = <<Byte(e)>>
    OBVIOUS
  <2>3. s \in Seq(Nat) /\ Len(s) = 1
    <3>1. Byte(e) \in Nat
      BY HeapConstants, BytesAreNumbers
    <3> QED
      BY <2>2, <3>1
  <2>4. s \in {<<Values!Byte(d)>> : d \in Elem}
    BY <2>2 DEF Byte, Values!Byte
  <2>5. CASE TooLarge(h, 1)
    BY <2>1, <2>5, StopRefines DEF Panic
  <2>6. CASE ~TooLarge(h, 1)
    <3>1. Inv' /\ Vals' = [Vals EXCEPT ![h].seq = SeqOf(h) \o s]
      BY <2>1, <2>2, <2>3, <2>6, BuilderExtends
    <3> QED
      BY <1>1, <2>4, <3>1, OneValueSteps
  <2> QED
    BY <2>5, <2>6
<1>6. CASE kod_sb_clear
  <2>1. PICK h \in Of("builder") : mem' = Put(mem, h + 1, << 0 >>)
    BY <1>6 DEF kod_sb_clear
  <2>2. h \in Handles /\ objs[h] = "builder" /\ UNCHANGED <<arena, objs>>
    BY <1>1, <1>6 DEF kod_sb_clear
  <2>3. HeapInv' /\ Changed(h, <<>>) /\ Cap(h)' = Cap(h)
    BY <1>0, <2>1, <2>2, ClearEmpties
  <2>4. Cap(h)' < 2 * (MaxInt \div 4)
    BY <2>1, <2>3 DEF Inv, CapFits
  <2>5. Inv' /\ Vals' = [Vals EXCEPT ![h].seq = <<>>]
    BY <2>2, <2>3, <2>4, ChangedRefines
  <2>6. Vals[h].kind = "builder" /\ h \in DOMAIN Vals
    BY <2>2 DEF Vals
  <2>7. Values!Clear
    BY <2>5, <2>6 DEF Values!Clear, Values!Handles, Vals
  <2> QED
    BY <2>5, <2>7
<1> QED
  BY <1>2, <1>3, <1>4, <1>5, <1>6

-----------------------------------------------------------------------------
(* The theorems.                                                             *)

\* An arena with nothing in it, at the start and after arena_reset.
Blank == arena = Empty /\ mem \in Memory /\ objs = <<>>
NoVals == Vals = <<>>

\* An empty arena satisfies the invariant and holds no value.
LEMMA NothingThere == Blank => Inv /\ NoVals
<1> SUFFICES ASSUME arena = Empty, mem \in Memory, objs = <<>>
             PROVE  Inv /\ Vals = <<>>
  BY DEF Blank, NoVals
<1>1. Handles = {} /\ Vals = <<>>
  BY NoValues
<1>2. ArenaOK(arena) /\ arena.brk <= MaxMem
  BY HeapConstants DEF Empty, ArenaOK
<1>3. objs \in [Handles -> Kinds]
  BY <1>1 DEF Handles
<1>4. Of("array") = {} /\ Of("builder") = {}
  BY <1>1 DEF Of
<1> QED
  BY <1>1, <1>2, <1>3, <1>4 DEF Inv, HeapInv, ElemInv, CapFits

\* Init of the memory is Init of the values.
LEMMA InitRefines == Init => Inv /\ Values!Init
<1> SUFFICES ASSUME Init PROVE Inv /\ Values!Init
  OBVIOUS
<1>1. mem \in Memory
  BY HeapConstants DEF Init, Memory
<1>2. Inv /\ Vals = <<>>
  BY <1>1, NothingThere DEF Init, Blank, NoVals
<1> QED
  BY <1>2 DEF Values!Init, Vals

\* arena_reset forgets every value.
LEMMA ResetRefines ==
  ASSUME Inv, arena_reset
  PROVE  Inv' /\ Values!Forget
<1>1. Blank'
  BY DEF Blank, Empty, arena_reset, Inv, HeapInv, Memory
<1>2. Inv' /\ NoVals'
  BY <1>1, NothingThere, PTL
<1> QED
  BY <1>2 DEF NoVals, Values!Forget, Vals

\* Every step of the memory is a step of the values, or changes none of them.
LEMMA StepRefines == Inv /\ [Next]_vars => Inv' /\ [Values!Next]_Vals
<1> SUFFICES ASSUME Inv, [Next]_vars
             PROVE  Inv' /\ (Values!Next \/ Vals' = Vals)
  OBVIOUS
<1>1. CASE \/ ArrayLit \/ kod_array_slice \/ kod_array_copy \/ kod_array_concat_new
           \/ kod_str_slice \/ kod_str_concat \/ kod_bytes_from_array
           \/ kod_sb_new \/ kod_sb_to_str
  BY <1>1, MakersRefine DEF Values!Next
<1>2. CASE \/ kod_array_concat \/ index_store \/ kod_sb_append \/ kod_sb_append_byte
           \/ kod_sb_clear
  BY <1>2, ChangersRefine DEF Values!Next
<1>3. CASE arena_reset
  BY <1>3, ResetRefines DEF Values!Next
<1>4. CASE Stopped \/ UNCHANGED vars
  <2>1. UNCHANGED <<arena, mem, objs>>
    BY <1>4 DEF Stopped, vars
  <2> QED
    BY <2>1, StopRefines
<1> QED
  BY <1>1, <1>2, <1>3, <1>4 DEF Next

\* The invariant holds for good.
LEMMA AlwaysInv == Spec => []Inv
<1>1. Init => Inv
  BY InitRefines
<1>2. Inv /\ [Next]_vars => Inv'
  BY StepRefines
<1> QED
  BY <1>1, <1>2, PTL DEF Spec

\* arena_alloc never hands out a slot twice and no operation of runtime.c writes
\* outside what it was given: the headers and buffers of any number of arrays,
\* strings and builders never overlap, for any block size and any bounds.
THEOREM ValuesShareNothing == Spec => []Disjoint
<1>1. Inv => Disjoint
  BY HeapIsDisjoint DEF Inv
<1> QED
  BY <1>1, AlwaysInv, PTL

\* kod_sb_reserve's limit of INT64_MAX / 4 is enough: however a builder is grown,
\* its capacity stays below twice the limit, so doubling it never overflows.
THEOREM CapacitiesFit == Spec => []CapFits
<1>1. Inv => CapFits
  BY DEF Inv
<1> QED
  BY <1>1, AlwaysInv, PTL

\* The arena, the headers and the buffers implement KodValues: every operation
\* of runtime.c makes, changes or forgets exactly the value it is applied to, and
\* what a handle stands for is what the language says it is.
THEOREM MemoryImplementsValues == Spec => ValuesKept
<1>1. Init => Values!Init
  BY InitRefines
<1>2. Inv /\ [Next]_vars => [Values!Next]_Vals
  BY StepRefines
<1> QED
  BY <1>1, <1>2, AlwaysInv, PTL DEF Spec, ValuesKept, Values!Spec, Vals
=============================================================================
