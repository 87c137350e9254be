--------------------------- MODULE RegAlloc_proofs ---------------------------
(***************************************************************************)
(* Proofs about RegAlloc: the pool loses no register, every read sees the  *)
(* value it was meant to see, through emission, eviction, the linear scan  *)
(* and packing, the scan never runs out of registers, and the prologue     *)
(* saves exactly the callee-saved registers in use.                        *)
(***************************************************************************)
EXTENDS RegAlloc, SequenceTheorems, FiniteSetTheorems, WellFoundedInduction, TLAPS

-----------------------------------------------------------------------------
(* Sequences, as the model uses them.                                        *)

\* A set of numbers that is not empty has a least member.
LEMMA LeastMember ==
  ASSUME NEW S, S \subseteq Nat, S # {}
  PROVE  \E d \in S : \A e \in S : d <= e
<1>1. PICK d \in S : \A e \in S : ~(<<e, d>> \in OpToRel(<, Nat))
  BY NatLessThanWellFounded, WFMin
<1>2. ASSUME NEW e \in S PROVE ~(e < d)
  BY <1>1 DEF OpToRel
<1> QED
  BY <1>2

\* And a greatest one, when it is bounded.
LEMMA GreatestMember ==
  ASSUME NEW S, NEW n \in Nat, S \subseteq 0..n, S # {}
  PROVE  \E d \in S : \A e \in S : e <= d
<1> DEFINE R == {n - e : e \in S}
<1>1. R \subseteq Nat /\ R # {}
  <2>1. \A e \in S : e \in Nat /\ n - e \in Nat
    OBVIOUS
  <2> QED
    BY <2>1
<1>2. PICK r \in R : \A q \in R : r <= q
  <2> HIDE DEF R
  <2> QED
    BY <1>1, LeastMember
<1>3. PICK d \in S : r = n - d
  BY <1>2
<1>4. \A e \in S : n - d <= n - e
  BY <1>2, <1>3
<1> QED
  BY <1>4

\* Min and Max are what they are called.
LEMMA MinMax ==
  ASSUME NEW S, NEW n \in Nat, S \subseteq 0..n, S # {}
  PROVE  /\ Min(S) \in S /\ \A e \in S : Min(S) <= e
         /\ Max(S) \in S /\ \A e \in S : e <= Max(S)
<1>0. S \subseteq Nat
  OBVIOUS
<1>1. PICK d \in S : \A e \in S : d <= e
  BY <1>0, LeastMember
<1>2. PICK g \in S : \A e \in S : e <= g
  BY GreatestMember
<1>3. Min(S) \in S /\ \A e \in S : Min(S) <= e
  <2>1. \E x \in S : \A y \in S : x <= y
    BY <1>1
  <2> QED
    BY <2>1 DEF Min
<1>4. Max(S) \in S /\ \A e \in S : Max(S) >= e
  <2>1. \E x \in S : \A y \in S : x >= y
    BY <1>2
  <2> QED
    BY <2>1 DEF Max
<1> QED
  BY <1>3, <1>4

\* The members of a sequence, and of what is made from it.
LEMMA Members ==
  ASSUME NEW T, NEW s \in Seq(T)
  PROVE  /\ ToSet(s) \subseteq T
         /\ \A i \in 1..Len(s) : s[i] \in ToSet(s)
         /\ \A x \in ToSet(s) : \E i \in 1..Len(s) : s[i] = x
         /\ s = <<>> <=> ToSet(s) = {}
  BY DEF ToSet

\* An item more.
LEMMA AppendMembers ==
  ASSUME NEW T, NEW s \in Seq(T), NEW x \in T
  PROVE  /\ Append(s, x) \in Seq(T)
         /\ ToSet(Append(s, x)) = ToSet(s) \cup {x}
         /\ IsInjective(s) /\ x \notin ToSet(s) => IsInjective(Append(s, x))
<1>1. /\ Append(s, x) \in Seq(T) /\ Len(Append(s, x)) = Len(s) + 1
      /\ \A i \in 1..Len(s) : Append(s, x)[i] = s[i]
      /\ Append(s, x)[Len(s) + 1] = x
  OBVIOUS
<1>2. PICK n \in Nat : n = Len(s)
  OBVIOUS
<1>3. PICK t \in Seq(T) : t = Append(s, x)
  BY <1>1
<1>4. /\ DOMAIN t = 1..(n + 1) /\ DOMAIN s = 1..n /\ t[n + 1] = x
      /\ \A i \in 1..n : t[i] = s[i]
  BY <1>1, <1>2, <1>3
<1>5. ToSet(t) = ToSet(s) \cup {x}
  BY <1>4 DEF ToSet
<1>6. ASSUME IsInjective(s), x \notin ToSet(s) PROVE IsInjective(t)
  BY <1>4, <1>6 DEF ToSet, IsInjective
<1> QED
  BY <1>1, <1>3, <1>5, <1>6

\* The last item taken off.
LEMMA FrontMembers ==
  ASSUME NEW T, NEW s \in Seq(T), s # <<>>
  PROVE  /\ Front(s) \in Seq(T) /\ Last(s) \in ToSet(s)
         /\ Len(Front(s)) = Len(s) - 1
         /\ ToSet(s) = ToSet(Front(s)) \cup {Last(s)}
         /\ IsInjective(s) => IsInjective(Front(s)) /\ Last(s) \notin ToSet(Front(s))
<1>1. PICK n \in Nat : n + 1 = Len(s)
  <2>1. Len(s) # 0 /\ Len(s) \in Nat
    OBVIOUS
  <2> QED
    BY <2>1
<1>2. PICK t : t = Front(s)
  OBVIOUS
<1>3. t = SubSeq(s, 1, n)
  BY <1>1, <1>2 DEF Front
<1>4. t \in Seq(T) /\ Len(t) = n /\ \A i \in 1..n : t[i] = s[i]
  BY <1>1, <1>3
<1>5. DOMAIN t = 1..n /\ DOMAIN s = 1..(n + 1) /\ Last(s) = s[n + 1]
  BY <1>1, <1>4 DEF Last
<1>6. Last(s) \in ToSet(s) /\ ToSet(s) = ToSet(t) \cup {Last(s)}
  BY <1>4, <1>5 DEF ToSet
<1>7. ASSUME IsInjective(s) PROVE IsInjective(t) /\ Last(s) \notin ToSet(t)
  BY <1>4, <1>5, <1>7 DEF ToSet, IsInjective
<1> QED
  BY <1>1, <1>2, <1>4, <1>6, <1>7

\* The first item taken off.
LEMMA TailMembers ==
  ASSUME NEW T, NEW s \in Seq(T), s # <<>>
  PROVE  /\ Tail(s) \in Seq(T) /\ Head(s) \in ToSet(s)
         /\ ToSet(s) = ToSet(Tail(s)) \cup {Head(s)}
         /\ Head(s) = s[1]
         /\ \A i \in DOMAIN Tail(s) : i + 1 \in DOMAIN s /\ Tail(s)[i] = s[i + 1]
<1>1. PICK n \in Nat : n + 1 = Len(s)
  <2>1. Len(s) # 0 /\ Len(s) \in Nat
    OBVIOUS
  <2> QED
    BY <2>1
<1>2. PICK t : t = Tail(s)
  OBVIOUS
<1>3. t \in Seq(T) /\ Len(t) = n /\ \A i \in 1..n : t[i] = s[i + 1]
  BY <1>1, <1>2
<1>4. DOMAIN t = 1..n /\ DOMAIN s = 1..(n + 1) /\ Head(s) = s[1]
  BY <1>1, <1>3
<1>5. \A j \in 2..(n + 1) : j - 1 \in 1..n /\ s[j] = t[j - 1]
  BY <1>3
<1>6. ToSet(s) \subseteq ToSet(t) \cup {s[1]}
  <2> SUFFICES ASSUME NEW j \in 1..(n + 1) PROVE s[j] \in ToSet(t) \cup {s[1]}
    BY <1>4 DEF ToSet
  <2>1. j = 1 \/ j \in 2..(n + 1)
    OBVIOUS
  <2> QED
    BY <1>4, <1>5, <2>1 DEF ToSet
<1>7. ToSet(t) \cup {s[1]} \subseteq ToSet(s)
  BY <1>3, <1>4 DEF ToSet
<1> QED
  BY <1>2, <1>3, <1>4, <1>6, <1>7

\* Two sequences in a row.
LEMMA ConcatMembers ==
  ASSUME NEW T, NEW s \in Seq(T), NEW t \in Seq(T)
  PROVE  /\ s \o t \in Seq(T)
         /\ ToSet(s \o t) = ToSet(s) \cup ToSet(t)
         /\ IsInjective(s) /\ IsInjective(t) /\ ToSet(s) \cap ToSet(t) = {} => IsInjective(s \o t)
<1>1. PICK n \in Nat, m \in Nat : n = Len(s) /\ m = Len(t)
  OBVIOUS
<1>2. PICK r : r = s \o t
  OBVIOUS
<1>3. /\ r \in Seq(T) /\ Len(r) = n + m
      /\ \A i \in 1..n : r[i] = s[i]
      /\ \A i \in (n + 1)..(n + m) : r[i] = t[i - n]
  BY <1>1, <1>2
<1>4. DOMAIN r = 1..(n + m) /\ DOMAIN s = 1..n /\ DOMAIN t = 1..m
  BY <1>1, <1>3
<1>5. \A i \in 1..m : n + i \in (n + 1)..(n + m) /\ r[n + i] = t[i]
  BY <1>3
<1>6. \A i \in 1..(n + m) : i \in 1..n \/ (i \in (n + 1)..(n + m) /\ i - n \in 1..m)
  OBVIOUS
<1>7. ToSet(r) \subseteq ToSet(s) \cup ToSet(t)
  BY <1>3, <1>4, <1>6 DEF ToSet
<1>8. ToSet(s) \subseteq ToSet(r)
  BY <1>3, <1>4 DEF ToSet
<1>9. ToSet(t) \subseteq ToSet(r)
  BY <1>4, <1>5 DEF ToSet
<1>10. ASSUME IsInjective(s), IsInjective(t), ToSet(s) \cap ToSet(t) = {}
       PROVE  IsInjective(r)
  <2> SUFFICES ASSUME NEW i \in 1..(n + m), NEW j \in 1..(n + m), r[i] = r[j]
               PROVE  i = j
    BY <1>4 DEF IsInjective
  <2>1. CASE i \in 1..n /\ j \in 1..n
    BY <1>3, <1>4, <1>10, <2>1 DEF IsInjective
  <2>2. CASE i - n \in 1..m /\ j - n \in 1..m /\ i \in (n + 1)..(n + m) /\ j \in (n + 1)..(n + m)
    <3>1. t[i - n] = t[j - n]
      BY <1>3, <2>2
    <3>2. i - n = j - n
      BY <1>4, <1>10, <2>2, <3>1 DEF IsInjective
    <3> QED
      BY <3>2
  <2>3. CASE i \in 1..n /\ j - n \in 1..m /\ j \in (n + 1)..(n + m)
    <3>1. s[i] = t[j - n]
      BY <1>3, <2>3
    <3> QED
      BY <1>4, <1>10, <2>3, <3>1 DEF ToSet
  <2>4. CASE j \in 1..n /\ i - n \in 1..m /\ i \in (n + 1)..(n + m)
    <3>1. s[j] = t[i - n]
      BY <1>3, <2>4
    <3> QED
      BY <1>4, <1>10, <2>4, <3>1 DEF ToSet
  <2> QED
    BY <1>6, <2>1, <2>2, <2>3, <2>4
<1> QED
  BY <1>2, <1>3, <1>7, <1>8, <1>9, <1>10

\* The order reversed.
LEMMA ReverseMembers ==
  ASSUME NEW T, NEW s \in Seq(T)
  PROVE  /\ Reverse(s) \in Seq(T) /\ ToSet(Reverse(s)) = ToSet(s)
         /\ IsInjective(s) => IsInjective(Reverse(s))
<1>1. PICK n \in Nat : n = Len(s)
  OBVIOUS
<1>2. PICK r : r = Reverse(s)
  OBVIOUS
<1>3. r = [i \in 1..n |-> s[n - i + 1]]
  BY <1>1, <1>2 DEF Reverse
<1>4. \A i \in 1..n : n - i + 1 \in 1..n /\ n - (n - i + 1) + 1 = i
  OBVIOUS
<1>5. r \in Seq(T) /\ DOMAIN r = 1..n /\ DOMAIN s = 1..n
  BY <1>1, <1>3, <1>4
<1>6. ToSet(r) \subseteq ToSet(s)
  BY <1>3, <1>4, <1>5 DEF ToSet
<1>7. \A i \in 1..n : s[i] = r[n - i + 1]
  BY <1>3, <1>4
<1>8. ToSet(s) \subseteq ToSet(r)
  BY <1>4, <1>5, <1>7 DEF ToSet
<1>9. ASSUME IsInjective(s) PROVE IsInjective(r)
  <2> SUFFICES ASSUME NEW i \in 1..n, NEW j \in 1..n, r[i] = r[j] PROVE i = j
    BY <1>5 DEF IsInjective
  <2>1. n - i + 1 = n - j + 1
    BY <1>3, <1>4, <1>5, <1>9 DEF IsInjective
  <2> QED
    BY <2>1
<1> QED
  BY <1>2, <1>5, <1>6, <1>8, <1>9

-----------------------------------------------------------------------------
(* Filtering.                                                                *)

\* f lists what is kept after each of the first n items of s.
Rows(f, T, s, S, once, n) ==
  /\ f \in [0..n -> Seq(T)]
  /\ f = [i \in 0..n |->
            IF i = 0 THEN <<>>
            ELSE IF s[i] \in S /\ (once => s[i] \notin ToSet(f[i - 1]))
                 THEN Append(f[i - 1], s[i]) ELSE f[i - 1]]
  /\ \A i \in 0..n :
       /\ ToSet(f[i]) = {s[k] : k \in 1..i} \cap S
       /\ once \/ IsInjective(s) => IsInjective(f[i])

\* The next item.
LEMMA NextRow ==
  ASSUME NEW T, NEW s \in Seq(T), NEW S, NEW once \in BOOLEAN,
         NEW n \in Nat \ {0}, n <= Len(s), NEW f, Rows(f, T, s, S, once, n - 1)
  PROVE  \E g : Rows(g, T, s, S, once, n)
<1>0. n - 1 \in Nat /\ n - 1 \in 0..(n - 1) /\ n \in 1..Len(s) /\ s[n] \in T
  OBVIOUS
<1>1. PICK old \in Seq(T) : old = f[n - 1]
  BY <1>0 DEF Rows
<1>2. PICK new : new = IF s[n] \in S /\ (once => s[n] \notin ToSet(old)) THEN Append(old, s[n])
                        ELSE old
  OBVIOUS
<1>3. ToSet(old) = {s[k] : k \in 1..(n - 1)} \cap S /\ (once \/ IsInjective(s) => IsInjective(old))
  BY <1>0, <1>1 DEF Rows
<1>4. 1..n = (1..(n - 1)) \cup {n}
  BY <1>0
<1>5. {s[k] : k \in 1..n} = {s[k] : k \in 1..(n - 1)} \cup {s[n]}
  BY <1>4
<1>6. /\ new \in Seq(T)
      /\ ToSet(new) = {s[k] : k \in 1..n} \cap S
      /\ once \/ IsInjective(s) => IsInjective(new)
  <2>1. CASE s[n] \in S /\ (once => s[n] \notin ToSet(old))
    <3>1. new = Append(old, s[n])
      BY <1>2, <2>1
    <3>2. new \in Seq(T) /\ ToSet(new) = ToSet(old) \cup {s[n]}
      BY <1>0, <3>1, AppendMembers
    <3>3. ASSUME once \/ IsInjective(s) PROVE s[n] \notin ToSet(old)
      <4>1. CASE once
        BY <2>1, <4>1
      <4>2. CASE IsInjective(s)
        <5>1. \A k \in 1..(n - 1) : k \in DOMAIN s /\ n \in DOMAIN s /\ k # n
          BY <1>0
        <5>2. \A k \in 1..(n - 1) : s[k] # s[n]
          BY <4>2, <5>1 DEF IsInjective
        <5> QED
          BY <1>3, <5>2
      <4> QED
        BY <3>3, <4>1, <4>2
    <3>4. once \/ IsInjective(s) => IsInjective(new)
      BY <1>0, <1>3, <3>1, <3>3, AppendMembers
    <3> QED
      BY <1>3, <1>5, <2>1, <3>2, <3>4
  <2>2. CASE ~(s[n] \in S /\ (once => s[n] \notin ToSet(old)))
    <3>1. new = old
      BY <1>2, <2>2
    <3>2. s[n] \in S => s[n] \in ToSet(old)
      BY <2>2
    <3> QED
      BY <1>1, <1>3, <1>5, <3>1, <3>2
  <2> QED
    BY <2>1, <2>2
<1> DEFINE g == [i \in 0..n |-> IF i = n THEN new ELSE f[i]]
<1>7. f \in [0..(n - 1) -> Seq(T)] /\ \A i \in 0..(n - 1) : g[i] = f[i]
  BY <1>0 DEF Rows
<1>8. g[n] = new /\ g \in [0..n -> Seq(T)]
  BY <1>6, <1>7
<1>9. \A i \in 0..n : i = n \/ i \in 0..(n - 1)
  BY <1>0
<1> HIDE DEF g
<1>10. \A i \in 0..n : g[i] = IF i = 0 THEN <<>>
                               ELSE IF s[i] \in S /\ (once => s[i] \notin ToSet(g[i - 1]))
                                    THEN Append(g[i - 1], s[i]) ELSE g[i - 1]
  <2> SUFFICES ASSUME NEW i \in 0..n
               PROVE  g[i] = IF i = 0 THEN <<>>
                             ELSE IF s[i] \in S /\ (once => s[i] \notin ToSet(g[i - 1]))
                                  THEN Append(g[i - 1], s[i]) ELSE g[i - 1]
    OBVIOUS
  <2>1. CASE i = n
    <3>1. g[n - 1] = old
      BY <1>0, <1>1, <1>7
    <3> QED
      BY <1>0, <1>2, <1>8, <2>1, <3>1
  <2>2. CASE i \in 0..(n - 1)
    <3>1. f[i] = IF i = 0 THEN <<>>
                 ELSE IF s[i] \in S /\ (once => s[i] \notin ToSet(f[i - 1]))
                      THEN Append(f[i - 1], s[i]) ELSE f[i - 1]
      BY <2>2 DEF Rows
    <3>2. i # 0 => i - 1 \in 0..(n - 1)
      BY <2>2
    <3>3. g[i] = f[i] /\ (i # 0 => g[i - 1] = f[i - 1])
      BY <1>7, <2>2, <3>2
    <3> QED
      BY <3>1, <3>3
  <2> QED
    BY <1>9, <2>1, <2>2
<1>11. g = [i \in 0..n |->
             IF i = 0 THEN <<>>
             ELSE IF s[i] \in S /\ (once => s[i] \notin ToSet(g[i - 1]))
                  THEN Append(g[i - 1], s[i]) ELSE g[i - 1]]
  BY <1>8, <1>10
<1>12. ASSUME NEW i \in 0..n
       PROVE  /\ ToSet(g[i]) = {s[k] : k \in 1..i} \cap S
              /\ once \/ IsInjective(s) => IsInjective(g[i])
  <2>1. CASE i = n
    BY <1>6, <1>8, <2>1
  <2>2. CASE i \in 0..(n - 1)
    BY <1>7, <2>2 DEF Rows
  <2> QED
    BY <1>9, <2>1, <2>2
<1> QED
  BY <1>8, <1>11, <1>12 DEF Rows

\* What is kept, from any sequence.
LEMMA RowsExist ==
  ASSUME NEW T, NEW s \in Seq(T), NEW S, NEW once \in BOOLEAN
  PROVE  \E f : Rows(f, T, s, S, once, Len(s))
<1> DEFINE Bad == {n \in 0..Len(s) : ~ \E f : Rows(f, T, s, S, once, n)}
<1>1. SUFFICES ASSUME Bad # {} PROVE FALSE
  <2>1. Len(s) \in 0..Len(s)
    OBVIOUS
  <2> QED
    BY <2>1
<1>2. PICK n \in Bad : \A m \in Bad : n <= m
  <2>1. Bad \subseteq Nat
    OBVIOUS
  <2> HIDE DEF Bad
  <2> QED
    BY <1>1, <2>1, LeastMember
<1>3. n # 0
  <2> DEFINE g == [i \in 0..0 |-> <<>>]
  <2>1. \A i \in 0..0 : i = 0 /\ g[i] = <<>>
    OBVIOUS
  <2>2. g = [i \in 0..0 |->
            IF i = 0 THEN <<>>
            ELSE IF s[i] \in S /\ (once => s[i] \notin ToSet(g[i - 1]))
                 THEN Append(g[i - 1], s[i]) ELSE g[i - 1]]
    BY <2>1
  <2>3. g \in [0..0 -> Seq(T)]
    OBVIOUS
  <2> HIDE DEF g
  <2>4. ToSet(<<>>) = {} /\ IsInjective(<<>>)
    BY DEF ToSet, IsInjective
  <2>5. {s[k] : k \in 1..0} = {}
    OBVIOUS
  <2>6. Rows(g, T, s, S, once, 0)
    BY <2>1, <2>2, <2>3, <2>4, <2>5 DEF Rows
  <2> QED
    BY <2>6
<1>4. n - 1 \in 0..Len(s) /\ n - 1 \notin Bad /\ n \in Nat \ {0} /\ n <= Len(s)
  <2>1. n \in 0..Len(s)
    OBVIOUS
  <2>2. n - 1 \in 0..Len(s) /\ ~(n <= n - 1)
    BY <1>3, <2>1
  <2> HIDE DEF Bad
  <2>3. n - 1 \notin Bad
    BY <1>2, <2>2
  <2> QED
    BY <1>3, <2>1, <2>2, <2>3
<1>5. PICK f : Rows(f, T, s, S, once, n - 1)
  BY <1>4
<1>6. \E g : Rows(g, T, s, S, once, n)
  BY <1>4, <1>5, NextRow
<1> QED
  BY <1>6

\* Filtered keeps the members of s in S, and none twice if s has none twice or
\* each is to be kept once.
LEMMA FilteredIs ==
  ASSUME NEW T, NEW s \in Seq(T), NEW S, NEW once \in BOOLEAN
  PROVE  /\ Filtered(s, S, once) \in Seq(T)
         /\ ToSet(Filtered(s, S, once)) = ToSet(s) \cap S
         /\ once \/ IsInjective(s) => IsInjective(Filtered(s, S, once))
<1>1. PICK f : Rows(f, T, s, S, once, Len(s))
  BY RowsExist
<1>2. PICK c : c = CHOOSE g : g = [i \in 0..Len(s) |->
             IF i = 0 THEN <<>>
             ELSE IF s[i] \in S /\ (once => s[i] \notin ToSet(g[i - 1]))
                  THEN Append(g[i - 1], s[i]) ELSE g[i - 1]]
  OBVIOUS
<1>3. Filtered(s, S, once) = c[Len(s)]
  BY <1>2 DEF Filtered
<1>4. c = [i \in 0..Len(s) |->
             IF i = 0 THEN <<>>
             ELSE IF s[i] \in S /\ (once => s[i] \notin ToSet(c[i - 1]))
                  THEN Append(c[i - 1], s[i]) ELSE c[i - 1]]
  BY <1>1, <1>2 DEF Rows
<1> DEFINE D == {k \in 0..Len(s) : c[k] # f[k]}
<1>5. D = {}
  <2> SUFFICES ASSUME D # {} PROVE FALSE
    OBVIOUS
  <2>1. PICK k \in D : \A j \in D : k <= j
    <3>1. D \subseteq Nat
      OBVIOUS
    <3> HIDE DEF D
    <3> QED
      BY <3>1, LeastMember
  <2>2. k # 0
    BY <1>1, <1>4 DEF Rows
  <2>3. k - 1 \in 0..Len(s) /\ c[k - 1] = f[k - 1]
    BY <2>1, <2>2
  <2>4. k \in 0..Len(s) /\ k # 0 /\ c[k] # f[k]
    BY <2>1, <2>2
  <2> HIDE DEF D
  <2>5. c[k] = IF s[k] \in S /\ (once => s[k] \notin ToSet(c[k - 1]))
               THEN Append(c[k - 1], s[k]) ELSE c[k - 1]
    BY <1>4, <2>4
  <2>6. f[k] = IF s[k] \in S /\ (once => s[k] \notin ToSet(f[k - 1]))
               THEN Append(f[k - 1], s[k]) ELSE f[k - 1]
    BY <1>1, <2>4 DEF Rows
  <2> QED
    BY <2>3, <2>4, <2>5, <2>6
<1>6. c[Len(s)] = f[Len(s)]
  <2>1. Len(s) \in 0..Len(s)
    OBVIOUS
  <2> QED
    BY <1>5, <2>1
<1>7. /\ f[Len(s)] \in Seq(T)
      /\ ToSet(f[Len(s)]) = {s[k] : k \in 1..Len(s)} \cap S
      /\ once \/ IsInjective(s) => IsInjective(f[Len(s)])
  <2>1. Len(s) \in 0..Len(s)
    OBVIOUS
  <2> QED
    BY <1>1, <2>1 DEF Rows
<1>8. {s[k] : k \in 1..Len(s)} = ToSet(s)
  BY DEF ToSet
<1> QED
  BY <1>3, <1>6, <1>7, <1>8

\* The deduplication keeps one of each item of S.
LEMMA DistinctIs ==
  ASSUME NEW T, NEW s \in Seq(T), NEW S
  PROVE  /\ Distinct(s, S) \in Seq(T) /\ ToSet(Distinct(s, S)) = ToSet(s) \cap S
         /\ IsInjective(Distinct(s, S))
<1>1. TRUE \in BOOLEAN
  OBVIOUS
<1>2. /\ Filtered(s, S, TRUE) \in Seq(T)
      /\ ToSet(Filtered(s, S, TRUE)) = ToSet(s) \cap S
      /\ TRUE \/ IsInjective(s) => IsInjective(Filtered(s, S, TRUE))
  BY <1>1, FilteredIs, Zenon
<1> QED
  BY <1>2 DEF Distinct

\* The filter keeps the items of S.
LEMMA SelectedIs ==
  ASSUME NEW T, NEW s \in Seq(T), NEW S
  PROVE  /\ Selected(s, S) \in Seq(T) /\ ToSet(Selected(s, S)) = ToSet(s) \cap S
         /\ IsInjective(s) => IsInjective(Selected(s, S))
<1>1. FALSE \in BOOLEAN
  OBVIOUS
<1>2. /\ Filtered(s, S, FALSE) \in Seq(T)
      /\ ToSet(Filtered(s, S, FALSE)) = ToSet(s) \cap S
      /\ FALSE \/ IsInjective(s) => IsInjective(Filtered(s, S, FALSE))
  BY <1>1, FilteredIs, Zenon
<1> QED
  BY <1>2 DEF Selected

-----------------------------------------------------------------------------
(* The pool.                                                                 *)

\* The registers of a pool and of the vregs in use are all there are, each once.
Tidy(fr, lv) ==
  /\ fr \in Seq(Phys) /\ lv \subseteq Vregs
  /\ IsInjective(fr)
  /\ \A v \in lv : vreg_phys[v] \notin ToSet(fr)
  /\ \A v, w \in lv : v # w => vreg_phys[v] # vreg_phys[w]
  /\ Phys = ToSet(fr) \cup {vreg_phys[v] : v \in lv}

Lines == [defs : SUBSET Nat, uses : SUBSET Nat, call : BOOLEAN]
States == [free_regs : Seq(Phys), live : SUBSET Nat, readable : SUBSET Nat]

\* The lines of the body mention vregs that exist.
BodyInv ==
  /\ vreg_phys \in Seq(Phys) /\ body \in Seq(Lines)
  /\ \A l \in DOMAIN body : body[l].defs \cup body[l].uses \subseteq Vregs

\* The pool and the pools of the evictions in progress are tidy.
Sound(e) == Tidy(e.free_regs, e.live) /\ e.readable \subseteq e.live
SavedInv ==
  /\ evictions \in Seq(States) /\ \A e \in ToSet(evictions) : Sound(e)
  /\ ~evicted => evictions = <<>>

PoolInv == Tidy(free_regs, live) /\ readable \subseteq live /\ SavedInv

EmitInv == BodyInv /\ (phase = "emit" => PoolInv)

\* The vregs there were keep their registers.
Longer ==
  /\ vreg_phys' \in Seq(Phys) /\ Vregs \subseteq Vregs'
  /\ \A v \in Vregs : vreg_phys'[v] = vreg_phys[v]

\* An assignment that stays or gets one register more.
LEMMA LongerCases ==
  ASSUME vreg_phys \in Seq(Phys),
         vreg_phys' = vreg_phys \/ \E p \in Phys : vreg_phys' = Append(vreg_phys, p)
  PROVE  Longer
<1>1. CASE vreg_phys' = vreg_phys
  BY <1>1 DEF Longer, Vregs
<1>2. ASSUME NEW p \in Phys, vreg_phys' = Append(vreg_phys, p) PROVE Longer
  <2>1. /\ vreg_phys' \in Seq(Phys) /\ Len(vreg_phys') = Len(vreg_phys) + 1
        /\ \A i \in 1..Len(vreg_phys) : vreg_phys'[i] = vreg_phys[i]
    BY <1>2
  <2>2. DOMAIN vreg_phys = 1..Len(vreg_phys) /\ DOMAIN vreg_phys' = 1..(Len(vreg_phys) + 1)
        /\ Len(vreg_phys) \in Nat
    BY <2>1
  <2> QED
    BY <2>1, <2>2 DEF Longer, Vregs
<1> QED
  BY <1>1, <1>2

\* RegPool.reset.
LEMMA AllFreeIs == AllFree \in Seq(Phys) /\ IsInjective(AllFree) /\ ToSet(AllFree) = Phys
<1>1. CalleeSaved \in Seq(Phys) /\ CallerSaved \in Seq(Phys)
  BY Registers, SeqMonotonic DEF Phys
<1>2. PICK a \in Seq(Phys), b \in Seq(Phys) : a = Reverse(CallerSaved) /\ b = Reverse(CalleeSaved)
  BY <1>1, ReverseMembers
<1>3. /\ ToSet(a) = ToSet(CallerSaved) /\ ToSet(b) = ToSet(CalleeSaved)
      /\ IsInjective(a) /\ IsInjective(b)
  BY <1>1, <1>2, ReverseMembers, Registers
<1>4. ToSet(a) \cap ToSet(b) = {}
  BY <1>3, Registers
<1>5. a \o b \in Seq(Phys) /\ IsInjective(a \o b) /\ ToSet(a \o b) = ToSet(a) \cup ToSet(b)
  BY <1>3, <1>4, ConcatMembers
<1> QED
  BY <1>2, <1>3, <1>5 DEF AllFree, Phys

\* Handing out further registers disturbs no pool.
LEMMA TidyKept ==
  ASSUME NEW fr, NEW lv, Tidy(fr, lv), Longer
  PROVE  Tidy(fr, lv)'
  BY DEF Tidy, Longer

\* A pool with everything in it is tidy.
LEMMA TidyAll == Tidy(AllFree, {})
  BY AllFreeIs DEF Tidy

\* The tail of the pool for a new vreg.
LEMMA TidyAlloc ==
  ASSUME NEW fr, NEW lv, Tidy(fr, lv), fr # <<>>, vreg_phys \in Seq(Phys),
         vreg_phys' = Append(vreg_phys, Last(fr)), NEW v, v = Len(vreg_phys) + 1
  PROVE  Longer /\ Tidy(Front(fr), lv \cup {v})'
<1>1. fr \in Seq(Phys) /\ IsInjective(fr)
  BY DEF Tidy
<1>2. /\ Front(fr) \in Seq(Phys) /\ IsInjective(Front(fr)) /\ Last(fr) \notin ToSet(Front(fr))
      /\ ToSet(fr) = ToSet(Front(fr)) \cup {Last(fr)} /\ Last(fr) \in Phys
  BY <1>1, FrontMembers, Members
<1>3. PICK p \in Phys, f \in Seq(Phys) : p = Last(fr) /\ f = Front(fr)
  BY <1>2
<1>4. Longer
  BY <1>3, LongerCases
<1>5. v \in Vregs' /\ vreg_phys'[v] = p /\ v \notin Vregs
  BY <1>3 DEF Vregs
<1>6. lv \subseteq Vregs /\ \A w \in lv : vreg_phys'[w] = vreg_phys[w] /\ w \in Vregs'
  BY <1>4 DEF Tidy, Longer
<1>7. \A w \in lv : vreg_phys[w] \notin ToSet(fr)
  BY DEF Tidy
<1>8. \A w \in lv \cup {v} : vreg_phys'[w] \notin ToSet(f)
  BY <1>2, <1>3, <1>5, <1>6, <1>7
<1>9. \A w, x \in lv \cup {v} : w # x => vreg_phys'[w] # vreg_phys'[x]
  <2>1. \A w \in lv : vreg_phys'[w] # vreg_phys'[v]
    BY <1>2, <1>3, <1>5, <1>6, <1>7
  <2>2. \A w, x \in lv : w # x => vreg_phys'[w] # vreg_phys'[x]
    BY <1>6 DEF Tidy
  <2> QED
    BY <2>1, <2>2
<1>10. Phys = ToSet(f) \cup {vreg_phys'[w] : w \in lv \cup {v}}
  <2>1. Phys = ToSet(f) \cup {p} \cup {vreg_phys[w] : w \in lv}
    BY <1>2, <1>3 DEF Tidy
  <2>2. {vreg_phys[w] : w \in lv} = {vreg_phys'[w] : w \in lv}
    BY <1>6
  <2> QED
    BY <1>5, <2>1, <2>2
<1>11. IsInjective(f)
  BY <1>2, <1>3
<1>12. Tidy(f, lv \cup {v})'
  BY <1>5, <1>6, <1>8, <1>9, <1>10, <1>11 DEF Tidy
<1> QED
  BY <1>3, <1>4, <1>12

\* A register given back.
LEMMA TidyFree ==
  ASSUME NEW fr, NEW lv, Tidy(fr, lv), NEW v \in lv, vreg_phys \in Seq(Phys)
  PROVE  Tidy(Append(fr, vreg_phys[v]), lv \ {v})
<1>1. fr \in Seq(Phys) /\ IsInjective(fr) /\ vreg_phys[v] \notin ToSet(fr) /\ v \in Vregs
  BY DEF Tidy
<1>2. PICK p \in Phys : p = vreg_phys[v]
  BY <1>1 DEF Vregs
<1>3. /\ Append(fr, p) \in Seq(Phys) /\ IsInjective(Append(fr, p))
      /\ ToSet(Append(fr, p)) = ToSet(fr) \cup {p}
  BY <1>1, <1>2, AppendMembers
<1>4. \A w \in lv \ {v} : vreg_phys[w] \notin ToSet(fr) \cup {p}
  BY <1>2 DEF Tidy
<1>5. Phys = ToSet(fr) \cup {p} \cup {vreg_phys[w] : w \in lv \ {v}}
  <2>1. {vreg_phys[w] : w \in lv} = {p} \cup {vreg_phys[w] : w \in lv \ {v}}
    BY <1>2
  <2> QED
    BY <2>1 DEF Tidy
<1> QED
  BY <1>2, <1>3, <1>4, <1>5 DEF Tidy

\* As many images as members, when no two have the same; never more.
LEMMA ImageSize ==
  ASSUME NEW S, IsFiniteSet(S), NEW f
  PROVE  LET T == {f[x] : x \in S}
         IN  /\ IsFiniteSet(T) /\ Cardinality(T) \in Nat /\ Cardinality(S) \in Nat
             /\ Cardinality(T) <= Cardinality(S)
             /\ (\A x, y \in S : f[x] = f[y] => x = y) => Cardinality(T) = Cardinality(S)
<1> DEFINE T == {f[x] : x \in S}
           g == [x \in S |-> f[x]]
<1>1. g \in Surjection(S, T)
  BY DEF Surjection
<1>2. (\A x, y \in S : f[x] = f[y] => x = y) => g \in Injection(S, T)
  BY DEF Injection, IsInjective
<1> HIDE DEF T, g
<1>3. /\ IsFiniteSet(T) /\ Cardinality(T) <= Cardinality(S)
      /\ Cardinality(T) = Cardinality(S) <=> g \in Injection(S, T)
  BY <1>1, FS_Surjection
<1>4. Cardinality(T) \in Nat /\ Cardinality(S) \in Nat
  BY <1>3, FS_CardinalityType
<1> QED
  BY <1>2, <1>3, <1>4 DEF T

\* A set that maps one to one into S is no larger than S.
LEMMA Pigeons ==
  ASSUME NEW D, IsFiniteSet(D), NEW f, NEW S, IsFiniteSet(S), {f[x] : x \in D} \subseteq S,
         \A x, y \in D : f[x] = f[y] => x = y
  PROVE  Cardinality(D) <= Cardinality(S)
<1>1. Cardinality({f[x] : x \in D}) = Cardinality(D)
  BY ImageSize
<1>2. Cardinality({f[x] : x \in D}) <= Cardinality(S)
  BY FS_Subset
<1> QED
  BY <1>1, <1>2

\* The size of a sequence's set of members.
LEMMA MembersSize ==
  ASSUME NEW T, NEW s \in Seq(T)
  PROVE  /\ IsFiniteSet(ToSet(s)) /\ Cardinality(ToSet(s)) \in Nat
         /\ IsInjective(s) => Cardinality(ToSet(s)) = Len(s)
<1>1. PICK n \in Nat : n = Len(s) /\ DOMAIN s = 1..n
  OBVIOUS
<1>2. IsFiniteSet(1..n) /\ Cardinality(1..n) = n
  <2>1. IsFiniteSet(1..n) /\ Cardinality(1..n) = IF 1 > n THEN 0 ELSE n - 1 + 1
    BY FS_Interval
  <2> QED
    BY <2>1
<1>3. IsFiniteSet(DOMAIN s) /\ Cardinality(DOMAIN s) = n
  BY <1>1, <1>2
<1>4. LET T1 == {s[x] : x \in DOMAIN s}
      IN  /\ IsFiniteSet(T1) /\ Cardinality(T1) \in Nat /\ Cardinality(DOMAIN s) \in Nat
          /\ Cardinality(T1) <= Cardinality(DOMAIN s)
          /\ (\A x, y \in DOMAIN s : s[x] = s[y] => x = y) => Cardinality(T1) = Cardinality(DOMAIN s)
  BY <1>3, ImageSize, Zenon
<1> QED
  BY <1>1, <1>3, <1>4 DEF ToSet, IsInjective

\* There are finitely many registers.
LEMMA FinitePhys == IsFiniteSet(Phys)
  BY AllFreeIs, MembersSize

\* In a tidy pool the free registers and the vregs in use add up.
LEMMA TidyCounts ==
  ASSUME NEW fr, NEW lv, Tidy(fr, lv), vreg_phys \in Seq(Phys)
  PROVE  Len(fr) + Cardinality(lv) = Cardinality(Phys)
<1> DEFINE used == {vreg_phys[v] : v \in lv}
<1>1. IsFiniteSet(lv)
  <2>1. PICK n \in Nat : Vregs = 1..n
    BY DEF Vregs
  <2>2. lv \in SUBSET Nat /\ \A x \in lv : x <= n
    BY <2>1 DEF Tidy
  <2> QED
    BY <2>2, FS_BoundedSetOfNaturals
<1>2. IsFiniteSet(used) /\ Cardinality(used) = Cardinality(lv) /\ Cardinality(lv) \in Nat
  <2>1. \A x, y \in lv : vreg_phys[x] = vreg_phys[y] => x = y
    BY DEF Tidy
  <2> QED
    BY <1>1, <2>1, ImageSize
<1>3. IsFiniteSet(ToSet(fr)) /\ Cardinality(ToSet(fr)) = Len(fr) /\ Len(fr) \in Nat
  BY MembersSize DEF Tidy
<1>4. Phys = ToSet(fr) \cup used /\ ToSet(fr) \cap used = {}
  BY DEF Tidy
<1> HIDE DEF used
<1>5. Cardinality(Phys) = Cardinality(ToSet(fr)) + Cardinality(used) - Cardinality(ToSet(fr) \cap used)
  BY <1>2, <1>3, <1>4, FS_Union
<1>6. Cardinality(ToSet(fr) \cap used) = 0
  BY <1>4, FS_EmptySet
<1> QED
  BY <1>2, <1>3, <1>5, <1>6

\* PoolConserved is about the pool in use.
LEMMA PoolIsConserved == EmitInv => PoolConserved
<1> SUFFICES ASSUME EmitInv, phase = "emit"
             PROVE  /\ IsInjective(free_regs)
                    /\ \A v \in live : vreg_phys[v] \notin ToSet(free_regs)
                    /\ \A v, w \in live : v # w => vreg_phys[v] # vreg_phys[w]
                    /\ Len(free_regs) + Cardinality(live) = Cardinality(Phys)
  BY DEF PoolConserved
<1>1. Tidy(free_regs, live) /\ vreg_phys \in Seq(Phys)
  BY DEF EmitInv, BodyInv, PoolInv
<1>2. Len(free_regs) + Cardinality(live) = Cardinality(Phys)
  BY <1>1, TidyCounts
<1> QED
  BY <1>1, <1>2 DEF Tidy

-----------------------------------------------------------------------------
(* Emission.                                                                 *)

\* Everything that may be read is where it was written.
HoldInv == ReadsRight /\ (phase = "emit" => \A u \in readable : Holds(u, Len(body) + 1))

\* What a line reads is not disturbed by lines that follow.
LEMMA HoldsKept ==
  ASSUME BodyInv, Longer, NEW n \in Nat, n = Len(body), Len(body') \in Nat, n <= Len(body'),
         \A k \in 1..n : body'[k] = body[k],
         NEW u \in Vregs, NEW l \in 1..(n + 1), Holds(u, l)
  PROVE  Holds(u, l)'
<1>1. PICK k \in 1..(l - 1) :
         u \in body[k].defs /\ \A m \in (k + 1)..(l - 1) : ~Clobbers(m, vreg_phys[u])
  BY DEF Holds
<1>2. \A m \in 1..(l - 1) : m \in 1..n /\ m \in DOMAIN body /\ body'[m] = body[m]
  BY DEF BodyInv
<1>3. vreg_phys'[u] = vreg_phys[u]
  BY DEF Longer
<1>4. ASSUME NEW m \in 1..(l - 1), Clobbers(m, vreg_phys[u])' PROVE Clobbers(m, vreg_phys[u])
  <2>1. \A d \in body[m].defs : vreg_phys'[d] = vreg_phys[d]
    BY <1>2 DEF BodyInv, Longer
  <2> QED
    BY <1>2, <1>3, <1>4, <2>1 DEF Clobbers
<1>5. \A m \in (k + 1)..(l - 1) : ~Clobbers(m, vreg_phys[u])'
  BY <1>1, <1>4
<1> QED
  BY <1>1, <1>2, <1>5 DEF Holds

\* No new line.
LEMMA SameLines ==
  ASSUME BodyInv, HoldInv, phase = "emit", Longer, readable \subseteq Vregs,
         body' = body, readable' \subseteq readable
  PROVE  BodyInv' /\ HoldInv'
<1>1. PICK n \in Nat : n = Len(body) /\ DOMAIN body = 1..n
  BY DEF BodyInv
<1>2. BodyInv'
  BY DEF BodyInv, Longer
<1>3. ASSUME NEW u \in Vregs, NEW l \in 1..(n + 1), Holds(u, l) PROVE Holds(u, l)'
  BY <1>1, <1>3, HoldsKept
<1>4. ReadsRight'
  <2> SUFFICES ASSUME NEW l \in 1..n, NEW u \in body[l].uses PROVE Holds(u, l)'
    BY <1>1 DEF ReadsRight
  <2>1. u \in Vregs /\ Holds(u, l) /\ l \in 1..(n + 1)
    BY <1>1 DEF BodyInv, HoldInv, ReadsRight
  <2> QED
    BY <1>3, <2>1
<1>5. PICK l \in 1..(n + 1) : l = n + 1
  OBVIOUS
<1>6. \A u \in readable' : Holds(u, l)'
  <2>1. \A u \in readable : Holds(u, l)
    BY <1>1, <1>5 DEF HoldInv
  <2> QED
    BY <1>3, <2>1
<1>7. \A u \in readable' : Holds(u, Len(body) + 1)'
  BY <1>1, <1>5, <1>6 DEF Holds
<1> QED
  BY <1>2, <1>4, <1>7 DEF HoldInv

\* What may be read after line x, it has written or left alone.
Spared(x) ==
  \A w \in readable' :
    \/ w \in x.defs
    \/ /\ w \in readable /\ (x.call => is_callee_saved_phys(vreg_phys[w]))
       /\ \A d \in x.defs : vreg_phys'[d] # vreg_phys[w]

Adds(x) == body' = Append(body, x)

\* A new line that reads what may be read.
LEMMA NewLine ==
  ASSUME BodyInv, HoldInv, phase = "emit", Longer, readable \subseteq Vregs,
         NEW x \in Lines, Adds(x), x.uses \subseteq readable,
         x.defs \subseteq Vregs', Spared(x)
  PROVE  BodyInv' /\ HoldInv'
<1>1. PICK n \in Nat : n = Len(body)
  BY DEF BodyInv
<1>2. /\ body' \in Seq(Lines) /\ Len(body') = n + 1 /\ body'[n + 1] = x
      /\ \A k \in 1..n : body'[k] = body[k]
  BY <1>1 DEF BodyInv, Adds
<1>3. DOMAIN body = 1..n /\ DOMAIN body' = 1..(n + 1)
  BY <1>1, <1>2 DEF BodyInv
<1>4. BodyInv'
  <2>1. x.uses \subseteq Vregs'
    BY DEF Longer
  <2>2. ASSUME NEW l \in 1..(n + 1) PROVE body'[l].defs \cup body'[l].uses \subseteq Vregs'
    <3>1. CASE l = n + 1
      BY <1>2, <2>1, <3>1
    <3>2. CASE l \in 1..n
      BY <1>2, <1>3, <3>2 DEF BodyInv, Longer
    <3> QED
      BY <3>1, <3>2
  <2> QED
    BY <1>2, <1>3, <2>2 DEF BodyInv, Longer
<1>5. ASSUME NEW u \in Vregs, NEW l \in 1..(n + 1), Holds(u, l) PROVE Holds(u, l)'
  BY <1>1, <1>2, <1>5, HoldsKept
<1>6. \A u \in readable : Holds(u, n + 1)
  BY <1>1 DEF HoldInv
<1>7. ReadsRight'
  <2> SUFFICES ASSUME NEW l \in 1..(n + 1), NEW u \in body'[l].uses PROVE Holds(u, l)'
    BY <1>3 DEF ReadsRight
  <2>1. CASE l = n + 1
    BY <1>2, <1>5, <1>6, <2>1
  <2>2. CASE l \in 1..n
    <3>1. u \in body[l].uses /\ u \in Vregs
      BY <1>2, <1>3, <2>2 DEF BodyInv
    <3>2. Holds(u, l)
      BY <1>3, <2>2, <3>1 DEF HoldInv, ReadsRight
    <3> QED
      BY <1>5, <3>1, <3>2
  <2> QED
    BY <2>1, <2>2
<1>8. PICK l \in Nat : l = n + 1
  OBVIOUS
<1>9. ASSUME NEW w \in readable' PROVE Holds(w, l + 1)'
  <2>1. CASE w \in x.defs
    <3>1. l \in 1..(l + 1 - 1) /\ w \in body'[l].defs /\ \A m : m \notin (l + 1)..(l + 1 - 1)
      BY <1>2, <1>8, <2>1
    <3>2. \E k \in 1..(l + 1 - 1) :
            w \in body'[k].defs /\ \A m \in (k + 1)..(l + 1 - 1) : ~Clobbers(m, vreg_phys[w])'
      BY <3>1
    <3> QED
      BY <3>2 DEF Holds
  <2>2. CASE w \notin x.defs
    <3>0. /\ w \in readable /\ (x.call => is_callee_saved_phys(vreg_phys[w]))
          /\ \A d \in x.defs : vreg_phys'[d] # vreg_phys[w]
      BY <2>2 DEF Spared
    <3>1. Holds(w, l)'
      <4>1. l \in 1..(n + 1)
        BY <1>8
      <4> QED
        BY <1>5, <1>6, <1>8, <3>0, <4>1
    <3>2. PICK k \in 1..(l - 1) :
            w \in body'[k].defs /\ \A m \in (k + 1)..(l - 1) : ~Clobbers(m, vreg_phys[w])'
      BY <3>1 DEF Holds
    <3>3. vreg_phys'[w] = vreg_phys[w]
      BY <3>0 DEF Longer
    <3>4. ~Clobbers(l, vreg_phys[w])'
      BY <1>2, <1>8, <3>0, <3>3 DEF Clobbers
    <3>5. \A m \in (k + 1)..(l + 1 - 1) : m \in (k + 1)..(l - 1) \/ m = l
      OBVIOUS
    <3>6. \A m \in (k + 1)..(l + 1 - 1) : ~Clobbers(m, vreg_phys[w])'
      BY <3>2, <3>4, <3>5
    <3>7. k \in 1..(l + 1 - 1)
      OBVIOUS
    <3> QED
      BY <3>2, <3>6, <3>7 DEF Holds
  <2> QED
    BY <2>1, <2>2
<1>10. \A w \in readable' : Holds(w, Len(body) + 1)'
  <2>1. Len(body') = l
    BY <1>2, <1>8
  <2> QED
    BY <1>9, <2>1 DEF Holds
<1> QED
  BY <1>4, <1>7, <1>10 DEF HoldInv

\* The evictions in progress, when none is added or taken.
LEMMA SavedStay ==
  ASSUME SavedInv, Longer, UNCHANGED <<evictions, evicted>>
  PROVE  SavedInv'
<1>1. ASSUME NEW e \in ToSet(evictions) PROVE Sound(e)'
  BY TidyKept DEF SavedInv, Sound
<1> QED
  BY <1>1 DEF SavedInv

\* The state of the innermost eviction, when it is taken back.
LEMMA SavedTaken ==
  ASSUME SavedInv, Longer, evictions # <<>>, evictions' = Front(evictions), UNCHANGED evicted,
         NEW e, e = Last(evictions)
  PROVE  /\ SavedInv' /\ Sound(e) /\ e \in States /\ evicted
<1>1. evictions \in Seq(States)
  BY DEF SavedInv
<1>2. /\ evictions' \in Seq(States) /\ e \in ToSet(evictions)
      /\ ToSet(evictions) = ToSet(evictions') \cup {e} /\ e \in States
  BY <1>1, FrontMembers, Members
<1>3. ASSUME NEW x \in ToSet(evictions) PROVE Sound(x)'
  BY TidyKept DEF SavedInv, Sound
<1>4. evicted
  BY DEF SavedInv
<1>5. \A x \in ToSet(evictions') : Sound(x)'
  BY <1>2, <1>3
<1> QED
  BY <1>2, <1>4, <1>5 DEF SavedInv

\* A pool found tidy is the pool in use.
LEMMA TidyNow ==
  ASSUME NEW fr, NEW lv, Tidy(fr, lv)', free_regs' = fr, live' = lv
  PROVE  Tidy(free_regs, live)'
  BY DEF Tidy

\* One step of the code generator.
EmitStep ==
  \/ alloc_reg \/ (\E v \in live : free_reg(v)) \/ EmitInsn \/ EmitCall
  \/ save_live_regs \/ (\E r \in readable : restore_live_regs(r)) \/ restore_no_value

\* Each step of the code generator keeps the pool tidy and what may be read in place.
LEMMA EmitStepKeeps ==
  ASSUME EmitInv, HoldInv, EmitStep
  PROVE  phase = "emit" /\ phase' = "emit" /\ Longer /\ EmitInv' /\ HoldInv'
<1>0. phase = "emit" /\ phase' = "emit"
  BY DEF EmitStep, alloc_reg, free_reg, EmitInsn, EmitCall, save_live_regs, restore_live_regs,
         restore_no_value, Room
<1>1. BodyInv /\ Tidy(free_regs, live) /\ readable \subseteq live /\ SavedInv /\ live \subseteq Vregs
      /\ vreg_phys \in Seq(Phys) /\ body \in Seq(Lines)
  BY <1>0 DEF EmitInv, PoolInv, Tidy, BodyInv
<1>2. PICK fr, lv : fr = free_regs /\ lv = live
  OBVIOUS
<1>3. Vregs \subseteq Nat
  BY <1>1 DEF Vregs
<1>4. CASE alloc_reg
  <2>1. PICK v : v = Len(vreg_phys) + 1
    OBVIOUS
  <2>2. /\ fr # <<>> /\ vreg_phys' = Append(vreg_phys, Last(fr)) /\ free_regs' = Front(fr)
        /\ live' = lv \cup {v} /\ UNCHANGED <<evictions, evicted, body, readable>>
    BY <1>2, <1>4, <2>1 DEF alloc_reg
  <2>3. Longer /\ Tidy(Front(fr), lv \cup {v})'
    BY <1>1, <1>2, <2>1, <2>2, TidyAlloc
  <2>4. Tidy(free_regs, live)'
    BY <2>2, <2>3, TidyNow
  <2>5. readable' \subseteq live'
    BY <1>1, <1>2, <2>2
  <2>6. SavedInv'
    BY <1>1, <2>2, <2>3, SavedStay
  <2>7. BodyInv' /\ HoldInv'
    BY <1>0, <1>1, <2>2, <2>3, SameLines
  <2> QED
    BY <1>0, <2>3, <2>4, <2>5, <2>6, <2>7 DEF EmitInv, PoolInv
<1>5. ASSUME NEW v \in live, free_reg(v) PROVE Longer /\ EmitInv' /\ HoldInv'
  <2>1. PICK f : f = Append(fr, vreg_phys[v])
    OBVIOUS
  <2>2. /\ free_regs' = f /\ live' = lv \ {v} /\ readable' = readable \ {v}
        /\ UNCHANGED <<vreg_phys, evictions, evicted, body>>
    BY <1>2, <1>5, <2>1 DEF free_reg
  <2>3. Longer
    BY <1>1, <2>2, LongerCases
  <2>4. Tidy(f, lv \ {v})
    BY <1>1, <1>2, <2>1, TidyFree
  <2>5. Tidy(free_regs, live)'
    BY <2>2, <2>3, <2>4, TidyKept, TidyNow
  <2>6. readable' \subseteq live' /\ readable' \subseteq readable
    BY <1>1, <1>2, <2>2
  <2>7. SavedInv'
    BY <1>1, <2>2, <2>3, SavedStay
  <2>8. BodyInv' /\ HoldInv'
    BY <1>0, <1>1, <2>2, <2>3, <2>6, SameLines
  <2> QED
    BY <1>0, <2>3, <2>5, <2>6, <2>7, <2>8 DEF EmitInv, PoolInv
<1>6. CASE EmitInsn \/ EmitCall
  <2>1. PICK x : /\ Adds(x) /\ x \in Lines /\ x.uses \subseteq readable /\ x.defs \subseteq live
                 /\ Spared(x) /\ readable' \subseteq readable \cup x.defs
                 /\ UNCHANGED <<vreg_phys, free_regs, live, evictions, evicted>>
    <3>1. CASE EmitInsn
      <4>1. PICK d \in SUBSET live, u \in SUBSET readable :
              body' = Append(body, Line(d, u, FALSE)) /\ readable' = readable \cup d
        BY <3>1 DEF EmitInsn
      <4>2. PICK x : x = Line(d, u, FALSE)
        OBVIOUS
      <4>3. x \in Lines /\ x.defs = d /\ x.uses = u /\ x.call = FALSE /\ Adds(x)
        BY <1>1, <1>3, <4>1, <4>2 DEF Lines, Line, Adds
      <4>4. UNCHANGED <<vreg_phys, free_regs, live, evictions, evicted>>
        BY <3>1 DEF EmitInsn
      <4>5. Spared(x)
        BY <1>1, <4>1, <4>3, <4>4 DEF Spared, Tidy
      <4> QED
        BY <4>1, <4>3, <4>4, <4>5
    <3>2. CASE EmitCall
      <4>1. PICK x : x = Line({}, {}, TRUE)
        OBVIOUS
      <4>2. x \in Lines /\ x.defs = {} /\ x.uses = {} /\ x.call = TRUE /\ Adds(x)
        BY <3>2, <4>1 DEF Lines, Line, Adds, EmitCall
      <4>3. /\ UNCHANGED <<vreg_phys, free_regs, live, evictions, evicted>>
            /\ readable' = {v \in readable : is_callee_saved_phys(vreg_phys[v])}
        BY <3>2 DEF EmitCall
      <4> QED
        BY <4>2, <4>3 DEF Spared
    <3> QED
      BY <1>6, <3>1, <3>2
  <2>2. Longer
    BY <1>1, <2>1, LongerCases
  <2>3. Tidy(free_regs, live)'
    BY <1>1, <1>2, <2>1, <2>2, TidyKept, TidyNow
  <2>4. readable' \subseteq live' /\ x.defs \subseteq Vregs' /\ readable \subseteq Vregs
    BY <1>1, <2>1, <2>2 DEF Longer
  <2>5. SavedInv'
    BY <1>1, <2>1, <2>2, SavedStay
  <2>6. BodyInv' /\ HoldInv'
    BY <1>0, <1>1, <2>1, <2>2, <2>4, NewLine
  <2> QED
    BY <1>0, <2>2, <2>3, <2>4, <2>5, <2>6 DEF EmitInv, PoolInv
<1>7. CASE save_live_regs
  <2>1. PICK x : x = Line({}, readable, FALSE)
    OBVIOUS
  <2>2. /\ evictions' = Append(evictions, [free_regs |-> free_regs, live |-> live, readable |-> readable])
        /\ free_regs' = AllFree /\ live' = {} /\ evicted' = TRUE /\ readable' = {}
        /\ body' = Append(body, x) /\ UNCHANGED vreg_phys
    BY <1>7, <2>1 DEF save_live_regs
  <2>3. x \in Lines /\ x.defs = {} /\ x.uses = readable /\ Adds(x) /\ Spared(x)
    BY <1>1, <1>3, <2>1, <2>2 DEF Lines, Line, Adds, Spared
  <2>4. Longer
    BY <1>1, <2>2, LongerCases
  <2>5. Tidy(free_regs, live)'
    BY <2>2, <2>4, TidyAll, TidyKept, TidyNow
  <2>6. PICK e : e = [free_regs |-> free_regs, live |-> live, readable |-> readable]
    OBVIOUS
  <2>7. e \in States /\ Sound(e)
    BY <1>1, <1>3, <2>6 DEF States, Sound, Tidy
  <2>8. SavedInv'
    <3>1. evictions' \in Seq(States) /\ ToSet(evictions') = ToSet(evictions) \cup {e}
      BY <1>1, <2>2, <2>6, <2>7, AppendMembers DEF SavedInv
    <3>2. ASSUME NEW y \in ToSet(evictions) \cup {e} PROVE Sound(y)'
      BY <1>1, <2>4, <2>7, TidyKept DEF SavedInv, Sound
    <3> QED
      BY <2>2, <3>1, <3>2 DEF SavedInv
  <2>9. BodyInv' /\ HoldInv'
    <3>1. x.defs \subseteq Vregs' /\ readable \subseteq Vregs /\ x.uses \subseteq readable
      BY <1>1, <2>3
    <3> QED
      BY <1>0, <1>1, <2>3, <2>4, <3>1, NewLine
  <2> QED
    BY <1>0, <2>2, <2>4, <2>5, <2>8, <2>9 DEF EmitInv, PoolInv
<1>8. ASSUME NEW r \in readable, restore_live_regs(r) PROVE Longer /\ EmitInv' /\ HoldInv'
  <2>1. PICK e, v : e = Last(evictions) /\ v = Len(vreg_phys) + 1
    OBVIOUS
  <2>2. PICK x : x = Line(e.readable \cup {v}, {r}, FALSE)
    OBVIOUS
  <2>3. /\ evictions # <<>> /\ e.free_regs # <<>>
        /\ vreg_phys' = Append(vreg_phys, Last(e.free_regs))
        /\ free_regs' = Front(e.free_regs) /\ live' = e.live \cup {v}
        /\ readable' = e.readable \cup {v} /\ body' = Append(body, x)
        /\ evictions' = Front(evictions) /\ UNCHANGED evicted
    BY <1>8, <2>1, <2>2 DEF restore_live_regs
  <2>4. evictions \in Seq(States) /\ e \in ToSet(evictions) /\ e \in States /\ Sound(e)
    <3>1. evictions \in Seq(States)
      BY <1>1 DEF SavedInv
    <3>2. e \in ToSet(evictions) /\ e \in States
      BY <2>1, <2>3, <3>1, FrontMembers, Members
    <3> QED
      BY <1>1, <3>1, <3>2 DEF SavedInv
  <2>5. Longer /\ Tidy(Front(e.free_regs), e.live \cup {v})'
    BY <1>1, <2>1, <2>3, <2>4, TidyAlloc DEF Sound
  <2>6. Tidy(free_regs, live)'
    BY <2>3, <2>5, TidyNow
  <2>7. SavedInv'
    BY <1>1, <2>1, <2>3, <2>5, SavedTaken
  <2>8. readable' \subseteq live' /\ live' \subseteq Vregs'
    BY <2>3, <2>4, <2>6 DEF Sound, Tidy
  <2>9. x \in Lines /\ x.defs = readable' /\ x.uses \subseteq readable /\ Adds(x) /\ Spared(x)
    <3>1. v \in Nat /\ e.readable \subseteq Nat /\ r \in Nat
      BY <1>1, <1>3, <2>1, <2>4 DEF States
    <3> QED
      BY <2>2, <2>3, <3>1 DEF Lines, Line, Adds, Spared
  <2>10. BodyInv' /\ HoldInv'
    <3>1. x.defs \subseteq Vregs' /\ readable \subseteq Vregs
      BY <1>1, <2>8, <2>9
    <3> QED
      BY <1>0, <1>1, <2>5, <2>9, <3>1, NewLine
  <2> QED
    BY <1>0, <2>5, <2>6, <2>7, <2>8, <2>10 DEF EmitInv, PoolInv
<1>9. CASE restore_no_value
  <2>1. PICK e : e = Last(evictions)
    OBVIOUS
  <2>2. PICK x : x = Line(e.readable, {}, FALSE)
    OBVIOUS
  <2>3. /\ evictions # <<>> /\ free_regs' = e.free_regs /\ live' = e.live
        /\ readable' = e.readable /\ body' = Append(body, x)
        /\ evictions' = Front(evictions) /\ UNCHANGED <<vreg_phys, evicted>>
    BY <1>9, <2>1, <2>2 DEF restore_no_value
  <2>4. Longer
    BY <1>1, <2>3, LongerCases
  <2>5. SavedInv' /\ Sound(e) /\ e \in States
    BY <1>1, <2>1, <2>3, <2>4, SavedTaken
  <2>6. Tidy(free_regs, live)'
    <3>1. PICK f, k : f = e.free_regs /\ k = e.live
      OBVIOUS
    <3> QED
      BY <2>3, <2>4, <2>5, <3>1, TidyKept, TidyNow DEF Sound
  <2>7. readable' \subseteq live' /\ live' \subseteq Vregs'
    BY <2>3, <2>5, <2>6 DEF Sound, Tidy
  <2>8. x \in Lines /\ x.defs = readable' /\ x.uses \subseteq readable /\ Adds(x) /\ Spared(x)
    BY <2>2, <2>3, <2>5 DEF Lines, Line, Adds, Spared, States
  <2>9. BodyInv' /\ HoldInv'
    <3>1. x.defs \subseteq Vregs' /\ readable \subseteq Vregs
      BY <1>1, <2>7, <2>8
    <3> QED
      BY <1>0, <1>1, <2>4, <2>8, <3>1, NewLine
  <2> QED
    BY <1>0, <2>4, <2>5, <2>6, <2>7, <2>9 DEF EmitInv, PoolInv
<1> QED
  BY <1>0, <1>4, <1>5, <1>6, <1>7, <1>8, <1>9 DEF EmitStep

-----------------------------------------------------------------------------
(* Vregs of one register: without an eviction, one is done before the other  *)
(* begins.                                                                   *)

Before(a, b) == \A i \in Mentions(a), j \in Mentions(b) : i < j

\* The one in use comes after the others.
ApartAll ==
  \A a, b \in Vregs : a # b /\ vreg_phys[a] = vreg_phys[b] =>
    /\ Before(a, b) \/ Before(b, a)
    /\ phase = "emit" /\ b \in live => Before(a, b)

Apart == ~evicted /\ phase \in {"emit", "run"} => ApartAll

\* Where a vreg is mentioned.
LEMMA MentionsIn ==
  ASSUME BodyInv, NEW v
  PROVE  /\ Mentions(v) \subseteq 1..Len(body) /\ Len(body) \in Nat
         /\ v \notin Vregs => Mentions(v) = {}
  BY DEF Mentions, BodyInv

\* Without an eviction, a register is only handed out again after its last vreg was freed.
LEMMA ApartKept ==
  ASSUME EmitInv, EmitInv', Apart, EmitStep, phase = "emit", phase' = "emit", Longer
  PROVE  Apart'
<1> SUFFICES ASSUME ~evicted' PROVE ApartAll'
  BY DEF Apart
<1>1. BodyInv /\ BodyInv' /\ Tidy(free_regs, live) /\ readable \subseteq live /\ SavedInv
      /\ live \subseteq Vregs
  BY DEF EmitInv, PoolInv, Tidy
<1>2. ~evicted /\ ApartAll
  <2>1. ~evicted
    BY DEF EmitStep, alloc_reg, free_reg, EmitInsn, EmitCall, save_live_regs, restore_live_regs,
           restore_no_value
  <2> QED
    BY <2>1 DEF Apart
<1>3. evictions = <<>>
  BY <1>1, <1>2 DEF SavedInv
<1>4. CASE body' = body /\ live' \cap Vregs \subseteq live
  <2> SUFFICES ASSUME NEW a \in Vregs', NEW b \in Vregs', a # b, vreg_phys'[a] = vreg_phys'[b]
               PROVE  /\ Before(a, b)' \/ Before(b, a)'
                      /\ b \in live' => Before(a, b)'
    BY DEF ApartAll
  <2>1. \A v : Mentions(v)' = Mentions(v)
    BY <1>4 DEF Mentions
  <2>2. \A v : v \notin Vregs => Mentions(v) = {}
    BY <1>1, MentionsIn
  <2>3. CASE a \in Vregs /\ b \in Vregs
    <3>1. vreg_phys[a] = vreg_phys[b]
      BY <2>3 DEF Longer
    <3> QED
      BY <1>2, <1>4, <2>1, <2>3, <3>1 DEF ApartAll, Before
  <2>4. CASE a \notin Vregs \/ b \notin Vregs
    BY <2>1, <2>2, <2>4 DEF Before
  <2> QED
    BY <2>3, <2>4
<1>5. ASSUME NEW x \in Lines, Adds(x), x.defs \cup x.uses \subseteq live,
             UNCHANGED <<vreg_phys, live>>
      PROVE  ApartAll'
  <2>1. PICK n \in Nat : n = Len(body)
    BY <1>1, MentionsIn
  <2>2. /\ DOMAIN body = 1..n /\ DOMAIN body' = 1..(n + 1) /\ body'[n + 1] = x
        /\ \A l \in 1..n : body'[l] = body[l]
    BY <1>1, <1>5, <2>1 DEF Adds, BodyInv
  <2>3. \A v : /\ Mentions(v) \subseteq 1..n /\ Mentions(v)' \subseteq Mentions(v) \cup {n + 1}
               /\ v \notin live => Mentions(v)' = Mentions(v)
    BY <1>5, <2>2 DEF Mentions
  <2> SUFFICES ASSUME NEW a \in Vregs, NEW b \in Vregs, a # b, vreg_phys[a] = vreg_phys[b]
               PROVE  /\ Before(a, b)' \/ Before(b, a)'
                      /\ b \in live => Before(a, b)'
    BY <1>5 DEF ApartAll, Vregs
  <2>4. ~(a \in live /\ b \in live)
    BY <1>1 DEF Tidy
  <2>5. \A v, w : v \notin live /\ Before(v, w) => Before(v, w)'
    <3> SUFFICES ASSUME NEW v, NEW w, v \notin live, Before(v, w),
                        NEW i \in Mentions(v)', NEW j \in Mentions(w)'
                 PROVE  i < j
      BY DEF Before
    <3>1. i \in Mentions(v) /\ i \in 1..n
      BY <2>3
    <3>2. CASE j \in Mentions(w)
      BY <3>1, <3>2 DEF Before
    <3>3. CASE j = n + 1
      BY <3>1, <3>3
    <3> QED
      BY <2>3, <3>2, <3>3
  <2>6. /\ Before(a, b) \/ Before(b, a)
        /\ b \in live => Before(a, b)
        /\ a \in live => Before(b, a)
    BY <1>2 DEF ApartAll
  <2> QED
    BY <2>4, <2>5, <2>6
<1>6. CASE alloc_reg
  <2>1. body' = body /\ live' = live \cup {Len(vreg_phys) + 1}
    BY <1>6 DEF alloc_reg
  <2>2. Len(vreg_phys) + 1 \notin Vregs
    BY <1>1 DEF BodyInv, Vregs
  <2> QED
    BY <1>4, <2>1, <2>2
<1>7. ASSUME NEW v \in live, free_reg(v) PROVE ApartAll'
  BY <1>4, <1>7 DEF free_reg
<1>8. CASE EmitInsn
  <2>1. PICK d \in SUBSET live, u \in SUBSET readable :
          body' = Append(body, Line(d, u, FALSE))
    BY <1>8 DEF EmitInsn
  <2>2. PICK x : x = Line(d, u, FALSE)
    OBVIOUS
  <2>3. Vregs \subseteq Nat
    BY <1>1 DEF Vregs, BodyInv
  <2>4. x \in Lines /\ x.defs = d /\ x.uses = u /\ Adds(x)
    BY <1>1, <2>1, <2>2, <2>3 DEF Lines, Line, Adds
  <2>5. UNCHANGED <<vreg_phys, live>>
    BY <1>8 DEF EmitInsn
  <2> QED
    BY <1>1, <1>5, <2>4, <2>5
<1>9. CASE EmitCall
  <2>1. PICK x : x = Line({}, {}, TRUE)
    OBVIOUS
  <2>2. x \in Lines /\ x.defs = {} /\ x.uses = {} /\ Adds(x) /\ UNCHANGED <<vreg_phys, live>>
    BY <1>9, <2>1 DEF Lines, Line, Adds, EmitCall
  <2> QED
    BY <1>5, <2>2
<1>10. CASE save_live_regs \/ (\E r \in readable : restore_live_regs(r)) \/ restore_no_value
  BY <1>3, <1>10 DEF save_live_regs, restore_live_regs, restore_no_value
<1> QED
  BY <1>6, <1>7, <1>8, <1>9, <1>10 DEF EmitStep

-----------------------------------------------------------------------------
(* The scan.                                                                 *)

Defined(v) == Defs(v) # {}

\* An interval is the lines from the first definition to the last mention.
LEMMA Intervals ==
  ASSUME BodyInv, NEW v
  PROVE  /\ def_line(v) \in Nat /\ last_use(v) \in Nat
         /\ Defined(v) <=> def_line(v) # 0
         /\ Defined(v) => /\ def_line(v) \in Defs(v) /\ def_line(v) \in Mentions(v)
                          /\ last_use(v) \in Mentions(v) /\ def_line(v) <= last_use(v)
         /\ \A l \in Defs(v) : def_line(v) <= l
         /\ \A l \in Mentions(v) : l <= last_use(v)
<1>1. PICK n \in Nat : n = Len(body) /\ DOMAIN body = 1..n
  BY DEF BodyInv
<1>2. Defs(v) \subseteq Mentions(v) /\ Mentions(v) \subseteq 0..n /\ 0 \notin Mentions(v)
  BY <1>1 DEF Defs, Mentions
<1>3. CASE Mentions(v) = {}
  BY <1>2, <1>3 DEF def_line, last_use, Defined
<1>4. CASE Mentions(v) # {}
  <2>1. Max(Mentions(v)) \in Mentions(v) /\ \A e \in Mentions(v) : e <= Max(Mentions(v))
    BY <1>2, <1>4, MinMax
  <2>2. CASE Defs(v) = {}
    BY <1>2, <1>4, <2>1, <2>2 DEF def_line, last_use, Defined
  <2>3. CASE Defs(v) # {}
    <3>1. Min(Defs(v)) \in Defs(v) /\ \A e \in Defs(v) : Min(Defs(v)) <= e
      <4>1. Defs(v) \subseteq 0..n
        BY <1>2
      <4> QED
        BY <2>3, <4>1, MinMax
    <3>2. def_line(v) = Min(Defs(v)) /\ last_use(v) = Max(Mentions(v))
      BY <1>4, <2>3 DEF def_line, last_use
    <3> QED
      BY <1>2, <2>1, <2>3, <3>1, <3>2 DEF Defined
  <2> QED
    BY <2>2, <2>3
<1> QED
  BY <1>3, <1>4

\* The registers of a class that vp uses.
OfClass(vp, c) == {p \in ToSet(vp) : ClassOf(p) = c}

\* The pools pl and the registers np of the active vregs A share out the
\* registers of each class.
Shares(pl, np, A, vp) ==
  /\ pl \in [Class -> Seq(Phys)]
  /\ \A a, b \in A : a # b => np[a] # np[b]
  /\ \A c \in Class :
       /\ IsInjective(pl[c])
       /\ \A a \in A : np[a] \notin ToSet(pl[c])
       /\ ToSet(pl[c]) \cup {np[a] : a \in {x \in A : ClassOf(np[x]) = c}} = OfClass(vp, c)

\* At the start everything is in the pools.
LEMMA SharesAtStart ==
  ASSUME NEW vp \in Seq(Phys), NEW np,
         NEW pl, pl = [c \in Class |-> Distinct(vp, {p \in Phys : ClassOf(p) = c})]
  PROVE  Shares(pl, np, {}, vp)
<1>1. ASSUME NEW c \in Class
      PROVE  /\ pl[c] \in Seq(Phys) /\ IsInjective(pl[c])
             /\ ToSet(pl[c]) = OfClass(vp, c)
  <2>1. PICK S : S = {p \in Phys : ClassOf(p) = c}
    OBVIOUS
  <2>2. pl[c] = Distinct(vp, S)
    BY <2>1
  <2>3. /\ pl[c] \in Seq(Phys) /\ ToSet(pl[c]) = ToSet(vp) \cap S /\ IsInjective(pl[c])
    BY <2>2, DistinctIs
  <2>4. ToSet(vp) \subseteq Phys
    BY Members
  <2> QED
    BY <2>1, <2>3, <2>4 DEF OfClass
<1>2. pl \in [Class -> Seq(Phys)]
  BY <1>1
<1>3. ASSUME NEW c \in Class
      PROVE  ToSet(pl[c]) \cup {np[a] : a \in {x \in {} : ClassOf(np[x]) = c}} = OfClass(vp, c)
  BY <1>1
<1> QED
  BY <1>1, <1>2, <1>3 DEF Shares

\* What expires goes back to the pool of its class.
LEMMA SharesExpire ==
  ASSUME NEW act, NEW N, act \in Seq(N), IsInjective(act), NEW np, \A a \in N : np[a] \in Phys,
         NEW pl, NEW vp, Shares(pl, np, ToSet(act), vp), NEW over \in SUBSET ToSet(act),
         NEW freed, freed = Freed(pl, np, Selected(act, over))
  PROVE  Shares(freed, np, ToSet(act) \ over, vp)
<1> PICK dead : dead = Selected(act, over)
  OBVIOUS
<1>0. ToSet(act) \subseteq N
  BY Members
<1>1. dead \in Seq(N) /\ ToSet(dead) = over /\ IsInjective(dead)
  <2>1. dead \in Seq(N) /\ ToSet(dead) = ToSet(act) \cap over /\ IsInjective(dead)
    BY SelectedIs
  <2> QED
    BY <2>1
<1>2. PICK ds : ds = [i \in DOMAIN dead |-> np[dead[i]]]
  OBVIOUS
<1>3. ds \in Seq(Phys) /\ DOMAIN ds = DOMAIN dead /\ \A i \in DOMAIN dead : ds[i] = np[dead[i]]
  BY <1>1, <1>2
<1>4. ToSet(ds) = {np[a] : a \in over}
  BY <1>1, <1>3 DEF ToSet
<1>5. IsInjective(ds)
  <2>1. \A i \in DOMAIN dead : dead[i] \in ToSet(act)
    BY <1>1 DEF ToSet
  <2> QED
    BY <1>1, <1>3, <2>1 DEF IsInjective, Shares
<1>6. ASSUME NEW c \in Class
      PROVE  /\ freed[c] \in Seq(Phys) /\ IsInjective(freed[c])
             /\ ToSet(freed[c]) = ToSet(pl[c]) \cup {np[a] : a \in {x \in over : ClassOf(np[x]) = c}}
  <2>1. PICK S : S = {p \in Phys : ClassOf(p) = c}
    OBVIOUS
  <2>2. PICK t : t = Selected(ds, S)
    OBVIOUS
  <2>3. freed[c] = pl[c] \o t
    BY <1>2, <2>1, <2>2 DEF Freed
  <2>4. t \in Seq(Phys) /\ ToSet(t) = ToSet(ds) \cap S /\ IsInjective(t)
    BY <1>3, <1>5, <2>2, SelectedIs
  <2>5. ToSet(t) = {np[a] : a \in {x \in over : ClassOf(np[x]) = c}}
    BY <1>0, <1>4, <2>1, <2>4
  <2>6. pl[c] \in Seq(Phys) /\ IsInjective(pl[c]) /\ ToSet(pl[c]) \cap ToSet(t) = {}
    BY <2>5 DEF Shares
  <2>7. PICK u \in Seq(Phys) : u = pl[c]
    BY <2>6
  <2>8. /\ u \o t \in Seq(Phys) /\ ToSet(u \o t) = ToSet(u) \cup ToSet(t)
        /\ IsInjective(u \o t)
    BY <2>4, <2>6, <2>7, ConcatMembers
  <2> QED
    BY <2>3, <2>5, <2>7, <2>8
<1>7. freed \in [Class -> Seq(Phys)]
  <2>1. \A c \in Class : freed[c] \in Seq(Phys)
    BY <1>6
  <2>2. freed = [c \in Class |-> freed[c]]
    BY DEF Freed
  <2> QED
    BY <2>1, <2>2, Zenon
<1>8. ASSUME NEW e \in ToSet(act) \ over, NEW c \in Class PROVE np[e] \notin ToSet(freed[c])
  <2>1. np[e] \notin ToSet(pl[c]) /\ \A x \in over : np[x] # np[e]
    BY DEF Shares
  <2>2. ToSet(freed[c]) = ToSet(pl[c]) \cup {np[a] : a \in {x \in over : ClassOf(np[x]) = c}}
    BY <1>6, Zenon
  <2> QED
    BY <2>1, <2>2, Zenon
<1>9. ASSUME NEW c \in Class
      PROVE  ToSet(freed[c]) \cup {np[a] : a \in {x \in ToSet(act) \ over : ClassOf(np[x]) = c}}
               = OfClass(vp, c)
  <2>1. ToSet(pl[c]) \cup {np[a] : a \in {x \in ToSet(act) : ClassOf(np[x]) = c}} = OfClass(vp, c)
    BY DEF Shares
  <2> QED
    BY <1>6, <2>1
<1>10. \A a, b \in ToSet(act) \ over : a # b => np[a] # np[b]
  BY DEF Shares
<1> QED
  BY <1>6, <1>7, <1>8, <1>9, <1>10 DEF Shares

\* A vreg takes the tail of its class.
LEMMA SharesTake ==
  ASSUME NEW pl, NEW np, NEW B, NEW vp, Shares(pl, np, B, vp), NEW c \in Class, pl[c] # <<>>,
         NEW v \in DOMAIN np, v \notin B,
         NEW nq, nq = [np EXCEPT ![v] = Last(pl[c])],
         NEW pq, pq = [pl EXCEPT ![c] = Front(pl[c])]
  PROVE  Shares(pq, nq, B \cup {v}, vp) /\ nq[v] \in OfClass(vp, c)
<1>1. PICK q : q = Last(pl[c])
  OBVIOUS
<1>2. pl \in [Class -> Seq(Phys)] /\ pl[c] \in Seq(Phys) /\ IsInjective(pl[c])
  BY DEF Shares
<1>3. PICK f : f = Front(pl[c])
  OBVIOUS
<1>4. /\ f \in Seq(Phys) /\ q \in ToSet(pl[c]) /\ ToSet(pl[c]) = ToSet(f) \cup {q}
      /\ IsInjective(f) /\ q \notin ToSet(f)
  BY <1>1, <1>2, <1>3, FrontMembers
<1>5. q \in OfClass(vp, c) /\ ClassOf(q) = c
  BY <1>4 DEF Shares, OfClass
<1>6. nq[v] = q /\ \A b \in B : nq[b] = np[b]
  BY <1>1
<1>7. pq[c] = f /\ (\A k \in Class : k # c => pq[k] = pl[k]) /\ pq \in [Class -> Seq(Phys)]
  BY <1>2, <1>3, <1>4
<1>8. \A b \in B : np[b] # q
  BY <1>4 DEF Shares
<1>9. \A a, b \in B \cup {v} : a # b => nq[a] # nq[b]
  BY <1>6, <1>8 DEF Shares
<1>10. ASSUME NEW k \in Class
       PROVE  /\ IsInjective(pq[k])
              /\ \A a \in B \cup {v} : nq[a] \notin ToSet(pq[k])
              /\ ToSet(pq[k]) \cup {nq[a] : a \in {x \in B \cup {v} : ClassOf(nq[x]) = k}}
                   = OfClass(vp, k)
  <2>1. \A b \in B : np[b] \notin ToSet(pl[k])
    BY DEF Shares
  <2>2. ToSet(pl[k]) \cup {np[a] : a \in {x \in B : ClassOf(np[x]) = k}} = OfClass(vp, k)
    BY DEF Shares
  <2>3. {nq[a] : a \in {x \in B : ClassOf(nq[x]) = k}} = {np[a] : a \in {x \in B : ClassOf(np[x]) = k}}
    BY <1>6
  <2>4. CASE k = c
    <3>1. {nq[a] : a \in {x \in B \cup {v} : ClassOf(nq[x]) = k}}
            = {nq[a] : a \in {x \in B : ClassOf(nq[x]) = k}} \cup {q}
      BY <1>5, <1>6, <2>4
    <3>2. pq[k] = f
      BY <1>7, <2>4
    <3>3. ToSet(pq[k]) \cup {nq[a] : a \in {x \in B \cup {v} : ClassOf(nq[x]) = k}} = OfClass(vp, k)
      BY <1>4, <2>2, <2>3, <2>4, <3>1, <3>2
    <3> QED
      BY <1>4, <1>6, <2>1, <2>4, <3>2, <3>3
  <2>5. CASE k # c
    <3>1. {nq[a] : a \in {x \in B \cup {v} : ClassOf(nq[x]) = k}}
            = {nq[a] : a \in {x \in B : ClassOf(nq[x]) = k}}
      BY <1>5, <1>6, <2>5
    <3>2. pq[k] = pl[k] /\ IsInjective(pl[k])
      BY <1>7, <2>5 DEF Shares
    <3>3. q \notin ToSet(pl[k])
      BY <1>5, <2>2, <2>5 DEF OfClass
    <3> QED
      BY <1>6, <2>1, <2>2, <2>3, <3>1, <3>2, <3>3
  <2> QED
    BY <2>4, <2>5
<1> QED
  BY <1>5, <1>6, <1>7, <1>9, <1>10 DEF Shares

Differ(np, B, v, vp) ==
  /\ v \notin B /\ B \cup {v} \subseteq DOMAIN vp
  /\ \A a \in B : ClassOf(np[a]) = ClassOf(vp[a])
  /\ \A a, b \in B \cup {v} : a # b => vp[a] # vp[b]

\* If the emitter gave the active vregs of a class and one more different
\* registers, the pool of the class is not empty.
LEMMA SharesSuffice ==
  ASSUME NEW pl, NEW np, NEW B, IsFiniteSet(B), NEW vp \in Seq(Phys), Shares(pl, np, B, vp),
         NEW v, Differ(np, B, v, vp)
  PROVE  pl[ClassOf(vp[v])] # <<>>
<1>0. /\ v \notin B /\ B \cup {v} \subseteq DOMAIN vp
      /\ \A a \in B : ClassOf(np[a]) = ClassOf(vp[a])
      /\ \A a, b \in B \cup {v} : a # b => vp[a] # vp[b]
  BY DEF Differ
<1> PICK c \in Class : c = ClassOf(vp[v])
  BY DEF ClassOf, Class
<1> SUFFICES ASSUME pl[c] = <<>> PROVE FALSE
  OBVIOUS
<1> DEFINE C == {x \in B : ClassOf(np[x]) = c}
           D == C \cup {v}
           I == {np[a] : a \in C}
           J == {vp[a] : a \in D}
<1>1. ToSet(pl[c]) = {}
  BY DEF ToSet
<1>2. I = OfClass(vp, c)
  BY <1>1 DEF Shares
<1>3. IsFiniteSet(C)
  BY FS_Subset
<1>4. /\ IsFiniteSet(D) /\ Cardinality(D) = Cardinality(C) + 1
  <2> HIDE DEF C
  <2>1. v \notin C
    BY <1>0 DEF C
  <2> QED
    BY <1>3, <2>1, FS_AddElement
<1>5. J \subseteq OfClass(vp, c)
  <2>1. \A a \in D : ClassOf(vp[a]) = c /\ a \in DOMAIN vp
    BY <1>0
  <2> QED
    BY <2>1 DEF OfClass, ToSet
<1>6. \A a, b \in D : vp[a] = vp[b] => a = b
  BY <1>0
<1> HIDE DEF C, D
<1>7. /\ IsFiniteSet(I) /\ Cardinality(I) \in Nat /\ Cardinality(C) \in Nat
      /\ Cardinality(I) <= Cardinality(C)
  BY <1>3, ImageSize
<1>8. Cardinality(D) <= Cardinality(I)
  <2> HIDE DEF I
  <2> QED
    BY <1>2, <1>4, <1>5, <1>6, <1>7, Pigeons
<1> QED
  BY <1>4, <1>7, <1>8

\* The vregs the scan has been through.
Placed == Vregs \ ToSet(todo)

\* What is to come is in the order of the definitions.
TodoInv ==
  /\ todo \in Seq(Vregs)
  /\ \A i, j \in DOMAIN todo, x, y \in Vregs :
       i < j /\ x = todo[i] /\ y = todo[j] => x # y /\ def_line(x) <= def_line(y)
  /\ \A a \in Placed, v \in ToSet(todo) : def_line(a) <= def_line(v)

NewInv ==
  /\ new_phys \in Seq(Phys) /\ DOMAIN new_phys = Vregs
  /\ \A v \in Vregs : ClassOf(new_phys[v]) = ClassOf(vreg_phys[v])

ActiveInv ==
  /\ active \in Seq(Nat) /\ IsInjective(active)
  /\ \A a \in ToSet(active) : a \in Placed /\ Defined(a)

\* What is no longer active is over.
PastInv ==
  \A a \in Placed \ ToSet(active), v \in ToSet(todo) : Defined(a) => last_use(a) <= def_line(v)

\* One of two vregs is over where the other begins.
Apiece(a, b) == last_use(a) <= def_line(b) \/ last_use(b) <= def_line(a)

PairInv ==
  \A a, b \in Placed :
    a # b /\ Defined(a) /\ Defined(b) /\ new_phys[a] = new_phys[b] => Apiece(a, b)

RunInv ==
  phase = "run" =>
    /\ ~evicted /\ TodoInv /\ NewInv /\ ActiveInv /\ PastInv /\ PairInv
    /\ Shares(pool, new_phys, ToSet(active), vreg_phys)

\* The scan leaves the body, and so the intervals, alone.
LEMMA SameIntervals ==
  ASSUME body' = body
  PROVE  \A v : /\ def_line(v)' = def_line(v) /\ last_use(v)' = last_use(v)
                /\ Defined(v)' <=> Defined(v)
                /\ Defs(v)' = Defs(v) /\ Mentions(v)' = Mentions(v)
  BY DEF def_line, last_use, Defined, Defs, Mentions

\* Two vregs whose intervals have a line in common were emitted with different
\* registers.
LEMMA Overlap ==
  ASSUME BodyInv, ApartAll, NEW a \in Vregs, NEW b \in Vregs, a # b, Defined(a), Defined(b),
         def_line(a) <= def_line(b), def_line(b) < last_use(a)
  PROVE  vreg_phys[a] # vreg_phys[b]
<1> SUFFICES ASSUME vreg_phys[a] = vreg_phys[b] PROVE FALSE
  OBVIOUS
<1>1. Before(a, b) \/ Before(b, a)
  BY DEF ApartAll
<1>2. /\ def_line(a) \in Mentions(a) /\ last_use(a) \in Mentions(a) /\ def_line(b) \in Mentions(b)
      /\ def_line(a) \in Nat /\ last_use(a) \in Nat /\ def_line(b) \in Nat
  BY Intervals
<1>3. CASE Before(a, b)
  <2>1. last_use(a) < def_line(b)
    BY <1>2, <1>3 DEF Before
  <2> QED
    BY <1>2, <2>1
<1>4. CASE Before(b, a)
  <2>1. def_line(b) < def_line(a)
    BY <1>2, <1>4 DEF Before
  <2> QED
    BY <1>2, <2>1
<1> QED
  BY <1>1, <1>3, <1>4

\* The next vreg leaves the list.
LEMMA TodoStep ==
  ASSUME BodyInv, TodoInv, todo # <<>>, todo' = Tail(todo), UNCHANGED <<body, vreg_phys>>,
         NEW v, v = Head(todo)
  PROVE  /\ v \in Vregs /\ v \in ToSet(todo) /\ v \notin ToSet(todo')
         /\ ToSet(todo) = ToSet(todo') \cup {v}
         /\ Placed' = Placed \cup {v}
         /\ \A w \in ToSet(todo') : w \in ToSet(todo) /\ def_line(v) <= def_line(w)
         /\ TodoInv'
<1>0. todo \in Seq(Vregs) /\ Vregs' = Vregs
  BY DEF TodoInv, Vregs
<1>1. /\ todo' \in Seq(Vregs) /\ v \in ToSet(todo) /\ ToSet(todo) = ToSet(todo') \cup {v}
      /\ v = todo[1] /\ \A i \in DOMAIN todo' : i + 1 \in DOMAIN todo /\ todo'[i] = todo[i + 1]
  BY <1>0, TailMembers
<1>2. v \in Vregs
  BY <1>0, <1>1, Members
<1>3. 1 \in DOMAIN todo /\ \A i \in DOMAIN todo' : i \in Nat /\ 1 < i + 1
  BY <1>0, <1>1
<1>4. \A i \in DOMAIN todo' : todo'[i] # v /\ def_line(v) <= def_line(todo'[i])
  <2> SUFFICES ASSUME NEW i \in DOMAIN todo' PROVE todo'[i] # v /\ def_line(v) <= def_line(todo'[i])
    OBVIOUS
  <2>1. PICK w \in Vregs : w = todo'[i]
    BY <1>1
  <2> QED
    BY <1>1, <1>2, <1>3, <2>1 DEF TodoInv
<1>5. v \notin ToSet(todo') /\ \A w \in ToSet(todo') : w \in ToSet(todo) /\ def_line(v) <= def_line(w)
  BY <1>1, <1>4 DEF ToSet
<1>6. Placed' = Placed \cup {v}
  BY <1>0, <1>1, <1>2, <1>5 DEF Placed
<1>7. \A w : def_line(w)' = def_line(w)
  BY SameIntervals
<1>8. ASSUME NEW i \in DOMAIN todo', NEW j \in DOMAIN todo', NEW x \in Vregs, NEW y \in Vregs,
             i < j, x = todo'[i], y = todo'[j]
      PROVE  x # y /\ def_line(x) <= def_line(y)
  <2>1. i + 1 \in DOMAIN todo /\ j + 1 \in DOMAIN todo /\ i + 1 < j + 1
    BY <1>1, <1>3, <1>8
  <2> QED
    BY <1>1, <1>8, <2>1 DEF TodoInv
<1>9. ASSUME NEW a \in Placed', NEW w \in ToSet(todo') PROVE def_line(a) <= def_line(w)
  BY <1>5, <1>6 DEF TodoInv
<1>10. TodoInv'
  <2>1. \A i, j \in DOMAIN todo', x, y \in Vregs :
           i < j /\ x = todo'[i] /\ y = todo'[j] => x # y /\ def_line(x)' <= def_line(y)'
    BY <1>7, <1>8
  <2>2. \A a \in Placed', w \in ToSet(todo') : def_line(a)' <= def_line(w)'
    BY <1>7, <1>9
  <2> QED
    BY <1>0, <1>1, <2>1, <2>2 DEF TodoInv
<1> QED
  BY <1>1, <1>2, <1>5, <1>6, <1>10

\* The active vregs that stay, and the next, were emitted with different registers.
LEMMA StayApart ==
  ASSUME BodyInv, ApartAll, TodoInv, ActiveInv, NEW v \in ToSet(todo), v \in Vregs, Defined(v),
         NEW B \in SUBSET ToSet(active), \A b \in B : def_line(v) < last_use(b)
  PROVE  \A a, b \in B \cup {v} : a # b => vreg_phys[a] # vreg_phys[b]
<1>1. \A b \in B : b \in Vregs /\ b \in Placed /\ Defined(b) /\ b # v /\ def_line(b) <= def_line(v)
  BY DEF ActiveInv, Placed, TodoInv
<1>2. \A x : def_line(x) \in Nat /\ last_use(x) \in Nat
  BY Intervals
<1>3. ASSUME NEW a \in B, NEW b \in B, a # b PROVE vreg_phys[a] # vreg_phys[b]
  <2>1. def_line(a) < last_use(b) /\ def_line(b) < last_use(a)
    BY <1>1, <1>2
  <2>2. CASE def_line(a) <= def_line(b)
    BY <1>1, <1>3, <2>1, <2>2, Overlap
  <2>3. CASE def_line(b) <= def_line(a)
    BY <1>1, <1>3, <2>1, <2>3, Overlap
  <2> QED
    BY <1>2, <2>2, <2>3
<1>4. ASSUME NEW a \in B PROVE vreg_phys[a] # vreg_phys[v]
  BY <1>1, Overlap
<1> QED
  BY <1>1, <1>3, <1>4

\* The next vreg has a definition and the pool of its class is empty, also with
\* what expires there: `run` would fall back on the register of emission.
Exhausted ==
  LET v == Head(todo)
      over == {a \in ToSet(active) : Expired(a, def_line(v))}
  IN  /\ def_line(v) # 0
      /\ Freed(pool, new_phys, Selected(active, over))[WantedClass(v)] = <<>>

\* One turn of the loop.
LEMMA RunStepKeeps ==
  ASSUME BodyInv, ApartAll, RunInv, phase = "run", run_step
  PROVE  RunInv' /\ ~Exhausted
<1>1. /\ ~evicted /\ TodoInv /\ NewInv /\ ActiveInv /\ PastInv /\ PairInv
      /\ Shares(pool, new_phys, ToSet(active), vreg_phys)
  BY DEF RunInv
<1>2. /\ todo # <<>> /\ todo' = Tail(todo) /\ UNCHANGED <<phase, vreg_phys, body, evicted>>
  BY DEF run_step, emitVars
<1>3. PICK v : v = Head(todo)
  OBVIOUS
<1>4. /\ v \in Vregs /\ v \in ToSet(todo) /\ v \notin ToSet(todo')
      /\ ToSet(todo) = ToSet(todo') \cup {v}
      /\ Placed' = Placed \cup {v}
      /\ \A w \in ToSet(todo') : w \in ToSet(todo) /\ def_line(v) <= def_line(w)
      /\ TodoInv'
  BY <1>1, <1>2, <1>3, TodoStep
<1>5. /\ Vregs' = Vregs
      /\ \A w : /\ def_line(w)' = def_line(w) /\ last_use(w)' = last_use(w)
                /\ Defined(w)' <=> Defined(w)
  BY <1>2, SameIntervals DEF Vregs
<1>6. v \notin Placed /\ v \notin ToSet(active) /\ ToSet(active) \subseteq Placed
  BY <1>1, <1>4 DEF Placed, ActiveInv
<1>7. PICK d \in Nat : d = def_line(v)
  BY Intervals
<1>8. vreg_phys \in Seq(Phys)
  BY DEF BodyInv
<1>9. CASE d = 0
  <2>1. UNCHANGED <<active, pool, new_phys>>
    BY <1>3, <1>7, <1>9 DEF run_step
  <2>2. ~Defined(v)
    BY <1>7, <1>9, Intervals
  <2>3. NewInv'
    BY <1>1, <1>2, <1>5, <2>1 DEF NewInv
  <2>4. ActiveInv'
    BY <1>1, <1>4, <1>5, <2>1 DEF ActiveInv
  <2>5. PastInv'
    BY <1>1, <1>4, <1>5, <2>1, <2>2 DEF PastInv
  <2>6. PairInv'
    BY <1>1, <1>4, <1>5, <2>1, <2>2 DEF PairInv, Apiece
  <2>7. Shares(pool, new_phys, ToSet(active), vreg_phys)'
    BY <1>1, <1>2, <2>1
  <2>8. ~Exhausted
    BY <1>3, <1>7, <1>9 DEF Exhausted
  <2> QED
    BY <1>1, <1>2, <1>4, <2>3, <2>4, <2>5, <2>6, <2>7, <2>8 DEF RunInv
<1>10. CASE d # 0
  <2>1. PICK over : over = {a \in ToSet(active) : Expired(a, d)}
    OBVIOUS
  <2>3. PICK freed : freed = Freed(pool, new_phys, Selected(active, over))
    OBVIOUS
  <2>4. PICK c \in Class : c = ClassOf(vreg_phys[v])
    BY DEF ClassOf, Class
  <2>5. PICK B : B = ToSet(active) \ over
    OBVIOUS
  <2>6. /\ active' = Append(Selected(active, B), v)
        /\ IF freed[c] = <<>>
           THEN /\ new_phys' = [new_phys EXCEPT ![v] = vreg_phys[v]]
                /\ pool' = freed
           ELSE /\ new_phys' = [new_phys EXCEPT ![v] = Last(freed[c])]
                /\ pool' = [freed EXCEPT ![c] = Front(@)]
    BY <1>3, <1>7, <1>10, <2>1, <2>3, <2>4, <2>5 DEF run_step, WantedClass
  <2>7. Defined(v)
    BY <1>7, <1>10, Intervals
  <2>8. B \subseteq ToSet(active) /\ \A b \in B : d < last_use(b)
    <3>1. \A x : last_use(x) \in Nat
      BY Intervals
    <3> QED
      BY <2>1, <2>5, <3>1 DEF Expired
  <2>9. \A a, b \in B \cup {v} : a # b => vreg_phys[a] # vreg_phys[b]
    BY <1>1, <1>4, <1>7, <2>7, <2>8, StayApart
  <2>10. Shares(freed, new_phys, B, vreg_phys)
    <3>1. \A a \in ToSet(active) : new_phys[a] \in Phys
      BY <1>1, <1>6 DEF NewInv, Placed
    <3>2. active \in Seq(ToSet(active)) /\ IsInjective(active) /\ over \in SUBSET ToSet(active)
      <4>1. active \in Seq(Nat)
        BY <1>1 DEF ActiveInv
      <4>2. \A i \in 1..Len(active) : active[i] \in ToSet(active)
        BY <4>1, Members
      <4>3. active \in Seq(ToSet(active))
        BY <4>1, <4>2
      <4> QED
        BY <1>1, <2>1, <4>3 DEF ActiveInv
    <3> QED
      BY <1>1, <2>3, <2>5, <3>1, <3>2, SharesExpire
  <2>11. IsFiniteSet(B)
    <3>1. active \in Seq(Nat)
      BY <1>1 DEF ActiveInv
    <3>2. IsFiniteSet(ToSet(active))
      BY <3>1, MembersSize
    <3> QED
      BY <2>8, <3>2, FS_Subset
  <2>12. B \subseteq Placed /\ B \cup {v} \subseteq Vregs /\ v \notin B
    BY <1>4, <1>6, <2>8 DEF Placed
  <2>13. freed[c] # <<>>
    <3>1. \A a \in B : ClassOf(new_phys[a]) = ClassOf(vreg_phys[a])
      BY <1>1, <2>12 DEF NewInv
    <3>2. B \cup {v} \subseteq DOMAIN vreg_phys
      BY <2>12 DEF Vregs
    <3> QED
      <4>1. Differ(new_phys, B, v, vreg_phys)
        BY <2>9, <2>12, <3>1, <3>2 DEF Differ
      <4> QED
        BY <1>8, <2>4, <2>10, <2>11, <4>1, SharesSuffice
  <2>14. /\ new_phys' = [new_phys EXCEPT ![v] = Last(freed[c])]
         /\ pool' = [freed EXCEPT ![c] = Front(freed[c])]
    BY <2>6, <2>13
  <2>15. /\ Shares(pool', new_phys', B \cup {v}, vreg_phys) /\ new_phys'[v] \in OfClass(vreg_phys, c)
    <3>1. v \in DOMAIN new_phys
      BY <1>1, <1>4 DEF NewInv
    <3> QED
      BY <2>10, <2>12, <2>13, <2>14, <3>1, SharesTake
  <2>16. active' \in Seq(Nat) /\ IsInjective(active') /\ ToSet(active') = B \cup {v}
    <3>1. active \in Seq(Nat) /\ IsInjective(active) /\ v \in Nat
      BY <1>1, <1>4, <1>8 DEF ActiveInv, Vregs
    <3>2. PICK t : t = Selected(active, B)
      OBVIOUS
    <3>3. t \in Seq(Nat) /\ ToSet(t) = ToSet(active) \cap B /\ IsInjective(t)
      BY <3>1, <3>2, SelectedIs
    <3>4. ToSet(t) = B
      BY <2>8, <3>3
    <3> QED
      BY <2>6, <2>12, <3>1, <3>2, <3>3, <3>4, AppendMembers
  <2>17. /\ \A w \in Vregs : w # v => new_phys'[w] = new_phys[w]
         /\ new_phys' \in Seq(Phys) /\ DOMAIN new_phys' = Vregs
         /\ ClassOf(new_phys'[v]) = c
    <3>1. new_phys'[v] \in Phys /\ ClassOf(new_phys'[v]) = c
      BY <1>8, <2>15, Members DEF OfClass
    <3>2. new_phys \in Seq(Phys) /\ DOMAIN new_phys = Vregs
      BY <1>1 DEF NewInv
    <3>3. PICK q \in Phys : new_phys' = [new_phys EXCEPT ![v] = q]
      BY <1>4, <2>14, <3>1, <3>2
    <3> QED
      BY <1>4, <3>1, <3>2, <3>3
  <2>18. NewInv'
    <3>1. \A w \in Vregs : ClassOf(new_phys'[w]) = ClassOf(vreg_phys[w])
      BY <1>1, <2>4, <2>17 DEF NewInv
    <3> QED
      BY <1>2, <1>5, <2>17, <3>1 DEF NewInv
  <2>19. ActiveInv'
    <3>1. \A a \in B \cup {v} : a \in Placed' /\ Defined(a)'
      BY <1>1, <1>4, <1>5, <2>7, <2>8, <2>12 DEF ActiveInv
    <3> QED
      BY <2>16, <3>1 DEF ActiveInv
  <2>20. ASSUME NEW a \in Placed, a \notin B, Defined(a) PROVE last_use(a) <= d
    <3>1. CASE a \in ToSet(active)
      BY <2>1, <2>5, <2>20, <3>1 DEF Expired
    <3>2. CASE a \notin ToSet(active)
      BY <1>1, <1>4, <1>7, <2>20, <3>2 DEF PastInv
    <3> QED
      BY <3>1, <3>2
  <2>21. PastInv'
    <3>1. ASSUME NEW a \in Placed' \ ToSet(active'), NEW w \in ToSet(todo'), Defined(a)
          PROVE  last_use(a) <= def_line(w)
      <4>1. a \in Placed /\ a \notin B
        BY <1>4, <2>16
      <4>2. last_use(a) <= d /\ d <= def_line(w)
        BY <1>4, <1>7, <2>20, <3>1, <4>1
      <4>3. last_use(a) \in Nat /\ def_line(w) \in Nat
        BY Intervals
      <4> QED
        BY <4>2, <4>3
    <3> QED
      BY <1>5, <3>1 DEF PastInv
  <2>22. PairInv'
    <3>1. ASSUME NEW a \in Placed, Defined(a), new_phys'[a] = new_phys'[v]
          PROVE  last_use(a) <= def_line(v)
      <4>1. a \notin B
        BY <2>12, <2>15, <3>1 DEF Shares
      <4> QED
        BY <1>7, <2>20, <3>1, <4>1
    <3>2. ASSUME NEW a \in Placed, NEW b \in Placed, a # b, Defined(a), Defined(b),
                 new_phys'[a] = new_phys'[b]
          PROVE  Apiece(a, b)
      <4>1. a \in Vregs /\ b \in Vregs /\ a # v /\ b # v
        BY <1>6 DEF Placed
      <4> QED
        BY <1>1, <2>17, <3>2, <4>1 DEF PairInv
    <3>3. ASSUME NEW a \in Placed', NEW b \in Placed', a # b, Defined(a), Defined(b),
                 new_phys'[a] = new_phys'[b]
          PROVE  Apiece(a, b)
      <4>1. CASE a = v
        BY <1>4, <3>1, <3>3, <4>1 DEF Apiece
      <4>2. CASE b = v
        BY <1>4, <3>1, <3>3, <4>2 DEF Apiece
      <4>3. CASE a # v /\ b # v
        BY <1>4, <3>2, <3>3, <4>3
      <4> QED
        BY <4>1, <4>2, <4>3
    <3> QED
      BY <1>5, <3>3 DEF PairInv, Apiece
  <2>23. Shares(pool, new_phys, ToSet(active), vreg_phys)'
    <3>1. Shares(pool', new_phys', ToSet(active'), vreg_phys')
      BY <1>2, <2>15, <2>16
    <3> QED
      BY <3>1 DEF Shares, OfClass
  <2>24. ~Exhausted
    BY <1>3, <1>7, <2>1, <2>3, <2>4, <2>13 DEF Exhausted, WantedClass
  <2> QED
    BY <1>1, <1>2, <1>4, <2>18, <2>19, <2>21, <2>22, <2>23, <2>24 DEF RunInv
<1> QED
  BY <1>9, <1>10

\* The scan begins.
LEMMA RunStarts ==
  ASSUME BodyInv, RunInv, start_run
  PROVE  RunInv' /\ BodyInv' /\ phase = "emit" /\ phase' \in {"run", "pack"}
         /\ (phase' = "run" => ~evicted')
<1>1. phase = "emit" /\ UNCHANGED <<vreg_phys, body, evicted>> /\ phase' \in {"run", "pack"}
  BY DEF start_run, emitVars
<1>2. BodyInv'
  BY <1>1 DEF BodyInv, Vregs
<1>3. CASE phase' = "run"
  <2>1. ~evicted
    BY <1>3 DEF start_run
  <2>2. PICK s \in [Vregs -> Vregs] : InOrder(s) /\ todo' = s
    BY <2>1 DEF start_run
  <2>3. /\ active' = <<>> /\ pool' = [c \in Class |-> ClassPool(c)] /\ new_phys' = vreg_phys
    BY <2>1 DEF start_run
  <2>4. PICK n \in Nat : Vregs = 1..n
    BY DEF BodyInv, Vregs
  <2>5. s \in Seq(Vregs) /\ DOMAIN s = 1..n /\ ToSet(s) = Vregs
    <3>1. s \in [1..n -> Vregs]
      BY <2>2, <2>4
    <3>2. s \in Seq(Vregs)
      BY <3>1, IsASeq
    <3> QED
      BY <2>2, <3>1, <3>2 DEF InOrder
  <2>6. Vregs' = Vregs /\ Placed' = {}
    BY <1>1, <2>2, <2>5 DEF Vregs, Placed
  <2>7. \A w : def_line(w) \in Nat /\ def_line(w)' = def_line(w)
    BY <1>1, SameIntervals, Intervals
  <2>8. TodoInv'
    <3>1. ASSUME NEW i \in DOMAIN s, NEW j \in DOMAIN s, NEW x \in Vregs, NEW y \in Vregs, i < j,
                 x = s[i], y = s[j]
          PROVE  x # y /\ def_line(x) <= def_line(y)
      <4>1. def_line(x) < def_line(y) \/ (def_line(x) = def_line(y) /\ x < y)
        BY <2>2, <3>1 DEF InOrder
      <4>2. x \in Nat /\ y \in Nat /\ def_line(x) \in Nat /\ def_line(y) \in Nat
        BY <2>4, <2>7
      <4> QED
        BY <4>1, <4>2
    <3> QED
      BY <2>2, <2>5, <2>6, <2>7, <3>1 DEF TodoInv
  <2>9. vreg_phys \in Seq(Phys)
    BY DEF BodyInv
  <2>10. NewInv'
    BY <1>1, <2>3, <2>6, <2>9 DEF NewInv, Vregs
  <2>11. ToSet(<<>>) = {} /\ IsInjective(<<>>) /\ <<>> \in Seq(Nat)
    BY DEF ToSet, IsInjective
  <2>12. ActiveInv' /\ PastInv' /\ PairInv'
    BY <2>3, <2>6, <2>11 DEF ActiveInv, PastInv, PairInv
  <2>13. Shares(pool', new_phys', {}, vreg_phys)
    <3>1. pool' = [c \in Class |-> Distinct(vreg_phys, {p \in Phys : ClassOf(p) = c})]
      BY <2>3 DEF ClassPool
    <3> QED
      BY <2>9, <3>1, SharesAtStart, Zenon
  <2>14. Shares(pool, new_phys, ToSet(active), vreg_phys)'
    <3>1. Shares(pool', new_phys', ToSet(active'), vreg_phys')
      BY <1>1, <2>3, <2>11, <2>13
    <3> QED
      BY <3>1 DEF Shares, OfClass
  <2> QED
    BY <1>1, <1>2, <1>3, <2>1, <2>8, <2>10, <2>12, <2>14 DEF RunInv
<1> QED
  BY <1>1, <1>2, <1>3 DEF RunInv

-----------------------------------------------------------------------------
(* The registers the scan has chosen.                                        *)

\* If vregs that now share a register are never in use at once, and none has
\* changed its class, each read still sees its value.
LEMMA Reassigned ==
  ASSUME BodyInv, ReadsRight, body' = body,
         \A v \in Vregs : ClassOf(vreg_phys'[v]) = ClassOf(vreg_phys[v]),
         \A a, b \in Vregs :
           a # b /\ Defined(a) /\ Defined(b) /\ vreg_phys'[a] = vreg_phys'[b] => Apiece(a, b)
  PROVE  ReadsRight'
<1> SUFFICES ASSUME NEW l \in DOMAIN body, NEW u \in body[l].uses PROVE Holds(u, l)'
  BY DEF ReadsRight
<1>1. Holds(u, l) /\ u \in Vregs
  BY DEF ReadsRight, BodyInv
<1>2. PICK n \in Nat : DOMAIN body = 1..n
  BY DEF BodyInv
<1>3. l \in 1..n
  BY <1>2
<1>4. PICK k \in 1..(l - 1) :
         u \in body[k].defs /\ \A m \in (k + 1)..(l - 1) : ~Clobbers(m, vreg_phys[u])
  BY <1>1 DEF Holds
<1> DEFINE W == {m \in 1..(l - 1) : u \in body[m].defs}
<1>5. PICK w \in W : \A m \in W : m <= w
  <2>1. W \subseteq 0..n /\ W # {}
    BY <1>3, <1>4
  <2> HIDE DEF W
  <2> QED
    BY <2>1, GreatestMember
<1>6. w \in 1..(l - 1) /\ u \in body[w].defs /\ k <= w
  BY <1>4, <1>5
<1>7. Defined(u) /\ def_line(u) <= w /\ l <= last_use(u) /\ def_line(u) \in Nat /\ last_use(u) \in Nat
  <2>1. w \in Defs(u) /\ l \in Mentions(u)
    BY <1>2, <1>3, <1>6 DEF Defs, Mentions
  <2> QED
    BY <2>1, Intervals DEF Defined
<1>8. ASSUME NEW m \in (w + 1)..(l - 1), Clobbers(m, vreg_phys[u])' PROVE FALSE
  <2>1. m \in 1..n /\ m \in (k + 1)..(l - 1) /\ m \notin W /\ m \in 1..(l - 1)
    BY <1>3, <1>5, <1>6
  <2>2. ~Clobbers(m, vreg_phys[u])
    BY <1>4, <2>1
  <2>3. CASE body[m].call /\ ~is_callee_saved_phys(vreg_phys'[u])
    BY <1>1, <2>2, <2>3 DEF Clobbers, ClassOf
  <2>4. ASSUME NEW b \in body[m].defs, vreg_phys'[b] = vreg_phys'[u] PROVE FALSE
    <3>1. b \in Vregs /\ b # u
      BY <1>2, <2>1 DEF BodyInv
    <3>2. m \in Defs(b) /\ m \in Mentions(b)
      BY <1>2, <2>1 DEF Defs, Mentions
    <3>3. Defined(b) /\ def_line(b) <= m /\ m <= last_use(b) /\ def_line(b) \in Nat /\ last_use(b) \in Nat
      BY <3>2, Intervals DEF Defined
    <3>4. Apiece(b, u)
      BY <1>1, <1>7, <2>4, <3>1, <3>3
    <3> QED
      BY <1>3, <1>6, <1>7, <2>1, <3>3, <3>4 DEF Apiece
  <2> QED
    BY <1>8, <2>3, <2>4 DEF Clobbers
<1>9. \A m \in (w + 1)..(l - 1) : ~Clobbers(m, vreg_phys[u])'
  BY <1>8
<1> QED
  BY <1>6, <1>9 DEF Holds

\* Write back.
LEMMA RunEnds ==
  ASSUME BodyInv, ReadsRight, RunInv, end_run
  PROVE  /\ BodyInv' /\ ReadsRight' /\ phase' = "pack"
         /\ \A v \in Vregs : ClassOf(vreg_phys'[v]) = ClassOf(vreg_phys[v])
<1>1. phase = "run" /\ todo = <<>> /\ phase' = "pack" /\ vreg_phys' = new_phys /\ body' = body
  BY DEF end_run, emitVars
<1>2. NewInv /\ PairInv
  BY <1>1 DEF RunInv
<1>3. Placed = Vregs
  BY <1>1 DEF Placed, ToSet
<1>4. vreg_phys' \in Seq(Phys) /\ Vregs' = Vregs
  BY <1>1, <1>2 DEF NewInv, Vregs
<1>5. BodyInv'
  BY <1>1, <1>4 DEF BodyInv
<1>6. \A v \in Vregs : ClassOf(vreg_phys'[v]) = ClassOf(vreg_phys[v])
  BY <1>1, <1>2 DEF NewInv
<1>7. \A a, b \in Vregs :
        a # b /\ Defined(a) /\ Defined(b) /\ vreg_phys'[a] = vreg_phys'[b] => Apiece(a, b)
  BY <1>1, <1>2, <1>3 DEF PairInv
<1>8. ReadsRight'
  BY <1>1, <1>6, <1>7, Reassigned
<1> QED
  BY <1>1, <1>5, <1>6, <1>8

-----------------------------------------------------------------------------
(* pack.                                                                     *)

\* The callee-saved registers in use get the first names there are, each its own,
\* and the others keep theirs.
LEMMA PackedIs ==
  ASSUME vreg_phys \in Seq(Phys)
  PROVE  /\ \A p \in ToSet(vreg_phys) : packed(p) \in Phys /\ ClassOf(packed(p)) = ClassOf(p)
         /\ \A p, q \in ToSet(vreg_phys) : packed(p) = packed(q) => p = q
         /\ {CalleeSaved[i] : i \in 1..Len(UsedCallee)}
              = {packed(p) : p \in ToSet(vreg_phys)} \cap ToSet(CalleeSaved)
<1> DEFINE C == ToSet(CalleeSaved)
<1>1. PICK used \in Seq(Phys) : used = UsedCallee
  BY DistinctIs DEF UsedCallee
<1>2. ToSet(used) = ToSet(vreg_phys) \cap C /\ IsInjective(used)
  BY <1>1, DistinctIs DEF UsedCallee
<1>3. PICK n \in Nat : n = Len(used) /\ DOMAIN used = 1..n
  OBVIOUS
<1>4. PICK N \in Nat : N = Len(CalleeSaved) /\ DOMAIN CalleeSaved = 1..N
  BY Registers
<1>5. n <= N
  <2>1. IsFiniteSet(C) /\ Cardinality(C) = N
    BY <1>4, Registers, MembersSize
  <2>2. Cardinality(ToSet(used)) = n
    BY <1>2, <1>3, MembersSize
  <2>3. Cardinality(ToSet(used)) <= Cardinality(C)
    BY <1>2, <2>1, FS_Subset
  <2> QED
    BY <2>1, <2>2, <2>3
<1>6. /\ \A i \in 1..n : i \in DOMAIN CalleeSaved /\ CalleeSaved[i] \in C
      /\ \A i, j \in 1..n : CalleeSaved[i] = CalleeSaved[j] => i = j
  <2>1. \A i \in 1..n : i \in DOMAIN CalleeSaved
    BY <1>4, <1>5
  <2>2. \A i \in DOMAIN CalleeSaved : CalleeSaved[i] \in C
    BY DEF ToSet
  <2>3. \A i, j \in DOMAIN CalleeSaved : CalleeSaved[i] = CalleeSaved[j] => i = j
    BY Registers DEF IsInjective
  <2> QED
    BY <2>1, <2>2, <2>3
<1>7. ASSUME NEW p \in ToSet(vreg_phys), p \in C
      PROVE  \E i \in 1..n : used[i] = p /\ packed(p) = CalleeSaved[i]
  <2>1. \E i \in DOMAIN used : used[i] = p
    BY <1>2, <1>7 DEF ToSet
  <2>2. PICK i : i = CHOOSE j \in DOMAIN used : used[j] = p
    OBVIOUS
  <2>3. i \in 1..n /\ used[i] = p
    BY <1>3, <2>1, <2>2
  <2>4. packed(p) = CalleeSaved[i]
    BY <1>1, <1>7, <2>2 DEF packed, is_callee_saved_phys
  <2> QED
    BY <2>3, <2>4
<1>8. ASSUME NEW p, p \notin C PROVE packed(p) = p
  BY <1>8 DEF packed, is_callee_saved_phys
<1> HIDE DEF C
<1>9. ToSet(vreg_phys) \subseteq Phys /\ C \subseteq Phys
  BY Members DEF Phys, C
<1>10. ASSUME NEW p \in ToSet(vreg_phys)
       PROVE  packed(p) \in Phys /\ (packed(p) \in C <=> p \in C)
  BY <1>6, <1>7, <1>8, <1>9
<1>11. ASSUME NEW p \in ToSet(vreg_phys), NEW q \in ToSet(vreg_phys), packed(p) = packed(q)
       PROVE  p = q
  <2>1. p \in C <=> q \in C
    BY <1>10, <1>11
  <2>2. CASE p \in C
    <3>1. PICK i \in 1..n : used[i] = p /\ packed(p) = CalleeSaved[i]
      BY <1>7, <2>2
    <3>2. PICK j \in 1..n : used[j] = q /\ packed(q) = CalleeSaved[j]
      BY <1>7, <2>1, <2>2
    <3>3. i = j
      BY <1>6, <1>11, <3>1, <3>2
    <3> QED
      BY <3>1, <3>2, <3>3
  <2>3. CASE p \notin C
    BY <1>8, <1>11, <2>1, <2>3
  <2> QED
    BY <2>2, <2>3
<1>12. ASSUME NEW i \in 1..n PROVE \E p \in ToSet(vreg_phys) : packed(p) = CalleeSaved[i]
  <2>1. used[i] \in ToSet(vreg_phys) /\ used[i] \in C
    BY <1>2, <1>3 DEF ToSet
  <2>2. PICK j \in 1..n : used[j] = used[i] /\ packed(used[i]) = CalleeSaved[j]
    BY <1>7, <2>1
  <2>3. i = j
    BY <1>2, <1>3, <2>2 DEF IsInjective
  <2> QED
    BY <2>1, <2>2, <2>3
<1>13. {CalleeSaved[i] : i \in 1..n} = {packed(p) : p \in ToSet(vreg_phys)} \cap C
  <2>1. ASSUME NEW i \in 1..n
        PROVE  CalleeSaved[i] \in {packed(p) : p \in ToSet(vreg_phys)} \cap C
    BY <1>6, <1>12
  <2>2. ASSUME NEW p \in ToSet(vreg_phys), packed(p) \in C
        PROVE  packed(p) \in {CalleeSaved[i] : i \in 1..n}
    BY <1>7, <1>10, <2>2
  <2> QED
    BY <2>1, <2>2
<1>14. ASSUME NEW p \in ToSet(vreg_phys) PROVE ClassOf(packed(p)) = ClassOf(p)
  BY <1>10 DEF ClassOf, is_callee_saved_phys, C
<1> QED
  BY <1>1, <1>3, <1>10, <1>11, <1>13, <1>14 DEF C

\* Registers renamed one to one within their class: each read still sees its
\* value, evicted code or not.
LEMMA Renamed ==
  ASSUME BodyInv, ReadsRight, body' = body,
         \A v \in Vregs : ClassOf(vreg_phys'[v]) = ClassOf(vreg_phys[v]),
         \A a, b \in Vregs : vreg_phys'[a] = vreg_phys'[b] => vreg_phys[a] = vreg_phys[b]
  PROVE  ReadsRight'
<1> SUFFICES ASSUME NEW l \in DOMAIN body, NEW u \in body[l].uses PROVE Holds(u, l)'
  BY DEF ReadsRight
<1>1. Holds(u, l) /\ u \in Vregs
  BY DEF ReadsRight, BodyInv
<1>2. PICK k \in 1..(l - 1) :
         u \in body[k].defs /\ \A m \in (k + 1)..(l - 1) : ~Clobbers(m, vreg_phys[u])
  BY <1>1 DEF Holds
<1>3. PICK n \in Nat : DOMAIN body = 1..n
  BY DEF BodyInv
<1>4. ASSUME NEW m \in (k + 1)..(l - 1), Clobbers(m, vreg_phys[u])' PROVE Clobbers(m, vreg_phys[u])
  <2>1. m \in DOMAIN body
    BY <1>3
  <2>2. body[m].defs \subseteq Vregs
    BY <2>1 DEF BodyInv
  <2> QED
    BY <1>1, <1>4, <2>2 DEF Clobbers, ClassOf
<1>5. \A m \in (k + 1)..(l - 1) : ~Clobbers(m, vreg_phys[u])'
  BY <1>2, <1>4
<1> QED
  BY <1>2, <1>5 DEF Holds

\* The last step of compile_func.
LEMMA PackKeeps ==
  ASSUME BodyInv, ReadsRight, pack
  PROVE  /\ BodyInv' /\ ReadsRight' /\ phase' = "done" /\ SavedIsUsed'
         /\ \A v \in Vregs : ClassOf(vreg_phys'[v]) = ClassOf(vreg_phys[v])
<1>1. /\ vreg_phys' = [v \in Vregs |-> packed(vreg_phys[v])] /\ cs_count' = Len(UsedCallee)
      /\ phase' = "done" /\ body' = body
  BY DEF pack, emitVars
<1>2. vreg_phys \in Seq(Phys) /\ \A v \in Vregs : vreg_phys[v] \in ToSet(vreg_phys)
  BY DEF BodyInv, Vregs, ToSet
<1>3. /\ \A p \in ToSet(vreg_phys) : packed(p) \in Phys /\ ClassOf(packed(p)) = ClassOf(p)
      /\ \A p, q \in ToSet(vreg_phys) : packed(p) = packed(q) => p = q
      /\ {CalleeSaved[i] : i \in 1..Len(UsedCallee)}
           = {packed(p) : p \in ToSet(vreg_phys)} \cap ToSet(CalleeSaved)
  BY <1>2, PackedIs, Zenon
<1>4. PICK n \in Nat : Vregs = 1..n
  BY <1>2 DEF Vregs
<1>5. vreg_phys' \in Seq(Phys) /\ Vregs' = Vregs
  <2>1. vreg_phys' \in [1..n -> Phys]
    BY <1>1, <1>2, <1>3, <1>4
  <2>2. vreg_phys' \in Seq(Phys)
    BY <2>1, IsASeq
  <2> QED
    BY <1>1, <2>2 DEF Vregs
<1>6. BodyInv'
  BY <1>1, <1>5 DEF BodyInv
<1>7. \A v \in Vregs : ClassOf(vreg_phys'[v]) = ClassOf(vreg_phys[v])
  BY <1>1, <1>2, <1>3
<1>8. \A a, b \in Vregs : vreg_phys'[a] = vreg_phys'[b] => vreg_phys[a] = vreg_phys[b]
  BY <1>1, <1>2, <1>3
<1>9. ReadsRight'
  BY <1>1, <1>7, <1>8, Renamed
<1>10. {vreg_phys'[v] : v \in Vregs} = {packed(p) : p \in ToSet(vreg_phys)}
  BY <1>1 DEF ToSet, Vregs
<1>11. SavedIsUsed'
  BY <1>1, <1>3, <1>5, <1>10 DEF SavedIsUsed
<1> QED
  BY <1>1, <1>6, <1>7, <1>9, <1>11

-----------------------------------------------------------------------------
(* The invariant, and the theorems.                                          *)

\* The vregs in `active` have registers of their own, and the pools the others.
LEMMA ScanIsDistinct ==
  ASSUME BodyInv, RunInv
  PROVE  ActiveDistinct
<1> SUFFICES ASSUME phase = "run"
             PROVE  /\ \A i, j \in DOMAIN active :
                         i # j => new_phys[active[i]] # new_phys[active[j]]
                    /\ \A i \in DOMAIN active : \A c \in Class :
                         new_phys[active[i]] \notin ToSet(pool[c])
                    /\ \A c \in Class :
                         /\ IsInjective(pool[c])
                         /\ \A i \in DOMAIN pool[c] : ClassOf(pool[c][i]) = c
  BY DEF ActiveDistinct
<1>1. ActiveInv /\ Shares(pool, new_phys, ToSet(active), vreg_phys)
  BY DEF RunInv
<1>2. /\ \A i \in DOMAIN active : active[i] \in ToSet(active)
      /\ \A i, j \in DOMAIN active : i # j => active[i] # active[j]
  BY <1>1 DEF ActiveInv, IsInjective, ToSet
<1>3. /\ \A i, j \in DOMAIN active : i # j => new_phys[active[i]] # new_phys[active[j]]
      /\ \A i \in DOMAIN active : \A c \in Class : new_phys[active[i]] \notin ToSet(pool[c])
  BY <1>1, <1>2 DEF Shares
<1>4. ASSUME NEW c \in Class
      PROVE  IsInjective(pool[c]) /\ \A i \in DOMAIN pool[c] : ClassOf(pool[c][i]) = c
  <2>1. IsInjective(pool[c]) /\ ToSet(pool[c]) \subseteq OfClass(vreg_phys, c)
    BY <1>1 DEF Shares
  <2>2. \A i \in DOMAIN pool[c] : pool[c][i] \in ToSet(pool[c])
    BY DEF ToSet
  <2> QED
    BY <2>1, <2>2 DEF OfClass
<1> QED
  BY <1>3, <1>4

Inv ==
  /\ phase \in {"emit", "run", "pack", "done"}
  /\ EmitInv /\ HoldInv /\ Apart /\ RunInv /\ SavedIsUsed

\* At the start of a function nothing is in use.
LEMMA InitInv == Init => Inv
<1> SUFFICES ASSUME Init PROVE Inv
  OBVIOUS
<1>1. /\ phase = "emit" /\ vreg_phys = <<>> /\ body = <<>> /\ free_regs = AllFree /\ live = {}
      /\ readable = {} /\ evictions = <<>> /\ evicted = FALSE
  BY DEF Init
<1>2. Vregs = {} /\ DOMAIN body = {} /\ ToSet(evictions) = {}
  BY <1>1 DEF Vregs, ToSet
<1>3. vreg_phys \in Seq(Phys) /\ body \in Seq(Lines) /\ evictions \in Seq(States)
  BY <1>1
<1>4. BodyInv
  BY <1>2, <1>3 DEF BodyInv
<1>5. Tidy(free_regs, live)
  BY <1>1, TidyAll
<1>6. EmitInv
  BY <1>1, <1>2, <1>3, <1>4, <1>5 DEF EmitInv, PoolInv, SavedInv
<1>7. HoldInv
  BY <1>1, <1>2 DEF HoldInv, ReadsRight
<1>8. Apart
  BY <1>2 DEF Apart, ApartAll
<1> QED
  BY <1>1, <1>6, <1>7, <1>8 DEF Inv, RunInv, SavedIsUsed

\* A vreg keeps its class in this step.
SameClass == \A v \in Vregs : ClassOf(vreg_phys'[v]) = ClassOf(vreg_phys[v])

\* What the body and the assignment determine is the same while neither changes.
LEMMA SameBody ==
  ASSUME UNCHANGED <<vreg_phys, body, live>>
  PROVE  /\ BodyInv => BodyInv'
         /\ ReadsRight => ReadsRight'
         /\ ApartAll /\ (phase' = "emit" => phase = "emit") => ApartAll'
         /\ SameClass
<1>1. BodyInv => BodyInv'
  BY DEF BodyInv, Vregs
<1>2. ReadsRight => ReadsRight'
  BY DEF ReadsRight, Holds, Clobbers
<1>3. ASSUME ApartAll, phase' = "emit" => phase = "emit" PROVE ApartAll'
  <2>1. Vregs' = Vregs /\ \A v : Mentions(v)' = Mentions(v)
    BY SameIntervals DEF Vregs
  <2>2. \A a, b : Before(a, b) => Before(a, b)'
    BY <2>1 DEF Before
  <2> QED
    BY <1>3, <2>1, <2>2 DEF ApartAll
<1> QED
  BY <1>1, <1>2, <1>3 DEF SameClass

\* Every step keeps the invariant, and every vreg in its class.
LEMMA NextInv ==
  ASSUME Inv, [Next]_vars
  PROVE  Inv' /\ SameClass
<1>1. EmitInv /\ HoldInv /\ Apart /\ RunInv /\ BodyInv /\ ReadsRight
  BY DEF Inv, EmitInv, HoldInv
<1>2. CASE EmitStep
  <2>1. phase = "emit" /\ phase' = "emit" /\ Longer /\ EmitInv' /\ HoldInv'
    BY <1>1, <1>2, EmitStepKeeps
  <2>2. Apart'
    BY <1>1, <1>2, <2>1, ApartKept
  <2>3. SameClass
    BY <2>1 DEF Longer, SameClass
  <2> QED
    BY <2>1, <2>2, <2>3 DEF Inv, RunInv, SavedIsUsed
<1>3. CASE start_run
  <2>1. RunInv' /\ BodyInv' /\ phase = "emit" /\ phase' \in {"run", "pack"}
    BY <1>1, <1>3, RunStarts
  <2>2. UNCHANGED <<vreg_phys, body, live, evicted>>
    BY <1>3 DEF start_run, emitVars
  <2>3. ReadsRight' /\ SameClass /\ (ApartAll => ApartAll')
    BY <1>1, <2>1, <2>2, SameBody
  <2>4. Apart'
    BY <1>1, <2>1, <2>2, <2>3 DEF Apart
  <2> QED
    BY <2>1, <2>3, <2>4 DEF Inv, EmitInv, HoldInv, SavedIsUsed
<1>4. CASE run_step
  <2>1. phase = "run" /\ phase' = "run" /\ UNCHANGED <<vreg_phys, body, live, evicted>>
    BY <1>4 DEF run_step, emitVars
  <2>2. BodyInv' /\ ReadsRight' /\ SameClass /\ (ApartAll => ApartAll')
    BY <1>1, <2>1, SameBody
  <2>3. ApartAll /\ ~evicted
    BY <1>1, <2>1 DEF Apart, RunInv
  <2>4. RunInv'
    BY <1>1, <1>4, <2>1, <2>3, RunStepKeeps
  <2> QED
    BY <2>1, <2>2, <2>3, <2>4 DEF Inv, EmitInv, HoldInv, SavedIsUsed, Apart
<1>5. CASE end_run
  <2>1. /\ BodyInv' /\ ReadsRight' /\ phase' = "pack" /\ SameClass
    BY <1>1, <1>5, RunEnds DEF SameClass
  <2> QED
    BY <2>1 DEF Inv, EmitInv, HoldInv, SavedIsUsed, Apart, RunInv
<1>6. CASE pack
  <2>1. /\ BodyInv' /\ ReadsRight' /\ phase' = "done" /\ SavedIsUsed' /\ SameClass
    BY <1>1, <1>6, PackKeeps DEF SameClass
  <2> QED
    BY <2>1 DEF Inv, EmitInv, HoldInv, Apart, RunInv
<1>7. CASE UNCHANGED vars
  <2>1. UNCHANGED <<phase, vreg_phys, free_regs, live, evicted, evictions, body, readable,
                    todo, active, pool, new_phys, cs_count>>
    BY <1>7 DEF vars, emitVars, runVars
  <2>2. BodyInv' /\ ReadsRight' /\ SameClass /\ (ApartAll => ApartAll')
    BY <1>1, <2>1, SameBody
  <2>3. PoolInv => PoolInv'
    BY <2>1 DEF PoolInv, SavedInv, Sound, Tidy, Vregs
  <2>4. HoldInv'
    BY <1>1, <2>1, <2>2 DEF HoldInv, Holds, Clobbers
  <2>5. Apart'
    BY <1>1, <2>1, <2>2 DEF Apart
  <2>6. RunInv'
    <3>1. /\ \A v : def_line(v)' = def_line(v) /\ last_use(v)' = last_use(v)
                    /\ (Defined(v)' <=> Defined(v))
          /\ Vregs' = Vregs /\ Placed' = Placed
      BY <2>1, SameIntervals DEF Vregs, Placed
    <3>2. (TodoInv => TodoInv') /\ (NewInv => NewInv')
      BY <2>1, <3>1 DEF TodoInv, NewInv
    <3>3. (ActiveInv => ActiveInv') /\ (PastInv => PastInv') /\ (PairInv => PairInv')
      BY <2>1, <3>1 DEF ActiveInv, PastInv, PairInv, Apiece
    <3>4. Shares(pool, new_phys, ToSet(active), vreg_phys)
            => Shares(pool, new_phys, ToSet(active), vreg_phys)'
      BY <2>1 DEF Shares, OfClass
    <3> QED
      BY <1>1, <2>1, <3>2, <3>3, <3>4 DEF RunInv
  <2>7. SavedIsUsed'
    BY <2>1 DEF Inv, SavedIsUsed, Vregs
  <2> QED
    BY <1>1, <2>1, <2>2, <2>3, <2>4, <2>5, <2>6, <2>7 DEF Inv, EmitInv
<1> QED
  BY <1>2, <1>3, <1>4, <1>5, <1>6, <1>7 DEF Next, EmitStep, Finished

\* The invariant of the allocator.
LEMMA AlwaysInv == Spec => []Inv
<1>1. Inv /\ [Next]_vars => Inv'
  BY NextInv
<1> QED
  BY <1>1, InitInv, PTL DEF Spec

\* NoRegisterLost: whatever the code generator allocates, frees, evicts and
\* restores, each physical register is in RegPool's free list once or backs exactly
\* one vreg in use.
THEOREM NoRegisterLost == Spec => []PoolConserved
<1>1. Inv => PoolConserved
  BY PoolIsConserved DEF Inv
<1> QED
  BY <1>1, AlwaysInv, PTL

\* ReadsSeeTheirValue: for every body, every set of registers and every order of
\* evictions, each read finds the value last written to its vreg in the physical
\* register it was given, while the body is emitted, after `run` has reassigned the
\* registers and after `pack` has renamed them.
THEOREM ReadsSeeTheirValue == Spec => []ReadsRight
<1>1. Inv => ReadsRight
  BY DEF Inv, HoldInv
<1> QED
  BY <1>1, AlwaysInv, PTL

\* ScanStaysDistinct: while `run` scans, the vregs in `active` have registers of
\* their own, and the two pools hold the others of their class, once each.
THEOREM ScanStaysDistinct == Spec => []ActiveDistinct
<1>1. Inv => ActiveDistinct
  BY ScanIsDistinct DEF Inv, EmitInv
<1> QED
  BY <1>1, AlwaysInv, PTL

\* ScanNeverRunsOut: the fallback of `run`, "Shouldn't happen - pool size equals
\* alloc-time pressure", does not happen: no turn of the loop finds the pool of the
\* class empty, however many registers there are of each class.
THEOREM ScanNeverRunsOut == Spec => [][run_step => ~Exhausted]_vars
<1>1. Inv /\ [Next]_vars => [run_step => ~Exhausted]_vars
  <2> SUFFICES ASSUME Inv, run_step PROVE ~Exhausted
    OBVIOUS
  <2>1. phase = "run"
    BY DEF run_step
  <2>2. BodyInv /\ RunInv /\ ApartAll
    BY <2>1 DEF Inv, EmitInv, RunInv, Apart
  <2> QED
    BY <2>1, <2>2, RunStepKeeps
<1> QED
  BY <1>1, AlwaysInv, PTL DEF Spec

\* PrologueSavesUsed: the count `pack` returns names exactly the callee-saved
\* registers the body uses.
THEOREM PrologueSavesUsed == Spec => []SavedIsUsed
<1>1. Inv => SavedIsUsed
  BY DEF Inv
<1> QED
  BY <1>1, AlwaysInv, PTL

\* ClassesStay: neither the scan nor `pack` moves a vreg between callee-saved and
\* caller-saved, so what the code generator decided from is_callee_saved holds.
THEOREM ClassesStay == Spec => ClassKept
<1>1. Inv /\ [Next]_vars =>
        [\A v \in Vregs : ClassOf(vreg_phys'[v]) = ClassOf(vreg_phys[v])]_vars
  BY NextInv DEF SameClass
<1> QED
  BY <1>1, AlwaysInv, PTL DEF Spec, ClassKept
=============================================================================
