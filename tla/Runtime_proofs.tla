--------------------------- MODULE Runtime_proofs ----------------------------
(***************************************************************************)
(* Proofs about three parts of the runtime.  TestRun: the log of a test    *)
(* program is in order, and its verdicts are right.  Profiler: the buffer  *)
(* of samples is never overrun, a report adds up while samples arrive, and *)
(* each sample is the stack it was taken of.  Inflate: whatever calls of   *)
(* zlib the loop makes, kod_inflate answers as the members of the input    *)
(* say, and zlib never writes past the end of the buffer.                  *)
(***************************************************************************)
EXTENDS TestRun, Profiler, Inflate, Integers, FiniteSetTheorems, WellFoundedInduction, TLAPS

-----------------------------------------------------------------------------
(* The log of a test program.                                                *)

Kinds == {"module", "print", "detail", "panic", "FAIL", "ok", "summary"}
InOrderLines == Kinds \X Nat
AllLines == (Kinds \cup {"eprint"}) \X Nat

\* The lines of the program are lines, and none is one of kod_eprint's.
LEMMA LineKinds ==
  /\ InOrderLines \subseteq AllLines
  /\ \A x \in InOrderLines : x[1] \in Kinds /\ x[1] # "eprint"
  BY DEF InOrderLines, AllLines, Kinds

\* A line more.
LEMMA AppendIs ==
  ASSUME NEW T, NEW s \in Seq(T), NEW x \in T
  PROVE  /\ Append(s, x) \in Seq(T) /\ Len(Append(s, x)) = Len(s) + 1
         /\ \A i \in 1..Len(s) : Append(s, x)[i] = s[i]
         /\ Append(s, x)[Len(s) + 1] = x
  OBVIOUS

\* Places depend on the lines up to there.
LEMMA PlaceSame ==
  ASSUME NEW s, NEW t, NEW i \in Nat, \A k \in 1..i : s[k] = t[k]
  PROVE  Place(s, i) = Place(t, i)
<1>1. {k \in 1..i : s[k][1] # "eprint"} = {k \in 1..i : t[k][1] # "eprint"}
  OBVIOUS
<1> QED
  BY <1>1 DEF Place

\* Places are numbers, and lines in order take one each.
LEMMA PlaceMore ==
  ASSUME NEW s, NEW i \in Nat, NEW j \in Nat, \A k \in (i + 1)..(i + j) : s[k][1] # "eprint"
  PROVE  Place(s, i) \in Nat /\ Place(s, i + j) = Place(s, i) + j
<1> DEFINE A == {k \in 1..i : s[k][1] # "eprint"}
           B == (i + 1)..(i + j)
           C == {k \in 1..(i + j) : s[k][1] # "eprint"}
<1>1. IsFiniteSet(A) /\ Cardinality(A) \in Nat
  <2>1. A \in SUBSET Nat /\ \A x \in A : x <= i
    OBVIOUS
  <2> HIDE DEF A
  <2>2. IsFiniteSet(A)
    BY <2>1, FS_BoundedSetOfNaturals
  <2> QED
    BY <2>2, FS_CardinalityType
<1>2. IsFiniteSet(B) /\ Cardinality(B) = j
  <2>1. i + 1 \in Int /\ i + j \in Int
    OBVIOUS
  <2>2. IsFiniteSet(B) /\ Cardinality(B) = IF i + 1 > i + j THEN 0 ELSE (i + j) - (i + 1) + 1
    BY <2>1, FS_Interval
  <2> QED
    BY <2>2
<1>3. C = A \cup B /\ A \cap B = {}
  OBVIOUS
<1>4. Place(s, i) = Cardinality(A) /\ Place(s, i + j) = Cardinality(C)
  BY DEF Place
<1> HIDE DEF A, B, C
<1>5. Cardinality(C) = Cardinality(A) + Cardinality(B) - Cardinality(A \cap B)
  BY <1>1, <1>2, <1>3, FS_Union
<1>6. Cardinality(A \cap B) = 0
  BY <1>3, FS_EmptySet
<1> QED
  BY <1>1, <1>2, <1>4, <1>5, <1>6

\* A line of kod_eprint takes none.
LEMMA PlaceAside ==
  ASSUME NEW s, NEW i \in Nat, s[i + 1][1] = "eprint"
  PROVE  Place(s, i + 1) = Place(s, i)
<1>1. {k \in 1..(i + 1) : s[k][1] # "eprint"} = {k \in 1..i : s[k][1] # "eprint"}
  OBVIOUS
<1> QED
  BY <1>1 DEF Place

\* Up to a line, there are no more places than further on.
LEMMA PlaceType ==
  ASSUME NEW s, NEW i \in Nat
  PROVE  Place(s, i) \in Nat
<1>1. \A k \in (i + 1)..(i + 0) : s[k][1] # "eprint"
  OBVIOUS
<1> QED
  BY <1>1, PlaceMore

InLog(lg, sd, n) == \A i \in 1..n : lg[i][1] # "eprint" => lg[i] = sd[Place(lg, i)]
InBuffer(so, sd, out, m) == \A j \in 1..m : so[j] = sd[out + j]

Parts(lg, so, sd, n, m, out) ==
  Accounted(lg, so, sd) <=> Len(sd) = out + m /\ InLog(lg, sd, n) /\ InBuffer(so, sd, out, m)

\* What was written, part by part.
LEMMA AccountedIs ==
  ASSUME NEW lg, NEW so, NEW sd, NEW n, NEW m, NEW out,
         Len(lg) = n, DOMAIN lg = 1..n, Len(so) = m, DOMAIN so = 1..m, out = Place(lg, n)
  PROVE  Parts(lg, so, sd, n, m, out)
  BY DEF Parts, Accounted, InLog, InBuffer

\* A flush puts the buffer into the log.
LEMMA FlushAccounted ==
  ASSUME NEW lg \in Seq(AllLines), NEW so \in Seq(InOrderLines), NEW sd \in Seq(InOrderLines),
         Accounted(lg, so, sd)
  PROVE  Accounted(lg \o so, <<>>, sd)
<1>1. PICK n \in Nat, m \in Nat : n = Len(lg) /\ m = Len(so)
  OBVIOUS
<1>2. PICK t : t = lg \o so
  OBVIOUS
<1>3. /\ DOMAIN t = 1..(n + m) /\ Len(t) = n + m
      /\ \A i \in 1..n : t[i] = lg[i]
      /\ \A j \in 1..m : t[n + j] = so[j]
  <2>1. lg \in Seq(AllLines) /\ so \in Seq(AllLines)
    BY LineKinds
  <2> QED
    BY <1>1, <1>2, <2>1
<1>4. PICK out \in Nat : out = Place(lg, n)
  BY PlaceType
<1>5. /\ Len(sd) = out + m
      /\ \A i \in 1..n : lg[i][1] # "eprint" => lg[i] = sd[Place(lg, i)]
      /\ \A j \in 1..m : so[j] = sd[out + j]
  <2>1. Len(lg) = n /\ DOMAIN lg = 1..n /\ Len(so) = m /\ DOMAIN so = 1..m
    BY <1>1
  <2>2. Len(sd) = out + m /\ InLog(lg, sd, n) /\ InBuffer(so, sd, out, m)
    <3>1. Parts(lg, so, sd, n, m, out)
      BY <1>4, <2>1, AccountedIs, Zenon
    <3> QED
      BY <3>1 DEF Parts
  <2> QED
    BY <2>2 DEF InLog, InBuffer
<1>6. ASSUME NEW i \in 0..n PROVE Place(t, i) = Place(lg, i)
  <2>1. i \in Nat /\ \A k \in 1..i : k \in 1..n
    BY <1>1
  <2>2. \A k \in 1..i : t[k] = lg[k]
    BY <1>3, <2>1
  <2> QED
    BY <2>1, <2>2, PlaceSame, Zenon
<1>7. \A j \in 1..m : so[j][1] # "eprint"
  BY <1>1, LineKinds
<1>8. ASSUME NEW j \in 0..m PROVE Place(t, n + j) = out + j
  <2>1. ASSUME NEW k \in (n + 1)..(n + j) PROVE t[k][1] # "eprint"
    <3>1. k - n \in 1..m /\ n + (k - n) = k
      OBVIOUS
    <3>2. t[k] = so[k - n]
      BY <1>3, <3>1
    <3> QED
      BY <1>7, <3>1, <3>2
  <2>2. Place(t, n + j) = Place(t, n) + j
    <3>1. n \in Nat /\ j \in Nat
      OBVIOUS
    <3> QED
      BY <2>1, <3>1, PlaceMore, Zenon
  <2>3. Place(t, n) = out
    BY <1>4, <1>6
  <2> QED
    BY <2>2, <2>3
<1>9. Place(t, Len(t)) = out + m
  BY <1>3, <1>8
<1>10. ASSUME NEW i \in 1..(n + m), t[i][1] # "eprint" PROVE t[i] = sd[Place(t, i)]
  <2>1. CASE i \in 1..n
    BY <1>3, <1>5, <1>6, <1>10, <2>1
  <2>2. CASE i \notin 1..n
    <3>1. PICK j \in 1..m : i = n + j
      <4>1. i - n \in 1..m /\ i = n + (i - n)
        BY <2>2
      <4> QED
        BY <4>1
    <3>2. j \in 0..m /\ t[i] = so[j]
      BY <1>3, <3>1
    <3>3. Place(t, i) = out + j
      BY <1>8, <3>1, <3>2
    <3> QED
      BY <1>5, <3>2, <3>3
  <2> QED
    BY <2>1, <2>2
<1>11. Len(t) = n + m /\ DOMAIN t = 1..(n + m) /\ Len(<< >>) = 0 /\ DOMAIN << >> = 1..0
  BY <1>3
<1>12. PICK whole : whole = n + m
  OBVIOUS
<1>13. PICK places \in Nat : places = out + m
  OBVIOUS
<1>14. Len(sd) = places + 0 /\ places = Place(t, whole)
  BY <1>3, <1>5, <1>9, <1>12, <1>13
<1>15. InLog(t, sd, whole)
  BY <1>10, <1>12 DEF InLog
<1>16. InBuffer(<< >>, sd, places, 0)
  BY DEF InBuffer
<1>17. Accounted(t, << >>, sd)
  <2>1. Parts(t, << >>, sd, whole, 0, places)
    BY <1>11, <1>12, <1>14, AccountedIs, Zenon
  <2> QED
    BY <1>14, <1>15, <1>16, <2>1 DEF Parts
<1> QED
  BY <1>2, <1>17

\* A line in order has its place among those of the log.
LEMMA PlaceIn ==
  ASSUME NEW s, NEW n \in Nat, NEW i \in 1..n, s[i][1] # "eprint"
  PROVE  Place(s, i) \in 1..Place(s, n)
<1>1. Place(s, i - 1) \in Nat /\ Place(s, i) = Place(s, i - 1) + 1
  <2>1. i - 1 \in Nat /\ \A k \in ((i - 1) + 1)..((i - 1) + 1) : k = i
    OBVIOUS
  <2>2. Place(s, (i - 1) + 1) = Place(s, i - 1) + 1 /\ Place(s, i - 1) \in Nat
    <3>1. PICK h \in Nat : h = i - 1
      BY <2>1
    <3>2. 1 \in Nat /\ \A k \in (h + 1)..(h + 1) : s[k][1] # "eprint"
      BY <2>1, <3>1
    <3>3. Place(s, h) \in Nat /\ Place(s, h + 1) = Place(s, h) + 1
      BY <3>2, PlaceMore, Zenon
    <3> QED
      BY <3>1, <3>3
  <2> QED
    BY <2>2
<1>2. Place(s, i) <= Place(s, n)
  <2>1. {k \in 1..i : s[k][1] # "eprint"} \subseteq {k \in 1..n : s[k][1] # "eprint"}
    OBVIOUS
  <2>2. IsFiniteSet({k \in 1..n : s[k][1] # "eprint"})
    <3>1. /\ {k \in 1..n : s[k][1] # "eprint"} \in SUBSET Nat
          /\ \A y \in {k \in 1..n : s[k][1] # "eprint"} : y <= n
      OBVIOUS
    <3> QED
      BY <3>1, FS_BoundedSetOfNaturals
  <2> QED
    BY <2>1, <2>2, FS_Subset DEF Place
<1>3. Place(s, n) \in Nat
  BY PlaceType
<1> QED
  BY <1>1, <1>2, <1>3

\* With nothing in the buffer, a line goes to the log.
LEMMA WriteAccounted ==
  ASSUME NEW lg \in Seq(AllLines), NEW sd \in Seq(InOrderLines), NEW x \in InOrderLines,
         Accounted(lg, <<>>, sd)
  PROVE  Accounted(Append(lg, x), <<>>, Append(sd, x))
<1>1. PICK n \in Nat : n = Len(lg)
  OBVIOUS
<1>0. x \in AllLines
  BY LineKinds
<1>2. PICK t \in Seq(AllLines) : t = Append(lg, x)
  BY <1>0, AppendIs
<1>3. /\ DOMAIN t = 1..(n + 1) /\ Len(t) = n + 1 /\ t[n + 1] = x
      /\ \A i \in 1..n : t[i] = lg[i]
  BY <1>0, <1>1, <1>2, AppendIs
<1>4. PICK out \in Nat : out = Place(lg, n)
  BY PlaceType
<1>5. Len(sd) = out /\ \A i \in 1..n : lg[i][1] # "eprint" => lg[i] = sd[Place(lg, i)]
  BY <1>1, <1>4 DEF Accounted
<1>6. PICK w \in Seq(InOrderLines) : w = Append(sd, x)
  BY AppendIs
<1>7. Len(w) = out + 1 /\ w[out + 1] = x /\ \A k \in 1..out : w[k] = sd[k]
  BY <1>5, <1>6, AppendIs
<1>8. ASSUME NEW i \in 0..n PROVE Place(t, i) = Place(lg, i)
  <2>1. i \in Nat /\ \A k \in 1..i : k \in 1..n
    BY <1>1
  <2>2. \A k \in 1..i : t[k] = lg[k]
    BY <1>3, <2>1
  <2> QED
    BY <2>1, <2>2, PlaceSame, Zenon
<1>9. Place(t, n + 1) = out + 1
  <2>1. \A k \in (n + 1)..(n + 1) : t[k][1] # "eprint"
    BY <1>3, LineKinds
  <2>2. Place(t, n + 1) = Place(t, n) + 1
    BY <2>1, PlaceMore
  <2> QED
    BY <1>4, <1>8, <2>2
<1>10. ASSUME NEW i \in 1..n, lg[i][1] # "eprint" PROVE Place(lg, i) \in 1..out
  BY <1>4, <1>10, PlaceIn
<1>11. ASSUME NEW i \in 1..(n + 1), t[i][1] # "eprint" PROVE t[i] = w[Place(t, i)]
  <2>1. CASE i \in 1..n
    <3>1. t[i] = lg[i] /\ Place(t, i) = Place(lg, i)
      BY <1>3, <1>8, <2>1
    <3>2. lg[i] = sd[Place(lg, i)] /\ Place(lg, i) \in 1..out
      BY <1>5, <1>10, <1>11, <2>1, <3>1
    <3> QED
      BY <1>7, <3>1, <3>2
  <2>2. CASE i = n + 1
    BY <1>3, <1>7, <1>9, <2>2
  <2> QED
    BY <2>1, <2>2
<1>12. Accounted(t, <<>>, w)
  BY <1>3, <1>7, <1>9, <1>11 DEF Accounted
<1> QED
  BY <1>2, <1>6, <1>12

\* A line goes to the buffer.
LEMMA BufferAccounted ==
  ASSUME NEW lg \in Seq(AllLines), NEW so \in Seq(InOrderLines), NEW sd \in Seq(InOrderLines),
         NEW x \in InOrderLines, Accounted(lg, so, sd)
  PROVE  Accounted(lg, Append(so, x), Append(sd, x))
<1>1. PICK n \in Nat, m \in Nat : n = Len(lg) /\ m = Len(so)
  OBVIOUS
<1>2. PICK b \in Seq(InOrderLines) : b = Append(so, x)
  BY AppendIs
<1>3. DOMAIN b = 1..(m + 1) /\ Len(b) = m + 1 /\ b[m + 1] = x /\ \A i \in 1..m : b[i] = so[i]
  BY <1>1, <1>2, AppendIs
<1>4. PICK out \in Nat : out = Place(lg, n)
  BY PlaceType
<1>5. /\ Len(sd) = out + m
      /\ \A i \in 1..n : lg[i][1] # "eprint" => lg[i] = sd[Place(lg, i)]
      /\ \A j \in 1..m : so[j] = sd[out + j]
  <2>1. DOMAIN lg = 1..n /\ DOMAIN so = 1..m
    BY <1>1
  <2>2. out = Place(lg, Len(lg)) /\ Accounted(lg, so, sd)
    BY <1>1, <1>4
  <2> QED
    BY <1>1, <2>1, <2>2 DEF Accounted
<1>6. PICK w \in Seq(InOrderLines) : w = Append(sd, x)
  BY AppendIs
<1>7. Len(w) = out + m + 1 /\ w[out + m + 1] = x /\ \A k \in 1..(out + m) : w[k] = sd[k]
  BY <1>5, <1>6, AppendIs
<1>8. ASSUME NEW i \in 1..n, lg[i][1] # "eprint" PROVE lg[i] = w[Place(lg, i)]
  <2>1. Place(lg, i) \in 1..out
    BY <1>4, <1>8, PlaceIn
  <2> QED
    BY <1>5, <1>7, <1>8, <2>1
<1>9. ASSUME NEW j \in 1..(m + 1) PROVE b[j] = w[out + j]
  <2>1. CASE j \in 1..m
    <3>1. out + j \in 1..(out + m)
      BY <2>1
    <3> QED
      BY <1>3, <1>5, <1>7, <2>1, <3>1
  <2>2. CASE j = m + 1
    BY <1>3, <1>7, <2>2
  <2> QED
    BY <2>1, <2>2
<1>10. Accounted(lg, b, w)
  <2>1. Len(lg) = n /\ DOMAIN lg = 1..n
    BY <1>1
  <2>2. PICK k : k = m + 1
    OBVIOUS
  <2>3. Len(b) = k /\ DOMAIN b = 1..k
    BY <1>3, <2>2
  <2>4. Len(w) = out + k
    BY <1>7, <2>2
  <2>5. InLog(lg, w, n)
    BY <1>8 DEF InLog
  <2>6. InBuffer(b, w, out, k)
    BY <1>9, <2>2 DEF InBuffer
  <2>7. Parts(lg, b, w, n, k, out)
    BY <1>4, <2>1, <2>3, AccountedIs, Zenon
  <2> QED
    BY <2>4, <2>5, <2>6, <2>7 DEF Parts
<1> QED
  BY <1>2, <1>6, <1>10

\* A line of kod_eprint goes to the log past the buffer.
LEMMA AsideAccounted ==
  ASSUME NEW lg \in Seq(AllLines), NEW so \in Seq(InOrderLines), NEW sd \in Seq(InOrderLines),
         NEW x \in AllLines, x[1] = "eprint", Accounted(lg, so, sd)
  PROVE  Accounted(Append(lg, x), so, sd)
<1>1. PICK n \in Nat : n = Len(lg)
  OBVIOUS
<1>2. PICK t \in Seq(AllLines) : t = Append(lg, x)
  BY AppendIs
<1>3. /\ DOMAIN t = 1..(n + 1) /\ DOMAIN lg = 1..n /\ Len(t) = n + 1 /\ t[n + 1] = x
      /\ \A i \in 1..n : t[i] = lg[i]
  BY <1>1, <1>2, AppendIs
<1>4. ASSUME NEW i \in 0..n PROVE Place(t, i) = Place(lg, i)
  <2>1. i \in Nat /\ \A k \in 1..i : k \in 1..n
    BY <1>1
  <2>2. \A k \in 1..i : t[k] = lg[k]
    BY <1>3, <2>1
  <2> QED
    BY <2>1, <2>2, PlaceSame, Zenon
<1>5. Place(t, n + 1) = Place(lg, n)
  <2>1. Place(t, n + 1) = Place(t, n)
    BY <1>3, PlaceAside
  <2> QED
    BY <1>4, <2>1
<1>6. ASSUME NEW i \in 1..(n + 1), t[i][1] # "eprint" PROVE t[i] = sd[Place(t, i)]
  <2>1. i \in 1..n
    BY <1>3, <1>6
  <2>2. t[i] = lg[i] /\ Place(t, i) = Place(lg, i)
    BY <1>3, <1>4, <2>1
  <2> QED
    BY <1>3, <1>6, <2>1, <2>2 DEF Accounted
<1>7. Accounted(t, so, sd)
  BY <1>1, <1>3, <1>5, <1>6 DEF Accounted
<1> QED
  BY <1>2, <1>7

-----------------------------------------------------------------------------
(* One line written, by each way there is.                                   *)

StreamTypes == said \in Seq(InOrderLines) /\ stdout \in Seq(InOrderLines) /\ log \in Seq(AllLines)
Ordered == StreamTypes /\ Accounted(log, stdout, said)

\* The line goes through both streams in order, and nothing stays in the buffer.
LEMMA FlushedKeeps ==
  ASSUME Ordered, NEW x \in InOrderLines, said' = Append(said, x), stdout' = <<>>,
         log' = log \o stdout \o <<x>>
  PROVE  Ordered'
<1>1. PICK t : t = log \o stdout
  OBVIOUS
<1>2. said \in Seq(InOrderLines) /\ stdout \in Seq(AllLines) /\ log \in Seq(AllLines) /\ x \in AllLines
  BY LineKinds DEF Ordered, StreamTypes
<1>3. t \in Seq(AllLines) /\ log' = Append(t, x)
  BY <1>1, <1>2
<1>4. Accounted(t, <<>>, said)
  BY <1>1, FlushAccounted DEF Ordered, StreamTypes
<1>5. Accounted(Append(t, x), <<>>, Append(said, x))
  BY <1>2, <1>3, <1>4, WriteAccounted
<1>6. Accounted(log', stdout', said')
  BY <1>3, <1>5
<1>7. StreamTypes'
  BY <1>2, <1>3, AppendIs DEF StreamTypes
<1> QED
  BY <1>6, <1>7 DEF Ordered, Accounted, Place

\* The line waits in the buffer, behind what is there or after it was full.
LEMMA StdoutKeeps ==
  ASSUME Ordered, NEW x \in InOrderLines, ToStdout(x)
  PROVE  Ordered'
<1>1. said' = Append(said, x) /\ StreamTypes
  BY DEF ToStdout, Ordered
<1>2. CASE stdout' = Append(stdout, x) /\ log' = log
  <2>1. Accounted(log, Append(stdout, x), Append(said, x))
    BY BufferAccounted DEF Ordered, StreamTypes
  <2>2. StreamTypes'
    BY <1>1, <1>2, AppendIs DEF StreamTypes
  <2>3. Accounted(log', stdout', said')
    BY <1>1, <1>2, <2>1
  <2> QED
    BY <2>2, <2>3 DEF Ordered, Accounted, Place
<1>3. CASE stdout' = <<x>> /\ log' = log \o stdout
  <2>1. PICK t : t = log \o stdout
    OBVIOUS
  <2>2. Accounted(t, <<>>, said)
    BY <2>1, FlushAccounted DEF Ordered, StreamTypes
  <2>3. t \in Seq(AllLines)
    <3>1. stdout \in Seq(AllLines) /\ log \in Seq(AllLines)
      BY <1>1, LineKinds DEF StreamTypes
    <3> QED
      BY <2>1, <3>1
  <2>4. <<>> \in Seq(InOrderLines) /\ Append(<<>>, x) = <<x>>
    OBVIOUS
  <2>5. Accounted(t, Append(<<>>, x), Append(said, x))
    BY <1>1, <2>2, <2>3, <2>4, BufferAccounted DEF StreamTypes
  <2>6. Accounted(log', stdout', said')
    BY <1>1, <1>3, <2>1, <2>4, <2>5
  <2>7. StreamTypes'
    BY <1>1, <1>3, <2>1, <2>3, AppendIs DEF StreamTypes
  <2> QED
    BY <2>6, <2>7 DEF Ordered, Accounted, Place
<1> QED
  BY <1>2, <1>3 DEF ToStdout

\* A line past the buffer.
LEMMA AsideKeeps ==
  ASSUME Ordered, NEW x \in AllLines, x[1] = "eprint", log' = Append(log, x),
         UNCHANGED <<said, stdout>>
  PROVE  Ordered'
<1>1. Accounted(Append(log, x), stdout, said)
  BY AsideAccounted DEF Ordered, StreamTypes
<1>2. Accounted(log', stdout', said')
  BY <1>1
<1>3. StreamTypes'
  BY AppendIs DEF Ordered, StreamTypes
<1> QED
  BY <1>2, <1>3 DEF Ordered, Accounted, Place

-----------------------------------------------------------------------------
(* The verdicts.                                                             *)

Passed(sd) == {i \in DOMAIN sd : sd[i][1] = "ok"}

\* One more line that says ok, or not.
LEMMA PassedGrows ==
  ASSUME NEW sd \in Seq(InOrderLines), NEW x \in InOrderLines
  PROVE  /\ Cardinality(Passed(sd)) \in Nat
         /\ x[1] = "ok" => Cardinality(Passed(Append(sd, x))) = Cardinality(Passed(sd)) + 1
         /\ x[1] # "ok" => Cardinality(Passed(Append(sd, x))) = Cardinality(Passed(sd))
<1>1. PICK n \in Nat : n = Len(sd) /\ DOMAIN sd = 1..n
  OBVIOUS
<1>2. PICK w \in Seq(InOrderLines) : w = Append(sd, x)
  BY AppendIs
<1>3. DOMAIN w = 1..(n + 1) /\ w[n + 1] = x /\ \A i \in 1..n : w[i] = sd[i]
  BY <1>1, <1>2, AppendIs
<1>4. IsFiniteSet(Passed(sd)) /\ n + 1 \notin Passed(sd)
  <2>1. Passed(sd) \in SUBSET Nat /\ \A y \in Passed(sd) : y <= n
    BY <1>1 DEF Passed
  <2>2. IsFiniteSet(Passed(sd))
    BY <2>1, FS_BoundedSetOfNaturals
  <2> QED
    BY <2>1, <2>2
<1>5. x[1] = "ok" => Passed(w) = Passed(sd) \cup {n + 1}
  BY <1>1, <1>3 DEF Passed
<1>6. x[1] # "ok" => Passed(w) = Passed(sd)
  BY <1>1, <1>3 DEF Passed
<1>7. /\ Cardinality(Passed(sd)) \in Nat
      /\ Cardinality(Passed(sd) \cup {n + 1}) = Cardinality(Passed(sd)) + 1
  BY <1>4, FS_CardinalityType, FS_AddElement
<1> QED
  BY <1>2, <1>5, <1>6, <1>7

\* The counters and flags of the framework.
FlagTypes ==
  /\ tests \in Nat /\ run \in 0..tests
  /\ step \in {"main", "module", "test", "exited"}
  /\ test_failed \in BOOLEAN /\ test_total \in Nat /\ test_failures \in Nat
  /\ broken \subseteq 1..run
  /\ step = "module" => run < tests
  /\ step = "test" => run # 0
  /\ step # "exited" <=> code = 99

\* A verdict is about a test that has ended.
VerdictPlaces ==
  \A i \in DOMAIN said : said[i][1] \in {"FAIL", "ok"} =>
    said[i][2] \in 1..run /\ (step = "test" => said[i][2] # run)

\* The flag is that of the running test, and the failures are those of the others.
FlagRight ==
  /\ step = "test" => (test_failed <=> run \in broken)
  /\ step = "test" => (test_failures = 0 <=> broken \subseteq {run})
  /\ step \in {"main", "module"} => (test_failures = 0 <=> broken = {})

TotalRight == test_total = test_failures + Cardinality(Passed(said))

\* The buffer is empty once the program has exited.
ExitFlushed == code # 99 => stdout = <<>>

TestInv ==
  /\ Ordered /\ FlagTypes /\ VerdictPlaces /\ VerdictRight /\ FlagRight /\ TotalRight
  /\ ExitFlushed /\ ExitTells

\* A new line of no verdict leaves those there are.
LEMMA PlainLine ==
  ASSUME said \in Seq(InOrderLines), NEW x \in InOrderLines, x[1] \notin {"FAIL", "ok"},
         said' = Append(said, x), VerdictPlaces, VerdictRight, TotalRight, run' = run,
         step' = "test" => step = "test", broken' = broken \/ (step = "test" /\ broken' = broken \cup {run}),
         UNCHANGED <<test_total, test_failures>>
  PROVE  VerdictPlaces' /\ VerdictRight' /\ TotalRight'
<1>1. PICK n \in Nat : n = Len(said) /\ DOMAIN said = 1..n
  OBVIOUS
<1>2. DOMAIN said' = 1..(n + 1) /\ said'[n + 1] = x /\ \A i \in 1..n : said'[i] = said[i]
  BY <1>1, AppendIs
<1>3. ASSUME NEW i \in DOMAIN said', said'[i][1] \in {"FAIL", "ok"}
      PROVE  i \in DOMAIN said /\ said'[i] = said[i]
  BY <1>1, <1>2, <1>3
<1>4. VerdictPlaces'
  <2> SUFFICES ASSUME NEW i \in DOMAIN said', said'[i][1] \in {"FAIL", "ok"}
               PROVE  said'[i][2] \in 1..run /\ (step' = "test" => said'[i][2] # run)
    BY DEF VerdictPlaces
  <2> QED
    BY <1>3 DEF VerdictPlaces
<1>5. VerdictRight'
  <2> SUFFICES ASSUME NEW i \in DOMAIN said', said'[i][1] \in {"FAIL", "ok"}
               PROVE  /\ said'[i][1] = "FAIL" => said'[i][2] \in broken'
                      /\ said'[i][1] = "ok" => said'[i][2] \notin broken'
    BY DEF VerdictRight
  <2>1. i \in DOMAIN said /\ said'[i] = said[i]
    BY <1>3
  <2> QED
    BY <2>1 DEF VerdictRight, VerdictPlaces
<1>6. TotalRight'
  <2>1. Cardinality(Passed(Append(said, x))) = Cardinality(Passed(said))
    BY PassedGrows
  <2>2. Cardinality(Passed(said))' = Cardinality(Passed(said))
    BY <2>1 DEF Passed
  <2> QED
    BY <2>2 DEF TotalRight
<1> QED
  BY <1>4, <1>5, <1>6

\* The line of a test: FAIL for one in `broken`, ok for another.
LEMMA VerdictLine ==
  ASSUME said \in Seq(InOrderLines), FlagTypes, VerdictPlaces, VerdictRight, TotalRight, FlagRight,
         step = "test", step' # "test", NEW k, k = IF test_failed THEN "FAIL" ELSE "ok",
         said' = Append(said, <<k, run>>), UNCHANGED <<run, broken>>,
         test_total' = test_total + 1, test_failures' = test_failures + (IF test_failed THEN 1 ELSE 0)
  PROVE  VerdictPlaces' /\ VerdictRight' /\ TotalRight'
<1>1. PICK n \in Nat : n = Len(said) /\ DOMAIN said = 1..n
  OBVIOUS
<1>2. PICK x \in InOrderLines : x = <<k, run>>
  <2>1. k \in Kinds /\ run \in Nat
    BY DEF Kinds, FlagTypes
  <2> QED
    BY <2>1 DEF InOrderLines
<1>3. DOMAIN said' = 1..(n + 1) /\ said'[n + 1] = <<k, run>> /\ \A i \in 1..n : said'[i] = said[i]
  BY <1>1, <1>2, AppendIs
<1>4. run \in 1..run /\ (k = "FAIL" => run \in broken) /\ (k = "ok" => run \notin broken)
  BY DEF FlagTypes, FlagRight
<1>5. VerdictPlaces'
  BY <1>1, <1>3, <1>4 DEF VerdictPlaces
<1>6. VerdictRight'
  BY <1>1, <1>3, <1>4 DEF VerdictRight
<1>7. /\ Cardinality(Passed(said)) \in Nat
      /\ k = "ok" => Cardinality(Passed(Append(said, x))) = Cardinality(Passed(said)) + 1
      /\ k # "ok" => Cardinality(Passed(Append(said, x))) = Cardinality(Passed(said))
  BY <1>2, PassedGrows
<1>8. Cardinality(Passed(said))' = Cardinality(Passed(Append(said, x)))
  BY <1>2 DEF Passed
<1>9. TotalRight'
  <2>1. CASE test_failed
    BY <1>7, <1>8, <2>1 DEF TotalRight, FlagTypes
  <2>2. CASE ~test_failed
    BY <1>7, <1>8, <2>2 DEF TotalRight, FlagTypes
  <2> QED
    BY <2>1, <2>2
<1> QED
  BY <1>5, <1>6, <1>9

\* A test program that has written nothing.
LEMMA TestStarts == TestInit => TestInv
<1> SUFFICES ASSUME TestInit PROVE TestInv
  OBVIOUS
<1>1. /\ said = <<>> /\ stdout = <<>> /\ log = <<>> /\ run = 0 /\ step = "main" /\ code = 99
      /\ broken = {} /\ test_total = 0 /\ test_failures = 0 /\ test_failed = FALSE
      /\ tests \in Nat
  BY TestConstants DEF TestInit
<1>2. DOMAIN said = {} /\ DOMAIN stdout = {} /\ DOMAIN log = {} /\ Len(said) = 0
      /\ Len(stdout) = 0 /\ Len(log) = 0
  BY <1>1
<1>3. Place(log, 0) = 0 /\ Cardinality(Passed(said)) = 0
  <2>1. {k \in 1..0 : log[k][1] # "eprint"} = {} /\ Passed(said) = {}
    BY <1>2 DEF Passed
  <2> QED
    BY <2>1, FS_EmptySet DEF Place
<1>4. Ordered
  BY <1>1, <1>2, <1>3 DEF Ordered, StreamTypes, Accounted
<1>5. FlagTypes /\ FlagRight /\ TotalRight
  <2>1. test_failed \in BOOLEAN /\ step # "test"
    BY <1>1
  <2>2. FlagTypes
    BY <1>1, <2>1 DEF FlagTypes
  <2>3. FlagRight
    BY <1>1, <2>1 DEF FlagRight
  <2> QED
    BY <1>1, <1>3, <2>2, <2>3 DEF TotalRight
<1> QED
  BY <1>1, <1>2, <1>4, <1>5 DEF TestInv, VerdictPlaces, VerdictRight, ExitFlushed, ExitTells

\* Every step of the program keeps the invariant.
LEMMA TestStep ==
  ASSUME TestInv, [TestNext]_testVars
  PROVE  TestInv'
<1>0. /\ Ordered /\ FlagTypes /\ VerdictPlaces /\ VerdictRight /\ FlagRight /\ TotalRight
      /\ ExitFlushed /\ ExitTells /\ said \in Seq(InOrderLines) /\ run \in Nat
  BY DEF TestInv, Ordered, StreamTypes, FlagTypes
<1>x. \A k \in Kinds, r \in Nat : <<k, r>> \in InOrderLines /\ <<k, r>>[1] = k
  BY DEF InOrderLines
<1>1. CASE kod_test_module_begin
  <2>1. PICK x \in InOrderLines : x = <<"module", 0>> /\ x[1] = "module"
    BY <1>x DEF Kinds
  <2>2. /\ said' = Append(said, x) /\ stdout' = <<>> /\ log' = log \o stdout \o <<x>>
        /\ step = "main" /\ step' = "module" /\ run < tests
        /\ UNCHANGED <<tests, run, test_failed, test_total, test_failures, broken, code>>
    BY <1>1, <2>1 DEF kod_test_module_begin, ToStdoutFlushed
  <2>3. Ordered'
    BY <1>0, <2>2, FlushedKeeps
  <2>4. VerdictPlaces' /\ VerdictRight' /\ TotalRight'
    <3>1. x[1] \notin {"FAIL", "ok"}
      BY <2>1
    <3>2. run' = run /\ (step' = "test" => step = "test") /\ UNCHANGED <<test_total, test_failures>>
      BY <2>2
    <3>3. broken' = broken
      BY <2>2
    <3> QED
      BY <1>0, <2>2, <3>1, <3>2, <3>3, PlainLine
  <2>5. FlagTypes' /\ FlagRight'
    BY <1>0, <2>2 DEF FlagTypes, FlagRight
  <2> QED
    BY <1>0, <2>2, <2>3, <2>4, <2>5 DEF TestInv, ExitFlushed, ExitTells, FlagTypes
<1>2. CASE kod_test_reset
  <2>1. /\ UNCHANGED <<tests, stdout, log, said, test_total, test_failures, broken, code>>
        /\ step = "module" /\ step' = "test" /\ run' = run + 1 /\ test_failed' = FALSE
    BY <1>2 DEF kod_test_reset, ClearFlag
  <2>2. Ordered' /\ TotalRight'
    BY <1>0, <2>1 DEF Ordered, StreamTypes, Accounted, Place, TotalRight, Passed
  <2>3. VerdictPlaces' /\ VerdictRight'
    BY <1>0, <2>1 DEF VerdictPlaces, VerdictRight
  <2>4. run + 1 \notin broken
    BY <1>0 DEF FlagTypes
  <2>5. FlagTypes'
    <3>1. test_failed' \in BOOLEAN
      BY <2>1
    <3>2. run + 1 \in 0..tests /\ 1..run \subseteq 1..(run + 1) /\ run + 1 # 0
      BY <1>0, <2>1 DEF FlagTypes
    <3> QED
      BY <1>0, <2>1, <3>1, <3>2 DEF FlagTypes
  <2>6. FlagRight'
    <3>1. test_failed' <=> run' \in broken'
      BY <2>1, <2>4
    <3>2. broken \subseteq {run + 1} <=> broken = {}
      BY <2>4
    <3> QED
      BY <1>0, <2>1, <3>1, <3>2 DEF FlagRight
  <2> QED
    BY <1>0, <2>1, <2>2, <2>3, <2>5, <2>6 DEF TestInv, ExitFlushed, ExitTells, FlagTypes
<1>3. CASE kod_puts
  <2>1. PICK x \in InOrderLines : x = <<"print", run>> /\ x[1] = "print"
    BY <1>0, <1>x DEF Kinds
  <2>2. /\ ToStdout(x) /\ step = "test"
        /\ UNCHANGED <<tests, run, step, test_failed, test_total, test_failures, broken, code>>
    BY <1>3, <2>1 DEF kod_puts
  <2>3. said' = Append(said, x)
    BY <2>2 DEF ToStdout
  <2>4. Ordered'
    BY <1>0, <2>2, StdoutKeeps
  <2>5. VerdictPlaces' /\ VerdictRight' /\ TotalRight'
    <3>1. x[1] \notin {"FAIL", "ok"}
      BY <2>1
    <3>2. run' = run /\ (step' = "test" => step = "test") /\ UNCHANGED <<test_total, test_failures>>
      BY <2>2
    <3>3. broken' = broken
      BY <2>2
    <3> QED
      BY <1>0, <2>3, <3>1, <3>2, <3>3, PlainLine
  <2>6. FlagTypes' /\ FlagRight'
    BY <1>0, <2>2 DEF FlagTypes, FlagRight
  <2> QED
    BY <1>0, <2>2, <2>4, <2>5, <2>6 DEF TestInv, ExitFlushed, ExitTells, FlagTypes
<1>4. CASE kod_eprint
  <2>1. PICK x \in AllLines : x = <<"eprint", run>> /\ x[1] = "eprint"
    <3>1. "eprint" \in Kinds \cup {"eprint"}
      OBVIOUS
    <3>2. <<"eprint", run>> \in AllLines
      BY <1>0, <3>1 DEF AllLines
    <3> QED
      BY <3>2
  <2>2. /\ log' = Append(log, x) /\ step = "test"
        /\ UNCHANGED <<tests, run, step, stdout, said, test_failed, test_total, test_failures, broken, code>>
    BY <1>4, <2>1 DEF kod_eprint
  <2>3. Ordered'
    BY <1>0, <2>1, <2>2, AsideKeeps
  <2>4. VerdictPlaces' /\ VerdictRight' /\ TotalRight'
    BY <1>0, <2>2 DEF VerdictPlaces, VerdictRight, TotalRight, Passed
  <2>5. FlagTypes' /\ FlagRight'
    BY <1>0, <2>2 DEF FlagTypes, FlagRight
  <2> QED
    BY <1>0, <2>2, <2>3, <2>4, <2>5 DEF TestInv, ExitFlushed, ExitTells, FlagTypes
<1>5. CASE kod_test_fail
  <2>1. PICK x \in InOrderLines : x = <<"detail", run>> /\ x[1] = "detail"
    BY <1>0, <1>x DEF Kinds
  <2>2. /\ said' = Append(said, x) /\ stdout' = <<>> /\ log' = log \o stdout \o <<x>>
        /\ step = "test" /\ test_failed' = TRUE /\ broken' = broken \cup {run}
        /\ UNCHANGED <<tests, run, step, test_total, test_failures, code>>
    BY <1>5, <2>1 DEF kod_test_fail, ToStderrInOrder
  <2>3. Ordered'
    BY <1>0, <2>2, FlushedKeeps
  <2>4. VerdictPlaces' /\ VerdictRight' /\ TotalRight'
    BY <1>0, <2>1, <2>2, PlainLine
  <2>5. FlagTypes' /\ FlagRight'
    BY <1>0, <2>2 DEF FlagTypes, FlagRight
  <2> QED
    BY <1>0, <2>2, <2>3, <2>4, <2>5 DEF TestInv, ExitFlushed, ExitTells, FlagTypes
<1>6. CASE kod_panic
  <2>1. PICK x \in InOrderLines : x = <<"panic", run>> /\ x[1] = "panic"
    BY <1>0, <1>x DEF Kinds
  <2>2. /\ said' = Append(said, x) /\ stdout' = <<>> /\ log' = log \o stdout \o <<x>>
        /\ step = "test" /\ step' = "exited" /\ code' = 1 /\ broken' = broken \cup {run}
        /\ UNCHANGED <<tests, run, test_failed, test_total, test_failures>>
    BY <1>6, <2>1 DEF kod_panic, ToStderrInOrder, Exit
  <2>3. Ordered'
    BY <1>0, <2>2, FlushedKeeps
  <2>4. VerdictPlaces' /\ VerdictRight' /\ TotalRight'
    BY <1>0, <2>1, <2>2, PlainLine
  <2>5. FlagTypes' /\ FlagRight'
    BY <1>0, <2>2 DEF FlagTypes, FlagRight
  <2>6. said'[Len(said')] = x
    BY <1>0, <2>2, AppendIs
  <2>7. ExitTells'
    BY <2>1, <2>2, <2>6 DEF ExitTells
  <2> QED
    BY <2>2, <2>3, <2>4, <2>5, <2>7 DEF TestInv, ExitFlushed
<1>7. CASE kod_test_report
  <2>1. PICK k : k = IF test_failed THEN "FAIL" ELSE "ok"
    OBVIOUS
  <2>2. PICK x \in InOrderLines : x = <<k, run>>
    <3>1. k \in Kinds
      BY <2>1 DEF Kinds
    <3> QED
      BY <1>0, <1>x, <3>1
  <2>3. /\ said' = Append(said, x) /\ stdout' = <<>> /\ log' = log \o stdout \o <<x>>
        /\ step = "test" /\ UNCHANGED <<tests, run, test_failed, broken, code>>
        /\ test_total' = test_total + 1
        /\ test_failures' = test_failures + (IF test_failed THEN 1 ELSE 0)
    BY <1>7, <2>1, <2>2 DEF kod_test_report, ToStdoutFlushed
  <2>4. step' \in {"main", "module"} /\ (step' = "module" => run < tests)
    BY <1>7 DEF kod_test_report
  <2>5. Ordered'
    BY <1>0, <2>3, FlushedKeeps
  <2>6. VerdictPlaces' /\ VerdictRight' /\ TotalRight'
    BY <1>0, <2>1, <2>2, <2>3, <2>4, VerdictLine
  <2>7. FlagTypes' /\ FlagRight'
    <3>1. CASE test_failed
      <4>1. run \in broken /\ test_failures' = test_failures + 1
        BY <1>0, <2>3, <3>1 DEF FlagRight
      <4> QED
        BY <1>0, <2>3, <2>4, <4>1 DEF FlagTypes, FlagRight
    <3>2. CASE ~test_failed
      <4>1. run \notin broken /\ test_failures' = test_failures
        BY <1>0, <2>3, <3>2 DEF FlagRight, FlagTypes
      <4> QED
        BY <1>0, <2>3, <2>4, <4>1 DEF FlagTypes, FlagRight
    <3> QED
      BY <3>1, <3>2
  <2> QED
    BY <1>0, <2>3, <2>5, <2>6, <2>7 DEF TestInv, ExitFlushed, ExitTells, FlagTypes
<1>8. CASE kod_test_summary
  <2>1. test_total - test_failures = Cardinality(Passed(said)) /\ Cardinality(Passed(said)) \in Nat
    <3>1. Cardinality(Passed(said)) \in Nat
      BY <1>0, <1>x, PassedGrows DEF Kinds
    <3> QED
      BY <1>0, <3>1 DEF TotalRight, FlagTypes
  <2>2. PICK x \in InOrderLines :
           x = <<"summary", test_total - test_failures>> /\ x[1] = "summary" /\ x[2] = Cardinality(Passed(said))
    BY <1>x, <2>1 DEF Kinds
  <2>3. /\ said' = Append(said, x) /\ stdout' = <<>> /\ log' = log \o stdout \o <<x>>
        /\ step = "main" /\ step' = "exited" /\ run = tests
        /\ code' = (IF test_failures > 0 THEN 1 ELSE 0)
        /\ UNCHANGED <<tests, run, test_failed, test_total, test_failures, broken>>
    BY <1>8, <2>2 DEF kod_test_summary, ToStdoutFlushed, Exit, SummaryStatus
  <2>4. Ordered'
    BY <1>0, <2>3, FlushedKeeps
  <2>5. VerdictPlaces' /\ VerdictRight' /\ TotalRight'
    <3>1. x[1] \notin {"FAIL", "ok"}
      BY <2>2
    <3>2. run' = run /\ (step' = "test" => step = "test") /\ UNCHANGED <<test_total, test_failures>>
      BY <2>3
    <3>3. broken' = broken
      BY <2>3
    <3> QED
      BY <1>0, <2>3, <3>1, <3>2, <3>3, PlainLine
  <2>6. FlagTypes' /\ FlagRight'
    BY <1>0, <2>3 DEF FlagTypes, FlagRight
  <2>7. said'[Len(said')] = x
    BY <1>0, <2>3, AppendIs
  <2>8. Cardinality(Passed(said))' = Cardinality(Passed(said))
    <3>1. Cardinality(Passed(Append(said, x))) = Cardinality(Passed(said))
      BY <1>0, <2>2, PassedGrows
    <3> QED
      BY <2>3, <3>1 DEF Passed
  <2>9. ExitTells'
    <3>1. code' = 0 <=> run' = tests' /\ broken' = {}
      BY <1>0, <2>3 DEF FlagRight, FlagTypes
    <3> QED
      BY <2>2, <2>7, <2>8, <3>1 DEF ExitTells, Passed
  <2> QED
    BY <2>3, <2>4, <2>5, <2>6, <2>9 DEF TestInv, ExitFlushed
<1>9. CASE UNCHANGED testVars
  <2>1. UNCHANGED <<tests, run, step, stdout, log, said, test_failed, test_total, test_failures,
                    broken, code>>
    BY <1>9 DEF testVars
  <2>2. Ordered'
    BY <1>0, <2>1 DEF Ordered, StreamTypes, Accounted, Place
  <2>3. FlagTypes'
    BY <1>0, <2>1 DEF FlagTypes
  <2>4. FlagRight'
    BY <1>0, <2>1 DEF FlagRight
  <2>5. VerdictPlaces' /\ VerdictRight' /\ TotalRight'
    BY <1>0, <2>1 DEF VerdictPlaces, VerdictRight, TotalRight, Passed
  <2>6. ExitFlushed' /\ ExitTells'
    BY <1>0, <2>1 DEF ExitFlushed, ExitTells
  <2> QED
    BY <2>2, <2>3, <2>4, <2>5, <2>6 DEF TestInv
<1> QED
  BY <1>1, <1>2, <1>3, <1>4, <1>5, <1>6, <1>7, <1>8, <1>9 DEF TestNext

\* The invariant of a test program.
LEMMA TestAlways == TestSpec => []TestInv
<1>1. TestInv /\ [TestNext]_testVars => TestInv'
  BY TestStep
<1> QED
  BY <1>1, TestStarts, PTL DEF TestSpec

\* LogKeepsOrder: whatever the size of stdio's buffer and wherever it fills, the
\* lines of a test program (print, kod_test_fail, kod_panic, kod_test_report and the
\* summary) come out in the order they were written, and all of them.
THEOREM LogKeepsOrder == TestSpec => []LogInOrder
<1>1. TestInv => LogInOrder
  BY DEF TestInv, Ordered, ExitFlushed, LogInOrder
<1> QED
  BY <1>1, TestAlways, PTL

\* VerdictsAreRight: for any number of tests, each one's line, the summary's count
\* and the exit status say what the assertions did.
THEOREM VerdictsAreRight == TestSpec => []VerdictsTell
<1>1. TestInv => VerdictsTell
  BY DEF TestInv, VerdictsTell
<1> QED
  BY <1>1, TestAlways, PTL

-----------------------------------------------------------------------------
(* The profiler's walk.                                                      *)

\* A set of numbers that is not empty has a least member.
LEMMA LeastMember ==
  ASSUME NEW S, S \subseteq Nat, S # {}
  PROVE  \E d \in S : \A e \in S : d <= e
<1>1. PICK d \in S : \A e \in S : ~(<<e, d>> \in OpToRel(<, Nat))
  BY NatLessThanWellFounded, WFMin
<1>2. ASSUME NEW e \in S PROVE ~(e < d)
  BY <1>1 DEF OpToRel
<1> QED
  BY <1>2

\* The walks with this much room, given those with room for one less.
Walks(prev, room) ==
  [f \in 0..MaxDepth |->
     IF room = 0 \/ f = 0 \/ lr_of(f) = 0 THEN <<>>
     ELSE <<lr_of(f)>> \o
          (IF next_of(f) = 0 \/ next_of(f) <= f THEN <<>> ELSE prev[next_of(f)])]

\* Without room it makes no difference.
LEMMA NoRoom ==
  ASSUME NEW p, NEW q
  PROVE  Walks(p, 0) = Walks(q, 0)
  BY DEF Walks

\* There is a function with the equation `walk` is defined by.
LEMMA WalkExists ==
  ASSUME NEW n \in Nat
  PROVE  \E g : g = [room \in 0..n |-> Walks(g[room - 1], room)]
<1> DEFINE Good(m) == \E g : g = [room \in 0..m |-> Walks(g[room - 1], room)]
           Bad == {m \in Nat : ~Good(m)}
<1>1. SUFFICES ASSUME Bad # {} PROVE FALSE
  OBVIOUS
<1>2. PICK m \in Bad : \A k \in Bad : m <= k
  <2>1. Bad \subseteq Nat
    OBVIOUS
  <2> HIDE DEF Bad
  <2> QED
    BY <1>1, <2>1, LeastMember
<1>3. m # 0
  <2>1. PICK w : w = Walks(<<>>, 0)
    OBVIOUS
  <2>2. PICK g : g = [room \in 0..0 |-> w]
    OBVIOUS
  <2>3. \A room \in 0..0 : room = 0 /\ w = Walks(g[room - 1], room)
    <3>1. w = Walks(g[0 - 1], 0)
      BY <2>1, NoRoom, Zenon
    <3> QED
      BY <3>1
  <2>4. g = [room \in 0..0 |-> Walks(g[room - 1], room)]
    BY <2>2, <2>3
  <2>5. Good(0)
    BY <2>4
  <2> QED
    BY <2>5
<1>4. m \in Nat /\ m - 1 \in Nat /\ ~(m <= m - 1)
  BY <1>3
<1>5. Good(m - 1)
  <2>1. m - 1 \notin Bad
    <3> HIDE DEF Bad
    <3> QED
      BY <1>2, <1>4
  <2> QED
    BY <1>4, <2>1
<1>6. PICK g : g = [room \in 0..(m - 1) |-> Walks(g[room - 1], room)]
  BY <1>5
<1>7. PICK h : h = [room \in 0..m |-> IF room = m THEN Walks(g[m - 1], m) ELSE g[room]]
  OBVIOUS
<1>8. ASSUME NEW room \in 0..m PROVE h[room] = Walks(h[room - 1], room)
  <2>1. CASE room = m
    <3>1. h[m] = Walks(g[m - 1], m) /\ h[m - 1] = g[m - 1]
      BY <1>4, <1>7
    <3> QED
      BY <2>1, <3>1
  <2>2. CASE room # m /\ room # 0
    <3>1. room \in 0..(m - 1) /\ room - 1 \in 0..(m - 1) /\ room - 1 \in 0..m /\ room - 1 # m
      BY <1>4, <2>2
    <3>2. h[room] = g[room] /\ h[room - 1] = g[room - 1]
      BY <1>7, <2>2, <3>1
    <3>3. g[room] = Walks(g[room - 1], room)
      BY <1>6, <3>1
    <3> QED
      BY <3>2, <3>3
  <2>3. CASE room # m /\ room = 0
    <3>1. h[0] = g[0] /\ g[0] = Walks(g[0 - 1], 0)
      BY <1>4, <1>6, <1>7, <2>3
    <3>2. Walks(g[0 - 1], 0) = Walks(h[0 - 1], 0)
      BY NoRoom, Zenon
    <3> QED
      BY <2>3, <3>1, <3>2
  <2> QED
    BY <2>1, <2>2, <2>3
<1>9. h = [room \in 0..m |-> Walks(h[room - 1], room)]
  BY <1>7, <1>8
<1>10. Good(m)
  BY <1>9
<1> QED
  BY <1>10

\* One frame of the walk.
LEMMA WalkStep ==
  ASSUME NEW room \in 0..MAX_FRAMES
  PROVE  walk[room] = Walks(walk[room - 1], room)
<1>1. \E g : g = [r \in 0..MAX_FRAMES |-> Walks(g[r - 1], r)]
  BY WalkExists, ProfConstants
<1>2. walk = CHOOSE g : g = [r \in 0..MAX_FRAMES |-> Walks(g[r - 1], r)]
  BY DEF walk, Walks
<1>3. walk = [r \in 0..MAX_FRAMES |-> Walks(walk[r - 1], r)]
  BY <1>1, <1>2
<1> QED
  BY <1>3

\* t holds the return addresses from depth d outward, as many as there is room for
\* and before one that is 0.
Walked(t, d, room) ==
  /\ t \in Seq(Nat) /\ Len(t) <= room /\ Len(t) <= d
  /\ \A k \in 1..Len(t) : t[k] = stack[d + 1 - k] /\ t[k] # 0
  /\ Len(t) = room \/ Len(t) = d \/ stack[d - Len(t)] = 0

\* A frame more, on the inside.
LEMMA WalkedMore ==
  ASSUME stack \in Seq(Nat), NEW d \in Nat, 1 < d, d <= Len(stack), stack[d] # 0,
         NEW room \in Nat, room # 0, NEW u, Walked(u, d - 1, room - 1)
  PROVE  Walked(<<stack[d]>> \o u, d, room)
<1>1. PICK n \in Nat : n = Len(u) /\ n <= room - 1 /\ n <= d - 1 /\ u \in Seq(Nat)
  BY DEF Walked
<1>2. PICK a \in Nat : a = stack[d]
  OBVIOUS
<1>3. PICK t : t = <<a>> \o u
  OBVIOUS
<1>4. t \in Seq(Nat) /\ Len(t) = n + 1 /\ t[1] = a /\ \A k \in 1..n : t[k + 1] = u[k]
  BY <1>1, <1>2, <1>3
<1>5. ASSUME NEW k \in 1..(n + 1) PROVE t[k] = stack[d + 1 - k] /\ t[k] # 0
  <2>1. CASE k = 1
    <3>1. d + 1 - k = d
      BY <2>1
    <3> QED
      BY <1>2, <1>4, <2>1, <3>1
  <2>2. CASE k # 1
    <3>1. k - 1 \in 1..n /\ (k - 1) + 1 = k /\ (d - 1) + 1 - (k - 1) = d + 1 - k
      BY <2>2
    <3>2. u[k - 1] = stack[(d - 1) + 1 - (k - 1)] /\ u[k - 1] # 0
      BY <1>1, <3>1 DEF Walked
    <3>3. t[k] = u[k - 1]
      BY <1>4, <3>1
    <3> QED
      BY <3>1, <3>2, <3>3
  <2> QED
    BY <2>1, <2>2
<1>6. n + 1 = room \/ n + 1 = d \/ stack[d - (n + 1)] = 0
  <2>1. (d - 1) - n = d - (n + 1)
    OBVIOUS
  <2>2. n = room - 1 \/ n = d - 1 \/ stack[(d - 1) - n] = 0
    BY <1>1 DEF Walked
  <2> QED
    BY <2>1, <2>2
<1>7. Walked(t, d, room)
  BY <1>1, <1>4, <1>5, <1>6 DEF Walked
<1> QED
  BY <1>2, <1>3, <1>7

\* The walk from a frame.
LEMMA WalkIs ==
  ASSUME stack \in Seq(Nat), Len(stack) <= MaxDepth, NEW most \in 0..MAX_FRAMES,
         NEW e \in 1..Len(stack)
  PROVE  Walked(walk[most][MaxDepth + 1 - e], e, most)
<1> DEFINE Good(room) == \A d \in 1..Len(stack) : Walked(walk[room][MaxDepth + 1 - d], d, room)
           Bad == {room \in 0..MAX_FRAMES : ~Good(room)}
<1>0. MaxDepth \in Nat /\ MAX_FRAMES \in Nat
  BY ProfConstants
<1>1. SUFFICES ASSUME Bad # {} PROVE FALSE
  OBVIOUS
<1>2. PICK room \in Bad : \A k \in Bad : room <= k
  <2>1. Bad \subseteq Nat
    BY <1>0
  <2> HIDE DEF Bad
  <2> QED
    BY <1>1, <2>1, LeastMember
<1>3. room \in 0..MAX_FRAMES
  OBVIOUS
<1>4. room # 0 => room - 1 \in 0..MAX_FRAMES /\ Good(room - 1)
  <2> SUFFICES ASSUME room # 0 PROVE room - 1 \in 0..MAX_FRAMES /\ Good(room - 1)
    OBVIOUS
  <2>1. room - 1 \in 0..MAX_FRAMES /\ ~(room <= room - 1)
    BY <1>0, <1>3
  <2>2. room - 1 \notin Bad
    <3> HIDE DEF Bad
    <3> QED
      BY <1>2, <2>1
  <2> QED
    BY <2>1, <2>2
<1>5. ASSUME NEW d \in 1..Len(stack) PROVE Walked(walk[room][MaxDepth + 1 - d], d, room)
  <2>1. PICK f \in 1..MaxDepth : f = MaxDepth + 1 - d
    BY <1>0
  <2>2. Depth(f) = d /\ lr_of(f) = stack[d] /\ next_of(f) = (IF d = 1 THEN 0 ELSE f + 1)
    <3>1. MaxDepth + 1 - f = d
      BY <1>0, <2>1
    <3> QED
      BY <3>1 DEF Depth, lr_of, next_of
  <2>3. PICK t : t = walk[room][f]
    OBVIOUS
  <2>4. t = IF room = 0 \/ f = 0 \/ stack[d] = 0 THEN <<>>
            ELSE <<stack[d]>> \o
                 (IF next_of(f) = 0 \/ next_of(f) <= f THEN <<>> ELSE walk[room - 1][next_of(f)])
    <3>1. walk[room] = Walks(walk[room - 1], room)
      BY <1>3, WalkStep
    <3>2. f \in 0..MaxDepth
      BY <1>0
    <3> QED
      BY <2>2, <2>3, <3>1, <3>2 DEF Walks
  <2>5. Walked(t, d, room)
    <3>1. CASE room = 0 \/ stack[d] = 0
      <4>1. t = <<>> /\ Len(t) = 0 /\ t \in Seq(Nat) /\ d - 0 = d /\ d \in Nat
        BY <2>4, <3>1
      <4> QED
        BY <1>0, <1>3, <3>1, <4>1 DEF Walked
    <3>2. CASE room # 0 /\ stack[d] # 0 /\ d = 1
      <4>1. PICK a \in Nat : a = stack[d] /\ a # 0
        BY <3>2
      <4>2. t = <<a>> \o <<>>
        BY <2>1, <2>2, <2>4, <3>2, <4>1
      <4>3. t = <<a>>
        BY <4>2
      <4>4. t \in Seq(Nat) /\ Len(t) = 1 /\ t[1] = a
        BY <4>1, <4>3
      <4>5. \A k \in 1..1 : k = 1 /\ d + 1 - k = 1
        BY <3>2
      <4> QED
        BY <1>0, <1>3, <3>2, <4>1, <4>4, <4>5 DEF Walked
    <3>3. CASE room # 0 /\ stack[d] # 0 /\ d # 1
      <4>1. next_of(f) = f + 1 /\ f + 1 # 0 /\ ~(f + 1 <= f) /\ f + 1 = MaxDepth + 1 - (d - 1)
            /\ d - 1 \in 1..Len(stack) /\ f # 0
        BY <1>0, <2>1, <2>2, <3>3
      <4>2. PICK u : u = walk[room - 1][MaxDepth + 1 - (d - 1)]
        OBVIOUS
      <4>3. t = <<stack[d]>> \o u
        BY <2>4, <3>3, <4>1, <4>2
      <4>4. Walked(u, d - 1, room - 1)
        BY <1>4, <3>3, <4>1, <4>2
      <4>5. Walked(<<stack[d]>> \o u, d, room)
        <5>1. d \in Nat /\ 1 < d /\ d <= Len(stack) /\ room \in Nat
          BY <1>0, <1>3, <3>3
        <5> QED
          BY <3>3, <4>4, <5>1, WalkedMore
      <4> QED
        BY <4>3, <4>5
    <3> QED
      BY <3>1, <3>2, <3>3
  <2> QED
    BY <2>1, <2>3, <2>5
<1> QED
  BY <1>5

-----------------------------------------------------------------------------
(* Samples and reports.                                                      *)

\* What the handler writes is the stack it has interrupted.
LEMMA HandlerRecords ==
  ASSUME stack \in Seq(Nat), Len(stack) <= MaxDepth, counter \in Nat,
         NEW row, row = <<counter>> \o walk[RowRoom][fp_register]
  PROVE  row \in Seq(Nat) /\ Recorded(row)
<1>0. MaxDepth \in Nat /\ MAX_FRAMES \in Nat \ {0} /\ RowRoom \in 0..MAX_FRAMES
      /\ RowRoom = MAX_FRAMES - 1
  BY ProfConstants DEF RowRoom
<1>1. PICK n \in Nat : n = Len(stack)
  OBVIOUS
<1>2. PICK t : t = walk[RowRoom][fp_register]
  OBVIOUS
<1>3. Walked(t, n, MAX_FRAMES - 1)
  <2>1. CASE stack = <<>>
    <3>1. fp_register = 0 /\ n = 0 /\ 0 \in 0..MaxDepth
      BY <1>0, <1>1, <2>1 DEF fp_register
    <3>2. walk[RowRoom] = Walks(walk[RowRoom - 1], RowRoom)
      BY <1>0, WalkStep
    <3>3. t = <<>>
      BY <1>2, <3>1, <3>2 DEF Walks
    <3>4. t \in Seq(Nat) /\ Len(t) = 0
      BY <3>3
    <3> QED
      BY <1>0, <3>1, <3>4 DEF Walked
  <2>2. CASE stack # <<>>
    <3>1. fp_register = MaxDepth + 1 - n /\ n \in 1..Len(stack)
      BY <1>1, <2>2 DEF fp_register
    <3> QED
      BY <1>0, <1>2, <3>1, WalkIs
  <2> QED
    BY <2>1, <2>2
<1>4. PICK m \in Nat : m = Len(t) /\ m <= MAX_FRAMES - 1 /\ m <= n /\ t \in Seq(Nat)
  BY <1>3 DEF Walked
<1>5. /\ row \in Seq(Nat) /\ Len(row) = m + 1 /\ row[1] = counter
      /\ \A k \in 1..m : row[k + 1] = t[k]
  BY <1>2, <1>4
<1>6. ASSUME NEW k \in 2..(m + 1) PROVE row[k] = stack[n + 2 - k] /\ row[k] # 0
  <2>1. k - 1 \in 1..m /\ (k - 1) + 1 = k /\ n + 1 - (k - 1) = n + 2 - k
    OBVIOUS
  <2>2. t[k - 1] = stack[n + 1 - (k - 1)] /\ t[k - 1] # 0
    BY <1>3, <1>4, <2>1 DEF Walked
  <2> QED
    BY <1>5, <2>1, <2>2
<1>7. m + 1 = MAX_FRAMES \/ m + 1 = n + 1 \/ stack[n + 1 - (m + 1)] = 0
  <2>1. n + 1 - (m + 1) = n - m
    OBVIOUS
  <2>2. m = MAX_FRAMES - 1 \/ m = n \/ stack[n - m] = 0
    BY <1>3, <1>4 DEF Walked
  <2> QED
    BY <1>0, <2>1, <2>2
<1>8. m + 1 \in 1..(n + 1) /\ m + 1 <= MAX_FRAMES
  BY <1>0, <1>4
<1> QED
  BY <1>1, <1>5, <1>6, <1>7, <1>8 DEF Recorded

ProfTypes ==
  /\ counter \in Nat /\ stack \in Seq(Nat) /\ Len(stack) <= MaxDepth
  /\ prof_rows \in [1..MAX_SAMPLES -> Seq(Nat)]
  /\ total \in Nat /\ tally \in Seq(Nat)

ProfInv == ProfTypes /\ RowsFit /\ ReportAddsUp

\* What a step does to the samples there are, and to a new one.
Keeps ==
  \/ in_call' = "start"
  \/ prof_count' >= prof_count /\ \A i \in 1..prof_count : prof_rows'[i] = prof_rows[i]
Adds == prof_count' = prof_count + 1 => Recorded(prof_rows'[prof_count'])

\* Nothing sampled yet.
LEMMA ProfStarts == ProfInit => ProfInv
<1> SUFFICES ASSUME ProfInit PROVE ProfInv
  OBVIOUS
<1>1. <<>> \in Seq(Nat) /\ Len(<<>>) = 0
  OBVIOUS
<1>2. ProfTypes
  BY <1>1, ProfConstants DEF ProfInit, ProfTypes
<1>3. RowsFit
  BY ProfConstants DEF ProfInit, RowsFit
<1> QED
  BY <1>2, <1>3 DEF ProfInv, ProfInit, ReportAddsUp

\* The samples stay as they are.
LEMMA SamplesStay ==
  ASSUME ProfInv, UNCHANGED <<prof_rows, prof_count>>
  PROVE  RowsFit' /\ Keeps /\ Adds
<1>1. prof_count \in Nat
  BY ProfConstants DEF ProfInv, RowsFit
<1> QED
  BY <1>1 DEF ProfInv, RowsFit, Keeps, Adds

\* The handler, whatever it interrupts.
LEMMA HandlerKeeps ==
  ASSUME ProfInv, kod_prof_handler
  PROVE  ProfInv' /\ Keeps /\ Adds
<1>0. ProfTypes /\ RowsFit /\ ReportAddsUp /\ UNCHANGED <<counter, stack, in_call, total, tally>>
  BY DEF ProfInv, kod_prof_handler
<1>1. prof_count \in Nat /\ prof_count <= MAX_SAMPLES /\ MAX_SAMPLES \in Nat /\ MAX_FRAMES \in Nat
  BY <1>0, ProfConstants DEF RowsFit
<1>2. CASE prof_count = MAX_SAMPLES
  <2>1. UNCHANGED <<prof_rows, prof_count>>
    BY <1>1, <1>2 DEF kod_prof_handler, Slot
  <2>2. RowsFit' /\ Keeps /\ Adds
    BY <2>1, SamplesStay
  <2> QED
    BY <1>0, <2>1, <2>2 DEF ProfInv, ProfTypes, ReportAddsUp
<1>3. CASE prof_count < MAX_SAMPLES
  <2>1. PICK row : row = <<counter>> \o walk[RowRoom][fp_register]
    OBVIOUS
  <2>2. PICK c : c = prof_count + 1
    OBVIOUS
  <2>3. c \in 1..MAX_SAMPLES /\ c # 0 /\ Slot = c
    BY <1>1, <1>3, <2>2 DEF Slot
  <2>4. prof_rows' = [prof_rows EXCEPT ![c] = row] /\ prof_count' = c
    BY <2>1, <2>3 DEF kod_prof_handler
  <2>5. row \in Seq(Nat) /\ Recorded(row)
    BY <1>0, <2>1, HandlerRecords DEF ProfTypes
  <2>6. Len(row) \in 1..MAX_FRAMES
    BY <1>1, <2>5 DEF Recorded
  <2>7. /\ prof_rows' \in [1..MAX_SAMPLES -> Seq(Nat)] /\ prof_rows'[c] = row
        /\ \A i \in 1..prof_count : i \in 1..MAX_SAMPLES /\ prof_rows'[i] = prof_rows[i]
    BY <1>0, <1>1, <2>2, <2>3, <2>4, <2>5 DEF ProfTypes
  <2>8. ProfTypes'
    BY <1>0, <2>7 DEF ProfTypes
  <2>9. RowsFit'
    <3>1. \A i \in 1..c : i = c \/ i \in 1..prof_count
      BY <1>1, <2>2
    <3>2. \A i \in 1..c : Len(prof_rows'[i]) \in 1..MAX_FRAMES
      BY <1>0, <2>6, <2>7, <3>1 DEF RowsFit
    <3>3. c \in 0..MAX_SAMPLES /\ DOMAIN prof_rows' = 1..MAX_SAMPLES
      BY <2>3, <2>7
    <3> QED
      BY <2>4, <3>2, <3>3 DEF RowsFit
  <2>10. ReportAddsUp'
    <3> SUFFICES ASSUME in_call = "report"
                 PROVE  /\ Len(tally) <= total /\ total <= c
                        /\ \A i \in DOMAIN tally : tally[i] = prof_rows'[i][1]
      BY <1>0, <2>4 DEF ReportAddsUp
    <3>1. /\ Len(tally) <= total /\ total <= prof_count
          /\ \A i \in DOMAIN tally : tally[i] = prof_rows[i][1]
      BY <1>0 DEF ReportAddsUp
    <3>2. \A i \in DOMAIN tally : i \in 1..prof_count
      BY <1>0, <1>1, <3>1 DEF ProfTypes
    <3>3. total <= c
      BY <1>0, <1>1, <2>2, <3>1 DEF ProfTypes
    <3> QED
      BY <2>7, <3>1, <3>2, <3>3
  <2>11. Keeps
    BY <1>1, <2>2, <2>4, <2>7 DEF Keeps
  <2>12. Adds
    BY <2>4, <2>5, <2>7 DEF Adds
  <2> QED
    BY <2>8, <2>9, <2>10, <2>11, <2>12 DEF ProfInv
<1> QED
  BY <1>1, <1>2, <1>3

\* Every step keeps the invariant and the samples.
LEMMA ProfStep ==
  ASSUME ProfInv, [ProfNext]_profVars
  PROVE  ProfInv' /\ Keeps /\ Adds
<1>0. ProfTypes /\ RowsFit /\ ReportAddsUp /\ MaxDepth \in Nat /\ MAX_SAMPLES \in Nat
      /\ MAX_FRAMES \in Nat /\ Addr \subseteq Nat /\ prof_count \in Nat
  BY ProfConstants DEF ProfInv, RowsFit
<1>1. CASE Call
  <2>1. /\ in_call = "none" /\ counter' \in Addr /\ Len(stack) < MaxDepth
        /\ UNCHANGED <<prof_rows, prof_count, in_call, total, tally>>
    BY <1>1 DEF Call
  <2>2. PICK lr \in Nat : stack' = Append(stack, lr)
    BY <1>0, <1>1 DEF Call
  <2>3. stack' \in Seq(Nat) /\ Len(stack') <= MaxDepth
    <3>1. stack' \in Seq(Nat) /\ Len(stack') = Len(stack) + 1 /\ Len(stack) \in Nat
      <4>1. stack \in Seq(Nat)
        BY <1>0 DEF ProfTypes
      <4> QED
        BY <2>2, <4>1, AppendIs
    <3> QED
      BY <1>0, <2>1, <3>1
  <2>4. RowsFit' /\ Keeps /\ Adds
    BY <2>1, SamplesStay
  <2> QED
    BY <1>0, <2>1, <2>3, <2>4 DEF ProfInv, ProfTypes, ReportAddsUp
<1>2. CASE Return
  <2>1. /\ in_call = "none" /\ stack # <<>> /\ counter' = stack[Len(stack)]
        /\ stack' = SubSeq(stack, 1, Len(stack) - 1)
        /\ UNCHANGED <<prof_rows, prof_count, in_call, total, tally>>
    BY <1>2 DEF Return
  <2>2. stack' \in Seq(Nat) /\ Len(stack') <= MaxDepth /\ counter' \in Nat
    BY <1>0, <2>1 DEF ProfTypes
  <2>3. RowsFit' /\ Keeps /\ Adds
    BY <2>1, SamplesStay
  <2> QED
    BY <1>0, <2>1, <2>2, <2>3 DEF ProfInv, ProfTypes, ReportAddsUp
<1>3. CASE Tick \/ _profiling_stop \/ UNCHANGED profVars
  <2>1. UNCHANGED <<counter, stack, prof_rows, prof_count, in_call, total, tally>>
    BY <1>3 DEF Tick, _profiling_stop, profVars
  <2>2. RowsFit' /\ Keeps /\ Adds
    BY <2>1, SamplesStay
  <2> QED
    BY <1>0, <2>1, <2>2 DEF ProfInv, ProfTypes, ReportAddsUp
<1>4. CASE StartResets
  <2>1. /\ in_call' = "start" /\ prof_count' = 0
        /\ UNCHANGED <<counter, stack, prof_rows, total, tally>>
    BY <1>4 DEF StartResets
  <2>2. RowsFit'
    BY <1>0, <2>1 DEF RowsFit
  <2>3. Keeps /\ Adds
    BY <1>0, <2>1 DEF Keeps, Adds
  <2> QED
    BY <1>0, <2>1, <2>2, <2>3 DEF ProfInv, ProfTypes, ReportAddsUp
<1>5. CASE StartArms
  <2>1. in_call' = "none" /\ UNCHANGED <<counter, stack, prof_rows, prof_count, total, tally>>
    BY <1>5 DEF StartArms
  <2>2. RowsFit' /\ Keeps /\ Adds
    BY <2>1, SamplesStay
  <2> QED
    BY <1>0, <2>1, <2>2 DEF ProfInv, ProfTypes, ReportAddsUp
<1>6. CASE ReportStarts
  <2>1. /\ total' = prof_count /\ tally' = <<>>
        /\ UNCHANGED <<counter, stack, prof_rows, prof_count>>
    BY <1>6 DEF ReportStarts
  <2>2. tally' \in Seq(Nat) /\ Len(tally') = 0 /\ DOMAIN tally' = {}
    BY <2>1
  <2>3. RowsFit' /\ Keeps /\ Adds
    BY <2>1, SamplesStay
  <2>4. ProfTypes'
    BY <1>0, <2>1, <2>2 DEF ProfTypes
  <2>5. ReportAddsUp'
    BY <1>0, <2>1, <2>2 DEF ReportAddsUp
  <2> QED
    BY <2>3, <2>4, <2>5 DEF ProfInv
<1>7. CASE ReportRound
  <2>1. /\ in_call = "report" /\ Len(tally) < total
        /\ UNCHANGED <<counter, stack, prof_rows, prof_count, in_call, total>>
    BY <1>7 DEF ReportRound, ReportEnd
  <2>2. PICK n \in Nat : n = Len(tally) /\ DOMAIN tally = 1..n
    BY <1>0 DEF ProfTypes
  <2>3. total <= prof_count /\ total \in Nat /\ \A i \in 1..n : tally[i] = prof_rows[i][1]
    BY <1>0, <2>1, <2>2 DEF ReportAddsUp, ProfTypes
  <2>4. n + 1 \in 1..prof_count /\ n + 1 <= total
    BY <1>0, <2>1, <2>2, <2>3
  <2>5. prof_rows[n + 1] \in Seq(Nat) /\ 1 \in 1..Len(prof_rows[n + 1])
    <3>1. n + 1 \in 1..MAX_SAMPLES /\ Len(prof_rows[n + 1]) \in 1..MAX_FRAMES
      BY <1>0, <2>4 DEF RowsFit
    <3>2. prof_rows[n + 1] \in Seq(Nat)
      BY <1>0, <3>1 DEF ProfTypes
    <3> QED
      BY <1>0, <3>1, <3>2
  <2>6. PICK a \in Nat : a = prof_rows[n + 1][1]
    BY <2>5
  <2>7. _profiling_sample_frame(n + 1, 1) = a
    <3>1. ~(n + 1 > prof_count) /\ ~(1 > Len(prof_rows[n + 1]))
      BY <1>0, <2>4, <2>5
    <3> QED
      BY <2>6, <3>1 DEF _profiling_sample_frame
  <2>8. tally' = Append(tally, a)
    BY <1>7, <2>2, <2>7 DEF ReportRound
  <2>9. /\ tally' \in Seq(Nat) /\ Len(tally') = n + 1 /\ DOMAIN tally' = 1..(n + 1)
        /\ tally'[n + 1] = a /\ \A i \in 1..n : tally'[i] = tally[i]
    BY <1>0, <2>2, <2>8, AppendIs DEF ProfTypes
  <2>10. \A i \in 1..(n + 1) : tally'[i] = prof_rows[i][1]
    BY <2>3, <2>6, <2>9
  <2>11. RowsFit' /\ Keeps /\ Adds
    BY <2>1, SamplesStay
  <2>12. ProfTypes'
    BY <1>0, <2>1, <2>9 DEF ProfTypes
  <2>13. ReportAddsUp'
    BY <2>1, <2>3, <2>4, <2>9, <2>10 DEF ReportAddsUp
  <2> QED
    BY <2>11, <2>12, <2>13 DEF ProfInv
<1>8. CASE ReportPrints
  <2>1. /\ in_call' = "none" /\ total' = 0 /\ tally' = <<>>
        /\ UNCHANGED <<counter, stack, prof_rows, prof_count>>
    BY <1>8 DEF ReportPrints
  <2>2. RowsFit' /\ Keeps /\ Adds
    BY <2>1, SamplesStay
  <2>3. tally' \in Seq(Nat)
    BY <2>1
  <2> QED
    BY <1>0, <2>1, <2>2, <2>3 DEF ProfInv, ProfTypes, ReportAddsUp
<1>9. CASE kod_prof_handler
  BY <1>9, HandlerKeeps
<1> QED
  BY <1>1, <1>2, <1>3, <1>4, <1>5, <1>6, <1>7, <1>8, <1>9 DEF ProfNext

\* The invariant of the profiler.
LEMMA ProfAlways == ProfSpec => []ProfInv
<1>1. ProfInv /\ [ProfNext]_profVars => ProfInv'
  BY ProfStep
<1> QED
  BY <1>1, ProfStarts, PTL DEF ProfSpec

\* ReportsAddUp: whatever SIGPROF interrupts, kod_prof_handler never writes past a
\* row or past the last row, and a report taken while samples arrive counts each
\* sample it announces once; for any MAX_FRAMES, MAX_SAMPLES and depth of stack.
THEOREM ReportsAddUp == ProfSpec => []ReportRight
<1>1. ProfInv => ReportRight
  BY DEF ProfInv, ReportRight
<1> QED
  BY <1>1, ProfAlways, PTL

\* SamplesAreStacks: a sample is the stack kod_prof_handler has interrupted, cut
\* only at MAX_FRAMES or a return address of 0, and it stays until the next start.
THEOREM SamplesAreStacks == ProfSpec => SamplesRight
<1>1. ProfInv /\ [ProfNext]_profVars =>
        [ in_call' = "start"
          \/ /\ prof_count' >= prof_count
             /\ \A i \in 1..prof_count : prof_rows'[i] = prof_rows[i] ]_profVars
  BY ProfStep DEF Keeps
<1>2. ProfInv /\ [ProfNext]_profVars =>
        [ prof_count' = prof_count + 1 => Recorded(prof_rows'[prof_count']) ]_profVars
  BY ProfStep DEF Adds
<1> QED
  BY <1>1, <1>2, ProfAlways, PTL DEF ProfSpec, SamplesRight, SamplesKept, SampleIsStack

-----------------------------------------------------------------------------
(* Decompression.                                                            *)

Member == [n : Nat, how : {"whole", "cut", "bad"}]

-----------------------------------------------------------------------------
(* The output of a number of members.                                        *)

\* The sums over the first 0 to m members.
Sums(f, s, m) == f = [i \in 0..m |-> IF i = 0 THEN 0 ELSE f[i - 1] + s[i].n]

\* There are such sums.
LEMMA SumsExist ==
  ASSUME NEW s, NEW n \in Nat
  PROVE  \E f : Sums(f, s, n)
<1> DEFINE Bad == {m \in Nat : ~ \E f : Sums(f, s, m)}
<1>1. SUFFICES ASSUME Bad # {} PROVE FALSE
  OBVIOUS
<1>2. PICK m \in Bad : \A k \in Bad : m <= k
  <2>1. Bad \subseteq Nat
    OBVIOUS
  <2> HIDE DEF Bad
  <2> QED
    BY <1>1, <2>1, LeastMember
<1>3. m # 0
  <2>1. PICK g : g = [i \in 0..0 |-> 0]
    OBVIOUS
  <2>2. \A i \in 0..0 : i = 0
    OBVIOUS
  <2>3. Sums(g, s, 0)
    BY <2>1, <2>2 DEF Sums
  <2> QED
    BY <2>3
<1>4. m \in Nat /\ m - 1 \in Nat /\ ~(m <= m - 1)
  BY <1>3
<1>5. m - 1 \notin Bad
  <2> HIDE DEF Bad
  <2> QED
    BY <1>2, <1>4
<1>6. PICK g : Sums(g, s, m - 1)
  BY <1>4, <1>5
<1>7. PICK h : h = [i \in 0..m |-> IF i = m THEN g[m - 1] + s[m].n ELSE g[i]]
  OBVIOUS
<1>8. ASSUME NEW i \in 0..m PROVE h[i] = IF i = 0 THEN 0 ELSE h[i - 1] + s[i].n
  <2>1. CASE i = m
    <3>1. h[m] = g[m - 1] + s[m].n /\ h[m - 1] = g[m - 1]
      BY <1>4, <1>7
    <3> QED
      BY <1>3, <2>1, <3>1
  <2>2. CASE i # m
    <3>1. i \in 0..(m - 1) /\ h[i] = g[i]
      BY <1>4, <1>7, <2>2
    <3>2. g[i] = IF i = 0 THEN 0 ELSE g[i - 1] + s[i].n
      BY <1>6, <3>1 DEF Sums
    <3>3. i # 0 => h[i - 1] = g[i - 1]
      BY <1>4, <1>7, <3>1
    <3> QED
      BY <3>1, <3>2, <3>3
  <2> QED
    BY <2>1, <2>2
<1>9. Sums(h, s, m)
  BY <1>7, <1>8 DEF Sums
<1> QED
  BY <1>9

\* One member more adds its output.
LEMMA OutputStep ==
  ASSUME NEW s \in Seq(Member)
  PROVE  /\ Output(s, 0) = 0
         /\ \A k \in 1..Len(s) : Output(s, k) = Output(s, k - 1) + s[k].n
<1>1. PICK L \in Nat : L = Len(s)
  OBVIOUS
<1>2. PICK c : c = CHOOSE f : f = [i \in 0..L |-> IF i = 0 THEN 0 ELSE f[i - 1] + s[i].n]
  OBVIOUS
<1>3. c = [i \in 0..L |-> IF i = 0 THEN 0 ELSE c[i - 1] + s[i].n]
  BY <1>2, SumsExist DEF Sums
<1>4. \A k : Output(s, k) = c[k]
  BY <1>1, <1>2 DEF Output
<1>5. c[0] = 0
  BY <1>3
<1>6. \A k \in 1..L : c[k] = c[k - 1] + s[k].n
  BY <1>3
<1> QED
  BY <1>1, <1>4, <1>5, <1>6

\* It is a number, and more members have no less of it.
LEMMA OutputGrows ==
  ASSUME NEW s \in Seq(Member), NEW k \in 0..Len(s)
  PROVE  Output(s, k) \in Nat /\ \A j \in 0..k : Output(s, j) <= Output(s, k)
<1> DEFINE Good(m) == Output(s, m) \in Nat /\ \A j \in 0..m : Output(s, j) \in Nat /\ Output(s, j) <= Output(s, m)
           Bad == {m \in 0..Len(s) : ~Good(m)}
<1>1. SUFFICES ASSUME Bad # {} PROVE FALSE
  OBVIOUS
<1>2. PICK m \in Bad : \A e \in Bad : m <= e
  <2>1. Bad \subseteq Nat
    OBVIOUS
  <2> HIDE DEF Bad
  <2> QED
    BY <1>1, <2>1, LeastMember
<1>3. m \in 0..Len(s) /\ ~Good(m)
  OBVIOUS
<1>4. m # 0
  <2>1. \A j \in 0..0 : j = 0
    OBVIOUS
  <2>2. Good(0)
    BY <2>1, OutputStep
  <2> QED
    BY <1>3, <2>2
<1>5. m \in 1..Len(s) /\ m - 1 \in 0..Len(s) /\ ~(m <= m - 1)
  BY <1>3, <1>4
<1>6. Good(m - 1)
  <2>1. m - 1 \notin Bad
    <3> HIDE DEF Bad
    <3> QED
      BY <1>2, <1>5
  <2> QED
    BY <1>5, <2>1
<1>7. Output(s, m) = Output(s, m - 1) + s[m].n /\ s[m].n \in Nat
  <2>1. s[m] \in Member
    BY <1>5
  <2> QED
    BY <1>5, <2>1, OutputStep DEF Member
<1>8. \A j \in 0..m : j = m \/ j \in 0..(m - 1)
  BY <1>5
<1>9. Good(m)
  BY <1>6, <1>7, <1>8
<1> QED
  BY <1>3, <1>9

-----------------------------------------------------------------------------
(* One call of zlib.                                                         *)

\* n bytes of the first member are done.
After(n) == <<[Head(zs) EXCEPT !.n = @ - n]>> \o Tail(zs)

\* What a call may have done.
Does(r) ==
  \/ r.rc = "MEM_ERROR" /\ r.made = 0 /\ r.zs = zs
  \/ r.rc = "BUF_ERROR" /\ zs = <<>> /\ r.made = 0 /\ r.zs = zs
  \/ r.rc = "OK" /\ zs # <<>> /\ r.made \in 0..Head(zs).n /\ r.zs = After(r.made)
  \/ r.rc = "STREAM_END" /\ zs # <<>> /\ Head(zs).how = "whole" /\ r.made = Head(zs).n /\ r.zs = Tail(zs)
  \/ r.rc = "BUF_ERROR" /\ zs # <<>> /\ Head(zs).how = "cut" /\ Head(zs).n = 0 /\ r.made = 0
  \/ r.rc = "DATA_ERROR" /\ zs # <<>> /\ Head(zs).how = "bad" /\ r.made = Head(zs).n

\* And it has done one of these, within the room it was given.
LEMMA CallDoes ==
  ASSUME zs \in Seq(Member), NEW room \in Nat, NEW r \in inflate(room)
  PROVE  Does(r) /\ r.made \in 0..room
<1>1. CASE zs = <<>>
  BY <1>1 DEF inflate, Does
<1>2. CASE zs # <<>>
  <2>1. PICK m \in Member : m = Head(zs)
    BY <1>2
  <2>2. m.n \in Nat /\ m.how \in {"whole", "cut", "bad"}
    BY <2>1 DEF Member
  <2>3. CASE r = [made |-> 0, rc |-> "MEM_ERROR", zs |-> zs]
    BY <2>3 DEF Does
  <2>4. CASE r # [made |-> 0, rc |-> "MEM_ERROR", zs |-> zs] /\ (m.n > room \/ (m.n = room /\ m.how # "whole"))
    <3>1. r = [made |-> room, rc |-> "OK", zs |-> After(room)]
      BY <1>2, <2>1, <2>4 DEF inflate, After
    <3> QED
      BY <1>2, <2>1, <2>2, <2>4, <3>1 DEF Does
  <2>5. CASE r # [made |-> 0, rc |-> "MEM_ERROR", zs |-> zs] /\ ~(m.n > room \/ (m.n = room /\ m.how # "whole"))
    <3>0. m.n <= room
      BY <2>2, <2>5
    <3>1. CASE m.how = "whole"
      <4>1. \/ r = [made |-> m.n, rc |-> "STREAM_END", zs |-> Tail(zs)]
            \/ m.n = room /\ r = [made |-> m.n, rc |-> "OK", zs |-> After(room)]
        BY <1>2, <2>1, <2>5, <3>1 DEF inflate, After
      <4> QED
        BY <1>2, <2>1, <2>2, <3>0, <3>1, <4>1 DEF Does
    <3>2. CASE m.how = "cut"
      <4>1. r = [made |-> m.n, rc |-> IF begun /\ m.n = 0 THEN "BUF_ERROR" ELSE "OK", zs |-> After(m.n)]
        BY <1>2, <2>1, <2>5, <3>2 DEF inflate, After
      <4> QED
        BY <1>2, <2>1, <2>2, <3>0, <3>2, <4>1 DEF Does
    <3>3. CASE m.how = "bad"
      <4>1. r = [made |-> m.n, rc |-> "DATA_ERROR", zs |-> zs]
        BY <1>2, <2>1, <2>5, <3>3 DEF inflate
      <4> QED
        BY <1>2, <2>1, <2>2, <3>0, <3>3, <4>1 DEF Does
    <3> QED
      BY <2>2, <3>1, <3>2, <3>3
  <2> QED
    BY <2>3, <2>4, <2>5
<1> QED
  BY <1>1, <1>2

-----------------------------------------------------------------------------
(* How far the call has come.                                                *)

\* The first i members are done, and part of the next.
At(i) ==
  /\ i \in 0..Len(input) /\ Len(zs) = Len(input) - i
  /\ \A j \in 1..i : input[j].how = "whole"
  /\ \A j \in 2..Len(zs) : zs[j] = input[i + j]
  /\ IF i = Len(input) THEN len = Output(input, i)
     ELSE zs[1].how = input[i + 1].how /\ len + zs[1].n = Output(input, i + 1)
  /\ mode # 0 => i = 0
  /\ i = Len(input) => i = 0

\* The members that count include the next one, and end with it if it is not whole,
\* if the mode is not gzip or if it is the last.
LEMMA DecodedIs ==
  ASSUME NEW s \in Seq(Member), NEW m \in 0..2, NEW i \in 0..Len(s),
         \A j \in 1..i : s[j].how = "whole", m # 0 => i = 0, i # Len(s)
  PROVE  /\ Decoded(s, m) \in (i + 1)..Len(s)
         /\ m # 0 \/ i + 1 = Len(s) \/ s[i + 1].how # "whole" => Decoded(s, m) = i + 1
<1>1. PICK L \in Nat : L = Len(s) /\ DOMAIN s = 1..L /\ i < L
  OBVIOUS
<1>2. CASE m # 0
  BY <1>1, <1>2 DEF Decoded, Least
<1>3. CASE m = 0 /\ \A j \in DOMAIN s : s[j].how = "whole"
  <2>1. i + 1 \in DOMAIN s /\ Decoded(s, m) = L
    BY <1>1, <1>3 DEF Decoded
  <2> QED
    BY <1>1, <1>3, <2>1
<1>4. CASE m = 0 /\ ~ \A j \in DOMAIN s : s[j].how = "whole"
  <2> DEFINE Bad == {j \in DOMAIN s : s[j].how # "whole"}
             First(j) == s[j].how # "whole" /\ \A k \in 1..(j - 1) : s[k].how = "whole"
  <2>1. PICK d \in Bad : \A e \in Bad : d <= e
    <3>1. Bad \subseteq Nat /\ Bad # {}
      BY <1>1, <1>4
    <3> HIDE DEF Bad
    <3> QED
      BY <3>1, LeastMember
  <2>2. d \in DOMAIN s /\ First(d)
    <3>1. d \in 1..L /\ s[d].how # "whole"
      BY <1>1
    <3>2. ASSUME NEW k \in 1..(d - 1) PROVE s[k].how = "whole"
      <4>1. k \in DOMAIN s /\ ~(d <= k)
        BY <1>1, <3>1
      <4> QED
        BY <2>1, <4>1
    <3> QED
      BY <3>1, <3>2
  <2>3. PICK f : f = Decoded(s, m)
    OBVIOUS
  <2>4. f = CHOOSE j \in DOMAIN s : First(j)
    BY <1>4, <2>3 DEF Decoded
  <2> HIDE DEF First
  <2>5. f \in DOMAIN s /\ First(f)
    BY <2>2, <2>4
  <2>6. f \in 1..L /\ s[f].how # "whole" /\ \A k \in 1..(f - 1) : s[k].how = "whole"
    BY <1>1, <2>5 DEF First
  <2>7. i + 1 <= f
    BY <1>1, <2>6
  <2>8. s[i + 1].how # "whole" => f = i + 1
    BY <1>1, <2>6, <2>7
  <2> QED
    BY <1>1, <1>4, <2>3, <2>6, <2>7, <2>8
<1> QED
  BY <1>2, <1>3, <1>4

\* Of nothing, nothing counts.
LEMMA DecodedNone ==
  ASSUME NEW s \in Seq(Member), NEW m, Len(s) = 0
  PROVE  Decoded(s, m) = 0
<1>1. DOMAIN s = {}
  OBVIOUS
<1> QED
  BY <1>1 DEF Decoded, Least

\* What is to be decoded, and where the call is in it.
Going(i) ==
  /\ input \in Seq(Member) /\ mode \in 0..2 /\ zs \in Seq(Member) /\ len \in Nat
  /\ limit \in Nat /\ At(i)

\* A member of which n bytes are taken is a member.
LEMMA TakenFrom ==
  ASSUME NEW m \in Member, NEW n, m.n - n \in Nat
  PROVE  /\ [m EXCEPT !.n = @ - n] \in Member
         /\ [m EXCEPT !.n = @ - n].n = m.n - n
         /\ [m EXCEPT !.n = @ - n].how = m.how
  BY DEF Member

\* What follows the first member of a sequence.
LEMMA TailIs ==
  ASSUME NEW s \in Seq(Member), s # <<>>
  PROVE  /\ Tail(s) \in Seq(Member) /\ Len(Tail(s)) = Len(s) - 1
         /\ \A j \in 1..(Len(s) - 1) : Tail(s)[j] = s[j + 1]
  OBVIOUS

\* zlib has made n bytes of the first member.
LEMMA PartDone ==
  ASSUME NEW i, Going(i), zs # <<>>, NEW n \in 0..Head(zs).n, zs' = After(n), len' = len + n,
         UNCHANGED <<input, mode>>
  PROVE  At(i)' /\ zs' \in Seq(Member)
<1>1. PICK Z \in Nat : Z = Len(zs) /\ Z # 0 /\ zs \in Seq(Member)
  BY DEF Going
<1>2. PICK m \in Member : m = Head(zs) /\ m = zs[1]
  BY <1>1
<1>3. m.n \in Nat /\ m.how \in {"whole", "cut", "bad"}
  BY <1>2 DEF Member
<1>4. PICK q : q = [m EXCEPT !.n = @ - n]
  OBVIOUS
<1>4a. q \in Member /\ q.n = m.n - n /\ q.how = m.how
  <2>1. n \in 0..m.n
    BY <1>2
  <2>2. m.n - n \in Nat
    BY <1>3, <2>1
  <2> QED
    BY <1>4, <2>2, TakenFrom
<1>5. PICK rest : rest = Tail(zs)
  OBVIOUS
<1>5a. rest \in Seq(Member) /\ Len(rest) = Z - 1 /\ \A j \in 1..(Z - 1) : rest[j] = zs[j + 1]
  BY <1>1, <1>5, TailIs
<1>6. zs' = <<q>> \o rest
  BY <1>2, <1>4, <1>5 DEF After
<1>7. zs' \in Seq(Member) /\ Len(zs') = Z /\ zs'[1] = q /\ \A j \in 1..(Z - 1) : zs'[j + 1] = rest[j]
  BY <1>1, <1>4a, <1>5a, <1>6
<1>8. \A j \in 2..Z : zs'[j] = zs[j]
  <2> SUFFICES ASSUME NEW j \in 2..Z PROVE zs'[j] = zs[j]
    OBVIOUS
  <2>1. j - 1 \in 1..(Z - 1) /\ (j - 1) + 1 = j
    BY <1>1
  <2> QED
    BY <1>5a, <1>7, <2>1
<1>9. i \in 0..Len(input) /\ Z = Len(input) - i /\ i # Len(input) /\ Len(input) \in Nat
  BY <1>1 DEF Going, At
<1>10. zs[1].how = input[i + 1].how /\ len + zs[1].n = Output(input, i + 1)
  BY <1>9 DEF Going, At
<1>11. len' + q.n = len + m.n
  BY <1>2, <1>3, <1>4a DEF Going
<1>12. \A j \in 2..Len(zs') : zs'[j] = input[i + j]
  BY <1>1, <1>7, <1>8 DEF Going, At
<1>13. /\ i \in 0..Len(input) /\ Len(zs') = Len(input) - i
       /\ \A j \in 1..i : input[j].how = "whole"
       /\ mode # 0 => i = 0
  BY <1>7, <1>9 DEF Going, At
<1>14. zs'[1].how = input[i + 1].how /\ len' + zs'[1].n = Output(input, i + 1)
  BY <1>2, <1>4a, <1>7, <1>10, <1>11
<1>15. Output(input, i)' = Output(input, i) /\ Output(input, i + 1)' = Output(input, i + 1)
  BY DEF Output
<1>16. At(i)'
  BY <1>9, <1>12, <1>13, <1>14, <1>15 DEF At
<1> QED
  BY <1>7, <1>16

\* zlib is through the first member, and another follows.
LEMMA NextMember ==
  ASSUME NEW i, Going(i), zs # <<>>, Head(zs).how = "whole", zs' = Tail(zs),
         len' = len + Head(zs).n, mode = 0, zs' # <<>>, UNCHANGED <<input, mode>>
  PROVE  At(i + 1)' /\ zs' \in Seq(Member)
<1>1. PICK Z \in Nat : Z = Len(zs) /\ Z # 0 /\ zs \in Seq(Member)
  BY DEF Going
<1>2. PICK m \in Member : m = Head(zs) /\ m = zs[1]
  BY <1>1
<1>2a. m.how = "whole" /\ m.n \in Nat
  BY <1>2 DEF Member
<1>2b. zs' \in Seq(Member) /\ Len(zs') = Z - 1 /\ \A j \in 1..(Z - 1) : zs'[j] = zs[j + 1]
  BY <1>1, TailIs
<1>3. zs' \in Seq(Member) /\ Len(zs') = Z - 1 /\ Z - 1 # 0 /\ \A j \in 1..(Z - 1) : zs'[j] = zs[j + 1]
  BY <1>2b
<1>4. PICK L \in Nat : L = Len(input) /\ DOMAIN input = 1..L /\ input \in Seq(Member)
  BY DEF Going
<1>5. i \in 0..L /\ Z = L - i /\ i + 1 < L
  BY <1>1, <1>3, <1>4 DEF Going, At
<1>6. zs[1].how = input[i + 1].how /\ len + zs[1].n = Output(input, i + 1)
  BY <1>4, <1>5 DEF Going, At
<1>7. \A j \in 2..Z : zs[j] = input[i + j]
  BY <1>1 DEF Going, At
<1>8. ASSUME NEW j \in 1..(Z - 1) PROVE zs'[j] = input[(i + 1) + j]
  <2>1. j + 1 \in 2..Z /\ i + (j + 1) = (i + 1) + j
    BY <1>1, <1>5
  <2> QED
    BY <1>3, <1>7, <2>1
<1>9. zs'[1] = input[(i + 1) + 1]
  <2>1. 1 \in 1..(Z - 1)
    BY <1>1, <1>3
  <2> QED
    BY <1>8, <2>1
<1>10. Output(input, (i + 1) + 1) = Output(input, i + 1) + input[(i + 1) + 1].n
  <2>1. (i + 1) + 1 \in 1..Len(input) /\ ((i + 1) + 1) - 1 = i + 1
    BY <1>4, <1>5
  <2> QED
    BY <1>4, <2>1, OutputStep
<1>11. len' + zs'[1].n = Output(input, (i + 1) + 1)
  BY <1>2, <1>2a, <1>6, <1>9, <1>10
<1>12. \A j \in 1..(i + 1) : input[j].how = "whole"
  <2>1. \A j \in 1..(i + 1) : j \in 1..i \/ j = i + 1
    BY <1>5
  <2> QED
    BY <1>2, <1>2a, <1>6, <2>1 DEF Going, At
<1>13. i + 1 \in 0..L /\ Len(zs') = L - (i + 1) /\ i + 1 # L
  BY <1>3, <1>5
<1>14. \A j \in 2..Len(zs') : zs'[j] = input[(i + 1) + j]
  BY <1>3, <1>8
<1>15. Output(input, i + 1)' = Output(input, i + 1) /\ Output(input, (i + 1) + 1)' = Output(input, (i + 1) + 1)
  BY DEF Output
<1>16. At(i + 1)'
  BY <1>4, <1>9, <1>11, <1>12, <1>13, <1>14, <1>15 DEF At
<1> QED
  BY <1>3, <1>16

-----------------------------------------------------------------------------
(* What the call should answer.                                              *)

\* The first i members of s are whole, a decoder of mode m gets to the next, and
\* that one is there.
Reached(s, m, i) ==
  /\ s \in Seq(Member) /\ m \in 0..2 /\ i \in 0..Len(s) /\ i # Len(s)
  /\ \A j \in 1..i : s[j].how = "whole"
  /\ m # 0 => i = 0

\* The output is too large once that of the next member is.
LEMMA ExpectedLarge ==
  ASSUME NEW s, NEW m, NEW i, NEW max \in Nat, Reached(s, m, i), Output(s, i + 1) > max
  PROVE  Expected(s, m, max) = "output too large"
<1>1. PICK k : k = Decoded(s, m)
  OBVIOUS
<1>2. s \in Seq(Member) /\ i \in 0..Len(s) /\ k \in (i + 1)..Len(s)
  BY <1>1, DecodedIs DEF Reached
<1>3. k \in 0..Len(s) /\ i + 1 \in 0..k
  BY <1>2
<1>4. i + 1 \in 0..Len(s)
  BY <1>2
<1>5. Output(s, k) \in Nat /\ Output(s, i + 1) \in Nat /\ Output(s, i + 1) <= Output(s, k)
  BY <1>2, <1>3, <1>4, OutputGrows
<1>6. Output(s, k) > max
  BY <1>5
<1> QED
  BY <1>1, <1>6 DEF Expected

\* The data is invalid if the next member is not whole.
LEMMA ExpectedBad ==
  ASSUME NEW s, NEW m, NEW i, NEW max \in Nat, Reached(s, m, i), Output(s, i + 1) <= max,
         s[i + 1].how # "whole"
  PROVE  Expected(s, m, max) = "invalid data"
<1>1. PICK k : k = Decoded(s, m)
  OBVIOUS
<1>2. s \in Seq(Member) /\ i \in 0..Len(s) /\ k = i + 1 /\ k \in 1..k
  BY <1>1, DecodedIs DEF Reached
<1>3. i + 1 \in 0..Len(s)
  BY <1>2 DEF Reached
<1>4. Output(s, i + 1) \in Nat
  BY <1>2, <1>3, OutputGrows
<1>5. ~(Output(s, k) > max)
  BY <1>2, <1>4
<1>6. ~ \A j \in 1..k : s[j].how = "whole"
  BY <1>2
<1> QED
  BY <1>1, <1>5, <1>6 DEF Expected

\* It is right if the next member is whole and the last that counts.
LEMMA ExpectedOk ==
  ASSUME NEW s, NEW m, NEW i, NEW max \in Nat, Reached(s, m, i), Output(s, i + 1) <= max,
         s[i + 1].how = "whole", m # 0 \/ i + 1 = Len(s)
  PROVE  Expected(s, m, max) = "ok" /\ Decoded(s, m) = i + 1
<1>1. PICK k : k = Decoded(s, m)
  OBVIOUS
<1>2. s \in Seq(Member) /\ i \in 0..Len(s) /\ k = i + 1
  BY <1>1, DecodedIs DEF Reached
<1>3. i + 1 \in 0..Len(s)
  BY <1>2 DEF Reached
<1>4. Output(s, i + 1) \in Nat
  BY <1>2, <1>3, OutputGrows
<1>5. ~(Output(s, k) > max)
  BY <1>2, <1>4
<1>6. \A j \in 1..k : s[j].how = "whole"
  <2>1. \A j \in 1..k : j \in 1..i \/ j = i + 1
    BY <1>2
  <2> QED
    BY <2>1 DEF Reached
<1>7. k # 0
  BY <1>2
<1> QED
  BY <1>1, <1>2, <1>5, <1>6, <1>7 DEF Expected

\* Nothing is not a stream.
LEMMA ExpectedNone ==
  ASSUME NEW s \in Seq(Member), NEW m, NEW max \in Nat, Len(s) = 0
  PROVE  Expected(s, m, max) = "invalid data"
<1>1. Decoded(s, m) = 0 /\ Output(s, 0) = 0
  BY DecodedNone, OutputStep
<1>2. ~(0 > max)
  OBVIOUS
<1> QED
  BY <1>1, <1>2 DEF Expected

\* While zlib can see a member, it is the next of the input's.
LEMMA AtNext ==
  ASSUME NEW i, Going(i), zs # <<>>
  PROVE  /\ Reached(input, mode, i)
         /\ Head(zs).n \in Nat /\ Head(zs).how = input[i + 1].how
         /\ len + Head(zs).n = Output(input, i + 1)
         /\ Tail(zs) = <<>> => i + 1 = Len(input)
<1>1. zs \in Seq(Member) /\ input \in Seq(Member) /\ mode \in 0..2
  BY DEF Going
<1>2. Len(zs) \in Nat /\ Len(zs) # 0 /\ Head(zs) = zs[1] /\ Head(zs) \in Member
  BY <1>1
<1>3. Head(zs).n \in Nat
  BY <1>2 DEF Member
<1>4. i \in 0..Len(input) /\ Len(zs) = Len(input) - i
  BY DEF Going, At
<1>5. i # Len(input)
  BY <1>2, <1>4
<1>6. zs[1].how = input[i + 1].how /\ len + zs[1].n = Output(input, i + 1)
  BY <1>5 DEF Going, At
<1>7. Reached(input, mode, i)
  BY <1>1, <1>4, <1>5 DEF Reached, Going, At
<1>8. ASSUME Tail(zs) = <<>> PROVE i + 1 = Len(input)
  <2>1. Len(Tail(zs)) = Len(zs) - 1
    BY <1>1, TailIs
  <2>2. Len(zs) = 1
    BY <1>2, <1>8, <2>1
  <2>3. PICK L \in Nat : L = Len(input)
    BY <1>1
  <2>4. i \in 0..L /\ 1 = L - i
    BY <1>4, <2>2, <2>3
  <2>5. i + 1 = L
    BY <2>4
  <2> QED
    BY <2>3, <2>5
<1> QED
  BY <1>2, <1>3, <1>6, <1>7, <1>8

-----------------------------------------------------------------------------
(* The inductive invariant.                                                  *)

\* The arguments and the buffer's sizes.
Sizes == input \in Inputs /\ mode \in 0..2 /\ limit \in Limits /\ cap \in Nat /\ len \in Nat

\* While the call runs, zlib has members to read and the output is within the limit.
WithinLimit == g_status = "running" => zs \in Seq(Member) /\ len <= limit

\* While the call runs, it is somewhere in the input.
Somewhere == g_status = "running" /\ Len(input) < UInt => \E i : At(i)

InflateInv == Sizes /\ BufferBound /\ WithinLimit /\ Somewhere /\ InflateExact

\* The inputs are sequences of members, the constants are numbers.
LEMMA Arguments ==
  ASSUME Sizes
  PROVE  input \in Seq(Member) /\ limit \in Nat /\ Len(input) \in Nat
  BY InflateConstants DEF Sizes, Member

\* Where a running call is.
LEMMA IsGoing ==
  ASSUME Sizes, WithinLimit, Somewhere, g_status = "running", Len(input) < UInt
  PROVE  \E i : Going(i)
  BY Arguments DEF Sizes, WithinLimit, Somewhere, Going

\* zlib starts with the whole of an input whose length fits its 32 bits.
LEMMA InflateStarts ==
  ASSUME InflateInit
  PROVE  InflateInv
<1>1. Sizes
  BY DEF InflateInit, Sizes
<1>2. input \in Seq(Member) /\ limit \in Nat /\ Len(input) \in Nat
  BY <1>1, Arguments
<1>3. PICK L \in Nat : L = Len(input)
  BY <1>2
<1>4. L % UInt \in 0..L
  BY InflateConstants
<1>5. zs = SubSeq(input, 1, L % UInt)
  BY <1>3 DEF InflateInit
<1>6. zs \in Seq(Member)
  BY <1>2, <1>3, <1>4, <1>5
<1>7. BufferBound /\ WithinLimit /\ InflateExact
  BY <1>2, <1>6 DEF InflateInit, BufferBound, WithinLimit, InflateExact
<1>8. ASSUME Len(input) < UInt PROVE At(0)
  <2>1. L % UInt = L
    BY <1>3, <1>8, InflateConstants
  <2>2. Len(zs) = L /\ \A j \in 1..L : zs[j] = input[j]
    BY <1>2, <1>3, <1>5, <2>1
  <2>3. Output(input, 0) = 0
    BY <1>2, OutputStep
  <2>4. L # 0 => 1 \in 1..L /\ Output(input, 1) = input[1].n /\ input[1] \in Member
    <3> SUFFICES ASSUME L # 0 PROVE 1 \in 1..L /\ Output(input, 1) = input[1].n /\ input[1] \in Member
      OBVIOUS
    <3>1. 1 \in 1..Len(input) /\ 1 - 1 = 0
      BY <1>3
    <3>2. input[1] \in Member
      BY <1>2, <3>1
    <3>3. input[1].n \in Nat
      BY <3>2 DEF Member
    <3>4. Output(input, 1) = Output(input, 1 - 1) + input[1].n
      BY <1>2, <3>1, OutputStep
    <3> QED
      BY <1>3, <2>3, <3>1, <3>2, <3>3, <3>4
  <2>5. L # 0 => zs[1].how = input[0 + 1].how /\ len + zs[1].n = Output(input, 0 + 1)
    <3>1. len = 0 /\ 0 + 1 = 1
      BY DEF InflateInit
    <3>2. \A m \in Member : m.n \in Nat /\ 0 + m.n = m.n
      BY DEF Member
    <3> QED
      BY <2>2, <2>4, <3>1, <3>2
  <2>6. 0 \in 0..Len(input) /\ Len(zs) = Len(input) - 0
    BY <1>3, <2>2
  <2>7. \A j \in 1..0 : input[j].how = "whole"
    OBVIOUS
  <2>8. \A j \in 2..Len(zs) : zs[j] = input[0 + j]
    BY <2>2
  <2>9. len = 0
    BY DEF InflateInit
  <2> QED
    BY <1>3, <2>3, <2>5, <2>6, <2>7, <2>8, <2>9 DEF At
<1> QED
  BY <1>1, <1>7, <1>8 DEF InflateInv, Somewhere

\* The first buffer is no larger than the limit and one byte.
LEMMA FirstBufferKeeps ==
  ASSUME InflateInv, FirstBuffer
  PROVE  InflateInv'
<1>1. limit \in Nat /\ FirstCap \in Nat \ {0} /\ cap = 0 /\ len = 0
  <2>1. Sizes /\ BufferBound /\ cap = 0
    BY DEF InflateInv, FirstBuffer
  <2>2. limit \in Nat /\ FirstCap \in Nat \ {0}
    BY <2>1, Arguments, InflateConstants
  <2>3. len \in Nat /\ len <= 0
    BY <2>1 DEF Sizes, BufferBound
  <2> QED
    BY <2>1, <2>2, <2>3
<1>2. UNCHANGED <<input, mode, limit, zs, len>> /\ g_status = "running"
  BY DEF FirstBuffer, Failed
<1>3. cap' \in Nat /\ cap' <= limit + 1
  <2>1. cap' = (IF limit < FirstCap THEN limit + 1 ELSE FirstCap) \/ cap' = cap
    BY DEF FirstBuffer, Failed
  <2> QED
    BY <1>1, <2>1
<1>4. Sizes' /\ BufferBound'
  BY <1>1, <1>2, <1>3 DEF InflateInv, Sizes, BufferBound
<1>5. \A i : At(i)' = At(i)
  BY <1>2 DEF At, Output
<1>6. CASE g_status' = "running"
  BY <1>2, <1>4, <1>5, <1>6 DEF InflateInv, WithinLimit, Somewhere, InflateExact
<1>7. CASE g_status' = "out of memory"
  BY <1>4, <1>7 DEF InflateInv, WithinLimit, Somewhere, InflateExact
<1> QED
  BY <1>2, <1>6, <1>7 DEF FirstBuffer, Failed

\* The next capacity is larger while the present one is within the limit.
LEMMA Doubles ==
  ASSUME NEW c \in Nat, NEW l \in Nat, c > 0, c <= l
  PROVE  Least(c * 2, l + 1) > c /\ Least(c * 2, l + 1) \in Nat /\ Least(c * 2, l + 1) <= l + 1
<1>1. c * 2 \in Nat /\ c * 2 > c
  OBVIOUS
<1> QED
  BY <1>1 DEF Least

\* The buffer can grow while the output is within the limit: a round that gives up
\* before it calls zlib is out of memory.
LEMMA GrowthFails ==
  ASSUME InflateInv, g_status = "running", cap > 0, len = cap, UNCHANGED <<input, mode, limit>>,
         Failed(IF RoomDoubled > cap THEN "out of memory" ELSE "output too large")
  PROVE  InflateInv'
<1>1. limit \in Nat /\ cap \in Nat /\ cap <= limit
  BY Arguments DEF InflateInv, Sizes, WithinLimit
<1>2. RoomDoubled > cap
  BY <1>1, Doubles DEF RoomDoubled
<1>3. g_status' = "out of memory" /\ UNCHANGED <<input, mode, limit, cap, len>>
  BY <1>2 DEF Failed
<1> QED
  BY <1>3 DEF InflateInv, Sizes, BufferBound, WithinLimit, Somewhere, InflateExact

\* The members zlib can still see are members, part of the first done or not.
LEMMA RestIs ==
  ASSUME zs \in Seq(Member), zs # <<>>, NEW n \in 0..Head(zs).n
  PROVE  After(n) \in Seq(Member)
<1>1. PICK m \in Member : m = Head(zs)
  OBVIOUS
<1>2. m.n \in Nat /\ n \in 0..m.n
  BY <1>1 DEF Member
<1>3. m.n - n \in Nat
  BY <1>2
<1>4. [m EXCEPT !.n = @ - n] \in Member
  BY <1>3, TakenFrom
<1>5. Tail(zs) \in Seq(Member)
  BY TailIs
<1> QED
  BY <1>1, <1>4, <1>5 DEF After

\* A round's call of zlib, which has made r in C bytes of buffer.
Called(r, C) ==
  /\ g_status = "running" /\ UNCHANGED <<input, mode, limit>> /\ cap' = C
  /\ len' = len + r.made /\ zs' = r.zs /\ g_status' = Verdict(r.rc, r.zs, len')
  /\ Does(r) /\ r.made \in Nat /\ len + r.made <= C /\ C \in Nat /\ C <= limit + 1

\* The sizes stay right, and a call that goes on is within the limit.
LEMMA CalledSizes ==
  ASSUME InflateInv, NEW r, NEW C, Called(r, C)
  PROVE  Sizes' /\ BufferBound' /\ WithinLimit'
<1>1. limit \in Nat /\ len \in Nat /\ zs \in Seq(Member)
  BY Arguments DEF InflateInv, Sizes, WithinLimit, Called
<1>2. len' \in Nat /\ len' <= C
  BY <1>1 DEF Called
<1>3. Sizes'
  BY <1>2 DEF InflateInv, Sizes, Called
<1>4. BufferBound'
  BY <1>2 DEF BufferBound, Called
<1>5. ASSUME g_status' = "running" PROVE zs' \in Seq(Member) /\ len' <= limit'
  <2>1. ~(len' > limit) /\ r.rc \in {"STREAM_END", "OK"}
    BY <1>5 DEF Called, Verdict
  <2>2. \/ zs # <<>> /\ r.zs = Tail(zs)
        \/ zs # <<>> /\ r.made \in 0..Head(zs).n /\ r.zs = After(r.made)
    BY <2>1 DEF Called, Does
  <2>3. r.zs \in Seq(Member)
    BY <1>1, <2>2, TailIs, RestIs
  <2> QED
    BY <1>1, <1>2, <2>1, <2>3 DEF Called
<1> QED
  BY <1>3, <1>4, <1>5 DEF WithinLimit

\* The answer that the call settles on, or that it goes on.
Settled ==
  \/ g_status' = "running" /\ \E i : At(i)'
  \/ g_status' = "out of memory"
  \/ /\ g_status' = Expected(input, mode, limit)
     /\ g_status' = "ok" => len' = Output(input, Decoded(input, mode))

\* A call of zlib on an input whose length fits leads to the right answer.
LEMMA CalledSettles ==
  ASSUME InflateInv, NEW r, NEW C, Called(r, C), Len(input) < UInt
  PROVE  Settled
<1>1. PICK i : Going(i)
  BY IsGoing DEF InflateInv, Called
<1>2. limit \in Nat /\ len \in Nat /\ len <= limit /\ zs \in Seq(Member)
  BY <1>1 DEF Going, InflateInv, WithinLimit, Called
<1>3. UNCHANGED <<input, mode, limit>> /\ len' = len + r.made /\ zs' = r.zs /\ r.made \in Nat
  BY DEF Called
<1>4. g_status' = Verdict(r.rc, zs', len')
  BY DEF Called
<1>5. CASE r.rc = "MEM_ERROR" /\ r.made = 0
  <2>1. ~(len' > limit)
    BY <1>2, <1>3, <1>5
  <2>2. g_status' = "out of memory"
    BY <1>4, <1>5, <2>1 DEF Verdict
  <2> QED
    BY <2>2 DEF Settled
<1>6. CASE r.rc = "BUF_ERROR" /\ zs = <<>> /\ r.made = 0
  <2>0. ~(len' > limit)
    BY <1>2, <1>3, <1>6
  <2>1. g_status' = "invalid data"
    BY <1>4, <1>6, <2>0 DEF Verdict
  <2>2. input \in Seq(Member) /\ Len(zs) = 0
    BY <1>1, <1>6 DEF Going
  <2>3. Len(input) = 0
    BY <1>1, <2>2 DEF Going, At
  <2>4. Expected(input, mode, limit) = "invalid data"
    BY <1>2, <2>2, <2>3, ExpectedNone
  <2> QED
    BY <2>1, <2>4 DEF Settled
<1>7. CASE zs # <<>>
  <2>1. PICK h : h = Head(zs).n
    OBVIOUS
  <2>2. /\ Reached(input, mode, i) /\ h \in Nat /\ Head(zs).how = input[i + 1].how
        /\ len + h = Output(input, i + 1) /\ (Tail(zs) = <<>> => i + 1 = Len(input))
    BY <1>1, <1>7, <2>1, AtNext
  <2>3. ASSUME r.made <= h, len' > limit PROVE Settled
    <3>1. Output(input, i + 1) > limit
      BY <1>2, <1>3, <2>2, <2>3
    <3>2. Expected(input, mode, limit) = "output too large"
      BY <1>2, <2>2, <3>1, ExpectedLarge
    <3> QED
      BY <1>4, <2>3, <3>2 DEF Verdict, Settled
  <2>4. CASE r.rc = "OK" /\ r.made \in 0..Head(zs).n /\ r.zs = After(r.made)
    <3>1. At(i)'
      BY <1>1, <1>3, <1>7, <2>4, PartDone
    <3>2. r.made <= h
      BY <2>1, <2>2, <2>4
    <3>3. ~(len' > limit) => g_status' = "running"
      BY <1>4, <2>4 DEF Verdict
    <3> QED
      BY <2>3, <3>1, <3>2, <3>3 DEF Settled
  <2>5. CASE r.rc = "STREAM_END" /\ Head(zs).how = "whole" /\ r.made = Head(zs).n /\ r.zs = Tail(zs)
    <3>1. CASE len' > limit
      BY <2>1, <2>2, <2>3, <2>5, <3>1
    <3>2. CASE ~(len' > limit) /\ mode = 0 /\ zs' # <<>>
      <4>1. g_status' = "running"
        BY <1>4, <2>5, <3>2 DEF Verdict
      <4>2. At(i + 1)'
        BY <1>1, <1>3, <1>7, <2>5, <3>2, NextMember
      <4> QED
        BY <4>1, <4>2 DEF Settled
    <3>3. CASE ~(len' > limit) /\ ~(mode = 0 /\ zs' # <<>>)
      <4>1. g_status' = "ok"
        BY <1>4, <2>5, <3>3 DEF Verdict
      <4>2. mode # 0 \/ i + 1 = Len(input)
        BY <1>3, <2>2, <2>5, <3>3
      <4>3. len' = Output(input, i + 1) /\ Output(input, i + 1) <= limit
        BY <1>2, <1>3, <2>1, <2>2, <2>5, <3>3
      <4>4. Expected(input, mode, limit) = "ok" /\ Decoded(input, mode) = i + 1
        BY <1>2, <2>2, <2>5, <4>2, <4>3, ExpectedOk
      <4> QED
        BY <4>1, <4>3, <4>4 DEF Settled
    <3> QED
      BY <3>1, <3>2, <3>3
  <2>6. CASE r.rc \in {"BUF_ERROR", "DATA_ERROR"} /\ Head(zs).how # "whole" /\ r.made = h
    <3>1. CASE len' > limit
      BY <2>2, <2>3, <2>6, <3>1
    <3>2. CASE ~(len' > limit)
      <4>1. g_status' = "invalid data"
        BY <1>4, <2>6, <3>2 DEF Verdict
      <4>2. Output(input, i + 1) <= limit
        BY <1>2, <1>3, <2>2, <2>6, <3>2
      <4>3. Expected(input, mode, limit) = "invalid data"
        BY <1>2, <2>2, <2>6, <4>2, ExpectedBad
      <4> QED
        BY <4>1, <4>3 DEF Settled
    <3> QED
      BY <3>1, <3>2
  <2> QED
    BY <1>5, <1>7, <2>1, <2>4, <2>5, <2>6 DEF Called, Does
<1> QED
  BY <1>5, <1>6, <1>7 DEF Called, Does

\* A round keeps the invariant.
LEMMA RoundKeeps ==
  ASSUME InflateInv, Round
  PROVE  InflateInv'
<1>1. CASE len = cap /\ Failed(IF RoomDoubled > cap THEN "out of memory" ELSE "output too large")
  BY <1>1, GrowthFails DEF Round
<1>2. CASE /\ len < cap \/ RoomDoubled > cap
           /\ cap' = IF len = cap THEN RoomDoubled ELSE cap
           /\ \E r \in inflate(Least(cap' - len, MaxRoom)) :
                /\ len' = len + r.made /\ zs' = r.zs
                /\ begun' = (r.rc # "STREAM_END")
                /\ g_status' = Verdict(r.rc, r.zs, len')
  <2>1. limit \in Nat /\ len \in Nat /\ cap \in Nat /\ zs \in Seq(Member) /\ len <= limit
    BY Arguments DEF InflateInv, Sizes, WithinLimit, Round
  <2>2. cap > 0 /\ cap <= limit + 1 /\ len <= cap
    BY DEF InflateInv, BufferBound, Round
  <2>3. PICK C : C = cap'
    OBVIOUS
  <2>4. C \in Nat /\ C <= limit + 1 /\ len <= C
    <3>1. CASE len = cap
      <4>1. C = Least(cap * 2, limit + 1) /\ cap <= limit
        BY <1>2, <2>1, <2>3, <3>1 DEF RoomDoubled
      <4> QED
        BY <2>1, <2>2, <3>1, <4>1, Doubles
    <3>2. CASE len # cap
      BY <1>2, <2>1, <2>2, <2>3, <3>2
    <3> QED
      BY <3>1, <3>2
  <2>5. PICK room : room = Least(C - len, MaxRoom)
    OBVIOUS
  <2>6. room \in Nat /\ room <= C - len
    BY <2>1, <2>4, <2>5, InflateConstants DEF Least
  <2>7. PICK r \in inflate(room) : /\ len' = len + r.made /\ zs' = r.zs
                                   /\ g_status' = Verdict(r.rc, r.zs, len')
    BY <1>2, <2>3, <2>5
  <2>8. Does(r) /\ r.made \in 0..room
    BY <2>1, <2>6, CallDoes
  <2>9. r.made \in Nat /\ len + r.made <= C
    BY <2>1, <2>4, <2>6, <2>8
  <2>10. Called(r, C)
    BY <2>3, <2>4, <2>7, <2>8, <2>9 DEF Called, Round
  <2>11. Sizes' /\ BufferBound' /\ WithinLimit'
    BY <2>10, CalledSizes
  <2>12. Len(input) < UInt => Settled
    BY <2>10, CalledSettles
  <2>13. UNCHANGED <<input, mode, limit>> /\ g_status = "running"
    BY DEF Round
  <2>14. /\ Expected(input, mode, limit)' = Expected(input, mode, limit)
         /\ Output(input, Decoded(input, mode))' = Output(input, Decoded(input, mode))
    BY <2>13 DEF Expected, Output, Decoded
  <2>15. Expected(input, mode, limit) \in {"output too large", "ok", "invalid data"}
    BY DEF Expected
  <2>16. Somewhere' /\ InflateExact'
    BY <2>12, <2>13, <2>14, <2>15 DEF Settled, Somewhere, InflateExact
  <2> QED
    BY <2>11, <2>16 DEF InflateInv
<1> QED
  BY <1>1, <1>2 DEF Round

\* kod_inflate answers as the members of its input say, for every input whose length
\* fits 32 bits, every limit and every size of the buffer's steps: all of their
\* output, that it is too large, or that the data is invalid, or it is out of
\* memory; and its buffer is never larger than the limit and one byte, and never
\* written past its end, for any input.
THEOREM InflateIsExact == InflateSpec => []InflateRight
<1>1. InflateInit => InflateInv
  BY InflateStarts
<1>2. InflateInv /\ [InflateNext]_inflateVars => InflateInv'
  <2> SUFFICES ASSUME InflateInv, [InflateNext]_inflateVars PROVE InflateInv'
    OBVIOUS
  <2>1. CASE FirstBuffer
    BY <2>1, FirstBufferKeeps
  <2>2. CASE Round
    BY <2>2, RoundKeeps
  <2>3. CASE UNCHANGED inflateVars
    <3>1. UNCHANGED <<input, mode, limit, zs, cap, len, g_status>>
      BY <2>3 DEF inflateVars
    <3>2. Sizes' /\ BufferBound' /\ WithinLimit'
      BY <3>1 DEF InflateInv, Sizes, BufferBound, WithinLimit
    <3>3. \A i : At(i)' = At(i)
      BY <3>1 DEF At, Output
    <3>4. /\ Expected(input, mode, limit)' = Expected(input, mode, limit)
          /\ Output(input, Decoded(input, mode))' = Output(input, Decoded(input, mode))
      BY <3>1 DEF Expected, Output, Decoded
    <3>5. Somewhere' /\ InflateExact'
      BY <3>1, <3>3, <3>4 DEF InflateInv, Somewhere, InflateExact
    <3> QED
      BY <3>2, <3>5 DEF InflateInv
  <2> QED
    BY <2>1, <2>2, <2>3 DEF InflateNext
<1>3. InflateInv => InflateRight
  BY DEF InflateInv, InflateRight
<1> QED
  BY <1>1, <1>2, <1>3, PTL DEF InflateSpec
=============================================================================
