------------------------- MODULE HttpMessage_proofs -------------------------
(***************************************************************************)
(* Proofs about HttpMessage: a response is read whole and exactly, or      *)
(* refused, however the connection cuts the stream into pieces.            *)
(*                                                                         *)
(* At every moment what the client has not parsed yet (what is got of a    *)
(* line or a body, the buffer, and what is still to be delivered) is what  *)
(* came of the part of the message its state calls for.                    *)
(***************************************************************************)
EXTENDS HttpMessage, Integers, WellFoundedInduction, TLAPS

-----------------------------------------------------------------------------
(* Streams.                                                                  *)

Unit == {CR, LF, Surplus} \cup Field \cup ({"status", "size", "data"} \X Nat)

\* A set of numbers that is not empty has a least member.
LEMMA LeastMember ==
  ASSUME NEW S, S \subseteq Nat, S # {}
  PROVE  \E d \in S : \A e \in S : d <= e
<1>1. PICK d \in S : \A e \in S : ~(<<e, d>> \in OpToRel(<, Nat))
  BY NatLessThanWellFounded, WFMin
<1>2. ASSUME NEW e \in S PROVE ~(e < d)
  BY <1>1 DEF OpToRel
<1>3. \A e \in S : d <= e
  BY <1>2
<1> QED
  BY <1>3

\* Streams with the same units are the same.
LEMMA SameUnits ==
  ASSUME NEW s \in Seq(Unit), NEW t \in Seq(Unit), NEW n \in Nat, Len(s) = n, Len(t) = n,
         \A i \in 1..n : s[i] = t[i]
  PROVE  s = t
  OBVIOUS

\* One stream after another.
LEMMA Joined ==
  ASSUME NEW s \in Seq(Unit), NEW t \in Seq(Unit)
  PROVE  /\ s \o t \in Seq(Unit) /\ Len(s \o t) = Len(s) + Len(t)
         /\ \A i \in 1..Len(s) : (s \o t)[i] = s[i]
         /\ \A i \in 1..Len(t) : (s \o t)[Len(s) + i] = t[i]
  OBVIOUS

Joins(j, s, t) ==
  /\ j \in Seq(Unit) /\ Len(j) = Len(s) + Len(t)
  /\ (\A i \in 1..Len(s) : j[i] = s[i]) /\ (\A i \in 1..Len(t) : j[Len(s) + i] = t[i])

\* The same, of a stream with a name.
LEMMA JoinIs ==
  ASSUME NEW s \in Seq(Unit), NEW t \in Seq(Unit), NEW j, j = s \o t
  PROVE  Joins(j, s, t)
<1>1. /\ s \o t \in Seq(Unit) /\ Len(s \o t) = Len(s) + Len(t)
      /\ \A i \in 1..Len(s) : (s \o t)[i] = s[i]
      /\ \A i \in 1..Len(t) : (s \o t)[Len(s) + i] = t[i]
  BY Joined
<1> QED
  BY <1>1 DEF Joins

\* The empty stream.
LEMMA Nothing ==
  ASSUME NEW s \in Seq(Unit)
  PROVE  /\ <<>> \in Seq(Unit) /\ Len(<<>>) = 0 /\ << >> \o s = s /\ s \o << >> = s
         /\ Len(s) \in Nat /\ (s = <<>> <=> Len(s) = 0)
  OBVIOUS

\* A part of a stream.
LEMMA PartOf ==
  ASSUME NEW s \in Seq(Unit), NEW a \in Nat \ {0}, NEW b \in Nat, a <= b + 1, b <= Len(s)
  PROVE  /\ SubSeq(s, a, b) \in Seq(Unit) /\ Len(SubSeq(s, a, b)) = (b + 1) - a
         /\ \A i \in 1..((b + 1) - a) : SubSeq(s, a, b)[i] = s[(a + i) - 1]
  OBVIOUS

Assoc(a, b, c) == (a \o b) \o c = a \o (b \o c)

\* Three streams in a row.
LEMMA Regrouped ==
  ASSUME NEW a \in Seq(Unit), NEW b \in Seq(Unit), NEW c \in Seq(Unit)
  PROVE  Assoc(a, b, c)
<1>1. PICK l \in Nat : l = Len(a)
  OBVIOUS
<1>2. PICK m \in Nat : m = Len(b)
  OBVIOUS
<1>3. PICK n \in Nat : n = Len(c)
  OBVIOUS
<1>4. PICK ab : ab = a \o b
  OBVIOUS
<1>5. PICK bc : bc = b \o c
  OBVIOUS
<1>6. /\ ab \in Seq(Unit) /\ Len(ab) = l + m
      /\ (\A i \in 1..l : ab[i] = a[i]) /\ (\A i \in 1..m : ab[l + i] = b[i])
  <2>1. Joins(ab, a, b)
    BY <1>4, JoinIs, Zenon
  <2> QED
    BY <1>1, <1>2, <2>1 DEF Joins
<1>7. /\ bc \in Seq(Unit) /\ Len(bc) = m + n
      /\ (\A i \in 1..m : bc[i] = b[i]) /\ (\A i \in 1..n : bc[m + i] = c[i])
  <2>1. Joins(bc, b, c)
    BY <1>5, JoinIs, Zenon
  <2> QED
    BY <1>2, <1>3, <2>1 DEF Joins
<1>8. PICK x : x = ab \o c
  OBVIOUS
<1>9. PICK y : y = a \o bc
  OBVIOUS
<1>10. /\ x \in Seq(Unit) /\ Len(x) = (l + m) + n
       /\ (\A i \in 1..(l + m) : x[i] = ab[i]) /\ (\A i \in 1..n : x[(l + m) + i] = c[i])
  <2>1. /\ x \in Seq(Unit) /\ Len(x) = Len(ab) + Len(c)
        /\ (\A i \in 1..Len(ab) : x[i] = ab[i]) /\ (\A i \in 1..Len(c) : x[Len(ab) + i] = c[i])
    <3>1. Joins(x, ab, c)
      BY <1>6, <1>8, JoinIs, Zenon
    <3> QED
      BY <3>1 DEF Joins
  <2> QED
    BY <1>3, <1>6, <2>1
<1>11. /\ y \in Seq(Unit) /\ Len(y) = l + (m + n)
       /\ (\A i \in 1..l : y[i] = a[i]) /\ (\A i \in 1..(m + n) : y[l + i] = bc[i])
  <2>1. /\ y \in Seq(Unit) /\ Len(y) = Len(a) + Len(bc)
        /\ (\A i \in 1..Len(a) : y[i] = a[i]) /\ (\A i \in 1..Len(bc) : y[Len(a) + i] = bc[i])
    <3>1. Joins(y, a, bc)
      BY <1>7, <1>9, JoinIs, Zenon
    <3> QED
      BY <3>1 DEF Joins
  <2> QED
    BY <1>1, <1>7, <2>1
<1>12. ASSUME NEW i \in 1..(l + (m + n)) PROVE x[i] = y[i]
  <2>1. CASE i <= l
    <3>1. i \in 1..l /\ i \in 1..(l + m)
      BY <1>1, <1>2, <1>3, <2>1
    <3> QED
      BY <1>6, <1>10, <1>11, <3>1
  <2>2. CASE l < i /\ i <= l + m
    <3>1. PICK k \in 1..m : i = l + k
      <4>1. i - l \in 1..m /\ i = l + (i - l)
        BY <1>1, <1>2, <1>3, <2>2
      <4> QED
        BY <4>1
    <3>2. k \in 1..(m + n) /\ i \in 1..(l + m)
      BY <1>1, <1>2, <1>3, <2>2, <3>1
    <3>3. x[i] = b[k]
      BY <1>6, <1>10, <3>1, <3>2
    <3>4. y[i] = b[k]
      BY <1>7, <1>11, <3>1, <3>2
    <3> QED
      BY <3>3, <3>4
  <2>3. CASE l + m < i
    <3>1. PICK k \in 1..n : i = (l + m) + k /\ i = l + (m + k)
      <4>1. i - (l + m) \in 1..n /\ i = (l + m) + (i - (l + m)) /\ i = l + (m + (i - (l + m)))
        BY <1>1, <1>2, <1>3, <2>3
      <4> QED
        BY <4>1
    <3>2. m + k \in 1..(m + n)
      BY <1>2, <1>3, <3>1
    <3>3. x[i] = c[k]
      BY <1>10, <3>1
    <3>4. y[i] = c[k]
      BY <1>7, <1>11, <3>1, <3>2
    <3> QED
      BY <3>3, <3>4
  <2> QED
    BY <1>1, <1>2, <1>3, <2>1, <2>2, <2>3
<1>13. l + (m + n) \in Nat /\ (l + m) + n = l + (m + n)
  BY <1>1, <1>2, <1>3
<1>14. x = y
  <2>1. PICK N \in Nat : N = l + (m + n)
    BY <1>13
  <2>2. Len(x) = N /\ Len(y) = N /\ x \in Seq(Unit) /\ y \in Seq(Unit)
    BY <1>10, <1>11, <1>13, <2>1
  <2>3. \A i \in 1..N : x[i] = y[i]
    BY <1>12, <2>1
  <2> QED
    BY <2>2, <2>3, SameUnits
<1> QED
  BY <1>4, <1>5, <1>8, <1>9, <1>14 DEF Assoc

\* The two parts of a stream cut after n units.
LEMMA CutInTwo ==
  ASSUME NEW s \in Seq(Unit), NEW n \in 0..Len(s)
  PROVE  /\ SubSeq(s, 1, n) \in Seq(Unit) /\ SubSeq(s, n + 1, Len(s)) \in Seq(Unit)
         /\ Len(SubSeq(s, 1, n)) = n /\ Len(SubSeq(s, n + 1, Len(s))) = Len(s) - n
         /\ SubSeq(s, 1, n) \o SubSeq(s, n + 1, Len(s)) = s
<1>1. PICK L \in Nat : L = Len(s)
  OBVIOUS
<1>2. PICK a : a = SubSeq(s, 1, n)
  OBVIOUS
<1>3. a \in Seq(Unit) /\ Len(a) = n /\ \A i \in 1..n : a[i] = s[i]
  BY <1>1, <1>2
<1>4. PICK b : b = SubSeq(s, n + 1, L)
  OBVIOUS
<1>5. b \in Seq(Unit) /\ Len(b) = L - n /\ \A i \in 1..(L - n) : b[i] = s[n + i]
  BY <1>1, <1>4
<1>6. PICK j : j = a \o b
  OBVIOUS
<1>7. /\ j \in Seq(Unit) /\ Len(j) = Len(a) + Len(b)
      /\ (\A i \in 1..Len(a) : j[i] = a[i]) /\ (\A i \in 1..Len(b) : j[Len(a) + i] = b[i])
  <2>1. Joins(j, a, b)
    BY <1>3, <1>5, <1>6, JoinIs, Zenon
  <2> QED
    BY <2>1 DEF Joins
<1>8. Len(j) = L /\ (\A i \in 1..n : j[i] = a[i]) /\ (\A i \in 1..(L - n) : j[n + i] = b[i])
  BY <1>1, <1>3, <1>5, <1>7
<1>9. ASSUME NEW i \in 1..L PROVE j[i] = s[i]
  <2>1. CASE i <= n
    <3>1. i \in 1..n
      BY <1>1, <2>1
    <3> QED
      BY <1>3, <1>8, <3>1
  <2>2. CASE ~(i <= n)
    <3>1. PICK k \in 1..(L - n) : i = n + k
      <4>1. i - n \in 1..(L - n) /\ i = n + (i - n)
        BY <1>1, <2>2
      <4> QED
        BY <4>1
    <3> QED
      BY <1>5, <1>8, <3>1
  <2> QED
    BY <2>1, <2>2
<1>10. j = s
  BY <1>1, <1>7, <1>8, <1>9, SameUnits
<1> QED
  BY <1>1, <1>2, <1>3, <1>4, <1>5, <1>6, <1>10

\* What came of `due` when the last k units of it did not.
Came(rest, due, k) ==
  /\ rest \in Seq(Unit) /\ due \in Seq(Unit) /\ k \in Nat
  /\ Len(rest) + k = Len(due) /\ \A i \in 1..Len(rest) : rest[i] = due[i]

\* A connection that ends after n units.
LEMMA CameAtFirst ==
  ASSUME NEW due \in Seq(Unit), NEW n \in 0..Len(due)
  PROVE  Came(SubSeq(due, 1, n), due, Len(due) - n)
<1>1. PICK L \in Nat : L = Len(due)
  OBVIOUS
<1>2. PICK a : a = SubSeq(due, 1, n)
  OBVIOUS
<1>3. a \in Seq(Unit) /\ Len(a) = n /\ \A i \in 1..n : a[i] = due[i]
  BY <1>1, <1>2
<1>4. L - n \in Nat /\ n + (L - n) = L
  BY <1>1
<1> QED
  BY <1>1, <1>2, <1>3, <1>4 DEF Came

\* What was read of what was due is that, and the rest came of what is due next.
LEMMA CameNext ==
  ASSUME NEW a \in Seq(Unit), NEW b \in Seq(Unit), NEW x \in Seq(Unit), NEW y \in Seq(Unit),
         NEW k, Came(a \o b, x \o y, k), Len(a) = Len(x)
  PROVE  a = x /\ Came(b, y, k)
<1>1. PICK l \in Nat : l = Len(a)
  OBVIOUS
<1>2. PICK m \in Nat : m = Len(b)
  OBVIOUS
<1>3. PICK n \in Nat : n = Len(y)
  OBVIOUS
<1>4. PICK r : r = a \o b
  OBVIOUS
<1>5. PICK d : d = x \o y
  OBVIOUS
<1>6. /\ Len(r) = l + m
      /\ (\A i \in 1..l : r[i] = a[i]) /\ (\A i \in 1..m : r[l + i] = b[i])
  <2>1. Joins(r, a, b)
    BY <1>4, JoinIs, Zenon
  <2> QED
    BY <1>1, <1>2, <2>1 DEF Joins
<1>7. /\ Len(d) = l + n
      /\ (\A i \in 1..l : d[i] = x[i]) /\ (\A i \in 1..n : d[l + i] = y[i])
  <2>1. Joins(d, x, y)
    BY <1>5, JoinIs, Zenon
  <2> QED
    BY <1>1, <1>3, <2>1 DEF Joins
<1>8. k \in Nat /\ (l + m) + k = l + n /\ \A i \in 1..(l + m) : r[i] = d[i]
  BY <1>4, <1>5, <1>6, <1>7 DEF Came
<1>9. \A i \in 1..l : i \in 1..(l + m)
  BY <1>1, <1>2
<1>10. a = x
  <2>1. \A i \in 1..l : a[i] = x[i]
    BY <1>6, <1>7, <1>8, <1>9
  <2> QED
    BY <1>1, <2>1, SameUnits
<1>11. m + k = n
  BY <1>1, <1>2, <1>3, <1>8
<1>12. ASSUME NEW i \in 1..m PROVE b[i] = y[i]
  <2>1. i \in 1..n /\ l + i \in 1..(l + m)
    BY <1>1, <1>2, <1>3, <1>8, <1>11
  <2> QED
    BY <1>6, <1>7, <1>8, <2>1
<1> QED
  BY <1>2, <1>3, <1>8, <1>10, <1>11, <1>12 DEF Came

\* When less came than was due next, what follows that did not come.
LEMMA CameShort ==
  ASSUME NEW a \in Seq(Unit), NEW x \in Seq(Unit), NEW y \in Seq(Unit), NEW k,
         Came(a, x \o y, k), Len(a) < Len(x)
  PROVE  k > Len(y)
<1>1. Len(x \o y) = Len(x) + Len(y)
  BY Joined
<1>2. k \in Nat /\ Len(a) + k = Len(x) + Len(y)
  BY <1>1 DEF Came
<1>3. Len(a) \in Nat /\ Len(x) \in Nat /\ Len(y) \in Nat
  OBVIOUS
<1> QED
  BY <1>2, <1>3

\* The end of the first line.
LEMMA FirstEnd ==
  ASSUME NEW s \in Seq(Unit), HasEnd(s)
  PROVE  EndIn(s) \in 1..Len(s) /\ s[EndIn(s)] = LF /\ \A j \in 1..(EndIn(s) - 1) : s[j] # LF
<1>1. PICK L \in Nat : L = Len(s)
  OBVIOUS
<1> DEFINE E == {i \in 1..L : s[i] = LF}
<1>2. E \subseteq Nat /\ E # {}
  BY <1>1 DEF HasEnd
<1>3. PICK e \in E : \A i \in E : e <= i
  <2> HIDE DEF E
  <2> QED
    BY <1>2, LeastMember
<1>4. \A j \in 1..(e - 1) : s[j] # LF
  <2> SUFFICES ASSUME NEW j \in 1..(e - 1), s[j] = LF PROVE FALSE
    OBVIOUS
  <2>1. j \in 1..L /\ ~(e <= j)
    BY <1>1
  <2> QED
    BY <1>3, <2>1
<1>5. \E i \in 1..Len(s) : s[i] = LF /\ \A j \in 1..(i - 1) : s[j] # LF
  BY <1>1, <1>4
<1> QED
  BY <1>5 DEF EndIn

\* A line ends with LF and has no other.
IsLine(l) ==
  /\ l \in Seq(Unit) /\ Len(l) \in Nat \ {0} /\ l[Len(l)] = LF
  /\ \A i \in 1..(Len(l) - 1) : l[i] # LF

\* A buffer cut behind its first line.
LEMMA CutAtEnd ==
  ASSUME NEW b \in Seq(Unit), HasEnd(b)
  PROVE  /\ IsLine(SubSeq(b, 1, EndIn(b))) /\ SubSeq(b, EndIn(b) + 1, Len(b)) \in Seq(Unit)
         /\ SubSeq(b, 1, EndIn(b)) \o SubSeq(b, EndIn(b) + 1, Len(b)) = b
         /\ SubSeq(b, 1, EndIn(b) - 1)
              = SubSeq(SubSeq(b, 1, EndIn(b)), 1, Len(SubSeq(b, 1, EndIn(b))) - 1)
<1>1. PICK e : e = EndIn(b)
  OBVIOUS
<1>2. PICK L \in Nat : L = Len(b)
  OBVIOUS
<1>3. e \in 1..L /\ b[e] = LF /\ \A j \in 1..(e - 1) : b[j] # LF
  BY <1>1, <1>2, FirstEnd
<1>4. PICK p : p = SubSeq(b, 1, e)
  OBVIOUS
<1>5. p \in Seq(Unit) /\ Len(p) = e /\ \A i \in 1..e : p[i] = b[i]
  BY <1>2, <1>3, <1>4
<1>6. e \in 0..Len(b)
  BY <1>2, <1>3
<1>7. SubSeq(b, e + 1, Len(b)) \in Seq(Unit) /\ p \o SubSeq(b, e + 1, Len(b)) = b
  BY <1>4, <1>6, CutInTwo
<1>8. IsLine(p)
  <2>1. e \in 1..e /\ e \in Nat \ {0} /\ \A i \in 1..(e - 1) : i \in 1..e
    BY <1>2, <1>3
  <2>2. p[e] = LF /\ \A i \in 1..(e - 1) : p[i] # LF
    BY <1>3, <1>5, <2>1
  <2> QED
    BY <1>5, <2>1, <2>2 DEF IsLine
<1>9. PICK f : f = SubSeq(b, 1, e - 1)
  OBVIOUS
<1>10. PICK g : g = SubSeq(p, 1, e - 1)
  OBVIOUS
<1>11. PICK h \in Nat : h = e - 1
  BY <1>2, <1>3
<1>12. f \in Seq(Unit) /\ Len(f) = h /\ \A i \in 1..h : f[i] = b[i]
  <2>1. h <= L /\ f = SubSeq(b, 1, h)
    BY <1>2, <1>3, <1>9, <1>11
  <2> QED
    BY <1>2, <2>1
<1>13. g \in Seq(Unit) /\ Len(g) = h /\ \A i \in 1..h : g[i] = p[i]
  <2>1. h <= Len(p) /\ g = SubSeq(p, 1, h)
    BY <1>2, <1>3, <1>5, <1>10, <1>11
  <2> QED
    BY <1>5, <2>1
<1>14. \A i \in 1..h : i \in 1..e
  BY <1>2, <1>3, <1>11
<1>15. \A i \in 1..h : f[i] = g[i]
  BY <1>5, <1>12, <1>13, <1>14
<1>16. f = g
  BY <1>12, <1>13, <1>15, SameUnits
<1> QED
  BY <1>1, <1>4, <1>5, <1>7, <1>8, <1>9, <1>10, <1>16

\* The beginning of a line and its end make a line.
LEMMA LineOfPieces ==
  ASSUME NEW g \in Seq(Unit), ~HasEnd(g), NEW p, IsLine(p)
  PROVE  IsLine(g \o p)
<1>1. PICK m \in Nat : m = Len(g)
  OBVIOUS
<1>2. PICK e \in Nat \ {0} : e = Len(p)
  BY DEF IsLine
<1>3. p \in Seq(Unit) /\ p[e] = LF /\ \A i \in 1..(e - 1) : p[i] # LF
  BY <1>2 DEF IsLine
<1>4. PICK a : a = g \o p
  OBVIOUS
<1>5. /\ a \in Seq(Unit) /\ Len(a) = Len(g) + Len(p)
      /\ (\A i \in 1..Len(g) : a[i] = g[i]) /\ (\A i \in 1..Len(p) : a[Len(g) + i] = p[i])
  BY <1>3, <1>4, Joined
<1>6. /\ Len(a) = m + e
      /\ (\A i \in 1..m : a[i] = g[i]) /\ (\A i \in 1..e : a[m + i] = p[i])
  BY <1>1, <1>2, <1>5
<1>7. m + e \in Nat \ {0} /\ e \in 1..e
  BY <1>1, <1>2
<1>8. a[m + e] = LF
  BY <1>3, <1>6, <1>7
<1>9. ASSUME NEW i \in 1..((m + e) - 1) PROVE a[i] # LF
  <2>1. CASE i <= m
    <3>1. i \in 1..m
      BY <1>1, <1>2, <2>1
    <3>2. g[i] # LF
      BY <1>1, <3>1 DEF HasEnd
    <3> QED
      BY <1>6, <3>1, <3>2
  <2>2. CASE ~(i <= m)
    <3>1. PICK j \in 1..(e - 1) : i = m + j
      <4>1. i - m \in 1..(e - 1) /\ i = m + (i - m)
        BY <1>1, <1>2, <2>2
      <4> QED
        BY <4>1
    <3>2. j \in 1..e
      BY <1>2, <3>1
    <3> QED
      BY <1>3, <1>6, <3>1, <3>2
  <2> QED
    BY <2>1, <2>2
<1>10. IsLine(a)
  BY <1>5, <1>6, <1>7, <1>8, <1>9 DEF IsLine
<1> QED
  BY <1>4, <1>10

\* A line that came is the line that was due: they end at the same place.
LEMMA SameLine ==
  ASSUME NEW a, IsLine(a), NEW l, IsLine(l), NEW r \in Seq(Unit), NEW d \in Seq(Unit),
         NEW k, Came(a \o r, l \o d, k)
  PROVE  a = l /\ Came(r, d, k)
<1>1. PICK m \in Nat \ {0} : m = Len(a)
  BY DEF IsLine
<1>2. PICK n \in Nat \ {0} : n = Len(l)
  BY DEF IsLine
<1>3. a \in Seq(Unit) /\ a[m] = LF /\ \A i \in 1..(m - 1) : a[i] # LF
  BY <1>1 DEF IsLine
<1>4. l \in Seq(Unit) /\ l[n] = LF /\ \A i \in 1..(n - 1) : l[i] # LF
  BY <1>2 DEF IsLine
<1>5. PICK x : x = a \o r
  OBVIOUS
<1>6. PICK y : y = l \o d
  OBVIOUS
<1>7. PICK R \in Nat : R = Len(r)
  OBVIOUS
<1>8. Len(x) = m + R /\ \A i \in 1..m : x[i] = a[i]
  <2>1. Len(x) = Len(a) + Len(r) /\ \A i \in 1..Len(a) : x[i] = a[i]
    BY <1>3, <1>5, Joined
  <2> QED
    BY <1>1, <1>7, <2>1
<1>9. \A i \in 1..n : y[i] = l[i]
  <2>1. \A i \in 1..Len(l) : y[i] = l[i]
    BY <1>4, <1>6, Joined
  <2> QED
    BY <1>2, <2>1
<1>10. \A i \in 1..(m + R) : x[i] = y[i]
  <2>1. \A i \in 1..Len(x) : x[i] = y[i]
    BY <1>5, <1>6 DEF Came
  <2> QED
    BY <1>8, <2>1
<1>11. ~(m < n)
  <2> SUFFICES ASSUME m < n PROVE FALSE
    OBVIOUS
  <2>1. m \in 1..(n - 1) /\ m \in 1..n /\ m \in 1..m /\ m \in 1..(m + R)
    BY <1>1, <1>2, <1>7
  <2> QED
    BY <1>3, <1>4, <1>8, <1>9, <1>10, <2>1
<1>12. ~(m > n)
  <2> SUFFICES ASSUME m > n PROVE FALSE
    OBVIOUS
  <2>1. n \in 1..(m - 1) /\ n \in 1..n /\ n \in 1..m /\ n \in 1..(m + R)
    BY <1>1, <1>2, <1>7
  <2> QED
    BY <1>3, <1>4, <1>8, <1>9, <1>10, <2>1
<1>13. m = n
  BY <1>1, <1>2, <1>11, <1>12
<1>14. Len(a) = Len(l)
  BY <1>1, <1>2, <1>13
<1> QED
  BY <1>3, <1>4, <1>14, CameNext, Zenon

\* The beginning of a line, and its end but for LF.
LEMMA WithoutEnd ==
  ASSUME NEW g \in Seq(Unit), NEW p \in Seq(Unit), Len(p) \in Nat \ {0}
  PROVE  g \o SubSeq(p, 1, Len(p) - 1) = SubSeq(g \o p, 1, Len(g \o p) - 1)
<1>1. PICK m \in Nat : m = Len(g)
  OBVIOUS
<1>2. PICK e \in Nat : e = Len(p) - 1
  OBVIOUS
<1>3. Len(p) = e + 1
  BY <1>2
<1>4. PICK f : f = SubSeq(p, 1, e)
  OBVIOUS
<1>5. f \in Seq(Unit) /\ Len(f) = e /\ \A i \in 1..e : f[i] = p[i]
  BY <1>3, <1>4
<1>6. PICK h : h = g \o f
  OBVIOUS
<1>7. /\ h \in Seq(Unit) /\ Len(h) = Len(g) + Len(f)
      /\ (\A i \in 1..Len(g) : h[i] = g[i]) /\ (\A i \in 1..Len(f) : h[Len(g) + i] = f[i])
  BY <1>5, <1>6, Joined
<1>8. Len(h) = m + e /\ (\A i \in 1..m : h[i] = g[i]) /\ (\A i \in 1..e : h[m + i] = f[i])
  BY <1>1, <1>5, <1>7
<1>9. PICK a : a = g \o p
  OBVIOUS
<1>10. /\ a \in Seq(Unit) /\ Len(a) = Len(g) + Len(p)
       /\ (\A i \in 1..Len(g) : a[i] = g[i]) /\ (\A i \in 1..Len(p) : a[Len(g) + i] = p[i])
  BY <1>9, Joined
<1>11. Len(a) = m + (e + 1) /\ (\A i \in 1..m : a[i] = g[i]) /\ (\A i \in 1..(e + 1) : a[m + i] = p[i])
  BY <1>1, <1>3, <1>10
<1>12. PICK N \in Nat : N = m + e
  BY <1>1, <1>2
<1>13. N = Len(a) - 1 /\ N <= Len(a)
  BY <1>1, <1>2, <1>11, <1>12
<1>14. PICK o : o = SubSeq(a, 1, N)
  OBVIOUS
<1>15. o \in Seq(Unit) /\ Len(o) = N /\ \A i \in 1..N : o[i] = a[i]
  BY <1>10, <1>13, <1>14
<1>16. ASSUME NEW i \in 1..N PROVE h[i] = o[i]
  <2>1. CASE i <= m
    <3>1. i \in 1..m
      BY <1>1, <1>12, <2>1
    <3> QED
      BY <1>8, <1>11, <1>15, <3>1
  <2>2. CASE ~(i <= m)
    <3>1. PICK j \in 1..e : i = m + j
      <4>1. i - m \in 1..e /\ i = m + (i - m)
        BY <1>1, <1>2, <1>12, <2>2
      <4> QED
        BY <4>1
    <3>2. j \in 1..(e + 1)
      BY <1>2, <3>1
    <3>3. h[i] = p[j] /\ a[i] = p[j]
      BY <1>5, <1>8, <1>11, <3>1, <3>2
    <3> QED
      BY <1>15, <3>3
  <2> QED
    BY <2>1, <2>2
<1>17. h = o
  <2>1. Len(h) = N
    BY <1>8, <1>12
  <2>2. \A i \in 1..N : h[i] = o[i]
    BY <1>16
  <2> QED
    BY <1>7, <1>12, <1>15, <2>1, <2>2, SameUnits
<1> QED
  BY <1>2, <1>4, <1>6, <1>9, <1>13, <1>14, <1>17

\* The text of the line got and buffered is that of line l.
SameText(g, b, l) == g \o SubSeq(b, 1, EndIn(b) - 1) = SubSeq(l, 1, Len(l) - 1)

\* The line end in the buffer is that of the line that is due.
LEMMA LineFound ==
  ASSUME NEW g \in Seq(Unit), ~HasEnd(g), NEW b \in Seq(Unit), HasEnd(b), NEW c \in Seq(Unit),
         NEW l, IsLine(l), NEW d \in Seq(Unit), NEW k, Came(g \o (b \o c), l \o d, k)
  PROVE  /\ SameText(g, b, l)
         /\ SubSeq(b, EndIn(b) + 1, Len(b)) \in Seq(Unit)
         /\ Came(SubSeq(b, EndIn(b) + 1, Len(b)) \o c, d, k)
<1>1. PICK p : p = SubSeq(b, 1, EndIn(b))
  OBVIOUS
<1>2. PICK q : q = SubSeq(b, EndIn(b) + 1, Len(b))
  OBVIOUS
<1>3. IsLine(p) /\ q \in Seq(Unit) /\ p \o q = b /\ SubSeq(b, 1, EndIn(b) - 1) = SubSeq(p, 1, Len(p) - 1)
  BY <1>1, <1>2, CutAtEnd, Zenon
<1>4. p \in Seq(Unit) /\ Len(p) \in Nat \ {0}
  BY <1>3, Zenon DEF IsLine
<1>5. q \o c \in Seq(Unit)
  BY <1>3, Joined, Zenon
<1>6. b \o c = p \o (q \o c)
  <2>0. q \in Seq(Unit)
    BY <1>3
  <2>1. (p \o q) \o c = p \o (q \o c)
    <3>1. Assoc(p, q, c)
      BY <1>4, <2>0, Regrouped, Zenon
    <3> QED
      BY <3>1 DEF Assoc
  <2> QED
    BY <1>3, <2>1
<1>7. g \o (p \o (q \o c)) = (g \o p) \o (q \o c)
  <2>1. Assoc(g, p, q \o c)
    BY <1>4, <1>5, Regrouped, Zenon
  <2> QED
    BY <2>1 DEF Assoc
<1>8. Came((g \o p) \o (q \o c), l \o d, k)
  BY <1>6, <1>7, Zenon
<1>9. IsLine(g \o p)
  BY <1>3, LineOfPieces, Zenon
<1>10. g \o p = l /\ Came(q \o c, d, k)
  BY <1>5, <1>8, <1>9, SameLine, Zenon
<1>11. g \o SubSeq(p, 1, Len(p) - 1) = SubSeq(g \o p, 1, Len(g \o p) - 1)
  BY <1>4, WithoutEnd, Zenon
<1>12. SameText(g, b, l)
  BY <1>3, <1>10, <1>11, Zenon DEF SameText
<1> QED
  BY <1>2, <1>3, <1>10, <1>12, Zenon

-----------------------------------------------------------------------------
(* What a message is made of.                                                *)

\* The last 0 to m parts of n.
Lasts(f, parts, n, m) == f = [i \in 0..m |-> IF i = 0 THEN <<>> ELSE parts[n + 1 - i] \o f[i - 1]]

\* There are such sequences.
LEMMA LastsExist ==
  ASSUME NEW parts, NEW n \in Nat, NEW N \in Nat
  PROVE  \E f : Lasts(f, parts, N, n)
<1> DEFINE Bad == {m \in Nat : ~ \E f : Lasts(f, parts, N, m)}
<1>1. SUFFICES ASSUME Bad # {} PROVE FALSE
  OBVIOUS
<1>2. PICK m \in Bad : \A k \in Bad : m <= k
  <2>1. Bad \subseteq Nat
    OBVIOUS
  <2> HIDE DEF Bad
  <2> QED
    BY <1>1, <2>1, LeastMember
<1>3. m # 0
  <2>1. PICK g : g = [i \in 0..0 |-> <<>>]
    OBVIOUS
  <2>2. \A i \in 0..0 : i = 0
    OBVIOUS
  <2>3. Lasts(g, parts, N, 0)
    BY <2>1, <2>2 DEF Lasts
  <2> QED
    BY <2>3
<1>4. m \in Nat /\ m - 1 \in Nat /\ ~(m <= m - 1)
  BY <1>3
<1>5. m - 1 \notin Bad
  <2> HIDE DEF Bad
  <2> QED
    BY <1>2, <1>4
<1>6. PICK g : Lasts(g, parts, N, m - 1)
  BY <1>4, <1>5
<1>7. PICK h : h = [i \in 0..m |-> IF i = m THEN parts[N + 1 - m] \o g[m - 1] ELSE g[i]]
  OBVIOUS
<1>8. ASSUME NEW i \in 0..m PROVE h[i] = IF i = 0 THEN <<>> ELSE parts[N + 1 - i] \o h[i - 1]
  <2>1. CASE i = m
    <3>1. h[m] = parts[N + 1 - m] \o g[m - 1] /\ h[m - 1] = g[m - 1]
      BY <1>4, <1>7
    <3> QED
      BY <1>3, <2>1, <3>1
  <2>2. CASE i # m
    <3>1. i \in 0..(m - 1) /\ h[i] = g[i]
      BY <1>4, <1>7, <2>2
    <3>2. g[i] = IF i = 0 THEN <<>> ELSE parts[N + 1 - i] \o g[i - 1]
      BY <1>6, <3>1 DEF Lasts
    <3>3. i # 0 => h[i - 1] = g[i - 1]
      BY <1>4, <1>7, <3>1
    <3> QED
      BY <3>1, <3>2, <3>3
  <2> QED
    BY <2>1, <2>2
<1>9. Lasts(h, parts, N, m)
  BY <1>7, <1>8 DEF Lasts
<1> QED
  BY <1>9

\* A sequence of n parts of a stream.
AreParts(parts, n) == n \in Nat /\ Len(parts) = n /\ \A i \in 1..n : parts[i] \in Seq(Unit)

\* The last parts begin with the first of them.
LEMMA LastOfStep ==
  ASSUME NEW parts, NEW n, AreParts(parts, n)
  PROVE  /\ LastOf(parts, 0) = <<>>
         /\ \A k \in 1..n : LastOf(parts, k) = parts[n + 1 - k] \o LastOf(parts, k - 1)
<1>1. n \in Nat /\ Len(parts) = n
  BY DEF AreParts
<1>2. PICK c : c = CHOOSE f : f = [i \in 0..n |-> IF i = 0 THEN <<>> ELSE parts[n + 1 - i] \o f[i - 1]]
  OBVIOUS
<1>3. c = [i \in 0..n |-> IF i = 0 THEN <<>> ELSE parts[n + 1 - i] \o c[i - 1]]
  <2>1. \E f : f = [i \in 0..n |-> IF i = 0 THEN <<>> ELSE parts[n + 1 - i] \o f[i - 1]]
    <3>1. \E f : Lasts(f, parts, n, n)
      BY <1>1, LastsExist
    <3> QED
      BY <3>1, Zenon DEF Lasts
  <2> QED
    BY <1>2, <2>1, Zenon
<1>4. ASSUME NEW k PROVE LastOf(parts, k) = c[k]
  BY <1>1, <1>2 DEF LastOf
<1>5. c[0] = <<>>
  BY <1>1, <1>3
<1>6. \A k \in 1..n : c[k] = parts[n + 1 - k] \o c[k - 1]
  BY <1>1, <1>3
<1> HIDE DEF LastOf
<1> QED
  BY <1>4, <1>5, <1>6

\* The last parts are a stream.
LEMMA LastOfStream ==
  ASSUME NEW parts, NEW n, AreParts(parts, n), NEW k \in 0..n
  PROVE  LastOf(parts, k) \in Seq(Unit)
<1> DEFINE Bad == {m \in Nat : m <= n /\ LastOf(parts, m) \notin Seq(Unit)}
<1>0. n \in Nat
  BY DEF AreParts
<1>1. SUFFICES ASSUME Bad # {} PROVE FALSE
  BY <1>0
<1>2. PICK m \in Bad : \A j \in Bad : m <= j
  <2>1. Bad \subseteq Nat
    OBVIOUS
  <2> HIDE DEF Bad
  <2> QED
    BY <1>1, <2>1, LeastMember
<1>3. m # 0
  <2>1. LastOf(parts, 0) \in Seq(Unit)
    <3> HIDE DEF Bad
    <3>1. LastOf(parts, 0) = <<>>
      BY LastOfStep
    <3>2. << >> \in Seq(Unit)
      OBVIOUS
    <3> QED
      BY <3>1, <3>2, Zenon
  <2> QED
    BY <2>1
<1>4. m \in 1..n /\ m - 1 \in Nat /\ m - 1 <= n /\ ~(m <= m - 1)
  BY <1>0, <1>3
<1>5. m - 1 \notin Bad
  <2> HIDE DEF Bad
  <2> QED
    BY <1>2, <1>4
<1>6. LastOf(parts, m - 1) \in Seq(Unit)
  BY <1>4, <1>5
<1>7. LastOf(parts, m) = parts[n + 1 - m] \o LastOf(parts, m - 1)
  BY <1>4, LastOfStep
<1>8. parts[n + 1 - m] \in Seq(Unit)
  <2>1. n + 1 - m \in 1..n
    BY <1>0, <1>4
  <2> QED
    BY <2>1 DEF AreParts
<1>9. LastOf(parts, m) \in Seq(Unit)
  BY <1>6, <1>7, <1>8, Joined
<1> QED
  BY <1>9

\* The sums of the first 0 to m sizes.
Sums(f, sizes, m) == f = [i \in 0..m |-> IF i = 0 THEN 0 ELSE f[i - 1] + sizes[i]]

\* There are such sums.
LEMMA SumsExist ==
  ASSUME NEW sizes, NEW n \in Nat
  PROVE  \E f : Sums(f, sizes, n)
<1> DEFINE Bad == {m \in Nat : ~ \E f : Sums(f, sizes, m)}
<1>1. SUFFICES ASSUME Bad # {} PROVE FALSE
  OBVIOUS
<1>2. PICK m \in Bad : \A k \in Bad : m <= k
  <2>1. Bad \subseteq Nat
    OBVIOUS
  <2> HIDE DEF Bad
  <2> QED
    BY <1>1, <2>1, LeastMember
<1>3. m # 0
  <2>1. PICK g : g = [i \in 0..0 |-> 0]
    OBVIOUS
  <2>2. \A i \in 0..0 : i = 0
    OBVIOUS
  <2>3. Sums(g, sizes, 0)
    BY <2>1, <2>2 DEF Sums
  <2> QED
    BY <2>3
<1>4. m \in Nat /\ m - 1 \in Nat /\ ~(m <= m - 1)
  BY <1>3
<1>5. m - 1 \notin Bad
  <2> HIDE DEF Bad
  <2> QED
    BY <1>2, <1>4
<1>6. PICK g : Sums(g, sizes, m - 1)
  BY <1>4, <1>5
<1>7. PICK h : h = [i \in 0..m |-> IF i = m THEN g[m - 1] + sizes[m] ELSE g[i]]
  OBVIOUS
<1>8. ASSUME NEW i \in 0..m PROVE h[i] = IF i = 0 THEN 0 ELSE h[i - 1] + sizes[i]
  <2>1. CASE i = m
    <3>1. h[m] = g[m - 1] + sizes[m] /\ h[m - 1] = g[m - 1]
      BY <1>4, <1>7
    <3> QED
      BY <1>3, <2>1, <3>1
  <2>2. CASE i # m
    <3>1. i \in 0..(m - 1) /\ h[i] = g[i]
      BY <1>4, <1>7, <2>2
    <3>2. g[i] = IF i = 0 THEN 0 ELSE g[i - 1] + sizes[i]
      BY <1>6, <3>1 DEF Sums
    <3>3. i # 0 => h[i - 1] = g[i - 1]
      BY <1>4, <1>7, <3>1
    <3> QED
      BY <3>1, <3>2, <3>3
  <2> QED
    BY <2>1, <2>2
<1>9. Sums(h, sizes, m)
  BY <1>7, <1>8 DEF Sums
<1> QED
  BY <1>9

\* The bytes of one chunk more.
LEMMA BytesInStep ==
  ASSUME NEW sizes \in Seq(Nat \ {0})
  PROVE  /\ BytesIn(sizes, 0) = 0
         /\ \A k \in 1..Len(sizes) : BytesIn(sizes, k) = BytesIn(sizes, k - 1) + sizes[k]
<1>1. PICK n \in Nat : n = Len(sizes)
  OBVIOUS
<1>2. PICK c : c = CHOOSE f : f = [i \in 0..n |-> IF i = 0 THEN 0 ELSE f[i - 1] + sizes[i]]
  OBVIOUS
<1>3. c = [i \in 0..n |-> IF i = 0 THEN 0 ELSE c[i - 1] + sizes[i]]
  BY <1>1, <1>2, SumsExist DEF Sums
<1>4. ASSUME NEW k PROVE BytesIn(sizes, k) = c[k]
  BY <1>1, <1>2 DEF BytesIn
<1>5. c[0] = 0
  BY <1>1, <1>3
<1>6. \A k \in 1..n : c[k] = c[k - 1] + sizes[k]
  BY <1>1, <1>3
<1> QED
  BY <1>1, <1>4, <1>5, <1>6

\* The bytes are a number, and no more in some chunks than in all.
LEMMA BytesInBounds ==
  ASSUME NEW sizes \in Seq(Nat \ {0}), NEW k \in 0..Len(sizes)
  PROVE  BytesIn(sizes, k) \in Nat /\ BytesIn(sizes, k) <= BytesIn(sizes, Len(sizes))
<1>1. PICK n \in Nat : n = Len(sizes)
  OBVIOUS
<1>2. BytesIn(sizes, 0) = 0 /\ \A j \in 1..n : BytesIn(sizes, j) = BytesIn(sizes, j - 1) + sizes[j]
  BY <1>1, BytesInStep
<1>3. \A j \in 1..n : sizes[j] \in Nat
  BY <1>1
<1>4. ASSUME NEW j \in Nat, j <= n PROVE BytesIn(sizes, j) \in Nat
  <2> DEFINE Bad == {m \in Nat : m <= n /\ BytesIn(sizes, m) \notin Nat}
  <2>1. SUFFICES ASSUME Bad # {} PROVE FALSE
    BY <1>4
  <2>2. PICK m \in Bad : \A i \in Bad : m <= i
    <3>1. Bad \subseteq Nat
      OBVIOUS
    <3> HIDE DEF Bad
    <3> QED
      BY <2>1, <3>1, LeastMember
  <2>3. m # 0
    BY <1>2
  <2>4. m \in 1..n /\ m - 1 \in Nat /\ m - 1 <= n /\ ~(m <= m - 1)
    BY <1>1, <2>3
  <2>5. m - 1 \notin Bad
    <3> HIDE DEF Bad
    <3> QED
      BY <2>2, <2>4
  <2>6. BytesIn(sizes, m - 1) \in Nat /\ sizes[m] \in Nat
    BY <1>3, <2>4, <2>5
  <2>7. BytesIn(sizes, m) \in Nat
    BY <1>2, <2>4, <2>6
  <2> QED
    BY <2>7
<1>5. ASSUME NEW j \in Nat, j <= n PROVE BytesIn(sizes, n - j) <= BytesIn(sizes, n)
  <2> DEFINE Bad == {m \in Nat : m <= n /\ ~(BytesIn(sizes, n - m) <= BytesIn(sizes, n))}
  <2>1. SUFFICES ASSUME Bad # {} PROVE FALSE
    BY <1>5
  <2>2. PICK m \in Bad : \A i \in Bad : m <= i
    <3>1. Bad \subseteq Nat
      OBVIOUS
    <3> HIDE DEF Bad
    <3> QED
      BY <2>1, <3>1, LeastMember
  <2>3. m # 0
    <3>1. BytesIn(sizes, n) \in Nat /\ n - 0 = n
      BY <1>1, <1>4
    <3> QED
      BY <3>1
  <2>4. m - 1 \in Nat /\ m - 1 <= n /\ ~(m <= m - 1)
    BY <1>1, <2>3
  <2>5. m - 1 \notin Bad
    <3> HIDE DEF Bad
    <3> QED
      BY <2>2, <2>4
  <2>6. BytesIn(sizes, n - (m - 1)) <= BytesIn(sizes, n)
    BY <2>4, <2>5
  <2>7. PICK p \in 1..n : p = n - (m - 1) /\ p - 1 = n - m
    <3>1. n - (m - 1) \in 1..n /\ (n - (m - 1)) - 1 = n - m
      BY <1>1, <2>3
    <3> QED
      BY <3>1
  <2>8. BytesIn(sizes, p) = BytesIn(sizes, p - 1) + sizes[p] /\ sizes[p] \in Nat
    BY <1>2, <1>3, <2>7
  <2>9. BytesIn(sizes, p - 1) \in Nat /\ BytesIn(sizes, n) \in Nat
    BY <1>1, <1>4, <2>7
  <2>10. BytesIn(sizes, p - 1) <= BytesIn(sizes, n)
    BY <2>6, <2>7, <2>8, <2>9
  <2> QED
    BY <2>7, <2>10
<1>6. k \in Nat /\ k <= n /\ n - k \in Nat /\ n - k <= n /\ n - (n - k) = k
  BY <1>1
<1> QED
  BY <1>1, <1>4, <1>5, <1>6

-----------------------------------------------------------------------------
(* What is due.                                                              *)

LineEnd == <<CR, LF>>
Behind == <<Surplus>>

\* The last k trailers and what follows, the last chunk, the last k chunks before it.
TrailersDue(m, k) == LastOf(LinesOf(m.trailers), k) \o (LineEnd \o Behind)
LastChunkDue(m) == LineOf(<<"size", 0>>) \o TrailersDue(m, Len(m.trailers))
ChunksDue(m, k) == LastOf(Chunks(m), k) \o LastChunkDue(m)

\* The k-th chunk from the end: the bytes before it, its size, its bytes, what follows them.
BytesBefore(m, k) == BytesIn(m.chunks, Len(m.chunks) - k)
ChunkOf(m, k) == m.chunks[Len(m.chunks) + 1 - k]
TailDue(m, k) == DataFrom(BytesBefore(m, k) + ChunkOf(m, k), m.spill) \o (LineEnd \o ChunksDue(m, k - 1))
BytesDue(m, k) == DataFrom(BytesBefore(m, k), ChunkOf(m, k)) \o TailDue(m, k)

BodyDue(m) == BodyOf(m) \o Behind
FieldsDue(m, k) == LastOf(LinesOf(m.fields), k) \o (LineEnd \o BodyDue(m))
HeadDue(m) == LineOf(<<"status", m.code>>) \o FieldsDue(m, Len(m.fields))
StatusDue(m, k) == LastOf(Interims(m), k) \o HeadDue(m)

\* A stream that does not end yet.
Due(d) == d \in Seq(Unit) /\ Len(d) \in Nat \ {0}

\* What precedes something due is due too.
LEMMA DueAfter ==
  ASSUME NEW s \in Seq(Unit), NEW d, Due(d)
  PROVE  Due(s \o d) /\ d \in Seq(Unit) /\ s \o d \in Seq(Unit)
<1>1. d \in Seq(Unit) /\ Len(d) \in Nat \ {0} /\ Len(s) \in Nat
  BY DEF Due
<1>2. s \o d \in Seq(Unit) /\ Len(s \o d) = Len(s) + Len(d)
  BY <1>1, Joined
<1>3. Len(s \o d) \in Nat \ {0}
  BY <1>1, <1>2
<1> QED
  BY <1>1, <1>2, <1>3 DEF Due

\* The last k of n parts of a stream and what follows them begin with the first of them.
StepsAt(parts, n, t, k) == LastOf(parts, k) \o t = parts[n + 1 - k] \o (LastOf(parts, k - 1) \o t)

\* So they do.
LEMMA PartsStep ==
  ASSUME NEW parts, NEW n, AreParts(parts, n), NEW t, Due(t), NEW k \in 1..n
  PROVE  StepsAt(parts, n, t, k)
<1>0. n \in Nat /\ t \in Seq(Unit)
  BY DEF AreParts, Due
<1>1. n + 1 - k \in 1..n /\ k - 1 \in 0..n
  BY <1>0
<1>2. PICK p : p = parts[n + 1 - k]
  OBVIOUS
<1>3. PICK r : r = LastOf(parts, k - 1)
  OBVIOUS
<1>4. p \in Seq(Unit)
  BY <1>1, <1>2 DEF AreParts
<1>5. r \in Seq(Unit)
  BY <1>1, <1>3, LastOfStream
<1>6. LastOf(parts, k) = p \o r
  BY <1>2, <1>3, LastOfStep
<1>7. (p \o r) \o t = p \o (r \o t)
  <2>1. Assoc(p, r, t)
    BY <1>0, <1>4, <1>5, Regrouped, Zenon
  <2> QED
    BY <2>1 DEF Assoc
<1> QED
  BY <1>2, <1>3, <1>6, <1>7 DEF StepsAt

\* Parts of a stream, and what follows them.
LEMMA PartsDue ==
  ASSUME NEW parts, NEW n, AreParts(parts, n), NEW t, Due(t)
  PROVE  LastOf(parts, 0) \o t = t /\ \A k \in 0..n : Due(LastOf(parts, k) \o t)
<1>0. n \in Nat /\ t \in Seq(Unit)
  BY DEF AreParts, Due
<1>1. LastOf(parts, 0) \o t = t
  <2>1. LastOf(parts, 0) = <<>>
    BY LastOfStep
  <2>2. << >> \o t = t
    BY <1>0, Nothing
  <2> QED
    BY <2>1, <2>2
<1>2. ASSUME NEW k \in 0..n PROVE Due(LastOf(parts, k) \o t)
  <2>1. LastOf(parts, k) \in Seq(Unit)
    BY LastOfStream
  <2> QED
    BY <2>1, DueAfter
<1> QED
  BY <1>1, <1>2

\* The units of a line, of a line end and behind all.
LEMMA LineUnits ==
  ASSUME NEW u \in Unit
  PROVE  /\ LineOf(u) \in Seq(Unit) /\ Len(LineOf(u)) = 3
         /\ LineOf(u)[1] = u /\ LineOf(u)[2] = CR /\ LineOf(u)[3] = LF
<1>1. CR \in Unit /\ LF \in Unit
  BY DEF Unit
<1> QED
  BY <1>1 DEF LineOf

\* CR and LF are two units.
LEMMA EndUnits ==
  /\ LineEnd \in Seq(Unit) /\ Len(LineEnd) = 2 /\ LineEnd[1] = CR /\ LineEnd[2] = LF /\ CR # LF
<1>1. CR \in Unit /\ LF \in Unit
  BY DEF Unit
<1>2. CR[1] # LF[1]
  BY DEF CR, LF
<1>3. CR # LF
  BY <1>2
<1> QED
  BY <1>1, <1>3 DEF LineEnd

\* The one unit behind the message.
LEMMA BehindUnits == Due(Behind) /\ Behind \in Seq(Unit) /\ Len(Behind) = 1
<1>1. Surplus \in Unit
  BY DEF Unit
<1> QED
  BY <1>1 DEF Behind, Due

\* What a line may say.
LEMMA FieldUnits ==
  ASSUME NEW u \in Field
  PROVE  u \in Unit /\ u # LF
<1>1. u \in Unit
  BY DEF Unit
<1>2. LF[1] = "lf"
  BY DEF LF
<1>3. u[1] # "lf"
  BY DEF Field
<1> QED
  BY <1>1, <1>2, <1>3

\* A status, a size or a byte.
LEMMA NumberUnits ==
  ASSUME NEW kind \in {"status", "size", "data"}, NEW n \in Nat
  PROVE  <<kind, n>> \in Unit /\ <<kind, n>> # LF /\ <<kind, n>> # CR
<1>1. <<kind, n>> \in Unit
  BY DEF Unit
<1>2. LF[1] = "lf" /\ CR[1] = "cr"
  BY DEF LF, CR
<1>3. <<kind, n>>[1] # "lf" /\ <<kind, n>>[1] # "cr"
  OBVIOUS
<1> QED
  BY <1>1, <1>2, <1>3

\* Data bytes.
LEMMA DataUnits ==
  ASSUME NEW a \in Nat, NEW n \in Nat
  PROVE  /\ DataFrom(a, n) \in Seq(Unit) /\ Len(DataFrom(a, n)) = n
         /\ \A i \in 1..n : DataFrom(a, n)[i] = <<"data", a + i>>
<1>1. \A i \in 1..n : <<"data", a + i>> \in Unit
  <2> TAKE i \in 1..n
  <2>1. a + i \in Nat
    OBVIOUS
  <2> QED
    BY <2>1, NumberUnits
<1> QED
  BY <1>1 DEF DataFrom

\* Data bytes and the ones after them.
LEMMA DataJoined ==
  ASSUME NEW a \in Nat, NEW n \in Nat, NEW k \in Nat
  PROVE  DataFrom(a, n) \o DataFrom(a + n, k) = DataFrom(a, n + k)
<1>1. PICK s : s = DataFrom(a, n)
  OBVIOUS
<1>2. s \in Seq(Unit) /\ Len(s) = n /\ \A i \in 1..n : s[i] = <<"data", a + i>>
  BY <1>1, DataUnits
<1>3. PICK t : t = DataFrom(a + n, k)
  OBVIOUS
<1>4. t \in Seq(Unit) /\ Len(t) = k /\ \A i \in 1..k : t[i] = <<"data", (a + n) + i>>
  <2>1. PICK b \in Nat : b = a + n
    OBVIOUS
  <2>2. t = DataFrom(b, k)
    BY <1>3, <2>1
  <2>3. t \in Seq(Unit) /\ Len(t) = k /\ \A i \in 1..k : t[i] = <<"data", b + i>>
    BY <2>2, DataUnits
  <2> QED
    BY <2>1, <2>3
<1>5. PICK x : x = s \o t
  OBVIOUS
<1>6. /\ x \in Seq(Unit) /\ Len(x) = Len(s) + Len(t)
      /\ (\A i \in 1..Len(s) : x[i] = s[i]) /\ (\A i \in 1..Len(t) : x[Len(s) + i] = t[i])
  BY <1>2, <1>4, <1>5, Joined
<1>7. Len(x) = n + k /\ (\A i \in 1..n : x[i] = s[i]) /\ (\A i \in 1..k : x[n + i] = t[i])
  BY <1>2, <1>4, <1>6
<1>8. PICK y : y = DataFrom(a, n + k)
  OBVIOUS
<1>9. PICK N \in Nat : N = n + k
  OBVIOUS
<1>10. y \in Seq(Unit) /\ Len(y) = N /\ \A i \in 1..N : y[i] = <<"data", a + i>>
  BY <1>8, <1>9, DataUnits
<1>11. ASSUME NEW i \in 1..N PROVE x[i] = y[i]
  <2>1. CASE i <= n
    <3>1. i \in 1..n
      BY <1>9, <2>1
    <3> QED
      BY <1>2, <1>7, <1>10, <3>1
  <2>2. CASE ~(i <= n)
    <3>1. PICK j \in 1..k : i = n + j
      <4>1. i - n \in 1..k /\ i = n + (i - n)
        BY <1>9, <2>2
      <4> QED
        BY <4>1
    <3>2. (a + n) + j = a + i
      BY <3>1
    <3>3. x[i] = <<"data", a + i>>
      BY <1>4, <1>7, <3>1, <3>2
    <3> QED
      BY <1>10, <3>3
  <2> QED
    BY <2>1, <2>2
<1>12. x = y
  <2>1. Len(x) = N /\ \A i \in 1..N : x[i] = y[i]
    BY <1>7, <1>9, <1>11
  <2> QED
    BY <1>6, <1>9, <1>10, <2>1, SameUnits
<1> QED
  BY <1>1, <1>3, <1>5, <1>8, <1>12

\* What a message has.
LEMMA MessageHas ==
  ASSUME NEW m, IsMessage(m)
  PROVE  /\ m.interim \in Nat /\ m.code \in Nat /\ ~(m.code < 200) /\ m.spill \in Nat
         /\ m.fields \in Seq(Field) /\ m.trailers \in Seq(Field) /\ m.chunks \in Seq(Nat \ {0})
         /\ Len(m.fields) \in Nat /\ Len(m.trailers) \in Nat /\ Len(m.chunks) \in Nat
<1>1. m \in [method : STRING, interim : Nat, code : Nat \ (0..199), fields : Seq(Field),
             chunks : Seq(Nat \ {0}), spill : Nat, trailers : Seq(Field)]
  BY Zenon DEF IsMessage
<1>2. /\ m.interim \in Nat /\ m.code \in Nat \ (0..199) /\ m.spill \in Nat
      /\ m.fields \in Seq(Field) /\ m.trailers \in Seq(Field) /\ m.chunks \in Seq(Nat \ {0})
  BY <1>1
<1>3. PICK c : c = m.code
  OBVIOUS
<1>4. c \in Nat /\ ~(c < 200)
  <2>1. c \in Nat \ (0..199)
    BY <1>2, <1>3, Zenon
  <2> QED
    BY <2>1
<1>5. ASSUME NEW S, NEW s \in Seq(S) PROVE Len(s) \in Nat
  OBVIOUS
<1>6. Len(m.fields) \in Nat /\ Len(m.trailers) \in Nat /\ Len(m.chunks) \in Nat
  BY <1>2, <1>5, Zenon
<1> QED
  BY <1>2, <1>3, <1>4, <1>6, Zenon

\* The lines of some headers.
LEMMA LinesParts ==
  ASSUME NEW fs \in Seq(Field)
  PROVE  /\ AreParts(LinesOf(fs), Len(fs))
         /\ \A i \in 1..Len(fs) : LinesOf(fs)[i] = LineOf(fs[i]) /\ fs[i] \in Field
<1>1. PICK n \in Nat : n = Len(fs)
  OBVIOUS
<1>2. ASSUME NEW i \in 1..n PROVE fs[i] \in Field /\ LineOf(fs[i]) \in Seq(Unit)
  <2>1. fs[i] \in Field
    BY <1>1
  <2> QED
    BY <2>1, FieldUnits, LineUnits
<1>3. PICK ls : ls = LinesOf(fs)
  OBVIOUS
<1>4. Len(ls) = n /\ \A i \in 1..n : ls[i] = LineOf(fs[i])
  BY <1>1, <1>3 DEF LinesOf
<1>5. AreParts(ls, n)
  BY <1>2, <1>4 DEF AreParts
<1> QED
  BY <1>1, <1>2, <1>3, <1>4, <1>5

\* The interim responses.
LEMMA InterimParts ==
  ASSUME NEW m, IsMessage(m)
  PROVE  /\ AreParts(Interims(m), m.interim)
         /\ \A i \in 1..m.interim : Interims(m)[i] = LineOf(<<"status", 100>>) \o LineEnd
<1>1. m.interim \in Nat
  BY MessageHas
<1>2. PICK n \in Nat : n = m.interim
  BY <1>1
<1>3. PICK l : l = LineOf(<<"status", 100>>) \o LineEnd
  OBVIOUS
<1>4. l \in Seq(Unit)
  <2>1. <<"status", 100>> \in Unit
    BY NumberUnits
  <2>2. LineOf(<<"status", 100>>) \in Seq(Unit)
    BY <2>1, LineUnits
  <2> QED
    BY <1>3, <2>2, EndUnits, Joined
<1>5. PICK ls : ls = Interims(m)
  OBVIOUS
<1>6. ls = [i \in 1..n |-> l]
  BY <1>2, <1>3, <1>5 DEF Interims, LineEnd
<1>7. Len(ls) = n /\ \A i \in 1..n : ls[i] = l
  BY <1>6
<1>8. AreParts(ls, n)
  BY <1>4, <1>7 DEF AreParts
<1> QED
  BY <1>2, <1>3, <1>5, <1>7, <1>8

\* The bytes before a chunk.
LEMMA ChunkHas ==
  ASSUME NEW m, IsMessage(m), NEW k \in 1..Len(m.chunks)
  PROVE  /\ BytesBefore(m, k) \in Nat /\ ChunkOf(m, k) \in Nat \ {0}
         /\ BytesBefore(m, k - 1) = BytesBefore(m, k) + ChunkOf(m, k)
         /\ BytesBefore(m, k - 1) <= Total(m) /\ Total(m) \in Nat
<1>1. PICK s : s = m.chunks
  OBVIOUS
<1>2. s \in Seq(Nat \ {0})
  BY <1>1, MessageHas
<1>3. PICK n \in Nat : n = Len(s)
  BY <1>2
<1>4. k \in 1..n
  BY <1>1, <1>3
<1>5. PICK j \in 1..n : j = n + 1 - k /\ j = n - (k - 1) /\ j - 1 = n - k
  <2>1. n + 1 - k \in 1..n /\ n + 1 - k = n - (k - 1) /\ (n + 1 - k) - 1 = n - k
    BY <1>3, <1>4
  <2> QED
    BY <2>1
<1>6. BytesIn(s, j) = BytesIn(s, j - 1) + s[j] /\ s[j] \in Nat \ {0}
  <2>1. s[j] \in Nat \ {0}
    BY <1>2, <1>3, <1>5
  <2>2. \A i \in 1..n : BytesIn(s, i) = BytesIn(s, i - 1) + s[i]
    BY <1>2, <1>3, BytesInStep
  <2> QED
    BY <1>5, <2>1, <2>2, Zenon
<1>7. BytesIn(s, j - 1) \in Nat
  <2>1. j - 1 \in 0..Len(s)
    BY <1>3, <1>5
  <2> QED
    BY <1>2, <2>1, BytesInBounds
<1>8. BytesIn(s, j) <= BytesIn(s, n)
  <2>1. j \in 0..Len(s)
    BY <1>3, <1>5
  <2> QED
    BY <1>2, <1>3, <2>1, BytesInBounds
<1>9. BytesIn(s, n) \in Nat
  <2>1. n \in 0..Len(s)
    BY <1>3
  <2> QED
    BY <1>2, <2>1, BytesInBounds
<1>10. BytesBefore(m, k) = BytesIn(s, j - 1)
  BY <1>1, <1>3, <1>5 DEF BytesBefore
<1>11. BytesBefore(m, k - 1) = BytesIn(s, j)
  BY <1>1, <1>3, <1>5 DEF BytesBefore
<1>12. ChunkOf(m, k) = s[j]
  BY <1>1, <1>3, <1>5 DEF ChunkOf
<1>13. Total(m) = BytesIn(s, n)
  BY <1>1, <1>3 DEF Total
<1> QED
  BY <1>6, <1>7, <1>8, <1>9, <1>10, <1>11, <1>12, <1>13

\* Before the first chunk there is nothing, before the end all.
LEMMA ChunkEnds ==
  ASSUME NEW m, IsMessage(m)
  PROVE  /\ BytesBefore(m, Len(m.chunks)) = 0 /\ BytesBefore(m, 0) = Total(m)
         /\ Total(m) \in Nat
<1>1. PICK s : s = m.chunks
  OBVIOUS
<1>2. s \in Seq(Nat \ {0})
  BY <1>1, MessageHas
<1>3. PICK n \in Nat : n = Len(s)
  BY <1>2
<1>4. n - n = 0 /\ n - 0 = n /\ n \in 0..Len(s)
  BY <1>3
<1>5. BytesIn(s, 0) = 0
  BY <1>2, BytesInStep
<1>6. BytesIn(s, n) \in Nat
  BY <1>2, <1>4, BytesInBounds
<1>7. BytesBefore(m, n) = BytesIn(s, 0)
  BY <1>1, <1>3, <1>4 DEF BytesBefore
<1>8. BytesBefore(m, 0) = BytesIn(s, n)
  BY <1>1, <1>3, <1>4 DEF BytesBefore
<1>9. Total(m) = BytesIn(s, n)
  BY <1>1, <1>3 DEF Total
<1> QED
  BY <1>1, <1>3, <1>5, <1>6, <1>7, <1>8, <1>9

\* A chunk is its size, its bytes, what it has too many, and a line end.
ChunkText(m, i) ==
  LineOf(<<"size", m.chunks[i]>>)
    \o (DataFrom(BytesIn(m.chunks, i - 1), m.chunks[i] + m.spill) \o LineEnd)

\* The chunks.
LEMMA ChunkParts ==
  ASSUME NEW m, IsMessage(m)
  PROVE  /\ AreParts(Chunks(m), Len(m.chunks))
         /\ \A i \in 1..Len(m.chunks) : Chunks(m)[i] = ChunkText(m, i)
<1>1. PICK n \in Nat : n = Len(m.chunks)
  BY MessageHas
<1>2. m.chunks \in Seq(Nat \ {0}) /\ m.spill \in Nat
  BY MessageHas
<1>3. ASSUME NEW i \in 1..n PROVE ChunkText(m, i) \in Seq(Unit)
  <2>1. PICK c \in Nat : c = m.chunks[i]
    BY <1>1, <1>2
  <2>2. <<"size", c>> \in Unit
    BY NumberUnits
  <2>3. LineOf(<<"size", c>>) \in Seq(Unit)
    BY <2>2, LineUnits
  <2>4. PICK a \in Nat : a = BytesIn(m.chunks, i - 1)
    <3>1. i - 1 \in 0..Len(m.chunks)
      BY <1>1
    <3> QED
      BY <1>2, <3>1, BytesInBounds
  <2>5. c + m.spill \in Nat
    BY <1>2
  <2>6. DataFrom(a, c + m.spill) \in Seq(Unit)
    BY <2>5, DataUnits
  <2>7. DataFrom(a, c + m.spill) \o LineEnd \in Seq(Unit)
    BY <2>6, EndUnits, Joined
  <2>8. LineOf(<<"size", c>>) \o (DataFrom(a, c + m.spill) \o LineEnd) \in Seq(Unit)
    BY <2>3, <2>7, Joined
  <2> QED
    BY <2>1, <2>4, <2>8 DEF ChunkText
<1>4. PICK ps : ps = Chunks(m)
  OBVIOUS
<1>5. ps = [i \in 1..n |-> ChunkText(m, i)]
  BY <1>1, <1>4, Zenon DEF Chunks, ChunkText, LineEnd
<1>6. Len(ps) = n /\ \A i \in 1..n : ps[i] = ChunkText(m, i)
  BY <1>5
<1>7. AreParts(ps, n)
  BY <1>3, <1>6 DEF AreParts
<1> QED
  BY <1>1, <1>4, <1>6, <1>7

\* The last k of n headers and what follows them begin with the first of them.
HeaderAt(fs, n, t, k) ==
  /\ fs[n + 1 - k] \in Field
  /\ LastOf(LinesOf(fs), k) \o t = LineOf(fs[n + 1 - k]) \o (LastOf(LinesOf(fs), k - 1) \o t)

\* So they do.
LEMMA LinesStep ==
  ASSUME NEW fs \in Seq(Field), NEW t, Due(t), NEW n, n = Len(fs), NEW k \in 1..n
  PROVE  HeaderAt(fs, n, t, k)
<1>1. PICK ls : ls = LinesOf(fs)
  OBVIOUS
<1>2. AreParts(ls, n)
  BY <1>1, LinesParts
<1>3. n \in Nat /\ \A i \in 1..n : ls[i] = LineOf(fs[i]) /\ fs[i] \in Field
  BY <1>1, LinesParts
<1>4. n + 1 - k \in 1..n
  BY <1>3
<1>5. ls[n + 1 - k] = LineOf(fs[n + 1 - k]) /\ fs[n + 1 - k] \in Field
  BY <1>3, <1>4
<1>6. LastOf(ls, k) \o t = ls[n + 1 - k] \o (LastOf(ls, k - 1) \o t)
  <2>1. StepsAt(ls, n, t, k)
    BY <1>2, PartsStep
  <2> QED
    BY <2>1 DEF StepsAt
<1> QED
  BY <1>1, <1>5, <1>6 DEF HeaderAt

\* The last headers, and what follows them.
LEMMA LinesDue ==
  ASSUME NEW fs \in Seq(Field), NEW t, Due(t), NEW n, n = Len(fs)
  PROVE  LastOf(LinesOf(fs), 0) \o t = t /\ \A k \in 0..n : Due(LastOf(LinesOf(fs), k) \o t)
<1>1. AreParts(LinesOf(fs), n)
  BY LinesParts
<1> QED
  BY <1>1, PartsDue, Zenon

\* What follows the trailers.
LEMMA TrailersTail == Due(LineEnd \o Behind)
  BY BehindUnits, EndUnits, DueAfter

\* The trailers.
LEMMA TrailersAreDue ==
  ASSUME NEW m, IsMessage(m), NEW n, n = Len(m.trailers)
  PROVE  TrailersDue(m, 0) = LineEnd \o Behind /\ \A k \in 0..n : Due(TrailersDue(m, k))
<1>1. PICK t : t = LineEnd \o Behind
  OBVIOUS
<1>2. Due(t)
  BY <1>1, TrailersTail
<1>3. PICK fs : fs = m.trailers
  OBVIOUS
<1>4. fs \in Seq(Field) /\ n = Len(fs)
  BY <1>3, MessageHas
<1>5. \A k : TrailersDue(m, k) = LastOf(LinesOf(fs), k) \o t
  BY <1>1, <1>3 DEF TrailersDue
<1>6. LastOf(LinesOf(fs), 0) \o t = t /\ \A k \in 0..n : Due(LastOf(LinesOf(fs), k) \o t)
  BY <1>2, <1>4, LinesDue, Zenon
<1> QED
  BY <1>1, <1>5, <1>6, Zenon

\* A trailer, and what follows it.
LEMMA TrailersStep ==
  ASSUME NEW m, IsMessage(m), NEW n, n = Len(m.trailers), NEW k \in 1..n
  PROVE  /\ m.trailers[n + 1 - k] \in Field
         /\ TrailersDue(m, k) = LineOf(m.trailers[n + 1 - k]) \o TrailersDue(m, k - 1)
<1>1. PICK t : t = LineEnd \o Behind
  OBVIOUS
<1>2. Due(t)
  BY <1>1, TrailersTail
<1>3. PICK fs : fs = m.trailers
  OBVIOUS
<1>4. fs \in Seq(Field) /\ n = Len(fs)
  BY <1>3, MessageHas
<1>5. \A j : TrailersDue(m, j) = LastOf(LinesOf(fs), j) \o t
  BY <1>1, <1>3 DEF TrailersDue
<1>6. HeaderAt(fs, n, t, k)
  BY <1>2, <1>4, LinesStep
<1> QED
  BY <1>3, <1>5, <1>6 DEF HeaderAt

\* What follows the last chunk.
LEMMA LastChunkIsDue ==
  ASSUME NEW m, IsMessage(m)
  PROVE  Due(LastChunkDue(m)) /\ Due(TrailersDue(m, Len(m.trailers)))
<1>1. PICK n \in Nat : n = Len(m.trailers)
  BY MessageHas
<1>2. n \in 0..n
  BY <1>1
<1>3. Due(TrailersDue(m, n))
  BY <1>1, <1>2, TrailersAreDue
<1>4. <<"size", 0>> \in Unit
  BY NumberUnits
<1>5. LineOf(<<"size", 0>>) \in Seq(Unit)
  BY <1>4, LineUnits
<1>6. Due(LineOf(<<"size", 0>>) \o TrailersDue(m, n))
  BY <1>3, <1>5, DueAfter
<1> QED
  BY <1>1, <1>3, <1>6 DEF LastChunkDue

\* The chunks.
LEMMA ChunksAreDue ==
  ASSUME NEW m, IsMessage(m), NEW n, n = Len(m.chunks)
  PROVE  ChunksDue(m, 0) = LastChunkDue(m) /\ \A k \in 0..n : Due(ChunksDue(m, k))
<1>1. PICK t : t = LastChunkDue(m)
  OBVIOUS
<1>2. Due(t)
  BY <1>1, LastChunkIsDue
<1>3. PICK ps : ps = Chunks(m)
  OBVIOUS
<1>4. AreParts(ps, n)
  BY <1>3, ChunkParts
<1>5. \A k : ChunksDue(m, k) = LastOf(ps, k) \o t
  BY <1>1, <1>3 DEF ChunksDue
<1>6. LastOf(ps, 0) \o t = t /\ \A k \in 0..n : Due(LastOf(ps, k) \o t)
  BY <1>2, <1>4, PartsDue, Zenon
<1> QED
  BY <1>1, <1>5, <1>6, Zenon

\* A chunk, and what follows it.
LEMMA ChunksStep ==
  ASSUME NEW m, IsMessage(m), NEW n, n = Len(m.chunks), NEW k \in 1..n
  PROVE  ChunksDue(m, k) = ChunkText(m, n + 1 - k) \o ChunksDue(m, k - 1)
<1>1. PICK t : t = LastChunkDue(m)
  OBVIOUS
<1>2. Due(t)
  BY <1>1, LastChunkIsDue
<1>3. PICK ps : ps = Chunks(m)
  OBVIOUS
<1>4. AreParts(ps, n) /\ \A i \in 1..n : ps[i] = ChunkText(m, i)
  BY <1>3, ChunkParts
<1>5. n + 1 - k \in 1..n
  BY <1>4 DEF AreParts
<1>6. \A j : ChunksDue(m, j) = LastOf(ps, j) \o t
  BY <1>1, <1>3 DEF ChunksDue
<1>7. LastOf(ps, k) \o t = ps[n + 1 - k] \o (LastOf(ps, k - 1) \o t)
  <2>1. AreParts(ps, n)
    BY <1>4
  <2> QED
    <3>1. StepsAt(ps, n, t, k)
      BY <1>2, <2>1, PartsStep
    <3> QED
      BY <3>1 DEF StepsAt
<1>8. ps[n + 1 - k] = ChunkText(m, n + 1 - k)
  BY <1>4, <1>5
<1> QED
  BY <1>6, <1>7, <1>8

\* A chunk's size line, its bytes and what follows.
LEMMA ChunkStep ==
  ASSUME NEW m, IsMessage(m), NEW k \in 1..Len(m.chunks)
  PROVE  /\ ChunksDue(m, k) = LineOf(<<"size", ChunkOf(m, k)>>) \o BytesDue(m, k)
         /\ Due(BytesDue(m, k)) /\ Due(TailDue(m, k)) /\ Due(ChunksDue(m, k - 1))
         /\ DataFrom(BytesBefore(m, k), ChunkOf(m, k)) \in Seq(Unit)
         /\ Len(DataFrom(BytesBefore(m, k), ChunkOf(m, k))) = ChunkOf(m, k)
         /\ LineOf(<<"size", ChunkOf(m, k)>>) \in Seq(Unit)
<1>1. PICK n \in Nat : n = Len(m.chunks)
  BY MessageHas
<1>2. PICK a \in Nat : a = BytesBefore(m, k)
  BY ChunkHas
<1>3. PICK c \in Nat : c = ChunkOf(m, k)
  BY ChunkHas
<1>4. PICK s \in Nat : s = m.spill
  BY MessageHas
<1>5. PICK l : l = LineOf(<<"size", c>>)
  OBVIOUS
<1>6. l \in Seq(Unit)
  <2>1. <<"size", c>> \in Unit
    BY NumberUnits
  <2> QED
    BY <1>5, <2>1, LineUnits
<1>7. PICK t : t = ChunksDue(m, k - 1)
  OBVIOUS
<1>8. Due(t) /\ t \in Seq(Unit)
  <2>1. k - 1 \in 0..n
    BY <1>1
  <2>2. Due(t)
    BY <1>1, <1>7, <2>1, ChunksAreDue
  <2> QED
    BY <2>2 DEF Due
<1>9. PICK d : d = DataFrom(a, c)
  OBVIOUS
<1>10. PICK e : e = DataFrom(a + c, s)
  OBVIOUS
<1>11. d \in Seq(Unit) /\ Len(d) = c
  BY <1>9, DataUnits
<1>12. e \in Seq(Unit)
  <2>1. a + c \in Nat
    OBVIOUS
  <2> QED
    BY <1>10, <2>1, DataUnits
<1>13. PICK E : E = LineEnd
  OBVIOUS
<1>14. E \in Seq(Unit)
  BY <1>13, EndUnits
<1>15. ChunkText(m, n + 1 - k) = l \o ((d \o e) \o E)
  <2>1. PICK j : j = n + 1 - k
    OBVIOUS
  <2>2. m.chunks[j] = c
    BY <1>1, <1>3, <2>1 DEF ChunkOf
  <2>3. j - 1 = n - k
    BY <1>1, <2>1
  <2>4. BytesIn(m.chunks, j - 1) = a
    BY <1>1, <1>2, <2>3 DEF BytesBefore
  <2>5. d \o e = DataFrom(a, c + s)
    BY <1>9, <1>10, DataJoined
  <2>6. ChunkText(m, j) = LineOf(<<"size", c>>) \o (DataFrom(a, c + s) \o LineEnd)
    BY <1>4, <2>2, <2>4 DEF ChunkText
  <2> QED
    BY <1>5, <1>13, <2>1, <2>5, <2>6
<1>16. ChunksDue(m, k) = (l \o ((d \o e) \o E)) \o t
  BY <1>1, <1>7, <1>15, ChunksStep
<1>17. (l \o ((d \o e) \o E)) \o t = l \o (d \o (e \o (E \o t)))
  <2>1. d \o e \in Seq(Unit) /\ E \o t \in Seq(Unit)
    BY <1>8, <1>11, <1>12, <1>14, Joined
  <2>2. (d \o e) \o E \in Seq(Unit)
    BY <1>14, <2>1, Joined
  <2>3. (l \o ((d \o e) \o E)) \o t = l \o (((d \o e) \o E) \o t)
    <3>1. Assoc(l, (d \o e) \o E, t)
      BY <1>6, <1>8, <2>2, Regrouped, Zenon
    <3> QED
      BY <3>1 DEF Assoc
  <2>4. ((d \o e) \o E) \o t = (d \o e) \o (E \o t)
    <3>1. Assoc(d \o e, E, t)
      BY <1>8, <1>14, <2>1, Regrouped, Zenon
    <3> QED
      BY <3>1 DEF Assoc
  <2>5. (d \o e) \o (E \o t) = d \o (e \o (E \o t))
    <3>1. Assoc(d, e, E \o t)
      BY <1>11, <1>12, <2>1, Regrouped, Zenon
    <3> QED
      BY <3>1 DEF Assoc
  <2> QED
    BY <2>3, <2>4, <2>5
<1>18. TailDue(m, k) = e \o (E \o t)
  BY <1>2, <1>3, <1>4, <1>7, <1>10, <1>13 DEF TailDue
<1>19. BytesDue(m, k) = d \o (e \o (E \o t))
  BY <1>2, <1>3, <1>9, <1>18 DEF BytesDue
<1>20. Due(e \o (E \o t))
  BY <1>8, <1>12, <1>14, DueAfter
<1>21. Due(d \o (e \o (E \o t)))
  BY <1>11, <1>20, DueAfter
<1> QED
  BY <1>2, <1>3, <1>5, <1>6, <1>7, <1>8, <1>9, <1>11, <1>16, <1>17, <1>18, <1>19, <1>20, <1>21, Zenon

\* What follows the bytes of a chunk: its line end, unless the chunk is longer than it says.
LEMMA TailStep ==
  ASSUME NEW m, IsMessage(m), NEW k \in 1..Len(m.chunks)
  PROVE  /\ m.spill = 0 => TailDue(m, k) = LineEnd \o ChunksDue(m, k - 1)
         /\ m.spill # 0 => TailDue(m, k)[1] # CR
         /\ Len(TailDue(m, k)) \in Nat /\ Len(TailDue(m, k)) > 2
<1>1. PICK b \in Nat : b = BytesBefore(m, k) + ChunkOf(m, k)
  BY ChunkHas
<1>2. PICK s \in Nat : s = m.spill
  BY MessageHas
<1>3. PICK e : e = DataFrom(b, s)
  OBVIOUS
<1>4. e \in Seq(Unit) /\ Len(e) = s /\ \A i \in 1..s : e[i] = <<"data", b + i>>
  BY <1>3, DataUnits
<1>5. PICK t : t = ChunksDue(m, k - 1)
  OBVIOUS
<1>6. t \in Seq(Unit) /\ Len(t) \in Nat \ {0}
  BY <1>5, ChunkStep DEF Due
<1>7. PICK r : r = LineEnd \o t
  OBVIOUS
<1>8. r \in Seq(Unit) /\ Len(r) = 2 + Len(t)
  <2>1. r \in Seq(Unit) /\ Len(r) = Len(LineEnd) + Len(t)
    BY <1>6, <1>7, EndUnits, Joined
  <2> QED
    BY <2>1, EndUnits
<1>9. PICK x : x = e \o r
  OBVIOUS
<1>10. TailDue(m, k) = x
  BY <1>1, <1>2, <1>3, <1>5, <1>7, <1>9 DEF TailDue
<1>11. x \in Seq(Unit) /\ Len(x) = Len(e) + Len(r) /\ \A i \in 1..Len(e) : x[i] = e[i]
  BY <1>4, <1>8, <1>9, Joined
<1>12. Len(x) = s + (2 + Len(t)) /\ \A i \in 1..s : x[i] = e[i]
  BY <1>4, <1>8, <1>11
<1>13. Len(x) \in Nat /\ Len(x) > 2
  BY <1>2, <1>6, <1>12
<1>14. CASE s = 0
  <2>1. e = <<>>
    BY <1>4, <1>14
  <2>2. << >> \o r = r
    BY <1>8, Nothing
  <2> QED
    BY <1>2, <1>5, <1>7, <1>9, <1>10, <1>13, <1>14, <2>1, <2>2
<1>15. CASE s # 0
  <2>1. 1 \in 1..s
    BY <1>2, <1>15
  <2>2. b + 1 \in Nat
    BY <1>1
  <2>3. <<"data", b + 1>> # CR
    BY <2>2, NumberUnits
  <2>4. x[1] # CR
    BY <1>4, <1>12, <2>1, <2>3
  <2> QED
    BY <1>2, <1>10, <1>13, <1>15, <2>4
<1> QED
  BY <1>14, <1>15

\* The body of a message, by its framing.
LEMMA BodyIsDue ==
  ASSUME NEW m, IsMessage(m)
  PROVE  /\ Due(BodyDue(m)) /\ BodyOf(m) \in Seq(Unit)
         /\ Framing(m) \in {"none", "chunked", "length", "rest"}
         /\ Framing(m) = "none" => BodyDue(m) = Behind
         /\ Framing(m) = "chunked" => BodyDue(m) = ChunksDue(m, Len(m.chunks))
         /\ Framing(m) \in {"length", "rest"} => BodyDue(m) = DataFrom(0, Total(m)) \o Behind
<1>1. Framing(m) \in {"none", "chunked", "length", "rest"}
  BY DEF Framing
<1>2. Behind \in Seq(Unit) /\ Due(Behind)
  BY BehindUnits
<1>3. CASE Framing(m) = "none"
  <2>1. BodyOf(m) = <<>>
    BY <1>3 DEF BodyOf
  <2>2. << >> \o Behind = Behind /\ << >> \in Seq(Unit)
    BY <1>2, Nothing
  <2>3. BodyDue(m) = Behind
    BY <2>1, <2>2 DEF BodyDue
  <2> QED
    BY <1>1, <1>2, <1>3, <2>1, <2>2, <2>3
<1>4. CASE Framing(m) = "chunked"
  <2>1. PICK n \in Nat : n = Len(m.chunks)
    BY MessageHas
  <2>2. PICK h : h = Len(m.trailers)
    OBVIOUS
  <2>3. PICK c : c = LastOf(Chunks(m), n)
    OBVIOUS
  <2>4. AreParts(Chunks(m), n) /\ n \in 0..n
    BY <2>1, ChunkParts
  <2>5. c \in Seq(Unit)
    BY <2>3, <2>4, LastOfStream
  <2>6. PICK l : l = LineOf(<<"size", 0>>)
    OBVIOUS
  <2>7. l \in Seq(Unit)
    <3>1. <<"size", 0>> \in Unit
      BY NumberUnits
    <3> QED
      BY <2>6, <3>1, LineUnits
  <2>8. PICK f : f = LastOf(LinesOf(m.trailers), h)
    OBVIOUS
  <2>9. f \in Seq(Unit)
    <3>1. m.trailers \in Seq(Field) /\ h \in Nat
      BY <2>2, MessageHas
    <3>2. AreParts(LinesOf(m.trailers), h) /\ h \in 0..h
      BY <2>2, <3>1, LinesParts
    <3> QED
      BY <2>8, <3>2, LastOfStream
  <2>10. PICK e : e = LineEnd
    OBVIOUS
  <2>11. e \in Seq(Unit)
    BY <2>10, EndUnits
  <2>12. PICK b : b = Behind
    OBVIOUS
  <2>13. b \in Seq(Unit)
    BY <1>2, <2>12
  <2>14. BodyOf(m) = c \o (l \o (f \o e))
    <3>1. Len(Chunks(m)) = n
      BY <2>4 DEF AreParts
    <3>2. Len(LinesOf(m.trailers)) = h
      BY <2>2, MessageHas, LinesParts DEF AreParts
    <3> QED
      BY <1>4, <2>1, <2>2, <2>3, <2>6, <2>8, <2>10, <3>1, <3>2 DEF BodyOf, Concat, LineEnd
  <2>15. f \o e \in Seq(Unit) /\ e \o b \in Seq(Unit)
    BY <2>9, <2>11, <2>13, Joined
  <2>16. l \o (f \o e) \in Seq(Unit)
    BY <2>7, <2>15, Joined
  <2>17. c \o (l \o (f \o e)) \in Seq(Unit)
    BY <2>5, <2>16, Joined
  <2>18. (c \o (l \o (f \o e))) \o b = c \o ((l \o (f \o e)) \o b)
    <3>1. Assoc(c, l \o (f \o e), b)
      BY <2>5, <2>13, <2>16, Regrouped, Zenon
    <3> QED
      BY <3>1 DEF Assoc
  <2>19. (l \o (f \o e)) \o b = l \o ((f \o e) \o b)
    <3>1. Assoc(l, f \o e, b)
      BY <2>7, <2>13, <2>15, Regrouped, Zenon
    <3> QED
      BY <3>1 DEF Assoc
  <2>20. (f \o e) \o b = f \o (e \o b)
    <3>1. Assoc(f, e, b)
      BY <2>9, <2>11, <2>13, Regrouped, Zenon
    <3> QED
      BY <3>1 DEF Assoc
  <2>21. ChunksDue(m, n) = c \o (l \o (f \o (e \o b)))
    BY <2>2, <2>3, <2>6, <2>8, <2>10, <2>12 DEF ChunksDue, LastChunkDue, TrailersDue
  <2>22. BodyDue(m) = ChunksDue(m, n)
    BY <2>12, <2>14, <2>18, <2>19, <2>20, <2>21 DEF BodyDue
  <2>23. Due(ChunksDue(m, n))
    BY <2>1, <2>4, ChunksAreDue
  <2> QED
    BY <1>1, <1>4, <2>1, <2>14, <2>17, <2>22, <2>23
<1>5. CASE Framing(m) \in {"length", "rest"}
  <2>1. BodyOf(m) = DataFrom(0, Total(m))
    BY <1>5 DEF BodyOf
  <2>2. Total(m) \in Nat
    BY ChunkEnds
  <2>3. DataFrom(0, Total(m)) \in Seq(Unit)
    BY <2>2, DataUnits
  <2>4. Due(DataFrom(0, Total(m)) \o Behind)
    BY <1>2, <2>3, DueAfter
  <2> QED
    BY <1>1, <1>5, <2>1, <2>3, <2>4 DEF BodyDue
<1> QED
  BY <1>1, <1>3, <1>4, <1>5

\* The headers.
LEMMA FieldsAreDue ==
  ASSUME NEW m, IsMessage(m), NEW n, n = Len(m.fields)
  PROVE  FieldsDue(m, 0) = LineEnd \o BodyDue(m) /\ \A k \in 0..n : Due(FieldsDue(m, k))
<1>1. PICK t : t = LineEnd \o BodyDue(m)
  OBVIOUS
<1>2. Due(t)
  BY <1>1, BodyIsDue, EndUnits, DueAfter
<1>3. PICK fs : fs = m.fields
  OBVIOUS
<1>4. fs \in Seq(Field) /\ n = Len(fs)
  BY <1>3, MessageHas
<1>5. \A k : FieldsDue(m, k) = LastOf(LinesOf(fs), k) \o t
  BY <1>1, <1>3 DEF FieldsDue
<1>6. LastOf(LinesOf(fs), 0) \o t = t /\ \A k \in 0..n : Due(LastOf(LinesOf(fs), k) \o t)
  BY <1>2, <1>4, LinesDue, Zenon
<1> QED
  BY <1>1, <1>5, <1>6, Zenon

\* A header, and what follows it.
LEMMA FieldsStep ==
  ASSUME NEW m, IsMessage(m), NEW n, n = Len(m.fields), NEW k \in 1..n
  PROVE  /\ m.fields[n + 1 - k] \in Field
         /\ FieldsDue(m, k) = LineOf(m.fields[n + 1 - k]) \o FieldsDue(m, k - 1)
<1>1. PICK t : t = LineEnd \o BodyDue(m)
  OBVIOUS
<1>2. Due(t)
  BY <1>1, BodyIsDue, EndUnits, DueAfter
<1>3. PICK fs : fs = m.fields
  OBVIOUS
<1>4. fs \in Seq(Field) /\ n = Len(fs)
  BY <1>3, MessageHas
<1>5. \A j : FieldsDue(m, j) = LastOf(LinesOf(fs), j) \o t
  BY <1>1, <1>3 DEF FieldsDue
<1>6. HeaderAt(fs, n, t, k)
  BY <1>2, <1>4, LinesStep
<1> QED
  BY <1>3, <1>5, <1>6 DEF HeaderAt

\* The final response.
LEMMA HeadIsDue ==
  ASSUME NEW m, IsMessage(m)
  PROVE  Due(HeadDue(m)) /\ Due(FieldsDue(m, Len(m.fields)))
<1>1. PICK n \in Nat : n = Len(m.fields)
  BY MessageHas
<1>2. n \in 0..n
  BY <1>1
<1>3. Due(FieldsDue(m, n))
  BY <1>1, <1>2, FieldsAreDue
<1>4. <<"status", m.code>> \in Unit
  BY MessageHas, NumberUnits
<1>5. LineOf(<<"status", m.code>>) \in Seq(Unit)
  BY <1>4, LineUnits
<1>6. Due(LineOf(<<"status", m.code>>) \o FieldsDue(m, n))
  BY <1>3, <1>5, DueAfter
<1> QED
  BY <1>1, <1>3, <1>6 DEF HeadDue

\* The responses.
LEMMA StatusIsDue ==
  ASSUME NEW m, IsMessage(m)
  PROVE  StatusDue(m, 0) = HeadDue(m) /\ \A k \in 0..m.interim : Due(StatusDue(m, k))
<1>1. PICK t : t = HeadDue(m)
  OBVIOUS
<1>2. Due(t)
  BY <1>1, HeadIsDue
<1>3. PICK ps : ps = Interims(m)
  OBVIOUS
<1>4. PICK n : n = m.interim
  OBVIOUS
<1>5. AreParts(ps, n)
  BY <1>3, <1>4, InterimParts
<1>6. \A k : StatusDue(m, k) = LastOf(ps, k) \o t
  BY <1>1, <1>3 DEF StatusDue
<1>7. LastOf(ps, 0) \o t = t /\ \A k \in 0..n : Due(LastOf(ps, k) \o t)
  BY <1>2, <1>5, PartsDue, Zenon
<1> QED
  BY <1>1, <1>4, <1>6, <1>7, Zenon

\* An interim response, and what follows it.
LEMMA StatusStep ==
  ASSUME NEW m, IsMessage(m), NEW k \in 1..m.interim
  PROVE  StatusDue(m, k) = LineOf(<<"status", 100>>) \o (LineEnd \o StatusDue(m, k - 1))
<1>1. PICK t : t = HeadDue(m)
  OBVIOUS
<1>2. Due(t)
  BY <1>1, HeadIsDue
<1>3. PICK ps : ps = Interims(m)
  OBVIOUS
<1>4. PICK n \in Nat : n = m.interim
  BY MessageHas
<1>5. AreParts(ps, n)
  BY <1>3, <1>4, InterimParts
<1>6. \A j : StatusDue(m, j) = LastOf(ps, j) \o t
  BY <1>1, <1>3 DEF StatusDue
<1>7. StepsAt(ps, n, t, k)
  BY <1>2, <1>4, <1>5, PartsStep
<1>8. LastOf(ps, k) \o t = ps[n + 1 - k] \o (LastOf(ps, k - 1) \o t)
  BY <1>7 DEF StepsAt
<1>9. n + 1 - k \in 1..n
  BY <1>4
<1>10. PICK l : l = LineOf(<<"status", 100>>)
  OBVIOUS
<1>11. PICK e : e = LineEnd
  OBVIOUS
<1>12. ps[n + 1 - k] = l \o e
  <2>1. \A i \in 1..n : ps[i] = l \o e
    BY <1>3, <1>4, <1>10, <1>11, InterimParts
  <2> QED
    BY <1>9, <2>1
<1>13. l \in Seq(Unit) /\ e \in Seq(Unit)
  <2>1. <<"status", 100>> \in Unit
    BY NumberUnits
  <2> QED
    BY <1>10, <1>11, <2>1, LineUnits, EndUnits
<1>14. PICK r : r = StatusDue(m, k - 1)
  OBVIOUS
<1>15. r \in Seq(Unit)
  <2>1. k - 1 \in 0..m.interim
    BY <1>4
  <2> QED
    BY <1>14, <2>1, StatusIsDue DEF Due
<1>16. (l \o e) \o r = l \o (e \o r)
  <2>1. Assoc(l, e, r)
    BY <1>13, <1>15, Regrouped, Zenon
  <2> QED
    BY <2>1 DEF Assoc
<1>17. StatusDue(m, k) = (l \o e) \o r
  BY <1>6, <1>8, <1>12, <1>14
<1> QED
  BY <1>10, <1>11, <1>14, <1>16, <1>17

\* All of a message is what precedes its body, its body and the unit behind it.
LEMMA WholeMessage ==
  ASSUME NEW m, IsMessage(m)
  PROVE  /\ Append(Encoded(m), Surplus) = StatusDue(m, m.interim)
         /\ Append(Encoded(m), Surplus) = Preamble(m) \o BodyDue(m)
         /\ Encoded(m) \in Seq(Unit) /\ Preamble(m) \in Seq(Unit)
         /\ Append(Encoded(m), Surplus) \in Seq(Unit)
         /\ Len(Encoded(m)) \in Nat /\ Len(Append(Encoded(m), Surplus)) = Len(Encoded(m)) + 1
<1>1. PICK i : i = LastOf(Interims(m), m.interim)
  OBVIOUS
<1>2. i \in Seq(Unit)
  <2>1. PICK n \in Nat : n = m.interim
    BY MessageHas
  <2>2. AreParts(Interims(m), n) /\ n \in 0..n
    BY <2>1, InterimParts
  <2> QED
    BY <1>1, <2>1, <2>2, LastOfStream
<1>3. PICK l : l = LineOf(<<"status", m.code>>)
  OBVIOUS
<1>4. l \in Seq(Unit)
  <2>1. <<"status", m.code>> \in Unit
    BY MessageHas, NumberUnits
  <2> QED
    BY <1>3, <2>1, LineUnits
<1>5. PICK f : f = LastOf(LinesOf(m.fields), Len(m.fields))
  OBVIOUS
<1>6. f \in Seq(Unit)
  <2>1. PICK n \in Nat : n = Len(m.fields)
    BY MessageHas
  <2>2. m.fields \in Seq(Field)
    BY MessageHas
  <2>3. AreParts(LinesOf(m.fields), n) /\ n \in 0..n
    BY <2>1, <2>2, LinesParts
  <2> QED
    BY <1>5, <2>1, <2>3, LastOfStream
<1>7. PICK e : e = LineEnd
  OBVIOUS
<1>8. e \in Seq(Unit)
  BY <1>7, EndUnits
<1>9. PICK b : b = BodyOf(m)
  OBVIOUS
<1>10. b \in Seq(Unit)
  BY <1>9, BodyIsDue
<1>11. PICK s : s = Behind
  OBVIOUS
<1>12. s \in Seq(Unit) /\ Len(s) = 1
  BY <1>11, BehindUnits
<1>13. PICK p : p = Preamble(m)
  OBVIOUS
<1>14. p = i \o (l \o (f \o e))
  <2>1. Len(Interims(m)) = m.interim
    BY InterimParts DEF AreParts
  <2>2. Len(LinesOf(m.fields)) = Len(m.fields)
    BY MessageHas, LinesParts DEF AreParts
  <2> QED
    BY <1>1, <1>3, <1>5, <1>7, <1>13, <2>1, <2>2 DEF Preamble, Concat, LineEnd
<1>15. f \o e \in Seq(Unit) /\ b \o s \in Seq(Unit)
  BY <1>6, <1>8, <1>10, <1>12, Joined
<1>16. l \o (f \o e) \in Seq(Unit)
  BY <1>4, <1>15, Joined
<1>17. p \in Seq(Unit)
  BY <1>2, <1>14, <1>16, Joined
<1>18. PICK x : x = p \o b
  OBVIOUS
<1>19. x \in Seq(Unit) /\ Encoded(m) = x /\ Len(x) \in Nat
  BY <1>9, <1>10, <1>13, <1>17, <1>18, Joined DEF Encoded
<1>20. Append(x, Surplus) = x \o s
  <2>1. Surplus \in Unit
    BY DEF Unit
  <2> QED
    BY <1>11, <1>19, <2>1 DEF Behind
<1>21. x \o s \in Seq(Unit) /\ Len(x \o s) = Len(x) + 1
  <2>1. PICK j : j = x \o s
    OBVIOUS
  <2>2. Joins(j, x, s)
    BY <1>12, <1>19, <2>1, JoinIs, Zenon
  <2> QED
    BY <1>12, <2>1, <2>2 DEF Joins
<1>22. x \o s = p \o (b \o s)
  <2>1. Assoc(p, b, s)
    BY <1>10, <1>12, <1>17, Regrouped, Zenon
  <2> QED
    BY <1>18, <2>1 DEF Assoc
<1>23. BodyDue(m) = b \o s
  BY <1>9, <1>11 DEF BodyDue
<1>24. p \o (b \o s) = i \o (l \o (f \o (e \o (b \o s))))
  <2>1. PICK t : t = b \o s
    OBVIOUS
  <2>2. t \in Seq(Unit)
    BY <1>15, <2>1
  <2>3. (i \o (l \o (f \o e))) \o t = i \o ((l \o (f \o e)) \o t)
    <3>1. Assoc(i, l \o (f \o e), t)
      BY <1>2, <1>16, <2>2, Regrouped, Zenon
    <3> QED
      BY <3>1 DEF Assoc
  <2>4. (l \o (f \o e)) \o t = l \o ((f \o e) \o t)
    <3>1. Assoc(l, f \o e, t)
      BY <1>4, <1>15, <2>2, Regrouped, Zenon
    <3> QED
      BY <3>1 DEF Assoc
  <2>5. (f \o e) \o t = f \o (e \o t)
    <3>1. Assoc(f, e, t)
      BY <1>6, <1>8, <2>2, Regrouped, Zenon
    <3> QED
      BY <3>1 DEF Assoc
  <2> QED
    BY <1>14, <2>1, <2>3, <2>4, <2>5
<1>25. StatusDue(m, m.interim) = i \o (l \o (f \o (e \o (b \o s))))
  BY <1>1, <1>3, <1>5, <1>7, <1>23 DEF StatusDue, HeadDue, FieldsDue
<1> QED
  BY <1>13, <1>17, <1>19, <1>20, <1>21, <1>22, <1>23, <1>24, <1>25

-----------------------------------------------------------------------------
(* The inductive invariant.                                                  *)

\* How much of the message did not come.
Missing == (Len(Encoded(message)) + 1) - cut

Pending == got \o (buffered \o incoming)
In(due) == Came(Pending, due, Missing)

\* The first n of the headers are well formed.
Formed(fs, n) == \A i \in 1..n : fs[i][1] \in {"length", "coding", "other"}

InStatus ==
  /\ interim \in 0..message.interim /\ interim <= MaxInterim
  /\ budget = MaxHeadLines /\ counted = 0 /\ fields = <<>> /\ body = <<>>
  /\ In(StatusDue(message, message.interim - interim))

InInterim ==
  /\ status_code = 100 /\ interim \in 0..(message.interim - 1) /\ interim <= MaxInterim
  /\ budget = MaxHeadLines - 1 /\ counted = 0 /\ fields = <<>> /\ body = <<>>
  /\ In(LineEnd \o StatusDue(message, (message.interim - interim) - 1))

InHead ==
  /\ status_code = message.code /\ status_code \in 200..599
  /\ interim = message.interim /\ interim <= MaxInterim
  /\ counted \in 0..Len(message.fields) /\ counted <= MaxHeaders
  /\ counted + budget + 1 = MaxHeadLines
  /\ fields = SubSeq(message.fields, 1, counted) /\ Formed(message.fields, counted)
  /\ body = <<>>
  /\ In(FieldsDue(message, Len(message.fields) - counted))

\* The head of the response is right.
HeadRight ==
  /\ message.code \in 200..599 /\ message.interim <= MaxInterim
  /\ Len(message.fields) <= MaxHeaders /\ Len(message.fields) + 2 <= MaxHeadLines
  /\ WellFormed(message.fields)

IsChunked ==
  /\ HeadRight /\ Framing(message) = "chunked" /\ Codings(message.fields) = {"chunked"}
  /\ (Len(message.fields) + 2) + budget = MaxHeadLines /\ counted = Len(message.fields)

\* All chunks but the last k are read.
ReadBut(k) ==
  /\ body = DataFrom(0, BytesBefore(message, k)) /\ BytesBefore(message, k) <= MaxBody
  /\ k = Len(message.chunks) \/ message.spill = 0

InSize ==
  IsChunked /\ \E k \in 0..Len(message.chunks) : ReadBut(k) /\ In(ChunksDue(message, k))

InChunk ==
  /\ IsChunked /\ Len(got) <= want
  /\ \E k \in 1..Len(message.chunks) :
       /\ ReadBut(k) /\ want = ChunkOf(message, k) /\ BytesBefore(message, k) + want <= MaxBody
       /\ In(BytesDue(message, k))

InChunkEnd ==
  /\ IsChunked /\ want = 2 /\ Len(got) <= want
  /\ \E k \in 1..Len(message.chunks) :
       /\ body = DataFrom(0, BytesBefore(message, k - 1)) /\ BytesBefore(message, k - 1) <= MaxBody
       /\ In(TailDue(message, k))

InTrailers ==
  /\ HeadRight /\ Framing(message) = "chunked" /\ Codings(message.fields) = {"chunked"}
  /\ message.spill = 0 /\ Total(message) <= MaxBody /\ body = DataFrom(0, Total(message))
  /\ \E t \in 0..Len(message.trailers) :
       /\ counted = Len(message.fields) + t /\ counted <= MaxHeaders
       /\ (Len(message.fields) + 2) + (t + budget) = MaxHeadLines
       /\ Formed(message.trailers, t)
       /\ In(TrailersDue(message, Len(message.trailers) - t))

InBody ==
  /\ HeadRight /\ Framing(message) = "length" /\ Lengths(message.fields) = {Total(message)}
  /\ Total(message) <= MaxBody /\ want = Total(message) /\ body = <<>> /\ Len(got) <= want
  /\ In(DataFrom(0, Total(message)) \o Behind)

InRest ==
  /\ Framing(message) = "rest" /\ body \in Seq(Unit)
  /\ Came(body \o (buffered \o incoming), DataFrom(0, Total(message)) \o Behind, Missing)

Done ==
  IF Framing(message) # "rest"
  THEN /\ outcome = "protocol" => ~Acceptable(message)
       /\ outcome = "truncated" => Missing >= 2
       /\ outcome = "ok" =>
            /\ Acceptable(message)
            /\ body = IF Framing(message) = "none" THEN <<>> ELSE DataFrom(0, Total(message))
            /\ Came(buffered \o incoming, Behind, Missing)
  ELSE outcome = "ok" => Came(body, DataFrom(0, Total(message)) \o Behind, Missing)

Phase ==
  \/ awaiting = "status" /\ InStatus
  \/ awaiting = "header" /\ (InInterim \/ InHead)
  \/ awaiting = "size" /\ InSize
  \/ awaiting = "chunk" /\ InChunk
  \/ awaiting = "chunk_end" /\ InChunkEnd
  \/ awaiting = "trailer" /\ InTrailers
  \/ awaiting = "body" /\ InBody
  \/ awaiting = "rest" /\ InRest
  \/ awaiting = "done" /\ Done

Streams == got \in Seq(Unit) /\ buffered \in Seq(Unit) /\ incoming \in Seq(Unit)
Numbers == want \in Nat /\ budget \in Nat /\ counted \in Nat /\ interim \in Nat
Outcome ==
  /\ outcome \in {"running", "ok", "protocol", "truncated", "failed"}
  /\ outcome # "running" => awaiting = "done"

MessageInv ==
  /\ message \in Messages /\ Streams /\ Numbers /\ Outcome
  /\ awaiting \in LinePhases => ~HasEnd(got)
  /\ Phase

-----------------------------------------------------------------------------
(* Reading.                                                                  *)

\* The text of a line, without CR.
Text(raw) == IF raw # <<>> /\ raw[Len(raw)] = CR THEN SubSeq(raw, 1, Len(raw) - 1) ELSE raw

\* The text of a line that says something.
LEMMA LineText ==
  ASSUME NEW u \in Unit, u # LF
  PROVE  IsLine(LineOf(u)) /\ Text(SubSeq(LineOf(u), 1, Len(LineOf(u)) - 1)) = <<u>>
<1>1. PICK l : l = LineOf(u)
  OBVIOUS
<1>2. l \in Seq(Unit) /\ Len(l) = 3 /\ l[1] = u /\ l[2] = CR /\ l[3] = LF
  BY <1>1, LineUnits
<1>3. IsLine(l)
  <2>1. \A i \in 1..(3 - 1) : i = 1 \/ i = 2
    OBVIOUS
  <2>2. \A i \in 1..(3 - 1) : l[i] # LF
    BY <1>2, <2>1, EndUnits
  <2> QED
    BY <1>2, <2>2 DEF IsLine
<1>4. PICK r : r = SubSeq(l, 1, 2)
  OBVIOUS
<1>5. r \in Seq(Unit) /\ Len(r) = 2 /\ r[1] = u /\ r[2] = CR
  BY <1>2, <1>4
<1>6. PICK s : s = SubSeq(r, 1, 1)
  OBVIOUS
<1>7. s \in Seq(Unit) /\ Len(s) = 1 /\ s[1] = u
  BY <1>5, <1>6
<1>8. s = <<u>>
  <2>1. << u >> \in Seq(Unit) /\ Len(<< u >>) = 1 /\ << u >>[1] = u
    OBVIOUS
  <2>2. \A i \in 1..1 : s[i] = << u >>[i]
    BY <1>7, <2>1
  <2> QED
    BY <1>7, <2>1, <2>2, SameUnits
<1>9. r # <<>>
  BY <1>5
<1>10. Text(r) = s
  BY <1>5, <1>6, <1>9 DEF Text
<1>11. SubSeq(l, 1, Len(l) - 1) = r
  BY <1>2, <1>4
<1> QED
  BY <1>1, <1>3, <1>8, <1>10, <1>11

\* The text of an empty line.
LEMMA EndText == IsLine(LineEnd) /\ Text(SubSeq(LineEnd, 1, Len(LineEnd) - 1)) = <<>>
<1>1. PICK l : l = LineEnd
  OBVIOUS
<1>2. l \in Seq(Unit) /\ Len(l) = 2 /\ l[1] = CR /\ l[2] = LF
  BY <1>1, EndUnits
<1>3. IsLine(l)
  <2>1. \A i \in 1..(2 - 1) : i = 1
    OBVIOUS
  <2>2. \A i \in 1..(2 - 1) : l[i] # LF
    BY <1>2, <2>1, EndUnits
  <2> QED
    BY <1>2, <2>2 DEF IsLine
<1>4. PICK r : r = SubSeq(l, 1, 1)
  OBVIOUS
<1>5. r \in Seq(Unit) /\ Len(r) = 1 /\ r[1] = CR
  BY <1>2, <1>4
<1>6. PICK s : s = SubSeq(r, 1, 0)
  OBVIOUS
<1>7. s = <<>>
  BY <1>5, <1>6
<1>8. r # <<>>
  BY <1>5, Nothing
<1>9. Text(r) = s
  BY <1>5, <1>6, <1>8 DEF Text
<1>10. SubSeq(l, 1, Len(l) - 1) = r
  BY <1>2, <1>4
<1> QED
  BY <1>1, <1>3, <1>7, <1>9, <1>10

\* The message and where it is cut do not change.
LEMMA SameMissing ==
  ASSUME message' = message, cut' = cut
  PROVE  Missing' = Missing
  BY DEF Missing

\* Reading a line takes the line that is due.
LEMMA LineRead ==
  ASSUME Streams, ~HasEnd(got), NEW phases, HasLine(phases), NEW l, IsLine(l),
         NEW d, Due(d), In(l \o d)
  PROVE  /\ TheLine = Text(SubSeq(l, 1, Len(l) - 1))
         /\ Streams' /\ ~HasEnd(got') /\ Came(Pending', d, Missing)
<1>1. PICK g : g = got
  OBVIOUS
<1>2. PICK b : b = buffered
  OBVIOUS
<1>3. PICK c : c = incoming
  OBVIOUS
<1>4. PICK k : k = Missing
  OBVIOUS
<1>5. g \in Seq(Unit) /\ b \in Seq(Unit) /\ c \in Seq(Unit) /\ d \in Seq(Unit)
  BY <1>1, <1>2, <1>3 DEF Streams, Due
<1>6. ~HasEnd(g) /\ HasEnd(b)
  BY <1>1, <1>2 DEF HasLine
<1>7. Came(g \o (b \o c), l \o d, k)
  BY <1>1, <1>2, <1>3, <1>4 DEF In, Pending
<1>8. g \o SubSeq(b, 1, EndIn(b) - 1) = SubSeq(l, 1, Len(l) - 1)
  <2>1. SameText(g, b, l)
    BY <1>5, <1>6, <1>7, LineFound, Zenon
  <2> QED
    BY <2>1 DEF SameText
<1>9. SubSeq(b, EndIn(b) + 1, Len(b)) \in Seq(Unit)
  BY <1>5, <1>6, <1>7, LineFound, Zenon
<1>10. Came(SubSeq(b, EndIn(b) + 1, Len(b)) \o c, d, k)
  BY <1>5, <1>6, <1>7, LineFound, Zenon
<1>11. TheLine = Text(g \o SubSeq(b, 1, EndIn(b) - 1))
  BY <1>1, <1>2, Zenon DEF TheLine, Text
<1>12. PICK q : q = SubSeq(b, EndIn(b) + 1, Len(b))
  OBVIOUS
<1>13. buffered' = q /\ got' = <<>> /\ incoming' = c
  BY <1>2, <1>3, <1>12, Zenon DEF HasLine
<1>14. q \in Seq(Unit) /\ q \o c \in Seq(Unit)
  BY <1>5, <1>9, <1>12, Joined
<1>15. << >> \o (q \o c) = q \o c /\ << >> \in Seq(Unit)
  BY <1>14, Nothing
<1>16. Pending' = q \o c
  BY <1>13, <1>15 DEF Pending
<1>17. ~HasEnd(<< >>)
  BY DEF HasEnd
<1>18. Streams'
  BY <1>5, <1>13, <1>14, <1>15 DEF Streams
<1>19. ~HasEnd(got')
  BY <1>13, <1>17, Zenon
<1>20. Came(Pending', d, Missing)
  BY <1>4, <1>10, <1>12, <1>16, Zenon
<1> QED
  BY <1>8, <1>11, <1>18, <1>19, <1>20, Zenon

\* A line that says something.
LEMMA UnitRead ==
  ASSUME Streams, ~HasEnd(got), NEW phases, HasLine(phases), NEW u \in Unit, u # LF,
         NEW d, Due(d), In(LineOf(u) \o d)
  PROVE  TheLine = <<u>> /\ Streams' /\ ~HasEnd(got') /\ Came(Pending', d, Missing)
<1>1. IsLine(LineOf(u)) /\ Text(SubSeq(LineOf(u), 1, Len(LineOf(u)) - 1)) = <<u>>
  BY LineText, Zenon
<1>2. /\ TheLine = Text(SubSeq(LineOf(u), 1, Len(LineOf(u)) - 1))
      /\ Streams' /\ ~HasEnd(got') /\ Came(Pending', d, Missing)
  BY <1>1, LineRead, Zenon
<1> QED
  BY <1>1, <1>2, Zenon

\* An empty line.
LEMMA EndRead ==
  ASSUME Streams, ~HasEnd(got), NEW phases, HasLine(phases), NEW d, Due(d), In(LineEnd \o d)
  PROVE  TheLine = <<>> /\ Streams' /\ ~HasEnd(got') /\ Came(Pending', d, Missing)
<1>1. /\ TheLine = Text(SubSeq(LineEnd, 1, Len(LineEnd) - 1))
      /\ Streams' /\ ~HasEnd(got') /\ Came(Pending', d, Missing)
  BY EndText, LineRead, Zenon
<1> QED
  BY <1>1, EndText, Zenon

\* The connection ends before the line that is due does.
LEMMA NoLine ==
  ASSUME Streams, ~HasEnd(got), buffered = <<>>, incoming = <<>>, NEW l, IsLine(l),
         NEW d, Due(d), In(l \o d)
  PROVE  Missing >= 2
<1>1. PICK g \in Seq(Unit) : g = got
  BY DEF Streams
<1>2. PICK k : k = Missing
  OBVIOUS
<1>3. Pending = g
  <2>1. << >> \o << >> = << >> /\ g \o << >> = g
    BY Nothing
  <2> QED
    BY <1>1, <2>1 DEF Pending
<1>4. Came(g, l \o d, k)
  BY <1>2, <1>3 DEF In
<1>5. d \in Seq(Unit) /\ Len(d) \in Nat \ {0}
  BY DEF Due
<1>6. l \in Seq(Unit) /\ Len(l) \in Nat \ {0} /\ l[Len(l)] = LF
  BY DEF IsLine
<1>7. Len(g) < Len(l)
  <2> SUFFICES ASSUME ~(Len(g) < Len(l)) PROVE FALSE
    OBVIOUS
  <2>1. PICK n \in Nat : n = Len(l)
    BY <1>6
  <2>2. PICK w \in Nat : w = Len(g)
    BY <1>1
  <2>3. n \in 1..n /\ n \in 1..w
    BY <1>6, <2>1, <2>2
  <2>4. \A i \in 1..w : g[i] = (l \o d)[i]
    BY <1>4, <2>2 DEF Came
  <2>5. \A i \in 1..n : (l \o d)[i] = l[i]
    BY <1>5, <1>6, <2>1, Joined
  <2>6. g[n] = LF
    BY <1>6, <2>1, <2>3, <2>4, <2>5
  <2>7. HasEnd(g)
    BY <2>2, <2>3, <2>6 DEF HasEnd
  <2> QED
    BY <1>1, <2>7
<1>8. k > Len(d)
  BY <1>1, <1>4, <1>5, <1>6, <1>7, CameShort
<1>9. k \in Nat
  BY <1>4 DEF Came
<1> QED
  BY <1>2, <1>5, <1>8, <1>9

\* All bytes that are wanted are there.
LEMMA ExactRead ==
  ASSUME Streams, NEW x \in Seq(Unit), NEW d, Due(d), In(x \o d), Len(got) = Len(x)
  PROVE  got = x /\ Came(buffered \o incoming, d, Missing)
<1>1. PICK g : g = got
  OBVIOUS
<1>2. PICK b : b = buffered \o incoming
  OBVIOUS
<1>3. PICK k : k = Missing
  OBVIOUS
<1>4. g \in Seq(Unit) /\ b \in Seq(Unit) /\ d \in Seq(Unit)
  BY <1>1, <1>2, Joined DEF Streams, Due
<1>5. Came(g \o b, x \o d, k) /\ Len(g) = Len(x)
  BY <1>1, <1>2, <1>3 DEF In, Pending
<1>6. g = x /\ Came(b, d, k)
  BY <1>4, <1>5, CameNext, Zenon
<1> QED
  BY <1>1, <1>2, <1>3, <1>6, Zenon

\* The connection ends before they are.
LEMMA ExactShort ==
  ASSUME Streams, buffered = <<>>, incoming = <<>>, NEW x \in Seq(Unit), NEW d, Due(d),
         In(x \o d), Len(got) < Len(x)
  PROVE  Missing >= 2
<1>1. PICK g \in Seq(Unit) : g = got
  BY DEF Streams
<1>2. PICK k : k = Missing
  OBVIOUS
<1>3. Pending = g
  <2>1. << >> \o << >> = << >> /\ g \o << >> = g
    BY Nothing
  <2> QED
    BY <1>1, <2>1 DEF Pending
<1>4. Came(g, x \o d, k)
  BY <1>2, <1>3 DEF In
<1>5. d \in Seq(Unit) /\ Len(d) \in Nat \ {0}
  BY DEF Due
<1>6. k > Len(d)
  BY <1>1, <1>4, <1>5, CameShort
<1>7. k \in Nat
  BY <1>4 DEF Came
<1> QED
  BY <1>2, <1>5, <1>6, <1>7

-----------------------------------------------------------------------------
(* The end of a response.                                                    *)

\* A response is refused only when it may be.
LEMMA EndsProtocol ==
  ASSUME message \in Messages, message' = message, Streams', Numbers', Ends("protocol"),
         Framing(message) # "rest" => ~Acceptable(message)
  PROVE  MessageInv'
<1>1. awaiting' = "done" /\ outcome' = "protocol"
  BY DEF Ends
<1>2. Framing(message') # "rest" => ~Acceptable(message')
  OBVIOUS
<1>3. Done'
  BY <1>1, <1>2, Zenon DEF Done
<1>4. Outcome' /\ awaiting' \notin LinePhases
  BY <1>1 DEF Outcome, LinePhases
<1> QED
  BY <1>1, <1>3, <1>4 DEF MessageInv, Phase

\* It is taken for cut short only when it is.
LEMMA EndsTruncated ==
  ASSUME message \in Messages, message' = message, cut' = cut, Streams', Numbers', Ends("truncated"),
         Framing(message) # "rest" => Missing >= 2
  PROVE  MessageInv'
<1>1. awaiting' = "done" /\ outcome' = "truncated"
  BY DEF Ends
<1>2. Missing' = Missing
  BY SameMissing
<1>3. Framing(message') # "rest" => Missing' >= 2
  BY <1>2
<1>4. Done'
  BY <1>1, <1>3 DEF Done
<1>5. Outcome' /\ awaiting' \notin LinePhases
  BY <1>1 DEF Outcome, LinePhases
<1> QED
  BY <1>1, <1>4, <1>5 DEF MessageInv, Phase

\* The connection may fail at any time.
LEMMA EndsFailed ==
  ASSUME message \in Messages, message' = message, Streams', Numbers', Ends("failed")
  PROVE  MessageInv'
<1>1. awaiting' = "done" /\ outcome' = "failed"
  BY DEF Ends
<1>2. Done'
  BY <1>1 DEF Done
<1>3. Outcome' /\ awaiting' \notin LinePhases
  BY <1>1 DEF Outcome, LinePhases
<1> QED
  BY <1>1, <1>2, <1>3 DEF MessageInv, Phase

\* It is accepted only when it is right.
LEMMA EndsOk ==
  ASSUME message \in Messages, message' = message, cut' = cut, Streams', Numbers', Ends("ok"),
         Framing(message) # "rest", Acceptable(message),
         body' = IF Framing(message) = "none" THEN <<>> ELSE DataFrom(0, Total(message)),
         Came(buffered' \o incoming', Behind, Missing)
  PROVE  MessageInv'
<1>1. awaiting' = "done" /\ outcome' = "ok"
  BY DEF Ends
<1>2. Missing' = Missing
  BY SameMissing
<1>3. Came(buffered' \o incoming', Behind, Missing')
  BY <1>2
<1>4. Done'
  BY <1>1, <1>3 DEF Done
<1>5. Outcome' /\ awaiting' \notin LinePhases
  BY <1>1 DEF Outcome, LinePhases
<1> QED
  BY <1>1, <1>4, <1>5 DEF MessageInv, Phase

\* Reading goes on.
LEMMA GoesOn ==
  ASSUME message \in Messages, message' = message, Streams', Numbers', outcome' = "running",
         awaiting' \in LinePhases => ~HasEnd(got'), Phase'
  PROVE  MessageInv'
<1>1. Outcome'
  BY DEF Outcome
<1> QED
  BY <1>1 DEF MessageInv

\* The limits are numbers.
LEMMA ConstantTypes ==
  /\ MaxBody \in Nat /\ MaxHeaders \in Nat /\ MaxHeadLines \in Nat /\ MaxHeadLines # 0 /\ MaxInterim \in Nat
  BY MessageConstants

\* Every message is one.
LEMMA AMessage ==
  ASSUME NEW m \in Messages
  PROVE  IsMessage(m)
  BY MessageConstants

\* While something is awaited, there is no outcome yet.
LEMMA StillRunning ==
  ASSUME MessageInv, awaiting # "done"
  PROVE  outcome = "running"
  BY DEF MessageInv, Outcome

-----------------------------------------------------------------------------
(* The status line.                                                          *)

\* The status line that is read is the one that is due.
LEMMA ParseStatusKeeps ==
  ASSUME MessageInv, parse_status
  PROVE  MessageInv'
<1>1. /\ message \in Messages /\ Streams /\ Numbers /\ message' = message /\ cut' = cut
      /\ HasLine({"status"}) /\ awaiting = "status"
  BY DEF MessageInv, parse_status, HasLine
<1>2. ~HasEnd(got) /\ outcome = "running" /\ InStatus
  BY <1>1, StillRunning DEF MessageInv, LinePhases, Phase
<1>3. PICK m \in Messages : m = message
  BY <1>1
<1>4. IsMessage(m) /\ message' = m
  BY <1>1, <1>3, AMessage
<1>5. PICK h \in Nat : h = m.interim
  BY <1>4, MessageHas
<1>6. PICK k : k = h - interim
  OBVIOUS
<1>7. /\ interim \in 0..h /\ interim <= MaxInterim /\ k \in 0..h
      /\ budget = MaxHeadLines /\ counted = 0 /\ fields = <<>> /\ body = <<>>
      /\ In(StatusDue(m, k))
  BY <1>2, <1>3, <1>5, <1>6 DEF InStatus
<1>8. Missing' = Missing
  BY <1>1, SameMissing
<1>9. MaxHeadLines \in Nat /\ MaxHeadLines # 0
  BY ConstantTypes
<1>10. CASE k = 0
  <2>1. PICK c \in Nat : c = m.code
    BY <1>4, MessageHas
  <2>2. PICK n \in Nat : n = Len(m.fields)
    BY <1>4, MessageHas
  <2>3. PICK u : u = <<"status", c>>
    OBVIOUS
  <2>4. u \in Unit /\ u # LF
    BY <2>3, NumberUnits
  <2>5. PICK d : d = FieldsDue(m, n)
    OBVIOUS
  <2>6. Due(d)
    BY <1>4, <2>2, <2>5, HeadIsDue
  <2>7. In(LineOf(u) \o d)
    BY <1>4, <1>7, <1>10, <2>1, <2>2, <2>3, <2>5, StatusIsDue DEF HeadDue
  <2>8. TheLine = <<u>> /\ Streams' /\ ~HasEnd(got') /\ Came(Pending', d, Missing)
    BY <1>1, <1>2, <2>4, <2>6, <2>7, UnitRead
  <2>9. Says("status") /\ TheLine[1][2] = c
    BY <2>3, <2>8 DEF Says
  <2>10. CASE c \in 100..599
    <3>1. /\ status_code' = c /\ budget' = budget - 1 /\ awaiting' = "header"
          /\ UNCHANGED <<want, fields, counted, interim, body, outcome>>
      BY <1>7, <1>9, <2>9, <2>10 DEF parse_status
    <3>2. Numbers'
      BY <1>1, <1>7, <1>9, <3>1 DEF Numbers
    <3>3. c \in 200..599
      <4>1. ~(c < 200)
        BY <1>4, <2>1, MessageHas
      <4> QED
        BY <2>10, <4>1
    <3>4. interim' = h
      BY <1>5, <1>6, <1>7, <1>10, <3>1
    <3>5. counted' \in 0..n /\ counted' <= MaxHeaders /\ counted' + budget' + 1 = MaxHeadLines /\ n - counted' = n
      BY <1>7, <1>9, <2>2, <3>1, ConstantTypes
    <3>6. fields' = SubSeq(m.fields, 1, counted')
      <4>1. m.fields \in Seq(Field)
        BY <1>4, MessageHas
      <4>2. SubSeq(m.fields, 1, 0) = <<>>
        BY <4>1
      <4> QED
        BY <1>7, <3>1, <4>2
    <3>7. Formed(m.fields, counted')
      BY <1>7, <3>1 DEF Formed
    <3>8. Came(Pending', FieldsDue(m, n - counted'), Missing')
      BY <1>8, <2>5, <2>8, <3>5
    <3>9. InHead'
      BY <1>4, <1>5, <1>7, <2>1, <2>2, <3>1, <3>3, <3>4, <3>5, <3>6, <3>7, <3>8 DEF InHead, In
    <3>10. Phase'
      BY <3>1, <3>9 DEF Phase
    <3> QED
      BY <1>1, <1>2, <2>8, <3>1, <3>2, <3>10, GoesOn
  <2>11. CASE c \notin 100..599
    <3>1. Rejected
      BY <2>9, <2>11 DEF parse_status
    <3>2. Numbers' /\ Ends("protocol")
      BY <1>1, <3>1 DEF Rejected, Numbers, headVars
    <3>3. ~Acceptable(message)
      <4>1. ~(m.code \in 200..599)
        BY <2>1, <2>11
      <4> QED
        BY <1>3, <4>1, Zenon DEF Acceptable
    <3> QED
      BY <1>1, <2>8, <3>2, <3>3, EndsProtocol
  <2> QED
    BY <2>10, <2>11
<1>11. CASE k # 0
  <2>1. k \in 1..h /\ k - 1 \in 0..h
    BY <1>5, <1>7, <1>11
  <2>2. PICK u : u = <<"status", 100>>
    OBVIOUS
  <2>3. u \in Unit /\ u # LF
    BY <2>2, NumberUnits
  <2>4. PICK d : d = LineEnd \o StatusDue(m, k - 1)
    OBVIOUS
  <2>5. Due(d)
    <3>1. Due(StatusDue(m, k - 1))
      BY <1>4, <1>5, <2>1, StatusIsDue
    <3> QED
      BY <2>4, <3>1, EndUnits, DueAfter
  <2>6. In(LineOf(u) \o d)
    BY <1>4, <1>5, <1>7, <2>1, <2>2, <2>4, StatusStep
  <2>7. TheLine = <<u>> /\ Streams' /\ ~HasEnd(got') /\ Came(Pending', d, Missing)
    BY <1>1, <1>2, <2>3, <2>5, <2>6, UnitRead
  <2>8. Says("status") /\ TheLine[1][2] = 100
    BY <2>2, <2>7 DEF Says
  <2>9. /\ status_code' = 100 /\ budget' = budget - 1 /\ awaiting' = "header"
        /\ UNCHANGED <<want, fields, counted, interim, body, outcome>>
    BY <1>7, <1>9, <2>8 DEF parse_status
  <2>10. Numbers'
    BY <1>1, <1>7, <1>9, <2>9 DEF Numbers
  <2>11. interim' \in 0..(h - 1) /\ interim' <= MaxInterim /\ (h - interim') - 1 = k - 1
    BY <1>5, <1>6, <1>7, <2>1, <2>9
  <2>12. Came(Pending', LineEnd \o StatusDue(m, (h - interim') - 1), Missing')
    BY <1>8, <2>4, <2>7, <2>11
  <2>13. InInterim'
    BY <1>4, <1>5, <1>7, <2>9, <2>11, <2>12 DEF InInterim, In
  <2>14. Phase'
    BY <2>9, <2>13 DEF Phase
  <2> QED
    BY <1>1, <1>2, <2>7, <2>9, <2>10, <2>14, GoesOn
<1> QED
  BY <1>10, <1>11

-----------------------------------------------------------------------------
(* The headers.                                                              *)

\* What an acceptable response keeps to.
LEMMA AcceptableHas ==
  ASSUME NEW m, IsMessage(m), Acceptable(m)
  PROVE  /\ Len(m.fields) <= MaxHeaders /\ Len(m.fields) + 2 <= MaxHeadLines
         /\ Len(m.fields) + Len(m.trailers) <= MaxHeaders
         /\ Framing(m) = "chunked" => (Len(m.fields) + 2) + (Len(m.trailers) + 1) <= MaxHeadLines
<1>1. PICK f \in Nat : f = Len(m.fields)
  BY MessageHas
<1>2. PICK t \in Nat : t = Len(m.trailers)
  BY MessageHas
<1>3. f + t <= MaxHeaders /\ f + 2 + (IF Framing(m) = "chunked" THEN t + 1 ELSE 0) <= MaxHeadLines
  BY <1>1, <1>2 DEF Acceptable
<1>4. f <= MaxHeaders
  BY <1>3, ConstantTypes
<1>5. CASE Framing(m) = "chunked"
  <2>1. f + 2 + (t + 1) <= MaxHeadLines
    BY <1>3, <1>5
  <2>2. f + 2 <= MaxHeadLines
    BY <2>1, ConstantTypes
  <2> QED
    BY <1>1, <1>2, <1>3, <1>4, <1>5, <2>1, <2>2
<1>6. CASE Framing(m) # "chunked"
  <2>1. f + 2 + 0 <= MaxHeadLines
    BY <1>3, <1>6
  <2>2. f + 2 <= MaxHeadLines
    BY <1>1, <2>1, ConstantTypes
  <2> QED
    BY <1>1, <1>2, <1>3, <1>4, <1>6, <2>2
<1> QED
  BY <1>5, <1>6

\* One header more.
LEMMA OneMore ==
  ASSUME NEW fs \in Seq(Field), NEW c \in Nat, c < Len(fs)
  PROVE  Append(SubSeq(fs, 1, c), fs[c + 1]) = SubSeq(fs, 1, c + 1)
<1>1. PICK s : s = SubSeq(fs, 1, c)
  OBVIOUS
<1>2. PICK t : t = SubSeq(fs, 1, c + 1)
  OBVIOUS
<1>3. s \in Seq(Field) /\ Len(s) = c /\ \A i \in 1..c : s[i] = fs[i]
  BY <1>1
<1>4. t \in Seq(Field) /\ Len(t) = c + 1 /\ \A i \in 1..(c + 1) : t[i] = fs[i]
  BY <1>2
<1>5. PICK u \in Field : u = fs[c + 1]
  OBVIOUS
<1>6. PICK a : a = Append(s, u)
  OBVIOUS
<1>7. a \in Seq(Field) /\ Len(a) = c + 1 /\ a[c + 1] = u /\ \A i \in 1..c : a[i] = s[i]
  BY <1>3, <1>6
<1>8. ASSUME NEW i \in 1..(c + 1) PROVE a[i] = t[i]
  <2>1. i = c + 1 \/ i \in 1..c
    OBVIOUS
  <2> QED
    BY <1>3, <1>4, <1>5, <1>7, <2>1
<1>9. a = t
  BY <1>4, <1>7, <1>8
<1> QED
  BY <1>1, <1>2, <1>5, <1>6, <1>9

\* A header that may be.
MayBe(u) == u[1] \in {"length", "coding", "other"}

\* One header more is well formed.
LEMMA OneMoreFormed ==
  ASSUME NEW fs, NEW c \in Nat, Formed(fs, c), MayBe(fs[c + 1])
  PROVE  Formed(fs, c + 1)
<1>1. ASSUME NEW i \in 1..(c + 1) PROVE fs[i][1] \in {"length", "coding", "other"}
  <2>1. i = c + 1 \/ i \in 1..c
    OBVIOUS
  <2> QED
    BY <2>1 DEF Formed, MayBe
<1> QED
  BY <1>1 DEF Formed

\* A header line in the head of the response.
LEMMA HeaderKeeps ==
  ASSUME MessageInv, header_line, awaiting = "header"
  PROVE  MessageInv'
<1>1. /\ message \in Messages /\ Streams /\ Numbers /\ message' = message /\ cut' = cut
      /\ HasLine({"header", "trailer"}) /\ TheLine # <<>>
  BY DEF MessageInv, header_line, HasLine
<1>2. ~HasEnd(got) /\ outcome = "running" /\ (InInterim \/ InHead)
  BY StillRunning DEF MessageInv, LinePhases, Phase
<1>3. PICK m \in Messages : m = message
  BY <1>1
<1>4. IsMessage(m) /\ message' = m
  BY <1>1, <1>3, AMessage
<1>5. PICK n \in Nat : n = Len(m.fields)
  BY <1>4, MessageHas
<1>6. Missing' = Missing
  BY <1>1, SameMissing
<1>7. ASSUME NEW d, Due(d), In(LineEnd \o d) PROVE FALSE
  BY <1>1, <1>2, <1>7, EndRead
<1>8. ~InInterim
  <2> SUFFICES ASSUME InInterim PROVE FALSE
    OBVIOUS
  <2>1. PICK h \in Nat : h = m.interim
    BY <1>4, MessageHas
  <2>2. PICK j : j = (h - interim) - 1
    OBVIOUS
  <2>3. interim \in 0..(h - 1) /\ In(LineEnd \o StatusDue(m, j))
    BY <1>3, <2>1, <2>2 DEF InInterim
  <2>4. j \in 0..h
    BY <2>1, <2>2, <2>3
  <2>5. Due(StatusDue(m, j))
    BY <1>4, <2>1, <2>4, StatusIsDue
  <2> QED
    BY <1>7, <2>3, <2>5
<1>9. PICK c \in Nat : c = counted
  BY <1>1 DEF Numbers
<1>10. PICK k : k = n - c
  OBVIOUS
<1>11. /\ c \in 0..n /\ k \in 0..n /\ c <= MaxHeaders /\ c + budget + 1 = MaxHeadLines
       /\ status_code = m.code /\ status_code \in 200..599
       /\ interim = m.interim /\ interim <= MaxInterim
       /\ fields = SubSeq(m.fields, 1, c) /\ Formed(m.fields, c)
       /\ body = <<>> /\ In(FieldsDue(m, k))
  BY <1>2, <1>3, <1>5, <1>8, <1>9, <1>10 DEF InHead
<1>12. k # 0
  <2> SUFFICES ASSUME k = 0 PROVE FALSE
    OBVIOUS
  <2>1. In(LineEnd \o BodyDue(m))
    BY <1>4, <1>5, <1>11, FieldsAreDue
  <2>2. Due(BodyDue(m))
    BY <1>4, BodyIsDue
  <2> QED
    BY <1>7, <2>1, <2>2
<1>13. k \in 1..n /\ k - 1 \in 0..n /\ n + 1 - k = c + 1 /\ c < n /\ k - 1 = n - (c + 1) /\ c + 1 \in 1..n
  BY <1>5, <1>9, <1>10, <1>11, <1>12
<1>14. PICK u : u = m.fields[c + 1]
  OBVIOUS
<1>15. PICK d : d = FieldsDue(m, k - 1)
  OBVIOUS
<1>16. Due(d)
  BY <1>4, <1>5, <1>13, <1>15, FieldsAreDue
<1>17. u \in Field /\ FieldsDue(m, k) = LineOf(u) \o d
  <2>1. m.fields[n + 1 - k] \in Field /\ FieldsDue(m, k) = LineOf(m.fields[n + 1 - k]) \o FieldsDue(m, k - 1)
    BY <1>4, <1>5, <1>13, FieldsStep, Zenon
  <2> QED
    BY <1>13, <1>14, <1>15, <2>1
<1>18. u \in Unit /\ u # LF
  BY <1>17, FieldUnits
<1>19. In(LineOf(u) \o d)
  BY <1>11, <1>17
<1>20. TheLine = <<u>> /\ Streams' /\ ~HasEnd(got') /\ Came(Pending', d, Missing)
  BY <1>1, <1>2, <1>16, <1>18, <1>19, UnitRead
<1>21. (Says("length") \/ Says("coding") \/ Says("other")) <=> MayBe(u)
  BY <1>20 DEF Says, MayBe
<1>22. CASE budget > 0 /\ c < MaxHeaders /\ MayBe(u)
  <2>1. /\ counted' = counted + 1 /\ budget' = budget - 1
        /\ fields' = Append(fields, TheLine[1])
        /\ UNCHANGED <<want, awaiting, status_code, interim, body, outcome>>
    BY <1>9, <1>21, <1>22 DEF header_line
  <2>2. Numbers'
    BY <1>1, <1>22, <2>1 DEF Numbers
  <2>3. counted' = c + 1 /\ fields' = Append(fields, u)
    BY <1>9, <1>20, <2>1
  <2>4. /\ counted' \in 0..n /\ counted' <= MaxHeaders
        /\ counted' + budget' + 1 = MaxHeadLines /\ n - counted' = k - 1
    BY <1>1, <1>5, <1>9, <1>11, <1>13, <1>22, <2>1, <2>3, ConstantTypes DEF Numbers
  <2>5. fields' = SubSeq(m.fields, 1, counted')
    <3>1. m.fields \in Seq(Field)
      BY <1>4, MessageHas
    <3> QED
      BY <1>5, <1>11, <1>13, <1>14, <2>3, <3>1, OneMore
  <2>6. Formed(m.fields, counted')
    BY <1>11, <1>14, <1>22, <2>3, OneMoreFormed
  <2>7. Came(Pending', FieldsDue(m, n - counted'), Missing')
    BY <1>6, <1>15, <1>20, <2>4
  <2>8. InHead'
    BY <1>4, <1>5, <1>11, <2>1, <2>4, <2>5, <2>6, <2>7 DEF InHead, In
  <2>9. Phase'
    BY <2>1, <2>8 DEF Phase
  <2> QED
    BY <1>1, <1>2, <1>20, <2>1, <2>2, <2>9, GoesOn
<1>23. CASE ~(budget > 0 /\ c < MaxHeaders /\ MayBe(u))
  <2>1. Rejected
    BY <1>9, <1>21, <1>23 DEF header_line
  <2>2. Numbers' /\ Ends("protocol")
    BY <1>1, <2>1 DEF Rejected, Numbers, headVars
  <2>3. ~Acceptable(m)
    <3> SUFFICES ASSUME Acceptable(m) PROVE FALSE
      OBVIOUS
    <3>1. n <= MaxHeaders /\ n + 2 <= MaxHeadLines
      BY <1>4, <1>5, AcceptableHas
    <3>2. budget > 0 /\ c < MaxHeaders
      BY <1>1, <1>5, <1>9, <1>11, <1>13, <3>1, ConstantTypes DEF Numbers
    <3>3. MayBe(u)
      BY <1>5, <1>13, <1>14 DEF Acceptable, WellFormed, MayBe
    <3> QED
      BY <1>23, <3>2, <3>3
  <2> QED
    BY <1>1, <1>3, <1>20, <2>2, <2>3, EndsProtocol
<1> QED
  BY <1>22, <1>23

\* A header line behind the last chunk.
LEMMA TrailerKeeps ==
  ASSUME MessageInv, header_line, awaiting = "trailer"
  PROVE  MessageInv'
<1>1. /\ message \in Messages /\ Streams /\ Numbers /\ message' = message /\ cut' = cut
      /\ HasLine({"header", "trailer"}) /\ TheLine # <<>>
  BY DEF MessageInv, header_line, HasLine
<1>2. ~HasEnd(got) /\ outcome = "running" /\ InTrailers
  BY StillRunning DEF MessageInv, LinePhases, Phase
<1>3. PICK m \in Messages : m = message
  BY <1>1
<1>4. IsMessage(m) /\ message' = m
  BY <1>1, <1>3, AMessage
<1>5. PICK n \in Nat : n = Len(m.trailers)
  BY <1>4, MessageHas
<1>6. PICK f \in Nat : f = Len(m.fields)
  BY <1>4, MessageHas
<1>7. Missing' = Missing
  BY <1>1, SameMissing
<1>8. ASSUME NEW d, Due(d), In(LineEnd \o d) PROVE FALSE
  BY <1>1, <1>2, <1>8, EndRead
<1>9. PICK c \in 0..n :
        /\ counted = f + c /\ counted <= MaxHeaders /\ (f + 2) + (c + budget) = MaxHeadLines
        /\ Formed(m.trailers, c) /\ In(TrailersDue(m, n - c))
  BY <1>2, <1>3, <1>5, <1>6 DEF InTrailers
<1>10. PICK k : k = n - c
  OBVIOUS
<1>11. k \in 0..n /\ In(TrailersDue(m, k))
  BY <1>5, <1>9, <1>10
<1>12. k # 0
  <2> SUFFICES ASSUME k = 0 PROVE FALSE
    OBVIOUS
  <2>1. In(LineEnd \o Behind)
    BY <1>4, <1>5, <1>11, TrailersAreDue
  <2> QED
    BY <1>8, <2>1, BehindUnits
<1>13. k \in 1..n /\ k - 1 \in 0..n /\ n + 1 - k = c + 1 /\ c < n /\ k - 1 = n - (c + 1) /\ c + 1 \in 1..n
  BY <1>5, <1>9, <1>10, <1>11, <1>12
<1>14. PICK u : u = m.trailers[c + 1]
  OBVIOUS
<1>15. PICK d : d = TrailersDue(m, k - 1)
  OBVIOUS
<1>16. Due(d)
  BY <1>4, <1>5, <1>13, <1>15, TrailersAreDue
<1>17. u \in Field /\ TrailersDue(m, k) = LineOf(u) \o d
  <2>1. m.trailers[n + 1 - k] \in Field /\ TrailersDue(m, k) = LineOf(m.trailers[n + 1 - k]) \o TrailersDue(m, k - 1)
    BY <1>4, <1>5, <1>13, TrailersStep, Zenon
  <2> QED
    BY <1>13, <1>14, <1>15, <2>1
<1>18. u \in Unit /\ u # LF
  BY <1>17, FieldUnits
<1>19. In(LineOf(u) \o d)
  BY <1>11, <1>17
<1>20. TheLine = <<u>> /\ Streams' /\ ~HasEnd(got') /\ Came(Pending', d, Missing)
  BY <1>1, <1>2, <1>16, <1>18, <1>19, UnitRead
<1>21. (Says("length") \/ Says("coding") \/ Says("other")) <=> MayBe(u)
  BY <1>20 DEF Says, MayBe
<1>22. CASE budget > 0 /\ counted < MaxHeaders /\ MayBe(u)
  <2>1. /\ counted' = counted + 1 /\ budget' = budget - 1 /\ fields' = fields
        /\ UNCHANGED <<want, awaiting, status_code, interim, body, outcome>>
    BY <1>21, <1>22 DEF header_line
  <2>2. Numbers'
    BY <1>1, <1>22, <2>1 DEF Numbers
  <2>3. PICK e \in 0..n : e = c + 1
    BY <1>5, <1>13
  <2>4. /\ counted' = f + e /\ counted' <= MaxHeaders
        /\ (f + 2) + (e + budget') = MaxHeadLines /\ n - e = k - 1
    <3>1. budget \in Nat /\ counted \in Nat
      BY <1>1 DEF Numbers
    <3>2. counted' = f + e
      BY <1>9, <2>1, <2>3, <3>1
    <3>3. counted' <= MaxHeaders
      BY <1>22, <2>1, <3>1, ConstantTypes
    <3>4. n - e = k - 1
      BY <1>13, <2>3
    <3>5. (f + 2) + (e + budget') = MaxHeadLines
      BY <1>9, <1>22, <2>1, <2>3, <3>1
    <3> QED
      BY <3>2, <3>3, <3>4, <3>5
  <2>5. Formed(m.trailers, e)
    BY <1>9, <1>14, <1>22, <2>3, OneMoreFormed
  <2>6. Came(Pending', TrailersDue(m, n - e), Missing')
    BY <1>7, <1>15, <1>20, <2>4
  <2>7. InTrailers'
    <3>1. /\ HeadRight' /\ Framing(m) = "chunked" /\ Codings(m.fields) = {"chunked"}
          /\ m.spill = 0 /\ Total(m) <= MaxBody /\ body' = DataFrom(0, Total(m))
      BY <1>1, <1>2, <1>3, <2>1 DEF InTrailers, HeadRight
    <3> QED
      BY <1>4, <1>5, <1>6, <2>4, <2>5, <2>6, <3>1 DEF InTrailers, In
  <2>8. Phase'
    BY <2>1, <2>7 DEF Phase
  <2> QED
    BY <1>1, <1>2, <1>20, <2>1, <2>2, <2>8, GoesOn
<1>23. CASE ~(budget > 0 /\ counted < MaxHeaders /\ MayBe(u))
  <2>1. Rejected
    BY <1>21, <1>23 DEF header_line
  <2>2. Numbers' /\ Ends("protocol")
    BY <1>1, <2>1 DEF Rejected, Numbers, headVars
  <2>3. ~Acceptable(m)
    <3> SUFFICES ASSUME Acceptable(m) PROVE FALSE
      OBVIOUS
    <3>1. Framing(m) = "chunked"
      BY <1>2, <1>3 DEF InTrailers
    <3>2. f + n <= MaxHeaders /\ (f + 2) + (n + 1) <= MaxHeadLines
      BY <1>4, <1>5, <1>6, <3>1, AcceptableHas
    <3>3. budget > 0 /\ counted < MaxHeaders
      <4>1. budget \in Nat /\ counted \in Nat
        BY <1>1 DEF Numbers
      <4>2. counted < MaxHeaders
        BY <1>9, <1>13, <3>2, <4>1, ConstantTypes
      <4>3. budget > 0
        BY <1>9, <1>13, <3>2, <4>1, ConstantTypes
      <4> QED
        BY <4>2, <4>3
    <3>4. MayBe(u)
      BY <1>5, <1>13, <1>14 DEF Acceptable, WellFormed, MayBe
    <3> QED
      BY <1>23, <3>3, <3>4
  <2> QED
    BY <1>1, <1>3, <1>20, <2>2, <2>3, EndsProtocol
<1> QED
  BY <1>22, <1>23

-----------------------------------------------------------------------------
(* The end of the head, and what the body is.                                *)

\* When nothing is got, what is pending is in the buffer or still to come.
LEMMA Unread ==
  ASSUME Streams', got' = <<>>
  PROVE  Pending' = buffered' \o incoming'
<1>1. PICK r : r = buffered' \o incoming'
  OBVIOUS
<1>2. r \in Seq(Unit)
  <2>1. PICK b : b = buffered'
    OBVIOUS
  <2>2. PICK c : c = incoming'
    OBVIOUS
  <2>3. b \in Seq(Unit) /\ c \in Seq(Unit)
    BY <2>1, <2>2 DEF Streams
  <2> QED
    BY <1>1, <2>1, <2>2, <2>3, Joined
<1>3. << >> \o r = r
  BY <1>2, Nothing
<1> QED
  BY <1>1, <1>3 DEF Pending

\* The head is read: the framing is the one the message has.
HeadRead ==
  /\ HeadRight /\ fields = message.fields /\ status_code = message.code /\ body = <<>>
  /\ counted = Len(message.fields) /\ budget > 0
  /\ (Len(message.fields) + 1) + budget = MaxHeadLines

\* What the headers say of a body is what read_body finds.
LEMMA SameFraming ==
  ASSUME NEW m, IsMessage(m)
  PROVE  /\ Bodyless(m.method, m.code) <=> Framing(m) = "none"
         /\ ~Bodyless(m.method, m.code) => (Codings(m.fields) # {} <=> Framing(m) = "chunked")
         /\ ~Bodyless(m.method, m.code) /\ Codings(m.fields) = {} =>
              IF Lengths(m.fields) = {} THEN Framing(m) = "rest" ELSE Framing(m) = "length"
<1>1. ~(m.code < 200)
  BY MessageHas
<1>2. Bodyless(m.method, m.code) <=> (m.method = "HEAD" \/ m.code \in {204, 304})
  BY <1>1 DEF Bodyless
<1> QED
  BY <1>2 DEF Framing

\* Only a chunked response has trailers, or bytes that do not belong to it.
LEMMA NotChunked ==
  ASSUME NEW m, IsMessage(m), Framing(m) # "chunked"
  PROVE  m.spill = 0 /\ m.trailers = <<>>
  BY Zenon DEF IsMessage

\* There is nothing wrong with no trailers.
LEMMA WholeHead ==
  ASSUME NEW m, IsMessage(m), m = message, HeadRight, Framing(m) # "chunked",
         Framing(m) = "length" => Lengths(m.fields) = {Total(m)} /\ Total(m) <= MaxBody
  PROVE  Acceptable(m)
<1>1. m.spill = 0 /\ m.trailers = <<>>
  BY NotChunked
<1>2. PICK f \in Nat : f = Len(m.fields)
  BY MessageHas
<1>3. /\ m.code \in 200..599 /\ m.interim <= MaxInterim
      /\ f <= MaxHeaders /\ f + 2 <= MaxHeadLines /\ WellFormed(m.fields)
  BY <1>2 DEF HeadRight
<1>4. Len(m.trailers) = 0 /\ WellFormed(m.trailers)
  BY <1>1 DEF WellFormed
<1>5. f + Len(m.trailers) <= MaxHeaders
  BY <1>3, <1>4
<1>6. f + 2 + (IF Framing(m) = "chunked" THEN Len(m.trailers) + 1 ELSE 0) <= MaxHeadLines
  <2>1. f + 2 + 0 <= MaxHeadLines
    BY <1>3
  <2> QED
    BY <2>1
<1> QED
  BY <1>1, <1>2, <1>3, <1>4, <1>5, <1>6 DEF Acceptable

\* read_body goes on as the message does.
LEMMA ReadBodyKeeps ==
  ASSUME message \in Messages, message' = message, cut' = cut, Streams', got' = <<>>,
         Numbers, outcome = "running", HeadRead, read_body, budget' = budget - 1,
         UNCHANGED <<status_code, fields, counted, interim>>,
         Came(Pending', BodyDue(message), Missing)
  PROVE  MessageInv'
<1>1. PICK m \in Messages : m = message
  OBVIOUS
<1>2. IsMessage(m) /\ message' = m
  BY <1>1, AMessage
<1>3. fields = m.fields /\ status_code = m.code /\ HeadRight /\ body = <<>> /\ budget > 0
  BY <1>1 DEF HeadRead
<1>4. Missing' = Missing
  BY SameMissing
<1>5. ~HasEnd(<< >>)
  BY DEF HasEnd
<1>6. ~HasEnd(got')
  BY <1>5
<1>7. budget' \in Nat /\ counted' \in Nat /\ interim' \in Nat /\ want \in Nat
  BY <1>3 DEF Numbers
<1>8. /\ HeadRight' /\ (Len(m.fields) + 2) + budget' = MaxHeadLines /\ counted' = Len(m.fields)
  <2>1. PICK f \in Nat : f = Len(m.fields)
    BY <1>2, MessageHas
  <2>2. (f + 1) + budget = MaxHeadLines /\ counted = f
    BY <1>1, <2>1 DEF HeadRead
  <2>3. (f + 2) + budget' = MaxHeadLines
    BY <1>3, <2>2 DEF Numbers
  <2> QED
    BY <1>3, <2>1, <2>2, <2>3 DEF HeadRight
<1>9. Pending' = buffered' \o incoming'
  BY Unread
<1>10. Total(m) \in Nat
  BY <1>2, ChunkEnds
<1>11. CASE Framing(m) = "none"
  <2>1. Ends("ok") /\ UNCHANGED <<want, body>>
    BY <1>1, <1>2, <1>3, <1>11, SameFraming DEF read_body
  <2>2. Numbers'
    BY <1>7, <2>1 DEF Numbers
  <2>3. Acceptable(m)
    BY <1>1, <1>2, <1>3, <1>11, WholeHead
  <2>4. BodyDue(m) = Behind
    BY <1>2, <1>11, BodyIsDue
  <2>5. Came(buffered' \o incoming', Behind, Missing)
    BY <1>1, <1>9, <2>4
  <2>6. body' = IF Framing(m) = "none" THEN <<>> ELSE DataFrom(0, Total(m))
    BY <1>3, <1>11, <2>1
  <2>7. Framing(m) # "rest"
    BY <1>11
  <2> QED
    BY <1>1, <2>1, <2>2, <2>3, <2>5, <2>6, <2>7, EndsOk
<1>12. CASE Framing(m) = "chunked"
  <2>0. ~Bodyless(message.method, status_code) /\ Codings(fields) # {}
    BY <1>1, <1>2, <1>3, <1>12, SameFraming
  <2>1. /\ IF Codings(m.fields) = {"chunked"} THEN awaiting' = "size" /\ UNCHANGED outcome
           ELSE Ends("protocol")
        /\ UNCHANGED <<want, body>>
    BY <1>3, <2>0 DEF read_body
  <2>2. Numbers'
    BY <1>7, <2>1 DEF Numbers
  <2>3. CASE Codings(m.fields) = {"chunked"}
    <3>1. awaiting' = "size" /\ outcome' = "running" /\ body' = <<>>
      BY <1>3, <2>1, <2>3
    <3>2. IsChunked'
      BY <1>2, <1>8, <1>12, <2>3 DEF IsChunked
    <3>3. PICK n \in Nat : n = Len(m.chunks)
      BY <1>2, MessageHas
    <3>4. BytesBefore(m, n) = 0
      BY <1>2, <3>3, ChunkEnds
    <3>5. DataFrom(0, 0) = <<>>
      BY DEF DataFrom
    <3>6. ReadBut(n)'
      BY <1>2, <3>1, <3>3, <3>4, <3>5, ConstantTypes DEF ReadBut
    <3>7. BodyDue(m) = ChunksDue(m, n)
      BY <1>2, <1>12, <3>3, BodyIsDue
    <3>8. Came(Pending', ChunksDue(m, n), Missing')
      BY <1>1, <1>4, <3>7
    <3>9. n \in 0..n
      BY <3>3
    <3>10. InSize'
      BY <1>2, <3>2, <3>3, <3>6, <3>8, <3>9 DEF InSize, In
    <3>11. Phase'
      BY <3>1, <3>10 DEF Phase
    <3> QED
      BY <1>6, <2>2, <3>1, <3>11, GoesOn
  <2>4. CASE Codings(m.fields) # {"chunked"}
    <3>1. Ends("protocol")
      BY <2>1, <2>4
    <3>2. ~Acceptable(m)
      BY <1>12, <2>4, Zenon DEF Acceptable
    <3> QED
      BY <1>1, <2>2, <3>1, <3>2, EndsProtocol
  <2> QED
    BY <2>3, <2>4
<1>13. CASE Framing(m) = "length"
  <2>0. ~Bodyless(message.method, status_code) /\ Codings(fields) = {} /\ Lengths(fields) # {}
    BY <1>1, <1>2, <1>3, <1>13, SameFraming
  <2>1. /\ IF \E n \in 0..MaxBody : Lengths(m.fields) = {n}
           THEN awaiting' = "body" /\ want' \in Lengths(m.fields) /\ UNCHANGED outcome
           ELSE Ends("protocol") /\ UNCHANGED want
        /\ UNCHANGED body
    BY <1>3, <2>0 DEF read_body
  <2>2. CASE \E n \in 0..MaxBody : Lengths(m.fields) = {n}
    <3>1. PICK n \in 0..MaxBody : Lengths(m.fields) = {n}
      BY <2>2
    <3>2. awaiting' = "body" /\ want' = n /\ outcome' = "running" /\ body' = <<>>
      BY <1>3, <2>1, <3>1
    <3>3. n = Total(m)
      BY <1>2, <1>13, <3>1 DEF IsMessage
    <3>4. Numbers'
      BY <1>7, <3>2 DEF Numbers
    <3>5. BodyDue(m) = DataFrom(0, Total(m)) \o Behind
      BY <1>2, <1>13, BodyIsDue
    <3>6. Came(Pending', DataFrom(0, Total(m)) \o Behind, Missing')
      BY <1>1, <1>4, <3>5
    <3>7. Len(got') = 0 /\ 0 <= want'
      BY <3>2, ConstantTypes
    <3>8. Total(m) <= MaxBody
      BY <3>1, <3>3, ConstantTypes
    <3>9. InBody'
      BY <1>2, <1>8, <1>13, <3>1, <3>2, <3>3, <3>6, <3>7, <3>8 DEF InBody, In
    <3>10. Phase' /\ awaiting' \notin LinePhases
      BY <3>2, <3>9 DEF Phase, LinePhases
    <3> QED
      BY <3>2, <3>4, <3>10, GoesOn
  <2>3. CASE ~ \E n \in 0..MaxBody : Lengths(m.fields) = {n}
    <3>1. Ends("protocol") /\ UNCHANGED want
      BY <2>1, <2>3
    <3>2. Numbers'
      BY <1>7, <3>1 DEF Numbers
    <3>3. ~Acceptable(m)
      <4> SUFFICES ASSUME Acceptable(m) PROVE FALSE
        OBVIOUS
      <4>1. Lengths(m.fields) = {Total(m)} /\ Total(m) <= MaxBody
        BY <1>13 DEF Acceptable
      <4>2. Total(m) \in 0..MaxBody
        BY <1>10, <4>1, ConstantTypes
      <4> QED
        BY <2>3, <4>1, <4>2
    <3> QED
      BY <1>1, <3>1, <3>2, <3>3, EndsProtocol
  <2> QED
    BY <2>2, <2>3
<1>14. CASE Framing(m) = "rest"
  <2>0. ~Bodyless(message.method, status_code) /\ Codings(fields) = {} /\ Lengths(fields) = {}
    BY <1>1, <1>2, <1>3, <1>14, SameFraming
  <2>1. awaiting' = "rest" /\ UNCHANGED <<want, outcome>> /\ UNCHANGED body
    BY <2>0 DEF read_body
  <2>2. Numbers'
    BY <1>7, <2>1 DEF Numbers
  <2>3. BodyDue(m) = DataFrom(0, Total(m)) \o Behind
    BY <1>2, <1>14, BodyIsDue
  <2>4. Came(body' \o (buffered' \o incoming'), DataFrom(0, Total(m)) \o Behind, Missing')
    <3>1. body' = got'
      BY <1>3, <2>1
    <3> QED
      BY <1>1, <1>4, <2>3, <3>1 DEF Pending
  <2>5. InRest'
    <3>1. body' \in Seq(Unit)
      BY <1>3, <2>1
    <3> QED
      BY <1>2, <1>14, <2>4, <3>1 DEF InRest
  <2>6. Phase' /\ awaiting' \notin LinePhases
    BY <2>1, <2>5 DEF Phase, LinePhases
  <2> QED
    BY <2>1, <2>2, <2>6, GoesOn
<1> QED
  BY <1>2, <1>11, <1>12, <1>13, <1>14, BodyIsDue

\* The end of an interim response.
LEMMA InterimEndKeeps ==
  ASSUME MessageInv, head_ends, InInterim
  PROVE  MessageInv'
<1>1. /\ message \in Messages /\ Streams /\ Numbers /\ message' = message /\ cut' = cut
      /\ HasLine({"header"}) /\ awaiting = "header" /\ TheLine = <<>>
  BY DEF MessageInv, head_ends, HasLine
<1>2. ~HasEnd(got) /\ outcome = "running"
  BY <1>1, StillRunning DEF MessageInv, LinePhases
<1>3. PICK m \in Messages : m = message
  BY <1>1
<1>4. IsMessage(m) /\ message' = m
  BY <1>1, <1>3, AMessage
<1>5. PICK h \in Nat : h = m.interim
  BY <1>4, MessageHas
<1>6. PICK j : j = (h - interim) - 1
  OBVIOUS
<1>7. /\ interim \in 0..(h - 1) /\ interim <= MaxInterim /\ status_code = 100 /\ body = <<>>
      /\ budget = MaxHeadLines - 1 /\ In(LineEnd \o StatusDue(m, j))
  BY <1>3, <1>5, <1>6 DEF InInterim
<1>8. j \in 0..h
  BY <1>5, <1>6, <1>7
<1>9. PICK d : d = StatusDue(m, j)
  OBVIOUS
<1>10. Due(d) /\ In(LineEnd \o d)
  BY <1>4, <1>5, <1>7, <1>8, <1>9, StatusIsDue
<1>11. Streams' /\ ~HasEnd(got') /\ Came(Pending', d, Missing)
  BY <1>1, <1>2, <1>10, EndRead
<1>12. Missing' = Missing
  BY <1>1, SameMissing
<1>13. ~(status_code >= 200)
  BY <1>7
<1>14. CASE budget = 0
  <2>1. Rejected
    BY <1>14 DEF head_ends
  <2>2. Numbers' /\ Ends("protocol")
    BY <1>1, <2>1 DEF Rejected, Numbers, headVars
  <2>3. ~Acceptable(m)
    <3> SUFFICES ASSUME Acceptable(m) PROVE FALSE
      OBVIOUS
    <3>1. PICK f \in Nat : f = Len(m.fields)
      BY <1>4, MessageHas
    <3>2. f + 2 <= MaxHeadLines
      BY <1>4, <3>1, AcceptableHas
    <3> QED
      BY <1>7, <1>14, <3>2, ConstantTypes
  <2> QED
    BY <1>1, <1>3, <1>11, <2>2, <2>3, EndsProtocol
<1>15. CASE budget # 0 /\ interim = MaxInterim
  <2>1. Rejected
    BY <1>13, <1>15 DEF head_ends
  <2>2. Numbers' /\ Ends("protocol")
    BY <1>1, <2>1 DEF Rejected, Numbers, headVars
  <2>3. ~(h <= MaxInterim)
    BY <1>5, <1>7, <1>15, ConstantTypes
  <2>4. ~Acceptable(m)
    BY <1>5, <2>3 DEF Acceptable
  <2> QED
    BY <1>1, <1>3, <1>11, <2>2, <2>4, EndsProtocol
<1>16. CASE budget # 0 /\ interim # MaxInterim
  <2>1. /\ interim' = interim + 1 /\ budget' = MaxHeadLines /\ counted' = 0 /\ fields' = <<>>
        /\ awaiting' = "status"
        /\ UNCHANGED <<want, status_code, body, outcome>>
    BY <1>13, <1>16 DEF head_ends
  <2>2. interim' \in 0..h /\ interim' <= MaxInterim /\ h - interim' = j
    BY <1>5, <1>6, <1>7, <1>16, <2>1, ConstantTypes
  <2>3. Numbers'
    BY <1>1, <1>7, <2>1, ConstantTypes DEF Numbers
  <2>4. Came(Pending', StatusDue(m, h - interim'), Missing')
    BY <1>9, <1>11, <1>12, <2>2
  <2>5. InStatus'
    BY <1>4, <1>5, <1>7, <2>1, <2>2, <2>4 DEF InStatus, In
  <2>6. Phase'
    BY <2>1, <2>5 DEF Phase
  <2> QED
    BY <1>1, <1>2, <1>11, <2>1, <2>3, <2>6, GoesOn
<1> QED
  BY <1>14, <1>15, <1>16

\* The end of the head of the final response.
LEMMA FinalEndKeeps ==
  ASSUME MessageInv, head_ends, InHead
  PROVE  MessageInv'
<1>1. /\ message \in Messages /\ Streams /\ Numbers /\ message' = message /\ cut' = cut
      /\ HasLine({"header"}) /\ awaiting = "header" /\ TheLine = <<>> /\ got' = <<>>
  BY DEF MessageInv, head_ends, HasLine
<1>2. ~HasEnd(got) /\ outcome = "running"
  BY <1>1, StillRunning DEF MessageInv, LinePhases
<1>3. PICK m \in Messages : m = message
  BY <1>1
<1>4. IsMessage(m) /\ message' = m
  BY <1>1, <1>3, AMessage
<1>5. PICK n \in Nat : n = Len(m.fields)
  BY <1>4, MessageHas
<1>6. PICK c \in Nat : c = counted
  BY <1>1 DEF Numbers
<1>7. PICK k : k = n - c
  OBVIOUS
<1>8. /\ c \in 0..n /\ k \in 0..n /\ c <= MaxHeaders /\ c + budget + 1 = MaxHeadLines
      /\ status_code = m.code /\ status_code \in 200..599
      /\ interim = m.interim /\ interim <= MaxInterim
      /\ fields = SubSeq(m.fields, 1, c) /\ Formed(m.fields, c)
      /\ body = <<>> /\ In(FieldsDue(m, k))
  BY <1>3, <1>5, <1>6, <1>7 DEF InHead
<1>9. k = 0
  <2> SUFFICES ASSUME k # 0 PROVE FALSE
    OBVIOUS
  <2>1. k \in 1..n /\ k - 1 \in 0..n
    BY <1>5, <1>8
  <2>2. PICK u : u = m.fields[n + 1 - k]
    OBVIOUS
  <2>3. PICK d : d = FieldsDue(m, k - 1)
    OBVIOUS
  <2>4. Due(d)
    BY <1>4, <1>5, <2>1, <2>3, FieldsAreDue
  <2>5. u \in Field /\ FieldsDue(m, k) = LineOf(u) \o d
    <3>1. m.fields[n + 1 - k] \in Field /\ FieldsDue(m, k) = LineOf(m.fields[n + 1 - k]) \o FieldsDue(m, k - 1)
      BY <1>4, <1>5, <2>1, FieldsStep, Zenon
    <3> QED
      BY <2>2, <2>3, <3>1
  <2>6. u \in Unit /\ u # LF /\ In(LineOf(u) \o d)
    BY <1>8, <2>5, FieldUnits
  <2>7. TheLine = <<u>>
    BY <1>1, <1>2, <2>4, <2>6, UnitRead
  <2> QED
    BY <1>1, <2>7
<1>10. c = n
  BY <1>5, <1>7, <1>8, <1>9
<1>11. PICK d : d = BodyDue(m)
  OBVIOUS
<1>12. Due(d) /\ In(LineEnd \o d)
  BY <1>4, <1>5, <1>8, <1>9, <1>11, FieldsAreDue, BodyIsDue
<1>13. Streams' /\ Came(Pending', d, Missing)
  BY <1>1, <1>2, <1>12, EndRead
<1>14. CASE budget = 0
  <2>1. Rejected
    BY <1>14 DEF head_ends
  <2>2. Numbers' /\ Ends("protocol")
    BY <1>1, <2>1 DEF Rejected, Numbers, headVars
  <2>3. ~Acceptable(m)
    <3> SUFFICES ASSUME Acceptable(m) PROVE FALSE
      OBVIOUS
    <3>1. n + 2 <= MaxHeadLines
      BY <1>4, <1>5, AcceptableHas
    <3> QED
      BY <1>5, <1>8, <1>10, <1>14, <3>1, ConstantTypes
  <2> QED
    BY <1>1, <1>3, <1>13, <2>2, <2>3, EndsProtocol
<1>15. CASE budget # 0
  <2>1. read_body /\ budget' = budget - 1 /\ UNCHANGED <<status_code, fields, counted, interim>>
    <3>1. PICK s : s = status_code
      OBVIOUS
    <3>2. s \in 200..599
      BY <1>8, <3>1, Zenon
    <3>3. s >= 200
      BY <3>2
    <3>4. status_code >= 200
      BY <3>1, <3>3
    <3> QED
      BY <1>15, <3>4, Zenon DEF head_ends
  <2>2. budget \in Nat /\ budget > 0
    BY <1>1, <1>15 DEF Numbers
  <2>3. n + 2 <= MaxHeadLines /\ (n + 1) + budget = MaxHeadLines
    BY <1>5, <1>8, <1>10, <2>2, ConstantTypes
  <2>4. fields = m.fields
    <3>1. m.fields \in Seq(Field)
      BY <1>4, MessageHas
    <3>2. SubSeq(m.fields, 1, n) = m.fields
      BY <1>5, <3>1
    <3> QED
      BY <1>8, <1>10, <3>2
  <2>5. HeadRight
    BY <1>3, <1>5, <1>8, <1>10, <2>3 DEF HeadRight, Formed, WellFormed
  <2>6. HeadRead
    BY <1>3, <1>5, <1>6, <1>8, <1>10, <2>2, <2>3, <2>4, <2>5 DEF HeadRead
  <2>7. Came(Pending', BodyDue(message), Missing)
    BY <1>3, <1>11, <1>13
  <2> QED
    BY <1>1, <1>2, <1>13, <2>1, <2>6, <2>7, ReadBodyKeeps
<1> QED
  BY <1>14, <1>15

-----------------------------------------------------------------------------
(* Chunks and trailers.                                                      *)

\* A size line.
LEMMA ChunkSizeKeeps ==
  ASSUME MessageInv, chunk_size
  PROVE  MessageInv'
<1>1. /\ message \in Messages /\ Streams /\ Numbers /\ message' = message /\ cut' = cut
      /\ HasLine({"size"}) /\ awaiting = "size" /\ got' = <<>>
  BY DEF MessageInv, chunk_size, HasLine
<1>2. ~HasEnd(got) /\ outcome = "running" /\ InSize
  BY <1>1, StillRunning DEF MessageInv, LinePhases, Phase
<1>3. PICK m \in Messages : m = message
  BY <1>1
<1>4. IsMessage(m) /\ message' = m
  BY <1>1, <1>3, AMessage
<1>5. PICK n \in Nat : n = Len(m.chunks)
  BY <1>4, MessageHas
<1>6. PICK k \in 0..n : ReadBut(k) /\ In(ChunksDue(m, k))
  BY <1>2, <1>3, <1>5 DEF InSize
<1>7. IsChunked /\ Framing(m) = "chunked"
  BY <1>2, <1>3 DEF InSize, IsChunked
<1>8. Missing' = Missing
  BY <1>1, SameMissing
<1>9. PICK b : b = BytesBefore(m, k)
  OBVIOUS
<1>10. /\ body = DataFrom(0, b) /\ b <= MaxBody
       /\ k = n \/ m.spill = 0
  BY <1>3, <1>5, <1>6, <1>9 DEF ReadBut
<1>11. CASE k = 0
  <2>1. PICK t \in Nat : t = Len(m.trailers)
    BY <1>4, MessageHas
  <2>2. PICK d : d = TrailersDue(m, t)
    OBVIOUS
  <2>3. PICK u : u = <<"size", 0>>
    OBVIOUS
  <2>4. u \in Unit /\ u # LF
    BY <2>3, NumberUnits
  <2>5. Due(d)
    BY <1>4, <2>1, <2>2, LastChunkIsDue
  <2>6. In(LineOf(u) \o d)
    BY <1>4, <1>5, <1>6, <1>11, <2>1, <2>2, <2>3, ChunksAreDue DEF LastChunkDue
  <2>7. TheLine = <<u>> /\ Streams' /\ ~HasEnd(got') /\ Came(Pending', d, Missing)
    BY <1>1, <1>2, <2>4, <2>5, <2>6, UnitRead
  <2>8. Says("size") /\ TheLine[1][2] = 0
    BY <2>3, <2>7 DEF Says
  <2>9. awaiting' = "trailer" /\ UNCHANGED <<want, headVars, body, outcome>>
    BY <2>8 DEF chunk_size
  <2>10. b = Total(m)
    BY <1>4, <1>9, <1>11, ChunkEnds
  <2>11. m.spill = 0
    <3>1. CASE n = 0
      <4>1. ASSUME NEW s \in Seq(Nat \ {0}), Len(s) = 0 PROVE s = <<>>
        BY <4>1
      <4>2. m.chunks = <<>>
        <5>1. m.chunks \in Seq(Nat \ {0}) /\ Len(m.chunks) = 0
          BY <1>4, <1>5, <3>1, MessageHas
        <5> QED
          BY <4>1, <5>1, Zenon
      <4> QED
        BY <1>4, <4>2 DEF IsMessage
    <3>2. CASE n # 0
      BY <1>10, <1>11, <3>2
    <3> QED
      BY <3>1, <3>2
  <2>12. Numbers'
    BY <1>1, <2>9 DEF Numbers, headVars
  <2>13. PICK f \in Nat : f = Len(m.fields)
    BY <1>4, MessageHas
  <2>14. /\ HeadRight /\ Codings(m.fields) = {"chunked"} /\ (f + 2) + budget = MaxHeadLines
         /\ counted = f /\ f <= MaxHeaders
    BY <1>3, <1>7, <2>13 DEF IsChunked, HeadRight
  <2>15. /\ counted' = f + 0 /\ counted' <= MaxHeaders /\ (f + 2) + (0 + budget') = MaxHeadLines
         /\ t - 0 = t /\ 0 \in 0..t /\ body' = DataFrom(0, Total(m)) /\ Total(m) <= MaxBody
    <3>1. counted' = counted /\ budget' = budget /\ body' = body /\ budget \in Nat
      BY <1>1, <2>9 DEF headVars, Numbers
    <3>2. body' = DataFrom(0, Total(m)) /\ Total(m) <= MaxBody
      BY <1>10, <2>10, <3>1
    <3>3. counted' = f + 0 /\ counted' <= MaxHeaders
      BY <2>13, <2>14, <3>1
    <3>4. 0 + budget' = budget
      BY <3>1
    <3>5. t - 0 = t /\ 0 \in 0..t
      BY <2>1
    <3> QED
      BY <2>14, <3>2, <3>3, <3>4, <3>5
  <2>16. HeadRight'
    BY <1>1, <2>14 DEF HeadRight
  <2>17. Formed(m.trailers, 0)
    BY DEF Formed
  <2>18. Came(Pending', TrailersDue(m, t - 0), Missing')
    BY <1>8, <2>2, <2>7, <2>15
  <2>19. InTrailers'
    BY <1>4, <1>7, <2>1, <2>11, <2>13, <2>14, <2>15, <2>16, <2>17, <2>18 DEF InTrailers, In
  <2>20. Phase'
    BY <2>9, <2>19 DEF Phase
  <2> QED
    BY <1>1, <1>2, <2>7, <2>9, <2>12, <2>20, GoesOn
<1>12. CASE k # 0
  <2>1. k \in 1..n
    BY <1>5, <1>6, <1>12
  <2>2. PICK c : c = ChunkOf(m, k)
    OBVIOUS
  <2>3. b \in Nat /\ c \in Nat \ {0} /\ b + c <= Total(m) /\ Total(m) \in Nat
    BY <1>4, <1>5, <1>9, <2>1, <2>2, ChunkHas
  <2>4. PICK d : d = BytesDue(m, k)
    OBVIOUS
  <2>5. PICK u : u = <<"size", c>>
    OBVIOUS
  <2>6. u \in Unit /\ u # LF
    BY <2>3, <2>5, NumberUnits
  <2>7. Due(d) /\ In(LineOf(u) \o d)
    BY <1>4, <1>5, <1>6, <2>1, <2>2, <2>4, <2>5, ChunkStep
  <2>8. TheLine = <<u>> /\ Streams' /\ ~HasEnd(got') /\ Came(Pending', d, Missing)
    BY <1>1, <1>2, <2>6, <2>7, UnitRead
  <2>9. Says("size") /\ TheLine[1][2] = c
    BY <2>5, <2>8 DEF Says
  <2>10. Len(body) = b
    BY <1>10, <2>3, DataUnits
  <2>11. CASE b + c > MaxBody
    <3>1. Rejected
      BY <2>3, <2>9, <2>10, <2>11 DEF chunk_size
    <3>2. Numbers' /\ Ends("protocol")
      BY <1>1, <3>1 DEF Rejected, Numbers, headVars
    <3>3. ~(Total(m) <= MaxBody)
      BY <2>3, <2>11, ConstantTypes
    <3>4. ~Acceptable(m)
      BY <1>7, <3>3 DEF Acceptable
    <3> QED
      BY <1>1, <1>3, <2>8, <3>2, <3>4, EndsProtocol
  <2>12. CASE ~(b + c > MaxBody)
    <3>1. awaiting' = "chunk" /\ want' = c /\ UNCHANGED <<headVars, body, outcome>>
      BY <2>3, <2>9, <2>10, <2>12 DEF chunk_size
    <3>2. Numbers'
      BY <1>1, <2>3, <3>1 DEF Numbers, headVars
    <3>3. IsChunked'
      BY <1>1, <1>7, <3>1 DEF IsChunked, HeadRight, headVars
    <3>4. ReadBut(k)'
      BY <1>1, <1>6, <3>1 DEF ReadBut
    <3>5. Len(got') = 0 /\ 0 <= want' /\ b + want' <= MaxBody
      BY <1>1, <2>3, <2>12, <3>1, ConstantTypes
    <3>6. Came(Pending', BytesDue(m, k), Missing')
      BY <1>8, <2>4, <2>8
    <3>7. InChunk'
      BY <1>4, <1>5, <1>9, <2>1, <2>2, <3>1, <3>3, <3>4, <3>5, <3>6 DEF InChunk, In
    <3>8. Phase' /\ awaiting' \notin LinePhases
      BY <3>1, <3>7 DEF Phase, LinePhases
    <3> QED
      BY <1>1, <1>2, <2>8, <3>1, <3>2, <3>8, GoesOn
  <2> QED
    BY <2>11, <2>12
<1> QED
  BY <1>11, <1>12

\* The empty line behind the trailers.
LEMMA TrailersEndKeeps ==
  ASSUME MessageInv, trailers_end
  PROVE  MessageInv'
<1>1. /\ message \in Messages /\ Streams /\ Numbers /\ message' = message /\ cut' = cut
      /\ HasLine({"trailer"}) /\ awaiting = "trailer" /\ TheLine = <<>> /\ got' = <<>>
      /\ UNCHANGED <<want, headVars, body>>
  BY DEF MessageInv, trailers_end, HasLine
<1>2. ~HasEnd(got) /\ InTrailers
  BY <1>1 DEF MessageInv, LinePhases, Phase
<1>3. PICK m \in Messages : m = message
  BY <1>1
<1>4. IsMessage(m) /\ message' = m
  BY <1>1, <1>3, AMessage
<1>5. PICK n \in Nat : n = Len(m.trailers)
  BY <1>4, MessageHas
<1>6. PICK f \in Nat : f = Len(m.fields)
  BY <1>4, MessageHas
<1>7. PICK c \in 0..n :
        /\ counted = f + c /\ counted <= MaxHeaders /\ (f + 2) + (c + budget) = MaxHeadLines
        /\ Formed(m.trailers, c) /\ In(TrailersDue(m, n - c))
  BY <1>2, <1>3, <1>5, <1>6 DEF InTrailers
<1>8. PICK k : k = n - c
  OBVIOUS
<1>9. k \in 0..n /\ In(TrailersDue(m, k))
  BY <1>5, <1>7, <1>8
<1>10. k = 0
  <2> SUFFICES ASSUME k # 0 PROVE FALSE
    OBVIOUS
  <2>1. k \in 1..n /\ k - 1 \in 0..n
    BY <1>5, <1>9
  <2>2. PICK u : u = m.trailers[n + 1 - k]
    OBVIOUS
  <2>3. PICK d : d = TrailersDue(m, k - 1)
    OBVIOUS
  <2>4. Due(d)
    BY <1>4, <1>5, <2>1, <2>3, TrailersAreDue
  <2>5. u \in Field /\ TrailersDue(m, k) = LineOf(u) \o d
    <3>1. m.trailers[n + 1 - k] \in Field /\ TrailersDue(m, k) = LineOf(m.trailers[n + 1 - k]) \o TrailersDue(m, k - 1)
      BY <1>4, <1>5, <2>1, TrailersStep, Zenon
    <3> QED
      BY <2>2, <2>3, <3>1
  <2>6. u \in Unit /\ u # LF /\ In(LineOf(u) \o d)
    BY <1>9, <2>5, FieldUnits
  <2>7. TheLine = <<u>>
    BY <1>1, <1>2, <2>4, <2>6, UnitRead
  <2> QED
    BY <1>1, <2>7
<1>11. c = n
  BY <1>5, <1>7, <1>8, <1>10
<1>12. In(LineEnd \o Behind)
  BY <1>4, <1>5, <1>9, <1>10, TrailersAreDue
<1>13. Streams' /\ Came(Pending', Behind, Missing)
  BY <1>1, <1>2, <1>12, BehindUnits, EndRead
<1>14. Numbers'
  BY <1>1 DEF Numbers, headVars
<1>15. /\ HeadRight /\ Framing(m) = "chunked" /\ Codings(m.fields) = {"chunked"}
       /\ m.spill = 0 /\ Total(m) <= MaxBody /\ body = DataFrom(0, Total(m))
  BY <1>2, <1>3 DEF InTrailers
<1>16. budget \in Nat
  BY <1>1 DEF Numbers
<1>17. CASE budget = 0
  <2>1. Ends("protocol")
    BY <1>17 DEF trailers_end
  <2>2. ~Acceptable(m)
    <3> SUFFICES ASSUME Acceptable(m) PROVE FALSE
      OBVIOUS
    <3>1. (f + 2) + (n + 1) <= MaxHeadLines
      BY <1>4, <1>5, <1>6, <1>15, AcceptableHas
    <3> QED
      BY <1>7, <1>11, <1>17, <3>1, ConstantTypes
  <2> QED
    BY <1>1, <1>3, <1>13, <1>14, <2>1, <2>2, EndsProtocol
<1>18. CASE budget # 0
  <2>1. Ends("ok")
    BY <1>18 DEF trailers_end
  <2>2. f + n <= MaxHeaders
    BY <1>7, <1>11
  <2>3. f + 2 + (IF Framing(m) = "chunked" THEN n + 1 ELSE 0) <= MaxHeadLines
    <3>1. f + 2 + (n + 1) <= MaxHeadLines
      BY <1>7, <1>11, <1>16, <1>18, ConstantTypes
    <3> QED
      BY <1>15, <3>1
  <2>4. WellFormed(m.trailers)
    BY <1>5, <1>7, <1>11 DEF Formed, WellFormed
  <2>5. m.code \in 200..599 /\ m.interim <= MaxInterim /\ WellFormed(m.fields)
    BY <1>3, <1>15 DEF HeadRight
  <2>6. Acceptable(m)
    <3>1. Len(m.fields) = f /\ Len(m.trailers) = n
      BY <1>5, <1>6
    <3>2. Len(m.fields) + Len(m.trailers) <= MaxHeaders
      BY <2>2, <3>1
    <3>3. Len(m.fields) + 2 + (IF Framing(m) = "chunked" THEN Len(m.trailers) + 1 ELSE 0) <= MaxHeadLines
      BY <2>3, <3>1
    <3> QED
      BY <1>15, <2>4, <2>5, <3>2, <3>3, Zenon DEF Acceptable
  <2>7. Came(buffered' \o incoming', Behind, Missing)
    BY <1>1, <1>13, Unread
  <2>8. Framing(message) # "rest" /\ body' = IF Framing(message) = "none" THEN <<>> ELSE DataFrom(0, Total(message))
    BY <1>1, <1>3, <1>15
  <2> QED
    BY <1>1, <1>3, <1>13, <1>14, <2>1, <2>6, <2>7, <2>8, EndsOk
<1> QED
  BY <1>17, <1>18

-----------------------------------------------------------------------------
(* The connection delivers more, or ends.                                    *)

AllMoves(g, b, c) == (g \o b) \o (<< >> \o c) = g \o (b \o c)

\* What the buffer holds is got.
LEMMA AllMoved ==
  ASSUME NEW g \in Seq(Unit), NEW b \in Seq(Unit), NEW c \in Seq(Unit)
  PROVE  AllMoves(g, b, c)
<1>1. << >> \o c = c
  BY Nothing
<1>2. g \o b \in Seq(Unit)
  BY Joined
<1>3. (g \o b) \o c = g \o (b \o c)
  <2>1. Assoc(g, b, c)
    BY Regrouped, Zenon
  <2> QED
    BY <2>1 DEF Assoc
<1> QED
  BY <1>1, <1>3 DEF AllMoves

PartMoves(g, p, q, c) == (g \o p) \o (q \o c) = g \o ((p \o q) \o c)

\* A part of what the buffer holds is got.
LEMMA PartMoved ==
  ASSUME NEW g \in Seq(Unit), NEW p \in Seq(Unit), NEW q \in Seq(Unit), NEW c \in Seq(Unit)
  PROVE  PartMoves(g, p, q, c)
<1>1. q \o c \in Seq(Unit) /\ g \o p \in Seq(Unit)
  BY Joined
<1>2. (p \o q) \o c = p \o (q \o c)
  <2>1. Assoc(p, q, c)
    BY Regrouped, Zenon
  <2> QED
    BY <2>1 DEF Assoc
<1>3. (g \o p) \o (q \o c) = g \o (p \o (q \o c))
  <2>1. Assoc(g, p, q \o c)
    BY <1>1, Regrouped, Zenon
  <2> QED
    BY <2>1 DEF Assoc
<1> QED
  BY <1>1, <1>2, <1>3 DEF PartMoves

\* Two parts of a line without a line end.
LEMMA NoEnd ==
  ASSUME NEW g \in Seq(Unit), NEW b \in Seq(Unit), ~HasEnd(g), ~HasEnd(b)
  PROVE  ~HasEnd(g \o b)
<1>1. PICK m \in Nat : m = Len(g)
  OBVIOUS
<1>2. PICK n \in Nat : n = Len(b)
  OBVIOUS
<1>3. PICK s : s = g \o b
  OBVIOUS
<1>4. /\ Len(s) = Len(g) + Len(b)
      /\ (\A i \in 1..Len(g) : s[i] = g[i]) /\ (\A i \in 1..Len(b) : s[Len(g) + i] = b[i])
  BY <1>3, Joined
<1>5. Len(s) = m + n /\ (\A i \in 1..m : s[i] = g[i]) /\ (\A i \in 1..n : s[m + i] = b[i])
  BY <1>1, <1>2, <1>4
<1>6. ASSUME NEW i \in 1..(m + n) PROVE s[i] # LF
  <2>1. CASE i <= m
    <3>1. i \in 1..m
      BY <1>1, <1>2, <2>1
    <3> QED
      BY <1>1, <1>5, <3>1 DEF HasEnd
  <2>2. CASE ~(i <= m)
    <3>1. PICK j \in 1..n : i = m + j
      <4>1. i - m \in 1..n /\ i = m + (i - m)
        BY <1>1, <1>2, <2>2
      <4> QED
        BY <4>1
    <3> QED
      BY <1>2, <1>5, <3>1 DEF HasEnd
  <2> QED
    BY <2>1, <2>2
<1>7. ~HasEnd(s)
  BY <1>5, <1>6 DEF HasEnd
<1> QED
  BY <1>3, <1>7

\* A line grows by what the connection delivers, and nothing is lost.
LEMMA FillKeepsStream ==
  ASSUME Streams, ~HasEnd(got), fill_line
  PROVE  Streams' /\ ~HasEnd(got') /\ Pending' = Pending
<1>1. PICK g \in Seq(Unit) : g = got
  BY DEF Streams
<1>2. PICK b \in Seq(Unit) : b = buffered
  BY DEF Streams
<1>3. PICK c \in Seq(Unit) : c = incoming
  BY DEF Streams
<1>4. << >> \in Seq(Unit)
  OBVIOUS
<1>5. CASE /\ buffered # <<>> /\ ~HasEnd(buffered)
           /\ got' = got \o buffered /\ buffered' = <<>> /\ UNCHANGED incoming
  <2>1. got' = g \o b /\ buffered' = << >> /\ incoming' = c
    BY <1>1, <1>2, <1>3, <1>5
  <2>2. g \o b \in Seq(Unit) /\ (g \o b) \o (<< >> \o c) = g \o (b \o c)
    <3>1. AllMoves(g, b, c)
      BY AllMoved, Zenon
    <3>2. g \o b \in Seq(Unit)
      BY Joined
    <3> QED
      BY <3>1, <3>2 DEF AllMoves
  <2>3. ~HasEnd(g \o b)
    BY <1>1, <1>2, <1>5, NoEnd
  <2>4. Pending' = Pending
    BY <1>1, <1>2, <1>3, <2>1, <2>2 DEF Pending
  <2> QED
    BY <1>4, <2>1, <2>2, <2>3, <2>4 DEF Streams
<1>6. CASE /\ buffered = <<>>
           /\ \E n \in 1..Len(incoming) :
                /\ n <= BufChunk
                /\ buffered' = SubSeq(incoming, 1, n)
                /\ incoming' = SubSeq(incoming, n + 1, Len(incoming))
           /\ UNCHANGED got
  <2>1. PICK n \in 1..Len(c) : buffered' = SubSeq(c, 1, n) /\ incoming' = SubSeq(c, n + 1, Len(c))
    BY <1>3, <1>6
  <2>2. PICK p : p = SubSeq(c, 1, n)
    OBVIOUS
  <2>3. PICK q : q = SubSeq(c, n + 1, Len(c))
    OBVIOUS
  <2>4. n \in 0..Len(c)
    OBVIOUS
  <2>5. p \in Seq(Unit) /\ q \in Seq(Unit) /\ p \o q = c
    BY <2>2, <2>3, <2>4, CutInTwo
  <2>6. got' = g /\ buffered' = p /\ incoming' = q
    BY <1>1, <1>6, <2>1, <2>2, <2>3
  <2>7. << >> \o c = c
    BY Nothing
  <2>8. Pending' = Pending
    BY <1>1, <1>3, <1>6, <2>5, <2>6, <2>7 DEF Pending
  <2> QED
    BY <1>1, <2>5, <2>6, <2>8 DEF Streams
<1> QED
  BY <1>5, <1>6 DEF fill_line

\* A line that is not there yet changes nothing else.
LEMMA FillKeeps ==
  ASSUME MessageInv, fill_line
  PROVE  MessageInv'
<1>1. /\ message \in Messages /\ Streams /\ Numbers /\ awaiting \in LinePhases /\ Phase
      /\ UNCHANGED <<message, cut, want, awaiting, headVars, body, outcome>>
  BY DEF MessageInv, fill_line
<1>2. ~HasEnd(got) /\ outcome = "running"
  BY <1>1, StillRunning DEF MessageInv, LinePhases
<1>3. Streams' /\ ~HasEnd(got') /\ Pending' = Pending
  BY <1>1, <1>2, FillKeepsStream
<1>4. Missing' = Missing
  BY <1>1, SameMissing
<1>5. Numbers'
  BY <1>1 DEF Numbers, headVars
<1>6. /\ status_code' = status_code /\ fields' = fields /\ counted' = counted /\ budget' = budget
      /\ interim' = interim /\ message' = message /\ body' = body
  BY <1>1 DEF headVars
<1>7. InStatus => InStatus'
  BY <1>3, <1>4, <1>6 DEF InStatus, In
<1>8. InInterim => InInterim'
  BY <1>3, <1>4, <1>6 DEF InInterim, In
<1>9. InHead => InHead'
  BY <1>3, <1>4, <1>6 DEF InHead, In
<1>10. HeadRight => HeadRight'
  BY <1>6 DEF HeadRight
<1>11. IsChunked => IsChunked'
  BY <1>6, <1>10 DEF IsChunked
<1>12. InSize => InSize'
  BY <1>3, <1>4, <1>6, <1>11 DEF InSize, ReadBut, In
<1>13. InTrailers => InTrailers'
  BY <1>3, <1>4, <1>6, <1>10 DEF InTrailers, In
<1>14. Phase'
  BY <1>1, <1>7, <1>8, <1>9, <1>12, <1>13 DEF Phase, LinePhases
<1> QED
  BY <1>1, <1>2, <1>3, <1>5, <1>14, GoesOn

\* There is always a line due where one is read.
LEMMA LineIsDue ==
  ASSUME MessageInv, awaiting \in LinePhases
  PROVE  \E l, d : IsLine(l) /\ Due(d) /\ In(l \o d)
<1>1. PICK m \in Messages : m = message
  BY DEF MessageInv
<1>2. IsMessage(m)
  BY AMessage
<1>3. ASSUME NEW u \in Unit, u # LF, NEW d, Due(d), In(LineOf(u) \o d)
      PROVE  \E l, e : IsLine(l) /\ Due(e) /\ In(l \o e)
  BY <1>3, LineText
<1>4. ASSUME NEW d, Due(d), In(LineEnd \o d) PROVE \E l, e : IsLine(l) /\ Due(e) /\ In(l \o e)
  BY <1>4, EndText
<1>5. PICK h \in Nat : h = m.interim
  BY <1>2, MessageHas
<1>6. CASE awaiting = "status"
  <2>1. PICK k : k = h - interim
    OBVIOUS
  <2>2. InStatus
    BY <1>6 DEF MessageInv, Phase
  <2>3. interim \in 0..h /\ In(StatusDue(m, k))
    BY <1>1, <1>5, <2>1, <2>2 DEF InStatus
  <2>4. CASE k = 0
    <3>1. PICK u : u = <<"status", m.code>>
      OBVIOUS
    <3>2. u \in Unit /\ u # LF
      BY <1>2, <3>1, MessageHas, NumberUnits
    <3>3. In(LineOf(u) \o FieldsDue(m, Len(m.fields))) /\ Due(FieldsDue(m, Len(m.fields)))
      BY <1>2, <2>3, <2>4, <3>1, StatusIsDue, HeadIsDue DEF HeadDue
    <3> QED
      BY <1>3, <3>2, <3>3
  <2>5. CASE k # 0
    <3>1. k \in 1..h /\ k - 1 \in 0..h
      BY <1>5, <2>1, <2>3, <2>5
    <3>2. PICK u : u = <<"status", 100>>
      OBVIOUS
    <3>3. u \in Unit /\ u # LF
      BY <3>2, NumberUnits
    <3>4. Due(StatusDue(m, k - 1))
      BY <1>2, <1>5, <3>1, StatusIsDue
    <3>5. Due(LineEnd \o StatusDue(m, k - 1))
      BY <3>4, EndUnits, DueAfter
    <3>6. In(LineOf(u) \o (LineEnd \o StatusDue(m, k - 1)))
      BY <1>2, <1>5, <2>3, <3>1, <3>2, StatusStep
    <3> QED
      BY <1>3, <3>3, <3>5, <3>6
  <2> QED
    BY <2>4, <2>5
<1>7. CASE awaiting = "header" /\ InInterim
  <2>1. PICK j : j = (h - interim) - 1
    OBVIOUS
  <2>2. interim \in 0..(h - 1) /\ In(LineEnd \o StatusDue(m, j))
    BY <1>1, <1>5, <1>7, <2>1 DEF InInterim
  <2>3. j \in 0..h
    BY <1>5, <2>1, <2>2
  <2>4. Due(StatusDue(m, j))
    BY <1>2, <1>5, <2>3, StatusIsDue
  <2> QED
    BY <1>4, <2>2, <2>4
<1>8. CASE awaiting = "header" /\ InHead
  <2>1. PICK n \in Nat : n = Len(m.fields)
    BY <1>2, MessageHas
  <2>2. PICK k : k = n - counted
    OBVIOUS
  <2>3. counted \in 0..n /\ In(FieldsDue(m, k))
    BY <1>1, <1>8, <2>1, <2>2 DEF InHead
  <2>4. CASE k = 0
    BY <1>2, <1>4, <2>1, <2>3, <2>4, FieldsAreDue, BodyIsDue
  <2>5. CASE k # 0
    <3>1. k \in 1..n /\ k - 1 \in 0..n
      BY <2>1, <2>2, <2>3, <2>5
    <3>2. m.fields[n + 1 - k] \in Field /\ FieldsDue(m, k) = LineOf(m.fields[n + 1 - k]) \o FieldsDue(m, k - 1)
      BY <1>2, <2>1, <3>1, FieldsStep, Zenon
    <3>3. PICK u : u = m.fields[n + 1 - k]
      OBVIOUS
    <3>4. u \in Unit /\ u # LF /\ In(LineOf(u) \o FieldsDue(m, k - 1))
      BY <2>3, <3>2, <3>3, FieldUnits
    <3>5. Due(FieldsDue(m, k - 1))
      BY <1>2, <2>1, <3>1, FieldsAreDue
    <3> QED
      BY <1>3, <3>4, <3>5
  <2> QED
    BY <2>4, <2>5
<1>9. CASE awaiting = "size"
  <2>1. PICK n \in Nat : n = Len(m.chunks)
    BY <1>2, MessageHas
  <2>2. PICK k \in 0..n : In(ChunksDue(m, k))
    BY <1>1, <1>9, <2>1 DEF MessageInv, Phase, InSize
  <2>3. CASE k = 0
    <3>1. PICK u : u = <<"size", 0>>
      OBVIOUS
    <3>2. u \in Unit /\ u # LF
      BY <3>1, NumberUnits
    <3>3. In(LineOf(u) \o TrailersDue(m, Len(m.trailers))) /\ Due(TrailersDue(m, Len(m.trailers)))
      BY <1>2, <2>1, <2>2, <2>3, <3>1, ChunksAreDue, LastChunkIsDue DEF LastChunkDue
    <3> QED
      BY <1>3, <3>2, <3>3
  <2>4. CASE k # 0
    <3>1. k \in 1..n
      BY <2>1, <2>2, <2>4
    <3>2. PICK c \in Nat : c = ChunkOf(m, k)
      BY <1>2, <2>1, <3>1, ChunkHas
    <3>3. PICK u : u = <<"size", c>>
      OBVIOUS
    <3>4. u \in Unit /\ u # LF
      BY <3>3, NumberUnits
    <3>5. In(LineOf(u) \o BytesDue(m, k)) /\ Due(BytesDue(m, k))
      BY <1>2, <2>1, <2>2, <3>1, <3>2, <3>3, ChunkStep
    <3> QED
      BY <1>3, <3>4, <3>5
  <2> QED
    BY <2>3, <2>4
<1>10. CASE awaiting = "trailer"
  <2>1. PICK n \in Nat : n = Len(m.trailers)
    BY <1>2, MessageHas
  <2>2. PICK c \in 0..n : In(TrailersDue(m, n - c))
    BY <1>1, <1>10, <2>1 DEF MessageInv, Phase, InTrailers
  <2>3. PICK k \in 0..n : k = n - c
    BY <2>1, <2>2
  <2>4. In(TrailersDue(m, k))
    BY <2>2, <2>3
  <2>5. CASE k = 0
    BY <1>2, <1>4, <2>1, <2>4, <2>5, TrailersAreDue, BehindUnits
  <2>6. CASE k # 0
    <3>1. k \in 1..n /\ k - 1 \in 0..n
      BY <2>1, <2>3, <2>6
    <3>2. m.trailers[n + 1 - k] \in Field /\ TrailersDue(m, k) = LineOf(m.trailers[n + 1 - k]) \o TrailersDue(m, k - 1)
      BY <1>2, <2>1, <3>1, TrailersStep, Zenon
    <3>3. PICK u : u = m.trailers[n + 1 - k]
      OBVIOUS
    <3>4. u \in Unit /\ u # LF /\ In(LineOf(u) \o TrailersDue(m, k - 1))
      BY <2>4, <3>2, <3>3, FieldUnits
    <3>5. Due(TrailersDue(m, k - 1))
      BY <1>2, <2>1, <3>1, TrailersAreDue
    <3> QED
      BY <1>3, <3>4, <3>5
  <2> QED
    BY <2>5, <2>6
<1> QED
  BY <1>6, <1>7, <1>8, <1>9, <1>10 DEF MessageInv, Phase, LinePhases

\* A connection that ends within a line cuts the message short.
LEMMA LineCutKeeps ==
  ASSUME MessageInv, line_cut
  PROVE  MessageInv'
<1>1. /\ message \in Messages /\ Streams /\ Numbers /\ message' = message /\ cut' = cut
      /\ awaiting \in LinePhases /\ buffered = <<>> /\ incoming = <<>> /\ Ends("truncated")
      /\ UNCHANGED <<message, cut, readVars, want, headVars, body>>
  BY DEF MessageInv, line_cut
<1>2. Streams' /\ Numbers' /\ ~HasEnd(got)
  BY <1>1 DEF MessageInv, Streams, Numbers, readVars, headVars
<1>3. PICK l, d : IsLine(l) /\ Due(d) /\ In(l \o d)
  BY <1>1, LineIsDue
<1>4. Missing >= 2
  BY <1>1, <1>2, <1>3, NoLine
<1> QED
  BY <1>1, <1>2, <1>4, EndsTruncated

\* A read that throws ends it without a verdict.
LEMMA ReadFailsKeeps ==
  ASSUME MessageInv, read_fails
  PROVE  MessageInv'
<1>1. /\ message \in Messages /\ Streams /\ Numbers /\ message' = message /\ Ends("failed")
      /\ UNCHANGED <<message, cut, readVars, want, headVars, body>>
  BY DEF MessageInv, read_fails
<1>2. Streams' /\ Numbers'
  BY <1>1 DEF Streams, Numbers, readVars, headVars
<1> QED
  BY <1>1, <1>2, EndsFailed

-----------------------------------------------------------------------------
(* Bytes.                                                                    *)

ExactPhases == {"body", "chunk", "chunk_end"}

\* There are always more bytes due than are read.
LEMMA BytesAreDue ==
  ASSUME MessageInv, awaiting \in ExactPhases
  PROVE  \E x, d : x \in Seq(Unit) /\ Len(x) = want /\ Due(d) /\ In(x \o d)
<1>1. PICK m \in Messages : m = message
  BY DEF MessageInv
<1>2. IsMessage(m)
  BY AMessage
<1>3. CASE awaiting = "body"
  <2>1. InBody
    BY <1>3 DEF MessageInv, Phase
  <2>2. want = Total(m) /\ In(DataFrom(0, Total(m)) \o Behind)
    BY <1>1, <2>1 DEF InBody
  <2>3. Total(m) \in Nat
    BY <1>2, ChunkEnds
  <2>4. DataFrom(0, Total(m)) \in Seq(Unit) /\ Len(DataFrom(0, Total(m))) = Total(m)
    BY <2>3, DataUnits
  <2> QED
    BY <2>2, <2>4, BehindUnits
<1>4. CASE awaiting = "chunk"
  <2>1. InChunk
    BY <1>4 DEF MessageInv, Phase
  <2>2. PICK k \in 1..Len(m.chunks) : want = ChunkOf(m, k) /\ In(BytesDue(m, k))
    BY <1>1, <2>1 DEF InChunk
  <2>3. In(DataFrom(BytesBefore(m, k), ChunkOf(m, k)) \o TailDue(m, k))
    BY <2>2 DEF BytesDue
  <2> QED
    BY <1>2, <2>2, <2>3, ChunkStep
<1>5. CASE awaiting = "chunk_end"
  <2>1. InChunkEnd
    BY <1>5 DEF MessageInv, Phase
  <2>2. PICK k \in 1..Len(m.chunks) : In(TailDue(m, k))
    BY <1>1, <2>1 DEF InChunkEnd
  <2>3. PICK t : t = TailDue(m, k)
    OBVIOUS
  <2>4. t \in Seq(Unit) /\ Len(t) \in Nat /\ Len(t) > 2
    BY <1>2, <2>3, ChunkStep, TailStep DEF Due
  <2>5. PICK x : x = SubSeq(t, 1, 2)
    OBVIOUS
  <2>6. PICK d : d = SubSeq(t, 2 + 1, Len(t))
    OBVIOUS
  <2>7. 2 \in 0..Len(t)
    BY <2>4
  <2>8. x \in Seq(Unit) /\ d \in Seq(Unit) /\ Len(x) = 2 /\ Len(d) = Len(t) - 2 /\ x \o d = t
    BY <2>4, <2>5, <2>6, <2>7, CutInTwo
  <2>9. Len(d) \in Nat \ {0}
    BY <2>4, <2>8
  <2>10. Due(d)
    BY <2>8, <2>9 DEF Due
  <2>11. want = 2 /\ In(x \o d)
    BY <2>1, <2>2, <2>3, <2>8 DEF InChunkEnd
  <2> QED
    BY <2>8, <2>10, <2>11
<1> QED
  BY <1>3, <1>4, <1>5 DEF ExactPhases

\* The bytes got grow by what is read, and nothing is lost.
LEMMA ExactKeepsStream ==
  ASSUME Streams, want \in Nat, Len(got) < want, read_exact
  PROVE  /\ Streams' /\ Pending' = Pending /\ Len(got') <= want
         /\ \/ buffered = <<>> /\ incoming = <<>> /\ Ends("truncated")
            \/ UNCHANGED <<awaiting, outcome>>
<1>1. PICK g \in Seq(Unit) : g = got
  BY DEF Streams
<1>2. PICK b \in Seq(Unit) : b = buffered
  BY DEF Streams
<1>3. PICK c \in Seq(Unit) : c = incoming
  BY DEF Streams
<1>4. PICK s : s = IF b # <<>> THEN b ELSE c
  OBVIOUS
<1>5. s \in Seq(Unit)
  BY <1>4
<1>6. PICK n \in 0..Len(s) :
        /\ n = 0 <=> s = <<>>
        /\ n <= want - Len(g)
        /\ got' = g \o SubSeq(s, 1, n)
        /\ IF b # <<>> THEN buffered' = SubSeq(s, n + 1, Len(s)) /\ incoming' = c
           ELSE incoming' = SubSeq(s, n + 1, Len(s)) /\ buffered' = b
        /\ IF n = 0 THEN Ends("truncated") ELSE UNCHANGED <<awaiting, outcome>>
  BY <1>1, <1>2, <1>3, <1>4 DEF read_exact
<1>7. PICK p : p = SubSeq(s, 1, n)
  OBVIOUS
<1>8. PICK q : q = SubSeq(s, n + 1, Len(s))
  OBVIOUS
<1>9. p \in Seq(Unit) /\ q \in Seq(Unit) /\ Len(p) = n /\ p \o q = s
  BY <1>5, <1>6, <1>7, <1>8, CutInTwo
<1>10. got' = g \o p
  BY <1>6, <1>7
<1>11. Len(g \o p) = Len(g) + n /\ g \o p \in Seq(Unit)
  <2>1. Len(g \o p) = Len(g) + Len(p) /\ g \o p \in Seq(Unit)
    BY <1>9, Joined
  <2> QED
    BY <1>9, <2>1
<1>12. Len(got') <= want
  <2>1. PICK l \in Nat : l = Len(g)
    OBVIOUS
  <2>2. n \in Nat /\ n <= want - l
    BY <1>5, <1>6, <2>1
  <2>3. l + n <= want
    BY <2>1, <2>2
  <2> QED
    BY <1>10, <1>11, <2>1, <2>3
<1>13. CASE b # <<>>
  <2>1. s = b /\ buffered' = q /\ incoming' = c
    BY <1>4, <1>6, <1>8, <1>13
  <2>2. (g \o p) \o (q \o c) = g \o ((p \o q) \o c)
    <3>1. p \in Seq(Unit) /\ q \in Seq(Unit)
      BY <1>9
    <3>2. PartMoves(g, p, q, c)
      BY <3>1, PartMoved, Zenon
    <3> QED
      BY <3>2 DEF PartMoves
  <2>3. Pending' = Pending
    BY <1>1, <1>2, <1>3, <1>9, <1>10, <2>1, <2>2 DEF Pending
  <2>4. n # 0
    BY <1>6, <1>13, <2>1
  <2>5. UNCHANGED <<awaiting, outcome>>
    BY <1>6, <2>4
  <2>6. Streams'
    BY <1>9, <1>10, <1>11, <2>1 DEF Streams
  <2> QED
    BY <1>12, <2>3, <2>5, <2>6
<1>14. CASE b = <<>>
  <2>1. s = c /\ buffered' = << >> /\ incoming' = q
    BY <1>4, <1>6, <1>8, <1>14
  <2>2. (g \o p) \o (<< >> \o q) = g \o (p \o q)
    <3>1. p \in Seq(Unit) /\ q \in Seq(Unit)
      BY <1>9
    <3>2. AllMoves(g, p, q)
      BY <3>1, AllMoved, Zenon
    <3> QED
      BY <3>2 DEF AllMoves
  <2>3. << >> \o c = c
    BY Nothing
  <2>4. Pending' = Pending
    BY <1>1, <1>2, <1>3, <1>9, <1>10, <1>14, <2>1, <2>2, <2>3 DEF Pending
  <2>5. \/ buffered = <<>> /\ incoming = <<>> /\ Ends("truncated")
        \/ UNCHANGED <<awaiting, outcome>>
    BY <1>2, <1>3, <1>6, <1>14, <2>1
  <2>6. Streams'
    BY <1>9, <1>10, <1>11, <1>14, <2>1 DEF Streams
  <2> QED
    BY <1>12, <2>4, <2>5, <2>6
<1> QED
  BY <1>13, <1>14

\* Bytes are read, or the connection ends before they are all there.
LEMMA ReadExactKeeps ==
  ASSUME MessageInv, read_exact
  PROVE  MessageInv'
<1>1. /\ message \in Messages /\ Streams /\ Numbers /\ awaiting \in ExactPhases /\ Len(got) < want
      /\ UNCHANGED <<message, cut, want, headVars, body>> /\ Phase
  BY DEF MessageInv, read_exact, ExactPhases
<1>2. outcome = "running"
  BY <1>1, StillRunning DEF ExactPhases
<1>3. /\ Streams' /\ Pending' = Pending /\ Len(got') <= want
      /\ \/ buffered = <<>> /\ incoming = <<>> /\ Ends("truncated")
         \/ UNCHANGED <<awaiting, outcome>>
  <2>1. want \in Nat
    BY <1>1 DEF Numbers
  <2> QED
    BY <1>1, <2>1, ExactKeepsStream
<1>4. Missing' = Missing
  BY <1>1, SameMissing
<1>5. Numbers'
  BY <1>1 DEF Numbers, headVars
<1>6. CASE buffered = <<>> /\ incoming = <<>> /\ Ends("truncated")
  <2>1. PICK x, d : x \in Seq(Unit) /\ Len(x) = want /\ Due(d) /\ In(x \o d)
    BY <1>1, BytesAreDue
  <2>2. Missing >= 2
    BY <1>1, <1>6, <2>1, ExactShort
  <2> QED
    BY <1>1, <1>3, <1>5, <1>6, <2>2, EndsTruncated
<1>7. CASE UNCHANGED <<awaiting, outcome>>
  <2>1. /\ counted' = counted /\ budget' = budget /\ message' = message /\ body' = body
        /\ want' = want /\ awaiting' = awaiting /\ Len(got') <= want'
    BY <1>1, <1>3, <1>7 DEF headVars
  <2>2. HeadRight => HeadRight'
    BY <2>1 DEF HeadRight
  <2>3. IsChunked => IsChunked'
    BY <2>1, <2>2 DEF IsChunked
  <2>4. InBody => InBody'
    BY <1>3, <1>4, <2>1, <2>2 DEF InBody, In
  <2>5. InChunk => InChunk'
    BY <1>3, <1>4, <2>1, <2>3 DEF InChunk, ReadBut, In
  <2>6. InChunkEnd => InChunkEnd'
    BY <1>3, <1>4, <2>1, <2>3 DEF InChunkEnd, In
  <2>7. Phase' /\ awaiting' \notin LinePhases
    BY <1>1, <2>1, <2>4, <2>5, <2>6 DEF Phase, ExactPhases, LinePhases
  <2> QED
    BY <1>1, <1>2, <1>3, <1>5, <1>7, <2>7, GoesOn
<1> QED
  BY <1>3, <1>6, <1>7

\* What is left when the bytes are taken.
LEMMA Taken ==
  ASSUME Streams, got' = <<>>, UNCHANGED <<incoming, buffered>>
  PROVE  Streams' /\ Pending' = buffered \o incoming /\ buffered' \o incoming' = buffered \o incoming
<1>1. << >> \in Seq(Unit)
  OBVIOUS
<1>2. Streams'
  BY <1>1 DEF Streams
<1>3. Pending' = buffered' \o incoming'
  BY <1>2, Unread
<1> QED
  BY <1>2, <1>3

\* A body with a length.
LEMMA HasBodyKeeps ==
  ASSUME MessageInv, has_exact, awaiting = "body"
  PROVE  MessageInv'
<1>1. /\ message \in Messages /\ Streams /\ Numbers /\ InBody /\ Len(got) = want /\ got' = <<>>
      /\ body' = body \o got /\ Ends("ok") /\ UNCHANGED want
      /\ UNCHANGED <<message, cut, incoming, buffered, headVars>>
  BY DEF MessageInv, Phase, has_exact
<1>2. PICK m \in Messages : m = message
  BY <1>1
<1>3. IsMessage(m)
  BY AMessage
<1>4. PICK n \in Nat : n = Total(m)
  BY <1>3, ChunkEnds
<1>5. PICK x : x = DataFrom(0, n)
  OBVIOUS
<1>6. x \in Seq(Unit) /\ Len(x) = n
  BY <1>5, DataUnits
<1>7. /\ HeadRight /\ Framing(m) = "length" /\ Lengths(m.fields) = {n} /\ n <= MaxBody
      /\ want = n /\ body = <<>> /\ In(x \o Behind)
  BY <1>1, <1>2, <1>4, <1>5 DEF InBody
<1>8. got = x /\ Came(buffered \o incoming, Behind, Missing)
  BY <1>1, <1>6, <1>7, BehindUnits, ExactRead
<1>9. Streams' /\ buffered' \o incoming' = buffered \o incoming
  BY <1>1, Taken
<1>10. Acceptable(m)
  BY <1>2, <1>3, <1>4, <1>7, WholeHead
<1>11. body' = x
  <2>1. << >> \o x = x
    BY <1>6, Nothing
  <2> QED
    BY <1>1, <1>7, <1>8, <2>1
<1>12. Numbers'
  BY <1>1 DEF Numbers, headVars
<1>13. Framing(message) # "rest" /\ body' = IF Framing(message) = "none" THEN <<>> ELSE DataFrom(0, Total(message))
  BY <1>2, <1>4, <1>5, <1>7, <1>11
<1>14. Came(buffered' \o incoming', Behind, Missing)
  BY <1>8, <1>9
<1> QED
  BY <1>1, <1>2, <1>9, <1>10, <1>12, <1>13, <1>14, EndsOk

\* The bytes of a chunk.
LEMMA HasChunkKeeps ==
  ASSUME MessageInv, has_exact, awaiting = "chunk"
  PROVE  MessageInv'
<1>1. /\ message \in Messages /\ Streams /\ Numbers /\ InChunk /\ Len(got) = want /\ got' = <<>>
      /\ body' = body \o got /\ awaiting' = "chunk_end" /\ want' = 2 /\ outcome' = outcome
      /\ UNCHANGED <<message, cut, incoming, buffered, headVars>>
  BY DEF MessageInv, Phase, has_exact
<1>2. PICK m \in Messages : m = message
  BY <1>1
<1>3. IsMessage(m) /\ message' = m /\ outcome' = "running"
  BY <1>1, <1>2, AMessage, StillRunning
<1>4. PICK k \in 1..Len(m.chunks) :
        ReadBut(k) /\ want = ChunkOf(m, k) /\ BytesBefore(m, k) + want <= MaxBody /\ In(BytesDue(m, k))
  BY <1>1, <1>2 DEF InChunk
<1>5. PICK b \in Nat : b = BytesBefore(m, k)
  BY <1>3, ChunkHas
<1>6. PICK c \in Nat : c = ChunkOf(m, k)
  BY <1>3, ChunkHas
<1>7. BytesBefore(m, k - 1) = b + c
  BY <1>3, <1>5, <1>6, ChunkHas
<1>8. PICK x : x = DataFrom(b, c)
  OBVIOUS
<1>9. x \in Seq(Unit) /\ Len(x) = c
  BY <1>8, DataUnits
<1>10. PICK d : d = TailDue(m, k)
  OBVIOUS
<1>11. Due(d) /\ In(x \o d)
  BY <1>3, <1>4, <1>5, <1>6, <1>8, <1>10, ChunkStep DEF BytesDue
<1>12. got = x /\ Came(buffered \o incoming, d, Missing)
  BY <1>1, <1>4, <1>6, <1>9, <1>11, ExactRead
<1>13. Streams' /\ Pending' = buffered \o incoming
  BY <1>1, Taken
<1>14. Missing' = Missing
  BY <1>1, SameMissing
<1>15. body' = DataFrom(0, b + c)
  <2>1. body = DataFrom(0, b)
    BY <1>2, <1>4, <1>5 DEF ReadBut
  <2>2. 0 + b = b
    OBVIOUS
  <2>3. DataFrom(0, b) \o DataFrom(0 + b, c) = DataFrom(0, b + c)
    BY DataJoined
  <2> QED
    BY <1>1, <1>8, <1>12, <2>1, <2>2, <2>3
<1>16. Numbers'
  BY <1>1 DEF Numbers, headVars
<1>17. IsChunked'
  BY <1>1 DEF InChunk, IsChunked, HeadRight, headVars
<1>18. Len(got') = 0 /\ 0 <= want'
  BY <1>1
<1>19. b + c <= MaxBody
  BY <1>4, <1>5, <1>6
<1>20. Came(Pending', TailDue(m, k), Missing')
  BY <1>10, <1>12, <1>13, <1>14
<1>21. InChunkEnd'
  BY <1>1, <1>3, <1>4, <1>7, <1>15, <1>17, <1>18, <1>19, <1>20 DEF InChunkEnd, In
<1>22. Phase' /\ awaiting' \notin LinePhases
  BY <1>1, <1>21 DEF Phase, LinePhases
<1> QED
  BY <1>1, <1>3, <1>13, <1>16, <1>22, GoesOn

\* The line end behind a chunk, or what is there instead.
LEMMA HasChunkEndKeeps ==
  ASSUME MessageInv, has_exact, awaiting = "chunk_end"
  PROVE  MessageInv'
<1>1. /\ message \in Messages /\ Streams /\ Numbers /\ InChunkEnd /\ Len(got) = want /\ got' = <<>>
      /\ IF got = <<CR, LF>> THEN awaiting' = "size" /\ UNCHANGED outcome ELSE Ends("protocol")
      /\ UNCHANGED <<want, body>>
      /\ UNCHANGED <<message, cut, incoming, buffered, headVars>>
  BY DEF MessageInv, Phase, has_exact
<1>2. PICK m \in Messages : m = message
  BY <1>1
<1>3. IsMessage(m) /\ message' = m /\ outcome = "running"
  BY <1>1, <1>2, AMessage, StillRunning
<1>4. PICK n \in Nat : n = Len(m.chunks)
  BY <1>3, MessageHas
<1>5. PICK k \in 1..n :
        /\ body = DataFrom(0, BytesBefore(m, k - 1)) /\ BytesBefore(m, k - 1) <= MaxBody
        /\ In(TailDue(m, k))
  BY <1>1, <1>2, <1>4 DEF InChunkEnd
<1>6. want = 2 /\ IsChunked
  BY <1>1 DEF InChunkEnd
<1>7. Streams' /\ Pending' = buffered \o incoming
  BY <1>1, Taken
<1>8. Missing' = Missing
  BY <1>1, SameMissing
<1>9. Numbers'
  BY <1>1 DEF Numbers, headVars
<1>10. CASE m.spill = 0
  <2>1. PICK d : d = ChunksDue(m, k - 1)
    OBVIOUS
  <2>2. Due(d) /\ In(LineEnd \o d)
    BY <1>3, <1>4, <1>5, <1>10, <2>1, ChunkStep, TailStep
  <2>3. got = LineEnd /\ Came(buffered \o incoming, d, Missing)
    <3>1. LineEnd \in Seq(Unit) /\ Len(got) = Len(LineEnd)
      BY <1>1, <1>6, EndUnits
    <3> QED
      BY <1>1, <2>2, <3>1, ExactRead
  <2>4. awaiting' = "size" /\ outcome' = "running"
    BY <1>1, <1>3, <2>3 DEF LineEnd
  <2>5. PICK j \in 0..n : j = k - 1
    BY <1>4, <1>5
  <2>6. ReadBut(j)'
    BY <1>1, <1>3, <1>5, <1>10, <2>5 DEF ReadBut
  <2>7. IsChunked'
    BY <1>1, <1>6 DEF IsChunked, HeadRight, headVars
  <2>8. Came(Pending', ChunksDue(m, j), Missing')
    BY <1>7, <1>8, <2>1, <2>3, <2>5
  <2>9. InSize'
    BY <1>3, <1>4, <2>6, <2>7, <2>8 DEF InSize, In
  <2>10. Phase'
    BY <2>4, <2>9 DEF Phase
  <2>11. ~HasEnd(<< >>)
    BY DEF HasEnd
  <2>12. ~HasEnd(got')
    BY <1>1, <2>11
  <2> QED
    BY <1>1, <1>7, <1>9, <2>4, <2>10, <2>12, GoesOn
<1>11. CASE m.spill # 0
  <2>1. PICK t : t = TailDue(m, k)
    OBVIOUS
  <2>2. t[1] # CR
    BY <1>3, <1>4, <1>5, <1>11, <2>1, TailStep
  <2>3. got # <<CR, LF>>
    <3> SUFFICES ASSUME got = <<CR, LF>> PROVE FALSE
      OBVIOUS
    <3>1. PICK g : g = got
      OBVIOUS
    <3>2. PICK r : r = buffered \o incoming
      OBVIOUS
    <3>3. g \in Seq(Unit) /\ r \in Seq(Unit)
      BY <1>1, <3>1, <3>2, Joined DEF Streams
    <3>4. g = LineEnd
      BY <3>1 DEF LineEnd
    <3>5. Len(g) = 2 /\ g[1] = CR
      BY <3>4, EndUnits
    <3>6. PICK x : x = g \o r
      OBVIOUS
    <3>7. Len(x) = Len(g) + Len(r) /\ \A i \in 1..Len(g) : x[i] = g[i]
      BY <3>3, <3>6, Joined
    <3>8. PICK R \in Nat : R = Len(r)
      BY <3>3
    <3>9. Len(x) = 2 + R /\ x[1] = CR
      <4>1. 1 \in 1..Len(g)
        BY <3>5
      <4> QED
        BY <3>5, <3>7, <3>8, <4>1
    <3>10. Came(x, t, Missing)
      BY <1>5, <2>1, <3>1, <3>2, <3>6 DEF In, Pending
    <3>11. \A i \in 1..(2 + R) : x[i] = t[i]
      BY <3>9, <3>10 DEF Came
    <3>12. 1 \in 1..(2 + R)
      BY <3>8
    <3> QED
      BY <2>2, <3>9, <3>11, <3>12
  <2>4. Ends("protocol")
    BY <1>1, <2>3
  <2>5. ~Acceptable(m)
    BY <1>11 DEF Acceptable
  <2> QED
    BY <1>1, <1>2, <1>7, <1>9, <2>4, <2>5, EndsProtocol
<1> QED
  BY <1>10, <1>11

-----------------------------------------------------------------------------
(* A body that only the end of the connection ends.                          *)

\* Nothing is lost; when nothing was read, there is nothing left.
LEMMA RestKeepsStream ==
  ASSUME Streams, body \in Seq(Unit), read_rest
  PROVE  /\ Streams' /\ body' \in Seq(Unit)
         /\ body' \o (buffered' \o incoming') = body \o (buffered \o incoming)
         /\ body' = body => body \o (buffered \o incoming) = body
<1>1. PICK g \in Seq(Unit) : g = body
  OBVIOUS
<1>2. PICK b \in Seq(Unit) : b = buffered
  BY DEF Streams
<1>3. PICK c \in Seq(Unit) : c = incoming
  BY DEF Streams
<1>4. got' = got /\ got \in Seq(Unit)
  BY DEF read_rest, Streams
<1>5. << >> \in Seq(Unit) /\ << >> \o << >> = << >> /\ g \o << >> = g /\ << >> \o c = c
  BY Nothing
<1>6. ASSUME NEW p \in Seq(Unit), g \o p = g
      PROVE  p = << >>
  <2>1. Len(g \o p) = Len(g) + Len(p)
    BY Joined
  <2>2. Len(g) \in Nat /\ Len(p) \in Nat
    OBVIOUS
  <2>3. Len(p) = 0
    BY <1>6, <2>1, <2>2
  <2> QED
    BY <2>3, Nothing
<1>7. CASE /\ buffered # <<>>
           /\ body' = body \o buffered /\ buffered' = <<>> /\ UNCHANGED incoming
  <2>1. body' = g \o b /\ buffered' = << >> /\ incoming' = c /\ b # << >>
    BY <1>1, <1>2, <1>3, <1>7
  <2>2. AllMoves(g, b, c)
    BY AllMoved, Zenon
  <2>3. g \o b \in Seq(Unit)
    BY Joined
  <2>4. body' # body
    BY <1>1, <1>6, <2>1
  <2>5. body' \o (buffered' \o incoming') = body \o (buffered \o incoming)
    BY <1>1, <1>2, <1>3, <2>1, <2>2 DEF AllMoves
  <2>6. Streams' /\ body' \in Seq(Unit)
    BY <1>3, <1>4, <1>5, <2>1, <2>3 DEF Streams
  <2> QED
    BY <2>4, <2>5, <2>6
<1>8. CASE /\ buffered = <<>>
           /\ \E n \in 0..Len(incoming) :
                /\ n = 0 <=> incoming = <<>>
                /\ body' = body \o SubSeq(incoming, 1, n)
                /\ incoming' = SubSeq(incoming, n + 1, Len(incoming))
           /\ UNCHANGED buffered
  <2>1. PICK n \in 0..Len(c) :
          /\ n = 0 <=> c = << >>
          /\ body' = g \o SubSeq(c, 1, n) /\ incoming' = SubSeq(c, n + 1, Len(c))
    BY <1>1, <1>3, <1>8
  <2>2. PICK p : p = SubSeq(c, 1, n)
    OBVIOUS
  <2>3. PICK q : q = SubSeq(c, n + 1, Len(c))
    OBVIOUS
  <2>4. p \in Seq(Unit) /\ q \in Seq(Unit) /\ Len(p) = n /\ p \o q = c
    BY <2>2, <2>3, CutInTwo
  <2>5. body' = g \o p /\ incoming' = q /\ buffered' = << >> /\ b = << >>
    BY <1>2, <1>8, <2>1, <2>2, <2>3
  <2>6. p \in Seq(Unit) /\ q \in Seq(Unit)
    BY <2>4
  <2>7. AllMoves(g, p, q)
    BY <2>6, AllMoved, Zenon
  <2>8. g \o p \in Seq(Unit)
    BY <2>6, Joined
  <2>9. (g \o p) \o (<< >> \o q) = g \o c
    BY <2>4, <2>7 DEF AllMoves
  <2>10. body' \o (buffered' \o incoming') = body \o (buffered \o incoming)
    BY <1>1, <1>2, <1>3, <1>5, <2>5, <2>9
  <2>11. ASSUME body' = body PROVE body \o (buffered \o incoming) = body
    <3>1. p = << >>
      BY <1>1, <1>6, <2>5, <2>6, <2>11
    <3>2. c = << >>
      BY <2>1, <2>4, <3>1
    <3> QED
      BY <1>1, <1>2, <1>3, <1>5, <2>5, <3>2
  <2>12. Streams' /\ body' \in Seq(Unit)
    BY <1>4, <1>5, <2>5, <2>6, <2>8 DEF Streams
  <2> QED
    BY <2>10, <2>11, <2>12
<1> QED
  BY <1>7, <1>8 DEF read_rest

\* The body is all that comes.
LEMMA ReadRestKeeps ==
  ASSUME MessageInv, read_rest
  PROVE  MessageInv'
<1>1. /\ message \in Messages /\ Streams /\ Numbers /\ awaiting = "rest" /\ Phase
      /\ UNCHANGED <<message, cut, got, want, headVars>>
  BY DEF MessageInv, read_rest
<1>2. InRest
  BY <1>1 DEF Phase
<1>3. outcome = "running"
  BY <1>1, StillRunning
<1>4. Framing(message) = "rest" /\ body \in Seq(Unit)
  BY <1>2 DEF InRest
<1>5. /\ Streams' /\ body' \in Seq(Unit)
      /\ body' \o (buffered' \o incoming') = body \o (buffered \o incoming)
      /\ body' = body => body \o (buffered \o incoming) = body
  BY <1>1, <1>4, RestKeepsStream
<1>6. Missing' = Missing /\ message' = message /\ Framing(message') = "rest"
  BY <1>1, <1>4, SameMissing
<1>7. Numbers'
  BY <1>1 DEF Numbers, headVars
<1>8. Came(body' \o (buffered' \o incoming'), DataFrom(0, Total(message')) \o Behind, Missing')
  BY <1>2, <1>5, <1>6 DEF InRest
<1>9. CASE body' = body /\ Ends("ok")
  <2>1. awaiting' = "done" /\ outcome' = "ok"
    BY <1>9 DEF Ends
  <2>2. Came(body', DataFrom(0, Total(message')) \o Behind, Missing')
    BY <1>5, <1>8, <1>9
  <2>3. Done'
    BY <1>6, <2>2 DEF Done
  <2>4. Outcome' /\ awaiting' \notin LinePhases
    BY <2>1 DEF Outcome, LinePhases
  <2> QED
    BY <1>1, <1>5, <1>6, <1>7, <2>1, <2>3, <2>4 DEF MessageInv, Phase
<1>10. CASE Ends("protocol")
  BY <1>1, <1>4, <1>5, <1>6, <1>7, <1>10, EndsProtocol
<1>11. CASE UNCHANGED <<awaiting, outcome>>
  <2>1. awaiting' = "rest" /\ outcome' = "running"
    BY <1>1, <1>3, <1>11
  <2>2. InRest'
    BY <1>5, <1>6, <1>8 DEF InRest
  <2>3. Phase' /\ awaiting' \notin LinePhases
    BY <2>1, <2>2 DEF Phase, LinePhases
  <2> QED
    BY <1>1, <1>5, <1>6, <1>7, <2>1, <2>3, GoesOn
<1> QED
  BY <1>9, <1>10, <1>11 DEF read_rest

-----------------------------------------------------------------------------
(* The invariant.                                                            *)

\* At first all that will come of the message is still to be delivered.
LEMMA InitHasMessageInv == MessageInit => MessageInv
<1> SUFFICES ASSUME MessageInit PROVE MessageInv
  OBVIOUS
<1>1. PICK m \in Messages : m = message
  BY DEF MessageInit
<1>2. IsMessage(m)
  BY AMessage
<1>3. PICK s : s = Append(Encoded(m), Surplus)
  OBVIOUS
<1>4. /\ s \in Seq(Unit) /\ s = StatusDue(m, m.interim)
      /\ Len(Encoded(m)) \in Nat /\ Len(s) = Len(Encoded(m)) + 1
  BY <1>2, <1>3, WholeMessage
<1>5. cut \in 0..Len(s) /\ incoming = SubSeq(s, 1, cut)
  BY <1>1, <1>3 DEF MessageInit
<1>6. /\ buffered = <<>> /\ got = <<>> /\ want = 0 /\ awaiting = "status"
      /\ fields = <<>> /\ counted = 0 /\ budget = MaxHeadLines /\ interim = 0
      /\ body = <<>> /\ outcome = "running"
  BY DEF MessageInit
<1>7. Came(incoming, s, Len(s) - cut)
  BY <1>4, <1>5, CameAtFirst
<1>8. Missing = Len(s) - cut
  BY <1>1, <1>4 DEF Missing
<1>9. incoming \in Seq(Unit)
  BY <1>7 DEF Came
<1>10. << >> \in Seq(Unit) /\ << >> \o incoming = incoming
  BY <1>9, Nothing
<1>11. Pending = incoming
  BY <1>6, <1>10 DEF Pending
<1>12. m.interim \in Nat
  BY <1>2, MessageHas
<1>13. In(StatusDue(m, m.interim))
  BY <1>4, <1>7, <1>8, <1>11 DEF In
<1>14. InStatus
  <2>1. interim \in 0..m.interim /\ interim <= MaxInterim /\ m.interim - interim = m.interim
    BY <1>6, <1>12, ConstantTypes
  <2>2. In(StatusDue(m, m.interim - interim))
    BY <1>13, <2>1
  <2> QED
    BY <1>1, <1>6, <2>1, <2>2 DEF InStatus
<1>15. ~HasEnd(<< >>)
  BY DEF HasEnd
<1>16. Streams
  BY <1>6, <1>9, <1>10 DEF Streams
<1>17. Numbers
  BY <1>6, ConstantTypes DEF Numbers
<1>18. Outcome
  BY <1>6 DEF Outcome
<1>19. Phase
  BY <1>6, <1>14 DEF Phase
<1> QED
  BY <1>1, <1>6, <1>15, <1>16, <1>17, <1>18, <1>19 DEF MessageInv

\* A step that changes nothing.
LEMMA StutterKeeps ==
  ASSUME MessageInv, UNCHANGED messageVars
  PROVE  MessageInv'
<1>1. /\ message' = message /\ cut' = cut /\ incoming' = incoming /\ buffered' = buffered
      /\ got' = got /\ want' = want /\ awaiting' = awaiting /\ status_code' = status_code
      /\ fields' = fields /\ counted' = counted /\ budget' = budget /\ interim' = interim
      /\ body' = body /\ outcome' = outcome
  BY DEF messageVars, readVars, headVars
<1>2. Missing' = Missing /\ Pending' = Pending
  BY <1>1 DEF Missing, Pending
<1>3. /\ message \in Messages /\ Streams /\ Numbers /\ Outcome
      /\ awaiting \in LinePhases => ~HasEnd(got)
      /\ Phase
  BY DEF MessageInv
<1>4. message' \in Messages /\ Streams' /\ Numbers' /\ Outcome'
  BY <1>1, <1>3 DEF Streams, Numbers, Outcome
<1>5. awaiting' \in LinePhases => ~HasEnd(got')
  BY <1>1, <1>3, Zenon
<1>6. HeadRight => HeadRight'
  BY <1>1 DEF HeadRight
<1>7. IsChunked => IsChunked'
  BY <1>1, <1>6 DEF IsChunked
<1>8. InStatus => InStatus'
  BY <1>1, <1>2 DEF InStatus, In
<1>9. InInterim => InInterim'
  BY <1>1, <1>2 DEF InInterim, In
<1>10. InHead => InHead'
  BY <1>1, <1>2 DEF InHead, In
<1>11. InSize => InSize'
  BY <1>1, <1>2, <1>7 DEF InSize, ReadBut, In
<1>12. InChunk => InChunk'
  BY <1>1, <1>2, <1>7 DEF InChunk, ReadBut, In
<1>13. InChunkEnd => InChunkEnd'
  BY <1>1, <1>2, <1>7 DEF InChunkEnd, In
<1>14. InTrailers => InTrailers'
  BY <1>1, <1>2, <1>6 DEF InTrailers, In
<1>15. InBody => InBody'
  BY <1>1, <1>2, <1>6 DEF InBody, In
<1>16. InRest => InRest'
  BY <1>1, <1>2 DEF InRest
<1>17. Done => Done'
  BY <1>1, <1>2 DEF Done
<1>18. Phase'
  BY <1>1, <1>3, <1>8, <1>9, <1>10, <1>11, <1>12, <1>13, <1>14, <1>15, <1>16, <1>17 DEF Phase
<1> QED
  BY <1>4, <1>5, <1>18 DEF MessageInv

\* Every step keeps it.
LEMMA StepKeepsMessageInv == MessageInv /\ [MessageNext]_messageVars => MessageInv'
<1> SUFFICES ASSUME MessageInv, [MessageNext]_messageVars PROVE MessageInv'
  OBVIOUS
<1>1. CASE read_fails
  BY <1>1, ReadFailsKeeps
<1>2. CASE fill_line
  BY <1>2, FillKeeps
<1>3. CASE line_cut
  BY <1>3, LineCutKeeps
<1>4. CASE parse_status
  BY <1>4, ParseStatusKeeps
<1>5. CASE header_line
  <2>1. awaiting = "header" \/ awaiting = "trailer"
    BY <1>5 DEF header_line, HasLine
  <2> QED
    BY <1>5, <2>1, HeaderKeeps, TrailerKeeps
<1>6. CASE head_ends
  <2>1. awaiting = "header"
    BY <1>6 DEF head_ends, HasLine
  <2>2. InInterim \/ InHead
    BY <2>1 DEF MessageInv, Phase
  <2> QED
    BY <1>6, <2>2, InterimEndKeeps, FinalEndKeeps
<1>7. CASE chunk_size
  BY <1>7, ChunkSizeKeeps
<1>8. CASE trailers_end
  BY <1>8, TrailersEndKeeps
<1>9. CASE read_exact
  BY <1>9, ReadExactKeeps
<1>10. CASE has_exact
  <2>1. awaiting = "body" \/ awaiting = "chunk" \/ awaiting = "chunk_end"
    BY <1>10 DEF has_exact
  <2> QED
    BY <1>10, <2>1, HasBodyKeeps, HasChunkKeeps, HasChunkEndKeeps
<1>11. CASE read_rest
  BY <1>11, ReadRestKeeps
<1>12. CASE UNCHANGED messageVars
  BY <1>12, StutterKeeps
<1> QED
  BY <1>1, <1>2, <1>3, <1>4, <1>5, <1>6, <1>7, <1>8, <1>9, <1>10, <1>11, <1>12 DEF MessageNext

\* What the client has still to read is, at every moment, what came of the part of
\* the message its state calls for: read_one, read_headers, read_body and
\* read_chunked never lose their place in the stream.
THEOREM ClientKeepsPlace == MessageSpec => []MessageInv
  BY InitHasMessageInv, StepKeepsMessageInv, PTL DEF MessageSpec

\* Where the connection ends does not depend on the client.
LEMMA CutStays == MessageSpec => [](cut \in Nat)
<1>1. MessageInit => cut \in Nat
  <2> SUFFICES ASSUME MessageInit PROVE cut \in Nat
    OBVIOUS
  <2>1. PICK s : s = Append(Encoded(message), Surplus)
    OBVIOUS
  <2>2. cut \in 0..Len(s)
    BY <2>1 DEF MessageInit
  <2> QED
    BY <2>2
<1>2. cut \in Nat /\ [MessageNext]_messageVars => (cut \in Nat)'
  <2>1. [MessageNext]_messageVars => cut' = cut
    BY DEF MessageNext, messageVars, read_fails, fill_line, line_cut, parse_status, header_line,
           head_ends, chunk_size, trailers_end, HasLine, read_exact, has_exact, read_rest
  <2> QED
    BY <2>1
<1> QED
  BY <1>1, <1>2, PTL DEF MessageSpec

-----------------------------------------------------------------------------
(* The response.                                                             *)

\* What came is the first part of what was due.
LEMMA CameIsPart ==
  ASSUME NEW r, NEW due, NEW k, NEW n, Came(r, due, k), n = Len(due) - k
  PROVE  n \in Nat /\ Len(r) = n /\ r = SubSeq(due, 1, n)
<1>1. r \in Seq(Unit) /\ due \in Seq(Unit) /\ k \in Nat
  BY DEF Came
<1>2. PICK l \in Nat : l = Len(r)
  BY <1>1
<1>3. PICK d \in Nat : d = Len(due)
  BY <1>1
<1>4. l + k = d /\ \A i \in 1..l : r[i] = due[i]
  BY <1>2, <1>3 DEF Came
<1>5. n = l /\ l <= d
  BY <1>1, <1>2, <1>3, <1>4
<1>6. PICK p : p = SubSeq(due, 1, l)
  OBVIOUS
<1>7. p \in Seq(Unit) /\ Len(p) = l /\ \A i \in 1..l : p[i] = due[i]
  BY <1>1, <1>2, <1>3, <1>5, <1>6
<1>8. \A i \in 1..l : r[i] = p[i]
  BY <1>4, <1>7
<1>9. r = p
  BY <1>1, <1>2, <1>7, <1>8, SameUnits
<1> QED
  BY <1>2, <1>5, <1>6, <1>9

IsBehind(a, d, l, n) == SubSeq(d, 1, n) = SubSeq(a \o d, l + 1, l + n)

\* What follows the first l units of a stream, as far as it came.
LEMMA PartBehind ==
  ASSUME NEW a \in Seq(Unit), NEW d \in Seq(Unit), NEW l \in Nat, l = Len(a),
         NEW n \in Nat, n <= Len(d)
  PROVE  IsBehind(a, d, l, n)
<1>1. PICK x : x = a \o d
  OBVIOUS
<1>2. PICK e \in Nat : e = Len(d)
  OBVIOUS
<1>3. x \in Seq(Unit) /\ Len(x) = l + e /\ \A i \in 1..e : x[l + i] = d[i]
  <2>1. x \in Seq(Unit) /\ Len(x) = Len(a) + Len(d) /\ \A i \in 1..Len(d) : x[Len(a) + i] = d[i]
    BY <1>1, Joined
  <2> QED
    BY <1>2, <2>1
<1>4. PICK p : p = SubSeq(d, 1, n)
  OBVIOUS
<1>5. p \in Seq(Unit) /\ Len(p) = n /\ \A i \in 1..n : p[i] = d[i]
  BY <1>2, <1>4
<1>6. PICK q : q = SubSeq(x, l + 1, l + n)
  OBVIOUS
<1>7. q \in Seq(Unit) /\ Len(q) = n /\ \A i \in 1..n : q[i] = x[l + i]
  <2>1. PICK f \in Nat \ {0} : f = l + 1
    OBVIOUS
  <2>2. PICK t \in Nat : t = l + n
    OBVIOUS
  <2>3. f <= t + 1 /\ t <= Len(x) /\ (t + 1) - f = n
    BY <1>2, <1>3, <2>1, <2>2
  <2>4. /\ q \in Seq(Unit) /\ Len(q) = (t + 1) - f
        /\ \A i \in 1..((t + 1) - f) : q[i] = x[(f + i) - 1]
    BY <1>3, <1>6, <2>1, <2>2, <2>3, PartOf
  <2>5. \A i \in 1..n : (f + i) - 1 = l + i
    BY <2>1
  <2> QED
    BY <2>3, <2>4, <2>5
<1>8. \A i \in 1..n : i \in 1..e
  BY <1>2
<1>9. \A i \in 1..n : p[i] = q[i]
  BY <1>3, <1>5, <1>7, <1>8
<1>10. p = q
  BY <1>5, <1>7, <1>9, SameUnits
<1> QED
  BY <1>1, <1>4, <1>6, <1>10 DEF IsBehind

\* A response that was read is right when the client kept its place.
LEMMA PlaceMakesExact == MessageInv /\ cut \in Nat => ResponseExact
<1> SUFFICES ASSUME MessageInv, cut \in Nat, outcome \notin {"running", "failed"} PROVE ResponseExact
  BY DEF ResponseExact, FramingExact, TruncationSeen
<1>1. message \in Messages /\ outcome \in {"ok", "protocol", "truncated"} /\ Done
  BY DEF MessageInv, Outcome, Phase
<1>2. PICK m \in Messages : m = message
  BY <1>1
<1>3. IsMessage(m)
  BY AMessage
<1>4. PICK L \in Nat : L = Len(Encoded(m))
  BY <1>3, WholeMessage
<1>5. PICK c \in Nat : c = cut
  OBVIOUS
<1>6. PICK k : k = Missing
  OBVIOUS
<1>7. k = (L + 1) - c
  BY <1>2, <1>4, <1>5, <1>6 DEF Missing
<1>8. CASE Framing(m) # "rest"
  <2>1. outcome = "protocol" => ~Acceptable(m)
    BY <1>1, <1>2, <1>8 DEF Done
  <2>2. outcome = "truncated" => k >= 2
    BY <1>1, <1>2, <1>6, <1>8 DEF Done
  <2>3. outcome = "truncated" => c < L
    BY <1>7, <2>2
  <2>4. ASSUME outcome = "ok"
        PROVE  /\ Acceptable(m) /\ c >= L /\ buffered \o incoming = SubSeq(<<Surplus>>, 1, c - L)
               /\ body = IF Framing(m) = "none" THEN <<>> ELSE DataFrom(0, Total(m))
    <3>1. /\ Acceptable(m)
          /\ body = IF Framing(m) = "none" THEN <<>> ELSE DataFrom(0, Total(m))
      BY <1>1, <1>2, <1>8, <2>4 DEF Done
    <3>2. Came(buffered \o incoming, Behind, k)
      BY <1>1, <1>2, <1>6, <1>8, <2>4 DEF Done
    <3>3. Len(Behind) = 1
      BY BehindUnits
    <3>4. c - L = Len(Behind) - k
      BY <1>7, <3>3
    <3>5. c - L \in Nat /\ buffered \o incoming = SubSeq(Behind, 1, c - L)
      BY <3>2, <3>4, CameIsPart
    <3>6. c >= L
      BY <3>5
    <3> QED
      BY <3>1, <3>5, <3>6 DEF Behind
  <2>5. FramingExact
    BY <1>1, <1>2, <1>4, <1>5, <2>1, <2>3, <2>4 DEF FramingExact
  <2>6. TruncationSeen
    BY <1>1, <1>2, <1>4, <1>5, <1>8, <2>1, <2>4 DEF TruncationSeen
  <2> QED
    BY <2>5, <2>6 DEF ResponseExact
<1>9. CASE Framing(m) = "rest"
  <2>1. FramingExact
    BY <1>2, <1>9 DEF FramingExact
  <2>2. ASSUME outcome = "ok"
        PROVE  c >= Len(Preamble(m)) /\ body = SubSeq(Append(Encoded(m), Surplus), Len(Preamble(m)) + 1, c)
    <3>1. PICK p : p = Preamble(m)
      OBVIOUS
    <3>2. PICK d : d = BodyDue(m)
      OBVIOUS
    <3>3. /\ p \in Seq(Unit) /\ Append(Encoded(m), Surplus) = p \o d
          /\ Len(Append(Encoded(m), Surplus)) = L + 1
      BY <1>3, <1>4, <3>1, <3>2, WholeMessage
    <3>4. d = DataFrom(0, Total(m)) \o Behind /\ d \in Seq(Unit)
      BY <1>3, <1>9, <3>2, BodyIsDue DEF Due
    <3>5. Came(body, d, k)
      BY <1>1, <1>2, <1>6, <1>9, <2>2, <3>4 DEF Done
    <3>6. PICK l \in Nat : l = Len(p)
      BY <3>3
    <3>7. PICK e \in Nat : e = Len(d)
      BY <3>4
    <3>8. L + 1 = l + e
      <4>1. Len(p \o d) = Len(p) + Len(d)
        BY <3>3, <3>4, Joined
      <4> QED
        BY <3>3, <3>6, <3>7, <4>1
    <3>9. PICK n : n = c - l
      OBVIOUS
    <3>10. n = Len(d) - k
      BY <1>7, <3>6, <3>7, <3>8, <3>9
    <3>11. n \in Nat /\ Len(body) = n /\ body = SubSeq(d, 1, n)
      BY <3>5, <3>10, CameIsPart
    <3>12. c >= l /\ l + n = c
      BY <3>6, <3>9, <3>11
    <3>13. n \in Nat /\ n <= Len(d)
      <4>1. k \in Nat
        BY <3>5 DEF Came
      <4>2. n <= e
        BY <3>7, <3>10, <3>11, <4>1
      <4> QED
        BY <3>7, <3>11, <4>2
    <3>14. SubSeq(d, 1, n) = SubSeq(p \o d, l + 1, l + n)
      <4>1. IsBehind(p, d, l, n)
        <5>1. p \in Seq(Unit) /\ d \in Seq(Unit) /\ l \in Nat /\ l = Len(p)
          BY <3>3, <3>4, <3>6
        <5> QED
          BY <3>13, <5>1, PartBehind, Zenon
      <4> QED
        BY <4>1 DEF IsBehind
    <3> QED
      BY <3>1, <3>3, <3>6, <3>11, <3>12, <3>14
  <2>3. TruncationSeen
    BY <1>2, <1>5, <1>9, <2>2 DEF TruncationSeen
  <2> QED
    BY <2>1, <2>3 DEF ResponseExact
<1> QED
  BY <1>8, <1>9

\* However the connection cuts the stream into pieces, read_response accepts exactly
\* the responses it may, with the body that was sent, and leaves what follows in the
\* BufReader; a response cut short anywhere is never taken for a whole one; and a body
\* that only the connection's end ends is all that came.
THEOREM ResponsesAreExact == MessageSpec => []ResponseExact
  BY ClientKeepsPlace, CutStays, PlaceMakesExact, PTL

=============================================================================
