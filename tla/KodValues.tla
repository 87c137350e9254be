----------------------------- MODULE KodValues ------------------------------
(***************************************************************************)
(* What the runtime promises about arrays, strings and string builders,    *)
(* without memory: each handle stands for a sequence.  `+=`, element       *)
(* assignment and StrBuilder.append change the one value they are applied  *)
(* to, for everything that holds its handle; every other operation makes a *)
(* new value; nothing else ever changes (docs/arrays.md, strbuilder.kod).  *)
(***************************************************************************)
EXTENDS Naturals, Sequences

CONSTANTS Elem, ByteSize

VARIABLE vals      \* handle -> [kind, seq], for the handles given out

Init == vals = <<>>

Handles == DOMAIN vals

Seqs(kind) == {vals[h].seq : h \in {g \in Handles : vals[g].kind = kind}}
Byte(e) == e % ByteSize
Slices(s) == {SubSeq(s, i, j) : i, j \in 1..Len(s)} \cup {<<>>}

\* Where a new string's characters come from: a slice of a string, two strings,
\* the low bits of an array's numbers, a builder.
Sliced == UNION {Slices(s) : s \in Seqs("str")}
Joined == {s \o t : s, t \in Seqs("str")}
Packed == {[i \in DOMAIN s |-> Byte(s[i])] : s \in Seqs("array")}
Text == Sliced \cup Joined \cup Packed \cup Seqs("builder")

Fresh(kind, s) ==
  \/ kind = "array" /\ s \in Seq(Elem)
  \/ kind = "str" /\ s \in Text
  \/ kind = "builder" /\ s = <<>>

\* A new value; the ones there are stay as they are.
Create ==
  \E h \in DOMAIN vals' \ Handles :
    /\ DOMAIN vals' = Handles \cup {h}
    /\ Fresh(vals'[h].kind, vals'[h].seq)
    /\ \A g \in Handles : vals'[g] = vals[g]

Extend ==
  \E h \in Handles :
    \/ /\ vals[h].kind = "array"
       /\ \E s \in Seqs("array") : vals' = [vals EXCEPT ![h].seq = @ \o s]
    \/ /\ vals[h].kind = "builder"
       /\ \E s \in Seqs("str") \cup {<<Byte(e)>> : e \in Elem} :
            vals' = [vals EXCEPT ![h].seq = @ \o s]

Assign ==
  \E h \in Handles, e \in Elem : \E i \in DOMAIN vals[h].seq :
    /\ vals[h].kind = "array"
    /\ vals' = [vals EXCEPT ![h].seq[i] = e]

Clear ==
  \E h \in Handles :
    vals[h].kind = "builder" /\ vals' = [vals EXCEPT ![h].seq = <<>>]

\* arena_reset: every handle is dead.
Forget == vals' = <<>>

Next == Create \/ Extend \/ Assign \/ Clear \/ Forget

Spec == Init /\ [][Next]_vals
=============================================================================
