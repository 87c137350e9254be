------------------------------- MODULE Inflate -------------------------------
(***************************************************************************)
(* kod_inflate (stdlib/compress/inflate.c), behind gunzip, inflate_zlib    *)
(* and inflate_raw: decompress with the system's zlib into a buffer that   *)
(* grows, up to a limit.                                                   *)
(*                                                                         *)
(* The input is a sequence of compressed members, each [n, how]: n bytes   *)
(* of output, and "whole", "cut" (the input ends inside it, after those    *)
(* bytes) or "bad" (the data is invalid after them).  A member is one unit *)
(* of input length.  The output is its length: bytes are only appended.    *)
(***************************************************************************)
EXTENDS Naturals, Sequences

CONSTANTS Inputs, Limits,
          FirstCap,    \* 4096, the first capacity
          MaxRoom,     \* 2^30, the most room one call of zlib is given
          UInt         \* 2^32, the range of zlib's avail_in

ASSUME InflateConstants ==
  /\ Limits \subseteq Nat /\ FirstCap \in Nat \ {0} /\ MaxRoom \in Nat \ {0} /\ UInt \in Nat \ {0}
  /\ \A s \in Inputs : /\ s \in Seq([n : Nat, how : {"whole", "cut", "bad"}])
                       /\ \A i \in DOMAIN s : s[i].how = "cut" => i = Len(s)

VARIABLES
  input, mode, limit,    \* the arguments
  zs,                    \* zlib: the members it can still see, the first part done
  begun,                 \* it has consumed input of the first of them
  cap, len,              \* the output buffer
  g_status               \* kod_inflate_status; "running" during the call

inflateVars == <<input, mode, limit, zs, begun, cap, len, g_status>>

\* The arguments; avail_in is 32 bits wide, the length of a string 64.
InflateInit ==
  /\ input \in Inputs /\ mode \in 0..2 /\ limit \in Limits
  /\ zs = SubSeq(input, 1, Len(input) % UInt) /\ begun = FALSE
  /\ cap = 0 /\ len = 0 /\ g_status = "running"

Failed(status) == g_status' = status /\ UNCHANGED <<zs, begun, cap, len>>

Least(a, b) == IF a < b THEN a ELSE b

\* inflateInit2 and the first malloc.
FirstBuffer ==
  /\ g_status = "running" /\ cap = 0
  /\ \/ cap' = (IF limit < FirstCap THEN limit + 1 ELSE FirstCap)
        /\ UNCHANGED <<zs, begun, len, g_status>>
     \/ Failed("out of memory")
  /\ UNCHANGED <<input, mode, limit>>

RoomDoubled == Least(cap * 2, limit + 1)

\* External: what zlib's inflate may do with `room` bytes of output.
inflate(room) ==
  LET member == Head(zs)
      after(n) == <<[member EXCEPT !.n = @ - n]>> \o Tail(zs)
  IN  IF zs = <<>> THEN {[made |-> 0, rc |-> "BUF_ERROR", zs |-> zs]}
      ELSE {[made |-> 0, rc |-> "MEM_ERROR", zs |-> zs]} \cup
        IF member.n > room \/ (member.n = room /\ member.how # "whole")
        THEN {[made |-> room, rc |-> "OK", zs |-> after(room)]}
        ELSE LET done(rc, rest) == [made |-> member.n, rc |-> rc, zs |-> rest]
             IN  CASE member.how = "whole" ->
                        {done("STREAM_END", Tail(zs))} \cup
                        (IF member.n = room THEN {done("OK", after(room))} ELSE {})
                   [] member.how = "cut" ->
                        {done(IF begun /\ member.n = 0 THEN "BUF_ERROR" ELSE "OK", after(member.n))}
                   [] member.how = "bad" -> {done("DATA_ERROR", zs)}

\* Mutant: one member is all of a gzip file.
Verdict_one_member(rc, rest, n) ==
  IF n > limit THEN "output too large"
  ELSE CASE rc = "STREAM_END" -> "ok" [] rc = "OK" -> "running"
         [] rc = "MEM_ERROR" -> "out of memory" [] OTHER -> "invalid data"

\* The loop's checks after zlib has returned rc with n bytes out in all.
Verdict(rc, rest, n) ==
  IF n > limit THEN "output too large"
  ELSE CASE rc = "STREAM_END" -> IF mode = 0 /\ rest # <<>> THEN "running" ELSE "ok"
         [] rc = "OK" -> "running"
         [] rc = "MEM_ERROR" -> "out of memory" [] OTHER -> "invalid data"

\* One round of the loop: room if there is none, then zlib.
Round ==
  /\ g_status = "running" /\ cap > 0
  /\ \/ /\ len = cap
        /\ Failed(IF RoomDoubled > cap THEN "out of memory" ELSE "output too large")
     \/ /\ len < cap \/ RoomDoubled > cap
        /\ cap' = IF len = cap THEN RoomDoubled ELSE cap
        /\ \E r \in inflate(Least(cap' - len, MaxRoom)) :
             /\ len' = len + r.made /\ zs' = r.zs
             /\ begun' = (r.rc # "STREAM_END")
             /\ g_status' = Verdict(r.rc, r.zs, len')
  /\ UNCHANGED <<input, mode, limit>>

InflateNext == FirstBuffer \/ Round

InflateSpec == InflateInit /\ [][InflateNext]_inflateVars

\* The call runs on: nothing in it waits.
InflateFairSpec == InflateSpec /\ WF_inflateVars(InflateNext)

-----------------------------------------------------------------------------
(* Properties.                                                               *)

\* How many members a decoder of this mode has to look at.
Decoded(s, m) ==
  IF m # 0 THEN Least(1, Len(s))
  ELSE IF \A i \in DOMAIN s : s[i].how = "whole" THEN Len(s)
  ELSE CHOOSE i \in DOMAIN s : s[i].how # "whole" /\ \A j \in 1..(i - 1) : s[j].how = "whole"

\* The output of the first k members of s.
Output(s, k) ==
  LET sum[i \in 0..Len(s)] == IF i = 0 THEN 0 ELSE sum[i - 1] + s[i].n
  IN  sum[k]

\* What the call should answer: the output of every member is counted before an
\* error in the data that follows it, and nothing at all is not a stream.
Expected(s, m, max) ==
  LET k == Decoded(s, m)
  IN  IF Output(s, k) > max THEN "output too large"
      ELSE IF k # 0 /\ \A i \in 1..k : s[i].how = "whole" THEN "ok"
      ELSE "invalid data"

\* Whatever rounds the buffer's growth splits the work into, the call answers as
\* the members of the input say (or runs out of memory), and a result has all of
\* their output; for inputs whose length fits zlib's 32 bits.
InflateExact ==
  g_status # "running" /\ Len(input) < UInt =>
    /\ g_status \in {Expected(input, mode, limit), "out of memory"}
    /\ g_status = "ok" => len = Output(input, Decoded(input, mode))

\* The buffer never grows past one byte more than the limit, and zlib never
\* writes past its end.
BufferBound == cap <= limit + 1 /\ len <= cap

\* The answer and the room it is given in.
InflateRight == InflateExact /\ BufferBound

\* The loop ends: for any input, cut anywhere.
InflateEnds == <>(g_status # "running")
=============================================================================
