----------------------------- MODULE HttpMessage -----------------------------
(***************************************************************************)
(* read_response of stdlib/net/http.kod over a BufReader (stream.kod): one *)
(* response read from a connection that delivers it in pieces of any size  *)
(* and may end anywhere.                                                   *)
(*                                                                         *)
(* The stream is a sequence of units: what a line says (one unit, or none  *)
(* in an empty line), CR, LF, and data bytes, numbered.  A line counts one *)
(* against the header budget whatever its length; BufReader.limit, which   *)
(* read_response sets to the same number of bytes, is part of that budget. *)
(***************************************************************************)
EXTENDS Naturals, Sequences

CONSTANTS Messages,     \* [method, interim, code, fields, chunks, spill, trailers]
          MaxBody, MaxHeaders, MaxHeadLines,   \* Limits
          MaxInterim,   \* 16
          BufChunk      \* BufReader.chunk

CR == <<"cr">>
LF == <<"lf">>
Surplus == <<"surplus">>

\* What a header line may say: a length, a coding, something else, or nonsense.
Field == ({"length"} \X Nat) \cup ({"coding"} \X STRING) \cup {<<"other">>, <<"malformed">>}

VARIABLES
  message, cut,     \* what the server sends, and how much of it arrives
  incoming,         \* what the connection has still to deliver
  buffered,         \* BufReader: buf from pos on
  got, want,        \* the line or the bytes read so far; how many bytes
  awaiting,         \* what is being read
  status_code, fields,     \* the status and the headers that matter to framing
  counted, budget,  \* Budget: headers, left
  interim, body,
  outcome           \* "running", "ok", "protocol", "truncated" or "failed"

readVars == <<incoming, buffered, got>>
headVars == <<status_code, fields, counted, budget, interim>>
messageVars == <<message, cut, readVars, want, awaiting, headVars, body, outcome>>

-----------------------------------------------------------------------------
(* The server's side.                                                        *)

\* The last k of a sequence of parts, one after the other.
LastOf(parts, k) ==
  LET last[i \in 0..Len(parts)] ==
        IF i = 0 THEN <<>> ELSE parts[Len(parts) + 1 - i] \o last[i - 1]
  IN  last[k]
Concat(parts) == LastOf(parts, Len(parts))

LineOf(unit) == <<unit, CR, LF>>
LinesOf(units) == [i \in 1..Len(units) |-> LineOf(units[i])]

\* Mutant: an answer to HEAD is taken to have a body.
Bodyless_ignores_method(method, status) == status < 200 \/ status \in {204, 304}

Bodyless(method, status) == method = "HEAD" \/ status < 200 \/ status \in {204, 304}

\* The values of the headers of a name.
FieldValues(fs, name) == {fs[i][2] : i \in {j \in 1..Len(fs) : fs[j][1] = name}}
Codings(fs) == FieldValues(fs, "coding")
Lengths(fs) == FieldValues(fs, "length")

\* How the body is framed.
Framing(m) ==
  IF m.method = "HEAD" \/ m.code \in {204, 304} THEN "none"
  ELSE IF Codings(m.fields) # {} THEN "chunked"
  ELSE IF Lengths(m.fields) # {} THEN "length" ELSE "rest"

\* The bytes in the first k chunks, and in all.
BytesIn(chunks, k) ==
  LET sum[i \in 0..Len(chunks)] == IF i = 0 THEN 0 ELSE sum[i - 1] + chunks[i]
  IN  sum[k]
Total(m) == BytesIn(m.chunks, Len(m.chunks))

DataFrom(from, n) == [i \in 1..n |-> <<"data", from + i>>]

\* Each chunk: its size, its bytes (a wrong server sends more), a line end.
Chunks(m) ==
  [i \in 1..Len(m.chunks) |->
    LineOf(<<"size", m.chunks[i]>>)
    \o (DataFrom(BytesIn(m.chunks, i - 1), m.chunks[i] + m.spill) \o <<CR, LF>>)]

Interims(m) == [i \in 1..m.interim |-> LineOf(<<"status", 100>>) \o <<CR, LF>>]
Preamble(m) ==
  Concat(Interims(m)) \o (LineOf(<<"status", m.code>>) \o (Concat(LinesOf(m.fields)) \o <<CR, LF>>))

BodyOf(m) ==
  CASE Framing(m) = "none" -> <<>>
    [] Framing(m) = "chunked" ->
         Concat(Chunks(m)) \o (LineOf(<<"size", 0>>) \o (Concat(LinesOf(m.trailers)) \o <<CR, LF>>))
    [] OTHER -> DataFrom(0, Total(m))

Encoded(m) == Preamble(m) \o BodyOf(m)

\* A final response.  Only a chunked one has trailers or a chunk that is longer than
\* its size says, and one length that is given is the right one: nothing in the
\* stream could tell a client otherwise.
IsMessage(m) ==
  /\ m \in [method : STRING, interim : Nat, code : Nat \ (0..199), fields : Seq(Field),
            chunks : Seq(Nat \ {0}), spill : Nat, trailers : Seq(Field)]
  /\ m.trailers # <<>> => Framing(m) = "chunked"
  /\ m.spill # 0 => Framing(m) = "chunked" /\ m.chunks # <<>>
  /\ Framing(m) = "length" => \A n \in Lengths(m.fields) : Lengths(m.fields) = {n} => n = Total(m)

ASSUME MessageConstants ==
  /\ MaxBody \in Nat /\ MaxHeaders \in Nat /\ MaxHeadLines \in Nat \ {0}
  /\ MaxInterim \in Nat /\ BufChunk \in Nat \ {0}
  /\ \A m \in Messages : IsMessage(m)

MessageInit ==
  /\ message \in Messages
  /\ LET sent == Append(Encoded(message), Surplus)
     IN  cut \in 0..Len(sent) /\ incoming = SubSeq(sent, 1, cut)
  /\ buffered = <<>> /\ got = <<>> /\ want = 0 /\ awaiting = "status"
  /\ status_code = 0 /\ fields = <<>> /\ counted = 0 /\ budget = MaxHeadLines /\ interim = 0
  /\ body = <<>> /\ outcome = "running"

-----------------------------------------------------------------------------
(* BufReader.read_until, read_line and next_line.                            *)

LinePhases == {"status", "header", "size", "trailer"}

\* The first line end in s.
HasEnd(s) == \E i \in 1..Len(s) : s[i] = LF
EndIn(s) == CHOOSE i \in 1..Len(s) : s[i] = LF /\ \A j \in 1..(i - 1) : s[j] # LF

\* read_until finds no line end in its buffer: it takes all of it, or reads more.
fill_line ==
  /\ awaiting \in LinePhases
  /\ \/ /\ buffered # <<>> /\ ~HasEnd(buffered)
        /\ got' = got \o buffered /\ buffered' = <<>> /\ UNCHANGED incoming
     \/ /\ buffered = <<>>
        /\ \E n \in 1..Len(incoming) :
             /\ n <= BufChunk
             /\ buffered' = SubSeq(incoming, 1, n)
             /\ incoming' = SubSeq(incoming, n + 1, Len(incoming))
        /\ UNCHANGED got
  /\ UNCHANGED <<message, cut, want, awaiting, headVars, body, outcome>>

Ends(result) == awaiting' = "done" /\ outcome' = result

\* The connection ends before the line does, or before it begins.
line_cut ==
  /\ awaiting \in LinePhases /\ buffered = <<>> /\ incoming = <<>>
  /\ Ends("truncated")
  /\ UNCHANGED <<message, cut, readVars, want, headVars, body>>

\* read_line: the line without LF, and without a CR before it.
TheLine ==
  LET raw == got \o SubSeq(buffered, 1, EndIn(buffered) - 1)
  IN  IF raw # <<>> /\ raw[Len(raw)] = CR THEN SubSeq(raw, 1, Len(raw) - 1) ELSE raw

HasLine(phases) ==
  /\ awaiting \in phases /\ HasEnd(buffered)
  /\ buffered' = SubSeq(buffered, EndIn(buffered) + 1, Len(buffered))
  /\ got' = <<>>
  /\ UNCHANGED <<message, cut, incoming>>

Says(kind) == Len(TheLine) = 1 /\ TheLine[1][1] = kind

-----------------------------------------------------------------------------
(* read_one, read_headers, read_body and read_chunked.                       *)

Rejected == Ends("protocol") /\ UNCHANGED <<want, headVars, body>>

parse_status ==
  /\ HasLine({"status"})
  /\ IF budget > 0 /\ Says("status") /\ TheLine[1][2] \in 100..599
     THEN /\ status_code' = TheLine[1][2] /\ budget' = budget - 1 /\ awaiting' = "header"
          /\ UNCHANGED <<want, fields, counted, interim, body, outcome>>
     ELSE Rejected

\* A header or a trailer; only the former count for framing.
header_line ==
  /\ HasLine({"header", "trailer"}) /\ TheLine # <<>>
  /\ IF budget > 0 /\ counted < MaxHeaders /\ (Says("length") \/ Says("coding") \/ Says("other"))
     THEN /\ counted' = counted + 1 /\ budget' = budget - 1
          /\ fields' = IF awaiting = "header" THEN Append(fields, TheLine[1]) ELSE fields
          /\ UNCHANGED <<want, awaiting, status_code, interim, body, outcome>>
     ELSE Rejected

\* read_body: where the body ends.  Transfer-Encoding goes before Content-Length.
read_body ==
  IF Bodyless(message.method, status_code) THEN Ends("ok") /\ UNCHANGED <<want, body>>
  ELSE IF Codings(fields) # {}
  THEN /\ IF Codings(fields) = {"chunked"} THEN awaiting' = "size" /\ UNCHANGED outcome
          ELSE Ends("protocol")
       /\ UNCHANGED <<want, body>>
  ELSE /\ IF Lengths(fields) = {} THEN awaiting' = "rest" /\ UNCHANGED <<want, outcome>>
          ELSE IF \E n \in 0..MaxBody : Lengths(fields) = {n}
          THEN awaiting' = "body" /\ want' \in Lengths(fields) /\ UNCHANGED outcome
          ELSE Ends("protocol") /\ UNCHANGED want
       /\ UNCHANGED body

\* The empty line after the headers: the body, or the next response after an
\* interim one, with a budget of its own.
head_ends ==
  /\ HasLine({"header"}) /\ TheLine = <<>>
  /\ IF budget = 0 THEN Rejected
     ELSE IF status_code >= 200 THEN read_body /\ budget' = budget - 1 /\ UNCHANGED <<status_code, fields, counted, interim>>
     ELSE IF interim = MaxInterim THEN Rejected
     ELSE /\ interim' = interim + 1 /\ budget' = MaxHeadLines /\ counted' = 0 /\ fields' = <<>>
          /\ awaiting' = "status"
          /\ UNCHANGED <<want, status_code, body, outcome>>

\* A chunk's size line (it has its own budget), 0 for the last.
chunk_size ==
  /\ HasLine({"size"})
  /\ IF ~Says("size") THEN Rejected
     ELSE LET n == TheLine[1][2]
          IN  IF n = 0 THEN awaiting' = "trailer" /\ UNCHANGED <<want, headVars, body, outcome>>
              ELSE IF Len(body) + n > MaxBody THEN Rejected
              ELSE awaiting' = "chunk" /\ want' = n /\ UNCHANGED <<headVars, body, outcome>>

trailers_end ==
  /\ HasLine({"trailer"}) /\ TheLine = <<>>
  /\ IF budget = 0 THEN Ends("protocol") ELSE Ends("ok")
  /\ UNCHANGED <<want, headVars, body>>

\* read_exact over BufReader.read: what is buffered, then the connection.
read_exact ==
  /\ awaiting \in {"body", "chunk", "chunk_end"} /\ Len(got) < want
  /\ LET source == IF buffered # <<>> THEN buffered ELSE incoming
     IN  \E n \in 0..Len(source) :
           /\ n = 0 <=> source = <<>>
           /\ n <= want - Len(got)
           /\ buffered # <<>> => n = Len(source) \/ n = want - Len(got)
           /\ got' = got \o SubSeq(source, 1, n)
           /\ IF buffered # <<>> THEN buffered' = SubSeq(source, n + 1, Len(source)) /\ UNCHANGED incoming
              ELSE incoming' = SubSeq(source, n + 1, Len(source)) /\ UNCHANGED buffered
           /\ IF n = 0 THEN Ends("truncated") ELSE UNCHANGED <<awaiting, outcome>>
  /\ UNCHANGED <<message, cut, want, headVars, body>>

\* It has all: the body, a chunk, or the line end behind a chunk.
has_exact ==
  /\ awaiting \in {"body", "chunk", "chunk_end"} /\ Len(got) = want
  /\ got' = <<>>
  /\ IF awaiting = "chunk_end"
     THEN /\ IF got = <<CR, LF>> THEN awaiting' = "size" /\ UNCHANGED outcome ELSE Ends("protocol")
          /\ UNCHANGED <<want, body>>
     ELSE /\ body' = body \o got
          /\ IF awaiting = "body" THEN Ends("ok") /\ UNCHANGED want
             ELSE awaiting' = "chunk_end" /\ want' = 2 /\ UNCHANGED outcome
  /\ UNCHANGED <<message, cut, incoming, buffered, headVars>>

\* A body without a length: up to the end of the connection.
read_rest ==
  /\ awaiting = "rest"
  /\ \/ /\ buffered # <<>>
        /\ body' = body \o buffered /\ buffered' = <<>> /\ UNCHANGED incoming
     \/ /\ buffered = <<>>
        /\ \E n \in 0..Len(incoming) :
             /\ n = 0 <=> incoming = <<>>
             /\ body' = body \o SubSeq(incoming, 1, n)
             /\ incoming' = SubSeq(incoming, n + 1, Len(incoming))
        /\ UNCHANGED buffered
  /\ IF body' = body THEN Ends("ok")
     ELSE IF Len(body') > MaxBody THEN Ends("protocol")
     ELSE UNCHANGED <<awaiting, outcome>>
  /\ UNCHANGED <<message, cut, got, want, headVars>>

\* The connection's read throws (a reset, a timeout) and the error goes through.
read_fails ==
  /\ awaiting \in LinePhases \cup {"body", "chunk", "chunk_end", "rest"}
  /\ buffered = <<>> /\ (awaiting \in {"body", "chunk", "chunk_end"} => Len(got) < want)
  /\ Ends("failed")
  /\ UNCHANGED <<message, cut, readVars, want, headVars, body>>

MessageNext ==
  \/ read_fails \/ fill_line \/ line_cut \/ parse_status \/ header_line \/ head_ends
  \/ chunk_size \/ trailers_end \/ read_exact \/ has_exact \/ read_rest

MessageSpec == MessageInit /\ [][MessageNext]_messageVars

-----------------------------------------------------------------------------
(* Properties.                                                               *)

WellFormed(fs) == \A i \in 1..Len(fs) : fs[i][1] \in {"length", "coding", "other"}

\* A response a client may accept.
Acceptable(m) ==
  /\ m.code \in 200..599 /\ m.spill = 0
  /\ m.interim <= MaxInterim /\ Len(m.fields) + Len(m.trailers) <= MaxHeaders
  /\ Len(m.fields) + 2 + (IF Framing(m) = "chunked" THEN Len(m.trailers) + 1 ELSE 0) <= MaxHeadLines
  /\ WellFormed(m.fields) /\ WellFormed(m.trailers)
  /\ Framing(m) = "chunked" => Codings(m.fields) = {"chunked"}
  /\ Framing(m) = "length" => Lengths(m.fields) = {Total(m)}
  /\ Framing(m) \in {"chunked", "length"} => Total(m) <= MaxBody

\* However the connection cuts the stream into pieces, a whole response with a
\* length is read as it was sent, and not one byte further: what follows it is
\* still there for the next one.
FramingExact ==
  outcome \notin {"running", "failed"} /\ cut >= Len(Encoded(message)) /\ Framing(message) # "rest" =>
    /\ outcome = IF Acceptable(message) THEN "ok" ELSE "protocol"
    /\ outcome = "ok" =>
         /\ body = IF Framing(message) = "none" THEN <<>> ELSE DataFrom(0, Total(message))
         /\ buffered \o incoming = SubSeq(<<Surplus>>, 1, cut - Len(Encoded(message)))

\* A response that was cut short is never taken for a whole one, wherever the
\* cut is (between CR and LF too), unless only the connection's end ends it; and
\* then its body is all that came.
TruncationSeen ==
  outcome \notin {"running", "failed"} =>
    IF Framing(message) # "rest"
    THEN cut < Len(Encoded(message)) => outcome = "truncated" \/ (outcome = "protocol" /\ ~Acceptable(message))
    ELSE outcome = "ok" => /\ cut >= Len(Preamble(message))
                           /\ body = SubSeq(Append(Encoded(message), Surplus), Len(Preamble(message)) + 1, cut)

\* A response is read whole and exactly, or refused.
ResponseExact == FramingExact /\ TruncationSeen
=============================================================================
