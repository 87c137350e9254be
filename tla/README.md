# Kod: a verification project

Kod is a small compiled language. The repository holds its compiler (written
in Kod), the C runtime every program is linked with, a standard library (HTTP,
TLS, processes, compression, JSON), and tools around them (a language server,
the `kod` command). This directory holds TLA+ models of the parts of that system
whose correctness depends on *sequences* of steps: what a test would have to
interleave, delay or repeat to see go wrong. TLC checks the models on small
instances, TLAPS proves the central invariants of the language server and of the
HTTP client for all instances.

`PROJECT.json` lists components, runs, the source lines behind each definition,
known disagreements between code and documentation, and hazards. Run a model
from this directory, for example

    tlc -config LspServer.cfg MCLspServer
    tlapm LspServer_proofs.tla
    tlapm HttpClient_proofs.tla

## 1. Inventory

| Component | State it keeps | Operations | Interacts with |
|---|---|---|---|
| Language server (`tools/lsp.kod`, `g_lsp_*` in `stdlib/runtime.c`) | open documents, active document, pending-publish flag, one cached compile, the arena | one handler per LSP method, the 250 ms debounce, shutdown and exit | the editor through stdin/stdout, the compiler, the arena, which it frees under its own data |
| HTTP client (`stdlib/net/http.kod`) | the pool of idle connections; per call: redirect count, headers, deadline | `fetch`, `exchange` with one retry, `take`, `keep`, `close` | servers that close, stall or answer late; TCP and TLS links |
| Subprocesses (`kod_run_process`, `kod_spawn`, `kod_kill`) | two pipes, two buffers, child ids | `run`, `spawn`, `kill`, `exec` | the child, the kernel's process table, signal handlers of the same process |
| Register allocator (`stdlib/kod/regalloc.kod`, evicting code in `codegen.kod`) | register pool, live vregs, saved pools, the buffered body | `alloc_reg`, `free_reg`, `evict`, `restore`, `run`, `pack` | the code generator, which emits against registers that are reassigned later |
| Arena, arrays, strings, builders (`stdlib/arena.c`, `runtime.c`, `kod_rt.h`) | blocks; headers and buffers inside them | allocation, slice, copy, concatenation, append, element store, reset | every Kod program; the language server resets the arena |
| TCP and TLS (`stdlib/net/tcp.c`, `tls.c`) | sockets, a TLS session, sticky end-of-stream and timeout flags, an errno slot all calls share | connect over a list of addresses, listen, accept, handshake, read, write, close | HTTP client, SecureTransport callbacks |
| HTTP messages (`stdlib/net/http.kod`) | a budget for header bytes and headers | `read_response` | HTTP client, buffered streams |
| Buffered streams, fd I/O (`stream.kod`, `posix.kod`, `runtime.c`) | a buffer with a read position | `read`, `read_line`, `read_exact`, EINTR retries | sockets, files, HTTP parsing |
| Sampling profiler (`runtime.c`, `kod/profiling.kod`) | a fixed sample buffer, a count shared with a signal handler | `start`, `stop`, `report`, the SIGPROF handler | whatever it interrupts |
| Test framework runtime (`runtime.c`) | pass and fail counters per module, stdio's buffer | reset, fail, report, summary, print, panic | generated test mains |
| Decompression (`stdlib/compress/inflate.c`) | an output buffer that grows up to a limit | `kod_inflate` | zlib, HTTP client |
| Build and imports (`kod/build.kod`) | modules found so far, their order | the import walk | compiler driver, language server |
| Lexer, parser, code generator | trees, symbol tables | sequential passes over one module | driver, language server |
| JSON, checksums, encodings, collections, primitives, time, environment, file system | none between calls | pure functions or single system calls | - |

What is hard in this system, and where:

* **Lifetime across a reset.** The language server frees all compile memory in
  every document handler and keeps a pointer to the last compile outside that
  memory.
* **Deferred work.** One flag and one active document stand for all publishes
  that are still owed; a poll that cannot see stdio's buffer decides when.
* **Two processes and two pipes.** Parent and child block on each other when a
  full pipe is not drained; a signal can end the draining loop.
* **Retries.** A request on a reused connection that fails may have been
  executed. A late answer must not be taken for the answer to a later request.
* **Recycled names.** A process id or descriptor kept after its owner is gone
  names something else.
* **Decisions made early.** The code generator decides spills from a register
  that a later pass replaces.
* **Errors inside a sequence.** One address of several fails, a close follows a
  failed handshake, a connection ends inside a record: each must leave the right
  error, the right descriptors and the right bytes.
* **Boundaries that move.** A response, a record or a compressed stream is cut
  into pieces by somebody else; the answer must not depend on where.
* **Signals.** The profiler's handler runs between any two instructions.
* **Aliasing.** `xs += xs`, copies, slices and builder strings share one heap.

The properties that make each part correct are listed with its module below;
`PROJECT.json` gives, per hazard, the line where it bites and the properties that
would catch it.

## 2. Plan

Order, most important behaviour first. Done:

1. `LspServer`, `LspServer_proofs`: the server loop, its state and an editor.
2. `HttpClient`, `HttpClient_proofs`: pool, retry, redirects, servers, and what a
   TLS session holds back.
3. `RunProcess`, `ChildProcs`, `Process_proofs`: subprocesses.
4. `RegAlloc`, `RegAlloc_proofs`: allocation, eviction, linear scan, packing.
5. `KodHeap` implementing `KodValues`, `KodHeap_proofs`: memory against values.
6. `NetLink`, `NetLink_proofs`: TCP and TLS connections.
7. `HttpMessage`, `HttpMessage_proofs`: one response over a buffered reader.
8. `Inflate`, `TestRun`, `Profiler`, `Runtime_proofs`: the remaining stateful parts of
   the C runtime.
9. `MCRuntime`: one run over the parts of 3 and 5 to 8, which do not interact.

Left for later:

10. An abstract `Link` that `NetLink` implements and `HttpClient` uses.
11. The import walk of `build.kod`, `sort.kod` and the built-in map.

## 3. Modules

Each module names its actions and operators after the functions they translate.
Definitions with a comment that begins `Mutant:` are faulty variants of the
definition that follows them. They are not part of any specification: putting
one in its place must break the property `PROJECT.json` pairs it with.

### LspServer

The server is one thread with two places, `pc = "top"` (the debounce) and
`pc = "read"` (read and handle one message). The editor appends messages to
`pipe` at any time; `FillBuffer` moves any prefix of it to `buf`, stdio's buffer,
because `stdin_data_ready` polls the descriptor and sees only `pipe`. A compile
result is the pair (uri, text) it was made from; `arena` is the set of results in
live memory; `view` records the text whose diagnostics the editor shows.
`compile_or_cached` is one operator used by the debounce, the lookups,
completion and shutdown. Message layout, positions and what a hover says are
abstracted away. The editor keeps the LSP document lifecycle: it changes, queries
and closes only open documents.

| Property | What it says |
|---|---|
| `CacheValid` | the cached compile is in live memory and of the text the server now holds |
| `PendingNeverHits` | compiling the active document with a publish pending is never a cache hit (a hit would not publish) |
| `ClosedDocsClear` | a closed document shows nothing, whatever was pending or cached |
| `ActiveShown` | with nothing pending, the active (non-empty) document shows its present text's diagnostics |
| `AnswersFresh` | an answer is computed from the text the editor showed when it asked |
| `PublishIsCurrent` | nothing outdated is ever published |
| `PendingFlushed`, `RequestsAnswered` | under fairness of the server process, a deferred publish is flushed and each request answered, unless the server ends |

Runs: `lsp` (two documents, two texts and the empty one, four messages: an open,
an edit or a switch, a query and a close or shutdown fit; safety is proved for any
number, section 4), `lsp_each_doc`, which refutes `EveryOpenDocShown` (section 5). Fairness: weak fairness of the server's own
steps only. It runs whenever input or the timeout lets it; the editor owes
nothing.

### HttpClient

A link is a connection, one of a stock that none is used twice from. On the wire a
request is its number, an answer the number it answers, `Surplus` a byte that
answers nothing. `phase` is the place inside `exchange`; `take` and the connect
that may follow are one action each way (`acquire_kept`, `acquire_new`) because
nothing else of the program runs between them. At each `take` any prefix of the
oldest entries may be too old.

A fetch has `limits`: whether there is a timeout (zero is none) and a deadline,
which is ahead until the clock passes it (`DeadlinePasses`). A request is written
and a response read piece by piece: the server takes or sends a piece
(`ServerTrickles`, `moved`), the wait returns with it and the loop goes on to the
next wait (`next_wait`), each wait with its own timeout. `wait_ms` is `Passed` and
`WaitEnds`: before each wait it throws if the deadline has passed, and the deadline
shortens the timeout of the wait, but not a timeout of zero. An error may end a wait
at any moment (`read_fails`, `write_request`), with some of the answer `received`
or none, which decides on the retry. How many pieces a server makes of an answer is
unbounded: the caps on headers and body (`Limits`) make a drip finite, but at one
byte per timeout not within any useful time, so nothing here relies on them.

What a response's body leaves of the last TLS record is kept apart
(`decrypted`): a reader asks the session for as many bytes as the body lacks, and
`idle` polls only the socket below it. `unread` remembers the connections on which
that happened. URL, header and body parsing appear as outcomes: parsed, malformed, over a
limit. The server may execute a request, answer late or piece by piece, send
surplus bytes with an answer, close at any moment, or do nothing. One assumption: bytes that answer
nothing arrive together with an answer; bytes sent unasked after the idle check
look like an answer to any client.

| Property | What it says |
|---|---|
| `LinksOwnedOnce` | every open connection is in the pool or in use, never both; none leaks, none is closed twice |
| `OneIdlePerKey`, `RetryOnNewLink` | the second try of docs/http.md is on a new connection: the pool cannot hold another one for the same host. (So `max_idle_per_host` above 1 never matters to a client used one call at a time.) |
| `ResponseIsOurs` | the answer read is the answer to this request, on every connection that was not left with decrypted bytes |
| `NothingUnread` | the same without the exception: refuted (section 5) |
| `NotRepeated` | no server executes a request twice unless its method may be repeated, and then at most twice |
| `CredentialsStayHome`, `NoDowngrade` | over a whole redirect chain, away and back included |
| `FetchEnds` | a call with a timeout and a deadline ends whatever the servers do; one with a timeout alone ends unless a server keeps sending or taking pieces for ever, as docs/http.md:138 says it may |
| `DeadlineBinds` | a call with a deadline ends, whatever its timeout: refuted (section 5) |

Runs: `http` (two requests, two connections, two hosts, one of them over both
schemes, with a timeout or with both limits: enough for a reuse, a failure and its
retry, and for a redirect to another host or scheme; longer chains, away and back,
are covered by the proofs, which bound nothing), `http_unread` and `http_deadline`
(section 5). Deadlock is not checked in these runs: the bounds on requests end a
behaviour. Fairness: weak fairness of what the client does by itself (`Progress`)
and of the clock. A wait is bound to end only if something ends it (`WaitEnds`): no
piece within a timeout that is set, the deadline before the next wait, or the
server's close; a connect has a timeout of its own, a handshake only if one is set.
Servers owe nothing. Inside one TLS record the wait is not looked at again
(`read_cb` reads on), so a dripped record can overrun the deadline by its length in
timeouts; a record is finite, and `FetchEnds` does not say how soon.

### RunProcess

`kod_run_process` step by step: pipes, spawn, the poll loop with the scan of its
`revents` in order, `waitpid`. The child runs concurrently and is any sequence of
up to `MaxChunks` writes over the two streams, ending by itself or killed. A pipe
holds `PipeCap` chunks. A read takes any positive part of what is there. A signal may
interrupt `poll` `MaxSignals` times: the profiler's SIGPROF, whose `SA_RESTART`
does not apply to `poll`.

Properties: `ResultComplete` (`NothingLost`: captured plus what is in the pipe is
what was written, per stream and in order; and a result has all of it, with the
child reaped and its status), `FailedStartIsClean`, and
`Returns` (uninterrupted, the call returns). Runs: `runtime` (two-chunk pipes and
five writes, so each pipe can fill while the other is read), `process_signal`
(section 5). Deadlock is not checked there because an interrupted call does
deadlock; `Returns` covers the uninterrupted one. Fairness: parent and child are
scheduled by the kernel; signals and kills need not happen.

### ChildProcs

`kod_spawn` and `kod_kill` among process ids that are reused: a child (possibly
ignoring SIGTERM), a zombie, a process of the same user, one of another user.
`OnlyTheNamed`: `kill` reaches the one process it names, also when handed the -1
of a failed spawn. `KillReaps`: when it returns for a child, the child is reaped.
`KillReturns`: unless the child ignores SIGTERM. Runs: `runtime` (three ids),
`kill_doc` (section 5). Fairness: the kernel delivers the signal and schedules the
program.

### RegAlloc

One function's body. The code generator is the environment: it allocates, frees,
and emits any straight-line code that reads only vregs it holds and that have a
value; around a call it keeps values only in vregs backed by callee-saved
registers, as `spill_across` decides. A line is the vregs it writes and reads,
which is what `scan_line` extracts from text. `run` is one action per vreg,
`pack` one action. The order of the scan is any function of the vregs that the
insertion sort's result satisfies (`InOrder`: ascending definitions, equal ones as
they were); the pools and the expired vregs are filtered sequences (`Filtered`),
written as a recursive function so that the prover can reason about them.

`ReadsRight` is the purpose of it all: in the final registers each read sees the
value of the vreg it names, with calls and evictions in between. `ActiveDistinct`
says that active vregs have registers of their own and the pools the others, which
is why the fallback for an exhausted class is never taken ("Shouldn't happen").
`PoolConserved`, `SavedIsUsed` and `ClassKept` are the contracts with the emitter
and with the prologue. Runs: `regalloc_scan` (three vregs, three registers, four
lines: enough for a handover on a definition, a reuse and a call in between),
`regalloc_evict` (two registers, five lines: a value, a save, a nested value, the
reload with the result, a read of either). Branches are not modelled:
the scan ignores labels, and its intervals are right for a loop only if no
register is held across the backward branch. `compile_for` and
`compile_foreach` keep loop state in frame slots; that no other construct does
otherwise is not examined here.

### KodHeap and KodValues

`KodValues` is what a programmer sees: a handle stands for a sequence; `+=`,
element assignment and builder appends change one value, everything else makes
a new one. `KodHeap` is the memory: slots of 8 bytes handed out by `arena_alloc`
in blocks, headers and buffers written and read as the C code does, growth by
doubling with the old buffer abandoned. `ValuesKept` states that `KodHeap`
implements `KodValues` under the mapping that reads each handle's slots.
`Disjoint`: no two values share a slot, and all are in memory the arena owns. `CapFits`: the limit in `kod_sb_reserve`
keeps the doubling from overflowing. `+=` and a builder's append grow the left side
first and then copy element by element from where the right side's header points by
then (`AppendFrom`, `CopyLoop`): in `xs += xs` that is the buffer just made, while
it is written. Run: `runtime` (three values of up to three elements, blocks of five
slots in fifteen, so that requests fit exactly, do not fit, and exceed a block). Bytes are numbers modulo `ByteSize`. `arena_reset` forgets all
handles: its callers promise to hold none (that the language server keeps that
promise is `CacheValid`).

### NetLink

A program that connects (over TCP or TLS), listens, accepts, reads, writes, sets
timeouts and closes, one call at a time; `at` is the place inside a call. `isopen`
is the kernel's descriptor table, `owned` what the program was given, `lost` what
nobody can close any more. Name resolution yields up to `MaxAddrs` addresses;
each may fail at the socket or at the connect. `io_errno`, `gai` and `tls_status`
are the slots errors are passed through, `thrown` the error the caller gets, and
`cause`, a history variable, the failure that ended the call. The peer's bytes are
records (a header naming the length, then the data, or a close notice); it sends
any prefix, goes silent, or closes anywhere. That what it sends is such records
(`Framed`), holding the first of `Bytes` in order (`Counted`), is assumed of every
stream (`NetConstants`): the protocol's promise, not the code's. `lib` is SecureTransport as the
callbacks see it: it asks for a header, then for the rest of the record, and keeps
what it got when a callback stops early; this part is external, taken from how
`tls.c` uses it.

| Property | What it says |
|---|---|
| `FdsAccounted` | an open descriptor is the program's, the call's, or one of the leaks after a failed `set_timeout` |
| `ErrorIsCause` | the error thrown is the failure that ended the call: not a stale errno, not that of the `close` on the way out |
| `TrustChecked` | a live session was checked against the trust file's certificates if one was named |
| `StreamInOrder` | what is read is the first of what was sent, in order and once, over timeouts inside a record and any `max` (`BytesInOrder`), and a timeout or an error is never reported as the end of the stream: the peer closed or sent its notice (`EndNeedsClose`) |
| `AllDelivered`, `EndBetweenRecords` | no byte is left behind at the end, and the end falls between records: both refuted (section 5) |
| `NetReturns` | handshakes and reads with a timeout return |

A timeout of zero, given to `tls.connect` or `set_timeout`, is no limit (`limited` is
then false), and such a handshake or read may last for ever. The limit is per read of
the descriptor: a handshake makes finitely many, so it ends with it. `close` may fail,
after which the descriptor and the stream are gone as well.

Bounds: two addresses and two descriptors (so one can leak, or fail, while another
is in use), two streams of two records, reads of at most 0, 1 or 2 bytes.
Runs: `runtime`, `tls_drain` and `tls_cut` (section 5).

### HttpMessage

`read_response` over `BufReader`: lines found across refills of the buffer, the
header budget, the limits, interim responses, and a body that is absent, chunked,
of a given length or up to the end. `Encoded` is the server's side and the
reference; `cut` is how much of it arrives, and the reader returns any short
count. Units stand for the text of a line; CR, LF and data bytes are separate,
so a cut or a refill may fall between any two of them.

What a server may send (`IsMessage`): any number of interim responses, chunks,
headers and trailers, well formed or not, any code from 200 on, chunks longer than
their size lines say, any number of lengths and codings, which may contradict each
other. Two things are assumed because nothing in the stream could show the
contrary: when all Content-Length headers agree they give the length of the body,
and only a chunked body has trailers or surplus bytes of a chunk. Interim responses
have no headers. A chunk's size line is one unit that gives its size: malformed size
lines and ones over their budget of 4096 bytes (http.kod:677) are left out; they end
in the same error as a malformed header line.

`ResponseExact` has two parts. `FramingExact`: a response that arrives whole is accepted exactly when it is within
the limits and consistent, its body is what was sent, and the next byte is still
there for the next response. `TruncationSeen`: one cut short is never taken for a
whole one. The messages of `MCMessages` include each framing, each limit met
exactly and exceeded by one, two lengths that agree and that do not, and a length
beside `chunked`. `read_line` accepts a bare LF
as well; servers here send CRLF.

### Inflate

`kod_inflate`: the buffer that doubles up to the limit and one byte, zlib called
on what is left of input and output, members of a gzip file one after another. A
compressed input is a sequence of members, each with the size of its output and
whole, cut or corrupt. zlib itself is external. `InflateRight`: the answer
is that of a definition that knows nothing of rounds (`InflateExact`: `Decoded` is
how many members count, `Output` what they come to), within the room allowed
(`BufferBound`). The loop ends (`InflateEnds`).
Outputs around every limit used (0 to 5) are included.

### TestRun

A test program: modules, tests that print, fail or panic, and the two stdio
streams, of which stdout is buffered when it is a pipe and may be flushed by a
full buffer at any line. `LogInOrder` (a failure's detail does not overtake what
the test printed before it: each line has a place, and what is out is the lines
before it), `VerdictsTell` (each test's line, the summary and the
exit status say what happened).

### Profiler

The program calls and returns, starts and stops the profiler and asks for a report,
step by step; the SIGPROF handler runs between any two steps while a tick is
pending, also one that became due before `stop`. `ReportRight`: the buffer is never
overrun and a report counts each sample it announces once. `SamplesRight`: a
sample is the stack at that moment (`walk` follows the frames, `Recorded` says what
of them a row holds), and is kept. Two samples of two frames, stacks one frame
deeper than a row.

### MCRuntime

`RunProcess`, `ChildProcs`, `NetLink`, `HttpMessage`, `Inflate`, `TestRun`,
`Profiler` and `KodHeap` share no state (where two of them meet, a module of its
own says so: SIGPROF is part of `RunProcess`). `MCRuntime` is their sum: `which`
picks one at the start, its actions run and the others' variables keep one initial
value. The run `runtime` has the states of eight separate runs, not their product.
`CallsReturn` joins the liveness of the parts. Each component's fairness applies when it is the one chosen: parent and child are
scheduled (`Parent`, `Child`); the kernel delivers signals (`WaitReturns`,
`ChildDies`); a network call makes progress when it can, and only a wait with a
timeout is bound to end (`NetProgress`); the inflate loop runs (`InflateNext`).
Deadlock is not checked: every component comes to rest when its program is done.

## 4. Proofs

`LspServer_proofs` proves, for any set of documents and texts and any number of
messages, from the assumption `LspConstants` (the special values are not
documents or texts):

* `TypeCorrect`: `Spec => []TypeOK` (which the runs therefore do not repeat)
* `CacheAlwaysValid`, `PendingIsFlushedByCompile`, `ClosedStayClear`,
  `ActiveIsShown`: the four invariants above.

The inductive invariant is

    IInv == TypeOK /\ CacheValid /\ PendingNeverHits /\ ActiveOpen
                   /\ ClosedDocsClear /\ ActiveShown

`CacheValid` alone is inductive with `TypeOK`. The others need each other.
`ClosedDocsClear` holds because a publish is always for the active document and
that document is open (`ActiveOpen`), so a late flush cannot bring back a closed
one. `PendingNeverHits` holds because setting `pending` and dropping the cached
compile happen in the same handler, and only a compile, which clears `pending`
when it is of the active document, fills the cache again. `ActiveShown` needs
`PendingNeverHits`: were a hit possible with a publish pending, the flag could
be left with nothing to clear it. Type correctness
is proved first, handler by handler. For the rest (`Core`) there is one lemma for
`compile_or_cached`, one for the flush, one for opening and changing a document,
one for closing, and one for steps that leave documents, cache and view alone;
`CoreStep` combines them per action.

`HttpClient_proofs` proves, for any set of URLs and methods, any limits on idle
connections and redirects and any number of connections and requests, from
`HttpConstants` (a scheme is http or https, which `parse_url` checks; limits are
natural numbers):

* `TypeCorrect`, `NoLinkLeaks` (`LinksOwnedOnce`), `PoolHoldsOnePerKey`
  (`OneIdlePerKey`), `RetryIsFresh` (`RetryOnNewLink`), `AnswerMatches`
  (`ResponseIsOurs`), `CredentialsKept` (`CredentialsStayHome`), `StaysOnHttps`
  (`NoDowngrade`).

The inductive invariant adds three facts to these. `WiresOwned` says what may be
on its way on each connection that was not left with decrypted bytes (`unread`):
nothing on a new one, no request on a pooled one, and on the one in use either
nothing, this request, or the answer to it. It gives `ResponseIsOurs`, and holds
because a connection is reused only after its answer was read in full and only if
nothing is waiting on its socket, and because a failed one is closed before
anything else is sent. A new connection is never in `unread`, so an answer that is
not ours takes a reused one. `RetryFindsNone` says that a retry finds
no connection of its host in the pool; it follows from `OneIdlePerKey`, since the
first try took the only one. `OriginKept` ties the request in progress to the URL
the caller named. `OneIdlePerKey` also makes `keep`'s eviction a no-op for a client
used one call at a time, which spares the proof all counting (`NoExcess`). The
proof has one lemma per shared part (`Settled`, `OldestIs`, `DiscardOpen`), then
type correctness (`TypeStep`), the redirect chain (`ChainStep`) and the connections
(`CoreStep`), each action by action.

`PublishesCurrent` and `AnswersInStep` (the action properties `PublishIsCurrent` and
`AnswersFresh`) follow from the same invariant and, for the answers, from `InStep`:
the messages between editor and server, taken in order, lead from the text the
server holds to the text the editor shows, and each query stands where its own text
is the one reached.

`RetryIsSafe` (`NotRepeated`) in `HttpClient_proofs` rests on `Tries`, which counts
for each request the executions it has had and the connections it still travels on
(`Tried`), and bounds the sum by what the method allows. It is the sum that is
inductive: a request that was written and whose connection failed may still be
executed later, after the retry was sent.

`Process_proofs` proves, for any pipe capacity, any child and any set of process ids
(`RunConstants`, `PidsPositive`):

* `RunReturnsAll` (`ResultComplete`), `RunFailsClean` (`FailedStartIsClean`),
  `KillHitsOnlyTheNamed` (`OnlyTheNamed`), `KillLeavesNoChild` (`KillReaps`).

`RunInv` joins `NothingLost` to where the parent is (`ParentKnows`) and to why it
stops reading a stream: only when its pipe is empty and the child that could write
more is gone (`DroppedAtEnd`), unless a signal ended the loop. What `poll` reported
stays true until the scan gets to it, because only the parent empties a pipe.

`NetLink_proofs` proves, for any number of addresses and descriptors and any `max`
(`NetConstants`):

* `DescriptorsAccounted` (`FdsAccounted`), `ErrorsAreCauses` (`ErrorIsCause`),
  `SessionsAreChecked` (`TrustChecked`), `EndsNeedAClose` (`EndNeedsClose`, the second
  part of `StreamInOrder`), and `StreamStaysInOrder` (`StreamInOrder`, for any streams
  of records). Neither says that all was read before the end or that the end falls
  between records, which the code does not guarantee.

`FdInv` says in which of `fd` and `sock` the call in progress keeps its descriptor
at each place. `ErrInv` follows the failure through the error slots: from the step
that fails to the throw the slots hold it, and no flag of an earlier read is left to
outrank it (`timed_out` is clear outside `return`). `EndInv` says that `clean_eof` and
an ended session stand for a close. `BytesInOrder` counts bytes and is not inductive:
whether the next unit read is a byte depends on where in a record the library is.
`StreamInv` says that from the start of the handshake the stream is in order
(`InOrder`): what was decrypted and what is held of a body are the first of `Bytes`,
what is still to come is framed from the library's stage on and counted from there.
One lemma per kind of unit read (`HeaderRead`, `ByteRead`, `NoticeRead`) and one for
how much a `read` of the descriptor takes (`ReadInOrder`) keep it; `CountedPayload`
turns it into the statement about bytes. Each invariant uses those before it.

`KodHeap_proofs` proves, for any block size, capacities and bounds (`HeapConstants`):

* `ValuesShareNothing` (`Disjoint`), `CapacitiesFit` (`CapFits`), and the refinement
  `MemoryImplementsValues` (`Spec => ValuesKept`): every step of the memory is the
  step of `KodValues` of the same name, or none.

`Disjoint` is not inductive: a value must also lie in what the arena has handed out
(`Used`), so that the next `arena_alloc` overlaps nobody, and header and buffer must
have room for the length (`Fits`). `HeapInv` says so. With it, one lemma tells what a
write inside one value does to the others (nothing) and what an allocation does to
all (nothing); the refinement then computes, for each operation, the one value that
changes. For `+=` and append it first shows that the element loop copies what the
source held when it was called (`LoopCopies`, `LoopReadsSource`): the slots written are
behind those read, also when both sides are one array. Arrays hold elements (`ElemInv`), which the string operations of the
abstract specification need.

`RegAlloc_proofs` proves, for any registers of each class, any body and any order of
allocations and evictions (`Registers`: the two classes are disjoint lists without
repetition):

* `ReadsSeeTheirValue` (`ReadsRight`), `NoRegisterLost` (`PoolConserved`),
  `ScanStaysDistinct` (`ActiveDistinct`), `PrologueSavesUsed` (`SavedIsUsed`),
  `ClassesStay` (`ClassKept`), and `ScanNeverRunsOut`: no turn of the scan finds the
  pool of its class empty.

While the body is emitted, the pool and each pool saved by an eviction partition the
registers (`PoolInv`), and what may be read is where it was written (`HoldInv`). That
is not enough for the scan, which looks at lines only: without an eviction, two vregs
that were given the same register are mentioned in separate stretches of the body
(`Apart`). Hence at most as many vregs of a class are alive at a line as the class
has registers, and the scan cannot run out. During the scan (`RunInv`) the registers
of a class are shared out between the pool and the active vregs (`Shares`), a vreg
that is no longer active is over before anything still to be placed (`PastInv`), and
two placed vregs with one register have intervals that do not overlap (`PairInv`),
which gives `ReadsRight` for the new assignment. `pack` renames registers one to one.

`Runtime_proofs` proves, for any number of tests and lines and any buffer size
(`TestConstants`), and any depth of stack and size of the sample buffer
(`ProfConstants`):

* `LogKeepsOrder` (`LogInOrder`), `VerdictsAreRight` (`VerdictsTell`);
* `ReportsAddUp` (`ReportRight`), `SamplesAreStacks` (the action property
  `SamplesRight`);
* `InflateIsExact` (`InflateRight`), for every sequence of members, mode, limit, first
  capacity, room per call and width of `avail_in` (`InflateConstants`).

`TestInv` adds to the verdicts what the flags mean while a test runs (`FlagRight`:
`test_failed` is this test's failure, the count is of those before it) and that the
total is the failures and the passes said so far. `ProfInv` adds types only; the work
is in `WalkIs`, what the recursive `walk` of the frames yields for every stack and
every room in a row.

While `kod_inflate` runs it is somewhere in the input (`At(i)`): `i`
members are done, all whole; of the next, what zlib has still to make and what is
already out come to the output of `i + 1` members. Each outcome of a call of zlib
(`Does`) keeps that or settles on the answer `Expected` gives. A round never gives
up for lack of room with the limit unreached, because the output is within the limit
while the call runs (`WithinLimit`).

`HttpMessage_proofs` proves, for any messages, limits and sizes of the buffer and any
place where the connection ends (`MessageConstants`):

* `ResponsesAreExact` (`ResponseExact`), and the invariant it follows from,
  `ClientKeepsPlace` (`MessageInv`).

`ResponseExact` only speaks of the end. `MessageInv` says where the client is: what it
has not parsed yet (`Pending`: the part of a line or of a body it has, the buffer, and
what is still to be delivered) is what came (`Came`) of the rest of the message that
its state calls for (`StatusDue`, `FieldsDue`, `ChunksDue`, `BytesDue`, `TailDue`,
`TrailersDue`), the units that did not come being the last `Missing` ones. Each phase
(`InStatus`, `InInterim`, `InHead`, `InSize`, `InChunk`, `InChunkEnd`, `InTrailers`,
`InBody`, `InRest`, `Done`) adds what has been read and found acceptable so far: the
headers counted, the budget spent, the body as far as it goes. How the stream was cut
plays no part in it, so a refill (`FillKeeps`, `ExactKeepsStream`) leaves it as it is.
A line is found where it was sent because the part already got has no line end and
the line that is due ends with the only one it has (`LineFound`); when the connection
ends first, at least two units are missing (`NoLine`, `ExactShort`), one of them the
unit behind the response, so the response was cut. The invariant was model-checked
over the messages of `MCMessages` before it was proved.

Recursive functions (`Filtered`, `walk`, `Output`, `Payload`, `LastOf`, `BytesIn`) are
reasoned about by first showing that a function with the defining equation exists, by
least counterexample (`LeastMember`), since the library's induction theorems are out
of the prover's reach; the equation then holds of the `CHOOSE` behind the definition.

Only model-checked: the liveness properties (`PendingFlushed`, `RequestsAnswered`,
`FetchEnds`, `CallsReturn`), because the prover has no support for fairness. Every
safety invariant and action property a passing run checks has a theorem.

## 5. Where code and documentation disagree

* **A second document loses the first one's publish** (`lsp_each_doc`). One active
  URI and one flag remember deferred publishes. Opening or editing document B
  within 250 ms of document A leaves A without diagnostics until it is edited
  again, though the header of `tools/lsp.kod` promises to compile each open
  document.
* **A signal can deadlock `process.run`** (`process_signal`). With the profiler
  running, SIGPROF makes `poll` fail with EINTR; the loop ends with the pipes open
  and the parent waits for a child that waits for room in a pipe.
* **`process.kill` answers true for a process that is not a child** (`kill_doc`). The
  result of `waitpid` is ignored, so a stale id that now names another process of
  the same user is signalled and reported as a success.
* **The end of a TLS connection hides bytes** (`tls_drain`). When the close arrives
  with more decrypted bytes than one read may return, `kod_tls_read` returns the
  first of them and marks the stream as ended; the rest is never delivered, though
  its comment says the buffer is drained first.
* **Bytes behind a response over TLS are taken for the next response**
  (`http_unread`). `Link.idle` polls the socket, which is empty when the session has
  already decrypted the surplus. docs/http.md says a connection is kept only when
  the response left nothing unread. Over plain http the check works.
* **A TLS connection cut inside a record can end without an error** (`tls_cut`).
  `clean_eof` (tls.c:69) looks at one call of `read_cb`; header and body are asked for
  in two, and a body again after a wait that timed out. A cut right after a header, or
  after such a wait, is reported as the end of the stream, though the field's comment
  says "the peer closed between two records" and there is an error for a "connection
  closed in the middle of a record".
* **A deadline does not bound a request with a timeout of zero** (`http_deadline`).
  `wait_ms` gives a wait the time left only if that is less than the timeout; zero is
  never more, and means no limit. docs/http.md says that every read and write is
  given only what is left of the deadline.

Seen while modelling, without a run of their own: a document emptied by its last
edit keeps its old diagnostics through shutdown (the flush compiles non-empty
text only); the debounce may compile while later edits sit in stdio's buffer; an
HTTP call that fails after its response was read (bad gzip body, redirect limit)
leaves its connection, which is sound, in the pool although docs/http.md says it
is closed after any error; when the second `pipe()` of `kod_run_process` fails the
first pair of descriptors stays open (`FailedStartIsClean` allows exactly this);
`tls.connect` leaks its descriptor, and after the handshake its session, when
`set_timeout` fails (tls.kod:75, :82; `FdsAccounted` allows exactly this);
`tls.c:235` releases a
NULL context when it could not be made; a connection opened under one `trust_file`
serves requests that name another, because the pool's key is scheme, host and
port; a deadline can be overrun, since every address has its own connect timeout
and every read inside a TLS record has the whole wait again; `inflate.c:45` gives zlib the input's
length in 32 bits; the comment at runtime.c:142 calls the exit status the number of
failures, and it is 0 or 1; lines a test writes to stderr itself may come out
before earlier lines of stdout; writing a file ignores the result of `fclose`, so
a full disk may go unnoticed; 999,999 ns is printed as "1000 μs".

## 6. What is not modelled

The lexer, parser and most of the code generator (sequential translation without
state between calls; too large for a state model), JSON, checksums, encodings and
primitives (pure functions), time, environment, file system and backtraces (single
system calls), request writing and URL and header syntax, the import walk and
collections. Within the modelled parts: message layout and text, timing
beyond "a wait may end", modules a document imports (the language server's cache
is keyed by the document's text only), and what SecureTransport and zlib do beyond
the calls made of them.
