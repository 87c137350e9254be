------------------------------ MODULE LspServer ------------------------------
(***************************************************************************)
(* The Kod language server (tools/lsp.kod), the C state it keeps across    *)
(* arena resets (stdlib/runtime.c) and the arena itself (stdlib/arena.c),  *)
(* driven by an editor through a pipe.                                     *)
(*                                                                         *)
(* The server is one thread.  Its loop first decides whether to flush a    *)
(* deferred diagnostics publish (pc = "top": the debounce), then reads and *)
(* handles one message (pc = "read").  The editor writes into the pipe at  *)
(* any moment.  Between the pipe and the server sits the stdio buffer of   *)
(* stdin: read_message goes through it, stdin_data_ready polls the         *)
(* descriptor below it.                                                    *)
(*                                                                         *)
(* Data: a document text is a member of Text or Empty; what a compile      *)
(* yields is determined by (uri, text), so a codegen `cg` is that pair and *)
(* the diagnostics a client shows are the text they were computed from.    *)
(***************************************************************************)
EXTENDS Naturals, Sequences

CONSTANTS Uri,      \* document URIs
          Text,     \* non-empty document texts
          Empty,    \* the text of length 0
          NoDoc,    \* a document the server (or client) does not hold
          NoUri,    \* the empty active URI
          NoCg,     \* g_lsp_cached_cg == NULL; also the JSON null answer
          NoDiag,   \* the client shows no diagnostics for a document
          MaxMsgs   \* bound: messages the client sends

ASSUME LspConstants ==
  /\ Empty \notin Text /\ NoDoc \notin Text /\ NoDoc # Empty
  /\ NoUri \notin Uri
  /\ NoDiag \notin Text /\ NoDiag # Empty
  /\ NoCg \notin [uri : Uri, text : Text \cup {Empty}]
  /\ MaxMsgs \in Nat

AnyText == Text \cup {Empty}
Cg == [uri : Uri, text : AnyText]

\* Message kinds: the methods main dispatches on, those it treats alike merged.
\*   call    a request answered from the id alone (initialize, unknown method)
\*   noise   not JSON, or a notification main drops
\*   lookup  definition / hover: answers null unless the cursor is on a word
\* A query's text is not on the wire: it records what the client was showing
\* when it asked, for AnswersFresh.
DocMsg   == [kind : {"open", "change", "lookup", "completion"},
             uri : Uri, text : AnyText, id : Nat]
CloseMsg == [kind : {"close"}, uri : Uri, text : {NoDoc}, id : Nat]
BareMsg  == [kind : {"call", "noise", "shutdown", "exit"},
             uri : {NoUri}, text : {NoDoc}, id : Nat]
Msg == DocMsg \cup CloseMsg \cup BareMsg

VARIABLES
  \* the editor
  clientDoc,  \* text the client last sent for each document
  sent,       \* messages written so far; the next message's id
  ending,     \* the client has sent shutdown
  closed,     \* the client has closed the server's stdin
  \* between editor and server
  pipe,       \* bytes in the kernel: what poll sees
  buf,        \* bytes in stdio's buffer: what poll does not see
  \* g_lsp_* (runtime.c), outside the arena
  docs, active, pending, cache,
  \* compile results living in the arena (arena.c)
  arena,
  \* main's locals and control
  shutdown_received, pc, exit_code,
  \* what the server has written
  view,       \* per document, the text whose diagnostics were last published
  answers     \* responses, in order: [id, cg]

clientVars == <<clientDoc, sent, ending, closed>>
inVars     == <<pipe, buf>>
docVars    == <<docs, active>>
cacheVars  == <<cache, arena>>
ctlVars    == <<shutdown_received, exit_code>>
outVars    == <<view, answers>>
vars == <<clientVars, inVars, docVars, pending, cacheVars, ctlVars, pc, outVars>>

Init ==
  /\ clientDoc = [u \in Uri |-> NoDoc]
  /\ sent = 0 /\ ending = FALSE /\ closed = FALSE
  /\ pipe = <<>> /\ buf = <<>>
  /\ docs = [u \in Uri |-> NoDoc] /\ active = NoUri /\ pending = FALSE
  /\ cache = [cg |-> NoCg, uri |-> NoUri, text |-> Empty]
  /\ arena = {}
  /\ shutdown_received = FALSE /\ pc = "top" /\ exit_code = 0
  /\ view = [u \in Uri |-> NoDiag]
  /\ answers = <<>>

-----------------------------------------------------------------------------
(* The C side: documents, cache, arena.                                     *)

lsp_docs_get(u) == IF u \notin Uri \/ docs[u] = NoDoc THEN Empty ELSE docs[u]

lsp_docs_set(u, t) == docs' = [docs EXCEPT ![u] = t]

lsp_docs_remove(u) == docs' = [docs EXCEPT ![u] = NoDoc]

\* Mutant: the uri is not compared.
lsp_cache_lookup_any_uri(u, t) == cache.cg # NoCg /\ cache.text = t

lsp_cache_lookup(u, t) ==
  /\ cache.cg # NoCg
  /\ cache.uri = u
  /\ cache.text = t

\* Mutant: a handler resets the arena without invalidating the cache.
lsp_cache_invalidate_missing == UNCHANGED cache

\* lsp_cache_invalidate followed by arena_reset: the last two calls of every
\* document handler.  The cached uri and text outlive the reset, the cg does not.
lsp_cache_invalidate == cache' = [cache EXCEPT !.cg = NoCg]

arena_reset == arena' = {}

InvalidateAndReset == lsp_cache_invalidate /\ arena_reset

publish_raw(u, diags) == view' = [view EXCEPT ![u] = diags]

-----------------------------------------------------------------------------
(* compile_or_cached: the cg a caller gets, and the state it leaves.  Only a *)
(* miss publishes: a hit returns before the pending flag is looked at.       *)

CompiledCg(u) ==
  IF lsp_cache_lookup(u, lsp_docs_get(u)) THEN cache.cg
  ELSE [uri |-> u, text |-> lsp_docs_get(u)]

CacheHit(u) ==
  /\ lsp_cache_lookup(u, lsp_docs_get(u))
  /\ UNCHANGED <<cacheVars, pending, view>>

\* What a miss does to cache and arena.
StoreCompiled(u) ==
  /\ ~lsp_cache_lookup(u, lsp_docs_get(u))
  /\ LET t == lsp_docs_get(u)
         cg == [uri |-> u, text |-> t]
     IN  /\ arena' = arena \cup {cg}
         /\ cache' = [cg |-> cg, uri |-> u, text |-> t]

\* Mutant: a pending publish is taken to be for whatever is compiled next.
CacheMiss_any_pending(u) ==
  /\ StoreCompiled(u)
  /\ IF pending
     THEN publish_raw(u, lsp_docs_get(u)) /\ pending' = FALSE
     ELSE UNCHANGED <<pending, view>>

\* Mutant: publishes from the cache entry the compile replaces.
CacheMiss_old_entry(u) ==
  /\ StoreCompiled(u)
  /\ IF pending /\ active = u
     THEN publish_raw(u, cache.text) /\ pending' = FALSE
     ELSE UNCHANGED <<pending, view>>

\* Mutant: publishes and leaves the flag set.
CacheMiss_keeps_flag(u) ==
  /\ StoreCompiled(u)
  /\ IF pending /\ active = u THEN publish_raw(u, lsp_docs_get(u)) ELSE UNCHANGED view
  /\ UNCHANGED pending

CacheMiss(u) ==
  /\ StoreCompiled(u)
  /\ IF pending /\ active = u
     THEN publish_raw(u, lsp_docs_get(u)) /\ pending' = FALSE
     ELSE UNCHANGED <<pending, view>>

compile_or_cached(u) == CacheHit(u) \/ CacheMiss(u)

\* The deferred publish, as the debounce and the shutdown handler flush it.
FlushPending ==
  IF active # NoUri /\ lsp_docs_get(active) # Empty
  THEN compile_or_cached(active)
  ELSE pending' = FALSE /\ UNCHANGED <<cacheVars, view>>

-----------------------------------------------------------------------------
(* Top of main's loop: the debounce.                                         *)

DebounceSkip ==
  /\ pc = "top" /\ ~pending
  /\ pc' = "read"
  /\ UNCHANGED <<clientVars, inVars, docVars, pending, cacheVars, ctlVars, outVars>>

\* stdin_data_ready = 1: bytes in the pipe, or end of file.  (-1 would take the
\* same branch; poll on descriptor 0 fails only for a signal handler this
\* process never installs.)
DebounceReady ==
  /\ pc = "top" /\ pending
  /\ pipe # <<>> \/ closed
  /\ pc' = "read"
  /\ UNCHANGED <<clientVars, inVars, docVars, pending, cacheVars, ctlVars, outVars>>

\* stdin_data_ready = 0: 250 ms passed with the pipe empty and open.
DebounceTimeout ==
  /\ pc = "top" /\ pending
  /\ pipe = <<>> /\ ~closed
  /\ FlushPending
  /\ pc' = "read"
  /\ UNCHANGED <<clientVars, inVars, docVars, ctlVars, answers>>

-----------------------------------------------------------------------------
(* read_message and the dispatch.                                            *)

\* getchar/fread refill stdio's buffer with whatever the pipe holds.
FillBuffer ==
  /\ pc = "read" /\ buf = <<>> /\ pipe # <<>>
  /\ \E n \in 1..Len(pipe) :
        /\ buf' = SubSeq(pipe, 1, n)
        /\ pipe' = SubSeq(pipe, n + 1, Len(pipe))
  /\ UNCHANGED <<clientVars, docVars, pending, cacheVars, ctlVars, pc, outVars>>

\* read_message returns none: main returns 0.
ReadEof ==
  /\ pc = "read" /\ buf = <<>> /\ pipe = <<>> /\ closed
  /\ pc' = "done" /\ exit_code' = 0
  /\ UNCHANGED <<clientVars, inVars, docVars, pending, cacheVars,
                 shutdown_received, outVars>>

\* Take the next message off the buffer; a handled message leads back to the top.
Receive(kind) ==
  /\ pc = "read" /\ buf # <<>>
  /\ Head(buf).kind = kind
  /\ buf' = Tail(buf)
  /\ UNCHANGED <<clientVars, pipe>>

write_response(cg) == answers' = Append(answers, [id |-> Head(buf).id, cg |-> cg])

SetDocument(u, t) ==
  /\ lsp_docs_set(u, t)
  /\ active' = u
  /\ pending' = TRUE
  /\ InvalidateAndReset
  /\ pc' = "top"
  /\ UNCHANGED <<ctlVars, outVars>>

handle_did_open   == Receive("open")   /\ SetDocument(Head(buf).uri, Head(buf).text)

handle_did_change == Receive("change") /\ SetDocument(Head(buf).uri, Head(buf).text)

\* Mutant: the closed document's diagnostics are not withdrawn.
handle_did_close_silent ==
  /\ Receive("close")
  /\ lsp_docs_remove(Head(buf).uri)
  /\ IF active = Head(buf).uri
     THEN active' = NoUri /\ pending' = FALSE
     ELSE UNCHANGED <<active, pending>>
  /\ InvalidateAndReset
  /\ pc' = "top"
  /\ UNCHANGED <<ctlVars, outVars>>

handle_did_close ==
  /\ Receive("close")
  /\ LET u == Head(buf).uri
     IN  /\ lsp_docs_remove(u)
         /\ publish_raw(u, NoDiag)
         /\ IF active = u
            THEN active' = NoUri /\ pending' = FALSE
            ELSE UNCHANGED <<active, pending>>
  /\ InvalidateAndReset
  /\ pc' = "top"
  /\ UNCHANGED <<ctlVars, answers>>

\* A query about a document the server holds no text for, or with the cursor
\* on no word (definition and hover only), is answered without compiling.
AnswerWithoutCompile ==
  /\ write_response(NoCg)
  /\ UNCHANGED <<docVars, pending, cacheVars, view>>

AnswerFromCompile(u) ==
  /\ compile_or_cached(u)
  /\ write_response(CompiledCg(u))
  /\ UNCHANGED docVars

\* handle_definition and handle_hover.
handle_lookup ==
  /\ Receive("lookup")
  /\ \E onWord \in BOOLEAN :
        IF lsp_docs_get(Head(buf).uri) = Empty \/ ~onWord
        THEN AnswerWithoutCompile
        ELSE AnswerFromCompile(Head(buf).uri)
  /\ pc' = "top" /\ UNCHANGED ctlVars

handle_completion ==
  /\ Receive("completion")
  /\ IF lsp_docs_get(Head(buf).uri) = Empty
     THEN AnswerWithoutCompile
     ELSE AnswerFromCompile(Head(buf).uri)
  /\ pc' = "top" /\ UNCHANGED ctlVars

\* Mutant: an unknown request is dropped like an unknown notification.
handle_call_dropped ==
  /\ Receive("call")
  /\ pc' = "top"
  /\ UNCHANGED <<docVars, pending, cacheVars, ctlVars, outVars>>

\* initialize, and the MethodNotFound answer to an unknown request.
handle_call ==
  /\ Receive("call")
  /\ AnswerWithoutCompile
  /\ pc' = "top" /\ UNCHANGED ctlVars

handle_noise ==
  /\ Receive("noise")
  /\ pc' = "top"
  /\ UNCHANGED <<docVars, pending, cacheVars, ctlVars, outVars>>

handle_shutdown ==
  /\ Receive("shutdown")
  /\ IF pending THEN FlushPending ELSE UNCHANGED <<cacheVars, pending, view>>
  /\ shutdown_received' = TRUE
  /\ write_response(NoCg)
  /\ pc' = "top"
  /\ UNCHANGED <<docVars, exit_code>>

handle_exit ==
  /\ Receive("exit")
  /\ exit_code' = IF shutdown_received THEN 0 ELSE 1
  /\ pc' = "done"
  /\ UNCHANGED <<docVars, pending, cacheVars, shutdown_received, outVars>>

-----------------------------------------------------------------------------
(* The editor: a client that keeps the LSP document lifecycle (a document is *)
(* changed, closed and queried while open; after shutdown only exit follows).*)

Send(kind, u, t) ==
  /\ ~closed /\ sent < MaxMsgs
  /\ pipe' = Append(pipe, [kind |-> kind, uri |-> u, text |-> t, id |-> sent])
  /\ sent' = sent + 1
  /\ UNCHANGED <<closed, buf, docVars, pending, cacheVars, ctlVars, pc, outVars>>

ClientOpen ==
  /\ ~ending
  /\ \E u \in Uri, t \in AnyText :
        /\ clientDoc[u] = NoDoc
        /\ Send("open", u, t)
        /\ clientDoc' = [clientDoc EXCEPT ![u] = t]
  /\ UNCHANGED ending

ClientChange ==
  /\ ~ending
  /\ \E u \in Uri, t \in AnyText :
        /\ clientDoc[u] \notin {NoDoc, t}
        /\ Send("change", u, t)
        /\ clientDoc' = [clientDoc EXCEPT ![u] = t]
  /\ UNCHANGED ending

ClientClose ==
  /\ ~ending
  /\ \E u \in Uri :
        /\ clientDoc[u] # NoDoc
        /\ Send("close", u, NoDoc)
        /\ clientDoc' = [clientDoc EXCEPT ![u] = NoDoc]
  /\ UNCHANGED ending

ClientQuery ==
  /\ ~ending
  /\ \E k \in {"lookup", "completion"}, u \in Uri :
        clientDoc[u] # NoDoc /\ Send(k, u, clientDoc[u])
  /\ UNCHANGED <<clientDoc, ending>>

ClientOther ==
  /\ ~ending
  /\ \E k \in {"call", "noise"} : Send(k, NoUri, NoDoc)
  /\ UNCHANGED <<clientDoc, ending>>

ClientShutdown ==
  /\ ~ending
  /\ Send("shutdown", NoUri, NoDoc)
  /\ ending' = TRUE
  /\ UNCHANGED clientDoc

ClientExit ==
  /\ Send("exit", NoUri, NoDoc)
  /\ UNCHANGED <<clientDoc, ending>>

ClientEof ==
  /\ ~closed
  /\ closed' = TRUE
  /\ UNCHANGED <<clientDoc, sent, ending, inVars, docVars, pending, cacheVars,
                 ctlVars, pc, outVars>>

Exited == pc = "done" /\ closed /\ UNCHANGED vars

-----------------------------------------------------------------------------
Client == \/ ClientOpen \/ ClientChange \/ ClientClose \/ ClientQuery
          \/ ClientOther \/ ClientShutdown \/ ClientExit \/ ClientEof

Debounce == DebounceSkip \/ DebounceReady \/ DebounceTimeout

Handle == \/ handle_did_open \/ handle_did_change \/ handle_did_close
          \/ handle_lookup \/ handle_completion \/ handle_call \/ handle_noise
          \/ handle_shutdown \/ handle_exit

Server == Debounce \/ FillBuffer \/ ReadEof \/ Handle

Next == Client \/ Server \/ Exited

Spec == Init /\ [][Next]_vars

\* The server is a running process: it takes a step whenever it is not blocked
\* on input.  Nothing is assumed of the editor.
FairSpec == Spec /\ WF_vars(Server)

-----------------------------------------------------------------------------
(* Properties.                                                               *)

TypeOK ==
  /\ clientDoc \in [Uri -> AnyText \cup {NoDoc}]
  /\ sent \in Nat /\ ending \in BOOLEAN /\ closed \in BOOLEAN
  /\ pipe \in Seq(Msg) /\ buf \in Seq(Msg)
  /\ docs \in [Uri -> AnyText \cup {NoDoc}]
  /\ active \in Uri \cup {NoUri} /\ pending \in BOOLEAN
  /\ cache \in [cg : Cg \cup {NoCg}, uri : Uri \cup {NoUri}, text : AnyText]
  /\ arena \subseteq Cg
  /\ shutdown_received \in BOOLEAN
  /\ pc \in {"top", "read", "done"} /\ exit_code \in {0, 1}
  /\ view \in [Uri -> AnyText \cup {NoDiag}]
  /\ answers \in Seq([id : Nat, cg : Cg \cup {NoCg}])

\* The cached cg never dangles (it is in the arena, though every document
\* handler frees the arena) and is never out of date: it is the compile of the
\* text the server holds for its uri now, so any hit answers from that text.
CacheValid ==
  cache.cg # NoCg =>
    /\ cache.cg \in arena
    /\ cache.cg = [uri |-> cache.uri, text |-> cache.text]
    /\ cache.text = docs[cache.uri]

\* A compile of the active document while its publish is pending is never a
\* cache hit.  compile_or_cached publishes and clears the flag on a miss only,
\* and both the debounce and the shutdown handler rely on it to do so.
PendingNeverHits ==
  pending => active # NoUri /\ ~lsp_cache_lookup(active, lsp_docs_get(active))

\* Diagnostics of a closed document are gone and stay gone: didClose publishes
\* the empty list, and nothing still pending or cached brings them back.
ClosedDocsClear ==
  \A u \in Uri : docs[u] = NoDoc => view[u] = NoDiag

\* Once nothing is pending, the active document's diagnostics are those of its
\* present text (of a text that is not empty: the flush
\* of an emptied document only clears the flag, and its last publish stays).
ActiveShown ==
  ~pending /\ lsp_docs_get(active) # Empty => view[active] = docs[active]

\* When a lookup or completion is answered from a compile, the compile is of
\* the requested document at the text the editor showed when it sent the
\* request: edits before it are applied, edits behind it are not.
AnswersFresh ==
  [][ answers' # answers =>
        LET a == answers'[Len(answers')]
        IN  a.cg # NoCg => a.cg = [uri |-> Head(buf).uri, text |-> Head(buf).text] ]_vars

\* A publish is always of the text the server holds, or a withdrawal of the
\* diagnostics of a document that is being closed.
PublishIsCurrent ==
  [][ \A u \in Uri : view'[u] # view[u] =>
        \/ view'[u] = docs'[u]
        \/ view'[u] = NoDiag /\ docs'[u] = NoDoc ]_vars

\* A deferred publish is flushed, or the server ends: an editor that stops
\* typing sees diagnostics.
PendingFlushed == pending ~> (~pending \/ pc = "done")

\* Every request the editor writes is answered, unless the server ends.
Outstanding(id) ==
  \E m \in {pipe[i] : i \in 1..Len(pipe)} \cup {buf[i] : i \in 1..Len(buf)} :
     m.id = id /\ m.kind \in {"lookup", "completion", "call", "shutdown"}

RequestsAnswered ==
  \A id \in 0..(MaxMsgs - 1) :
     Outstanding(id) ~> \/ \E i \in 1..Len(answers) : answers[i].id = id
                        \/ pc = "done"

\* The active document is one the server holds: what makes a publish of it a
\* publish for an open document.
ActiveOpen == active # NoUri => docs[active] # NoDoc

\* The inductive invariant.
IInv == TypeOK /\ CacheValid /\ PendingNeverHits /\ ActiveOpen
               /\ ClosedDocsClear /\ ActiveShown

-----------------------------------------------------------------------------
(* What the comments say and the code does not do.                           *)

\* The server is idle: it waits for a message and owes no publish.
Idle == pc = "read" /\ buf = <<>> /\ pipe = <<>> /\ ~pending

\* lsp.kod's header: "compile each open document and republish the resulting
\* errors".  When idle, every open document shows diagnostics of its text.
EveryOpenDocShown ==
  Idle => \A u \in Uri : docs[u] \in Text => view[u] = docs[u]
=============================================================================
