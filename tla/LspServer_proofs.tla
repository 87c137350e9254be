-------------------------- MODULE LspServer_proofs --------------------------
(***************************************************************************)
(* The safety invariants of LspServer, for every set of documents, every   *)
(* set of texts and every number of messages.                              *)
(***************************************************************************)
EXTENDS LspServer, Integers, TLAPS

\* The first item and the rest.
LEMMA HeadTail ==
  ASSUME NEW S, NEW q \in Seq(S), q # <<>>
  PROVE  Head(q) \in S /\ Tail(q) \in Seq(S)
  OBVIOUS

\* A sequence cut in two.
LEMMA SplitSeq ==
  ASSUME NEW S, NEW q \in Seq(S), NEW n \in 1..Len(q)
  PROVE  SubSeq(q, 1, n) \in Seq(S) /\ SubSeq(q, n + 1, Len(q)) \in Seq(S)
  OBVIOUS

\* The text the server finds for a document, when it holds one.
LEMMA DocsGet ==
  ASSUME TypeOK, NEW u \in Uri
  PROVE  /\ lsp_docs_get(u) \in AnyText
         /\ docs[u] # NoDoc => lsp_docs_get(u) = docs[u]
         /\ lsp_docs_get(u) # Empty => docs[u] = lsp_docs_get(u) /\ docs[u] # NoDoc
  BY LspConstants DEF TypeOK, lsp_docs_get, AnyText

\* A server that has read nothing.
LEMMA InitInv == Init => IInv
<1> SUFFICES ASSUME Init PROVE IInv
  OBVIOUS
<1>1. TypeOK
  <2>1. /\ clientDoc \in [Uri -> AnyText \cup {NoDoc}]
        /\ docs \in [Uri -> AnyText \cup {NoDoc}]
        /\ view \in [Uri -> AnyText \cup {NoDiag}]
    BY DEF Init
  <2>2. cache \in [cg : Cg \cup {NoCg}, uri : Uri \cup {NoUri}, text : AnyText]
    BY DEF Init, AnyText
  <2>3. /\ pipe \in Seq(Msg) /\ buf \in Seq(Msg)
        /\ answers \in Seq([id : Nat, cg : Cg \cup {NoCg}])
    BY DEF Init
  <2> QED
    BY <2>1, <2>2, <2>3 DEF Init, TypeOK
<1>2. CacheValid /\ PendingNeverHits /\ ActiveOpen
  BY DEF Init, CacheValid, PendingNeverHits, ActiveOpen
<1>3. ClosedDocsClear /\ ActiveShown
  BY LspConstants DEF Init, ClosedDocsClear, ActiveShown, lsp_docs_get
<1> QED
  BY <1>1, <1>2, <1>3 DEF IInv

-----------------------------------------------------------------------------
(* Type correctness.                                                         *)

\* compile_or_cached leaves well-typed state and returns a compile result.
LEMMA CompileType ==
  ASSUME TypeOK, NEW u \in Uri, compile_or_cached(u)
  PROVE  /\ cache' \in [cg : Cg \cup {NoCg}, uri : Uri \cup {NoUri}, text : AnyText]
         /\ arena' \subseteq Cg
         /\ pending' \in BOOLEAN
         /\ view' \in [Uri -> AnyText \cup {NoDiag}]
         /\ CompiledCg(u) \in Cg \cup {NoCg}
<1> DEFINE t == lsp_docs_get(u)
           cg == [uri |-> u, text |-> t]
<1>1. t \in AnyText /\ cg \in Cg
  BY DocsGet DEF Cg
<1>2. CompiledCg(u) \in Cg \cup {NoCg}
  BY <1>1 DEF CompiledCg, TypeOK
<1>3. CASE CacheHit(u)
  BY <1>2, <1>3 DEF CacheHit, cacheVars, TypeOK
<1>4. CASE CacheMiss(u)
  <2>1. /\ cache' = [cg |-> cg, uri |-> u, text |-> t]
        /\ arena' = arena \cup {cg}
    BY <1>4 DEF CacheMiss, StoreCompiled
  <2>2. /\ pending' \in BOOLEAN
        /\ view' = view \/ view' = [view EXCEPT ![u] = t]
    BY <1>4 DEF CacheMiss, publish_raw, TypeOK
  <2>3. view' \in [Uri -> AnyText \cup {NoDiag}]
    BY <2>2, <1>1 DEF TypeOK
  <2> QED
    BY <1>1, <1>2, <2>1, <2>2, <2>3 DEF TypeOK
<1> QED
  BY <1>3, <1>4 DEF compile_or_cached

\* flush_pending keeps what it writes in its type.
LEMMA FlushType ==
  ASSUME TypeOK, FlushPending
  PROVE  /\ cache' \in [cg : Cg \cup {NoCg}, uri : Uri \cup {NoUri}, text : AnyText]
         /\ arena' \subseteq Cg
         /\ pending' \in BOOLEAN
         /\ view' \in [Uri -> AnyText \cup {NoDiag}]
<1>1. CASE active # NoUri /\ lsp_docs_get(active) # Empty
  BY <1>1, CompileType DEF FlushPending, TypeOK
<1>2. CASE ~(active # NoUri /\ lsp_docs_get(active) # Empty)
  BY <1>2 DEF FlushPending, cacheVars, TypeOK
<1> QED
  BY <1>1, <1>2

\* What taking a message off the buffer leaves.
Taken ==
  /\ buf' \in Seq(Msg) /\ pipe' = pipe
  /\ clientDoc' = clientDoc /\ sent' = sent /\ ending' = ending /\ closed' = closed
  /\ Head(buf) \in Msg /\ Head(buf).id \in Nat

\* A message taken from the buffer is one of the kind its handler is for.
LEMMA ReceiveType ==
  ASSUME TypeOK, NEW k, Receive(k)
  PROVE  Taken /\ Head(buf).kind = k
<1>1. Head(buf) \in Msg /\ buf' \in Seq(Msg) /\ Head(buf).kind = k
  BY HeadTail DEF Receive, TypeOK
<1>2. pipe' = pipe /\ UNCHANGED clientVars
  BY DEF Receive
<1>3. Head(buf).id \in Nat
  BY <1>1 DEF Msg, DocMsg, CloseMsg, BareMsg
<1> QED
  BY <1>1, <1>2, <1>3 DEF Taken, clientVars

\* A message about a document names it and has a text.
LEMMA DocMsgType ==
  ASSUME NEW m \in Msg, m.kind \in {"open", "change", "lookup", "completion"}
  PROVE  m.uri \in Uri /\ m.text \in AnyText
  BY DEF Msg, DocMsg, CloseMsg, BareMsg

\* didClose names a document.
LEMMA CloseMsgType ==
  ASSUME NEW m \in Msg, m.kind = "close"
  PROVE  m.uri \in Uri
  BY DEF Msg, DocMsg, CloseMsg, BareMsg

\* A response is an id and a compilation, or none.
LEMMA ResponseType ==
  ASSUME TypeOK, Head(buf).id \in Nat, NEW cg \in Cg \cup {NoCg}, write_response(cg)
  PROVE  answers' \in Seq([id : Nat, cg : Cg \cup {NoCg}])
<1>1. [id |-> Head(buf).id, cg |-> cg] \in [id : Nat, cg : Cg \cup {NoCg}]
  OBVIOUS
<1> QED
  BY <1>1 DEF write_response, TypeOK

\* What the editor sends keeps the types.
LEMMA SendType ==
  ASSUME TypeOK, NEW k, NEW u, NEW t, Send(k, u, t),
         [kind |-> k, uri |-> u, text |-> t, id |-> sent] \in Msg,
         clientDoc' \in [Uri -> AnyText \cup {NoDoc}], ending' \in BOOLEAN
  PROVE  TypeOK'
<1>1. pipe' \in Seq(Msg) /\ sent' \in Nat
  BY DEF Send, TypeOK
<1> QED
  BY <1>1 DEF Send, TypeOK, docVars, cacheVars, ctlVars, outVars

\* Every step of the editor keeps the type invariant.
LEMMA ClientType == TypeOK /\ Client => TypeOK'
<1> SUFFICES ASSUME TypeOK, Client PROVE TypeOK'
  OBVIOUS
<1> USE DEF Msg, DocMsg, CloseMsg, BareMsg
<1>0. sent \in Nat
  BY DEF TypeOK
<1>1. CASE ClientOpen \/ ClientChange
  <2> PICK u \in Uri, t \in AnyText, k \in {"open", "change"} :
         /\ Send(k, u, t)
         /\ clientDoc' = [clientDoc EXCEPT ![u] = t]
    BY <1>1 DEF ClientOpen, ClientChange
  <2>1. clientDoc' \in [Uri -> AnyText \cup {NoDoc}] /\ ending' \in BOOLEAN
    BY <1>1 DEF TypeOK, ClientOpen, ClientChange
  <2>2. [kind |-> k, uri |-> u, text |-> t, id |-> sent] \in Msg
    BY <1>0
  <2> QED
    BY <2>1, <2>2, SendType
<1>2. CASE ClientClose
  <2> PICK u \in Uri : Send("close", u, NoDoc) /\ clientDoc' = [clientDoc EXCEPT ![u] = NoDoc]
    BY <1>2 DEF ClientClose
  <2>1. clientDoc' \in [Uri -> AnyText \cup {NoDoc}] /\ ending' \in BOOLEAN
    BY <1>2 DEF TypeOK, ClientClose
  <2>2. [kind |-> "close", uri |-> u, text |-> NoDoc, id |-> sent] \in Msg
    BY <1>0
  <2> QED
    BY <2>1, <2>2, SendType
<1>3. CASE ClientQuery
  <2> PICK k \in {"lookup", "completion"}, u \in Uri :
         clientDoc[u] # NoDoc /\ Send(k, u, clientDoc[u])
    BY <1>3 DEF ClientQuery
  <2>1. clientDoc' \in [Uri -> AnyText \cup {NoDoc}] /\ ending' \in BOOLEAN
    BY <1>3 DEF TypeOK, ClientQuery
  <2>2. clientDoc[u] \in AnyText
    BY DEF TypeOK
  <2>3. [kind |-> k, uri |-> u, text |-> clientDoc[u], id |-> sent] \in Msg
    BY <1>0, <2>2
  <2> QED
    BY <2>1, <2>3, SendType
<1>4. CASE ClientOther \/ ClientShutdown \/ ClientExit
  <2> PICK k \in {"call", "noise", "shutdown", "exit"} : Send(k, NoUri, NoDoc)
    BY <1>4 DEF ClientOther, ClientShutdown, ClientExit
  <2>1. clientDoc' \in [Uri -> AnyText \cup {NoDoc}] /\ ending' \in BOOLEAN
    BY <1>4 DEF TypeOK, ClientOther, ClientShutdown, ClientExit
  <2>2. [kind |-> k, uri |-> NoUri, text |-> NoDoc, id |-> sent] \in Msg
    BY <1>0
  <2> QED
    BY <2>1, <2>2, SendType
<1>5. CASE ClientEof
  BY <1>5 DEF ClientEof, TypeOK, inVars, docVars, cacheVars, ctlVars, outVars
<1> QED
  BY <1>1, <1>2, <1>3, <1>4, <1>5 DEF Client

\* Dropping the cache and resetting the arena keep their types.
LEMMA ResetType ==
  ASSUME TypeOK, InvalidateAndReset
  PROVE  /\ cache' \in [cg : Cg \cup {NoCg}, uri : Uri \cup {NoUri}, text : AnyText]
         /\ arena' \subseteq Cg
  BY DEF TypeOK, InvalidateAndReset, lsp_cache_invalidate, arena_reset

\* Every handler keeps the type invariant.
LEMMA HandleType == TypeOK /\ Handle => TypeOK'
<1> SUFFICES ASSUME TypeOK, Handle PROVE TypeOK'
  OBVIOUS
<1> USE DEF clientVars, docVars, cacheVars, ctlVars, outVars
<1>1. CASE handle_did_open \/ handle_did_change
  <2>1. PICK k : Receive(k) /\ k \in {"open", "change"}
                 /\ SetDocument(Head(buf).uri, Head(buf).text)
    BY <1>1 DEF handle_did_open, handle_did_change
  <2>2. Taken /\ Head(buf).kind \in {"open", "change"}
    BY <2>1, ReceiveType
  <2>3. Head(buf).uri \in Uri /\ Head(buf).text \in AnyText
    BY <2>2, DocMsgType DEF Taken
  <2>4. docs' \in [Uri -> AnyText \cup {NoDoc}] /\ active' \in Uri
    BY <2>1, <2>3 DEF SetDocument, lsp_docs_set, TypeOK
  <2> QED
    BY <2>1, <2>2, <2>4, ResetType DEF SetDocument, TypeOK, Taken
<1>2. CASE handle_did_close
  <2>1. Receive("close") /\ InvalidateAndReset
    BY <1>2 DEF handle_did_close
  <2>2. Taken /\ Head(buf).uri \in Uri
    BY <2>1, ReceiveType, CloseMsgType DEF Taken
  <2>3. /\ docs' \in [Uri -> AnyText \cup {NoDoc}]
        /\ view' \in [Uri -> AnyText \cup {NoDiag}]
    BY <1>2, <2>2 DEF handle_did_close, lsp_docs_remove, publish_raw, TypeOK
  <2>4. active' \in Uri \cup {NoUri} /\ pending' \in BOOLEAN
    BY <1>2 DEF handle_did_close, TypeOK
  <2> QED
    BY <1>2, <2>1, <2>2, <2>3, <2>4, ResetType DEF handle_did_close, TypeOK, Taken
<1>3. ASSUME NEW k, Receive(k), AnswerWithoutCompile, pc' = "top", UNCHANGED ctlVars
      PROVE  TypeOK'
  <2>1. Taken
    BY <1>3, ReceiveType
  <2>2. answers' \in Seq([id : Nat, cg : Cg \cup {NoCg}])
    BY <1>3, <2>1, ResponseType DEF AnswerWithoutCompile, Taken
  <2> QED
    BY <1>3, <2>1, <2>2 DEF AnswerWithoutCompile, TypeOK, Taken
<1>4. ASSUME NEW k, k \in {"lookup", "completion"}, Receive(k),
             AnswerFromCompile(Head(buf).uri), pc' = "top", UNCHANGED ctlVars
      PROVE  TypeOK'
  <2>1. Taken /\ Head(buf).kind \in {"lookup", "completion"}
    BY <1>4, ReceiveType
  <2>2. Head(buf).uri \in Uri
    BY <2>1, DocMsgType DEF Taken
  <2>3. compile_or_cached(Head(buf).uri) /\ write_response(CompiledCg(Head(buf).uri))
    BY <1>4 DEF AnswerFromCompile
  <2>4. answers' \in Seq([id : Nat, cg : Cg \cup {NoCg}])
    BY <2>1, <2>2, <2>3, CompileType, ResponseType DEF Taken
  <2> QED
    BY <1>4, <2>1, <2>2, <2>3, <2>4, CompileType DEF AnswerFromCompile, TypeOK, Taken
<1>5. CASE handle_lookup
  <2>1. Receive("lookup") /\ pc' = "top" /\ UNCHANGED ctlVars
        /\ (AnswerWithoutCompile \/ AnswerFromCompile(Head(buf).uri))
    BY <1>5 DEF handle_lookup
  <2> QED
    BY <1>3, <1>4, <2>1
<1>6. CASE handle_completion
  <2>1. Receive("completion") /\ pc' = "top" /\ UNCHANGED ctlVars
        /\ (AnswerWithoutCompile \/ AnswerFromCompile(Head(buf).uri))
    BY <1>6 DEF handle_completion
  <2> QED
    BY <1>3, <1>4, <2>1
<1>7. CASE handle_call
  <2>1. Receive("call") /\ AnswerWithoutCompile /\ pc' = "top" /\ UNCHANGED ctlVars
    BY <1>7 DEF handle_call
  <2> QED
    BY <1>3, <2>1
<1>8. CASE handle_noise
  <2>1. Taken
    BY <1>8, ReceiveType DEF handle_noise
  <2> QED
    BY <1>8, <2>1 DEF handle_noise, TypeOK, Taken
<1>9. CASE handle_shutdown
  <2>1. Taken
    BY <1>9, ReceiveType DEF handle_shutdown
  <2>2. answers' \in Seq([id : Nat, cg : Cg \cup {NoCg}])
    BY <1>9, <2>1, ResponseType DEF handle_shutdown, Taken
  <2>3. CASE pending
    <3>1. FlushPending
      BY <1>9, <2>3 DEF handle_shutdown
    <3> QED
      BY <1>9, <2>1, <2>2, <3>1, FlushType DEF handle_shutdown, TypeOK, Taken
  <2>4. CASE ~pending
    BY <1>9, <2>1, <2>2, <2>4 DEF handle_shutdown, TypeOK, Taken
  <2> QED
    BY <2>3, <2>4
<1>10. CASE handle_exit
  <2>1. Taken
    BY <1>10, ReceiveType DEF handle_exit
  <2> QED
    BY <1>10, <2>1 DEF handle_exit, TypeOK, Taken
<1> QED
  BY <1>1, <1>2, <1>5, <1>6, <1>7, <1>8, <1>9, <1>10 DEF Handle

\* Every step keeps the type invariant.
LEMMA NextType == TypeOK /\ [Next]_vars => TypeOK'
<1> SUFFICES ASSUME TypeOK, [Next]_vars PROVE TypeOK'
  OBVIOUS
<1> USE DEF clientVars, inVars, docVars, cacheVars, ctlVars, outVars
<1>1. CASE Client
  BY <1>1, ClientType
<1>2. CASE Handle
  BY <1>2, HandleType
<1>3. CASE DebounceSkip \/ DebounceReady
  BY <1>3 DEF DebounceSkip, DebounceReady, TypeOK
<1>4. CASE DebounceTimeout
  BY <1>4, FlushType DEF DebounceTimeout, TypeOK
<1>5. CASE FillBuffer
  <2>1. pipe' \in Seq(Msg) /\ buf' \in Seq(Msg)
    BY <1>5, SplitSeq DEF FillBuffer, TypeOK
  <2> QED
    BY <1>5, <2>1 DEF FillBuffer, TypeOK
<1>6. CASE ReadEof
  BY <1>6 DEF ReadEof, TypeOK
<1>7. CASE UNCHANGED vars
  BY <1>7 DEF vars, TypeOK
<1> QED
  BY <1>1, <1>2, <1>3, <1>4, <1>5, <1>6, <1>7 DEF Next, Server, Debounce, Exited

\* Type correctness of the language server: every message kind, document table,
\* cache entry and answer keeps its shape through every handler.
THEOREM TypeCorrect == Spec => []TypeOK
<1>1. Init => TypeOK
  BY InitInv DEF IInv
<1> QED
  BY <1>1, NextType, PTL DEF Spec

-----------------------------------------------------------------------------
(* The document table, the cache and what the client shows.                  *)

Core == CacheValid /\ PendingNeverHits /\ ActiveOpen /\ ClosedDocsClear /\ ActiveShown

coreVars == <<docs, active, pending, cache, arena, view>>

\* Steps that leave the documents and the cache alone keep the invariant.
LEMMA CoreStutter == Core /\ UNCHANGED coreVars => Core'
  BY DEF Core, coreVars, CacheValid, PendingNeverHits, ActiveOpen, ClosedDocsClear,
     ActiveShown, lsp_cache_lookup, lsp_docs_get

\* A compile of a document with text: the cache takes its text, and if its
\* publish was pending the client now shows that text.
LEMMA CoreCompile ==
  ASSUME TypeOK, Core, NEW u \in Uri, lsp_docs_get(u) # Empty,
         compile_or_cached(u), UNCHANGED docVars
  PROVE  Core'
<1> DEFINE t == lsp_docs_get(u)
           cg == [uri |-> u, text |-> t]
<1>1. CASE CacheHit(u)
  BY <1>1, CoreStutter DEF CacheHit, cacheVars, docVars, coreVars
<1>2. CASE CacheMiss(u)
  <2>1. t = docs[u] /\ docs[u] # NoDoc /\ t \in AnyText
    BY DocsGet
  <2>2. docs' = docs /\ active' = active
    BY DEF docVars
  <2>3. cache' = [cg |-> cg, uri |-> u, text |-> t] /\ arena' = arena \cup {cg}
    BY <1>2 DEF CacheMiss, StoreCompiled
  <2>4. CacheValid'
    BY <2>1, <2>2, <2>3 DEF CacheValid
  <2>5. ActiveOpen'
    BY <2>2 DEF Core, ActiveOpen
  <2>6. CASE pending /\ active = u
    <3>1. view' = [view EXCEPT ![u] = t] /\ pending' = FALSE
      BY <1>2, <2>6 DEF CacheMiss, publish_raw
    <3>2. PendingNeverHits'
      BY <3>1 DEF PendingNeverHits
    <3>3. ClosedDocsClear'
      BY <2>1, <2>2, <3>1 DEF Core, ClosedDocsClear, TypeOK
    <3>4. ActiveShown'
      BY <2>1, <2>2, <2>6, <3>1 DEF ActiveShown, TypeOK
    <3> QED
      BY <2>4, <2>5, <3>2, <3>3, <3>4 DEF Core
  <2>7. CASE ~(pending /\ active = u)
    <3>1. view' = view /\ pending' = pending
      BY <1>2, <2>7 DEF CacheMiss
    <3>2. PendingNeverHits'
      BY <2>2, <2>3, <2>7, <3>1 DEF Core, PendingNeverHits, lsp_cache_lookup
    <3>3. ClosedDocsClear' /\ ActiveShown'
      BY <2>2, <3>1 DEF Core, ClosedDocsClear, ActiveShown, lsp_docs_get
    <3> QED
      BY <2>4, <2>5, <3>2, <3>3 DEF Core
  <2> QED
    BY <2>6, <2>7
<1> QED
  BY <1>1, <1>2 DEF compile_or_cached

\* flush_pending keeps it: it publishes what is in the cache.
LEMMA CoreFlush ==
  ASSUME TypeOK, Core, FlushPending, UNCHANGED docVars
  PROVE  Core'
<1>1. CASE active # NoUri /\ lsp_docs_get(active) # Empty
  <2>1. active \in Uri /\ compile_or_cached(active)
    BY <1>1 DEF TypeOK, FlushPending
  <2> QED
    BY <1>1, <2>1, CoreCompile
<1>2. CASE ~(active # NoUri /\ lsp_docs_get(active) # Empty)
  <2>1. pending' = FALSE /\ UNCHANGED <<docs, active, cache, arena, view>>
    BY <1>2 DEF FlushPending, cacheVars, docVars
  <2>2. lsp_docs_get(active) = Empty
    BY <1>2, LspConstants DEF lsp_docs_get
  <2>3. CacheValid' /\ PendingNeverHits' /\ ActiveOpen' /\ ClosedDocsClear'
    BY <2>1 DEF Core, CacheValid, PendingNeverHits, ActiveOpen, ClosedDocsClear
  <2>4. ActiveShown'
    BY <2>1, <2>2 DEF ActiveShown, lsp_docs_get
  <2> QED
    BY <2>3, <2>4 DEF Core
<1> QED
  BY <1>1, <1>2

\* didOpen and didChange keep it: they drop the cache.
LEMMA CoreSetDocument ==
  ASSUME TypeOK, Core, NEW u \in Uri, NEW t \in AnyText, SetDocument(u, t)
  PROVE  Core'
<1>1. /\ docs' = [docs EXCEPT ![u] = t] /\ active' = u /\ pending' = TRUE
      /\ cache'.cg = NoCg /\ view' = view
  BY DEF SetDocument, lsp_docs_set, InvalidateAndReset, lsp_cache_invalidate, outVars, TypeOK
<1>2. u # NoUri /\ t # NoDoc
  BY LspConstants DEF AnyText
<1>3. CacheValid' /\ PendingNeverHits' /\ ActiveShown'
  BY <1>1, <1>2 DEF CacheValid, PendingNeverHits, ActiveShown, lsp_cache_lookup
<1>4. ActiveOpen' /\ ClosedDocsClear'
  BY <1>1, <1>2 DEF Core, ActiveOpen, ClosedDocsClear, TypeOK
<1> QED
  BY <1>3, <1>4 DEF Core

\* didClose keeps it, whichever document was active.
LEMMA CoreClose == TypeOK /\ Core /\ handle_did_close => Core'
<1> SUFFICES ASSUME TypeOK, Core, handle_did_close PROVE Core'
  OBVIOUS
<1> DEFINE u == Head(buf).uri
<1>0. u \in Uri
  BY ReceiveType, CloseMsgType DEF handle_did_close, Taken
<1>1. /\ docs' = [docs EXCEPT ![u] = NoDoc]
      /\ view' = [view EXCEPT ![u] = NoDiag]
      /\ cache'.cg = NoCg
  BY DEF handle_did_close, lsp_docs_remove, publish_raw, InvalidateAndReset,
     lsp_cache_invalidate, TypeOK
<1>2. CacheValid'
  BY <1>1 DEF CacheValid
<1>3. ClosedDocsClear'
  BY <1>0, <1>1 DEF Core, ClosedDocsClear, TypeOK
<1>4. CASE active = u
  <2>1. active' = NoUri /\ pending' = FALSE
    BY <1>4 DEF handle_did_close
  <2>2. PendingNeverHits' /\ ActiveOpen' /\ ActiveShown'
    BY <2>1, LspConstants DEF PendingNeverHits, ActiveOpen, ActiveShown, lsp_docs_get
  <2> QED
    BY <1>2, <1>3, <2>2 DEF Core
<1>5. CASE active # u
  <2>1. active' = active /\ pending' = pending
    BY <1>5 DEF handle_did_close
  <2>2. active \in Uri => docs'[active] = docs[active] /\ view'[active] = view[active]
    BY <1>0, <1>1, <1>5 DEF TypeOK
  <2>3. PendingNeverHits'
    BY <1>1, <2>1 DEF Core, PendingNeverHits, lsp_cache_lookup
  <2>4. ActiveOpen'
    BY <2>1, <2>2 DEF Core, ActiveOpen, TypeOK
  <2>5. ActiveShown'
    BY <2>1, <2>2, LspConstants DEF Core, ActiveShown, lsp_docs_get, TypeOK
  <2> QED
    BY <1>2, <1>3, <2>3, <2>4, <2>5 DEF Core
<1> QED
  BY <1>4, <1>5

\* Every step keeps it.
LEMMA CoreStep == TypeOK /\ Core /\ [Next]_vars => Core'
<1> SUFFICES ASSUME TypeOK, Core, [Next]_vars PROVE Core'
  OBVIOUS
<1> USE DEF docVars, cacheVars, outVars
<1>1. CASE Client
  <2>1. UNCHANGED coreVars
    BY <1>1 DEF Client, ClientOpen, ClientChange, ClientClose, ClientQuery, ClientOther,
       ClientShutdown, ClientExit, ClientEof, Send, coreVars
  <2> QED
    BY <2>1, CoreStutter
<1>2. CASE handle_did_open \/ handle_did_change
  <2>1. PICK k : Receive(k) /\ k \in {"open", "change"}
                 /\ SetDocument(Head(buf).uri, Head(buf).text)
    BY <1>2 DEF handle_did_open, handle_did_change
  <2>2. Head(buf).uri \in Uri /\ Head(buf).text \in AnyText
    BY <2>1, ReceiveType, DocMsgType DEF Taken
  <2> QED
    BY <2>1, <2>2, CoreSetDocument
<1>3. CASE handle_did_close
  BY <1>3, CoreClose
<1>4. CASE handle_lookup \/ handle_completion
  <2>1. PICK k : Receive(k) /\ k \in {"lookup", "completion"}
                 /\ \/ AnswerWithoutCompile
                    \/ lsp_docs_get(Head(buf).uri) # Empty /\ AnswerFromCompile(Head(buf).uri)
    BY <1>4 DEF handle_lookup, handle_completion
  <2>2. Head(buf).uri \in Uri
    BY <2>1, ReceiveType, DocMsgType DEF Taken
  <2>3. CASE AnswerWithoutCompile
    BY <2>3, CoreStutter DEF AnswerWithoutCompile, coreVars
  <2>4. CASE lsp_docs_get(Head(buf).uri) # Empty /\ AnswerFromCompile(Head(buf).uri)
    BY <2>2, <2>4, CoreCompile DEF AnswerFromCompile
  <2> QED
    BY <2>1, <2>3, <2>4
<1>5. CASE handle_call \/ handle_noise \/ handle_exit
  BY <1>5, CoreStutter DEF handle_call, handle_noise, handle_exit, AnswerWithoutCompile, coreVars
<1>6. CASE handle_shutdown
  <2>1. CASE pending
    BY <1>6, <2>1, CoreFlush DEF handle_shutdown
  <2>2. CASE ~pending
    BY <1>6, <2>2, CoreStutter DEF handle_shutdown, coreVars
  <2> QED
    BY <2>1, <2>2
<1>7. CASE DebounceTimeout
  BY <1>7, CoreFlush DEF DebounceTimeout
<1>8. CASE DebounceSkip \/ DebounceReady \/ FillBuffer \/ ReadEof
  BY <1>8, CoreStutter DEF DebounceSkip, DebounceReady, FillBuffer, ReadEof, coreVars
<1>9. CASE UNCHANGED vars
  BY <1>9, CoreStutter DEF vars, coreVars
<1> QED
  BY <1>1, <1>2, <1>3, <1>4, <1>5, <1>6, <1>7, <1>8, <1>9
     DEF Next, Server, Debounce, Handle, Exited

\* The inductive invariant holds in every reachable state.
THEOREM Invariant == Spec => []IInv
<1>1. Init => IInv
  BY InitInv
<1>2. IInv /\ [Next]_vars => IInv'
  BY NextType, CoreStep DEF IInv, Core
<1> QED
  BY <1>1, <1>2, PTL DEF Spec

\* The cached compile result never dangles after an arena_reset and is always
\* the compile of the text the server holds now (lsp_cache_lookup's contract).
THEOREM CacheAlwaysValid == Spec => []CacheValid
<1>1. IInv => CacheValid
  BY DEF IInv
<1> QED
  BY <1>1, Invariant, PTL

\* Whenever a publish is pending, compile_or_cached of the active document is a
\* miss, so the debounce and the shutdown handler do flush it.
THEOREM PendingIsFlushedByCompile == Spec => []PendingNeverHits
<1>1. IInv => PendingNeverHits
  BY DEF IInv
<1> QED
  BY <1>1, Invariant, PTL

\* No publish ever brings back the diagnostics of a document that was closed.
THEOREM ClosedStayClear == Spec => []ClosedDocsClear
<1>1. IInv => ClosedDocsClear
  BY DEF IInv
<1> QED
  BY <1>1, Invariant, PTL

\* With nothing pending, the active document shows the diagnostics of its text.
THEOREM ActiveIsShown == Spec => []ActiveShown
<1>1. IInv => ActiveShown
  BY DEF IInv
<1> QED
  BY <1>1, Invariant, PTL

-----------------------------------------------------------------------------
(* What a step publishes.                                                    *)

\* A compile publishes the text the server holds, or nothing.
LEMMA CompilePublishes ==
  ASSUME IInv, NEW u \in Uri, compile_or_cached(u)
  PROVE  view' = view \/ (docs[u] # NoDoc /\ view' = [view EXCEPT ![u] = docs[u]])
<1>1. CASE CacheHit(u)
  BY <1>1 DEF CacheHit
<1>2. CASE CacheMiss(u)
  <2>1. CASE pending /\ active = u
    <3>1. docs[u] # NoDoc /\ active # NoUri
      BY <2>1, LspConstants DEF IInv, ActiveOpen
    <3>2. lsp_docs_get(u) = docs[u]
      BY <3>1, DocsGet DEF IInv
    <3> QED
      BY <1>2, <2>1, <3>1, <3>2 DEF CacheMiss, publish_raw
  <2>2. CASE ~(pending /\ active = u)
    BY <1>2, <2>2 DEF CacheMiss
  <2> QED
    BY <2>1, <2>2
<1> QED
  BY <1>1, <1>2 DEF compile_or_cached

\* So does the flush of a deferred publish.
LEMMA FlushPublishes ==
  ASSUME IInv, FlushPending
  PROVE  \/ view' = view
         \/ \E u \in Uri : docs[u] # NoDoc /\ view' = [view EXCEPT ![u] = docs[u]]
<1>1. CASE active # NoUri /\ lsp_docs_get(active) # Empty
  <2>1. active \in Uri
    BY <1>1 DEF IInv, TypeOK
  <2> QED
    BY <1>1, <2>1, CompilePublishes DEF FlushPending
<1>2. CASE ~(active # NoUri /\ lsp_docs_get(active) # Empty)
  BY <1>2 DEF FlushPending
<1> QED
  BY <1>1, <1>2

Publishes ==
  \/ view' = view
  \/ \E u \in Uri : view' = [view EXCEPT ![u] = docs[u]] /\ docs' = docs
  \/ \E u \in Uri : view' = [view EXCEPT ![u] = NoDiag] /\ docs' = [docs EXCEPT ![u] = NoDoc]

\* Every step publishes the text of one document the server holds, withdraws the
\* diagnostics of one it closes, or leaves what the editor shows alone.
LEMMA StepPublishes == IInv /\ [Next]_vars => Publishes
<1> SUFFICES ASSUME IInv, [Next]_vars PROVE Publishes
  OBVIOUS
<1> USE DEF Publishes, docVars, outVars, cacheVars
<1>0. TypeOK
  BY DEF IInv
<1>1. CASE Client
  BY <1>1 DEF Client, ClientOpen, ClientChange, ClientClose, ClientQuery, ClientOther,
              ClientShutdown, ClientExit, ClientEof, Send
<1>2. CASE handle_did_open \/ handle_did_change
  BY <1>2 DEF handle_did_open, handle_did_change, SetDocument
<1>3. CASE handle_did_close
  <2>1. Head(buf).uri \in Uri
    BY <1>0, <1>3, ReceiveType, CloseMsgType DEF handle_did_close, Taken
  <2> QED
    BY <1>3, <2>1 DEF handle_did_close, lsp_docs_remove, publish_raw
<1>4. CASE handle_lookup \/ handle_completion
  <2>1. PICK k : Receive(k) /\ k \in {"lookup", "completion"}
                 /\ (AnswerWithoutCompile \/ AnswerFromCompile(Head(buf).uri))
    BY <1>4 DEF handle_lookup, handle_completion
  <2>2. Head(buf).uri \in Uri
    BY <1>0, <2>1, ReceiveType, DocMsgType DEF Taken
  <2>3. CASE AnswerWithoutCompile
    BY <2>3 DEF AnswerWithoutCompile
  <2>4. CASE AnswerFromCompile(Head(buf).uri)
    BY <2>2, <2>4, CompilePublishes DEF AnswerFromCompile
  <2> QED
    BY <2>1, <2>3, <2>4
<1>5. CASE handle_call \/ handle_noise \/ handle_exit
  BY <1>5 DEF handle_call, handle_noise, handle_exit, AnswerWithoutCompile
<1>6. CASE handle_shutdown
  BY <1>6, FlushPublishes DEF handle_shutdown
<1>7. CASE DebounceTimeout
  BY <1>7, FlushPublishes DEF DebounceTimeout
<1>8. CASE DebounceSkip \/ DebounceReady \/ FillBuffer \/ ReadEof
  BY <1>8 DEF DebounceSkip, DebounceReady, FillBuffer, ReadEof
<1>9. CASE UNCHANGED vars
  BY <1>9 DEF vars
<1> QED
  BY <1>1, <1>2, <1>3, <1>4, <1>5, <1>6, <1>7, <1>8, <1>9
     DEF Next, Server, Debounce, Handle, Exited

\* publish_raw is only ever called with the text the server holds at that moment, or
\* with the empty list for a document that is being closed.
THEOREM PublishesCurrent == Spec => PublishIsCurrent
<1> DEFINE P == \A u \in Uri : view'[u] # view[u] =>
                   \/ view'[u] = docs'[u]
                   \/ view'[u] = NoDiag /\ docs'[u] = NoDoc
<1>1. IInv /\ [Next]_vars => P
  <2> SUFFICES ASSUME IInv, [Next]_vars, NEW u \in Uri, view'[u] # view[u]
               PROVE  view'[u] = docs'[u] \/ (view'[u] = NoDiag /\ docs'[u] = NoDoc)
    OBVIOUS
  <2>1. Publishes
    BY StepPublishes
  <2>2. view \in [Uri -> AnyText \cup {NoDiag}] /\ docs \in [Uri -> AnyText \cup {NoDoc}]
    BY DEF IInv, TypeOK
  <2> QED
    BY <2>1, <2>2 DEF Publishes
<1>2. IInv /\ [Next]_vars => [P]_vars
  BY <1>1
<1> QED
  BY <1>2, Invariant, PTL DEF Spec, PublishIsCurrent

-----------------------------------------------------------------------------
(* Answers and the order of messages.                                        *)

(* The text of document u once the first n messages of q have been handled   *)
(* by a server that holds d.                                                 *)
Touches(m, u) == m.kind \in {"open", "change", "close"} /\ m.uri = u

After(d, q, n, u, t) ==
  \/ \E j \in 1..n : /\ Touches(q[j], u) /\ q[j].text = t
                     /\ \A k \in 1..n : k > j => ~Touches(q[k], u)
  \/ (\A k \in 1..n : ~Touches(q[k], u)) /\ d[u] = t

(* What is on its way to the server leads from the documents it holds to     *)
(* those of the editor, and each query travels behind the edits it was made  *)
(* after and before those that follow it.                                    *)
Queue == buf \o pipe
IsQuery(m) == m.kind \in {"lookup", "completion"}

Ordered(d, q) ==
  \A i \in 1..Len(q) : IsQuery(q[i]) => After(d, q, i - 1, q[i].uri, q[i].text)

InStep ==
  /\ \A u \in Uri : After(docs, Queue, Len(Queue), u, clientDoc[u])
  /\ Ordered(docs, Queue)

\* Handling the first message shortens the way and leads to the same place.
LEMMA AfterTail ==
  ASSUME NEW q \in Seq(Msg), q # <<>>, NEW n \in 1..Len(q), NEW u, NEW t, NEW d, NEW e,
         Touches(Head(q), u) => e[u] = Head(q).text,
         ~Touches(Head(q), u) => e[u] = d[u],
         After(d, q, n, u, t)
  PROVE  After(e, Tail(q), n - 1, u, t)
<1>1. /\ Len(q) \in Nat /\ n \in Nat /\ n >= 1 /\ Len(Tail(q)) = Len(q) - 1 /\ Head(q) = q[1]
      /\ \A i \in 1..(Len(q) - 1) : Tail(q)[i] = q[i + 1]
  OBVIOUS
<1>2. \A i \in 1..(n - 1) : Tail(q)[i] = q[i + 1] /\ i + 1 \in 1..n /\ i + 1 > 1 /\ i \in Int
  BY <1>1
<1>3. \A i \in 1..n : i = 1 \/ (i - 1 \in 1..(n - 1) /\ Tail(q)[i - 1] = q[i])
  BY <1>1
<1>4. 1 \in 1..n
  BY <1>1
<1>5. ASSUME NEW j \in 1..n, Touches(q[j], u), q[j].text = t,
             \A k \in 1..n : k > j => ~Touches(q[k], u)
      PROVE  After(e, Tail(q), n - 1, u, t)
  <2>1. CASE j = 1
    <3>1. e[u] = t
      BY <1>1, <1>5, <2>1
    <3>2. \A k \in 1..(n - 1) : ~Touches(Tail(q)[k], u)
      BY <1>2, <1>5, <2>1
    <3> QED
      BY <3>1, <3>2 DEF After
  <2>2. CASE j # 1
    <3>1. j - 1 \in 1..(n - 1) /\ Tail(q)[j - 1] = q[j]
      BY <1>3, <2>2
    <3>2. \A k \in 1..(n - 1) : k > j - 1 => ~Touches(Tail(q)[k], u)
      <4> SUFFICES ASSUME NEW k \in 1..(n - 1), k > j - 1 PROVE ~Touches(Tail(q)[k], u)
        OBVIOUS
      <4>1. k + 1 \in 1..n /\ k + 1 > j /\ Tail(q)[k] = q[k + 1]
        BY <1>1, <1>2
      <4> QED
        BY <1>5, <4>1
    <3>3. Touches(Tail(q)[j - 1], u) /\ Tail(q)[j - 1].text = t
      BY <1>5, <3>1
    <3> QED
      BY <3>1, <3>2, <3>3, Zenon DEF After
  <2> QED
    BY <2>1, <2>2
<1>6. ASSUME \A k \in 1..n : ~Touches(q[k], u), d[u] = t
      PROVE  After(e, Tail(q), n - 1, u, t)
  <2>1. e[u] = t
    BY <1>1, <1>4, <1>6
  <2>2. \A k \in 1..(n - 1) : ~Touches(Tail(q)[k], u)
    BY <1>2, <1>6
  <2> QED
    BY <2>1, <2>2 DEF After
<1> QED
  BY <1>5, <1>6 DEF After

\* A message sent now changes nothing for those before it.
LEMMA AfterAppend ==
  ASSUME NEW q \in Seq(Msg), NEW m \in Msg, NEW u, NEW t, NEW d
  PROVE  /\ \A n \in 0..Len(q) : After(d, q, n, u, t) => After(d, Append(q, m), n, u, t)
         /\ ~Touches(m, u) /\ After(d, q, Len(q), u, t) => After(d, Append(q, m), Len(q) + 1, u, t)
         /\ Touches(m, u) => After(d, Append(q, m), Len(q) + 1, u, m.text)
<1> DEFINE p == Append(q, m)
           N == Len(q)
<1>1. N \in Nat /\ p[N + 1] = m /\ \A i \in 1..N : p[i] = q[i]
  OBVIOUS
<1>2. /\ \A n \in 0..N : \A i \in 1..n : p[i] = q[i]
      /\ \A i \in 1..(N + 1) : i \in 1..N \/ i = N + 1
      /\ N \in 0..N /\ N + 1 \in 1..(N + 1)
      /\ \A i \in 1..N : i \in 1..(N + 1) /\ N + 1 > i
      /\ \A i \in 1..(N + 1) : ~(i > N + 1)
  BY <1>1
<1> HIDE DEF p, N
<1>3. \A n \in 0..N : After(d, q, n, u, t) => After(d, p, n, u, t)
  BY <1>2, Zenon DEF After
<1>4. ASSUME ~Touches(m, u), After(d, p, N, u, t) PROVE After(d, p, N + 1, u, t)
  <2>1. ASSUME NEW j \in 1..N, Touches(p[j], u), p[j].text = t,
               \A k \in 1..N : k > j => ~Touches(p[k], u)
        PROVE  After(d, p, N + 1, u, t)
    <3>1. \A k \in 1..(N + 1) : k > j => ~Touches(p[k], u)
      BY <1>1, <1>2, <1>4, <2>1, Zenon
    <3> QED
      BY <1>2, <2>1, <3>1, Zenon DEF After
  <2>2. ASSUME \A k \in 1..N : ~Touches(p[k], u), d[u] = t
        PROVE  After(d, p, N + 1, u, t)
    <3>1. \A k \in 1..(N + 1) : ~Touches(p[k], u)
      BY <1>1, <1>2, <1>4, <2>2, Zenon
    <3> QED
      BY <2>2, <3>1, Zenon DEF After
  <2> QED
    BY <1>4, <2>1, <2>2, Zenon DEF After
<1>5. Touches(m, u) => After(d, p, N + 1, u, m.text)
  BY <1>1, <1>2, Zenon DEF After
<1> QED
  BY <1>2, <1>3, <1>4, <1>5, Zenon DEF p, N

\* Both buffers seen as one queue.
LEMMA JoinedSeqs ==
  ASSUME NEW S, NEW a \in Seq(S), NEW b \in Seq(S)
  PROVE  /\ a \o b \in Seq(S)
         /\ a # <<>> => a \o b # <<>> /\ Head(a \o b) = Head(a) /\ Tail(a \o b) = Tail(a) \o b
         /\ \A m \in S : a \o Append(b, m) = Append(a \o b, m)
         /\ a = <<>> => a \o b = b
  OBVIOUS

\* A sequence cut in two is still the same.
LEMMA JoinSplit ==
  ASSUME NEW S, NEW b \in Seq(S), NEW n \in 1..Len(b)
  PROVE  SubSeq(b, 1, n) \o SubSeq(b, n + 1, Len(b)) = b
  OBVIOUS

\* The editor sends a message.
LEMMA SendInStep ==
  ASSUME TypeOK, InStep, NEW m \in Msg, pipe' = Append(pipe, m), buf' = buf, docs' = docs,
         IsQuery(m) => m.uri \in Uri /\ m.text = clientDoc[m.uri],
         \A u \in Uri : clientDoc'[u] = IF Touches(m, u) THEN m.text ELSE clientDoc[u]
  PROVE  InStep'
<1>1. Queue \in Seq(Msg) /\ Queue' = Append(Queue, m)
  BY JoinedSeqs DEF Queue, TypeOK
<1> DEFINE q == Queue
<1>2. /\ Len(q) \in Nat /\ Len(Append(q, m)) = Len(q) + 1 /\ Append(q, m)[Len(q) + 1] = m
      /\ \A i \in 1..Len(q) : Append(q, m)[i] = q[i] /\ i - 1 \in 0..Len(q)
      /\ \A i \in 1..(Len(q) + 1) : i \in 1..Len(q) \/ i = Len(q) + 1
      /\ (Len(q) + 1) - 1 = Len(q) /\ Len(q) \in 0..Len(q)
  BY <1>1
<1>3. \A u \in Uri : After(docs, Append(q, m), Len(q) + 1, u, clientDoc'[u])
  <2> SUFFICES ASSUME NEW u \in Uri PROVE After(docs, Append(q, m), Len(q) + 1, u, clientDoc'[u])
    OBVIOUS
  <2>1. After(docs, q, Len(q), u, clientDoc[u])
    BY DEF InStep
  <2>2. CASE Touches(m, u)
    BY <1>1, <2>2, AfterAppend
  <2>3. CASE ~Touches(m, u)
    BY <1>1, <2>1, <2>3, AfterAppend
  <2> QED
    BY <2>2, <2>3
<1>4. Ordered(docs, Append(q, m))
  <2> SUFFICES ASSUME NEW i \in 1..(Len(q) + 1), IsQuery(Append(q, m)[i])
               PROVE  After(docs, Append(q, m), i - 1, Append(q, m)[i].uri, Append(q, m)[i].text)
    BY <1>2 DEF Ordered
  <2>1. CASE i \in 1..Len(q)
    <3>1. After(docs, q, i - 1, q[i].uri, q[i].text)
      BY <1>2, <2>1 DEF InStep, Ordered
    <3>2. After(docs, Append(q, m), i - 1, q[i].uri, q[i].text)
      BY <1>1, <1>2, <2>1, <3>1, AfterAppend
    <3> QED
      BY <1>2, <2>1, <3>2
  <2>2. CASE i = Len(q) + 1
    <3>1. m.uri \in Uri /\ m.text = clientDoc[m.uri]
      BY <1>2, <2>2
    <3>2. After(docs, q, Len(q), m.uri, m.text)
      BY <3>1 DEF InStep
    <3>3. After(docs, Append(q, m), Len(q), m.uri, m.text)
      BY <1>1, <1>2, <3>2, AfterAppend
    <3> QED
      BY <1>2, <2>2, <3>3
  <2> QED
    BY <1>2, <2>1, <2>2
<1> QED
  BY <1>1, <1>2, <1>3, <1>4 DEF InStep

\* The server handles the first message.
LEMMA ReceiveInStep ==
  ASSUME TypeOK, InStep, buf # <<>>, buf' = Tail(buf), pipe' = pipe, clientDoc' = clientDoc,
         \A u \in Uri : docs'[u] = IF Touches(Head(buf), u) THEN Head(buf).text ELSE docs[u]
  PROVE  InStep'
<1>1. Queue \in Seq(Msg) /\ Queue # <<>> /\ Head(Queue) = Head(buf) /\ Queue' = Tail(Queue)
  <2>1. PICK b \in Seq(Msg) : b = buf
    BY DEF TypeOK
  <2>2. PICK p \in Seq(Msg) : p = pipe
    BY DEF TypeOK
  <2>3. b \o p \in Seq(Msg) /\ b \o p # <<>> /\ Head(b \o p) = Head(b) /\ Tail(b \o p) = Tail(b) \o p
    <3>1. b # <<>>
      BY <2>1
    <3> QED
      BY <3>1, JoinedSeqs
  <2> QED
    BY <2>1, <2>2, <2>3 DEF Queue
<1> DEFINE q == Queue
<1>2. /\ Len(q) \in Nat /\ Len(q) >= 1 /\ Len(Tail(q)) = Len(q) - 1 /\ Tail(q) \in Seq(Msg)
      /\ \A i \in 1..(Len(q) - 1) : Tail(q)[i] = q[i + 1] /\ i + 1 \in 1..Len(q)
                                     /\ i \in 1..Len(q) /\ (i + 1) - 1 = i
      /\ Len(q) \in 1..Len(q)
  BY <1>1
<1>3. \A u \in Uri : After(docs', Tail(q), Len(q) - 1, u, clientDoc[u])
  <2> SUFFICES ASSUME NEW u \in Uri PROVE After(docs', Tail(q), Len(q) - 1, u, clientDoc[u])
    OBVIOUS
  <2>1. After(docs, q, Len(q), u, clientDoc[u])
    BY DEF InStep
  <2> QED
    BY <1>1, <1>2, <2>1, AfterTail
<1>4. Ordered(docs', Tail(q))
  <2> SUFFICES ASSUME NEW i \in 1..(Len(q) - 1), IsQuery(Tail(q)[i])
               PROVE  After(docs', Tail(q), i - 1, Tail(q)[i].uri, Tail(q)[i].text)
    BY <1>2 DEF Ordered
  <2> DEFINE m == Tail(q)[i]
  <2>1. m = q[i + 1] /\ i + 1 \in 1..Len(q) /\ i \in 1..Len(q) /\ (i + 1) - 1 = i
    BY <1>2
  <2>2. After(docs, q, i, m.uri, m.text)
    BY <2>1 DEF InStep, Ordered
  <2>3. m \in Msg /\ IsQuery(m)
    BY <1>1, <2>1
  <2>4. m.uri \in Uri
    BY <2>3, DocMsgType DEF IsQuery
  <2> HIDE DEF m
  <2>5. After(docs', Tail(q), i - 1, m.uri, m.text)
    BY <1>1, <2>1, <2>2, <2>4, AfterTail
  <2> QED
    BY <2>5 DEF m
<1> QED
  BY <1>1, <1>2, <1>3, <1>4 DEF InStep

\* Steps that neither send nor receive.
LEMMA QuietInStep ==
  ASSUME InStep, UNCHANGED <<docs, clientDoc>>, Queue' = Queue
  PROVE  InStep'
  BY DEF InStep, Ordered

\* Nothing has been sent yet.
LEMMA StartInStep == Init => InStep
<1> SUFFICES ASSUME Init PROVE InStep
  OBVIOUS
<1>1. Queue = <<>> /\ Len(Queue) = 0
  BY DEF Init, Queue
<1> QED
  BY <1>1 DEF Init, InStep, Ordered, After

\* Every message keeps its place between editor and server.
LEMMA KeepInStep == TypeOK /\ InStep /\ [Next]_vars => InStep'
<1> SUFFICES ASSUME TypeOK, InStep, [Next]_vars PROVE InStep'
  OBVIOUS
<1> USE DEF docVars, outVars, cacheVars, clientVars, inVars, ctlVars
<1>1. CASE ClientOpen
  <2>1. PICK u \in Uri, t \in AnyText : Send("open", u, t) /\ clientDoc' = [clientDoc EXCEPT ![u] = t]
    BY <1>1 DEF ClientOpen
  <2> DEFINE m == [kind |-> "open", uri |-> u, text |-> t, id |-> sent]
  <2>2. m \in Msg /\ ~IsQuery(m) /\ m.text = t /\ \A v \in Uri : Touches(m, v) <=> v = u
    BY DEF TypeOK, Msg, DocMsg, IsQuery, Touches
  <2>3. pipe' = Append(pipe, m) /\ buf' = buf /\ docs' = docs
    BY <2>1 DEF Send
  <2>4. \A v \in Uri : clientDoc'[v] = IF v = u THEN t ELSE clientDoc[v]
    BY <2>1 DEF TypeOK
  <2> HIDE DEF m
  <2> QED
    BY <2>2, <2>3, <2>4, SendInStep
<1>2. CASE ClientChange
  <2>1. PICK u \in Uri, t \in AnyText : Send("change", u, t) /\ clientDoc' = [clientDoc EXCEPT ![u] = t]
    BY <1>2 DEF ClientChange
  <2> DEFINE m == [kind |-> "change", uri |-> u, text |-> t, id |-> sent]
  <2>2. m \in Msg /\ ~IsQuery(m) /\ m.text = t /\ \A v \in Uri : Touches(m, v) <=> v = u
    BY DEF TypeOK, Msg, DocMsg, IsQuery, Touches
  <2>3. pipe' = Append(pipe, m) /\ buf' = buf /\ docs' = docs
    BY <2>1 DEF Send
  <2>4. \A v \in Uri : clientDoc'[v] = IF v = u THEN t ELSE clientDoc[v]
    BY <2>1 DEF TypeOK
  <2> HIDE DEF m
  <2> QED
    BY <2>2, <2>3, <2>4, SendInStep
<1>3. CASE ClientClose
  <2>1. PICK u \in Uri : Send("close", u, NoDoc) /\ clientDoc' = [clientDoc EXCEPT ![u] = NoDoc]
    BY <1>3 DEF ClientClose
  <2> DEFINE m == [kind |-> "close", uri |-> u, text |-> NoDoc, id |-> sent]
  <2>2. m \in Msg /\ ~IsQuery(m) /\ m.text = NoDoc /\ \A v \in Uri : Touches(m, v) <=> v = u
    BY DEF TypeOK, Msg, CloseMsg, IsQuery, Touches
  <2>3. pipe' = Append(pipe, m) /\ buf' = buf /\ docs' = docs
    BY <2>1 DEF Send
  <2>4. \A v \in Uri : clientDoc'[v] = IF v = u THEN NoDoc ELSE clientDoc[v]
    BY <2>1 DEF TypeOK
  <2> HIDE DEF m
  <2> QED
    BY <2>2, <2>3, <2>4, SendInStep
<1>4. CASE ClientQuery
  <2>1. PICK k \in {"lookup", "completion"}, u \in Uri :
          clientDoc[u] # NoDoc /\ Send(k, u, clientDoc[u])
    BY <1>4 DEF ClientQuery
  <2> DEFINE m == [kind |-> k, uri |-> u, text |-> clientDoc[u], id |-> sent]
  <2>2. clientDoc[u] \in AnyText /\ sent \in Nat
    BY <2>1 DEF TypeOK
  <2>3. m \in Msg /\ m.uri = u /\ m.text = clientDoc[u] /\ \A v \in Uri : ~Touches(m, v)
    BY <2>2 DEF Msg, DocMsg, Touches
  <2>4. pipe' = Append(pipe, m) /\ buf' = buf /\ docs' = docs /\ clientDoc' = clientDoc
    BY <1>4, <2>1 DEF Send, ClientQuery
  <2> HIDE DEF m
  <2> QED
    BY <2>3, <2>4, SendInStep
<1>5. CASE ClientOther \/ ClientShutdown \/ ClientExit
  <2>1. PICK k \in {"call", "noise", "shutdown", "exit"} : Send(k, NoUri, NoDoc) /\ clientDoc' = clientDoc
    BY <1>5 DEF ClientOther, ClientShutdown, ClientExit
  <2> DEFINE m == [kind |-> k, uri |-> NoUri, text |-> NoDoc, id |-> sent]
  <2>2. m \in Msg /\ ~IsQuery(m) /\ \A v \in Uri : ~Touches(m, v)
    BY DEF TypeOK, Msg, BareMsg, IsQuery, Touches
  <2>3. pipe' = Append(pipe, m) /\ buf' = buf /\ docs' = docs
    BY <2>1 DEF Send
  <2> HIDE DEF m
  <2> QED
    BY <2>1, <2>2, <2>3, SendInStep
<1>6. CASE handle_did_open \/ handle_did_change
  <2>1. PICK k \in {"open", "change"} : Receive(k) /\ SetDocument(Head(buf).uri, Head(buf).text)
    BY <1>6 DEF handle_did_open, handle_did_change
  <2>2. Head(buf).kind = k /\ Head(buf).uri \in Uri
    BY <2>1, ReceiveType, DocMsgType DEF Taken
  <2>3. \A u \in Uri : docs'[u] = IF Touches(Head(buf), u) THEN Head(buf).text ELSE docs[u]
    BY <2>1, <2>2 DEF SetDocument, lsp_docs_set, Touches, TypeOK
  <2> QED
    BY <2>1, <2>3, ReceiveInStep DEF Receive
<1>7. CASE handle_did_close
  <2>1. Receive("close") /\ docs' = [docs EXCEPT ![Head(buf).uri] = NoDoc]
    BY <1>7 DEF handle_did_close, lsp_docs_remove
  <2>2. Head(buf) \in Msg /\ Head(buf).kind = "close"
    BY <2>1, ReceiveType DEF Taken
  <2>3. Head(buf).uri \in Uri /\ Head(buf).text = NoDoc
    BY <2>2 DEF Msg, DocMsg, CloseMsg, BareMsg
  <2>4. \A u \in Uri : docs'[u] = IF Touches(Head(buf), u) THEN Head(buf).text ELSE docs[u]
    BY <2>1, <2>2, <2>3 DEF Touches, TypeOK
  <2> QED
    BY <2>1, <2>4, ReceiveInStep DEF Receive
<1>8. CASE \/ handle_lookup \/ handle_completion \/ handle_call \/ handle_noise
           \/ handle_shutdown \/ handle_exit
  <2>1. PICK k \in {"lookup", "completion", "call", "noise", "shutdown", "exit"} :
          Receive(k) /\ docs' = docs
    BY <1>8 DEF handle_lookup, handle_completion, handle_call, handle_noise, handle_shutdown,
                handle_exit, AnswerWithoutCompile, AnswerFromCompile
  <2>2. \A u \in Uri : ~Touches(Head(buf), u)
    BY <2>1 DEF Receive, Touches
  <2> QED
    BY <2>1, <2>2, ReceiveInStep DEF Receive
<1>9. CASE FillBuffer
  <2>1. PICK n \in 1..Len(pipe) : buf' = SubSeq(pipe, 1, n) /\ pipe' = SubSeq(pipe, n + 1, Len(pipe))
    BY <1>9 DEF FillBuffer
  <2>2. Queue = pipe
    BY <1>9, JoinedSeqs DEF Queue, FillBuffer, TypeOK
  <2>3. pipe \in Seq(Msg)
    BY DEF TypeOK
  <2>4. SubSeq(pipe, 1, n) \o SubSeq(pipe, n + 1, Len(pipe)) = pipe
    BY <2>3, JoinSplit
  <2>5. Queue' = pipe
    BY <2>1, <2>4 DEF Queue
  <2> QED
    BY <1>9, <2>2, <2>5, QuietInStep DEF FillBuffer
<1>10. CASE ClientEof \/ Debounce \/ ReadEof \/ UNCHANGED vars
  BY <1>10, QuietInStep DEF ClientEof, Debounce, DebounceSkip, DebounceReady, DebounceTimeout,
                            ReadEof, vars, Queue
<1> QED
  BY <1>1, <1>2, <1>3, <1>4, <1>5, <1>6, <1>7, <1>8, <1>9, <1>10
     DEF Next, Client, Server, Handle, Exited

\* A compile, cached or not, is of the text the server holds.
LEMMA CompiledIsHeld ==
  ASSUME IInv, NEW u \in Uri
  PROVE  CompiledCg(u) = [uri |-> u, text |-> lsp_docs_get(u)]
  BY DEF IInv, CacheValid, CompiledCg, lsp_cache_lookup

\* handle_lookup and handle_completion answer from the text the editor showed when it
\* asked, however many edits are on their way before and behind the question.
THEOREM AnswersInStep == Spec => AnswersFresh
<1> DEFINE P == answers' # answers =>
                  LET a == answers'[Len(answers')]
                  IN  a.cg # NoCg => a.cg = [uri |-> Head(buf).uri, text |-> Head(buf).text]
<1>1. IInv /\ InStep /\ [Next]_vars => P
  <2> SUFFICES ASSUME IInv, InStep, [Next]_vars, answers' # answers,
                      answers'[Len(answers')].cg # NoCg
               PROVE  answers'[Len(answers')].cg = [uri |-> Head(buf).uri, text |-> Head(buf).text]
    OBVIOUS
  <2>0. TypeOK
    BY DEF IInv
  <2>1. \A x : write_response(x) => answers'[Len(answers')].cg = x
    <3>1. answers \in Seq([id : Nat, cg : Cg \cup {NoCg}])
      BY <2>0 DEF TypeOK
    <3>2. \A y : Append(answers, y)[Len(Append(answers, y))] = y
      BY <3>1
    <3> QED
      BY <3>2 DEF write_response
  <2>2. \/ \E k \in {"lookup", "completion"} : Receive(k) /\ AnswerFromCompile(Head(buf).uri)
        \/ write_response(NoCg)
    <3> USE DEF outVars
    <3>1. CASE Client
      BY <3>1 DEF Client, ClientOpen, ClientChange, ClientClose, ClientQuery, ClientOther,
                  ClientShutdown, ClientExit, ClientEof, Send
    <3>2. CASE Debounce \/ FillBuffer \/ ReadEof \/ UNCHANGED vars
      BY <3>2 DEF Debounce, DebounceSkip, DebounceReady, DebounceTimeout, FillBuffer, ReadEof, vars
    <3>3. CASE Handle
      BY <3>3 DEF Handle, handle_did_open, handle_did_change, handle_did_close, SetDocument,
                  handle_lookup, handle_completion, handle_call, handle_noise, handle_shutdown,
                  handle_exit, AnswerWithoutCompile
    <3> QED
      BY <3>1, <3>2, <3>3 DEF Next, Server, Exited
  <2>3. PICK k \in {"lookup", "completion"} : Receive(k) /\ AnswerFromCompile(Head(buf).uri)
    BY <2>1, <2>2
  <2> DEFINE m == Head(buf)
  <2>4. m \in Msg /\ m.kind = k /\ m.uri \in Uri /\ m.text \in AnyText
    BY <2>0, <2>3, ReceiveType, DocMsgType DEF Taken
  <2>5. docs[m.uri] = m.text
    <3>1. Queue \in Seq(Msg) /\ Queue # <<>> /\ Head(Queue) = m
      BY <2>0, <2>3, JoinedSeqs DEF Queue, TypeOK, Receive
    <3>2. 1 \in 1..Len(Queue) /\ Queue[1] = m
      BY <3>1
    <3>3. After(docs, Queue, 1 - 1, m.uri, m.text)
      BY <2>3, <2>4, <3>2 DEF InStep, Ordered, IsQuery
    <3>4. 1..(1 - 1) = {}
      OBVIOUS
    <3> QED
      BY <3>3, <3>4 DEF After
  <2>6. lsp_docs_get(m.uri) = m.text
    BY <2>4, <2>5, LspConstants DEF lsp_docs_get, AnyText
  <2>7. answers'[Len(answers')].cg = CompiledCg(m.uri)
    BY <2>1, <2>3 DEF AnswerFromCompile
  <2> QED
    BY <2>4, <2>6, <2>7, CompiledIsHeld
<1>2. IInv /\ InStep /\ [Next]_vars => [P]_vars
  BY <1>1
<1>3. IInv => TypeOK
  BY DEF IInv
<1>4. Spec => []InStep
  BY <1>3, Invariant, StartInStep, KeepInStep, PTL DEF Spec
<1> QED
  BY <1>2, <1>4, Invariant, PTL DEF Spec, AnswersFresh
=============================================================================
