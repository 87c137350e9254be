-------------------------- MODULE HttpClient_proofs --------------------------
(***************************************************************************)
(* The safety invariants of HttpClient, for every set of URLs and methods, *)
(* every limit on idle connections and redirects, and any number of        *)
(* connections and requests.                                               *)
(***************************************************************************)
EXTENDS HttpClient, SequenceTheorems, FiniteSetTheorems, TLAPS

USE DEF poolVars, sockVars, tlsVars, wireVars, xchgVars, fetchVars, histVars

\* Only what a wait has brought, and the time left, may change.
OnlyWaits == UNCHANGED <<poolVars, sockVars, wireVars, xchgVars, fetchVars, histVars>>

Core == LinksOwnedOnce /\ OneIdlePerKey /\ RetryOnNewLink /\ WiresOwned /\ RetryFindsNone
Chain == OriginKept /\ CredentialsStayHome /\ NoDowngrade

\* A new client has no connection and has written nothing.
LEMMA InitInv == Init => IInv
<1> SUFFICES ASSUME Init PROVE IInv
  OBVIOUS
<1>1. origin \in Urls
  BY HttpConstants DEF Init
<1>2. rid = 0
  BY DEF Init, rid
<1>3. TypeOK
  <2>1. /\ links \in [Links -> {"new", "open", "closed"}] /\ closes \in [Links -> Nat]
        /\ peerClosed \in [Links -> BOOLEAN]
        /\ toServer \in [Links -> Seq(Nat)] /\ inbox \in [Links -> Seq(Nat)]
        /\ decrypted \in [Links -> Seq(Nat)] /\ unread \subseteq Links
        /\ served \in [1..MaxReqs -> Nat]
    BY DEF Init
  <2>2. reqs \in Seq(Request) /\ pool \subseteq [key : Urls, link : Links, since : Nat]
    BY DEF Init
  <2>3. WaitsOK
    BY DEF Init, WaitsOK, NoLimits
  <2> QED
    BY <1>1, <2>1, <2>2, <2>3 DEF Init, TypeOK
<1>4. Core
  BY DEF Init, Core, LinksOwnedOnce, LinksOf, InUse, OneIdlePerKey, RetryOnNewLink,
         WiresOwned, RetryFindsNone
<1>5. Chain
  BY <1>2 DEF Init, Chain, OriginKept, CredentialsStayHome, NoDowngrade
<1> QED
  BY <1>3, <1>4, <1>5 DEF IInv, Core, Chain

-----------------------------------------------------------------------------
(* What the shared parts of the actions do.                                  *)

\* Closing connections keeps their types.
LEMMA DiscardType ==
  ASSUME TypeOK, NEW D, Discard(D)
  PROVE  links' \in [Links -> {"new", "open", "closed"}] /\ closes' \in [Links -> Nat]
  BY DEF TypeOK, Discard

\* `keep` after a response drops nothing: no entry of this key is in the pool.
LEMMA NoExcess ==
  ASSUME OneIdlePerKey, phase = "read"
  PROVE  Excess(Key(req.url)) = {}
  BY DEF OneIdlePerKey, Excess

\* The request in progress.
LEMMA ReqType ==
  ASSUME TypeOK, phase # "idle"
  PROVE  req \in Request /\ Key(req.url) \in Urls /\ rid \in Nat \ {0} /\ rid \in 1..Len(reqs)
<1>1. Len(reqs) \in Nat /\ Len(reqs) # 0 /\ reqs \in [1..Len(reqs) -> Request]
  BY DEF TypeOK
<1> QED
  BY <1>1 DEF req, rid, Request, Key

\* A sequence cut in two.
LEMMA CutType ==
  ASSUME NEW S, NEW s \in Seq(S), NEW n \in 0..Len(s)
  PROVE  /\ SubSeq(s, 1, n) \in Seq(S) /\ SubSeq(s, n + 1, Len(s)) \in Seq(S)
         /\ n = 0 => SubSeq(s, 1, n) = <<>>
<1>1. Len(s) \in Nat /\ n \in Nat /\ n <= Len(s) /\ \A i \in 1..Len(s) : s[i] \in S
  OBVIOUS
<1>2. SubSeq(s, 1, n) \in Seq(S)
  BY <1>1
<1>3. SubSeq(s, n + 1, Len(s)) \in Seq(S)
  BY <1>1
<1>4. n = 0 => SubSeq(s, 1, n) = <<>>
  BY <1>1
<1> QED
  BY <1>2, <1>3, <1>4

\* What a link still holds is a sequence of answers, and empty sessions add none.
LEMMA StreamType ==
  ASSUME TypeOK, NEW l \in Links
  PROVE  Stream(l) \in Seq(Nat) /\ (decrypted[l] = <<>> => Stream(l) = inbox[l])
<1>1. decrypted[l] \in Seq(Nat) /\ inbox[l] \in Seq(Nat)
  BY DEF TypeOK
<1>2. decrypted[l] \o inbox[l] \in Seq(Nat)
  BY <1>1
<1>3. decrypted[l] = <<>> => decrypted[l] \o inbox[l] = inbox[l]
  BY <1>1, ConcatEmptySeq
<1> QED
  BY <1>2, <1>3 DEF Stream

\* After a response the link is kept, and nothing else changes hands, or closed.
LEMMA Settled ==
  ASSUME IInv, ReadResponse
  PROVE  /\ phase = "read" /\ link \in Links /\ Stream(link) # <<>>
         /\ \/ /\ pool' = pool \cup {[key |-> Key(req.url), link |-> link, since |-> clock]}
               /\ clock' = clock + 1 /\ links' = links /\ closes' = closes
            \/ Discard({link}) /\ pool' = pool /\ clock' = clock
         /\ inbox' \in [Links -> Seq(Nat)] /\ decrypted' \in [Links -> Seq(Nat)]
         /\ \A l \in Links \ {link} : inbox'[l] = inbox[l] /\ decrypted'[l] = decrypted[l]
         /\ unread \subseteq unread' /\ unread' \subseteq unread \cup {link}
         /\ link \notin unread' => decrypted'[link] = <<>>
         /\ UNCHANGED <<peerClosed, toServer>>
<1>1. TypeOK /\ phase = "read" /\ link \in Links /\ Stream(link) # <<>>
  BY DEF IInv, TypeOK, ReadResponse
<1>2. PICK keepAlive \in BOOLEAN, leftover \in BOOLEAN :
        LET reuse == Reusable(keepAlive, leftover)
            rest == IF reuse THEN Tail(Stream(link)) ELSE <<>>
        IN  /\ Settle(reuse)
            /\ \E n \in 0..Len(rest) :
                  /\ decrypted' = [decrypted EXCEPT ![link] = SubSeq(rest, 1, n)]
                  /\ inbox' = [inbox EXCEPT ![link] = SubSeq(rest, n + 1, Len(rest))]
                  /\ unread' = IF n > 0 THEN unread \cup {link} ELSE unread
  BY DEF ReadResponse
<1> DEFINE rest == IF Reusable(keepAlive, leftover) THEN Tail(Stream(link)) ELSE <<>>
<1>3. PICK n \in 0..Len(rest) :
        /\ decrypted' = [decrypted EXCEPT ![link] = SubSeq(rest, 1, n)]
        /\ inbox' = [inbox EXCEPT ![link] = SubSeq(rest, n + 1, Len(rest))]
        /\ unread' = IF n > 0 THEN unread \cup {link} ELSE unread
  BY <1>2
<1>4. rest \in Seq(Nat)
  <2>1. Stream(link) \in Seq(Nat)
    BY <1>1, StreamType
  <2>2. Tail(Stream(link)) \in Seq(Nat) /\ <<>> \in Seq(Nat)
    BY <1>1, <2>1
  <2> QED
    BY <2>2
<1> HIDE DEF rest
<1>5. /\ SubSeq(rest, 1, n) \in Seq(Nat) /\ SubSeq(rest, n + 1, Len(rest)) \in Seq(Nat)
      /\ n = 0 => SubSeq(rest, 1, n) = <<>>
  BY <1>4, CutType
<1>6. inbox' \in [Links -> Seq(Nat)] /\ decrypted' \in [Links -> Seq(Nat)]
      /\ decrypted'[link] = SubSeq(rest, 1, n)
      /\ \A l \in Links \ {link} : inbox'[l] = inbox[l] /\ decrypted'[l] = decrypted[l]
  BY <1>1, <1>3, <1>5 DEF TypeOK
<1>7. /\ unread \subseteq unread' /\ unread' \subseteq unread \cup {link}
      /\ link \notin unread' => decrypted'[link] = <<>>
  <2>1. Len(rest) \in Nat /\ (n > 0 \/ n = 0)
    BY <1>4
  <2> QED
    BY <1>3, <1>5, <1>6, <2>1
<1>8. /\ unread \subseteq unread' /\ unread' \subseteq unread \cup {link}
      /\ link \notin unread' => decrypted'[link] = <<>>
      /\ UNCHANGED <<peerClosed, toServer>>
  BY <1>7 DEF ReadResponse
<1>9. CASE keep(Key(req.url), link)
  <2>1. Excess(Key(req.url)) = {}
    BY <1>1, NoExcess DEF IInv
  <2>2. LinksOf(Excess(Key(req.url))) = {}
    BY <2>1 DEF LinksOf
  <2>3. links' = links /\ closes' = closes
    BY <1>9, <2>2 DEF keep, Discard, IInv, TypeOK
  <2>4. pool' = pool \cup {[key |-> Key(req.url), link |-> link, since |-> clock]}
        /\ clock' = clock + 1
    BY <1>9, <2>1 DEF keep
  <2> QED
    BY <1>1, <1>6, <1>8, <2>3, <2>4
<1>10. CASE Discard({link}) /\ UNCHANGED poolVars
  BY <1>1, <1>6, <1>8, <1>10
<1> QED
  BY <1>2, <1>9, <1>10 DEF Settle

\* The connection `take` finds.
LEMMA OldestIs ==
  ASSUME IInv, NEW key, NEW cutoff, Candidates(key, cutoff) # {}
  PROVE  Oldest(Candidates(key, cutoff)) \in Candidates(key, cutoff)
<1>1. PICK e \in Candidates(key, cutoff) : TRUE
  OBVIOUS
<1>2. \A f \in Candidates(key, cutoff) : f = e
  BY <1>1 DEF Candidates, IInv, OneIdlePerKey
<1>3. e.since \in Nat
  BY <1>1 DEF Candidates, IInv, TypeOK
<1>4. \E x \in Candidates(key, cutoff) : \A f \in Candidates(key, cutoff) : x.since <= f.since
  BY <1>1, <1>2, <1>3
<1> QED
  BY <1>4 DEF Oldest

-----------------------------------------------------------------------------
(* Type correctness.                                                         *)

\* A request joins the history.
LEMMA StartType ==
  ASSUME TypeOK, NEW r \in Request, StartExchange(r)
  PROVE  /\ reqs' \in Seq(Request) /\ reqs' # <<>> /\ Len(reqs') = rid + 1
         /\ reqs'[rid + 1] = r /\ \A i \in 1..rid : reqs'[i] = reqs[i]
         /\ phase' = "acquire" /\ link' = NoLink
         /\ repeated' = FALSE /\ reused' = FALSE
<1>1. reqs \in Seq(Request)
  BY DEF TypeOK
<1> QED
  BY <1>1 DEF StartExchange, rid

\* Two sequences in a row.
LEMMA ConcatType ==
  ASSUME NEW S, NEW a \in Seq(S), NEW b \in Seq(S)
  PROVE  a \o b \in Seq(S)
  OBVIOUS

\* At most two items in a row.
LEMMA ShortConcat ==
  ASSUME NEW S, NEW a \in S, NEW b \in S
  PROVE  <<a>> \o <<>> = <<a>> /\ <<a>> \o <<b>> = <<a, b>>
<1>1. <<a>> \in Seq(S) /\ <<b>> \in Seq(S) /\ <<>> \in Seq(S)
  OBVIOUS
<1>2. <<a>> \o <<>> = <<a>>
  BY <1>1
<1>3. <<a>> \o <<b>> = Append(<<a>>, b)
  BY <1>1, AppendIsConcat
<1>4. Append(<<a>>, b) = <<a, b>>
  <2>1. <<a, b>> \in Seq(S) /\ Len(<<a, b>>) = 2 /\ <<a, b>>[1] = a /\ <<a, b>>[2] = b
    OBVIOUS
  <2>2. /\ Append(<<a>>, b) \in Seq(S) /\ Len(Append(<<a>>, b)) = 2
        /\ Append(<<a>>, b)[1] = a /\ Append(<<a>>, b)[2] = b
    BY <1>1, AppendProperties
  <2>3. \A i \in 1..2 : i = 1 \/ i = 2
    OBVIOUS
  <2> QED
    BY <2>1, <2>2, <2>3, SeqEqual
<1> QED
  BY <1>2, <1>3, <1>4

\* A failed exchange keeps every variable in its type.
LEMMA FailedType ==
  ASSUME TypeOK, WaitsOK', NEW got \in BOOLEAN, Failed(got), UNCHANGED wireVars,
         phase \in {"write", "read"}
  PROVE  TypeOK'
<1>1. links' \in [Links -> {"new", "open", "closed"}] /\ closes' \in [Links -> Nat]
  BY DiscardType DEF Failed
<1>2. phase' \in {"idle", "acquire"} /\ result' \in {"none", "ok", "error"} /\ repeated' \in BOOLEAN
  BY DEF Failed, Finish, TypeOK
<1> QED
  BY <1>1, <1>2 DEF Failed, TypeOK

\* The request a redirect makes.
LEMMA RedirectedType ==
  ASSUME TypeOK, phase # "idle", NEW next \in Urls, NEW preserve \in BOOLEAN
  PROVE  Redirected(next, preserve) \in Request
<1>1. req \in Request
  BY ReqType
<1>2. req.verb \in Methods \cup {"GET"} /\ req.body \in BOOLEAN /\ origin \in Urls
  <2>1. req.verb \in Methods \cup {"GET"}
    BY <1>1 DEF Request
  <2>2. req.body \in BOOLEAN
    BY <1>1, Zenon DEF Request
  <2>3. origin \in Urls
    BY DEF TypeOK
  <2> QED
    BY <2>1, <2>2, <2>3
<1>3. (IF preserve \/ req.verb = "HEAD" THEN req.verb ELSE "GET") \in Methods \cup {"GET"}
  BY <1>2
<1>4. (req.creds /\ next.host = req.url.host) \in BOOLEAN /\ (preserve /\ req.body) \in BOOLEAN
  OBVIOUS
<1> QED
  BY <1>2, <1>3, <1>4 DEF Redirected, Request

\* So does what `settle` does with the connection of a response.
LEMMA SettledType ==
  ASSUME IInv, ReadResponse
  PROVE  /\ pool' \subseteq [key : Urls, link : Links, since : Nat] /\ clock' \in Nat
         /\ links' \in [Links -> {"new", "open", "closed"}] /\ closes' \in [Links -> Nat]
         /\ peerClosed' \in [Links -> BOOLEAN]
         /\ toServer' \in [Links -> Seq(Nat)] /\ inbox' \in [Links -> Seq(Nat)]
         /\ decrypted' \in [Links -> Seq(Nat)] /\ unread' \subseteq Links
<1> USE Settled
<1>1. TypeOK /\ phase # "idle"
  BY DEF IInv
<1>2. Key(req.url) \in Urls
  BY <1>1, ReqType
<1>3. CASE links' = links /\ closes' = closes
           /\ pool' = pool \cup {[key |-> Key(req.url), link |-> link, since |-> clock]}
           /\ clock' = clock + 1
  BY <1>1, <1>2, <1>3 DEF TypeOK
<1>4. CASE Discard({link}) /\ pool' = pool /\ clock' = clock
  BY <1>1, <1>4, DiscardType DEF TypeOK
<1> QED
  BY <1>3, <1>4

\* A fetch's limits and what its waits have brought keep their types.
LEMMA WaitsStep == TypeOK /\ [Next]_vars => WaitsOK'
<1> SUFFICES ASSUME TypeOK, [Next]_vars PROVE WaitsOK'
  OBVIOUS
<1>1. WaitsOK
  BY DEF TypeOK
<1>2. NoLimits \in [timeout : BOOLEAN, deadline : {"none", "ahead", "passed"}]
  BY DEF NoLimits
<1>3. CASE fetch
  <2>1. PICK s \in Settings :
          limits' = [timeout |-> s.timeout, deadline |-> IF s.deadline THEN "ahead" ELSE "none"]
    BY <1>3 DEF fetch
  <2>2. s \in [timeout : BOOLEAN, deadline : BOOLEAN]
    BY HttpConstants
  <2>3. s.timeout \in BOOLEAN
    BY <2>2, Zenon
  <2>4. (IF s.deadline THEN "ahead" ELSE "none") \in {"none", "ahead", "passed"}
    OBVIOUS
  <2> QED
    BY <1>1, <1>3, <2>1, <2>3, <2>4 DEF fetch, WaitsOK
<1>4. CASE Armed /\ (UNCHANGED limits \/ limits' = NoLimits)
  BY <1>1, <1>2, <1>4 DEF Armed, WaitsOK
<1>5. CASE acquire_kept \/ acquire_new \/ redirect \/ exchange_returns \/ exchange_rejected
  <2>1. Armed /\ (UNCHANGED limits \/ limits' = NoLimits)
    BY <1>5 DEF acquire_kept, acquire_new, redirect, exchange_returns, exchange_rejected,
                ReadResponse, Finish
  <2> QED
    BY <2>1, <1>4
<1>6. CASE write_request \/ read_fails
  <2>1. CASE moved' = FALSE /\ UNCHANGED <<received, limits>>
    BY <1>1, <2>1 DEF WaitsOK
  <2>2. CASE \E got \in BOOLEAN : Failed(got)
    BY <2>2, <1>4 DEF Failed, Finish
  <2> QED
    BY <1>6, <2>1, <2>2 DEF write_request, read_fails
<1>7. CASE next_wait
  <2>1. (received \/ phase = "read") \in BOOLEAN
    OBVIOUS
  <2> QED
    BY <1>1, <1>7, <2>1 DEF next_wait, WaitsOK
<1>8. CASE DeadlinePasses
  BY <1>1, <1>8 DEF DeadlinePasses, WaitsOK
<1>9. CASE ServerTrickles
  BY <1>1, <1>9 DEF ServerTrickles, WaitsOK
<1>10. CASE UNCHANGED waitVars
  BY <1>1, <1>10 DEF waitVars, WaitsOK
<1>11. CASE close \/ (\E l \in Links : ServerAnswers(l) \/ ServerCloses(l)) \/ UNCHANGED vars
  BY <1>10, <1>11 DEF close, ServerAnswers, ServerCloses, vars
<1> QED
  BY <1>3, <1>5, <1>6, <1>7, <1>8, <1>9, <1>11 DEF Next, Exchange

\* What a step that is none of a request's own does to the rest: nothing.
LEMMA WaitsAlone ==
  ASSUME next_wait \/ DeadlinePasses \/ ServerTrickles \/ UNCHANGED vars
  PROVE  OnlyWaits
  BY DEF next_wait, DeadlinePasses, ServerTrickles, OnlyWaits, vars

\* Every step keeps the type invariant.
LEMMA TypeStep == IInv /\ [Next]_vars => TypeOK'
<1> SUFFICES ASSUME IInv, [Next]_vars PROVE TypeOK'
  OBVIOUS
<1>0. TypeOK /\ WaitsOK'
  BY WaitsStep DEF IInv
<1>1. CASE fetch
  <2>1. PICK m \in Methods, u \in Urls, c \in Credentials :
          /\ StartExchange([verb |-> m, url |-> u, creds |-> c,
                            body |-> m = "POST", origin |-> u])
          /\ origin' = u
    BY <1>1 DEF fetch
  <2>2. [verb |-> m, url |-> u, creds |-> c, body |-> m = "POST", origin |-> u] \in Request
    BY HttpConstants DEF Request
  <2>3. reqs' \in Seq(Request) /\ reqs' # <<>> /\ phase' = "acquire" /\ link' = NoLink
        /\ repeated' = FALSE /\ reused' = FALSE
    BY <1>0, <2>1, <2>2, StartType
  <2> QED
    BY <1>0, <1>1, <2>1, <2>3 DEF fetch, TypeOK
<1>2. CASE close
  <2>1. links' \in [Links -> {"new", "open", "closed"}] /\ closes' \in [Links -> Nat]
    BY <1>0, <1>2, DiscardType DEF close
  <2> QED
    BY <1>0, <1>2, <2>1 DEF close, TypeOK
<1>3. CASE acquire_kept
  <2>1. PICK cutoff \in 0..clock :
          /\ Candidates(Key(req.url), cutoff) # {}
          /\ LET found == Oldest(Candidates(Key(req.url), cutoff))
             IN  /\ pool' = pool \ (Stale(cutoff) \cup {found})
                 /\ link' = found.link
          /\ Discard(LinksOf(Stale(cutoff)))
    BY <1>3 DEF acquire_kept
  <2>2. Oldest(Candidates(Key(req.url), cutoff)) \in pool
    BY <2>1, OldestIs DEF Candidates
  <2>3. links' \in [Links -> {"new", "open", "closed"}] /\ closes' \in [Links -> Nat]
    BY <1>0, <2>1, DiscardType
  <2>4. link' \in Links /\ pool' \subseteq pool
    BY <1>0, <2>1, <2>2 DEF TypeOK
  <2> QED
    BY <1>0, <1>3, <2>3, <2>4 DEF acquire_kept, TypeOK
<1>4. CASE acquire_new
  <2>1. PICK cutoff \in 0..clock :
          /\ pool' = pool \ Stale(cutoff)
          /\ LET D == LinksOf(Stale(cutoff))
                 fresh == {l \in Links : links[l] = "new"}
             IN  \/ /\ fresh # {}
                    /\ link' = CHOOSE l \in fresh : TRUE
                    /\ links' = [l \in Links |-> IF l \in D THEN "closed"
                                                 ELSE IF l = link' THEN "open" ELSE links[l]]
                    /\ closes' = [l \in Links |-> IF l \in D THEN closes[l] + 1 ELSE closes[l]]
                    /\ phase' = "write" /\ UNCHANGED result
                 \/ /\ Discard(D)
                    /\ link' = NoLink /\ Finish("error")
    BY <1>4 DEF acquire_new
  <2>2. links' \in [Links -> {"new", "open", "closed"}] /\ closes' \in [Links -> Nat]
    <3>1. links \in [Links -> {"new", "open", "closed"}] /\ closes \in [Links -> Nat]
      BY <1>0 DEF TypeOK
    <3>2. CASE Discard(LinksOf(Stale(cutoff)))
      BY <1>0, <3>2, DiscardType
    <3> QED
      BY <2>1, <3>1, <3>2
  <2>3. /\ link' \in Links \cup {NoLink} /\ phase' \in {"write", "idle"}
        /\ phase' = "write" => link' \in Links
        /\ result' \in {"none", "ok", "error"}
    BY <1>0, <2>1 DEF TypeOK, Finish
  <2> QED
    BY <1>0, <1>4, <2>1, <2>2, <2>3 DEF acquire_new, TypeOK
<1>5. CASE write_request
  <2>1. CASE Failed(FALSE) /\ UNCHANGED wireVars
    BY <1>0, <1>5, <2>1, FailedType DEF write_request
  <2>2. CASE /\ toServer' = IF peerClosed[link] THEN toServer
                            ELSE [toServer EXCEPT ![link] = Append(@, rid)]
             /\ phase' = "read"
             /\ UNCHANGED <<poolVars, sockVars, peerClosed, inbox, tlsVars, link, reused,
                            repeated, fetchVars, reqs, served, result>>
    <3>1. link \in Links /\ toServer[link] \in Seq(Nat) /\ rid \in Nat
      BY <1>0, <1>5, ReqType DEF write_request, TypeOK
    <3>2. toServer' \in [Links -> Seq(Nat)]
      BY <1>0, <2>2, <3>1 DEF TypeOK
    <3> QED
      BY <1>0, <1>5, <2>2, <3>1, <3>2 DEF write_request, TypeOK
  <2> QED
    BY <1>5, <2>1, <2>2 DEF write_request
<1>6. CASE read_fails
  BY <1>0, <1>6, FailedType DEF read_fails
<1>7. CASE exchange_returns \/ exchange_rejected
  <2>1. ReadResponse /\ (Finish("ok") \/ Finish("error"))
        /\ UNCHANGED <<link, reused, repeated, fetchVars, reqs, served>>
    BY <1>7 DEF exchange_returns, exchange_rejected
  <2> QED
    BY <1>0, <2>1, SettledType DEF Finish, TypeOK
<1>8. CASE redirect
  <2>1. ReadResponse /\ phase # "idle" /\ UNCHANGED <<origin, served, result>> /\ hops' = hops + 1
    BY <1>8 DEF redirect, ReadResponse
  <2>2. PICK next \in Urls, preserve \in BOOLEAN : StartExchange(Redirected(next, preserve))
    BY <1>8 DEF redirect
  <2>3. reqs' \in Seq(Request) /\ reqs' # <<>> /\ phase' = "acquire" /\ link' = NoLink
        /\ repeated' = FALSE /\ reused' = FALSE
    BY <1>0, <2>1, <2>2, StartType, RedirectedType
  <2>4. hops' \in Nat /\ origin' \in Urls /\ served' \in [1..MaxReqs -> Nat]
        /\ result' \in {"none", "ok", "error"}
    BY <1>0, <2>1 DEF TypeOK
  <2> QED
    BY <1>0, <2>1, <2>3, <2>4, SettledType DEF TypeOK
<1>9. ASSUME NEW l \in Links, ServerAnswers(l) PROVE TypeOK'
  <2>1. toServer[l] \in Seq(Nat) /\ toServer[l] # <<>> /\ inbox[l] \in Seq(Nat)
    BY <1>0, <1>9 DEF ServerAnswers, TypeOK
  <2>2. Head(toServer[l]) \in Nat /\ Tail(toServer[l]) \in Seq(Nat)
    BY <2>1
  <2>3. \A more \in {<<>>, <<Surplus>>} : Append(inbox[l], Head(toServer[l])) \o more \in Seq(Nat)
    <3>1. Append(inbox[l], Head(toServer[l])) \in Seq(Nat)
      BY <2>1, <2>2
    <3>2. \A more \in {<<>>, <<Surplus>>} : more \in Seq(Nat)
      <4>1. <<>> \in Seq(Nat) /\ << 0 >> \in Seq(Nat)
        OBVIOUS
      <4> QED
        BY <4>1 DEF Surplus
    <3> QED
      BY <3>1, <3>2, ConcatType
  <2>4. inbox' \in [Links -> Seq(Nat)]
    BY <1>0, <1>9, <2>3 DEF ServerAnswers, TypeOK
  <2>5. toServer' \in [Links -> Seq(Nat)]
    BY <1>0, <1>9, <2>2 DEF ServerAnswers, TypeOK
  <2>6. served' \in [1..MaxReqs -> Nat]
    <3>1. served' = [served EXCEPT ![Head(toServer[l])] = @ + 1]
      BY <1>9 DEF ServerAnswers
    <3>2. served \in [1..MaxReqs -> Nat]
      BY <1>0 DEF TypeOK
    <3>3. CASE Head(toServer[l]) \in 1..MaxReqs
      <4>1. served[Head(toServer[l])] + 1 \in Nat
        BY <3>2, <3>3
      <4> QED
        BY <3>1, <3>2, <4>1
    <3>4. CASE Head(toServer[l]) \notin 1..MaxReqs
      BY <3>1, <3>2, <3>4
    <3> QED
      BY <3>3, <3>4
  <2> QED
    BY <1>0, <1>9, <2>4, <2>5, <2>6 DEF ServerAnswers, TypeOK
<1>10. ASSUME NEW l \in Links, ServerCloses(l) PROVE TypeOK'
  BY <1>0, <1>10 DEF ServerCloses, TypeOK
<1>11. CASE OnlyWaits
  BY <1>0, <1>11 DEF OnlyWaits, TypeOK
<1> QED
  BY <1>1, <1>2, <1>3, <1>4, <1>5, <1>6, <1>7, <1>8, <1>9, <1>10, <1>11, WaitsAlone DEF Next, Exchange

-----------------------------------------------------------------------------
(* The redirect chain.                                                       *)

\* A step that starts no exchange leaves the chain of requests as it is.
LEMMA ChainKept ==
  ASSUME IInv, reqs' = reqs, origin' = origin, phase' # "idle" => phase # "idle"
  PROVE  Chain'
  BY DEF IInv, Chain, OriginKept, CredentialsStayHome, NoDowngrade, req, rid

\* A request that keeps its origin, its credentials and its scheme home extends the chain.
LEMMA ChainGrows ==
  ASSUME IInv, NEW r \in Request, StartExchange(r), r.origin = origin',
         r.creds => r.url.host = r.origin.host,
         r.origin.scheme = "https" => r.url.scheme = "https"
  PROVE  Chain'
<1>1. TypeOK /\ rid \in Nat
  BY DEF IInv, TypeOK, rid
<1>2. Len(reqs') = rid + 1 /\ reqs'[rid + 1] = r /\ \A i \in 1..rid : reqs'[i] = reqs[i]
  BY <1>1, StartType
<1>3. OriginKept'
  BY <1>2 DEF OriginKept, req, rid
<1>4. \A i \in 1..(rid + 1) : i \in 1..rid \/ i = rid + 1
  BY <1>1
<1>5. CredentialsStayHome'
  BY <1>2, <1>4 DEF CredentialsStayHome, rid, IInv
<1>6. NoDowngrade'
  BY <1>2, <1>4 DEF NoDowngrade, rid, IInv
<1> QED
  BY <1>3, <1>5, <1>6 DEF Chain

\* Every step, redirects included, keeps the chain of requests right.
LEMMA ChainStep == IInv /\ [Next]_vars => Chain'
<1> SUFFICES ASSUME IInv, [Next]_vars PROVE Chain'
  OBVIOUS
<1>0. TypeOK
  BY DEF IInv
<1>1. CASE fetch
  <2>1. PICK m \in Methods, u \in Urls, c \in Credentials :
          /\ StartExchange([verb |-> m, url |-> u, creds |-> c,
                            body |-> m = "POST", origin |-> u])
          /\ origin' = u
    BY <1>1 DEF fetch
  <2>2. [verb |-> m, url |-> u, creds |-> c, body |-> m = "POST", origin |-> u] \in Request
    BY HttpConstants DEF Request
  <2> QED
    BY <2>1, <2>2, ChainGrows
<1>2. CASE redirect
  <2>1. phase # "idle" /\ origin' = origin
    BY <1>2 DEF redirect, ReadResponse
  <2>2. PICK next \in Urls, preserve \in BOOLEAN :
          Follows(next) /\ StartExchange(Redirected(next, preserve))
    BY <1>2 DEF redirect
  <2> DEFINE r == Redirected(next, preserve)
  <2>3. r \in Request
    BY <1>0, <2>1, RedirectedType
  <2>4. rid \in 1..rid /\ req.url \in Urls
    BY <1>0, <2>1, ReqType DEF rid, Key
  <2>5. /\ req.origin = origin
        /\ req.creds => req.url.host = req.origin.host
        /\ req.origin.scheme = "https" => req.url.scheme = "https"
    BY <2>1, <2>4 DEF IInv, OriginKept, CredentialsStayHome, NoDowngrade, req
  <2>6. r.url = next /\ r.origin = origin /\ (r.creds => req.creds /\ next.host = req.url.host)
    BY DEF Redirected
  <2>7. r.creds => r.url.host = r.origin.host
    BY <2>5, <2>6
  <2>8. r.origin.scheme = "https" => r.url.scheme = "https"
    BY <2>2, <2>5, <2>6, HttpConstants DEF Follows
  <2> HIDE DEF r
  <2> QED
    BY <2>1, <2>2, <2>3, <2>6, <2>7, <2>8, ChainGrows DEF r
<1>3. CASE close \/ acquire_kept \/ acquire_new
  BY <1>3, ChainKept DEF close, acquire_kept, acquire_new
<1>4. CASE write_request \/ read_fails
  BY <1>4, ChainKept DEF write_request, read_fails, Failed
<1>5. CASE exchange_returns \/ exchange_rejected
  BY <1>5, ChainKept DEF exchange_returns, exchange_rejected, Finish
<1>6. ASSUME NEW l \in Links, ServerAnswers(l) \/ ServerCloses(l) PROVE Chain'
  BY <1>6, ChainKept DEF ServerAnswers, ServerCloses
<1>7. CASE OnlyWaits
  BY <1>7, ChainKept DEF OnlyWaits
<1> QED
  BY <1>1, <1>2, <1>3, <1>4, <1>5, <1>6, <1>7, WaitsAlone DEF Next, Exchange

-----------------------------------------------------------------------------
(* Connections.                                                              *)

Open == {l \in Links : links[l] = "open"}

\* Closing open connections, once.
LEMMA DiscardOpen ==
  ASSUME IInv, NEW D \in SUBSET Open, Discard(D)
  PROVE  /\ Open' = Open \ D
         /\ \A l \in Links : links'[l] = "new" <=> links[l] = "new"
         /\ \A l \in Links : closes'[l] = IF links'[l] = "closed" THEN 1 ELSE 0
<1>1. \A l \in Links : closes[l] = IF links[l] = "closed" THEN 1 ELSE 0
  BY DEF IInv, LinksOwnedOnce
<1>2. \A l \in Links : /\ links'[l] = IF l \in D THEN "closed" ELSE links[l]
                       /\ closes'[l] = IF l \in D THEN closes[l] + 1 ELSE closes[l]
  BY DEF Discard
<1>3. \A l \in D : links[l] = "open"
  BY DEF Open
<1> QED
  BY <1>1, <1>2, <1>3 DEF Open

\* Steps that leave the pool, the connections, their wires and the exchange alone.
LEMMA CoreKept ==
  ASSUME IInv, UNCHANGED <<poolVars, sockVars, xchgVars, reqs, toServer, inbox, tlsVars>>
  PROVE  Core'
  BY DEF IInv, Core, LinksOwnedOnce, LinksOf, InUse, OneIdlePerKey, RetryOnNewLink,
         WiresOwned, RetryFindsNone, rid, req

\* close.
LEMMA CoreClose ==
  ASSUME IInv, close
  PROVE  Core'
<1>1. Open = LinksOf(pool) /\ phase = "idle" /\ phase' = "idle" /\ pool' = {}
  BY DEF IInv, LinksOwnedOnce, InUse, Open, close
<1>2. Open' = Open \ LinksOf(pool)
      /\ (\A l \in Links : links'[l] = "new" <=> links[l] = "new")
      /\ \A l \in Links : closes'[l] = IF links'[l] = "closed" THEN 1 ELSE 0
  BY <1>1, DiscardOpen DEF close
<1>3. LinksOwnedOnce'
  BY <1>1, <1>2 DEF LinksOwnedOnce, LinksOf, InUse, Open
<1>4. OneIdlePerKey' /\ RetryOnNewLink' /\ RetryFindsNone'
  BY <1>1 DEF OneIdlePerKey, RetryOnNewLink, RetryFindsNone
<1>5. WiresOwned'
  BY <1>1, <1>2 DEF WiresOwned, IInv, close
<1> QED
  BY <1>3, <1>4, <1>5 DEF Core

\* The link in use is closed, and the exchange ends or asks for another.
LEMMA CoreFailed ==
  ASSUME IInv, NEW got \in BOOLEAN, Failed(got), UNCHANGED wireVars,
         phase \in {"write", "read"}
  PROVE  Core'
<1>1. /\ Open = LinksOf(pool) \cup {link} /\ link \notin LinksOf(pool)
      /\ link \in Links /\ {link} \in SUBSET Open
  BY DEF IInv, TypeOK, LinksOwnedOnce, InUse, Open
<1>2. Open' = Open \ {link}
      /\ (\A l \in Links : links'[l] = "new" <=> links[l] = "new")
      /\ \A l \in Links : closes'[l] = IF links'[l] = "closed" THEN 1 ELSE 0
  BY <1>1, DiscardOpen DEF Failed
<1>3. phase' \in {"idle", "acquire"} /\ pool' = pool /\ reqs' = reqs
  BY DEF Failed, Finish
<1>4. LinksOwnedOnce'
  BY <1>1, <1>2, <1>3 DEF LinksOwnedOnce, LinksOf, InUse, Open, IInv
<1>5. OneIdlePerKey' /\ RetryOnNewLink' /\ RetryFindsNone'
  BY <1>3 DEF OneIdlePerKey, RetryOnNewLink, RetryFindsNone, IInv, req, rid
<1>6. WiresOwned'
  BY <1>2, <1>3 DEF WiresOwned, IInv
<1> QED
  BY <1>4, <1>5, <1>6 DEF Core

\* A response was read: its link is in the pool or closed, its wires are empty
\* but for surplus bytes.
LEMMA CoreSettled ==
  ASSUME IInv, ReadResponse, phase' = "idle" \/ (phase' = "acquire" /\ repeated' = FALSE)
  PROVE  Core'
<1> USE Settled
<1>1. /\ Open = LinksOf(pool) \cup {link} /\ link \notin LinksOf(pool)
      /\ {link} \in SUBSET Open /\ link \in Links /\ links[link] = "open"
  BY DEF IInv, TypeOK, LinksOwnedOnce, InUse, Open
<1>2. link \in unread \/ toServer[link] = <<>>
  BY <1>1, StreamType DEF IInv, WiresOwned
<1>3. (\A e \in pool : e.key # Key(req.url)) /\ \A e, f \in pool : e.key = f.key => e = f
  BY DEF IInv, OneIdlePerKey
<1>4. RetryOnNewLink' /\ RetryFindsNone'
  BY DEF RetryOnNewLink, RetryFindsNone
<1>5. CASE /\ pool' = pool \cup {[key |-> Key(req.url), link |-> link, since |-> clock]}
           /\ links' = links /\ closes' = closes
  <2> DEFINE e0 == [key |-> Key(req.url), link |-> link, since |-> clock]
  <2>1. pool' = pool \cup {e0} /\ e0.key = Key(req.url) /\ e0.link = link
    BY <1>5
  <2> HIDE DEF e0
  <2>2. LinksOf(pool') = LinksOf(pool) \cup {link}
    BY <2>1 DEF LinksOf
  <2>3. \A e, f \in pool' : e.link = f.link => e = f
    BY <1>1, <2>1 DEF IInv, LinksOwnedOnce, LinksOf
  <2>4. LinksOwnedOnce'
    BY <1>1, <1>5, <2>2, <2>3 DEF IInv, LinksOwnedOnce, InUse, Open, LinksOf
  <2>5. OneIdlePerKey'
    BY <1>3, <2>1 DEF OneIdlePerKey
  <2>6. WiresOwned'
    <3>1. \A l \in Links \ unread' : decrypted'[l] = <<>>
      BY DEF IInv, WiresOwned
    <3>2. \A l \in Links :
            links'[l] = "new" => l \notin unread' /\ toServer'[l] = <<>> /\ inbox'[l] = <<>>
      BY <1>1, <1>5 DEF IInv, WiresOwned
    <3>3. \A e \in pool' : e.link \in unread' \/ toServer'[e.link] = <<>>
      BY <1>2, <2>1 DEF IInv, WiresOwned
    <3> QED
      BY <3>1, <3>2, <3>3 DEF WiresOwned
  <2> QED
    BY <1>4, <2>4, <2>5, <2>6 DEF Core
<1>6. CASE Discard({link}) /\ pool' = pool
  <2>1. Open' = Open \ {link}
        /\ (\A l \in Links : links'[l] = "new" <=> links[l] = "new")
        /\ \A l \in Links : closes'[l] = IF links'[l] = "closed" THEN 1 ELSE 0
    BY <1>1, <1>6, DiscardOpen
  <2>2. LinksOwnedOnce'
    BY <1>1, <1>6, <2>1 DEF LinksOwnedOnce, LinksOf, InUse, Open, IInv
  <2>3. OneIdlePerKey'
    BY <1>3, <1>6 DEF OneIdlePerKey
  <2>4. WiresOwned'
    <3>1. \A l \in Links \ unread' : decrypted'[l] = <<>>
      BY DEF IInv, WiresOwned
    <3>2. \A l \in Links :
            links'[l] = "new" => l \notin unread' /\ toServer'[l] = <<>> /\ inbox'[l] = <<>>
      BY <1>1, <2>1 DEF IInv, WiresOwned
    <3>3. \A e \in pool' : e.link \in unread' \/ toServer'[e.link] = <<>>
      BY <1>6 DEF IInv, WiresOwned
    <3> QED
      BY <3>1, <3>2, <3>3 DEF WiresOwned
  <2> QED
    BY <1>4, <2>2, <2>3, <2>4 DEF Core
<1> QED
  BY <1>5, <1>6

\* fetch opens nothing and takes nothing.
LEMMA CoreFetch ==
  ASSUME IInv, fetch
  PROVE  Core'
<1>1. phase = "idle" /\ phase' = "acquire" /\ repeated' = FALSE
      /\ UNCHANGED <<poolVars, sockVars, wireVars>>
  BY DEF fetch, StartExchange
<1>2. LinksOwnedOnce'
  BY <1>1 DEF IInv, LinksOwnedOnce, LinksOf, InUse
<1>3. OneIdlePerKey' /\ RetryOnNewLink' /\ RetryFindsNone'
  BY <1>1 DEF IInv, OneIdlePerKey, RetryOnNewLink, RetryFindsNone
<1>4. WiresOwned'
  BY <1>1 DEF IInv, WiresOwned
<1> QED
  BY <1>2, <1>3, <1>4 DEF Core

\* take: what it closes leaves the pool, what it finds is in use.
LEMMA CoreKeptLink ==
  ASSUME IInv, acquire_kept
  PROVE  Core'
<1>1. /\ phase = "acquire" /\ phase' = "write"
      /\ UNCHANGED <<clock, wireVars, repeated, fetchVars, histVars>>
  BY DEF acquire_kept
<1>2. PICK cutoff \in 0..clock :
        /\ Candidates(Key(req.url), cutoff) # {}
        /\ LET found == Oldest(Candidates(Key(req.url), cutoff))
           IN  /\ pool' = pool \ (Stale(cutoff) \cup {found})
               /\ link' = found.link
        /\ Discard(LinksOf(Stale(cutoff)))
  BY DEF acquire_kept
<1> DEFINE found == Oldest(Candidates(Key(req.url), cutoff))
           S == Stale(cutoff)
<1>3. /\ found \in pool /\ found \notin S /\ found.key = Key(req.url)
  BY <1>2, OldestIs DEF Candidates
<1>4. Idle(found.link)
  BY <1>3 DEF Stale
<1>5. S \subseteq pool /\ pool' = pool \ (S \cup {found}) /\ link' = found.link
  BY <1>2 DEF Stale
<1> HIDE DEF found, S
<1>6. /\ Open = LinksOf(pool) /\ \A e, f \in pool : e.link = f.link => e = f
      /\ found.link \in Links
  BY <1>1, <1>3 DEF IInv, TypeOK, LinksOwnedOnce, InUse, Open
<1>7. LinksOf(S) \in SUBSET Open /\ LinksOf(pool') \cup {found.link} = Open \ LinksOf(S)
      /\ found.link \notin LinksOf(pool')
  BY <1>3, <1>5, <1>6 DEF LinksOf
<1>8. Open' = Open \ LinksOf(S)
      /\ (\A l \in Links : links'[l] = "new" <=> links[l] = "new")
      /\ \A l \in Links : closes'[l] = IF links'[l] = "closed" THEN 1 ELSE 0
  BY <1>2, <1>7, DiscardOpen DEF S
<1>9. LinksOwnedOnce'
  <2>1. InUse' = {found.link}
    BY <1>1, <1>5 DEF InUse
  <2>2. \A e, f \in pool' : e.link = f.link => e = f
    BY <1>5, <1>6
  <2> QED
    BY <1>7, <1>8, <2>1, <2>2 DEF LinksOwnedOnce, Open, LinksOf
<1>10. \A e, f \in pool : e.key = f.key => e = f
  BY DEF IInv, OneIdlePerKey
<1>11. req' = req
  BY <1>1 DEF req, rid
<1>12. OneIdlePerKey'
  BY <1>3, <1>5, <1>10, <1>11 DEF OneIdlePerKey, Key
<1>13. ~repeated
  BY <1>1, <1>3 DEF IInv, RetryFindsNone, TypeOK
<1>14. RetryOnNewLink' /\ RetryFindsNone'
  BY <1>1, <1>13 DEF RetryOnNewLink, RetryFindsNone
<1>15. WiresOwned'
  BY <1>1, <1>3, <1>4, <1>5, <1>8 DEF IInv, WiresOwned, Idle
<1> QED
  BY <1>9, <1>12, <1>14, <1>15 DEF Core

\* take finds nothing: a connection is opened, or the fetch fails.
LEMMA CoreNewLink ==
  ASSUME IInv, acquire_new
  PROVE  Core'
<1>1. /\ phase = "acquire" /\ reused' = FALSE
      /\ UNCHANGED <<clock, wireVars, repeated, fetchVars, reqs, served>>
  BY DEF acquire_new
<1>2. PICK cutoff \in 0..clock :
        /\ Candidates(Key(req.url), cutoff) = {}
        /\ pool' = pool \ Stale(cutoff)
        /\ LET D == LinksOf(Stale(cutoff))
               fresh == {l \in Links : links[l] = "new"}
           IN  \/ /\ fresh # {}
                  /\ link' = CHOOSE l \in fresh : TRUE
                  /\ links' = [l \in Links |-> IF l \in D THEN "closed"
                                               ELSE IF l = link' THEN "open" ELSE links[l]]
                  /\ closes' = [l \in Links |-> IF l \in D THEN closes[l] + 1 ELSE closes[l]]
                  /\ phase' = "write" /\ UNCHANGED result
               \/ /\ Discard(D)
                  /\ link' = NoLink /\ Finish("error")
  BY DEF acquire_new
<1> DEFINE S == Stale(cutoff)
           D == LinksOf(S)
<1>3. S \subseteq pool /\ pool' = pool \ S /\ \A e \in pool' : e.key # Key(req.url)
  BY <1>2 DEF Stale, Candidates
<1>4. \/ /\ link' \in Links /\ links[link'] = "new" /\ phase' = "write"
         /\ links' = [l \in Links |-> IF l \in D THEN "closed"
                                      ELSE IF l = link' THEN "open" ELSE links[l]]
         /\ closes' = [l \in Links |-> IF l \in D THEN closes[l] + 1 ELSE closes[l]]
      \/ Discard(D) /\ phase' = "idle"
  BY <1>2 DEF Finish
<1> HIDE DEF S
<1>5. Open = LinksOf(pool) /\ \A e, f \in pool : e.link = f.link => e = f
  BY <1>1 DEF IInv, TypeOK, LinksOwnedOnce, InUse, Open
<1>6. D \in SUBSET Open /\ LinksOf(pool') = Open \ D
  BY <1>3, <1>5 DEF LinksOf
<1> HIDE DEF D
<1>7. req' = req
  BY <1>1 DEF req, rid
<1>8. OneIdlePerKey'
  BY <1>3, <1>7 DEF IInv, OneIdlePerKey, Key
<1>9. RetryOnNewLink' /\ RetryFindsNone'
  BY <1>1, <1>4 DEF RetryOnNewLink, RetryFindsNone
<1>10. \A e, f \in pool' : e.link = f.link => e = f
  BY <1>3, <1>5
<1>11. CASE Discard(D) /\ phase' = "idle"
  <2>1. Open' = Open \ D
        /\ (\A l \in Links : links'[l] = "new" <=> links[l] = "new")
        /\ \A l \in Links : closes'[l] = IF links'[l] = "closed" THEN 1 ELSE 0
    BY <1>6, <1>11, DiscardOpen
  <2>2. LinksOwnedOnce'
    BY <1>6, <1>10, <1>11, <2>1 DEF LinksOwnedOnce, InUse, Open, LinksOf
  <2>3. WiresOwned'
    BY <1>1, <1>3, <1>11, <2>1 DEF IInv, WiresOwned
  <2> QED
    BY <1>8, <1>9, <2>2, <2>3 DEF Core
<1>12. CASE /\ link' \in Links /\ links[link'] = "new" /\ phase' = "write"
            /\ links' = [l \in Links |-> IF l \in D THEN "closed"
                                         ELSE IF l = link' THEN "open" ELSE links[l]]
            /\ closes' = [l \in Links |-> IF l \in D THEN closes[l] + 1 ELSE closes[l]]
  <2>1. \A l \in D : links[l] = "open"
    BY <1>6 DEF Open
  <2>2. Open' = (Open \ D) \cup {link'} /\ link' \notin Open
        /\ \A l \in Links : links'[l] = "new" => links[l] = "new"
    BY <1>12, <2>1 DEF Open
  <2>3. \A l \in Links : closes'[l] = IF links'[l] = "closed" THEN 1 ELSE 0
    <3>1. \A l \in Links : closes[l] = IF links[l] = "closed" THEN 1 ELSE 0
      BY DEF IInv, LinksOwnedOnce
    <3> QED
      BY <1>12, <2>1, <3>1
  <2>4. InUse' = {link'}
    BY <1>12 DEF InUse
  <2>5. LinksOwnedOnce'
    BY <1>6, <1>10, <2>2, <2>3, <2>4 DEF LinksOwnedOnce, Open, LinksOf
  <2>6. WiresOwned'
    BY <1>1, <1>3, <1>12, <2>2 DEF IInv, WiresOwned
  <2> QED
    BY <1>8, <1>9, <2>5, <2>6 DEF Core
<1> QED
  BY <1>4, <1>11, <1>12

\* The request goes out on empty wires.
LEMMA CoreWritten ==
  ASSUME IInv, phase = "write", phase' = "read",
         toServer' = IF peerClosed[link] THEN toServer
                     ELSE [toServer EXCEPT ![link] = Append(@, rid)],
         UNCHANGED <<poolVars, sockVars, peerClosed, inbox, tlsVars, link, reused, repeated, reqs>>
  PROVE  Core'
<1>1. link \in Links /\ link \notin LinksOf(pool) /\ links[link] = "open" /\ rid \in Nat
  BY DEF IInv, TypeOK, LinksOwnedOnce, InUse, rid
<1>2. LinksOwnedOnce'
  BY DEF IInv, LinksOwnedOnce, InUse, LinksOf
<1>3. OneIdlePerKey' /\ RetryOnNewLink' /\ RetryFindsNone'
  BY DEF IInv, OneIdlePerKey, RetryOnNewLink, RetryFindsNone, req, rid
<1>4. /\ link \in unread \/ (toServer[link] = <<>> /\ inbox[link] = <<>>)
      /\ toServer \in [Links -> Seq(Nat)]
  BY DEF IInv, WiresOwned, TypeOK
<1>5. (link \in unread \/ toServer'[link] \in {<<>>, <<rid>>})
      /\ \A l \in Links \ {link} : toServer'[l] = toServer[l]
  <2>1. ASSUME link \notin unread PROVE toServer'[link] \in {<<>>, <<rid>>}
    <3>1. toServer[link] = <<>> /\ Append(<<>>, rid) = <<rid>>
      BY <1>1, <1>4, <2>1
    <3>2. toServer'[link] = toServer[link] \/ toServer'[link] = Append(toServer[link], rid)
      BY <1>1, <1>4
    <3> QED
      BY <3>1, <3>2
  <2>2. \A l \in Links \ {link} : toServer'[l] = toServer[l]
    BY <1>1, <1>4
  <2> QED
    BY <2>1, <2>2
<1>6. \A e \in pool : e.link \in Links \ {link}
  BY <1>1 DEF LinksOf, IInv, TypeOK
<1>7. rid' = rid
  BY DEF rid
<1>8. WiresOwned'
  BY <1>1, <1>4, <1>5, <1>6, <1>7 DEF IInv, WiresOwned
<1> QED
  BY <1>2, <1>3, <1>8 DEF Core

\* A server answers: on an open connection that is the request in progress.
LEMMA CoreAnswered ==
  ASSUME IInv, NEW l \in Links, ServerAnswers(l)
  PROVE  Core'
<1>1. /\ toServer[l] # <<>>
      /\ toServer' = [toServer EXCEPT ![l] = Tail(@)]
      /\ UNCHANGED <<poolVars, sockVars, tlsVars, xchgVars, reqs>>
  BY DEF ServerAnswers
<1>2. /\ links[l] # "new"
      /\ l \in unread \/ (l \notin LinksOf(pool) /\ ~(phase = "write" /\ l = link))
  BY <1>1 DEF IInv, WiresOwned, LinksOf
<1>3. LinksOwnedOnce'
  BY <1>1 DEF IInv, LinksOwnedOnce, InUse, LinksOf
<1>4. OneIdlePerKey' /\ RetryOnNewLink' /\ RetryFindsNone'
  BY <1>1 DEF IInv, OneIdlePerKey, RetryOnNewLink, RetryFindsNone, req, rid
<1>5. toServer \in [Links -> Seq(Nat)] /\ inbox \in [Links -> Seq(Nat)] /\ rid \in Nat
      /\ (phase \in {"write", "read"} => link \in Links) /\ \A e \in pool : e.link \in Links
  BY DEF IInv, TypeOK, rid
<1>6. \A k \in Links \ {l} : toServer'[k] = toServer[k]
  BY <1>1, <1>5
<1>7. l \in unread \/ \A e \in pool : e.link # l
  BY <1>2 DEF LinksOf
<1>8. rid' = rid
  BY <1>1 DEF rid
<1>9. CASE l \notin unread /\ links[l] = "open"
  <2>1. l = link /\ phase = "read"
    BY <1>2, <1>9 DEF IInv, LinksOwnedOnce, InUse, TypeOK
  <2>2. inbox[l] = <<>> /\ toServer[l] = <<rid>>
    BY <1>1, <1>9, <2>1 DEF IInv, WiresOwned
  <2>3. Head(toServer[l]) = rid /\ Tail(toServer[l]) = <<>>
    BY <1>5, <2>2
  <2>4. PICK more \in {<<>>, <<Surplus>>} : inbox' = [inbox EXCEPT ![l] = Append(@, rid) \o more]
    BY <1>9, <2>3 DEF ServerAnswers
  <2>5. inbox'[l] = <<rid>> \o more
    BY <1>5, <2>2, <2>4
  <2>6. <<rid>> \o <<>> = <<rid>> /\ <<rid>> \o <<Surplus>> = <<rid, Surplus>>
    <3>1. rid \in Nat /\ Surplus \in Nat
      BY <1>5 DEF Surplus
    <3> QED
      BY <3>1, ShortConcat
  <2>7. inbox'[l] \in {<<rid>>, <<rid, Surplus>>} /\ toServer'[l] = <<>>
    BY <1>1, <1>5, <2>3, <2>5, <2>6
  <2>8. \A k \in Links \ {l} : inbox'[k] = inbox[k]
    BY <1>5, <2>4
  <2>9. WiresOwned'
    BY <1>1, <1>2, <1>5, <1>6, <1>7, <1>8, <2>1, <2>7, <2>8 DEF IInv, WiresOwned, Surplus
  <2> QED
    BY <1>3, <1>4, <2>9 DEF Core
<1>10. CASE l \notin unread /\ links[l] # "open"
  <2>1. inbox' = inbox
    BY <1>10 DEF ServerAnswers
  <2>2. phase \in {"write", "read"} => l # link
    BY <1>10 DEF IInv, LinksOwnedOnce, InUse
  <2>3. WiresOwned'
    BY <1>1, <1>2, <1>5, <1>6, <1>7, <1>8, <2>1, <2>2 DEF IInv, WiresOwned
  <2> QED
    BY <1>3, <1>4, <2>3 DEF Core
<1>11. CASE l \in unread
  <2>1. \A k \in Links \ {l} : inbox'[k] = inbox[k]
    BY <1>5 DEF ServerAnswers
  <2>2. WiresOwned'
    BY <1>1, <1>2, <1>5, <1>6, <1>8, <1>11, <2>1 DEF IInv, WiresOwned
  <2> QED
    BY <1>3, <1>4, <2>2 DEF Core
<1> QED
  BY <1>9, <1>10, <1>11

\* Every step keeps the accounts of connections and wires.
LEMMA CoreStep == IInv /\ [Next]_vars => Core'
<1> SUFFICES ASSUME IInv, [Next]_vars PROVE Core'
  OBVIOUS
<1>1. CASE fetch
  BY <1>1, CoreFetch
<1>2. CASE close
  BY <1>2, CoreClose
<1>3. CASE acquire_kept
  BY <1>3, CoreKeptLink
<1>4. CASE acquire_new
  BY <1>4, CoreNewLink
<1>5. CASE write_request
  <2>1. CASE Failed(FALSE) /\ UNCHANGED wireVars
    BY <1>5, <2>1, CoreFailed DEF write_request
  <2>2. CASE /\ toServer' = IF peerClosed[link] THEN toServer
                            ELSE [toServer EXCEPT ![link] = Append(@, rid)]
             /\ phase' = "read"
             /\ UNCHANGED <<poolVars, sockVars, peerClosed, inbox, tlsVars, link, reused,
                            repeated, fetchVars, reqs, served, result>>
    BY <1>5, <2>2, CoreWritten DEF write_request
  <2> QED
    BY <1>5, <2>1, <2>2 DEF write_request
<1>6. CASE read_fails
  BY <1>6, CoreFailed DEF read_fails
<1>7. CASE exchange_returns \/ exchange_rejected
  BY <1>7, CoreSettled DEF exchange_returns, exchange_rejected, Finish
<1>8. CASE redirect
  BY <1>8, CoreSettled DEF redirect, StartExchange
<1>9. ASSUME NEW l \in Links, ServerAnswers(l) PROVE Core'
  BY <1>9, CoreAnswered
<1>10. ASSUME NEW l \in Links, ServerCloses(l) PROVE Core'
  BY <1>10, CoreKept DEF ServerCloses
<1>11. CASE OnlyWaits
  BY <1>11, CoreKept DEF OnlyWaits
<1> QED
  BY <1>1, <1>2, <1>3, <1>4, <1>5, <1>6, <1>7, <1>8, <1>9, <1>10, <1>11, WaitsAlone DEF Next, Exchange

-----------------------------------------------------------------------------
(* The theorems.                                                             *)

\* Every step of the client and of its servers preserves the invariant.
THEOREM Invariance == Spec => []IInv
<1>1. IInv /\ [Next]_vars => IInv'
  BY TypeStep, CoreStep, ChainStep DEF IInv, Core, Chain
<1> QED
  BY InitInv, <1>1, PTL DEF Spec

\* Client keeps the shape of its pool, its connections and its requests.
THEOREM TypeCorrect == Spec => []TypeOK
<1>1. IInv => TypeOK
  BY DEF IInv
<1> QED
  BY Invariance, <1>1, PTL

\* exchange, take, keep and close never leak a connection, lend one twice or
\* close one twice.
THEOREM NoLinkLeaks == Spec => []LinksOwnedOnce
<1>1. IInv => LinksOwnedOnce
  BY DEF IInv
<1> QED
  BY Invariance, <1>1, PTL

\* keep never finds another connection of the same scheme, host and port.
THEOREM PoolHoldsOnePerKey == Spec => []OneIdlePerKey
<1>1. IInv => OneIdlePerKey
  BY DEF IInv
<1> QED
  BY Invariance, <1>1, PTL

\* The second try of exchange never runs on a connection from the pool.
THEOREM RetryIsFresh == Spec => []RetryOnNewLink
<1>1. IInv => RetryOnNewLink
  BY DEF IInv
<1> QED
  BY Invariance, <1>1, PTL

\* read_response never returns an answer to another request, on a link whose
\* TLS session was never left holding bytes.
THEOREM AnswerMatches == Spec => []ResponseIsOurs
<1>1. IInv => ResponseIsOurs
  <2> SUFFICES ASSUME IInv, phase = "read", link \notin unread, Stream(link) # <<>>
               PROVE  Head(Stream(link)) = rid
    BY DEF ResponseIsOurs
  <2>1. link \in Links /\ Stream(link) = inbox[link]
    BY StreamType DEF IInv, WiresOwned, TypeOK
  <2>2. inbox[link] \in {<<rid>>, <<rid, Surplus>>}
    BY <2>1 DEF IInv, WiresOwned
  <2> QED
    BY <2>1, <2>2
<1> QED
  BY Invariance, <1>1, PTL

\* fetch never sends the caller's credentials to another host or port.
THEOREM CredentialsKept == Spec => []CredentialsStayHome
<1>1. IInv => CredentialsStayHome
  BY DEF IInv
<1> QED
  BY Invariance, <1>1, PTL

\* fetch never follows a chain from https to http.
THEOREM StaysOnHttps == Spec => []NoDowngrade
<1>1. IInv => NoDowngrade
  BY DEF IInv
<1> QED
  BY Invariance, <1>1, PTL

-----------------------------------------------------------------------------
(* How often a request is carried out.                                       *)

Holds(s) == {s[i] : i \in 1..Len(s)}
Distinct(s) == \A i, j \in 1..Len(s) : s[i] = s[j] => i = j

\* The connections that carry request r to a server, and the servers that have
\* it or will have it.
Carrying(r) == {l \in Links : r \in Holds(toServer[l])}
Tried(r) == served[r] + Cardinality(Carrying(r))
Allowed(r) == IF repeatable(reqs[r].verb) THEN 2 ELSE 1

(* NotRepeated counts what servers did; a request still on a wire may yet be *)
(* served, so the invariant counts both, and what each phase of exchange has *)
(* used up.  The retry's connection carries nothing.                         *)
Wires == \A l \in Links : Holds(toServer[l]) \subseteq 1..rid /\ Distinct(toServer[l])

Tries ==
  /\ rid \in 0..MaxReqs /\ Wires
  /\ \A r \in 1..MaxReqs : r > rid => served[r] = 0
  /\ \A r \in 1..rid : Tried(r) <= Allowed(r)
  /\ phase # "idle" /\ repeated => repeatable(req.verb)
  /\ phase \in {"acquire", "write"} => Tried(rid) <= IF repeated THEN 1 ELSE 0
  /\ phase = "read" => Tried(rid) <= IF repeated THEN 2 ELSE 1
  /\ phase = "write" => link \notin Carrying(rid)

\* Counting connections.
LEMMA LinkSets ==
  ASSUME NEW A \in SUBSET Links
  PROVE  /\ Cardinality(A) \in Nat /\ (Cardinality(A) = 0 <=> A = {})
         /\ \A l : Cardinality(A \cup {l}) <= Cardinality(A) + 1
         /\ \A l \in A : Cardinality(A \ {l}) = Cardinality(A) - 1
<1>1. 1 \in Int /\ MaxLinks \in Int
  BY HttpConstants
<1>2. IsFiniteSet(Links)
  BY <1>1, FS_Interval DEF Links
<1>3. IsFiniteSet(A)
  BY <1>2, FS_Subset
<1>4. Cardinality(A) \in Nat /\ (Cardinality(A) = 0 <=> A = {})
  BY <1>3, FS_CardinalityType, FS_EmptySet
<1>5. \A l : Cardinality(A \cup {l}) = IF l \in A THEN Cardinality(A) ELSE Cardinality(A) + 1
  BY <1>3, FS_AddElement
<1>6. \A l : Cardinality(A \ {l}) = IF l \in A THEN Cardinality(A) - 1 ELSE Cardinality(A)
  BY <1>3, FS_RemoveElement
<1> QED
  BY <1>4, <1>5, <1>6

\* Only connections carry requests.
LEMMA CarryingType ==
  ASSUME NEW r
  PROVE  Carrying(r) \in SUBSET Links
  BY DEF Carrying

\* A request written to a wire that does not hold it.
LEMMA AppendHolds ==
  ASSUME NEW s \in Seq(Nat), NEW x \in Nat
  PROVE  /\ Holds(Append(s, x)) = Holds(s) \cup {x}
         /\ Distinct(s) /\ x \notin Holds(s) => Distinct(Append(s, x))
<1>1. /\ Len(s) \in Nat /\ Len(Append(s, x)) = Len(s) + 1 /\ Append(s, x)[Len(s) + 1] = x
      /\ \A i \in 1..Len(s) : Append(s, x)[i] = s[i]
  OBVIOUS
<1>2. \A i \in 1..(Len(s) + 1) : i \in 1..Len(s) \/ i = Len(s) + 1
  BY <1>1
<1>3. Len(s) + 1 \in 1..(Len(s) + 1) /\ 1..Len(s) \subseteq 1..(Len(s) + 1)
  BY <1>1
<1> DEFINE t == Append(s, x)
           n == Len(s) + 1
<1>4. /\ Len(t) = n /\ t[n] = x /\ (\A i \in 1..Len(s) : t[i] = s[i])
      /\ (\A i \in 1..n : i \in 1..Len(s) \/ i = n) /\ n \in 1..n /\ 1..Len(s) \subseteq 1..n
  BY <1>1, <1>2, <1>3
<1> HIDE DEF t, n
<1>5. Holds(t) = Holds(s) \cup {x}
  BY <1>4, Zenon DEF Holds
<1>6. Distinct(s) /\ x \notin Holds(s) => Distinct(t)
  <2> SUFFICES ASSUME Distinct(s), x \notin Holds(s), NEW i \in 1..n, NEW j \in 1..n, t[i] = t[j]
               PROVE  i = j
    BY <1>4, Zenon DEF Distinct
  <2> QED
    BY <1>4, Zenon DEF Distinct, Holds
<1> QED
  BY <1>5, <1>6 DEF t

\* The oldest request leaves a wire that holds it once.
LEMMA TailHolds ==
  ASSUME NEW s \in Seq(Nat), s # <<>>, Distinct(s)
  PROVE  /\ Head(s) \in Holds(s) /\ Holds(Tail(s)) = Holds(s) \ {Head(s)}
         /\ Distinct(Tail(s))
<1>1. /\ Len(s) \in Nat /\ Len(s) >= 1 /\ Len(Tail(s)) = Len(s) - 1 /\ Head(s) = s[1]
      /\ \A i \in 1..(Len(s) - 1) : Tail(s)[i] = s[i + 1]
  OBVIOUS
<1>2. /\ 1 \in 1..Len(s)
      /\ \A i \in 1..(Len(s) - 1) : i + 1 \in 1..Len(s) /\ i + 1 # 1
      /\ \A i \in 1..Len(s) : i = 1 \/ (i - 1 \in 1..(Len(s) - 1) /\ (i - 1) + 1 = i)
      /\ \A i, j \in 1..(Len(s) - 1) : i + 1 = j + 1 => i = j
  BY <1>1
<1>3. Head(s) \in Holds(s)
  BY <1>1, <1>2 DEF Holds
<1>4. \A x : x \in Holds(Tail(s)) => x \in Holds(s) /\ x # Head(s)
  <2> SUFFICES ASSUME NEW i \in 1..(Len(s) - 1) PROVE Tail(s)[i] \in Holds(s) /\ Tail(s)[i] # Head(s)
    BY <1>1, Zenon DEF Holds
  <2>1. Tail(s)[i] = s[i + 1] /\ i + 1 \in 1..Len(s) /\ i + 1 # 1 /\ 1 \in 1..Len(s)
    BY <1>1, <1>2
  <2> QED
    BY <1>1, <2>1, Zenon DEF Holds, Distinct
<1>5. \A x : x \in Holds(s) /\ x # Head(s) => x \in Holds(Tail(s))
  <2> SUFFICES ASSUME NEW i \in 1..Len(s), s[i] # Head(s) PROVE s[i] \in Holds(Tail(s))
    BY Zenon DEF Holds
  <2>1. i - 1 \in 1..(Len(s) - 1) /\ (i - 1) + 1 = i
    BY <1>1, <1>2
  <2>2. Tail(s)[i - 1] = s[i] /\ i - 1 \in 1..Len(Tail(s))
    BY <1>1, <2>1
  <2> QED
    BY <2>2, Zenon DEF Holds
<1>6. Distinct(Tail(s))
  BY <1>1, <1>2 DEF Distinct
<1> QED
  BY <1>3, <1>4, <1>5, <1>6

\* No client has started: nothing was tried.
LEMMA TriesStart == Init => Tries
<1> SUFFICES ASSUME Init PROVE Tries
  OBVIOUS
<1>1. rid = 0 /\ rid \in 0..MaxReqs
  BY HttpConstants DEF Init, rid
<1>2. Wires
  BY DEF Init, Wires, Holds, Distinct
<1> QED
  BY <1>1, <1>2 DEF Init, Tries

\* Steps that touch no wire and start no request.
LEMMA TriedKept ==
  ASSUME UNCHANGED <<toServer, served, reqs>>
  PROVE  /\ rid' = rid /\ req' = req /\ (Wires => Wires')
         /\ \A r : Carrying(r)' = Carrying(r) /\ Tried(r)' = Tried(r) /\ Allowed(r)' = Allowed(r)
<1>1. rid' = rid /\ req' = req
  BY DEF rid, req
<1>2. Wires => Wires'
  BY <1>1 DEF Wires
<1>3. \A r : Carrying(r)' = Carrying(r)
  BY DEF Carrying
<1>4. \A r : Tried(r)' = Tried(r) /\ Allowed(r)' = Allowed(r)
  BY <1>3 DEF Tried, Allowed
<1> QED
  BY <1>1, <1>2, <1>3, <1>4

\* What a phase of exchange allows is within what the method allows.
LEMMA TriedNow ==
  ASSUME TypeOK, Tries, phase # "idle"
  PROVE  /\ rid \in 1..MaxReqs /\ rid \in 1..rid /\ Tried(rid) \in Nat /\ Allowed(rid) \in {1, 2}
         /\ repeated => Allowed(rid) = 2
<1>1. rid \in Nat /\ rid >= 1
  BY ReqType
<1>2. rid \in 1..MaxReqs /\ rid \in 1..rid
  BY <1>1, HttpConstants DEF Tries
<1>3. Tried(rid) \in Nat
  <2>1. served[rid] \in Nat /\ Cardinality(Carrying(rid)) \in Nat
    BY <1>2, LinkSets, CarryingType DEF TypeOK
  <2> QED
    BY <2>1 DEF Tried
<1> QED
  BY <1>2, <1>3 DEF Allowed, Tries, req

\* A new request has been tried nowhere.
LEMMA TriesBegin ==
  ASSUME TypeOK, Tries, NEW r \in Request, StartExchange(r), UNCHANGED <<toServer, served>>
  PROVE  Tries'
<1>1. Len(reqs') = rid + 1 /\ (\A i \in 1..rid : reqs'[i] = reqs[i])
      /\ phase' = "acquire" /\ repeated' = FALSE
  BY StartType
<1>2. rid \in Nat /\ rid < MaxReqs /\ MaxReqs \in Nat
  BY HttpConstants DEF Tries, StartExchange
<1>3. rid' = rid + 1 /\ rid' \in 0..MaxReqs /\ rid + 1 \in 1..MaxReqs /\ rid + 1 \notin 1..rid
      /\ \A i \in 1..rid' : i \in 1..rid \/ i = rid + 1
  BY <1>1, <1>2 DEF rid
<1>4. \A i : Carrying(i)' = Carrying(i) /\ Tried(i)' = Tried(i)
  BY DEF Carrying, Tried
<1>5. Wires'
  <2>1. 1..rid \subseteq 1..rid'
    BY <1>2, <1>3
  <2> QED
    BY <2>1 DEF Wires, Tries
<1>6. Tried(rid + 1) = 0
  <2>1. Carrying(rid + 1) = {}
    BY <1>3 DEF Carrying, Wires, Tries
  <2>2. served[rid + 1] = 0
    BY <1>2, <1>3 DEF Tries
  <2>3. Cardinality(Carrying(rid + 1)) = 0
    BY <2>1, FS_EmptySet
  <2> QED
    BY <2>2, <2>3 DEF Tried
<1>7. \A i \in 1..rid' : Tried(i)' <= Allowed(i)'
  <2> SUFFICES ASSUME NEW i \in 1..rid' PROVE Tried(i)' <= Allowed(i)'
    OBVIOUS
  <2>1. CASE i \in 1..rid
    BY <1>1, <1>4, <2>1 DEF Allowed, Tries
  <2>2. CASE i = rid + 1
    <3>1. Tried(i)' = 0 /\ Allowed(i)' \in {1, 2}
      BY <1>4, <1>6, <2>2 DEF Allowed
    <3> QED
      BY <3>1
  <2> QED
    BY <1>3, <2>1, <2>2
<1>8. \A i \in 1..MaxReqs : i > rid' => served'[i] = 0
  BY <1>2, <1>3 DEF Tries
<1>9. Tried(rid)' = 0
  BY <1>3, <1>4, <1>6 DEF Tried, Carrying
<1> QED
  BY <1>1, <1>3, <1>5, <1>7, <1>8, <1>9 DEF Tries

\* Steps of exchange that touch no wire: the phase changes, and the count with it.
LEMMA TriesQuiet ==
  ASSUME TypeOK, Tries, UNCHANGED <<toServer, served, reqs>>,
         \/ phase' = "idle"
         \/ phase' = phase /\ repeated' = repeated /\ link' = link
         \/ phase = "acquire" /\ phase' = "write" /\ repeated' = repeated
            /\ link' \notin Carrying(rid)
         \/ phase \in {"write", "read"} /\ phase' = "acquire" /\ repeated' = TRUE
            /\ ~repeated /\ repeatable(req.verb)
  PROVE  Tries'
<1>1. /\ rid' = rid /\ req' = req /\ Wires' /\ Tried(rid)' = Tried(rid)
      /\ \A r : Carrying(r)' = Carrying(r) /\ Tried(r)' = Tried(r) /\ Allowed(r)' = Allowed(r)
  BY TriedKept DEF Tries, Tried, Carrying, rid
<1>2. /\ rid' \in 0..MaxReqs /\ (\A r \in 1..MaxReqs : r > rid' => served'[r] = 0)
      /\ \A r \in 1..rid' : Tried(r)' <= Allowed(r)'
  BY <1>1 DEF Tries
<1>3. Carrying(rid)' = Carrying(rid)
  BY <1>1 DEF Carrying
<1>4. CASE phase' = "idle"
  BY <1>1, <1>2, <1>4 DEF Tries
<1>5. CASE phase' = phase /\ repeated' = repeated /\ link' = link
  BY <1>1, <1>2, <1>3, <1>5 DEF Tries
<1>6. CASE phase = "acquire" /\ phase' = "write" /\ repeated' = repeated /\ link' \notin Carrying(rid)
  BY <1>1, <1>2, <1>3, <1>6 DEF Tries
<1>7. CASE phase \in {"write", "read"} /\ phase' = "acquire" /\ repeated' = TRUE
           /\ ~repeated /\ repeatable(req.verb)
  <2>1. Tried(rid) <= 1
    <3>1. Tried(rid) \in Nat /\ (Tried(rid) <= 0 \/ Tried(rid) <= 1)
      BY <1>7, TriedNow DEF Tries
    <3> QED
      BY <3>1
  <2> QED
    BY <1>1, <1>2, <1>7, <2>1 DEF Tries
<1> QED
  BY <1>4, <1>5, <1>6, <1>7

\* A request in phase acquire that is not a retry is on no wire.
LEMMA NotYetSent ==
  ASSUME TypeOK, Tries, phase \in {"acquire", "write"}, ~repeated
  PROVE  Carrying(rid) = {}
<1>1. Tried(rid) <= 0 /\ rid \in 1..MaxReqs
  BY TriedNow DEF Tries
<1>2. served[rid] \in Nat /\ Cardinality(Carrying(rid)) \in Nat
  BY <1>1, LinkSets, CarryingType DEF TypeOK
<1>3. Cardinality(Carrying(rid)) = 0
  BY <1>1, <1>2 DEF Tried
<1> QED
  BY <1>3, LinkSets, CarryingType

\* write_request puts the request on one more wire.
LEMMA TriesWritten ==
  ASSUME TypeOK, Tries, phase = "write", phase' = "read",
         toServer' = IF peerClosed[link] THEN toServer
                     ELSE [toServer EXCEPT ![link] = Append(@, rid)],
         UNCHANGED <<link, repeated, reqs, served>>
  PROVE  Tries'
<1>1. link \in Links /\ rid \in 1..MaxReqs /\ rid \in Nat /\ rid \in 1..rid
      /\ toServer \in [Links -> Seq(Nat)] /\ toServer[link] \in Seq(Nat)
  BY TriedNow, ReqType DEF TypeOK
<1>2. rid' = rid /\ req' = req /\ \A r : Allowed(r)' = Allowed(r)
  BY DEF rid, req, Allowed
<1>3. rid \notin Holds(toServer[link]) /\ Distinct(toServer[link])
      /\ Holds(toServer[link]) \subseteq 1..rid
  BY <1>1 DEF Tries, Carrying, Wires
<1>4. /\ \A l \in Links \ {link} : toServer'[l] = toServer[l]
      /\ Holds(toServer'[link]) \subseteq Holds(toServer[link]) \cup {rid}
      /\ Holds(toServer[link]) \subseteq Holds(toServer'[link])
      /\ Distinct(toServer'[link])
  <2>1. CASE peerClosed[link]
    BY <1>3, <2>1
  <2>2. CASE ~peerClosed[link]
    <3>1. toServer'[link] = Append(toServer[link], rid)
          /\ \A l \in Links \ {link} : toServer'[l] = toServer[l]
      BY <1>1, <2>2
    <3>2. Holds(Append(toServer[link], rid)) = Holds(toServer[link]) \cup {rid}
          /\ Distinct(Append(toServer[link], rid))
      BY <1>1, <1>3, AppendHolds
    <3> QED
      BY <3>1, <3>2, Zenon
  <2> QED
    BY <2>1, <2>2
<1>5. Wires'
  <2> SUFFICES ASSUME NEW l \in Links
               PROVE  Holds(toServer'[l]) \subseteq 1..rid' /\ Distinct(toServer'[l])
    BY DEF Wires
  <2>1. CASE l = link
    BY <1>1, <1>2, <1>3, <1>4, <2>1, Zenon
  <2>2. CASE l # link
    BY <1>2, <1>4, <2>2, Zenon DEF Tries, Wires
  <2> QED
    BY <2>1, <2>2
<1>6. /\ \A r : r # rid => Carrying(r)' = Carrying(r)
      /\ Carrying(rid)' = Carrying(rid) \/ Carrying(rid)' = Carrying(rid) \cup {link}
  BY <1>1, <1>2, <1>4 DEF Carrying
<1>7. /\ Cardinality(Carrying(rid)) \in Nat /\ Cardinality(Carrying(rid)') \in Nat
      /\ Cardinality(Carrying(rid)') <= Cardinality(Carrying(rid)) + 1
  <2>1. /\ Cardinality(Carrying(rid)) \in Nat
        /\ Cardinality(Carrying(rid) \cup {link}) <= Cardinality(Carrying(rid)) + 1
    BY LinkSets, CarryingType
  <2>2. Carrying(rid) \cup {link} \in SUBSET Links
    BY <1>1, CarryingType
  <2>3. Cardinality(Carrying(rid) \cup {link}) \in Nat
    BY <2>2, LinkSets
  <2>4. \/ Cardinality(Carrying(rid)') = Cardinality(Carrying(rid))
        \/ Cardinality(Carrying(rid)') = Cardinality(Carrying(rid) \cup {link})
    BY <1>6, Zenon
  <2> QED
    BY <2>1, <2>3, <2>4
<1>8. Tried(rid)' \in Nat /\ Tried(rid)' <= Tried(rid) + 1 /\ Tried(rid) \in Nat
  <2>1. served[rid] \in Nat /\ served' = served
    BY <1>1 DEF TypeOK
  <2>2. Tried(rid)' = served[rid] + Cardinality(Carrying(rid)')
    BY <1>2, <2>1 DEF Tried
  <2> QED
    BY <1>7, <2>1, <2>2 DEF Tried
<1>9. Tried(rid)' <= IF repeated' THEN 2 ELSE 1
  <2>1. Tried(rid) <= IF repeated THEN 1 ELSE 0
    BY DEF Tries
  <2> QED
    BY <1>8, <2>1
<1>10. \A r \in 1..rid' : Tried(r)' <= Allowed(r)'
  <2> SUFFICES ASSUME NEW r \in 1..rid PROVE Tried(r)' <= Allowed(r)
    BY <1>2
  <2>1. CASE r = rid
    <3>1. Tried(r)' = Tried(rid)' /\ Allowed(r) \in {1, 2} /\ (repeated => Allowed(r) = 2)
      BY <1>2, <2>1, TriedNow DEF Tried, Carrying
    <3> QED
      BY <1>8, <1>9, <3>1 DEF TypeOK
  <2>2. CASE r # rid
    BY <1>6, <2>2 DEF Tried, Tries
  <2> QED
    BY <2>1, <2>2
<1>11. rid' \in 0..MaxReqs /\ \A r \in 1..MaxReqs : r > rid' => served'[r] = 0
  BY <1>2 DEF Tries
<1> QED
  BY <1>2, <1>5, <1>9, <1>10, <1>11 DEF Tries

\* A server carries out a request: what was on the wire is now served.
LEMMA TriesServed ==
  ASSUME TypeOK, Tries, NEW l \in Links, ServerAnswers(l)
  PROVE  Tries'
<1>0. PICK h : h = Head(toServer[l])
  OBVIOUS
<1>1. /\ toServer[l] \in Seq(Nat) /\ toServer[l] # <<>>
      /\ toServer' = [toServer EXCEPT ![l] = Tail(@)]
      /\ served' = [served EXCEPT ![h] = @ + 1]
      /\ UNCHANGED <<reqs, phase, link, repeated>>
  BY <1>0 DEF TypeOK, ServerAnswers
<1>2. rid' = rid /\ req' = req /\ \A r : Allowed(r)' = Allowed(r)
  BY <1>1 DEF rid, req, Allowed
<1>3. Distinct(toServer[l]) /\ Holds(toServer[l]) \subseteq 1..rid
  BY DEF Tries, Wires
<1>4. /\ h \in Holds(toServer[l]) /\ Holds(Tail(toServer[l])) = Holds(toServer[l]) \ {h}
      /\ Distinct(Tail(toServer[l]))
  BY <1>0, <1>1, <1>3, TailHolds
<1>5. h \in 1..rid /\ h \in 1..MaxReqs /\ rid \in Nat
  BY <1>3, <1>4, HttpConstants DEF Tries
<1>6. /\ toServer'[l] = Tail(toServer[l])
      /\ \A k \in Links \ {l} : toServer'[k] = toServer[k]
  BY <1>1 DEF TypeOK
<1>7. Wires'
  <2> SUFFICES ASSUME NEW k \in Links
               PROVE  Holds(toServer'[k]) \subseteq 1..rid' /\ Distinct(toServer'[k])
    BY DEF Wires
  <2>1. CASE k = l
    <3>1. Holds(toServer'[l]) \subseteq 1..rid /\ Distinct(toServer'[l])
      BY <1>3, <1>4, <1>6, Zenon
    <3> QED
      BY <1>2, <2>1, <3>1, Zenon
  <2>2. CASE k # l
    BY <1>2, <1>6, <2>2, Zenon DEF Tries, Wires
  <2> QED
    BY <2>1, <2>2
<1>8. /\ l \in Carrying(h) /\ Carrying(h)' = Carrying(h) \ {l}
      /\ \A r : r # h => Carrying(r)' = Carrying(r)
  BY <1>4, <1>6 DEF Carrying
<1>9. served[h] \in Nat /\ served'[h] = served[h] + 1 /\ \A r \in 1..MaxReqs : r # h => served'[r] = served[r]
  BY <1>1, <1>5 DEF TypeOK
<1>10. /\ Cardinality(Carrying(h)) \in Nat
       /\ Cardinality(Carrying(h) \ {l}) = Cardinality(Carrying(h)) - 1
  BY <1>8, LinkSets, CarryingType
<1>11. Cardinality(Carrying(h)') = Cardinality(Carrying(h)) - 1
  BY <1>8, <1>10
<1>12. \A r \in 1..rid : Tried(r)' = Tried(r)
  <2> SUFFICES ASSUME NEW r \in 1..rid PROVE Tried(r)' = Tried(r)
    OBVIOUS
  <2>1. CASE r = h
    <3>1. Tried(h)' = served'[h] + Cardinality(Carrying(h)')
      BY DEF Tried
    <3>2. Tried(h)' = Tried(h)
      BY <1>9, <1>10, <1>11, <3>1 DEF Tried
    <3> QED
      BY <2>1, <3>2
  <2>2. CASE r # h
    <3>1. r \in 1..MaxReqs
      BY HttpConstants DEF Tries
    <3> QED
      BY <1>8, <1>9, <2>2, <3>1 DEF Tried
  <2> QED
    BY <2>1, <2>2
<1>13. ASSUME phase # "idle" PROVE Tried(rid)' = Tried(rid) /\ Carrying(rid)' \subseteq Carrying(rid)
  <2>1. rid \in 1..rid
    BY <1>13, TriedNow
  <2>2. Tried(rid)' = Tried(rid)
    BY <1>2, <1>12, <2>1 DEF Tried, Carrying
  <2>3. Carrying(rid)' \subseteq Carrying(rid)
    BY <1>2, <1>8 DEF Carrying
  <2> QED
    BY <2>2, <2>3
<1>14. /\ rid' \in 0..MaxReqs /\ (\A r \in 1..MaxReqs : r > rid' => served'[r] = 0)
       /\ \A r \in 1..rid' : Tried(r)' <= Allowed(r)'
  <2>1. \A r \in 1..MaxReqs : r > rid => r # h
    BY <1>5, HttpConstants
  <2> QED
    BY <1>2, <1>9, <1>12, <2>1 DEF Tries
<1>15. /\ phase' # "idle" /\ repeated' => repeatable(req'.verb)
       /\ phase' = "write" => link' \notin Carrying(rid)'
  BY <1>1, <1>2, <1>13 DEF Tries
<1>16. /\ phase' \in {"acquire", "write"} => Tried(rid)' <= IF repeated' THEN 1 ELSE 0
       /\ phase' = "read" => Tried(rid)' <= IF repeated' THEN 2 ELSE 1
  BY <1>1, <1>13 DEF Tries
<1> QED
  BY <1>7, <1>14, <1>15, <1>16 DEF Tries

\* Every step keeps the count.
LEMMA TriesStep == IInv /\ Tries /\ [Next]_vars => Tries'
<1> SUFFICES ASSUME IInv, Tries, [Next]_vars PROVE Tries'
  OBVIOUS
<1>0. TypeOK
  BY DEF IInv
<1>1. CASE fetch
  <2>1. PICK m \in Methods, u \in Urls, c \in Credentials :
          StartExchange([verb |-> m, url |-> u, creds |-> c, body |-> m = "POST", origin |-> u])
    BY <1>1 DEF fetch
  <2>2. [verb |-> m, url |-> u, creds |-> c, body |-> m = "POST", origin |-> u] \in Request
    BY HttpConstants DEF Request
  <2> QED
    BY <1>0, <1>1, <2>1, <2>2, TriesBegin DEF fetch
<1>2. CASE redirect
  <2>1. phase # "idle" /\ UNCHANGED <<toServer, served>>
    BY <1>2 DEF redirect, ReadResponse
  <2>2. PICK next \in Urls, preserve \in BOOLEAN : StartExchange(Redirected(next, preserve))
    BY <1>2 DEF redirect
  <2> QED
    BY <1>0, <2>1, <2>2, RedirectedType, TriesBegin
<1>3. CASE close
  BY <1>0, <1>3, TriesQuiet DEF close
<1>4. CASE acquire_kept
  <2>1. ~repeated
    <3>1. PICK cutoff \in 0..clock : Candidates(Key(req.url), cutoff) # {}
      BY <1>4 DEF acquire_kept
    <3> QED
      BY <1>4, <3>1 DEF IInv, RetryFindsNone, Candidates, acquire_kept
  <2>2. Carrying(rid) = {}
    BY <1>0, <1>4, <2>1, NotYetSent DEF acquire_kept
  <2> QED
    BY <1>0, <1>4, <2>2, TriesQuiet DEF acquire_kept
<1>5. CASE acquire_new
  <2>1. phase' = "idle" \/ (phase' = "write" /\ link' \in Links /\ links[link'] = "new")
    BY <1>5 DEF acquire_new, Finish
  <2>2. phase' = "write" => link' \notin Carrying(rid)
    BY <2>1 DEF IInv, WiresOwned, Carrying, Holds
  <2> QED
    BY <1>0, <1>5, <2>1, <2>2, TriesQuiet DEF acquire_new
<1>6. ASSUME NEW got \in BOOLEAN, Failed(got), UNCHANGED wireVars, phase \in {"write", "read"}
      PROVE  Tries'
  BY <1>0, <1>6, TriesQuiet DEF Failed, Finish
<1>7. CASE write_request
  <2>1. CASE Failed(FALSE) /\ UNCHANGED wireVars
    BY <1>6, <1>7, <2>1 DEF write_request
  <2>2. CASE /\ toServer' = IF peerClosed[link] THEN toServer
                            ELSE [toServer EXCEPT ![link] = Append(@, rid)]
             /\ phase' = "read"
             /\ UNCHANGED <<poolVars, sockVars, peerClosed, inbox, tlsVars, link, reused,
                            repeated, fetchVars, reqs, served, result>>
    BY <1>0, <1>7, <2>2, TriesWritten DEF write_request
  <2> QED
    BY <1>7, <2>1, <2>2 DEF write_request
<1>8. CASE read_fails
  BY <1>6, <1>8 DEF read_fails
<1>9. CASE exchange_returns \/ exchange_rejected
  BY <1>0, <1>9, TriesQuiet DEF exchange_returns, exchange_rejected, ReadResponse, Finish
<1>10. ASSUME NEW l \in Links, ServerAnswers(l) PROVE Tries'
  BY <1>0, <1>10, TriesServed
<1>11. ASSUME NEW l \in Links, ServerCloses(l) PROVE Tries'
  BY <1>0, <1>11, TriesQuiet DEF ServerCloses
<1>12. CASE OnlyWaits
  BY <1>0, <1>12, TriesQuiet DEF OnlyWaits
<1> QED
  BY <1>1, <1>2, <1>3, <1>4, <1>5, <1>7, <1>8, <1>9, <1>10, <1>11, <1>12, WaitsAlone DEF Next, Exchange

\* exchange's retry never makes a server carry out a request twice unless its method
\* may be repeated, and never three times: late answers, lost requests and
\* connections that die at any moment included.
THEOREM RetryIsSafe == Spec => []NotRepeated
<1>1. IInv /\ Tries => NotRepeated
  <2> SUFFICES ASSUME IInv, Tries, NEW r \in 1..rid PROVE served[r] <= Allowed(r)
    BY DEF NotRepeated, Allowed
  <2>1. r \in 1..MaxReqs
    BY HttpConstants DEF Tries
  <2>2. served[r] \in Nat /\ Cardinality(Carrying(r)) \in Nat
    BY <2>1, LinkSets, CarryingType DEF IInv, TypeOK
  <2>3. Tried(r) <= Allowed(r) /\ Allowed(r) \in {1, 2}
    BY DEF Tries, Allowed
  <2> QED
    BY <2>2, <2>3 DEF Tried
<1> QED
  BY <1>1, Invariance, TriesStart, TriesStep, PTL DEF Spec
=============================================================================
